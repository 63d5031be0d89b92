----------------------------- MODULE SessionPool -----------------------------
(***************************************************************************)
(* What mcp-client promises of its persistent sessions: each worker has    *)
(* one slot, a slot is filled only when it is empty and only with a        *)
(* session nobody has had before, and a session taken out of its slot      *)
(* never comes back.                                                       *)
(***************************************************************************)
EXTENDS Naturals

CONSTANTS
  Workers,    (* workers that may own a session                            *)
  Sessions    (* identities of sessions                                    *)

NoSession == 0

VARIABLES
  slot,       (* the session of each worker, or NoSession                  *)
  used        (* sessions ever opened                                      *)

PoolInit ==
  /\ slot = [w \in Workers |-> NoSession]
  /\ used = {}

Fill(w, s) ==
  /\ slot[w] = NoSession
  /\ s \in Sessions \ used
  /\ slot' = [slot EXCEPT ![w] = s]
  /\ used' = used \cup {s}

Empty(w) ==
  /\ slot[w] # NoSession
  /\ slot' = [slot EXCEPT ![w] = NoSession]
  /\ UNCHANGED used

PoolNext == \E w \in Workers : Empty(w) \/ \E s \in Sessions : Fill(w, s)

PoolSpec == PoolInit /\ [][PoolNext]_<<slot, used>>

=============================================================================

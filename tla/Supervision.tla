----------------------------- MODULE Supervision -----------------------------
(***************************************************************************)
(* What a thread promises to the human who supervises it: the turns the    *)
(* model proposes are settled one after the other, each is sent to the     *)
(* tools at most once, and on a word: that of the human, given while this  *)
(* turn was pending, or that of the policy and of the grants.              *)
(***************************************************************************)
EXTENDS Naturals

CONSTANTS
  Calls,      (* the calls a turn may consist of                           *)
  Sensitive,  (* those the policy lets nobody run unasked                  *)
  Grantable   (* the tools a grant may cover                               *)

NoTurn == 0

VARIABLES
  phase,      (* of the turn under way, or "idle"                          *)
  turn,       (* its number, or NoTurn                                     *)
  calls,      (* its calls                                                 *)
  grants,     (* tools the human granted for the session                   *)
  used,       (* numbers of the turns ever proposed                        *)
  executed    (* numbers of the turns sent to the tools                    *)

supervised == <<phase, turn, calls, grants, used, executed>>

Idle == phase = "idle" /\ turn = NoTurn /\ calls = {}

Init == Idle /\ grants = {} /\ used = {} /\ executed = {}

Sanctioned(c) == c \in Sensitive => c.name \in grants \cap Grantable

(* A new turn waits for the human, unless it needs no human.               *)
Propose ==
  /\ phase = "idle"
  /\ turn' \notin used \cup {NoTurn}
  /\ used' = used \cup {turn'}
  /\ calls' \in SUBSET Calls
  /\ \/ phase' = "pending"
     \/ phase' = "automatic" /\ \A c \in calls' : Sanctioned(c)
  /\ UNCHANGED <<grants, executed>>

(* A turn beyond the budget is never put to anybody.                       *)
Discard ==
  /\ phase = "idle"
  /\ used \subseteq used'
  /\ UNCHANGED <<phase, turn, calls, grants, executed>>

(* The human decides on the turn that is pending; to grant is to grant the *)
(* tools of this turn.                                                     *)
Approve ==
  /\ phase = "pending"
  /\ phase' = "approved"
  /\ grants' \in {grants, grants \cup {c.name : c \in calls}}
  /\ UNCHANGED <<turn, calls, used, executed>>

Refuse ==
  /\ phase = "pending"
  /\ phase' = "refused"
  /\ UNCHANGED <<turn, calls, grants, used, executed>>

(* The turn is over, executed or not.                                      *)
Execute ==
  /\ phase \in {"approved", "automatic"}
  /\ turn \notin executed
  /\ executed' = executed \cup {turn}
  /\ Idle'
  /\ UNCHANGED <<grants, used>>

TurnDown ==
  /\ phase = "refused"
  /\ Idle'
  /\ UNCHANGED <<grants, used, executed>>

(* The process restarts: nothing is pending or granted any more.           *)
Forget ==
  /\ Idle'
  /\ grants' = {}
  /\ UNCHANGED <<used, executed>>

Next == Propose \/ Discard \/ Approve \/ Refuse \/ Execute \/ TurnDown \/ Forget

Spec == Init /\ [][Next]_supervised

=============================================================================

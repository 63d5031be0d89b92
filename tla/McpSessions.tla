----------------------------- MODULE McpSessions -----------------------------
(***************************************************************************)
(* The persistent MCP sessions of services/mcp-client/app/main.py: one     *)
(* browser session per worker, opened under that worker's lock, used       *)
(* without it, and dropped without it by whoever sees a call raise.        *)
(*                                                                         *)
(* One HTTP request is several calls to the server in a row, each of which *)
(* looks the session up again.  The event loop runs other requests at      *)
(* every await: while a session is opened, used or closed.                 *)
(***************************************************************************)
EXTENDS Naturals

CONSTANTS
  Workers,        (* worker ids                                            *)
  DefaultWorker,  (* "default", the key of callers that name no worker     *)
  Calls,          (* slots for HTTP requests in flight                     *)
  Received,       (* bound of the model: the kinds of requests received    *)
  VisualCapture,  (* CAMPAIGN_VISUAL_CAPTURE                               *)
  MaxSessions,    (* bound of the model: sessions ever opened              *)
  MaxArrivals,    (* bound of the model: requests ever received            *)
  MaxResets,      (* bound of the model: resets of each worker             *)
  MaxOutages      (* bound of the model: restarts of the browser server    *)

(* GET /tools/schema, or POST /call of a tool whose page must settle, of a *)
(* synthetic tool, of any other tool.                                      *)
Kinds == {"schema", "navigate", "extract", "plain"}

NoCall == "none"

ASSUME SessionsAssumption ==
  /\ DefaultWorker \in Workers
  /\ NoCall \notin Calls
  /\ VisualCapture \in BOOLEAN
  /\ Received \subseteq Kinds
  /\ MaxSessions \in Nat /\ MaxArrivals \in Nat /\ MaxResets \in Nat /\ MaxOutages \in Nat

Sessions == 1..MaxSessions
NoSession == 0

(* The calls a request makes to the server, in this order.                 *)
Steps == {"list", "tool", "wait", "snapshot", "capture"}

VARIABLES
  cached,     (* _persistent_sessions                                      *)
  lock,       (* _persistent_locks: the request holding each               *)
  open,       (* sessions opened and not yet closed                        *)
  closing,    (* sessions popped, whose stack is being closed              *)
  dead,       (* open sessions whose server side is gone                   *)
  opened,     (* sessions opened so far                                    *)
  registry,   (* what _tool_registry holds: the synthetic tools, the real ones *)
  pc,         (* where each request is within its current step             *)
  req,        (* what each request asks, and for which worker              *)
  step,       (* the step each request is at                               *)
  sess,       (* the session each request is using, or closing             *)
  arrivals,   (* requests received so far                                  *)
  outages,    (* restarts of the browser server so far                     *)
  \* What follows records history for the properties; no handler reads it.
  owner,      (* the worker each session was opened for                    *)
  failed,     (* sessions a call has raised on                             *)
  home,       (* the session that ran the tool of each request             *)
  resets,     (* resets of each worker so far                              *)
  wasted      (* sessions dropped because of another session's failure     *)

pool    == <<cached, lock, open, closing, dead, opened>>
request == <<pc, req, step, sess, arrivals>>
history == <<owner, failed, home, resets, wasted>>
vars    == <<pool, registry, request, outages, history>>

Idle == [kind |-> "schema", worker |-> DefaultWorker]

(* Slots, locks and requests only ever hold sessions, requests and workers *)
(* that exist.                                                             *)
TypeOK ==
  /\ cached \in [Workers -> Sessions \cup {NoSession}]
  /\ lock \in [Workers -> Calls \cup {NoCall}]
  /\ open \subseteq Sessions /\ closing \subseteq Sessions /\ dead \subseteq Sessions
  /\ opened \in 0..MaxSessions
  /\ registry \subseteq {"synthetic", "real"}
  /\ pc \in [Calls -> {"idle", "get", "opening", "acting", "dropping"}]
  /\ req \in [Calls -> [kind : Kinds, worker : Workers]]
  /\ step \in [Calls -> Steps]
  /\ sess \in [Calls -> Sessions \cup {NoSession}]
  /\ arrivals \in 0..MaxArrivals
  /\ outages \in 0..MaxOutages
  /\ owner \in [Sessions -> Workers]
  /\ failed \subseteq Sessions /\ wasted \subseteq Sessions
  /\ home \in [Calls -> Sessions \cup {NoSession}]
  /\ resets \in [Workers -> 0..MaxResets]

-----------------------------------------------------------------------------
(* The request *)

(* Faulty variant: a capture that forgets the worker it rides along with.  *)
KeyUnscopedCapture(c) ==
  IF step[c] \in {"list", "capture"} THEN DefaultWorker ELSE req[c].worker

(* _refresh_registry names no worker; every other step names the request's.*)
Key(c) == IF step[c] = "list" THEN DefaultWorker ELSE req[c].worker

Known(kind, tools) ==
  IF kind = "extract" THEN "synthetic" \in tools ELSE "real" \in tools

(* A tool the registry does not know makes the request refresh it first.   *)
CallTool(c, kind, w) ==
  /\ pc[c] = "idle"
  /\ arrivals < MaxArrivals
  /\ arrivals' = arrivals + 1
  /\ pc' = [pc EXCEPT ![c] = "get"]
  /\ req' = [req EXCEPT ![c] = [kind |-> kind, worker |-> w]]
  /\ step' = [step EXCEPT ![c] = IF kind # "schema" /\ Known(kind, registry)
                                 THEN "tool" ELSE "list"]
  /\ home' = [home EXCEPT ![c] = NoSession]
  /\ UNCHANGED <<pool, registry, sess, outages, owner, failed, resets, wasted>>

End(c) ==
  /\ pc' = [pc EXCEPT ![c] = "idle"]
  /\ req' = [req EXCEPT ![c] = Idle]
  /\ step' = [step EXCEPT ![c] = "list"]
  /\ sess' = [sess EXCEPT ![c] = NoSession]

Continue(c, next) ==
  /\ pc' = [pc EXCEPT ![c] = "get"]
  /\ step' = [step EXCEPT ![c] = next]
  /\ sess' = [sess EXCEPT ![c] = NoSession]
  /\ UNCHANGED req

(* What follows a step that returned: the refresh is followed by the tool  *)
(* it was for, unless that is still unknown (404); a tool that changes the *)
(* page by a wait and a look at the page; anything by a capture.           *)
AfterStep(c, tools) ==
  LET next ==
    CASE step[c] = "list" ->
           IF req[c].kind # "schema" /\ Known(req[c].kind, tools) THEN "tool" ELSE "end"
      [] step[c] = "tool" /\ req[c].kind = "navigate" -> "wait"
      [] step[c] = "wait" -> "snapshot"
      [] step[c] = "snapshot" \/ (step[c] = "tool" /\ req[c].kind # "navigate") ->
           IF VisualCapture THEN "capture" ELSE "end"
      [] step[c] = "capture" -> "end"
  IN IF next = "end" THEN End(c) ELSE Continue(c, next)

(* What follows a step that raised: a refresh skips the server, a capture  *)
(* is best effort; any other exception ends the request.                   *)
AfterFailure(c, tools) == IF step[c] = "list" THEN AfterStep(c, tools) ELSE End(c)

-----------------------------------------------------------------------------
(* _get_persistent_session *)

Acquire(c) ==
  /\ pc[c] = "get"
  /\ lock[Key(c)] = NoCall

(* A cached session is returned without suspending: the lock is free again.*)
Reuse(c) ==
  /\ Acquire(c)
  /\ cached[Key(c)] # NoSession
  /\ sess' = [sess EXCEPT ![c] = cached[Key(c)]]
  /\ pc' = [pc EXCEPT ![c] = "acting"]
  /\ UNCHANGED <<pool, registry, req, step, arrivals, outages, history>>

(* Faulty variant: the lock is not held while the session is opened.       *)
StartOpeningUnlocked(c) ==
  /\ Acquire(c)
  /\ cached[Key(c)] = NoSession
  /\ pc' = [pc EXCEPT ![c] = "opening"]
  /\ UNCHANGED <<pool, registry, req, step, sess, arrivals, outages, history>>

StartOpening(c) ==
  /\ Acquire(c)
  /\ cached[Key(c)] = NoSession
  /\ lock' = [lock EXCEPT ![Key(c)] = c]
  /\ pc' = [pc EXCEPT ![c] = "opening"]
  /\ UNCHANGED <<cached, open, closing, dead, opened, registry, req, step, sess,
                 arrivals, outages, history>>

(* _open_session returns and the session is published in the same breath.  *)
OpenSucceeds(c) ==
  /\ pc[c] = "opening"
  /\ opened < MaxSessions
  /\ opened' = opened + 1
  /\ open' = open \cup {opened + 1}
  /\ owner' = [owner EXCEPT ![opened + 1] = Key(c)]
  /\ cached' = [cached EXCEPT ![Key(c)] = opened + 1]
  /\ lock' = [lock EXCEPT ![Key(c)] = NoCall]
  /\ sess' = [sess EXCEPT ![c] = opened + 1]
  /\ pc' = [pc EXCEPT ![c] = "acting"]
  /\ UNCHANGED <<closing, dead, registry, req, step, arrivals, outages, failed, home,
                 resets, wasted>>

(* Faulty variant: the lock is kept by a request that is gone.             *)
OpenFailsLocked(c) ==
  /\ pc[c] = "opening"
  /\ registry' = IF step[c] = "list" THEN registry \cup {"synthetic"} ELSE registry
  /\ AfterFailure(c, registry')
  /\ UNCHANGED <<pool, arrivals, outages, history>>

(* Opening raises (server down): nothing was published, nothing to drop.   *)
OpenFails(c) ==
  /\ pc[c] = "opening"
  /\ lock' = [lock EXCEPT ![Key(c)] = NoCall]
  /\ registry' = IF step[c] = "list" THEN registry \cup {"synthetic"} ELSE registry
  /\ AfterFailure(c, registry')
  /\ UNCHANGED <<cached, open, closing, dead, opened, arrivals, outages, history>>

-----------------------------------------------------------------------------
(* _run_on_server *)

(* The action returns.  A session that is being closed may still answer.   *)
ActSucceeds(c) ==
  /\ pc[c] = "acting"
  /\ sess[c] \in open \ dead
  /\ registry' = IF step[c] = "list" THEN {"synthetic", "real"} ELSE registry
  /\ AfterStep(c, registry')
  /\ home' = IF step[c] = "tool" THEN [home EXCEPT ![c] = sess[c]] ELSE home
  /\ UNCHANGED <<pool, arrivals, outages, owner, failed, resets, wasted>>

(* Faulty variant: the drop loses the worker id.                           *)
DropDefault(w) ==
  /\ cached' = [cached EXCEPT ![DefaultWorker] = NoSession]
  /\ closing' = closing \cup ({cached[DefaultWorker]} \ {NoSession})

(* Faulty variant: what is popped is not closed.                           *)
DropUnclosed(w) ==
  /\ cached' = [cached EXCEPT ![w] = NoSession]
  /\ UNCHANGED closing

(* _drop_persistent_session: pops whatever session the worker has now, and *)
(* closes it.                                                              *)
Drop(w) ==
  /\ cached' = [cached EXCEPT ![w] = NoSession]
  /\ closing' = closing \cup ({cached[w]} \ {NoSession})

(* Faulty variant: the failure of any worker costs the default one's.      *)
ActFailsDefault(c) ==
  /\ pc[c] = "acting"
  /\ Drop(DefaultWorker)
  /\ pc' = [pc EXCEPT ![c] = "dropping"]
  /\ sess' = [sess EXCEPT ![c] = cached[DefaultWorker]]
  /\ failed' = failed \cup {sess[c]}
  /\ wasted' = wasted \cup
       ({cached[DefaultWorker]} \ (failed' \cup dead \cup {NoSession}))
  /\ UNCHANGED <<lock, open, dead, opened, registry, req, step, arrivals, outages,
                 owner, home, resets>>

(* The action raises, because the session is dead, closed under it, or     *)
(* because the server answers with an error: the worker's session goes.    *)
ActFails(c) ==
  /\ pc[c] = "acting"
  /\ Drop(Key(c))
  /\ pc' = [pc EXCEPT ![c] = "dropping"]
  /\ sess' = [sess EXCEPT ![c] = cached[Key(c)]]
  /\ failed' = failed \cup {sess[c]}
  /\ wasted' = wasted \cup ({cached[Key(c)]} \ (failed' \cup dead \cup {NoSession}))
  /\ UNCHANGED <<lock, open, dead, opened, registry, req, step, arrivals, outages,
                 owner, home, resets>>

(* Its stack is closed: the exception goes on.                             *)
Dropped(c) ==
  /\ pc[c] = "dropping"
  /\ sess[c] \notin closing
  /\ registry' = IF step[c] = "list" THEN registry \cup {"synthetic"} ELSE registry
  /\ AfterFailure(c, registry')
  /\ UNCHANGED <<pool, arrivals, outages, history>>

CloseSession(s) ==
  /\ s \in closing
  /\ closing' = closing \ {s}
  /\ open' = open \ {s}
  /\ dead' = dead \ {s}
  /\ UNCHANGED <<cached, lock, opened, registry, request, outages, history>>

(* POST /reset-session/browser: between two tasks of a worker.             *)
ResetSession(w) ==
  /\ resets[w] < MaxResets
  /\ Drop(w)
  /\ resets' = [resets EXCEPT ![w] = @ + 1]
  /\ UNCHANGED <<lock, open, dead, opened, registry, request, outages, owner, failed,
                 home, wasted>>

(* The browser server restarts: the sessions it had are gone.  External.   *)
ServerRestarts ==
  /\ outages < MaxOutages
  /\ outages' = outages + 1
  /\ dead' = dead \cup open
  /\ UNCHANGED <<cached, lock, open, closing, opened, registry, request, history>>

-----------------------------------------------------------------------------

Init ==
  /\ cached = [w \in Workers |-> NoSession]
  /\ lock = [w \in Workers |-> NoCall]
  /\ open = {} /\ closing = {} /\ dead = {} /\ opened = 0
  /\ registry = {}
  /\ pc = [c \in Calls |-> "idle"]
  /\ req = [c \in Calls |-> Idle]
  /\ step = [c \in Calls |-> "list"]
  /\ sess = [c \in Calls |-> NoSession]
  /\ arrivals = 0 /\ outages = 0
  /\ owner = [s \in Sessions |-> DefaultWorker]
  /\ failed = {} /\ wasted = {}
  /\ home = [c \in Calls |-> NoSession]
  /\ resets = [w \in Workers |-> 0]

Serve(c) ==
  \/ Reuse(c) \/ StartOpening(c) \/ OpenSucceeds(c) \/ OpenFails(c)
  \/ ActSucceeds(c) \/ ActFails(c) \/ Dropped(c)

Next ==
  \/ \E c \in Calls :
       \/ Serve(c)
       \/ \E kind \in Received, w \in Workers : CallTool(c, kind, w)
  \/ \E s \in Sessions : CloseSession(s)
  \/ \E w \in Workers : ResetSession(w)
  \/ ServerRestarts

Spec == Init /\ [][Next]_vars

(* The event loop resumes whoever can go on, the server or its transport   *)
(* ends every call, and closing a stack ends.                              *)
FairSpec ==
  /\ Spec
  /\ \A c \in Calls : WF_vars(Serve(c))
  /\ \A s \in Sessions : WF_vars(CloseSession(s))

-----------------------------------------------------------------------------
(* Properties *)

(* Every browser session the server still holds open is the session of a   *)
(* worker, or is being closed: requests that find no session at the same   *)
(* time do not each leave one behind.                                      *)
NoSessionLeaks == open \subseteq {cached[w] : w \in Workers} \cup closing

(* A request never acts in another worker's browser, not even in the       *)
(* follow-ups it makes on its own.                                         *)
WorkersAreIsolated ==
  \A c \in Calls :
    pc[c] = "acting" /\ step[c] # "list" => owner[sess[c]] = req[c].worker

(* No worker stays stuck on a dead connection: a session that has made a   *)
(* call raise is not handed out again.                                     *)
FailedSessionsAreNotReused == \A w \in Workers : cached[w] \notin failed

(* Two requests never open a session for one worker at the same time.      *)
OneOpenerPerWorker ==
  \A c, d \in Calls :
    pc[c] = "opening" /\ pc[d] = "opening" /\ Key(c) = Key(d) => c = d

(* Every request ends, whatever the server, the other requests and the     *)
(* resets do: no lock is kept by a request that is gone.                   *)
EveryCallEnds == \A c \in Calls : pc[c] # "idle" ~> pc[c] = "idle"

(* The worker's slots behave as SessionPool says.                          *)
Pool == INSTANCE SessionPool WITH slot <- cached, used <- 1..opened

PoolRefinement == Pool!PoolSpec

(* A healthy session is closed only in the aftermath of a failure of its   *)
(* own worker, on a session older than it: a call that fails never costs   *)
(* another worker its browser, nor does one that failed on a newer session *)
(* (_run_on_server, _drop_persistent_session).                             *)
DropsStayWithTheWorker ==
  \A s \in wasted : \E f \in failed : owner[f] = owner[s] /\ f < s

(* The wait, the snapshot and the capture that follow a tool look at the   *)
(* page it left, unless its session was dropped in between: only then is   *)
(* it another browser they see (call_tool, _get_persistent_session).       *)
FollowUpsStayHome ==
  \A c \in Calls :
    /\ pc[c] = "acting" /\ step[c] \in {"wait", "snapshot", "capture"}
    /\ sess[c] # home[c]
    => home[c] \notin {cached[w] : w \in Workers}

=============================================================================

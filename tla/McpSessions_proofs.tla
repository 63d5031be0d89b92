------------------------- MODULE McpSessions_proofs -------------------------
(***************************************************************************)
(* What holds of McpSessions for every set of workers and requests, and    *)
(* that it implements SessionPool.                                         *)
(***************************************************************************)
EXTENDS McpSessions, TLAPS

(* Who opens holds the lock of an empty slot; a slot holds a session of    *)
(* its own worker that no call has failed on; a request acts on a session  *)
(* of the worker it looked up.                                             *)
Opening == \A c \in Calls :
  pc[c] = "opening" => lock[Key(c)] = c /\ cached[Key(c)] = NoSession

Owned == \A w \in Workers :
  cached[w] # NoSession =>
    cached[w] \in 1..opened /\ owner[cached[w]] = w /\ cached[w] \notin failed

Acting == \A c \in Calls :
  pc[c] = "acting" => sess[c] \in 1..opened /\ owner[sess[c]] = Key(c)

IInv == TypeOK /\ Opening /\ Owned /\ Acting /\ failed \subseteq 1..opened /\ NoSessionLeaks

-----------------------------------------------------------------------------
(* Steps that only move requests along. *)

LEMMA KeyType == ASSUME TypeOK, NEW c \in Calls PROVE Key(c) \in Workers
BY SessionsAssumption DEF Key, TypeOK

LEMMA InitInv == Init => IInv
<1> SUFFICES ASSUME Init PROVE IInv
  OBVIOUS
<1>1. TypeOK
  BY SessionsAssumption
  DEF Init, TypeOK, Idle, Kinds, Steps, Sessions, NoSession, NoCall
<1>2. Opening /\ Owned /\ Acting /\ failed \subseteq 1..opened /\ NoSessionLeaks
  BY SessionsAssumption DEF Init, Opening, Owned, Acting, NoSessionLeaks, NoSession
<1> QED
  BY <1>1, <1>2 DEF IInv

(* A request that ends its step is neither opening nor acting any more.    *)
Ended(c) ==
  /\ pc' \in [Calls -> {"idle", "get", "opening", "acting", "dropping"}]
  /\ req' \in [Calls -> [kind : Kinds, worker : Workers]]
  /\ step' \in [Calls -> Steps]
  /\ sess' \in [Calls -> Sessions \cup {NoSession}]
  /\ pc'[c] \in {"idle", "get"}
  /\ \A d \in Calls : d # c => /\ pc'[d] = pc[d] /\ req'[d] = req[d]
                              /\ step'[d] = step[d] /\ sess'[d] = sess[d]

LEMMA StepEnds ==
  ASSUME TypeOK, NEW c \in Calls, NEW tools,
         AfterStep(c, tools) \/ AfterFailure(c, tools)
  PROVE  Ended(c)
<1>1. End(c) \/ \E next \in Steps : Continue(c, next)
  <2>1. step[c] \in Steps
    BY DEF TypeOK
  <2> QED
    BY <2>1 DEF AfterFailure, AfterStep, Steps
<1>2. CASE End(c)
  BY <1>2, SessionsAssumption DEF End, Ended, TypeOK, Idle, Kinds, Steps
<1>3. ASSUME NEW next \in Steps, Continue(c, next)
      PROVE  Ended(c)
  BY <1>3 DEF Continue, Ended, TypeOK
<1> QED
  BY <1>1, <1>2, <1>3

(* ... so that, whatever it frees, nothing but its own lock has changed.   *)
LEMMA EndedInv ==
  ASSUME IInv, NEW c \in Calls, Ended(c), TypeOK',
         UNCHANGED <<cached, open, closing, opened, owner, failed>>,
         lock' = lock \/ (pc[c] = "opening" /\ lock' = [lock EXCEPT ![Key(c)] = NoCall])
  PROVE  IInv'
<1>1. Owned' /\ failed' \subseteq 1..opened' /\ NoSessionLeaks'
  BY DEF IInv, Owned, NoSessionLeaks
<1>2. \A d \in Calls : pc'[d] \in {"opening", "acting"} =>
        d # c /\ pc'[d] = pc[d] /\ Key(d)' = Key(d) /\ sess'[d] = sess[d]
  BY DEF Ended, Key
<1>3. Acting'
  BY <1>2 DEF IInv, Acting
<1>4. Opening'
  <2> SUFFICES ASSUME NEW d \in Calls, pc'[d] = "opening"
               PROVE  lock'[Key(d)] = d /\ cached[Key(d)] = NoSession
    BY <1>2 DEF Opening
  <2>1. d # c /\ lock[Key(d)] = d /\ cached[Key(d)] = NoSession
    BY <1>2 DEF IInv, Opening
  <2>2. pc[c] = "opening" => lock[Key(c)] = c
    BY DEF IInv, Opening
  <2> QED
    BY <2>1, <2>2, KeyType DEF IInv, TypeOK
<1> QED
  BY <1>1, <1>3, <1>4 DEF IInv

LEMMA DropType ==
  ASSUME TypeOK, NEW w \in Workers, Drop(w)
  PROVE  cached' \in [Workers -> Sessions \cup {NoSession}] /\ closing' \subseteq Sessions
BY DEF Drop, TypeOK

(* A worker's session that is dropped was not acting for another worker,   *)
(* and is not lost: it is being closed.                                    *)
LEMMA DropInv ==
  ASSUME IInv, NEW w \in Workers, Drop(w), UNCHANGED <<open, opened, owner>>
  PROVE  /\ NoSessionLeaks'
         /\ \A v \in Workers : cached'[v] = IF v = w THEN NoSession ELSE cached[v]
<1>1. \A v \in Workers : cached'[v] = IF v = w THEN NoSession ELSE cached[v]
  BY DEF Drop, IInv, TypeOK
<1>2. ASSUME NEW s \in open
      PROVE  s \in {cached'[v] : v \in Workers} \cup closing'
  <2>1. CASE s \in closing
    BY <2>1 DEF Drop
  <2>2. ASSUME NEW v \in Workers, s = cached[v] PROVE s \in {cached'[u] : u \in Workers} \cup closing'
    <3>1. s # NoSession
      BY DEF IInv, TypeOK, Sessions, NoSession
    <3>2. CASE v = w
      BY <2>2, <3>1, <3>2 DEF Drop
    <3>3. CASE v # w
      BY <1>1, <2>2, <3>3
    <3> QED
      BY <3>2, <3>3
  <2> QED
    BY <2>1, <2>2 DEF IInv, NoSessionLeaks
<1> QED
  BY <1>1, <1>2 DEF NoSessionLeaks

LEMMA StepType == TypeOK /\ Acting /\ [Next]_vars => TypeOK'
<1> SUFFICES ASSUME TypeOK, Acting, [Next]_vars PROVE TypeOK'
  OBVIOUS
<1> USE SessionsAssumption DEF pool, request, history
<1>1. ASSUME NEW c \in Calls, NEW kind \in Received, NEW w \in Workers, CallTool(c, kind, w)
      PROVE  TypeOK'
  <2>1. (IF kind # "schema" /\ Known(kind, registry) THEN "tool" ELSE "list") \in Steps
    BY DEF Steps
  <2>2. [kind |-> kind, worker |-> w] \in [kind : Kinds, worker : Workers]
    OBVIOUS
  <2>3. arrivals + 1 \in 0..MaxArrivals
    BY <1>1 DEF CallTool, TypeOK
  <2> QED
    BY <1>1, <2>1, <2>2, <2>3 DEF CallTool, TypeOK, NoSession
<1>2. ASSUME NEW c \in Calls, Reuse(c)
      PROVE  TypeOK'
  BY <1>2, KeyType DEF Reuse, TypeOK
<1>3. ASSUME NEW c \in Calls, StartOpening(c)
      PROVE  TypeOK'
  BY <1>3 DEF StartOpening, TypeOK
<1>4. ASSUME NEW c \in Calls, OpenSucceeds(c)
      PROVE  TypeOK'
  <2>1. opened + 1 \in Sessions /\ opened + 1 \in 0..MaxSessions
    BY <1>4 DEF OpenSucceeds, TypeOK, Sessions
  <2>2. owner' \in [Sessions -> Workers]
    BY <1>4, <2>1, KeyType DEF OpenSucceeds, TypeOK
  <2> QED
    BY <1>4, <2>1, <2>2 DEF OpenSucceeds, TypeOK
<1>5. ASSUME NEW c \in Calls, OpenFails(c) \/ ActSucceeds(c) \/ Dropped(c)
      PROVE  TypeOK'
  <2>1. Ended(c)
    BY <1>5, StepEnds DEF OpenFails, ActSucceeds, Dropped
  <2>2. registry' \subseteq {"synthetic", "real"}
    BY <1>5 DEF OpenFails, ActSucceeds, Dropped, TypeOK
  <2>3. CASE OpenFails(c) \/ Dropped(c)
    BY <2>1, <2>2, <2>3 DEF OpenFails, Dropped, Ended, TypeOK
  <2>4. CASE ActSucceeds(c)
    <3>1. sess[c] \in Sessions
      BY <2>4 DEF ActSucceeds, TypeOK
    <3>2. home' \in [Calls -> Sessions \cup {NoSession}]
      BY <2>4, <3>1 DEF ActSucceeds, TypeOK
    <3> QED
      BY <2>1, <2>2, <2>4, <3>2 DEF ActSucceeds, Ended, TypeOK
  <2> QED
    BY <1>5, <2>3, <2>4
<1>6. ASSUME NEW c \in Calls, ActFails(c)
      PROVE  TypeOK'
  <2>1. sess[c] \in Sessions
    BY <1>6 DEF ActFails, Acting, TypeOK, Sessions
  <2>2. cached[Key(c)] \in Sessions \cup {NoSession}
    BY KeyType DEF TypeOK
  <2> QED
    BY <1>6, <2>1, <2>2, KeyType, DropType DEF ActFails, TypeOK
<1>7. ASSUME NEW s \in Sessions, CloseSession(s)
      PROVE  TypeOK'
  BY <1>7 DEF CloseSession, TypeOK
<1>8. ASSUME NEW w \in Workers, ResetSession(w)
      PROVE  TypeOK'
  <2>1. resets[w] + 1 \in 0..MaxResets
    BY <1>8 DEF ResetSession, TypeOK
  <2> QED
    BY <1>8, <2>1, DropType DEF ResetSession, TypeOK
<1>9. CASE ServerRestarts
  BY <1>9 DEF ServerRestarts, TypeOK
<1>10. CASE UNCHANGED vars
  BY <1>10 DEF vars, TypeOK
<1> QED
  BY <1>1, <1>2, <1>3, <1>4, <1>5, <1>6, <1>7, <1>8, <1>9, <1>10 DEF Next, Serve

-----------------------------------------------------------------------------
(* The invariant is inductive. *)

LEMMA InvStep == IInv /\ [Next]_vars => IInv'
<1> SUFFICES ASSUME IInv, [Next]_vars PROVE IInv'
  OBVIOUS
<1> USE DEF pool, request, history
<1>1. TypeOK /\ TypeOK'
  BY StepType DEF IInv
<1>2. ASSUME NEW c \in Calls, NEW kind \in Received, NEW w \in Workers, CallTool(c, kind, w)
      PROVE  IInv'
  <2>1. pc'[c] = "get" /\ \A d \in Calls : d # c =>
          pc'[d] = pc[d] /\ step'[d] = step[d] /\ req'[d] = req[d] /\ Key(d)' = Key(d)
    BY <1>1, <1>2 DEF CallTool, TypeOK, Key
  <2>2. Opening' /\ Acting'
    BY <1>2, <2>1 DEF CallTool, IInv, Opening, Acting
  <2> QED
    BY <1>1, <1>2, <2>2 DEF CallTool, IInv, Owned, NoSessionLeaks
<1>3. ASSUME NEW c \in Calls, Reuse(c)
      PROVE  IInv'
  <2>1. /\ pc'[c] = "acting" /\ sess'[c] = cached[Key(c)] /\ cached[Key(c)] # NoSession
        /\ \A d \in Calls : Key(d)' = Key(d) /\ (d # c => pc'[d] = pc[d] /\ sess'[d] = sess[d])
    BY <1>1, <1>3 DEF Reuse, TypeOK, Key
  <2>2. cached[Key(c)] \in 1..opened /\ owner[cached[Key(c)]] = Key(c)
    BY <1>1, <2>1, KeyType DEF IInv, Owned
  <2>3. Opening' /\ Acting'
    BY <1>3, <2>1, <2>2 DEF Reuse, IInv, Opening, Acting
  <2> QED
    BY <1>1, <1>3, <2>3 DEF Reuse, IInv, Owned, NoSessionLeaks
<1>4. ASSUME NEW c \in Calls, StartOpening(c)
      PROVE  IInv'
  <2>1. /\ pc'[c] = "opening" /\ lock[Key(c)] = NoCall /\ cached[Key(c)] = NoSession
        /\ lock' = [lock EXCEPT ![Key(c)] = c] /\ cached' = cached
        /\ \A d \in Calls : Key(d)' = Key(d) /\ (d # c => pc'[d] = pc[d])
    BY <1>1, <1>4 DEF StartOpening, Acquire, TypeOK, Key
  <2>2. Opening'
    <3> SUFFICES ASSUME NEW d \in Calls, pc'[d] = "opening"
                 PROVE  lock'[Key(d)] = d /\ cached[Key(d)] = NoSession
      BY <2>1 DEF Opening
    <3>1. CASE d = c
      BY <1>1, <2>1, <3>1, KeyType DEF TypeOK
    <3>2. CASE d # c
      <4>1. lock[Key(d)] = d /\ cached[Key(d)] = NoSession
        BY <2>1, <3>2 DEF IInv, Opening
      <4>2. Key(d) # Key(c)
        BY <2>1, <4>1, SessionsAssumption
      <4> QED
        BY <1>1, <2>1, <4>1, <4>2 DEF TypeOK
    <3> QED
      BY <3>1, <3>2
  <2>3. Acting'
    BY <1>4, <2>1 DEF StartOpening, IInv, Acting
  <2> QED
    BY <1>1, <1>4, <2>2, <2>3 DEF StartOpening, IInv, Owned, NoSessionLeaks
<1>5. ASSUME NEW c \in Calls, OpenSucceeds(c)
      PROVE  IInv'
  <2>1. /\ pc[c] = "opening" /\ cached[Key(c)] = NoSession /\ lock[Key(c)] = c
        /\ Key(c) \in Workers /\ opened \in Nat /\ opened + 1 \in Sessions
        /\ pc'[c] = "acting" /\ sess'[c] = opened + 1 /\ opened' = opened + 1
        /\ \A d \in Calls : Key(d)' = Key(d) /\ (d # c => pc'[d] = pc[d] /\ sess'[d] = sess[d])
    BY <1>1, <1>5, KeyType DEF OpenSucceeds, IInv, Opening, TypeOK, Sessions, Key
  <2>2. /\ \A w \in Workers :
              /\ cached'[w] = IF w = Key(c) THEN opened + 1 ELSE cached[w]
              /\ lock'[w] = IF w = Key(c) THEN NoCall ELSE lock[w]
        /\ \A s \in Sessions : owner'[s] = IF s = opened + 1 THEN Key(c) ELSE owner[s]
    BY <1>1, <1>5, <2>1 DEF OpenSucceeds, TypeOK
  <2>3. 1..opened \subseteq Sessions /\ 1..opened \subseteq 1..opened'
        /\ opened + 1 \in 1..opened' /\ opened + 1 \notin 1..opened /\ NoSession \notin 1..opened
    <3>1. opened \in 0..MaxSessions /\ opened' = opened + 1
      BY <1>1, <2>1 DEF TypeOK
    <3> QED
      BY <3>1, SessionsAssumption DEF Sessions, NoSession
  <2>4. Opening'
    <3> SUFFICES ASSUME NEW d \in Calls, pc'[d] = "opening"
                 PROVE  lock'[Key(d)] = d /\ cached'[Key(d)] = NoSession
      BY <2>1 DEF Opening
    <3>1. d # c /\ lock[Key(d)] = d /\ cached[Key(d)] = NoSession
      BY <2>1 DEF IInv, Opening
    <3> QED
      BY <1>1, <2>1, <2>2, <3>1, KeyType
  <2>5. Owned' /\ failed' \subseteq 1..opened'
    <3>1. failed' = failed /\ failed \subseteq 1..opened
      BY <1>5 DEF OpenSucceeds, IInv
    <3>2. ASSUME NEW w \in Workers, cached'[w] # NoSession
          PROVE  cached'[w] \in 1..opened' /\ owner'[cached'[w]] = w /\ cached'[w] \notin failed
      <4>1. CASE w = Key(c)
        BY <2>1, <2>2, <2>3, <3>1, <4>1
      <4>2. CASE w # Key(c)
        BY <2>2, <2>3, <3>2, <4>2 DEF IInv, Owned
      <4> QED
        BY <4>1, <4>2
    <3> QED
      BY <2>3, <3>1, <3>2 DEF Owned
  <2>6. Acting'
    <3> SUFFICES ASSUME NEW d \in Calls, pc'[d] = "acting"
                 PROVE  sess'[d] \in 1..opened' /\ owner'[sess'[d]] = Key(d)
      BY <2>1 DEF Acting
    <3>1. CASE d = c
      BY <2>1, <2>2, <2>3, <3>1
    <3>2. CASE d # c
      <4>1. sess[d] \in 1..opened /\ owner[sess[d]] = Key(d)
        BY <2>1, <3>2 DEF IInv, Acting
      <4> QED
        BY <2>1, <2>2, <2>3, <3>2, <4>1
    <3> QED
      BY <3>1, <3>2
  <2>7. NoSessionLeaks'
    <3> SUFFICES ASSUME NEW s \in open'
                 PROVE  s \in {cached'[w] : w \in Workers} \cup closing
      BY <1>5 DEF NoSessionLeaks, OpenSucceeds
    <3>1. CASE s = opened + 1
      BY <2>1, <2>2, <3>1
    <3>2. CASE s \in closing
      BY <3>2
    <3>3. ASSUME NEW w \in Workers, s = cached[w], s # opened + 1
          PROVE  s \in {cached'[v] : v \in Workers} \cup closing
      <4>1. s # NoSession
        BY <1>1, <1>5, <3>3 DEF OpenSucceeds, TypeOK, Sessions, NoSession
      <4> QED
        BY <2>1, <2>2, <3>3, <4>1
    <3> QED
      BY <1>5, <3>1, <3>2, <3>3 DEF OpenSucceeds, IInv, NoSessionLeaks
  <2> QED
    BY <1>1, <2>4, <2>5, <2>6, <2>7 DEF IInv
<1>6. ASSUME NEW c \in Calls, OpenFails(c) \/ ActSucceeds(c) \/ Dropped(c)
      PROVE  IInv'
  <2>1. Ended(c)
    BY <1>1, <1>6, StepEnds DEF OpenFails, ActSucceeds, Dropped
  <2> QED
    BY <1>1, <1>6, <2>1, EndedInv DEF OpenFails, ActSucceeds, Dropped
<1>7. ASSUME NEW c \in Calls, ActFails(c)
      PROVE  IInv'
  <2> DEFINE w == Key(c)
  <2>1. /\ w \in Workers /\ Drop(w) /\ pc[c] = "acting" /\ failed' = failed \cup {sess[c]}
        /\ sess[c] \in 1..opened /\ owner[sess[c]] = w
        /\ UNCHANGED <<lock, open, opened, owner>>
    BY <1>1, <1>7, KeyType DEF ActFails, IInv, Acting
  <2>2. \A v \in Workers : cached'[v] = IF v = w THEN NoSession ELSE cached[v]
    BY <2>1, DropInv
  <2>3. NoSessionLeaks'
    BY <2>1, DropInv
  <2>4. \A d \in Calls : Key(d)' = Key(d) /\ (pc'[d] \in {"opening", "acting"} =>
          d # c /\ pc'[d] = pc[d] /\ sess'[d] = sess[d])
    BY <1>1, <1>7 DEF ActFails, TypeOK, Key
  <2>5. Opening' /\ Acting'
    BY <1>1, <2>1, <2>2, <2>4, KeyType DEF IInv, Opening, Acting
  <2>6. Owned' /\ failed' \subseteq 1..opened'
    <3>1. failed' \subseteq 1..opened'
      BY <2>1 DEF IInv
    <3>2. ASSUME NEW v \in Workers, cached'[v] # NoSession
          PROVE  cached'[v] \in 1..opened /\ owner[cached'[v]] = v /\ cached'[v] \notin failed'
      <4>1. v # w /\ cached'[v] = cached[v]
        BY <2>2, <3>2
      <4>2. cached[v] \in 1..opened /\ owner[cached[v]] = v /\ cached[v] \notin failed
        BY <3>2, <4>1 DEF IInv, Owned
      <4>3. cached[v] # sess[c]
        BY <2>1, <4>1, <4>2
      <4> QED
        BY <2>1, <4>1, <4>2, <4>3
    <3> QED
      BY <2>1, <3>1, <3>2 DEF Owned
  <2> QED
    BY <1>1, <2>3, <2>5, <2>6 DEF IInv
<1>8. ASSUME NEW s \in Sessions, CloseSession(s)
      PROVE  IInv'
  <2>1. Opening' /\ Owned' /\ Acting' /\ failed' \subseteq 1..opened'
    BY <1>8 DEF CloseSession, IInv, Opening, Owned, Acting, Key
  <2>2. NoSessionLeaks'
    BY <1>8 DEF CloseSession, IInv, NoSessionLeaks
  <2> QED
    BY <1>1, <2>1, <2>2 DEF IInv
<1>9. ASSUME NEW w \in Workers, ResetSession(w)
      PROVE  IInv'
  <2>1. Drop(w) /\ UNCHANGED <<lock, open, opened, owner, pc, req, step, sess, failed>>
    BY <1>9 DEF ResetSession
  <2>2. \A v \in Workers : cached'[v] = IF v = w THEN NoSession ELSE cached[v]
    BY <2>1, DropInv
  <2>3. NoSessionLeaks'
    BY <2>1, DropInv
  <2>4. Opening' /\ Acting' /\ Owned' /\ failed' \subseteq 1..opened'
    BY <1>1, <2>1, <2>2, KeyType DEF IInv, Opening, Acting, Owned, Key
  <2> QED
    BY <1>1, <2>3, <2>4 DEF IInv
<1>10. CASE ServerRestarts \/ UNCHANGED vars
  <2>1. UNCHANGED <<cached, lock, open, closing, opened, pc, req, step, sess, owner, failed>>
    BY <1>10 DEF ServerRestarts, vars
  <2>2. Opening' /\ Owned' /\ Acting' /\ failed' \subseteq 1..opened'
    BY <2>1 DEF IInv, Opening, Owned, Acting, Key
  <2>3. NoSessionLeaks'
    BY <2>1 DEF IInv, NoSessionLeaks
  <2> QED
    BY <1>1, <2>2, <2>3 DEF IInv
<1> QED
  BY <1>2, <1>3, <1>4, <1>5, <1>6, <1>7, <1>8, <1>9, <1>10 DEF Next, Serve

LEMMA Invariant == Spec => []IInv
BY InitInv, InvStep, PTL DEF Spec

-----------------------------------------------------------------------------
(* What the invariant gives. *)

(* Every session mcp-client holds open is some worker's, or is being       *)
(* closed, for any number of workers and of racing requests.               *)
THEOREM NothingLeaks == Spec => []NoSessionLeaks
BY Invariant, PTL DEF IInv

(* A request only ever acts in the browser of the worker it names.         *)
THEOREM Isolation == Spec => []WorkersAreIsolated
<1>1. IInv => WorkersAreIsolated
  BY DEF IInv, Acting, WorkersAreIsolated, Key
<1> QED
  BY Invariant, <1>1, PTL

(* A session that made a call raise is never handed out again.             *)
THEOREM NoDeadSessionIsKept == Spec => []FailedSessionsAreNotReused
<1>1. ASSUME IInv, NEW w \in Workers
      PROVE  cached[w] \notin failed
  <2>1. CASE cached[w] = NoSession
    <3>1. failed \subseteq 1..opened /\ opened \in Nat
      BY <1>1, SessionsAssumption DEF IInv, TypeOK
    <3>2. NoSession \notin 1..opened
      BY <3>1 DEF NoSession
    <3> QED
      BY <2>1, <3>1, <3>2
  <2>2. CASE cached[w] # NoSession
    BY <1>1, <2>2 DEF IInv, Owned
  <2> QED
    BY <2>1, <2>2
<1>2. IInv => FailedSessionsAreNotReused
  BY <1>1 DEF FailedSessionsAreNotReused
<1> QED
  BY Invariant, <1>2, PTL

(* The lock of a worker lets one request at a time open its session.       *)
THEOREM OneOpener == Spec => []OneOpenerPerWorker
<1>1. IInv => OneOpenerPerWorker
  BY DEF IInv, Opening, OneOpenerPerWorker
<1> QED
  BY Invariant, <1>1, PTL

(* Every variable keeps its type, whatever fails, restarts and is reset.   *)
THEOREM TypeCorrect == Spec => []TypeOK
BY Invariant, PTL DEF IInv

-----------------------------------------------------------------------------
(* The sessions of a worker succeed one another: their numbers tell which  *)
(* came first, and with that whose failure a drop follows.                 *)

FollowUps == {"wait", "snapshot", "capture"}

(* A request acts on a session no younger than its worker's, and a         *)
(* follow-up on one no older than the one its tool ran on.                 *)
Ages(c) ==
  /\ pc[c] = "acting" /\ cached[Key(c)] # NoSession => sess[c] <= cached[Key(c)]
  /\ step[c] \in FollowUps =>
       /\ home[c] \in 1..opened /\ owner[home[c]] = req[c].worker
       /\ cached[req[c].worker] # NoSession => home[c] <= cached[req[c].worker]
       /\ pc[c] = "acting" => home[c] <= sess[c]

AgesInv ==
  /\ \A c \in Calls : Ages(c)
  /\ wasted \subseteq 1..opened
  /\ DropsStayWithTheWorker

LEMMA KeyOfFollowUp ==
  ASSUME NEW c \in Calls, step[c] \in FollowUps PROVE Key(c) = req[c].worker
BY DEF Key, FollowUps

(* Only a step that returned is followed up, by the same request.          *)
LEMMA Succession ==
  ASSUME TypeOK, NEW c \in Calls, NEW tools,
         AfterStep(c, tools) \/ AfterFailure(c, tools), step'[c] \in FollowUps
  PROVE  /\ AfterStep(c, tools) /\ req'[c] = req[c]
         /\ step[c] \in {"tool"} \cup FollowUps
<1>1. /\ step[c] \in {"list", "tool"} \cup FollowUps
      /\ \A s \in Steps : [step EXCEPT ![c] = s][c] = s
  BY DEF TypeOK, Steps, FollowUps
<1>2. ~End(c)
  BY <1>1 DEF End, Steps, FollowUps
<1>3. AfterStep(c, tools)
  BY <1>2 DEF AfterFailure
<1>4. req'[c] = req[c]
  BY <1>2, <1>3 DEF AfterStep, Continue
<1>5. CASE step[c] = "list"
  <2>1. Continue(c, "tool")
    BY <1>2, <1>3, <1>5 DEF AfterStep
  <2> QED
    BY <1>1, <2>1 DEF Continue, Steps, FollowUps
<1> QED
  BY <1>1, <1>3, <1>4, <1>5

(* Whatever leaves the session alone, or drops it, ages nobody.            *)
LEMMA SameAges ==
  ASSUME TypeOK, NEW c \in Calls, Ages(c), UNCHANGED <<opened, owner>>,
         UNCHANGED <<pc[c], step[c], req[c], sess[c], home[c]>>,
         \A w \in Workers : cached'[w] \in {cached[w], NoSession}
  PROVE  Ages(c)'
<1>1. Key(c) \in Workers /\ req[c].worker \in Workers /\ Key(c)' = Key(c)
  BY KeyType DEF TypeOK, Key
<1> QED
  BY <1>1 DEF Ages

LEMMA AgesStep == IInv /\ AgesInv /\ [Next]_vars => AgesInv'
<1> SUFFICES ASSUME IInv, AgesInv, [Next]_vars PROVE AgesInv'
  OBVIOUS
<1> USE DEF pool, request, history
<1>1. TypeOK /\ opened \in Nat /\ failed \subseteq 1..opened /\ wasted \subseteq 1..opened
  BY SessionsAssumption DEF IInv, AgesInv, TypeOK
<1>2. ASSUME UNCHANGED <<failed, wasted, opened, owner>>
      PROVE  (wasted \subseteq 1..opened /\ DropsStayWithTheWorker)'
  BY <1>2 DEF AgesInv, DropsStayWithTheWorker
<1>3. ASSUME UNCHANGED <<pc, step, req, sess, home, failed, wasted, opened, owner>>,
             \A w \in Workers : cached'[w] \in {cached[w], NoSession}
      PROVE  AgesInv'
  BY <1>1, <1>2, <1>3, SameAges DEF AgesInv
<1>4. ASSUME NEW c \in Calls, Ages(c)',
             UNCHANGED <<cached, failed, wasted, opened, owner>>,
             \A d \in Calls : d # c => UNCHANGED <<pc[d], step[d], req[d], sess[d], home[d]>>
      PROVE  AgesInv'
  <2>1. ASSUME NEW d \in Calls, d # c
        PROVE  Ages(d)'
    BY <1>1, <1>4, <2>1, SameAges DEF AgesInv
  <2> QED
    BY <1>2, <1>4, <2>1 DEF AgesInv
<1>5. ASSUME NEW c \in Calls, NEW kind \in Received, NEW w \in Workers, CallTool(c, kind, w)
      PROVE  AgesInv'
  <2>1. pc'[c] = "get" /\ step'[c] \in {"tool", "list"}
    BY <1>1, <1>5 DEF CallTool, TypeOK
  <2>2. Ages(c)'
    BY <2>1 DEF Ages, FollowUps
  <2>3. \A d \in Calls : d # c => UNCHANGED <<pc[d], step[d], req[d], sess[d], home[d]>>
    BY <1>1, <1>5 DEF CallTool, TypeOK
  <2> QED
    BY <1>4, <1>5, <2>2, <2>3 DEF CallTool
<1>6. ASSUME NEW c \in Calls, Reuse(c)
      PROVE  AgesInv'
  <2>1. /\ pc'[c] = "acting" /\ sess'[c] = cached[Key(c)] /\ Key(c)' = Key(c)
        /\ cached[Key(c)] # NoSession
        /\ \A d \in Calls : d # c => UNCHANGED <<pc[d], step[d], req[d], sess[d], home[d]>>
    BY <1>1, <1>6 DEF Reuse, TypeOK, Key
  <2>2. sess'[c] \in 1..opened
    BY <1>1, <2>1, KeyType DEF IInv, Owned
  <2>3. Ages(c)'
    BY <1>1, <1>6, <2>1, <2>2, KeyOfFollowUp DEF Reuse, Ages, AgesInv
  <2> QED
    BY <1>4, <1>6, <2>1, <2>3 DEF Reuse
<1>7. ASSUME NEW c \in Calls, StartOpening(c)
      PROVE  AgesInv'
  <2>1. /\ pc'[c] = "opening"
        /\ \A d \in Calls : d # c => UNCHANGED <<pc[d], step[d], req[d], sess[d], home[d]>>
    BY <1>1, <1>7 DEF StartOpening, TypeOK
  <2>2. Ages(c)'
    BY <1>7, <2>1 DEF StartOpening, Ages, AgesInv
  <2> QED
    BY <1>4, <1>7, <2>1, <2>2 DEF StartOpening
<1>8. ASSUME NEW c \in Calls, OpenSucceeds(c)
      PROVE  AgesInv'
  <2>0. opened' = opened + 1 /\ opened + 1 \in Sessions /\ 1..opened \subseteq Sessions
    BY <1>1, <1>8, SessionsAssumption DEF OpenSucceeds, TypeOK, Sessions
  <2>1. /\ opened' = opened + 1 /\ opened + 1 \in Sessions
        /\ pc[c] = "opening" /\ pc'[c] = "acting" /\ sess'[c] = opened + 1
        /\ Key(c) \in Workers
        /\ \A d \in Calls : Key(d)' = Key(d) /\ UNCHANGED <<step[d], req[d], home[d]>>
        /\ \A d \in Calls : d # c => UNCHANGED <<pc[d], sess[d]>>
    BY <1>1, <1>8, <2>0, KeyType DEF OpenSucceeds, TypeOK, Key
  <2>2. /\ \A w \in Workers : cached'[w] = IF w = Key(c) THEN opened + 1 ELSE cached[w]
        /\ \A s \in 1..opened : owner'[s] = owner[s]
    <3>1. 1..opened \subseteq Sessions /\ opened + 1 \notin 1..opened
      BY <1>1, <2>0
    <3> QED
      BY <1>1, <1>8, <3>1 DEF OpenSucceeds, TypeOK
  <2>3. ASSUME NEW d \in Calls
        PROVE  Ages(d)'
    <3>1. /\ Key(d) \in Workers /\ req[d].worker \in Workers
          /\ pc[d] = "acting" => sess[d] \in 1..opened
      BY <1>1, KeyType DEF IInv, Acting, TypeOK
    <3>2. pc'[d] = "acting" /\ cached'[Key(d)] # NoSession => sess'[d] <= cached'[Key(d)]
      <4>1. CASE d = c
        BY <1>1, <2>1, <2>2, <4>1
      <4>2. CASE d # c
        BY <1>1, <2>1, <2>2, <3>1, <4>2 DEF AgesInv, Ages
      <4> QED
        BY <4>1, <4>2
    <3>3. ASSUME step[d] \in FollowUps
          PROVE  /\ home[d] \in 1..opened' /\ owner'[home[d]] = req[d].worker
                 /\ cached'[req[d].worker] # NoSession => home[d] <= cached'[req[d].worker]
                 /\ pc'[d] = "acting" => home[d] <= sess'[d]
      <4>1. /\ home[d] \in 1..opened /\ owner[home[d]] = req[d].worker
            /\ cached[req[d].worker] # NoSession => home[d] <= cached[req[d].worker]
            /\ pc[d] = "acting" => home[d] <= sess[d]
        BY <3>3 DEF AgesInv, Ages
      <4>2. pc'[d] = "acting" => home[d] <= sess'[d]
        <5>1. CASE d = c
          BY <1>1, <2>1, <4>1, <5>1
        <5>2. CASE d # c
          BY <2>1, <4>1, <5>2
        <5> QED
          BY <5>1, <5>2
      <4>3. cached'[req[d].worker] # NoSession => home[d] <= cached'[req[d].worker]
        BY <1>1, <2>2, <3>1, <4>1
      <4> QED
        BY <1>1, <2>1, <2>2, <4>1, <4>2, <4>3
    <3> QED
      BY <2>1, <3>2, <3>3 DEF Ages
  <2>4. failed' = failed /\ wasted' = wasted
    BY <1>8 DEF OpenSucceeds
  <2>5. wasted' \subseteq 1..opened'
    BY <1>1, <2>1, <2>4
  <2>6. DropsStayWithTheWorker'
    BY <1>1, <2>2, <2>4 DEF AgesInv, DropsStayWithTheWorker
  <2> QED
    BY <2>3, <2>5, <2>6 DEF AgesInv
<1>9. ASSUME NEW c \in Calls, OpenFails(c) \/ Dropped(c)
      PROVE  AgesInv'
  <2>1. Ended(c) /\ AfterFailure(c, registry')
    BY <1>1, <1>9, StepEnds DEF OpenFails, Dropped
  <2>2. step'[c] \notin FollowUps
    <3> SUFFICES ASSUME step'[c] \in FollowUps PROVE FALSE
      OBVIOUS
    <3>1. step[c] # "list"
      BY <1>1, <2>1, Succession DEF FollowUps
    <3>2. End(c)
      BY <2>1, <3>1 DEF AfterFailure
    <3> QED
      BY <1>1, <3>2 DEF End, TypeOK, FollowUps
  <2>3. Ages(c)'
    BY <2>1, <2>2 DEF Ages, Ended
  <2> QED
    BY <1>4, <1>9, <2>1, <2>3 DEF Ended, OpenFails, Dropped
<1>10. ASSUME NEW c \in Calls, ActSucceeds(c)
       PROVE  AgesInv'
  <2>1. Ended(c) /\ pc[c] = "acting" /\ AfterStep(c, registry')
    BY <1>1, <1>10, StepEnds DEF ActSucceeds
  <2>2. /\ home'[c] = IF step[c] = "tool" THEN sess[c] ELSE home[c]
        /\ \A d \in Calls : d # c => home'[d] = home[d]
    BY <1>1, <1>10 DEF ActSucceeds, TypeOK
  <2>3. Ages(c)'
    <3>1. pc'[c] # "acting"
      BY <2>1 DEF Ended
    <3>2. ASSUME step'[c] \in FollowUps
          PROVE  /\ home'[c] \in 1..opened /\ owner[home'[c]] = req'[c].worker
                 /\ cached[req'[c].worker] # NoSession => home'[c] <= cached[req'[c].worker]
      <4>1. req'[c] = req[c] /\ step[c] \in {"tool"} \cup FollowUps
        BY <1>1, <2>1, <3>2, Succession
      <4>2. CASE step[c] = "tool"
        <5>1. Key(c) = req[c].worker /\ sess[c] \in 1..opened /\ owner[sess[c]] = Key(c)
          BY <2>1, <4>2 DEF Key, IInv, Acting
        <5> QED
          BY <2>1, <2>2, <4>1, <4>2, <5>1 DEF AgesInv, Ages
      <4>3. CASE step[c] \in FollowUps
        BY <2>2, <4>1, <4>3 DEF AgesInv, Ages, FollowUps
      <4> QED
        BY <4>1, <4>2, <4>3
    <3> QED
      BY <1>10, <3>1, <3>2 DEF Ages, ActSucceeds
  <2> QED
    BY <1>4, <1>10, <2>1, <2>2, <2>3 DEF Ended, ActSucceeds
<1>11. ASSUME NEW c \in Calls, ActFails(c)
       PROVE  AgesInv'
  <2> DEFINE w == Key(c)
  <2>1. /\ w \in Workers /\ Drop(w) /\ pc[c] = "acting" /\ failed' = failed \cup {sess[c]}
        /\ sess[c] \in 1..opened /\ owner[sess[c]] = w
        /\ wasted' = wasted \cup ({cached[w]} \ (failed' \cup dead \cup {NoSession}))
        /\ UNCHANGED <<opened, owner, step, req, home>>
    BY <1>1, <1>11, KeyType DEF ActFails, IInv, Acting
  <2>2. \A v \in Workers : cached'[v] \in {cached[v], NoSession}
    BY <1>1, <2>1 DEF Drop, TypeOK
  <2>3. pc'[c] = "dropping" /\ \A d \in Calls : d # c => UNCHANGED <<pc[d], sess[d]>>
    BY <1>1, <1>11 DEF ActFails, TypeOK
  <2>4. ASSUME NEW d \in Calls
        PROVE  Ages(d)'
    <3>1. CASE d = c
      <4>1. req[c].worker \in Workers
        BY <1>1 DEF TypeOK
      <4> QED
        BY <2>1, <2>2, <2>3, <3>1, <4>1 DEF AgesInv, Ages
    <3>2. CASE d # c
      BY <1>1, <2>1, <2>2, <2>3, <3>2, SameAges DEF AgesInv
    <3> QED
      BY <3>1, <3>2
  <2>5. ASSUME NEW s \in wasted'
        PROVE  s \in 1..opened /\ \E f \in failed' : owner[f] = owner[s] /\ f < s
    <3>1. CASE s \in wasted
      BY <1>1, <2>1, <3>1 DEF AgesInv, DropsStayWithTheWorker
    <3>2. CASE s \notin wasted
      <4>1. s = cached[w] /\ s # NoSession /\ s # sess[c]
        BY <2>1, <2>5, <3>2
      <4>2. s \in 1..opened /\ owner[s] = w
        BY <2>1, <4>1 DEF IInv, Owned
      <4>3. sess[c] <= s
        BY <2>1, <4>1 DEF AgesInv, Ages
      <4>4. sess[c] < s
        BY <1>1, <2>1, <4>1, <4>2, <4>3
      <4> QED
        BY <2>1, <4>2, <4>4
    <3> QED
      BY <3>1, <3>2
  <2> QED
    BY <2>1, <2>4, <2>5 DEF AgesInv, DropsStayWithTheWorker
<1>12. ASSUME NEW s \in Sessions, CloseSession(s)
       PROVE  AgesInv'
  BY <1>3, <1>12 DEF CloseSession
<1>13. ASSUME NEW w \in Workers, ResetSession(w)
       PROVE  AgesInv'
  <2>1. \A v \in Workers : cached'[v] \in {cached[v], NoSession}
    BY <1>1, <1>13 DEF ResetSession, Drop, TypeOK
  <2> QED
    BY <1>3, <1>13, <2>1 DEF ResetSession
<1>14. CASE ServerRestarts \/ UNCHANGED vars
  BY <1>3, <1>14 DEF ServerRestarts, vars
<1> QED
  BY <1>5, <1>6, <1>7, <1>8, <1>9, <1>10, <1>11, <1>12, <1>13, <1>14 DEF Next, Serve

LEMMA AgesInvariant == Spec => []AgesInv
<1>1. Init => AgesInv
  BY DEF Init, AgesInv, Ages, DropsStayWithTheWorker, FollowUps
<1> QED
  BY <1>1, Invariant, AgesStep, PTL DEF Spec

(* A healthy session is only dropped after an older session of the same    *)
(* worker has failed, for any number of workers and racing requests.       *)
THEOREM DropsAreLocal == Spec => []DropsStayWithTheWorker
BY AgesInvariant, PTL DEF AgesInv

(* A follow-up that looks at another browser than its tool's does so only  *)
(* once the tool's session is gone from every slot.                        *)
THEOREM FollowUpsStay == Spec => []FollowUpsStayHome
<1>1. ASSUME IInv, AgesInv, NEW c \in Calls, pc[c] = "acting", step[c] \in FollowUps,
             NEW w \in Workers, home[c] = cached[w]
      PROVE  sess[c] = home[c]
  <2>1. /\ home[c] \in 1..opened /\ owner[home[c]] = req[c].worker /\ home[c] <= sess[c]
        /\ sess[c] \in 1..opened /\ opened \in Nat
    BY <1>1, SessionsAssumption DEF IInv, Acting, AgesInv, Ages, TypeOK
  <2>2. cached[w] # NoSession
    BY <1>1, <2>1 DEF NoSession
  <2>3. w = Key(c)
    BY <1>1, <2>1, <2>2, KeyOfFollowUp DEF IInv, Owned
  <2>4. sess[c] <= home[c]
    BY <1>1, <2>2, <2>3 DEF AgesInv, Ages
  <2> QED
    BY <2>1, <2>4
<1>2. IInv /\ AgesInv => FollowUpsStayHome
  BY <1>1 DEF FollowUpsStayHome, FollowUps
<1> QED
  BY <1>2, Invariant, AgesInvariant, PTL

-----------------------------------------------------------------------------
(* mcp-client implements SessionPool: no slot is ever filled over a        *)
(* session, and no session comes back once dropped.                        *)
THEOREM Refinement == Spec => PoolRefinement
<1>1. Init => Pool!PoolInit
  BY DEF Init, Pool!PoolInit, Pool!NoSession, NoSession
<1>2. IInv /\ [Next]_vars => [Pool!PoolNext]_<<cached, 1..opened>>
  <2> SUFFICES ASSUME IInv, [Next]_vars
               PROVE  Pool!PoolNext \/ UNCHANGED <<cached, opened>>
    OBVIOUS
  <2> USE DEF pool, request, history
  <2>1. ASSUME NEW c \in Calls, OpenSucceeds(c)
        PROVE  Pool!PoolNext
    <3>1. Key(c) \in Workers /\ cached[Key(c)] = NoSession
      BY <2>1, KeyType DEF OpenSucceeds, IInv, Opening
    <3>2. opened \in Nat /\ opened + 1 \in Sessions
      BY <2>1, SessionsAssumption DEF OpenSucceeds, IInv, TypeOK, Sessions
    <3>3. opened + 1 \notin 1..opened /\ 1..opened' = 1..opened \cup {opened + 1}
      BY <2>1, <3>2 DEF OpenSucceeds
    <3>4. Pool!Fill(Key(c), opened + 1)
      BY <2>1, <3>1, <3>2, <3>3 DEF OpenSucceeds, Pool!Fill, Pool!NoSession, NoSession
    <3> QED
      BY <3>1, <3>2, <3>4 DEF Pool!PoolNext
  <2>2. ASSUME NEW w \in Workers, Drop(w), opened' = opened
        PROVE  Pool!PoolNext \/ UNCHANGED <<cached, opened>>
    <3>1. CASE cached[w] = NoSession
      <4>1. cached' = cached
        BY <2>2, <3>1 DEF Drop, IInv, TypeOK
      <4> QED
        BY <2>2, <4>1
    <3>2. CASE cached[w] # NoSession
      <4>1. Pool!Empty(w)
        BY <2>2, <3>2 DEF Drop, Pool!Empty, Pool!NoSession, NoSession
      <4> QED
        BY <4>1 DEF Pool!PoolNext
    <3> QED
      BY <3>1, <3>2
  <2>3. ASSUME NEW c \in Calls, ActFails(c)
        PROVE  Pool!PoolNext \/ UNCHANGED <<cached, opened>>
    BY <2>2, <2>3, KeyType DEF ActFails, IInv
  <2>4. ASSUME NEW w \in Workers, ResetSession(w)
        PROVE  Pool!PoolNext \/ UNCHANGED <<cached, opened>>
    BY <2>2, <2>4 DEF ResetSession
  <2>5. ASSUME NEW c \in Calls,
               \/ Reuse(c) \/ StartOpening(c) \/ OpenFails(c) \/ ActSucceeds(c) \/ Dropped(c)
               \/ \E kind \in Received, w \in Workers : CallTool(c, kind, w)
        PROVE  UNCHANGED <<cached, opened>>
    BY <2>5 DEF Reuse, StartOpening, OpenFails, ActSucceeds, Dropped, CallTool
  <2>6. ASSUME NEW s \in Sessions, CloseSession(s)
        PROVE  UNCHANGED <<cached, opened>>
    BY <2>6 DEF CloseSession
  <2>7. CASE ServerRestarts \/ UNCHANGED vars
    BY <2>7 DEF ServerRestarts, vars
  <2> QED
    BY <2>1, <2>3, <2>4, <2>5, <2>6, <2>7 DEF Next, Serve
<1> QED
  BY <1>1, <1>2, Invariant, PTL DEF Spec, PoolRefinement, Pool!PoolSpec

-----------------------------------------------------------------------------
(* What EveryCallEnds rests on: nobody waits for somebody who cannot move, *)
(* and whoever moves comes nearer to the end.                              *)

(* A lock is held by the request that is opening that worker's session.    *)
HeldByOpeners == \A w \in Workers :
  lock[w] # NoCall => pc[lock[w]] = "opening" /\ Key(lock[w]) = w

(* The next step of a request depends on nobody but the server.            *)
Ready(c) ==
  \/ pc[c] = "get" /\ lock[Key(c)] = NoCall
  \/ pc[c] \in {"opening", "acting"}
  \/ pc[c] = "dropping" /\ sess[c] \notin closing

(* A request waits for the opener of its worker's session, or for a stack  *)
(* to be closed, and for nothing else.                                     *)
NobodyIsStuck == \A c \in Calls : pc[c] # "idle" =>
  \/ Ready(c)
  \/ pc[c] = "get" /\ lock[Key(c)] \in Calls /\ Ready(lock[Key(c)])
  \/ pc[c] = "dropping" /\ sess[c] \in closing

(* What a request has still to do, at most.                                *)
Left == [list |-> 4, tool |-> 3, wait |-> 2, snapshot |-> 1, capture |-> 0]
Within == [idle |-> 0, get |-> 4, opening |-> 3, acting |-> 2, dropping |-> 1]
Rank(c) == IF pc[c] = "idle" THEN 0 ELSE 5 * Left[step[c]] + Within[pc[c]]

(* A request under way is where it was, or nearer to its end: nothing      *)
(* another request, a reset or a restart does sends it back.               *)
CallsAdvance ==
  [][\A c \in Calls : pc[c] # "idle" =>
       Rank(c)' < Rank(c) \/ UNCHANGED <<pc[c], step[c], req[c], sess[c]>>]_vars

LEMMA HeldInit == Init => HeldByOpeners
BY DEF Init, HeldByOpeners

(* An opener that leaves frees the one lock it had; nobody else leaves.    *)
LEMMA HeldStep == TypeOK /\ HeldByOpeners /\ [Next]_vars => HeldByOpeners'
<1> SUFFICES ASSUME TypeOK, HeldByOpeners, [Next]_vars PROVE HeldByOpeners'
  OBVIOUS
<1> USE DEF pool, request, history
<1>1. ASSUME NEW c \in Calls, pc[c] # "opening",
             lock' = lock, \A d \in Calls : d # c => pc'[d] = pc[d] /\ Key(d)' = Key(d)
      PROVE  HeldByOpeners'
  BY <1>1 DEF HeldByOpeners, TypeOK
<1>2. ASSUME NEW c \in Calls, \E kind \in Received, w \in Workers : CallTool(c, kind, w)
      PROVE  HeldByOpeners'
  BY <1>1, <1>2 DEF CallTool, TypeOK, Key
<1>3. ASSUME NEW c \in Calls, Reuse(c) \/ ActFails(c)
      PROVE  HeldByOpeners'
  BY <1>1, <1>3 DEF Reuse, Acquire, ActFails, TypeOK, Key
<1>4. ASSUME NEW c \in Calls, ActSucceeds(c) \/ Dropped(c)
      PROVE  HeldByOpeners'
  <2>1. Ended(c) /\ lock' = lock /\ pc[c] # "opening"
    BY <1>4, StepEnds DEF ActSucceeds, Dropped
  <2> QED
    BY <1>1, <2>1 DEF Ended, Key
<1>5. ASSUME NEW c \in Calls, StartOpening(c)
      PROVE  HeldByOpeners'
  <2>1. /\ pc'[c] = "opening" /\ pc[c] = "get" /\ lock' = [lock EXCEPT ![Key(c)] = c]
        /\ \A d \in Calls : Key(d)' = Key(d) /\ (d # c => pc'[d] = pc[d])
    BY <1>5 DEF StartOpening, Acquire, TypeOK, Key
  <2> QED
    BY <2>1 DEF HeldByOpeners, TypeOK
<1>6. ASSUME NEW c \in Calls, OpenSucceeds(c) \/ OpenFails(c)
      PROVE  HeldByOpeners'
  <2>1. \A d \in Calls : d # c => pc'[d] = pc[d] /\ Key(d)' = Key(d)
    <3>1. CASE OpenSucceeds(c)
      BY <3>1 DEF OpenSucceeds, TypeOK, Key
    <3>2. CASE OpenFails(c)
      BY <3>2, StepEnds DEF OpenFails, Ended, Key
    <3> QED
      BY <1>6, <3>1, <3>2
  <2>2. lock' = [lock EXCEPT ![Key(c)] = NoCall] /\ Key(c) \in Workers
    BY <1>6, KeyType DEF OpenSucceeds, OpenFails
  <2>3. ASSUME NEW w \in Workers, lock'[w] # NoCall
        PROVE  lock'[w] = lock[w] /\ lock[w] \in Calls \ {c}
    BY <2>2, <2>3 DEF HeldByOpeners, TypeOK
  <2> QED
    BY <2>1, <2>3 DEF HeldByOpeners
<1>7. CASE \/ \E s \in Sessions : CloseSession(s)
           \/ \E w \in Workers : ResetSession(w)
           \/ ServerRestarts \/ UNCHANGED vars
  <2>1. UNCHANGED <<lock, pc, req, step>>
    BY <1>7 DEF CloseSession, ResetSession, ServerRestarts, vars
  <2> QED
    BY <2>1 DEF HeldByOpeners, Key
<1> QED
  BY <1>2, <1>3, <1>4, <1>5, <1>6, <1>7 DEF Next, Serve

(* However many requests there are, each one that is under way can move,   *)
(* or waits for one that can or for a closing stack: no lock outlives its  *)
(* holder, and no two requests wait for each other.                        *)
THEOREM NobodyWaitsForEver == Spec => []NobodyIsStuck
<1>1. TypeOK /\ HeldByOpeners => NobodyIsStuck
  <2> SUFFICES ASSUME TypeOK, HeldByOpeners, NEW c \in Calls, pc[c] # "idle", ~Ready(c)
               PROVE  \/ pc[c] = "get" /\ lock[Key(c)] \in Calls /\ Ready(lock[Key(c)])
                      \/ pc[c] = "dropping" /\ sess[c] \in closing
    BY DEF NobodyIsStuck
  <2>1. \/ pc[c] = "get" /\ lock[Key(c)] # NoCall
        \/ pc[c] = "dropping" /\ sess[c] \in closing
    BY DEF TypeOK, Ready
  <2>2. lock[Key(c)] \in Calls \cup {NoCall} /\ Key(c) \in Workers
    BY KeyType DEF TypeOK
  <2> QED
    BY <2>1, <2>2 DEF HeldByOpeners, Ready
<1> QED
  BY TypeCorrect, HeldInit, HeldStep, <1>1, PTL DEF Spec

(* The step after a step comes later in the list, or there is none.        *)
LEMMA StepAdvances ==
  ASSUME TypeOK, NEW c \in Calls, NEW tools, pc[c] # "idle",
         AfterStep(c, tools) \/ AfterFailure(c, tools)
  PROVE  Rank(c)' < Rank(c)
<1>1. /\ step[c] \in Steps /\ pc[c] \in {"get", "opening", "acting", "dropping"}
  BY DEF TypeOK
<1>2. \/ End(c)
      \/ \E next \in Steps : Continue(c, next) /\ Left[next] < Left[step[c]]
  BY <1>1 DEF AfterFailure, AfterStep, Steps, Left
<1>3. /\ Left[step[c]] \in 0..4 /\ \A next \in Steps : Left[next] \in 0..4
      /\ Within[pc[c]] \in 1..4 /\ Within["get"] = 4
  BY <1>1 DEF Left, Within, Steps
<1>4. Rank(c) = 5 * Left[step[c]] + Within[pc[c]]
  BY DEF Rank
<1>5. CASE End(c)
  <2>1. pc'[c] = "idle"
    BY <1>5 DEF End, TypeOK
  <2>2. Rank(c)' = 0
    BY <2>1 DEF Rank
  <2> QED
    BY <1>3, <1>4, <2>2
<1>6. ASSUME NEW next \in Steps, Continue(c, next), Left[next] < Left[step[c]]
      PROVE  Rank(c)' < Rank(c)
  <2>1. pc'[c] = "get" /\ step'[c] = next
    BY <1>6 DEF Continue, TypeOK
  <2>2. Rank(c)' = 5 * Left[next] + 4
    BY <1>3, <2>1 DEF Rank
  <2> QED
    BY <1>3, <1>4, <1>6, <2>2
<1> QED
  BY <1>2, <1>5, <1>6

LEMMA RequestStep ==
  ASSUME TypeOK, NEW c \in Calls, Serve(c)
  PROVE  /\ Rank(c)' < Rank(c)
         /\ \A d \in Calls : d # c => UNCHANGED <<pc[d], step[d], req[d], sess[d]>>
<1>1. CASE ActSucceeds(c) \/ Dropped(c) \/ OpenFails(c)
  <2>1. pc[c] # "idle" /\ \E tools : AfterStep(c, tools) \/ AfterFailure(c, tools)
    BY <1>1 DEF ActSucceeds, Dropped, OpenFails
  <2>2. Ended(c)
    BY <2>1, StepEnds
  <2> QED
    BY <2>1, <2>2, StepAdvances DEF Ended
<1>2. CASE Reuse(c) \/ StartOpening(c) \/ OpenSucceeds(c) \/ ActFails(c)
  <2>1. /\ step' = step /\ req' = req
        /\ \A d \in Calls : d # c => pc'[d] = pc[d] /\ sess'[d] = sess[d]
        /\ \/ pc[c] = "get" /\ pc'[c] \in {"opening", "acting"}
           \/ pc[c] = "opening" /\ pc'[c] = "acting"
           \/ pc[c] = "acting" /\ pc'[c] = "dropping"
    BY <1>2 DEF Reuse, StartOpening, OpenSucceeds, ActFails, Acquire, TypeOK, request, history
  <2>2. Left[step[c]] \in 0..4
    BY DEF TypeOK, Steps, Left
  <2>3. /\ Rank(c) = 5 * Left[step[c]] + Within[pc[c]]
        /\ Rank(c)' = 5 * Left[step[c]] + Within[pc'[c]]
    BY <2>1 DEF Rank
  <2>4. Within[pc[c]] \in 1..4 /\ Within[pc'[c]] \in 1..4 /\ Within[pc'[c]] < Within[pc[c]]
    BY <2>1 DEF Within
  <2> QED
    BY <2>1, <2>2, <2>3, <2>4
<1> QED
  BY <1>1, <1>2 DEF Serve

(* Every step of a request brings it nearer to its end, and no step of     *)
(* anybody else takes it back: with NobodyWaitsForEver, what fairness      *)
(* turns into EveryCallEnds, for any number of requests and workers.       *)
THEOREM RequestsAdvance == Spec => CallsAdvance
<1>1. ASSUME TypeOK, [Next]_vars, NEW d \in Calls, pc[d] # "idle"
      PROVE  Rank(d)' < Rank(d) \/ UNCHANGED <<pc[d], step[d], req[d], sess[d]>>
  <2>1. ASSUME NEW c \in Calls, Serve(c)
        PROVE  Rank(d)' < Rank(d) \/ UNCHANGED <<pc[d], step[d], req[d], sess[d]>>
    BY <1>1, <2>1, RequestStep
  <2>2. ASSUME NEW c \in Calls, \E kind \in Received, w \in Workers : CallTool(c, kind, w)
        PROVE  UNCHANGED <<pc[d], step[d], req[d], sess[d]>>
    BY <1>1, <2>2 DEF CallTool, TypeOK
  <2>3. CASE \/ \E s \in Sessions : CloseSession(s)
             \/ \E w \in Workers : ResetSession(w)
             \/ ServerRestarts \/ UNCHANGED vars
    BY <2>3 DEF CloseSession, ResetSession, ServerRestarts, vars, request
  <2> QED
    BY <1>1, <2>1, <2>2, <2>3 DEF Next
<1>2. TypeOK /\ [Next]_vars =>
        [\A c \in Calls : pc[c] # "idle" =>
           Rank(c)' < Rank(c) \/ UNCHANGED <<pc[c], step[c], req[c], sess[c]>>]_vars
  BY <1>1
<1> QED
  BY TypeCorrect, <1>2, PTL DEF Spec, CallsAdvance

=============================================================================

--------------------------- MODULE ToolTurn_proofs ---------------------------
(***************************************************************************)
(* Proofs about ToolTurn, for any addresses, any turns the model may       *)
(* propose and any number of tasks: the thread and the copy of the running *)
(* turn are kept sound together, so that saving, dropping or retrying the  *)
(* copy at any point is harmless.                                          *)
(***************************************************************************)
EXTENDS ToolTurn, TLAPS

-----------------------------------------------------------------------------
(* What the operators of the module return. *)

(* A new plan is a plan, in order.                                         *)
LEMMA NewPlanFits ==
  ASSUME NEW n \in Nat
  PROVE  NewPlan(n) \in Seq(Status) /\ InOrder(NewPlan(n))
<1>1. NewPlan(n) \in [1..n -> Status]
  BY DEF NewPlan, Status
<1>2. NewPlan(n) \in Seq(Status)
  BY <1>1
<1>3. InOrder(NewPlan(n))
  BY DEF NewPlan, InOrder
<1> QED
  BY <1>2, <1>3

(* Completing a subtask leaves a plan in order, whatever the position the  *)
(* model names.                                                            *)
LEMMA CompletedFits ==
  ASSUME NEW plan \in Seq(Status), InOrder(plan), NEW i \in Nat
  PROVE  /\ Completed(plan, i) \in Seq(Status) /\ InOrder(Completed(plan, i))
         /\ plan = << >> => Completed(plan, i) = << >>
<1>1. CASE i \notin DOMAIN plan \/ plan[i] # "en_cours"
  BY <1>1 DEF Completed
<1>2. CASE i \in DOMAIN plan /\ plan[i] = "en_cours"
  <2> DEFINE next == Completed(plan, i)
  <2>1. next = [j \in DOMAIN plan |-> IF j = i THEN "fait"
                                      ELSE IF j = i + 1 THEN "en_cours" ELSE plan[j]]
    BY <1>2 DEF Completed
  <2>2. DOMAIN plan = 1..Len(plan) /\ Len(plan) \in Nat
    OBVIOUS
  <2>3. \A j \in DOMAIN plan : plan[j] \in Status
    OBVIOUS
  <2>4. next \in [1..Len(plan) -> Status]
    BY <2>1, <2>2, <2>3 DEF Status
  <2>5. next \in Seq(Status)
    BY <2>2, <2>4
  <2>6. \A j \in DOMAIN plan : j < i => plan[j] = "fait"
    BY <1>2, <2>2 DEF InOrder
  <2>7. \A j \in DOMAIN plan : i < j => plan[j] = "a_faire"
    BY <1>2, <2>2 DEF InOrder
  <2>8. InOrder(next)
    <3> SUFFICES ASSUME NEW j \in DOMAIN plan, NEW k \in DOMAIN plan, j < k
                 PROVE  next[j] = "fait" \/ next[k] = "a_faire"
      BY <2>1 DEF InOrder
    <3>1. CASE j <= i
      BY <2>1, <2>2, <2>6, <3>1
    <3>2. CASE i < j
      BY <2>1, <2>2, <2>7, <3>2
    <3> QED
      BY <2>2, <3>1, <3>2
  <2>9. plan # << >>
    BY <1>2
  <2> QED
    BY <2>5, <2>8, <2>9
<1> QED
  BY <1>1, <1>2

-----------------------------------------------------------------------------
(* The inductive invariant, part by part. *)

(* A plan has the first message of one subtask recorded.                   *)
OneStart(plan, starts) ==
  /\ Len(starts) <= 1
  /\ plan # << >> => Len(starts) = 1

(* A copy of the thread's state is sound when its plan is in order, it has *)
(* observed nothing unknown, and a first message is recorded for the first *)
(* subtask alone.                                                          *)
Sound(t, scope, given) ==
  /\ t \in Thread
  /\ InOrder(t.plan)
  /\ t.observed_urls \subseteq scope \cup given
  /\ t.scope = scope
  /\ OneStart(t.plan, t.subtask_message_start)

(* Everything but the thread and the copy of the turn.                     *)
RestOK ==
  /\ phase \in {"idle", "turn", "failed"}
  /\ calls \in Seq(Call) /\ todo \in Seq(Call)
  /\ page \in Nat /\ tasks \in Nat /\ turns \in Nat
  /\ known \subseteq Urls /\ opened \subseteq Urls /\ openedBefore \subseteq Urls

(* What was opened is observed: for good once its turn is saved, in the    *)
(* turn's copy before.                                                     *)
OpenedIsObserved ==
  /\ openedBefore \subseteq thread.observed_urls
  /\ openedBefore \cup opened \subseteq work.observed_urls
  /\ phase = "failed" => opened = {}

IInv ==
  /\ RestOK
  /\ Sound(thread, thread.scope, known)
  /\ Sound(work, thread.scope, known)
  /\ OpenedIsObserved

LEMMA InitInv == Init => IInv
<1> SUFFICES ASSUME Init PROVE IInv
  OBVIOUS
<1>1. RestOK
  BY DEF Init, RestOK
<1>2. Sound(EmptyThread, {}, {})
  BY DEF Sound, Thread, EmptyThread, InOrder, OneStart
<1>3. thread = EmptyThread /\ work = EmptyThread /\ known = {} /\ thread.scope = {}
  BY DEF Init, EmptyThread
<1>4. OpenedIsObserved
  BY DEF Init, OpenedIsObserved
<1> QED
  BY <1>1, <1>2, <1>3, <1>4 DEF IInv

(* Soundness does not depend on the number of messages, and is kept when   *)
(* more addresses are known.                                               *)
LEMMA MoreMessages ==
  ASSUME NEW t, NEW scope, NEW given, Sound(t, scope, given), NEW n \in Nat
  PROVE  /\ Sound([t EXCEPT !.messages = @ + n], scope, given)
         /\ [t EXCEPT !.messages = @ + n].scope = scope
         /\ [t EXCEPT !.messages = @ + n].observed_urls = t.observed_urls
<1> DEFINE u == [t EXCEPT !.messages = @ + n]
<1>1. t \in Thread
  BY DEF Sound
<1>2. u \in Thread
  <2>1. t.messages + n \in Nat
    BY <1>1 DEF Thread
  <2> QED
    BY <1>1, <2>1 DEF Thread
<1>3. /\ u.plan = t.plan /\ u.observed_urls = t.observed_urls /\ u.scope = t.scope
      /\ u.subtask_message_start = t.subtask_message_start
  BY <1>1 DEF Thread
<1> QED
  BY <1>2, <1>3 DEF Sound

LEMMA MoreKnown ==
  ASSUME NEW t, NEW scope, NEW given, NEW more, Sound(t, scope, given), given \subseteq more
  PROVE  Sound(t, scope, more)
BY DEF Sound

-----------------------------------------------------------------------------
(* The steps between turns. *)

LEMMA NewTaskKeeps ==
  ASSUME IInv, NEW urls \in SUBSET Urls, NewTask(urls)
  PROVE  IInv'
<1>1. RestOK'
  BY DEF IInv, RestOK, NewTask
<1>2. thread' = RunInput(thread, urls) /\ work' = thread' /\ known' = {}
  BY DEF NewTask
<1>3. thread \in Thread
  BY DEF IInv, Sound
<1>4. RunInput(thread, urls) \in Thread
  <2> DEFINE scope == IF thread.messages = 0 THEN Found(urls) ELSE thread.scope
  <2>0. Found(urls) \in SUBSET Urls
    BY TurnAssumption DEF Found
  <2>1. scope \in SUBSET Urls /\ thread.messages + 1 \in Nat
    BY <1>3, <2>0 DEF Thread
  <2>2. << >> \in Seq(Status) /\ << >> \in Seq(Nat) /\ {} \in SUBSET Urls
    OBVIOUS
  <2>3. RunInput(thread, urls) =
          [messages |-> thread.messages + 1, scope |-> scope, observed_urls |-> {},
           plan |-> << >>, subtask_message_start |-> << >>,
           visual_ref_map |-> thread.visual_ref_map]
    BY DEF RunInput
  <2> HIDE DEF scope
  <2> QED
    BY <1>3, <2>1, <2>2, <2>3 DEF Thread
<1>5. /\ thread'.plan = << >> /\ thread'.observed_urls = {}
      /\ thread'.subtask_message_start = << >>
  BY <1>2 DEF RunInput
<1>6. Sound(thread', thread'.scope, known')
  BY <1>2, <1>4, <1>5 DEF Sound, InOrder, OneStart
<1>7. OpenedIsObserved'
  BY DEF NewTask, OpenedIsObserved
<1> QED
  BY <1>1, <1>2, <1>6, <1>7 DEF IInv

LEMMA BeginKeeps ==
  ASSUME IInv, NEW t, Sound(t, thread.scope, known), NEW proposed \in Seq(Call),
         t.observed_urls = thread.observed_urls, Begin(t, proposed)
  PROVE  IInv'
<1>1. RestOK'
  BY DEF IInv, RestOK, Begin
<1>2. /\ thread' = t /\ known' = known
      /\ work' = [t EXCEPT !.observed_urls = @ \cup t.scope]
  BY DEF Begin
<1>3. t.scope = thread.scope /\ t \in Thread
  BY DEF Sound
<1>4. work' \in Thread
  BY <1>2, <1>3 DEF Thread
<1>5. Sound(work', t.scope, known)
  BY <1>2, <1>3, <1>4 DEF Sound, Thread
<1>6. work'.observed_urls = t.observed_urls \cup t.scope
  BY <1>2, <1>3 DEF Thread
<1>7. OpenedIsObserved'
  BY <1>2, <1>6 DEF Begin, IInv, OpenedIsObserved
<1> QED
  BY <1>1, <1>2, <1>3, <1>5, <1>7 DEF IInv

LEMMA ProposeKeeps ==
  ASSUME IInv, Propose
  PROVE  IInv'
<1>1. PICK proposed \in Turns : Begin([thread EXCEPT !.messages = @ + 1], proposed)
  BY DEF Propose
<1>2. /\ Sound([thread EXCEPT !.messages = @ + 1], thread.scope, known)
      /\ [thread EXCEPT !.messages = @ + 1].observed_urls = thread.observed_urls
  BY MoreMessages DEF IInv
<1> QED
  BY <1>1, <1>2, BeginKeeps, TurnAssumption

LEMMA RetryKeeps ==
  ASSUME IInv, Retry
  PROVE  IInv'
BY BeginKeeps DEF Retry, IInv, RestOK

LEMMA RejectKeeps ==
  ASSUME IInv, Reject
  PROVE  IInv'
<1>1. RestOK'
  BY DEF IInv, RestOK, Reject, history
<1>2. Len(calls) \in Nat
  BY DEF IInv, RestOK
<1>3. /\ Sound(thread', thread.scope, known)
      /\ thread'.scope = thread.scope /\ work' = thread' /\ known' = known
      /\ thread'.observed_urls = thread.observed_urls
  <2>1. thread' = [thread EXCEPT !.messages = @ + Len(calls)]
    BY DEF Reject
  <2>2. Sound(thread, thread.scope, known)
    BY DEF IInv
  <2>3. /\ Sound(thread', thread.scope, known) /\ thread'.scope = thread.scope
        /\ thread'.observed_urls = thread.observed_urls
    BY <1>2, <2>1, <2>2, MoreMessages
  <2> QED
    BY <2>3 DEF Reject, history
<1>4. phase = "failed" /\ UNCHANGED <<opened, openedBefore>>
  BY DEF Reject, history
<1>5. OpenedIsObserved'
  BY <1>3, <1>4 DEF IInv, OpenedIsObserved
<1> QED
  BY <1>1, <1>3, <1>5 DEF IInv

LEMMA SaveTurnKeeps ==
  ASSUME IInv, SaveTurn
  PROVE  IInv'
<1>1. Len(calls) \in Nat
  BY DEF IInv, RestOK
<1>2. /\ Sound(thread', thread.scope, known)
      /\ thread'.scope = thread.scope /\ work' = thread' /\ known' = known
      /\ thread'.observed_urls = work.observed_urls
  <2>1. thread' = [work EXCEPT !.messages = @ + Len(calls)]
    BY DEF SaveTurn
  <2>2. Sound(work, thread.scope, known)
    BY DEF IInv
  <2>3. /\ Sound(thread', thread.scope, known) /\ thread'.scope = thread.scope
        /\ thread'.observed_urls = work.observed_urls
    BY <1>1, <2>1, <2>2, MoreMessages, ZenonT(30)
  <2> QED
    BY <2>3 DEF SaveTurn
<1>3. RestOK'
  BY DEF IInv, RestOK, SaveTurn
<1>4. OpenedIsObserved'
  BY <1>2 DEF IInv, OpenedIsObserved, SaveTurn
<1> QED
  BY <1>2, <1>3, <1>4 DEF IInv

LEMMA TurnFailsKeeps ==
  ASSUME IInv, TurnFails
  PROVE  IInv'
<1>1. RestOK'
  BY DEF IInv, RestOK, TurnFails, PagesAfter
<1>2. OpenedIsObserved'
  BY DEF IInv, OpenedIsObserved, TurnFails
<1> QED
  BY <1>1, <1>2 DEF IInv, TurnFails

-----------------------------------------------------------------------------
(* The calls of a turn. *)

(* What a call leaves sound in the turn's copy, it leaves sound altogether. *)
LEMMA DoneKeeps ==
  ASSUME IInv, NEW w, NEW tools, Doing(tools), Done(w),
         Sound(w, thread.scope, known'),
         known \subseteq known', known' \subseteq Urls, page' \in Nat,
         opened' \subseteq Urls, openedBefore' = openedBefore,
         openedBefore \cup opened' \subseteq w.observed_urls
  PROVE  IInv'
<1>1. RestOK'
  <2>1. todo' \in Seq(Call)
    BY DEF IInv, RestOK, Doing, Done
  <2> QED
    BY <2>1 DEF IInv, RestOK, Done
<1>2. Sound(thread, thread.scope, known')
  BY MoreKnown DEF IInv
<1>3. OpenedIsObserved'
  BY DEF IInv, OpenedIsObserved, Doing, Done
<1> QED
  BY <1>1, <1>2, <1>3 DEF IInv, Done

(* A call that leaves the browser and the results alone.                   *)
LEMMA QuietCallKeeps ==
  ASSUME IInv, NEW w, NEW tools, Doing(tools), Done(w),
         Sound(w, thread.scope, known), UNCHANGED <<page, history>>,
         w.observed_urls = work.observed_urls
  PROVE  IInv'
BY DoneKeeps DEF IInv, RestOK, OpenedIsObserved, history

(* The call the turn has come to.                                          *)
LEMMA HeadIsACall ==
  ASSUME IInv, NEW tools, Doing(tools)
  PROVE  Head(todo) \in Call
BY DEF IInv, RestOK, Doing

(* A plan in order, with its one first message, keeps the copy sound.      *)
LEMMA PlannedIsSound ==
  ASSUME NEW t, NEW scope, NEW given, Sound(t, scope, given),
         NEW plan \in Seq(Status), InOrder(plan),
         NEW starts \in Seq(Nat), OneStart(plan, starts)
  PROVE  /\ Sound([t EXCEPT !.plan = plan, !.subtask_message_start = starts], scope, given)
         /\ [t EXCEPT !.plan = plan, !.subtask_message_start = starts].observed_urls
              = t.observed_urls
<1> DEFINE u == [t EXCEPT !.plan = plan, !.subtask_message_start = starts]
<1>1. t \in Thread
  BY DEF Sound
<1>2. /\ u.plan = plan /\ u.subtask_message_start = starts
      /\ u.observed_urls = t.observed_urls /\ u.scope = t.scope
  BY <1>1 DEF Thread
<1>3. u \in Thread
  BY <1>1 DEF Thread
<1> QED
  BY <1>2, <1>3 DEF Sound

LEMMA SetPlanKeeps ==
  ASSUME IInv, SetPlan
  PROVE  IInv'
<1>1. Doing({"set_plan"}) /\ UNCHANGED <<page, history>>
  BY DEF SetPlan
<1>2. CASE Done(work)
  BY <1>1, <1>2, QuietCallKeeps DEF IInv
<1>3. ASSUME Head(todo).arg \in SubtasksMin..SubtasksMax,
             Done([work EXCEPT !.plan = NewPlan(Head(todo).arg),
                               !.subtask_message_start = <<thread.messages>>])
      PROVE  IInv'
  <2>1. Head(todo).arg \in Nat
    BY <1>3, TurnAssumption
  <2>2. NewPlan(Head(todo).arg) \in Seq(Status) /\ InOrder(NewPlan(Head(todo).arg))
    BY <2>1, NewPlanFits
  <2>3. thread.messages \in Nat
    BY DEF IInv, Sound, Thread
  <2>4. /\ <<thread.messages>> \in Seq(Nat)
        /\ OneStart(NewPlan(Head(todo).arg), <<thread.messages>>)
    BY <2>3 DEF OneStart
  <2> DEFINE w == [work EXCEPT !.plan = NewPlan(Head(todo).arg),
                               !.subtask_message_start = <<thread.messages>>]
  <2>5. Sound(w, thread.scope, known) /\ w.observed_urls = work.observed_urls
    BY <2>2, <2>4, PlannedIsSound DEF IInv
  <2> QED
    BY <1>1, <1>3, <2>5, QuietCallKeeps
<1> QED
  BY <1>2, <1>3 DEF SetPlan

LEMMA CompleteSubtaskKeeps ==
  ASSUME IInv, CompleteSubtask
  PROVE  IInv'
<1> DEFINE plan == Completed(work.plan, Head(todo).arg)
<1>1. Doing({"complete_subtask"}) /\ UNCHANGED <<page, history>>
  BY DEF CompleteSubtask
<1>2. Head(todo) \in Call /\ Head(todo).tool = "complete_subtask"
  BY <1>1, HeadIsACall DEF Doing
<1>3. Head(todo).arg \in Nat
  BY <1>2 DEF Call
<1>4. /\ work \in Thread /\ InOrder(work.plan)
      /\ OneStart(work.plan, work.subtask_message_start)
  BY DEF IInv, Sound
<1>5. work.plan \in Seq(Status) /\ work.subtask_message_start \in Seq(Nat)
  BY <1>4 DEF Thread
<1>6. /\ plan \in Seq(Status) /\ InOrder(plan)
      /\ OneStart(plan, work.subtask_message_start)
  BY <1>3, <1>4, <1>5, CompletedFits DEF OneStart
<1> HIDE DEF plan
<1> DEFINE w == [work EXCEPT !.plan = plan]
<1>7. Sound(w, thread.scope, known) /\ w.observed_urls = work.observed_urls
  <2>1. /\ w.plan = plan /\ w.subtask_message_start = work.subtask_message_start
        /\ w.observed_urls = work.observed_urls /\ w.scope = work.scope
    BY <1>4 DEF Thread
  <2>2. w \in Thread
    BY <1>4, <1>6 DEF Thread
  <2>3. Sound(work, thread.scope, known)
    BY DEF IInv
  <2> QED
    BY <1>6, <2>1, <2>2, <2>3 DEF Sound
<1>8. Done(w)
  BY DEF CompleteSubtask, plan
<1> QED
  BY <1>1, <1>7, <1>8, QuietCallKeeps

LEMMA NavigateRefusedKeeps ==
  ASSUME IInv, NavigateRefused
  PROVE  IInv'
BY QuietCallKeeps DEF NavigateRefused, IInv

LEMMA ClickUnknownRefKeeps ==
  ASSUME IInv, ClickUnknownRef
  PROVE  IInv'
BY QuietCallKeeps DEF ClickUnknownRef, IInv

LEMMA NavigateNowhereKeeps ==
  ASSUME IInv, NavigateNowhere
  PROVE  IInv'
BY TurnFailsKeeps DEF NavigateNowhere

(* What the copy has observed and the result shows is known afterwards.    *)
LEMMA AnsweredIsSound ==
  ASSUME NEW w \in Thread, NEW scope, NEW given, NEW more,
         InOrder(w.plan), w.scope = scope,
         OneStart(w.plan, w.subtask_message_start),
         NEW links \in SUBSET Urls, NEW captured \in BOOLEAN, NEW on \in Nat,
         w.observed_urls \cup links \subseteq scope \cup more
  PROVE  /\ Sound(Answered(w, links, captured, on), scope, more)
         /\ w.observed_urls \subseteq Answered(w, links, captured, on).observed_urls
<1> DEFINE u == Answered(w, links, captured, on)
           refs == IF captured THEN on ELSE w.visual_ref_map
<1>1. refs \in Nat /\ w.observed_urls \cup links \in SUBSET Urls
  BY DEF Thread
<1>2. u = [w EXCEPT !.observed_urls = w.observed_urls \cup links, !.visual_ref_map = refs]
  BY DEF Answered, Thread
<1> HIDE DEF refs, u
<1>3. /\ u.plan = w.plan /\ u.subtask_message_start = w.subtask_message_start
      /\ u.observed_urls = w.observed_urls \cup links /\ u.scope = w.scope
  BY <1>2 DEF Thread
<1>4. u \in Thread
  BY <1>1, <1>2 DEF Thread
<1> QED
  BY <1>3, <1>4 DEF Sound, u

(* Any call that is sent, whichever address it has observed beforehand.    *)
LEMMA SentKeeps ==
  ASSUME IInv, NEW tools, Doing(tools), NEW urls \in SUBSET Urls,
         NEW w \in Thread, InOrder(w.plan), w.scope = thread.scope,
         OneStart(w.plan, w.subtask_message_start),
         w.observed_urls \subseteq thread.scope \cup known \cup urls,
         work.observed_urls \cup urls \subseteq w.observed_urls,
         Sent(w, urls)
  PROVE  IInv'
<1>1. PICK links \in SUBSET Urls, captured \in BOOLEAN :
        /\ page' \in PagesAfter(Head(todo))
        /\ known' = known \cup links \cup urls
        /\ opened' = opened \cup urls
        /\ Done(Answered(w, links, captured, page'))
        /\ UNCHANGED openedBefore
  BY DEF Sent
<1>2. page' \in Nat
  BY <1>1 DEF IInv, RestOK, PagesAfter
<1>3. known \subseteq known' /\ known' \subseteq Urls
  BY <1>1 DEF IInv, RestOK
<1> DEFINE answered == Answered(w, links, captured, page')
<1>4. /\ Sound(answered, thread.scope, known')
      /\ w.observed_urls \subseteq answered.observed_urls
  BY <1>1, <1>2, AnsweredIsSound, ZenonT(30)
<1> HIDE DEF answered
<1>5. /\ opened' \subseteq Urls
      /\ openedBefore \cup opened' \subseteq answered.observed_urls
  BY <1>1, <1>4 DEF IInv, RestOK, OpenedIsObserved
<1>6. Done(answered)
  BY <1>1 DEF answered
<1> QED
  BY <1>1, <1>2, <1>3, <1>4, <1>5, <1>6, DoneKeeps

LEMMA BrowseKeeps ==
  ASSUME IInv, Browse
  PROVE  IInv'
BY SentKeeps DEF Browse, IInv, Sound

LEMMA ClickRefKeeps ==
  ASSUME IInv, ClickRef
  PROVE  IInv'
BY SentKeeps DEF ClickRef, IInv, Sound

(* The address opened becomes observed and known.                          *)
LEMMA NavigateKeeps ==
  ASSUME IInv, Navigate
  PROVE  IInv'
<1> DEFINE url == Head(todo).arg
           w == [work EXCEPT !.observed_urls = @ \cup {url}]
<1>1. Doing({"browser_navigate"}) /\ url # NoArg
  BY DEF Navigate
<1>2. Head(todo) \in Call /\ Head(todo).tool = "browser_navigate"
  BY <1>1, HeadIsACall DEF Doing
<1>3. url \in Urls
  BY <1>1, <1>2 DEF Call
<1>4. work \in Thread /\ Sound(work, thread.scope, known)
  BY DEF IInv, Sound
<1>5. work.observed_urls \cup {url} \in SUBSET Urls
  BY <1>3, <1>4 DEF Thread
<1>6. /\ w.plan = work.plan /\ w.subtask_message_start = work.subtask_message_start
      /\ w.observed_urls = work.observed_urls \cup {url} /\ w.scope = work.scope
  BY <1>4 DEF Thread
<1>7. Sent(w, {url})
  BY DEF Navigate
<1>8. w \in Thread
  BY <1>4, <1>5 DEF Thread
<1> HIDE DEF w, url
<1>9. /\ InOrder(w.plan) /\ w.scope = thread.scope
      /\ OneStart(w.plan, w.subtask_message_start)
      /\ w.observed_urls \subseteq thread.scope \cup known \cup {url}
      /\ work.observed_urls \cup {url} \subseteq w.observed_urls
  BY <1>4, <1>6 DEF Sound
<1> QED
  BY <1>1, <1>3, <1>7, <1>8, <1>9, SentKeeps

-----------------------------------------------------------------------------

LEMMA NextKeeps ==
  ASSUME IInv, [Next]_vars
  PROVE  IInv'
<1>1. CASE UNCHANGED vars
  BY <1>1 DEF IInv, RestOK, OpenedIsObserved, vars, turn, history
<1>2. ASSUME NEW urls \in SUBSET Urls, NewTask(urls)
      PROVE  IInv'
  BY <1>2, NewTaskKeeps
<1>3. CASE Propose \/ Retry \/ Reject \/ SaveTurn \/ TurnFails
  BY <1>3, ProposeKeeps, RetryKeeps, RejectKeeps, SaveTurnKeeps, TurnFailsKeeps
<1>4. CASE SetPlan \/ CompleteSubtask
  BY <1>4, SetPlanKeeps, CompleteSubtaskKeeps
<1>5. CASE NavigateRefused \/ Navigate \/ NavigateNowhere
  BY <1>5, NavigateRefusedKeeps, NavigateKeeps, NavigateNowhereKeeps
<1>6. CASE Browse \/ ClickUnknownRef \/ ClickRef
  BY <1>6, BrowseKeeps, ClickUnknownRefKeeps, ClickRefKeeps
<1> QED
  BY <1>1, <1>2, <1>3, <1>4, <1>5, <1>6 DEF Next

LEMMA Inductive == Spec => []IInv
BY InitInv, NextKeeps, PTL DEF Spec

(* Whatever the model proposes, every variable keeps its type.             *)
THEOREM TypeCorrect == Spec => []TypeOK
<1>1. IInv => TypeOK
  BY DEF IInv, RestOK, Sound, TypeOK
<1> QED
  BY <1>1, Inductive, PTL

(* No mixture of set_plan and complete_subtask, in one turn or in several, *)
(* and no turn that raises or is retried puts the plan out of order.       *)
THEOREM PlansStayInOrder == Spec => []PlanInOrder
<1>1. IInv => PlanInOrder
  BY DEF IInv, Sound, PlanInOrder
<1> QED
  BY <1>1, Inductive, PTL

(* The URL guardrail: once a saved turn of the task has opened an address, *)
(* whatever is let through was found in the conversation's first message   *)
(* or in a result of the task, or was opened in it before.                 *)
THEOREM NoFabricatedUrl == Spec => []GuardedOnceOpened
<1>1. IInv => GuardedOnceOpened
  BY DEF IInv, Sound, OpenedIsObserved, GuardedOnceOpened, Exempt, Fabricated
<1> QED
  BY <1>1, Inductive, PTL

(* The plan is in order and has one boundary: no subtask is done before    *)
(* the first, and the range of the first has no end but the list's.        *)
THEOREM CompactionIsExact == Spec => []CompactedSinceThePlan
<1>1. ASSUME IInv
      PROVE  CompactedSinceThePlan
  <2> DEFINE plan == thread.plan
             starts == thread.subtask_message_start
             count == thread.messages
             gone == Compacted(count, plan, starts)
             due == 1 \in DOMAIN plan /\ plan[1] = "fait"
  <2>1. /\ plan \in Seq(Status) /\ starts \in Seq(Nat) /\ count \in Nat
        /\ InOrder(plan) /\ OneStart(plan, starts)
    BY <1>1 DEF IInv, Sound, Thread
  <2> HIDE DEF plan, starts, count
  <2>2. DOMAIN starts \subseteq {1}
    BY <2>1 DEF OneStart
  <2>3. CASE count <= EpisodeCompactionTurnThreshold
    <3>1. ~(count > EpisodeCompactionTurnThreshold)
      BY <2>1, <2>3, TurnAssumption
    <3> QED
      BY <2>3, <3>1 DEF CompactedSinceThePlan, Compacted, count
  <2>4. CASE ~(count <= EpisodeCompactionTurnThreshold) /\ ~due
    <3>1. {j \in DOMAIN starts \cap DOMAIN plan : plan[j] = "fait"} = {}
      BY <2>2, <2>4
    <3>2. gone = {}
      BY <2>4, <3>1 DEF Compacted
    <3> QED
      BY <2>4, <3>2 DEF CompactedSinceThePlan, plan, starts, count
  <2>5. CASE ~(count <= EpisodeCompactionTurnThreshold) /\ due
    <3>1. plan # << >> /\ DOMAIN starts = {1} /\ starts[1] \in Nat
      BY <2>1, <2>5 DEF OneStart
    <3>2. {j \in DOMAIN starts \cap DOMAIN plan : plan[j] = "fait"} = {1}
      BY <2>5, <3>1
    <3>3. gone = SubtaskRange(1, count, plan, starts)
      BY <2>5, <3>2 DEF Compacted
    <3>4. Limit(count, plan, starts) = count
      <4>1. Active(plan) # {} => ActiveSubtaskIndex(plan) # 1
        <5>1. SUFFICES ASSUME Active(plan) # {}, ActiveSubtaskIndex(plan) = 1
                       PROVE  FALSE
          OBVIOUS
        <5>2. \A i, j \in Active(plan) : i = j
          BY <2>1 DEF Active, InOrder
        <5>3. PICK k \in Active(plan) : TRUE
          BY <5>1
        <5>4. \A j \in Active(plan) : k <= j
          BY <2>1, <5>2 DEF Active
        <5>5. ActiveSubtaskIndex(plan) \in Active(plan)
          BY <5>3, <5>4 DEF ActiveSubtaskIndex
        <5> QED
          BY <2>5, <5>1, <5>5 DEF Active
      <4> QED
        BY <3>1, <4>1 DEF Limit
    <3>5. gone = {m \in 0..(count - 1) : starts[1] <= m /\ m < count}
      BY <3>1, <3>3, <3>4 DEF SubtaskRange
    <3>6. gone = starts[1] .. (count - 1)
      BY <2>1, <3>1, <3>5
    <3>7. count > EpisodeCompactionTurnThreshold
      BY <2>1, <2>5, TurnAssumption
    <3> QED
      BY <2>5, <3>6, <3>7 DEF CompactedSinceThePlan, plan, starts, count
  <2> QED
    BY <2>3, <2>4, <2>5
<1> QED
  BY <1>1, Inductive, PTL

=============================================================================

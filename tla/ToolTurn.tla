------------------------------ MODULE ToolTurn ------------------------------
(***************************************************************************)
(* The tool turns of one conversation, call by call: _execute_tool_calls   *)
(* of services/langgraph-agent/app/graph.py with its URL guardrail, its    *)
(* visual references and the plan kept by manage_plan.                     *)
(*                                                                         *)
(* A turn works on its own copy of the thread's state, which is saved when *)
(* the last call has returned.  A turn that raises saves nothing, and what *)
(* it has sent to mcp-client stays sent; AgentThread says how a turn comes *)
(* to run, this module what it does.                                       *)
(***************************************************************************)
EXTENDS EpisodeCompaction

CONSTANTS
  Urls,         (* addresses                                               *)
  ReadAs,       (* ReadAs[u]: what is found of u in a text that mentions it *)
  NoArg,        (* an argument the call does not have                      *)
  SubtasksMin,  (* SUBTASKS_MIN                                            *)
  SubtasksMax,  (* SUBTASKS_MAX                                            *)
  Turns,        (* the sequences of calls the model may propose            *)
  MaxTasks,     (* bound of the model: tasks of the conversation           *)
  MaxTurns      (* bound of the model: tool turns begun                    *)

(* manage_plan is two calls here, by its action; the argument of set_plan  *)
(* is the number of subtasks, the one of complete_subtask their position.  *)
Call ==
  [tool : {"browser_navigate"}, arg : Urls \cup {NoArg}]
    \cup [tool : {"browser_snapshot", "browser_click", "browser_click_ref"},
          arg : {NoArg}]
    \cup [tool : {"set_plan", "complete_subtask"}, arg : Nat]

ASSUME TurnAssumption ==
  /\ Turns \subseteq Seq(Call)
  /\ ReadAs \in [Urls -> Urls]
  /\ SubtasksMin \in Nat \ {0}
  /\ SubtasksMax \in Nat
  /\ EpisodeCompactionTurnThreshold \in Nat

(* The fields of AgentState a tool turn reads and writes.  scope stands    *)
(* for the first human message, by the addresses _task_scope_urls finds in *)
(* it; visual_ref_map for the map, by the page it was made from (0: an     *)
(* empty map).                                                             *)
Thread ==
  [messages : Nat, scope : SUBSET Urls, observed_urls : SUBSET Urls,
   plan : Seq(Status), subtask_message_start : Seq(Nat), visual_ref_map : Nat]

EmptyThread ==
  [messages |-> 0, scope |-> {}, observed_urls |-> {}, plan |-> << >>,
   subtask_message_start |-> << >>, visual_ref_map |-> 0]

VARIABLES
  thread,     (* the thread's state as last saved                          *)
  phase,      (* "idle", "turn" while one runs, "failed" when one raised   *)
  work,       (* the copy the running turn works on                        *)
  calls,      (* the calls of the turn                                     *)
  todo,       (* those it has not come to yet                              *)
  page,       (* the page the browser shows: pages are numbered            *)
  tasks,      (* tasks so far                                              *)
  turns,      (* turns begun so far                                        *)
  \* What follows records history for the properties; no handler reads it.
  known,        (* addresses found in results of the current task, or      *)
                (* opened in it                                            *)
  opened,       (* addresses the running turn has opened                   *)
  openedBefore  (* those that turns saved earlier in the task have opened  *)

turn    == <<phase, work, calls, todo>>
history == <<known, opened, openedBefore>>
vars    == <<thread, turn, page, tasks, turns, history>>

(* The thread and the turn's copy keep their shape: what a call records is *)
(* an address, a status or a position, never an argument that is not there.*)
TypeOK ==
  /\ thread \in Thread /\ work \in Thread
  /\ phase \in {"idle", "turn", "failed"}
  /\ calls \in Seq(Call) /\ todo \in Seq(Call)
  /\ page \in Nat /\ tasks \in Nat /\ turns \in Nat
  /\ known \subseteq Urls /\ opened \subseteq Urls /\ openedBefore \subseteq Urls

-----------------------------------------------------------------------------
(* Tasks and turns *)

(* _URL_RE and _clean_url: an address ends at the first space, quote or    *)
(* closing bracket of the text it stands in, and loses the punctuation     *)
(* after it: one that has a bracket of its own is cut there.               *)
Found(urls) == {ReadAs[u] : u \in urls}

(* run_input: what a new message of the user resets, and what it does not. *)
(* _task_scope_urls reads the first human message of the conversation.     *)
RunInput(t, urls) ==
  [messages |-> t.messages + 1,
   scope |-> IF t.messages = 0 THEN Found(urls) ELSE t.scope,
   observed_urls |-> {}, plan |-> << >>, subtask_message_start |-> << >>,
   visual_ref_map |-> t.visual_ref_map]

NewTask(urls) ==
  /\ phase = "idle"
  /\ tasks < MaxTasks
  /\ tasks' = tasks + 1
  /\ thread' = RunInput(thread, urls)
  /\ work' = thread'
  /\ known' = {} /\ opened' = {} /\ openedBefore' = {}
  /\ UNCHANGED <<phase, calls, todo, page, turns>>

(* A turn begins: the scope is added to what the thread has observed.      *)
Begin(t, proposed) ==
  /\ turns < MaxTurns
  /\ turns' = turns + 1
  /\ phase' = "turn"
  /\ thread' = t
  /\ work' = [t EXCEPT !.observed_urls = @ \cup t.scope]
  /\ calls' = proposed
  /\ todo' = proposed
  /\ opened' = {}
  /\ UNCHANGED <<page, tasks, known, openedBefore>>

(* call_llm has added its message, and the turn was let through.           *)
Propose ==
  /\ phase = "idle"
  /\ tasks > 0
  /\ \E proposed \in Turns : Begin([thread EXCEPT !.messages = @ + 1], proposed)

(* The graph is resumed on a turn that raised: the same calls again...     *)
Retry ==
  /\ phase = "failed"
  /\ Begin(thread, calls)

(* ... unless the human refuses it now.                                    *)
Reject ==
  /\ phase = "failed"
  /\ phase' = "idle"
  /\ thread' = [thread EXCEPT !.messages = @ + Len(calls)]
  /\ work' = thread'
  /\ calls' = << >>
  /\ UNCHANGED <<todo, page, tasks, turns, history>>

(* The last call has returned: the turn's copy is saved with its results.  *)
SaveTurn ==
  /\ phase = "turn"
  /\ todo = << >>
  /\ phase' = "idle"
  /\ thread' = [work EXCEPT !.messages = @ + Len(calls)]
  /\ work' = thread'
  /\ calls' = << >>
  /\ openedBefore' = openedBefore \cup opened
  /\ UNCHANGED <<todo, page, tasks, turns, known, opened>>

(* A call that reaches the browser may leave it on another page.           *)
PagesAfter(call) ==
  IF call.tool \in {"browser_navigate", "browser_click", "browser_click_ref"}
  THEN {page, page + 1}
  ELSE {page}

(* The turn raises on a call, before or after it was sent: its copy is     *)
(* lost, what its calls did in the browser is not.                         *)
TurnFails ==
  /\ phase = "turn"
  /\ todo # << >>
  /\ page' \in PagesAfter(Head(todo))
  /\ phase' = "failed"
  /\ work' = thread
  /\ todo' = << >>
  /\ opened' = {}
  /\ UNCHANGED <<thread, calls, tasks, turns, known, openedBefore>>

-----------------------------------------------------------------------------
(* The calls of a turn, in order *)

Doing(tools) ==
  /\ phase = "turn"
  /\ todo # << >>
  /\ Head(todo).tool \in tools

Done(w) ==
  /\ work' = w
  /\ todo' = Tail(todo)
  /\ UNCHANGED <<thread, phase, calls, tasks, turns>>

NewPlan(n) == [i \in 1..n |-> IF i = 1 THEN "en_cours" ELSE "a_faire"]

(* manage_plan, set_plan: validate_plan_heuristics refuses a plan of the   *)
(* wrong size, and may refuse any other for what its subtasks say.         *)
SetPlan ==
  /\ Doing({"set_plan"})
  /\ \/ /\ Head(todo).arg \in SubtasksMin..SubtasksMax
        /\ Done([work EXCEPT !.plan = NewPlan(Head(todo).arg),
                             !.subtask_message_start = <<thread.messages>>])
     \/ Done(work)
  /\ UNCHANGED <<page, history>>

(* Faulty variant: completes any subtask that is not completed yet.        *)
CompletedAnyway(plan, i) ==
  IF i \notin DOMAIN plan \/ plan[i] = "fait" THEN plan
  ELSE [j \in DOMAIN plan |-> IF j = i THEN "fait"
                              ELSE IF j = i + 1 THEN "en_cours" ELSE plan[j]]

(* Only the subtask in progress can be completed; the next one starts.     *)
Completed(plan, i) ==
  IF i \notin DOMAIN plan \/ plan[i] # "en_cours" THEN plan
  ELSE [j \in DOMAIN plan |-> IF j = i THEN "fait"
                              ELSE IF j = i + 1 THEN "en_cours" ELSE plan[j]]

CompleteSubtask ==
  /\ Doing({"complete_subtask"})
  /\ Done([work EXCEPT !.plan = Completed(@, Head(todo).arg)])
  /\ UNCHANGED <<page, history>>

(* The guardrail looks at what was saved: the turn that makes the thread's *)
(* first observations is exempt from it.                                   *)
Exempt == thread.observed_urls = {}

Fabricated(url) == ~Exempt /\ url # NoArg /\ url \notin work.observed_urls

NavigateRefused ==
  /\ Doing({"browser_navigate"})
  /\ Fabricated(Head(todo).arg)
  /\ Done(work)
  /\ UNCHANGED <<page, history>>

(* mcp-client's answer to a call: the addresses _extract_urls finds in the *)
(* result once truncated (whole on the link lines of a snapshot, cut as in *)
(* Found elsewhere), and the references of its capture.  A capture on      *)
(* which OCR finds nothing, or that it cannot read, makes no map; nor does *)
(* an error.                                                               *)
Answered(w, links, captured, on) ==
  [w EXCEPT !.observed_urls = @ \cup links,
            !.visual_ref_map = IF captured THEN on ELSE @]

Sent(w, urls) ==
  \E links \in SUBSET Urls, captured \in BOOLEAN :
    /\ page' \in PagesAfter(Head(todo))
    /\ known' = known \cup links \cup urls
    /\ opened' = opened \cup urls
    /\ Done(Answered(w, links, captured, page'))
    /\ UNCHANGED openedBefore

(* Faulty variant: only what results show is observed, not what is opened. *)
NavigateUnobserved ==
  /\ Doing({"browser_navigate"})
  /\ Head(todo).arg # NoArg
  /\ ~Fabricated(Head(todo).arg)
  /\ Sent(work, {Head(todo).arg})

Navigate ==
  /\ Doing({"browser_navigate"})
  /\ Head(todo).arg # NoArg
  /\ ~Fabricated(Head(todo).arg)
  /\ Sent([work EXCEPT !.observed_urls = @ \cup {Head(todo).arg}], {Head(todo).arg})

(* Without an address the call is sent, and tool_call["args"]["url"] then  *)
(* raises KeyError.                                                        *)
NavigateNowhere ==
  /\ Doing({"browser_navigate"})
  /\ Head(todo).arg = NoArg
  /\ TurnFails

Browse ==
  /\ Doing({"browser_snapshot", "browser_click"})
  /\ Sent(work, {})

(* browser_click_ref: a reference the map does not have is an error...     *)
ClickUnknownRef ==
  /\ Doing({"browser_click_ref"})
  /\ Done(work)
  /\ UNCHANGED <<page, history>>

(* ... and any other is clicked at the place the map has for it.           *)
ClickRef ==
  /\ Doing({"browser_click_ref"})
  /\ work.visual_ref_map # 0
  /\ Sent(work, {})

-----------------------------------------------------------------------------

Init ==
  /\ thread = EmptyThread /\ work = EmptyThread
  /\ phase = "idle" /\ calls = << >> /\ todo = << >>
  /\ page = 1 /\ tasks = 0 /\ turns = 0
  /\ known = {} /\ opened = {} /\ openedBefore = {}

Next ==
  \/ \E urls \in SUBSET Urls : NewTask(urls)
  \/ Propose \/ Retry \/ Reject \/ SaveTurn \/ TurnFails
  \/ SetPlan \/ CompleteSubtask
  \/ NavigateRefused \/ Navigate \/ NavigateNowhere
  \/ Browse \/ ClickUnknownRef \/ ClickRef

Spec == Init /\ [][Next]_vars

-----------------------------------------------------------------------------
(* Properties *)

(* The plan is always worked through in order: subtasks done, then at most *)
(* one in progress, then the ones to do, whatever mixture of set_plan and  *)
(* complete_subtask a turn makes (_active_subtask_index: "at most one      *)
(* en_cours subtask at a time").                                           *)
InOrder(plan) ==
  \A i, j \in DOMAIN plan :
    i < j => plan[i] = "fait" \/ plan[j] = "a_faire"

PlanInOrder == InOrder(thread.plan) /\ InOrder(work.plan)

(* Once a saved turn of the task has opened an address, every navigation   *)
(* that is let through, to the end of the task, goes to an address found   *)
(* in the conversation's first message or in a result of this task, or     *)
(* opened in it before, however often the agent insists and whatever turns *)
(* raise: the exemption of the first hop never comes back.  graph.py means *)
(* to exempt "the task's very FIRST navigation", and the test of the       *)
(* guardrail has it active "from the SECOND navigation onward"; the code   *)
(* reads has_prior_navigation from the saved state, so every navigation of *)
(* the first turn that opens one, and of the turns that raise before it,   *)
(* is exempt too: hence openedBefore.                                      *)
GuardedOnceOpened ==
  /\ openedBefore # {}
  /\ Doing({"browser_navigate"})
  /\ Head(todo).arg # NoArg
  /\ ~Fabricated(Head(todo).arg)
  => Head(todo).arg \in thread.scope \cup known

(* Past the threshold and once the plan's first subtask is done, the whole *)
(* of the conversation since that plan was made is replaced, and never     *)
(* anything else: before, nothing is, and the objective always stays.      *)
(* manage_plan records one boundary per plan, so the range reaches to the  *)
(* end of the list: the turns of the active subtask, which the docstring   *)
(* of _apply_episode_compaction says "are left untouched", go with it.     *)
CompactedSinceThePlan ==
  Compacted(thread.messages, thread.plan, thread.subtask_message_start) =
    IF /\ thread.messages > EpisodeCompactionTurnThreshold
       /\ 1 \in DOMAIN thread.plan /\ thread.plan[1] = "fait"
    THEN thread.subtask_message_start[1] .. (thread.messages - 1)
    ELSE {}

(* "A ref from a stale screenshot must fail loudly rather than resolve to  *)
(* a now-wrong position on a changed page" (AgentState.visual_ref_map).    *)
RefsAreCurrent == Doing({"browser_click_ref"}) => work.visual_ref_map \in {0, page}

=============================================================================

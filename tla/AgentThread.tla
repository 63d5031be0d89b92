---------------------------- MODULE AgentThread ----------------------------
(***************************************************************************)
(* One conversation thread of langgraph-agent: the graph of app/graph.py   *)
(* run by the HTTP handlers of app/main.py over the MemorySaver            *)
(* checkpointer.                                                           *)
(*                                                                         *)
(* A handler reads the thread (aget_state), writes a decision into it      *)
(* (aupdate_state) and runs the graph on it (ainvoke) in three steps with  *)
(* suspension points between them; nothing locks the thread.  A graph run  *)
(* works on its own copy of the state, loaded when it starts, and saves    *)
(* that copy whole after each node, so the last writer wins.               *)
(***************************************************************************)
EXTENDS ApprovalPolicy

CONSTANTS
  Requests,               (* slots for HTTP requests in flight             *)
  Proposals,              (* the sets of calls the model may propose       *)
  SlashCalls,             (* calls a user may type as a slash command      *)
  FaultyNodes,            (* nodes whose execution may raise               *)
  MaxToolIterations,      (* MAX_TOOL_ITERATIONS                           *)
  AutoApprovalStreakLimit,(* AUTO_APPROVAL_STREAK_LIMIT                    *)
  MaxEmptyAnswerRetries,  (* MAX_EMPTY_ANSWER_RETRIES                      *)
  MaxRequests             (* bound of the model: requests ever received    *)

ToolNodes == {"call_tools", "auto_call_tools", "run_slash_command_direct"}

Nodes ==
  {"retrieve_context", "select_skill", "validate_plan", "call_llm",
   "require_approval", "reject_tools", "retry_empty_answer",
   "prepare_slash_command"} \cup ToolNodes

(* Edges of the graph that carry no condition.  validate_plan is one of    *)
(* them here: run_input has just emptied the plan, and an empty plan is    *)
(* neither rejected nor submitted to a human.                              *)
StaticEdge ==
  [retrieve_context         |-> "select_skill",
   select_skill             |-> "validate_plan",
   validate_plan            |-> "call_llm",
   call_tools               |-> "call_llm",
   auto_call_tools          |-> "call_llm",
   reject_tools             |-> "call_llm",
   retry_empty_answer       |-> "call_llm",
   run_slash_command_direct |-> "end"]

(* Faulty variant: no allowance for the nodes outside the tool turns.      *)
TightRecursionLimit == MaxToolIterations * 4

RecursionLimit == MaxToolIterations * 4 + 10

(* What a user sends: a reply that approves once, one that approves for    *)
(* the session, a known slash command, or any other text (a task, or a     *)
(* refusal when something is pending).                                     *)
Message == [kind : {"text", "approuver", "session"}, calls : {{}}]
             \cup [kind : {"slash"}, calls : {{c} : c \in SlashCalls}]

NoMessage == [kind |-> "text", calls |-> {}]

(* The last message of the conversation, as far as the routing reads it.   *)
LastMessage == [kind : {"human", "results", "answer", "empty", "calls"},
                calls : SUBSET Call]

(* AgentState and the position of the graph.  "approved" is a tri-state:   *)
(* None, True, False.  Two fields exist only to state properties:          *)
(* proposal numbers the last tool_calls message, and decidedOn is the      *)
(* proposal the human was looking at when "approved" was written (0 when   *)
(* there was none to look at).                                             *)
Checkpoint ==
  [next : Nodes \cup {"end"}, by : Nodes \cup {"start"}, last : LastMessage,
   tool_iterations : Nat, approved : {"none", "yes", "no"},
   auto_approval_streak : Nat, session_grants : SUBSET Tools,
   grant_session : BOOLEAN, empty_answer_retries : Nat,
   proposal : Nat, decidedOn : Nat]

NewThread ==
  [next |-> "end", by |-> "start", last |-> [kind |-> "human", calls |-> {}],
   tool_iterations |-> 0, approved |-> "none", auto_approval_streak |-> 0,
   session_grants |-> {}, grant_session |-> FALSE, empty_answer_retries |-> 0,
   proposal |-> 0, decidedOn |-> 0]

ASSUME AgentAssumption ==
  /\ Proposals \subseteq (SUBSET Call) \ {{}}
  /\ SlashCalls \subseteq Call
  /\ FaultyNodes \subseteq Nodes
  /\ MaxToolIterations \in Nat
  /\ AutoApprovalStreakLimit \in Nat
  /\ MaxEmptyAnswerRetries \in Nat
  /\ MaxRequests \in Nat

VARIABLES
  store,      (* the latest checkpoint of the thread                       *)
  pc,         (* where each request's handler is                           *)
  msg,        (* the message, or the button press, each request carries    *)
  seen,       (* the snapshot each handler read with aget_state            *)
  run,        (* the copy of the state each graph run works on             *)
  steps,      (* nodes each graph run has visited                          *)
  arrivals,   (* requests received so far                                  *)
  \* What follows records history for the properties; no handler reads it.
  solo,       (* tool turns each request has executed since it arrived     *)
  minted,     (* tool_calls messages produced so far                       *)
  executed,   (* proposals whose calls were sent to mcp-client             *)
  granted     (* tools a human granted while looking at a call of theirs   *)

handlers == <<pc, msg, seen, run, steps, solo>>
history  == <<minted, executed, granted>>
vars     == <<store, handlers, arrivals, history>>

HandlerStates == {"idle", "start", "decide", "resume", "run"}

(* The thread, every snapshot and every run's copy are checkpoints: no     *)
(* node routes to a node the graph does not have.                          *)
TypeOK ==
  /\ store \in Checkpoint
  /\ pc \in [Requests -> HandlerStates]
  /\ msg \in [Requests -> Message]
  /\ seen \in [Requests -> Checkpoint]
  /\ run \in [Requests -> Checkpoint]
  /\ steps \in [Requests -> Nat]
  /\ arrivals \in Nat
  /\ minted \in Nat
  /\ executed \subseteq Nat
  /\ granted \subseteq Tools
  /\ solo \in [Requests -> Nat]

-----------------------------------------------------------------------------
(* Routing *)

Names(calls) == {c.name : c \in calls}

(* _route_entry: a known slash command leaves the normal flow.             *)
RouteEntry(s) ==
  IF s.last.calls # {} THEN "prepare_slash_command" ELSE "retrieve_context"

(* _route_slash_command_tier                                               *)
RouteSlashCommandTier(s) ==
  IF \E c \in s.last.calls : EffectiveTier(c, s.session_grants) = "sensitive"
  THEN "require_approval"
  ELSE "run_slash_command_direct"

(* Faulty variant: one automatic turn too many.                            *)
HasToolCallsLate(s) ==
  IF s.last.kind # "calls" \/ s.tool_iterations >= MaxToolIterations THEN "end"
  ELSE IF /\ \A c \in s.last.calls : IsAutoApproved(c, s.session_grants)
          /\ s.auto_approval_streak <= AutoApprovalStreakLimit
       THEN "auto_call_tools" ELSE "require_approval"

(* has_tool_calls                                                          *)
HasToolCalls(s) ==
  IF s.last.kind # "calls"
  THEN IF s.last.kind = "empty" /\ s.empty_answer_retries < MaxEmptyAnswerRetries
       THEN "retry_empty_answer" ELSE "end"
  ELSE IF s.tool_iterations >= MaxToolIterations THEN "end"
  ELSE IF /\ \A c \in s.last.calls : IsAutoApproved(c, s.session_grants)
          /\ s.auto_approval_streak < AutoApprovalStreakLimit
       THEN "auto_call_tools" ELSE "require_approval"

(* Faulty variant: the name of a node the graph does not have.             *)
RouteAfterApprovalUnmapped(s) ==
  IF s.approved = "yes" THEN "call_tools" ELSE "reject"

(* route_after_approval                                                    *)
RouteAfterApproval(s) ==
  IF s.approved = "yes" THEN "call_tools" ELSE "reject_tools"

(* Faulty variant: a tool turn wired back to the approval it came from.    *)
RouteFromBackwards(s) ==
  CASE s.by = "start"                 -> RouteEntry(s)
    [] s.by = "call_llm"              -> HasToolCalls(s)
    [] s.by = "require_approval"      -> RouteAfterApproval(s)
    [] s.by = "prepare_slash_command" -> RouteSlashCommandTier(s)
    [] s.by = "call_tools"            -> "require_approval"
    [] OTHER                          -> StaticEdge[s.by]

(* The node that follows the one that ran last.                            *)
RouteFrom(s) ==
  CASE s.by = "start"                 -> RouteEntry(s)
    [] s.by = "call_llm"              -> HasToolCalls(s)
    [] s.by = "require_approval"      -> RouteAfterApproval(s)
    [] s.by = "prepare_slash_command" -> RouteSlashCommandTier(s)
    [] OTHER                          -> StaticEdge[s.by]

-----------------------------------------------------------------------------
(* The handlers *)

Parse(m) ==
  [approved |-> IF m.kind \in {"approuver", "session"} THEN "yes" ELSE "no",
   session  |-> m.kind = "session"]

(* A request comes in and reads the thread.                                *)
Arrive(r, m) ==
  /\ pc[r] = "idle"
  /\ arrivals < MaxRequests
  /\ arrivals' = arrivals + 1
  /\ msg' = [msg EXCEPT ![r] = m]
  /\ seen' = [seen EXCEPT ![r] = store]
  /\ pc' = [pc EXCEPT ![r] = IF store.next = "end" THEN "start" ELSE "decide"]
  /\ UNCHANGED <<store, run, steps, solo, history>>

(* POST /v1/chat/completions: on a thread with nothing left to run the     *)
(* text is a new task, on any other it is taken for a decision.            *)
ChatCompletions(r) == \E m \in Message : Arrive(r, m)

(* POST /approve: refused with 409 when the thread has nothing left to run.*)
Approve(r) ==
  /\ store.next # "end"
  /\ \E m \in {x \in Message : x.kind # "slash"} : Arrive(r, m)

(* aupdate_state: the decision is written to the latest checkpoint as if   *)
(* the node that ran last had returned it, so that node's edges are        *)
(* evaluated again.  The human looked at the snapshot, not at the store.   *)
Decided(s, d, on) ==
  [s EXCEPT !.approved = d.approved, !.grant_session = d.session, !.decidedOn = on]

Decide(r) ==
  LET d     == Parse(msg[r])
      shown == seen[r].next = "require_approval"
      s     == Decided(store, d, IF shown THEN seen[r].proposal ELSE 0)
  IN /\ pc[r] = "decide"
     /\ store' = [s EXCEPT !.next = RouteFrom(s)]
     /\ granted' = IF d.session /\ shown
                   THEN granted \cup Names(seen[r].last.calls) ELSE granted
     /\ pc' = [pc EXCEPT ![r] = "resume"]
     /\ seen' = [seen EXCEPT ![r] = NewThread]
     /\ msg' = [msg EXCEPT ![r] = NoMessage]
     /\ UNCHANGED <<run, steps, arrivals, solo, minted, executed>>

(* Faulty variant: the grants are reset with the rest.                     *)
RunInputForgetsGrants(s, m) ==
  [NewThread EXCEPT !.by = "start", !.last = [kind |-> "human", calls |-> m.calls],
                    !.proposal = s.proposal]

(* run_input: a new task resets everything but the session grants.         *)
RunInput(s, m) ==
  [s EXCEPT !.by = "start", !.last = [kind |-> "human", calls |-> m.calls],
            !.tool_iterations = 0, !.approved = "none", !.decidedOn = 0,
            !.auto_approval_streak = 0, !.grant_session = FALSE,
            !.empty_answer_retries = 0]

(* ainvoke(run_input): a new run starts on the new messages; whatever the  *)
(* thread still had to run is dropped.                                     *)
Start(r) ==
  LET s == RunInput(store, msg[r])
      t == [s EXCEPT !.next = RouteFrom(s)]
  IN /\ pc[r] = "start"
     /\ pc' = [pc EXCEPT ![r] = "run"]
     /\ run' = [run EXCEPT ![r] = t]
     /\ store' = t
     /\ steps' = [steps EXCEPT ![r] = 1]
     /\ seen' = [seen EXCEPT ![r] = NewThread]
     /\ msg' = [msg EXCEPT ![r] = NoMessage]
     /\ UNCHANGED <<arrivals, solo, history>>

(* ainvoke(None): the run goes on from the latest checkpoint.              *)
Resume(r) ==
  /\ pc[r] = "resume"
  /\ pc' = [pc EXCEPT ![r] = "run"]
  /\ run' = [run EXCEPT ![r] = store]
  /\ steps' = [steps EXCEPT ![r] = 0]
  /\ UNCHANGED <<store, msg, seen, arrivals, solo, history>>

(* The handler answers and is done.                                        *)
Leave(r) ==
  /\ pc' = [pc EXCEPT ![r] = "idle"]
  /\ run' = [run EXCEPT ![r] = NewThread]
  /\ steps' = [steps EXCEPT ![r] = 0]
  /\ solo' = [solo EXCEPT ![r] = 0]
  /\ UNCHANGED <<store, msg, seen, arrivals>>

-----------------------------------------------------------------------------
(* The nodes of the graph, as run by request r *)

Running(r, node) ==
  /\ pc[r] = "run"
  /\ run[r].next = node
  /\ steps[r] < RecursionLimit

(* Node has returned and turned the run's state into s: the next node is   *)
(* chosen and the checkpoint saved.                                        *)
Saved(s, node) ==
  LET t == [s EXCEPT !.by = node] IN [t EXCEPT !.next = RouteFrom(t)]

Commit(r, node, s) ==
  /\ run' = [run EXCEPT ![r] = Saved(s, node)]
  /\ store' = Saved(s, node)
  /\ steps' = [steps EXCEPT ![r] = @ + 1]
  /\ UNCHANGED <<pc, msg, seen, arrivals>>

(* retrieve_context, select_skill and validate_plan add at most a system   *)
(* message, which no routing reads.                                        *)
PassThrough(r, node) ==
  /\ node \in {"retrieve_context", "select_skill", "validate_plan"}
  /\ Running(r, node)
  /\ Commit(r, node, run[r])
  /\ UNCHANGED <<solo, history>>

(* call_llm returns a visible answer, or nothing visible...                *)
Answered(s, kind) == [s EXCEPT !.last = [kind |-> kind, calls |-> {}]]

CallLlmAnswers(r) ==
  /\ Running(r, "call_llm")
  /\ \E kind \in {"answer", "empty"} : Commit(r, "call_llm", Answered(run[r], kind))
  /\ UNCHANGED <<solo, history>>

(* ... or tool calls, structured or recovered from its prose.              *)
Proposed(s, calls, number) ==
  [s EXCEPT !.last = [kind |-> "calls", calls |-> calls], !.proposal = number]

CallLlmProposes(r) ==
  /\ Running(r, "call_llm")
  /\ \E p \in Proposals : Commit(r, "call_llm", Proposed(run[r], p, minted + 1))
  /\ minted' = minted + 1
  /\ UNCHANGED <<solo, executed, granted>>

(* Faulty variant: the retry is not counted.                               *)
RetriedUncounted(s) == s

Retried(s) == [s EXCEPT !.empty_answer_retries = @ + 1]

RetryEmptyAnswer(r) ==
  /\ Running(r, "retry_empty_answer")
  /\ Commit(r, "retry_empty_answer", Retried(run[r]))
  /\ UNCHANGED <<solo, history>>

(* The typed command becomes the call the approval is asked for.           *)
PrepareSlashCommand(r) ==
  /\ Running(r, "prepare_slash_command")
  /\ Commit(r, "prepare_slash_command",
            Proposed(run[r], run[r].last.calls, minted + 1))
  /\ minted' = minted + 1
  /\ UNCHANGED <<solo, executed, granted>>

(* Faulty variant: waits for the decision inside the node.                 *)
InterruptWaits(r) ==
  /\ Running(r, "require_approval")
  /\ run[r].approved = "none"
  /\ UNCHANGED vars

(* require_approval raises NodeInterrupt while no decision is recorded...  *)
Interrupt(r) ==
  /\ Running(r, "require_approval")
  /\ run[r].approved = "none"
  /\ Leave(r)
  /\ UNCHANGED history

(* ... and otherwise lets the turn go on, recording the grant if any.      *)
GrantRecorded(s) ==
  [s EXCEPT !.auto_approval_streak = 0, !.grant_session = FALSE,
            !.session_grants = IF s.grant_session
                               THEN @ \cup Names(s.last.calls) ELSE @]

RequireApproval(r) ==
  /\ Running(r, "require_approval")
  /\ run[r].approved # "none"
  /\ Commit(r, "require_approval", GrantRecorded(run[r]))
  /\ UNCHANGED <<solo, history>>

(* Faulty variant: the pause is not rearmed.                               *)
ToolsExecutedStaysApproved(s) ==
  [s EXCEPT !.last = [kind |-> "results", calls |-> {}],
            !.tool_iterations = @ + 1, !.auto_approval_streak = @ + 1]

(* _execute_tool_calls, shared by call_tools and auto_call_tools: sends    *)
(* the calls to mcp-client and rearms the pause.                           *)
ToolsExecuted(s) ==
  [s EXCEPT !.last = [kind |-> "results", calls |-> {}],
            !.tool_iterations = @ + 1, !.approved = "none", !.decidedOn = 0,
            !.auto_approval_streak = @ + 1]

ExecuteToolCalls(r, node) ==
  /\ node \in {"call_tools", "auto_call_tools"}
  /\ Running(r, node)
  /\ Commit(r, node, ToolsExecuted(run[r]))
  /\ executed' = executed \cup {run[r].proposal}
  /\ solo' = [solo EXCEPT ![r] = @ + 1]
  /\ UNCHANGED <<minted, granted>>

(* run_slash_command_direct ends on a visible assistant message.           *)
SlashExecuted(s) ==
  [s EXCEPT !.last = [kind |-> "answer", calls |-> {}], !.tool_iterations = @ + 1]

RunSlashCommandDirect(r) ==
  /\ Running(r, "run_slash_command_direct")
  /\ Commit(r, "run_slash_command_direct", SlashExecuted(run[r]))
  /\ executed' = executed \cup {run[r].proposal}
  /\ solo' = [solo EXCEPT ![r] = @ + 1]
  /\ UNCHANGED <<minted, granted>>

ToolsRejected(s) ==
  [s EXCEPT !.last = [kind |-> "results", calls |-> {}],
            !.tool_iterations = @ + 1, !.approved = "none", !.decidedOn = 0]

RejectTools(r) ==
  /\ Running(r, "reject_tools")
  /\ Commit(r, "reject_tools", ToolsRejected(run[r]))
  /\ UNCHANGED <<solo, history>>

(* Nothing is left to run: the handler reads the thread and answers.       *)
Finish(r) ==
  /\ pc[r] = "run"
  /\ run[r].next = "end"
  /\ Leave(r)
  /\ UNCHANGED history

(* The graph runs out of its recursion limit: GraphRecursionError.         *)
OutOfSteps(r) ==
  /\ pc[r] = "run"
  /\ run[r].next # "end"
  /\ steps[r] >= RecursionLimit
  /\ Leave(r)
  /\ UNCHANGED history

(* A node raises, or the client closes the stream while it runs: nothing   *)
(* is saved, the node is still next, and calls it has already sent to      *)
(* mcp-client stay sent.                                                   *)
NodeFails(r) ==
  /\ \E node \in FaultyNodes : Running(r, node)
  /\ \/ UNCHANGED executed
     \/ /\ run[r].next \in ToolNodes
        /\ executed' = executed \cup {run[r].proposal}
  /\ Leave(r)
  /\ UNCHANGED <<minted, granted>>

(* The process restarts: MemorySaver keeps nothing.                        *)
Restart ==
  /\ store' = NewThread
  /\ pc' = [r \in Requests |-> "idle"]
  /\ seen' = [r \in Requests |-> NewThread]
  /\ run' = [r \in Requests |-> NewThread]
  /\ steps' = [r \in Requests |-> 0]
  /\ solo' = [r \in Requests |-> 0]
  /\ msg' = [r \in Requests |-> NoMessage]
  /\ granted' = {}
  /\ UNCHANGED <<arrivals, minted, executed>>

-----------------------------------------------------------------------------

Init ==
  /\ store = NewThread
  /\ pc = [r \in Requests |-> "idle"]
  /\ msg = [r \in Requests |-> NoMessage]
  /\ seen = [r \in Requests |-> NewThread]
  /\ run = [r \in Requests |-> NewThread]
  /\ steps = [r \in Requests |-> 0]
  /\ solo = [r \in Requests |-> 0]
  /\ arrivals = 0
  /\ minted = 0
  /\ executed = {}
  /\ granted = {}

(* What the service does by itself for a request it has accepted.          *)
Serve(r) ==
  \/ Decide(r) \/ Start(r) \/ Resume(r)
  \/ \E node \in Nodes : PassThrough(r, node)
  \/ CallLlmAnswers(r) \/ CallLlmProposes(r) \/ RetryEmptyAnswer(r)
  \/ PrepareSlashCommand(r) \/ RunSlashCommandDirect(r)
  \/ Interrupt(r) \/ RequireApproval(r) \/ RejectTools(r)
  \/ \E node \in Nodes : ExecuteToolCalls(r, node)
  \/ Finish(r) \/ OutOfSteps(r)

Next ==
  \/ \E r \in Requests :
       ChatCompletions(r) \/ Approve(r) \/ Serve(r) \/ NodeFails(r)
  \/ Restart

Spec == Init /\ [][Next]_vars

(* The event loop and the bounded calls to the LLM and to mcp-client keep  *)
(* an accepted request moving; nothing obliges a user to send one.         *)
FairSpec == Spec /\ \A r \in Requests : WF_vars(Serve(r))

-----------------------------------------------------------------------------
(* Properties *)

(* A node of a tool turn and of an empty answer each cost a step: the      *)
(* allowance covers 11 retries with the default budget of 20, and 1 is set.*)
RetriesFit == 2 * MaxEmptyAnswerRetries <= MaxToolIterations + 2

(* A graph run never dies of GraphRecursionError: recursion_limit, which   *)
(* main.py derives from MAX_TOOL_ITERATIONS, outlasts the tool budget, the *)
(* approval round trips and, as long as they fit, the empty-answer retries.*)
WithinRecursionLimit ==
  \A r \in Requests :
    pc[r] = "run" /\ run[r].next # "end" => steps[r] < RecursionLimit

(* Between two human messages at most AUTO_APPROVAL_STREAK_LIMIT tool      *)
(* turns are executed (one, when a human has just approved it).            *)
UnsupervisedTurnsBounded ==
  \A r \in Requests :
    solo[r] <= IF AutoApprovalStreakLimit = 0 THEN 1 ELSE AutoApprovalStreakLimit

AboutToRun(r, nodes) == pc[r] = "run" /\ run[r].next \in nodes

(* The decision that lets a turn through require_approval, either way, was *)
(* taken by a human who was looking at that very turn.                     *)
DecidedOnThisTurn ==
  \A r \in Requests :
    AboutToRun(r, {"call_tools", "reject_tools"}) => run[r].decidedOn = run[r].proposal

(* The same, for calls to the tools no session grant may cover: "every     *)
(* call of these two tools requires individual approval, no exception"     *)
(* (docs/architecture/tool-supervision.md).                                *)
IndividualApproval ==
  \A r \in Requests :
    /\ AboutToRun(r, {"call_tools"})
    /\ \E c \in run[r].last.calls : c.name \in NeverGrantableTools
    => run[r].decidedOn = run[r].proposal

(* What runs without a pause is not sensitive, or a human granted the tool *)
(* while one of its calls was pending and the tool is grantable.           *)
AutoRunsOnlyWhatIsAllowed ==
  \A r \in Requests :
    AboutToRun(r, {"auto_call_tools", "run_slash_command_direct"}) =>
      \A c \in run[r].last.calls :
        ResolvedTier(c) = "sensitive" => c.name \in granted \ NeverGrantableTools

(* A sensitive call that runs without a pause has its tool among the       *)
(* grants of the run that executes it, and the tool is grantable: nothing  *)
(* concurrent requests do to the grants makes browser_evaluate automatic.  *)
PausesUnlessGranted ==
  \A r \in Requests :
    AboutToRun(r, {"auto_call_tools", "run_slash_command_direct"}) =>
      \A c \in run[r].last.calls :
        ResolvedTier(c) = "sensitive" =>
          c.name \in run[r].session_grants \ NeverGrantableTools

(* One approval executes one turn: a turn is never sent to mcp-client      *)
(* twice, and never after it was rejected or before it is.                 *)
ExecutedAtMostOnce ==
  \A r \in Requests :
    AboutToRun(r, ToolNodes \cup {"reject_tools"}) => run[r].proposal \notin executed

(* A reply is taken for a decision only where an approval is pending: any  *)
(* other text would be lost, and /approve answers 409 to a button press    *)
(* "if there's no pending approval" (docs/architecture/tool-supervision.md)*)
DecisionsAnswerAPause ==
  \A r \in Requests : pc[r] = "decide" => seen[r].next = "require_approval"

(* A grant given for the session outlives the task, the refusals and the   *)
(* failures that follow; only a restart loses it.                          *)
GrantsLastTheThread ==
  [][store.session_grants \subseteq store'.session_grants \/ Restart]_store

(* What the thread stands for: the turn it has to settle, seen as the      *)
(* supervisor sees it.  A decision stands in "approved" from the pause to  *)
(* the end of the tool turn.                                               *)
PhaseOf(s) ==
  CASE s.next = "require_approval" ->
         (CASE s.approved = "none" -> "pending"
            [] s.approved = "yes"  -> "approved"
            [] OTHER               -> "refused")
    [] s.next = "call_tools"   -> "approved"
    [] s.next = "reject_tools" -> "refused"
    [] s.next \in {"auto_call_tools", "run_slash_command_direct"} -> "automatic"
    [] OTHER -> "idle"

TurnOf(s)  == IF PhaseOf(s) = "idle" THEN 0 ELSE s.proposal
CallsOf(s) == IF PhaseOf(s) = "idle" THEN {} ELSE s.last.calls

Human == INSTANCE Supervision WITH
  Calls     <- Call,
  Sensitive <- {c \in Call : ResolvedTier(c) = "sensitive"},
  Grantable <- Tools \ NeverGrantableTools,
  phase     <- PhaseOf(store),
  turn      <- TurnOf(store),
  calls     <- CallsOf(store),
  grants    <- granted,
  used      <- 1..minted,
  executed  <- executed

(* The thread implements what it promises to a human: each turn of the     *)
(* model is settled before the next, on a decision about that very turn or *)
(* on the policy and on grants that came from a human, and is sent to      *)
(* mcp-client once at most.                                                *)
HumanSupervises == Human!Spec

(* Every request the service accepts is answered, with a result, an        *)
(* approval to give, or an error notice.                                   *)
EveryRequestAnswered == \A r \in Requests : pc[r] # "idle" ~> pc[r] = "idle"

=============================================================================

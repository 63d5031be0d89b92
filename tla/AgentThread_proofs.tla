------------------------- MODULE AgentThread_proofs -------------------------
(***************************************************************************)
(* What holds of AgentThread for every set of concurrent requests, every   *)
(* tool table and every value of the limits.                               *)
(***************************************************************************)
EXTENDS AgentThread, TLAPS

-----------------------------------------------------------------------------
(* The operators that make checkpoints make well-typed ones. *)

LEMMA NewThreadType == NewThread \in Checkpoint
BY DEF NewThread, Checkpoint, LastMessage, Nodes, ToolNodes, Call

LEMMA MessageType ==
  /\ NoMessage \in Message
  /\ \A m \in Message : m.calls \subseteq Call
BY AgentAssumption DEF NoMessage, Message

LEMMA NamesType ==
  ASSUME NEW s \in Checkpoint
  PROVE  Names(s.last.calls) \subseteq Tools
BY DEF Names, Checkpoint, LastMessage, Call

(* Whatever ran last, the next node is a node of the graph, or the end.    *)
LEMMA RouteFromType ==
  ASSUME NEW s \in Checkpoint
  PROVE  RouteFrom(s) \in Nodes \cup {"end"}
<1>1. RouteEntry(s) \in Nodes /\ RouteSlashCommandTier(s) \in Nodes
  BY DEF RouteEntry, RouteSlashCommandTier, Nodes, ToolNodes
<1>2. HasToolCalls(s) \in Nodes \cup {"end"} /\ RouteAfterApproval(s) \in Nodes
  BY DEF HasToolCalls, RouteAfterApproval, Nodes, ToolNodes
<1>3. s.by \in Nodes \cup {"start"}
  BY DEF Checkpoint
<1>4. ASSUME NEW node \in Nodes \ {"call_llm", "require_approval", "prepare_slash_command"}
      PROVE  StaticEdge[node] \in Nodes \cup {"end"}
  BY <1>4 DEF StaticEdge, Nodes, ToolNodes
<1> QED
  BY <1>1, <1>2, <1>3, <1>4 DEF RouteFrom

LEMMA RoutedType ==
  ASSUME NEW s \in Checkpoint
  PROVE  [s EXCEPT !.next = RouteFrom(s)] \in Checkpoint
BY RouteFromType DEF Checkpoint

LEMMA SavedType ==
  ASSUME NEW s \in Checkpoint, NEW node \in Nodes
  PROVE  Saved(s, node) \in Checkpoint
<1>1. [s EXCEPT !.by = node] \in Checkpoint
  BY DEF Checkpoint
<1> QED
  BY <1>1, RoutedType DEF Saved

(* What the nodes and the handlers return.                                 *)
LEMMA ReturnTypes ==
  ASSUME NEW s \in Checkpoint
  PROVE  /\ \A kind \in {"answer", "empty"} : Answered(s, kind) \in Checkpoint
         /\ \A calls \in SUBSET Call, n \in Nat : Proposed(s, calls, n) \in Checkpoint
         /\ Retried(s) \in Checkpoint
         /\ GrantRecorded(s) \in Checkpoint
         /\ ToolsExecuted(s) \in Checkpoint
         /\ SlashExecuted(s) \in Checkpoint
         /\ ToolsRejected(s) \in Checkpoint
         /\ \A m \in Message : RunInput(s, m) \in Checkpoint
         /\ \A m \in Message, on \in Nat : Decided(s, Parse(m), on) \in Checkpoint
<1>1. ASSUME NEW kind \in {"answer", "empty"} PROVE Answered(s, kind) \in Checkpoint
  BY DEF Answered, Checkpoint, LastMessage
<1>2. ASSUME NEW calls \in SUBSET Call, NEW n \in Nat
      PROVE  Proposed(s, calls, n) \in Checkpoint
  <2>1. [kind |-> "calls", calls |-> calls] \in LastMessage
    BY DEF LastMessage
  <2> QED
    BY <2>1 DEF Proposed, Checkpoint
<1>3. Retried(s) \in Checkpoint
  BY DEF Retried, Checkpoint
<1>4. GrantRecorded(s) \in Checkpoint
  BY NamesType DEF GrantRecorded, Checkpoint
<1>5. ToolsExecuted(s) \in Checkpoint /\ ToolsRejected(s) \in Checkpoint
      /\ SlashExecuted(s) \in Checkpoint
  <2>1. \A kind \in {"results", "answer"} : [kind |-> kind, calls |-> {}] \in LastMessage
    BY DEF LastMessage
  <2>2. s.tool_iterations + 1 \in Nat /\ s.auto_approval_streak + 1 \in Nat
    BY DEF Checkpoint
  <2>3. SlashExecuted(s) \in Checkpoint
    BY <2>1, <2>2 DEF SlashExecuted, Checkpoint
  <2>4. ToolsRejected(s) \in Checkpoint
    BY <2>1, <2>2 DEF ToolsRejected, Checkpoint
  <2>5. ToolsExecuted(s) \in Checkpoint
    BY <2>1, <2>2 DEF ToolsExecuted, Checkpoint
  <2> QED
    BY <2>3, <2>4, <2>5
<1>6. ASSUME NEW m \in Message PROVE RunInput(s, m) \in Checkpoint
  <2>1. [kind |-> "human", calls |-> m.calls] \in LastMessage
    BY MessageType DEF LastMessage
  <2> QED
    BY <2>1 DEF RunInput, Checkpoint
<1>7. ASSUME NEW m \in Message, NEW on \in Nat
      PROVE  Decided(s, Parse(m), on) \in Checkpoint
  BY DEF Decided, Parse, Checkpoint
<1> QED
  BY <1>1, <1>2, <1>3, <1>4, <1>5, <1>6, <1>7

-----------------------------------------------------------------------------
(* Type correctness. *)

LEMMA CommitType ==
  ASSUME TypeOK, NEW r \in Requests, NEW node \in Nodes, NEW s \in Checkpoint,
         Commit(r, node, s)
  PROVE  /\ store' \in Checkpoint
         /\ run' \in [Requests -> Checkpoint]
         /\ steps' \in [Requests -> Nat]
         /\ UNCHANGED <<pc, msg, seen, arrivals>>
BY SavedType DEF Commit, TypeOK

LEMMA LeaveType ==
  ASSUME TypeOK, NEW r \in Requests, Leave(r)
  PROVE  /\ pc' \in [Requests -> HandlerStates]
         /\ run' \in [Requests -> Checkpoint]
         /\ steps' \in [Requests -> Nat]
         /\ solo' \in [Requests -> Nat]
         /\ UNCHANGED <<store, msg, seen, arrivals>>
BY NewThreadType DEF Leave, TypeOK, HandlerStates

LEMMA TypeInit == Init => TypeOK
BY NewThreadType, MessageType DEF Init, TypeOK, HandlerStates

LEMMA TypeStep == TypeOK /\ [Next]_vars => TypeOK'
<1> SUFFICES ASSUME TypeOK, [Next]_vars PROVE TypeOK'
  OBVIOUS
<1> USE DEF handlers, history
<1>1. ASSUME NEW r \in Requests, NEW m \in Message, Arrive(r, m)
      PROVE  TypeOK'
  BY <1>1 DEF Arrive, TypeOK, HandlerStates
<1>2. ASSUME NEW r \in Requests, Decide(r)
      PROVE  TypeOK'
  <2>1. /\ store \in Checkpoint /\ seen[r] \in Checkpoint /\ msg[r] \in Message
        /\ seen[r].proposal \in Nat
    BY DEF TypeOK, Checkpoint
  <2>2. store' \in Checkpoint
    BY <1>2, <2>1, ReturnTypes, RoutedType DEF Decide
  <2>3. granted' \subseteq Tools
    BY <1>2, <2>1, NamesType DEF Decide, TypeOK
  <2> QED
    BY <1>2, <2>2, <2>3, NewThreadType, MessageType DEF Decide, TypeOK, HandlerStates
<1>3. ASSUME NEW r \in Requests, Start(r)
      PROVE  TypeOK'
  <2>1. RunInput(store, msg[r]) \in Checkpoint
    BY ReturnTypes DEF TypeOK
  <2>2. store' \in Checkpoint /\ run' \in [Requests -> Checkpoint]
    BY <1>3, <2>1, RoutedType DEF Start, TypeOK
  <2> QED
    BY <1>3, <2>2, NewThreadType, MessageType DEF Start, TypeOK, HandlerStates
<1>4. ASSUME NEW r \in Requests, Resume(r)
      PROVE  TypeOK'
  BY <1>4 DEF Resume, TypeOK, HandlerStates
<1>5. ASSUME NEW r \in Requests,
             \/ \E node \in Nodes : PassThrough(r, node) \/ ExecuteToolCalls(r, node)
             \/ CallLlmAnswers(r) \/ CallLlmProposes(r) \/ RetryEmptyAnswer(r)
             \/ PrepareSlashCommand(r) \/ RunSlashCommandDirect(r)
             \/ RequireApproval(r) \/ RejectTools(r)
      PROVE  TypeOK'
  <2>1. /\ run[r] \in Checkpoint
        /\ run[r].last.calls \in SUBSET Call
        /\ run[r].proposal \in Nat
        /\ minted + 1 \in Nat
    BY DEF TypeOK, Checkpoint, LastMessage
  <2>2. /\ executed \cup {run[r].proposal} \subseteq Nat
        /\ [solo EXCEPT ![r] = @ + 1] \in [Requests -> Nat]
    <3>1. executed \subseteq Nat /\ solo \in [Requests -> Nat] /\ solo[r] + 1 \in Nat
      BY DEF TypeOK
    <3> QED
      BY <2>1, <3>1
  <2>3. PICK node \in Nodes, s \in Checkpoint : Commit(r, node, s)
    <3>1. ASSUME NEW node \in Nodes, PassThrough(r, node) \/ ExecuteToolCalls(r, node)
          PROVE  \E s \in Checkpoint : Commit(r, node, s)
      BY <2>1, <3>1, ReturnTypes DEF PassThrough, ExecuteToolCalls
    <3>2. CASE CallLlmAnswers(r)
      BY <2>1, <3>2, ReturnTypes DEF CallLlmAnswers, Nodes
    <3>3. CASE CallLlmProposes(r)
      BY <2>1, <3>3, ReturnTypes, AgentAssumption DEF CallLlmProposes, Nodes
    <3>4. CASE PrepareSlashCommand(r)
      BY <2>1, <3>4, ReturnTypes DEF PrepareSlashCommand, Nodes
    <3>5. CASE RetryEmptyAnswer(r) \/ RunSlashCommandDirect(r) \/ RequireApproval(r)
                 \/ RejectTools(r)
      BY <2>1, <3>5, ReturnTypes
      DEF RetryEmptyAnswer, RunSlashCommandDirect, RequireApproval, RejectTools,
          Nodes, ToolNodes
    <3> QED
      BY <1>5, <3>1, <3>2, <3>3, <3>4, <3>5
  <2>4. /\ minted' \in Nat /\ executed' \subseteq Nat /\ granted' \subseteq Tools
        /\ solo' \in [Requests -> Nat]
    <3>1. ASSUME NEW n \in Nodes, PassThrough(r, n) \/ ExecuteToolCalls(r, n)
          PROVE  /\ minted' \in Nat /\ executed' \subseteq Nat /\ granted' \subseteq Tools
                 /\ solo' \in [Requests -> Nat]
      BY <2>2, <3>1 DEF TypeOK, PassThrough, ExecuteToolCalls
    <3>2. CASE CallLlmProposes(r) \/ PrepareSlashCommand(r)
      BY <2>1, <3>2 DEF TypeOK, CallLlmProposes, PrepareSlashCommand
    <3>3. CASE RunSlashCommandDirect(r)
      BY <2>2, <3>3 DEF TypeOK, RunSlashCommandDirect
    <3>4. CASE CallLlmAnswers(r) \/ RetryEmptyAnswer(r) \/ RequireApproval(r) \/ RejectTools(r)
      BY <3>4 DEF TypeOK, CallLlmAnswers, RetryEmptyAnswer, RequireApproval, RejectTools
    <3> QED
      BY <1>5, <3>1, <3>2, <3>3, <3>4
  <2> QED
    BY <2>3, <2>4, CommitType DEF TypeOK
<1>6. ASSUME NEW r \in Requests, Interrupt(r) \/ Finish(r) \/ OutOfSteps(r) \/ NodeFails(r)
      PROVE  TypeOK'
  <2>1. run[r].proposal \in Nat
    BY DEF TypeOK, Checkpoint
  <2> QED
    BY <1>6, <2>1, LeaveType DEF Interrupt, Finish, OutOfSteps, NodeFails, TypeOK
<1>7. CASE Restart
  BY <1>7, NewThreadType, MessageType DEF Restart, TypeOK, HandlerStates
<1>8. CASE UNCHANGED vars
  BY <1>8 DEF vars, TypeOK
<1> QED
  BY <1>1, <1>2, <1>3, <1>4, <1>5, <1>6, <1>7, <1>8 DEF Next, Serve, ChatCompletions, Approve

(* Every reachable state is well typed: no counter, route or decision      *)
(* leaves its domain, and no node routes to a node the graph does not have.*)
THEOREM TypeCorrect == Spec => []TypeOK
BY TypeInit, TypeStep, PTL DEF Spec

-----------------------------------------------------------------------------
(* The inductive invariant.  A checkpoint knows why its next node is next, *)
(* and has not outgrown its budgets; a run has paid for its steps with     *)
(* tool turns and retries; and the turns it executed since its request     *)
(* arrived are counted by the streak or are its only one.                  *)

ToolBudget == IF MaxToolIterations = 0 THEN 1 ELSE MaxToolIterations

Routed(s) == s.next = RouteFrom(s) \/ s = NewThread

Budgeted(s) ==
  /\ s.tool_iterations <= ToolBudget
  /\ s.empty_answer_retries <= MaxEmptyAnswerRetries
  /\ s.by \in {"start", "prepare_slash_command", "require_approval"} =>
       s.tool_iterations < ToolBudget

Sound(s) == Routed(s) /\ Budgeted(s)

(* How many nodes precede a node within one turn, the request's first.     *)
Depth ==
  [retrieve_context |-> 1, select_skill |-> 2, validate_plan |-> 3, call_llm |-> 4,
   prepare_slash_command |-> 1, run_slash_command_direct |-> 2,
   require_approval |-> 5, auto_call_tools |-> 5, retry_empty_answer |-> 5,
   call_tools |-> 6, reject_tools |-> 6]

Paid(s, n) ==
  s.next # "end" =>
    n <= 3 * s.tool_iterations + 2 * s.empty_answer_retries + Depth[s.next]

TurnLimit == IF AutoApprovalStreakLimit = 0 THEN 1 ELSE AutoApprovalStreakLimit

Supervised(s, k) ==
  /\ k <= TurnLimit
  /\ s.next # "end" =>
       /\ k <= s.auto_approval_streak
       /\ s.approved # "none" \/ s.by \in {"start", "prepare_slash_command"} => k = 0

RunInv(r) ==
  IF pc[r] = "run" THEN Paid(run[r], steps[r]) /\ Supervised(run[r], solo[r])
                   ELSE solo[r] = 0

IInv ==
  /\ TypeOK
  /\ Sound(store)
  /\ \A r \in Requests : Sound(run[r]) /\ RunInv(r)

-----------------------------------------------------------------------------
(* Why a node is next. *)

LEMMA NewThreadSound == Sound(NewThread)
BY AgentAssumption DEF Sound, Routed, Budgeted, NewThread, ToolBudget

(* Routing does not look at the field it sets.                             *)
LEMMA RouteFromNext ==
  ASSUME NEW s \in Checkpoint, NEW x
  PROVE  RouteFrom([s EXCEPT !.next = x]) = RouteFrom(s)
<1> DEFINE t == [s EXCEPT !.next = x]
<1>1. /\ t.by = s.by /\ t.last = s.last /\ t.session_grants = s.session_grants
      /\ t.approved = s.approved /\ t.tool_iterations = s.tool_iterations
      /\ t.auto_approval_streak = s.auto_approval_streak
      /\ t.empty_answer_retries = s.empty_answer_retries
  BY DEF Checkpoint
<1>2. RouteEntry(t) = RouteEntry(s) /\ RouteAfterApproval(t) = RouteAfterApproval(s)
  BY <1>1 DEF RouteEntry, RouteAfterApproval
<1>3. RouteSlashCommandTier(t) = RouteSlashCommandTier(s)
  BY <1>1 DEF RouteSlashCommandTier
<1>4. HasToolCalls(t) = HasToolCalls(s)
  BY <1>1 DEF HasToolCalls
<1> HIDE DEF t
<1> QED
  BY <1>1, <1>2, <1>3, <1>4 DEF RouteFrom, t

LEMMA RoutedFacts ==
  ASSUME NEW s \in Checkpoint, Routed(s)
  PROVE  /\ s.next = "retrieve_context" => s.by = "start"
         /\ s.next = "prepare_slash_command" => s.by = "start"
         /\ s.next = "run_slash_command_direct" =>
              /\ s.by = "prepare_slash_command"
              /\ \A c \in s.last.calls : EffectiveTier(c, s.session_grants) # "sensitive"
         /\ s.next = "require_approval" =>
              \/ s.by = "call_llm" /\ s.tool_iterations < MaxToolIterations
              \/ s.by = "prepare_slash_command"
         /\ s.next = "auto_call_tools" =>
              /\ s.tool_iterations < MaxToolIterations
              /\ s.auto_approval_streak < AutoApprovalStreakLimit
              /\ \A c \in s.last.calls : IsAutoApproved(c, s.session_grants)
         /\ s.next = "call_tools" => s.by = "require_approval" /\ s.approved = "yes"
         /\ s.next = "reject_tools" => s.by = "require_approval"
         /\ s.next = "retry_empty_answer" =>
              s.by = "call_llm" /\ s.empty_answer_retries < MaxEmptyAnswerRetries
<1>1. CASE s = NewThread
  BY <1>1 DEF NewThread
<1>2. CASE s.next = RouteFrom(s)
  <2>1. s.by \in Nodes \cup {"start"}
    BY DEF Checkpoint
  <2>2. CASE s.by = "start"
    BY <1>2, <2>2 DEF RouteFrom, RouteEntry
  <2>3. CASE s.by = "call_llm"
    <3>1. s.next = HasToolCalls(s)
      BY <1>2, <2>3 DEF RouteFrom
    <3>2. s.tool_iterations \in Nat /\ s.auto_approval_streak \in Nat
          /\ s.empty_answer_retries \in Nat
      BY DEF Checkpoint
    <3> QED
      BY <2>3, <3>1, <3>2, AgentAssumption DEF HasToolCalls
  <2>4. CASE s.by = "require_approval"
    BY <1>2, <2>4 DEF RouteFrom, RouteAfterApproval
  <2>5. CASE s.by = "prepare_slash_command"
    BY <1>2, <2>5 DEF RouteFrom, RouteSlashCommandTier
  <2>6. CASE s.by \in Nodes \ {"call_llm", "require_approval", "prepare_slash_command"}
    BY <1>2, <2>6 DEF RouteFrom, StaticEdge, Nodes, ToolNodes
  <2> QED
    BY <2>1, <2>2, <2>3, <2>4, <2>5, <2>6
<1> QED
  BY <1>1, <1>2 DEF Routed

(* What Saved leaves alone, and that what it saves is routed.              *)
LEMMA SavedFacts ==
  ASSUME NEW s \in Checkpoint, NEW node \in Nodes
  PROVE  LET u == Saved(s, node) IN
         /\ u \in Checkpoint
         /\ Routed(u)
         /\ u.by = node
         /\ u.tool_iterations = s.tool_iterations
         /\ u.empty_answer_retries = s.empty_answer_retries
         /\ u.auto_approval_streak = s.auto_approval_streak
         /\ u.approved = s.approved
         /\ node \in {"call_tools", "auto_call_tools", "reject_tools",
                      "retry_empty_answer", "validate_plan"} => u.next = "call_llm"
         /\ node = "retrieve_context" => u.next = "select_skill"
         /\ node = "select_skill" => u.next = "validate_plan"
         /\ node = "run_slash_command_direct" => u.next = "end"
         /\ node = "prepare_slash_command" =>
              u.next \in {"require_approval", "run_slash_command_direct"}
         /\ node = "require_approval" => u.next \in {"call_tools", "reject_tools"}
         /\ node = "call_llm" =>
              u.next \in {"end", "retry_empty_answer", "auto_call_tools", "require_approval"}
<1> DEFINE t == [s EXCEPT !.by = node]
           u == Saved(s, node)
<1>1. t \in Checkpoint /\ t.by = node
  BY DEF Checkpoint
<1>2. u = [t EXCEPT !.next = RouteFrom(t)]
  BY DEF Saved
<1>3. u \in Checkpoint
  BY SavedType
<1>4. u.next = RouteFrom(t) /\ u.by = node
  BY <1>1, <1>2 DEF Checkpoint
<1>5. Routed(u)
  <2> HIDE DEF t
  <2>1. RouteFrom(u) = RouteFrom(t)
    BY <1>1, <1>2, RouteFromNext
  <2> QED
    BY <1>4, <2>1 DEF Routed
<1>6. /\ u.tool_iterations = s.tool_iterations
      /\ u.empty_answer_retries = s.empty_answer_retries
      /\ u.auto_approval_streak = s.auto_approval_streak
      /\ u.approved = s.approved
  <2>1. /\ t.tool_iterations = s.tool_iterations
        /\ t.empty_answer_retries = s.empty_answer_retries
        /\ t.auto_approval_streak = s.auto_approval_streak
        /\ t.approved = s.approved
    BY DEF Checkpoint
  <2> HIDE DEF t, u
  <2> QED
    BY <1>1, <1>2, <2>1 DEF Checkpoint
<1>7. /\ node \in {"call_tools", "auto_call_tools", "reject_tools",
                   "retry_empty_answer", "validate_plan"} => RouteFrom(t) = "call_llm"
      /\ node = "retrieve_context" => RouteFrom(t) = "select_skill"
      /\ node = "select_skill" => RouteFrom(t) = "validate_plan"
      /\ node = "run_slash_command_direct" => RouteFrom(t) = "end"
      /\ node = "prepare_slash_command" =>
           RouteFrom(t) \in {"require_approval", "run_slash_command_direct"}
      /\ node = "require_approval" => RouteFrom(t) \in {"call_tools", "reject_tools"}
      /\ node = "call_llm" =>
           RouteFrom(t) \in {"end", "retry_empty_answer", "auto_call_tools", "require_approval"}
  <2> HIDE DEF t
  <2>1. /\ RouteSlashCommandTier(t) \in {"require_approval", "run_slash_command_direct"}
        /\ RouteAfterApproval(t) \in {"call_tools", "reject_tools"}
        /\ HasToolCalls(t) \in
             {"end", "retry_empty_answer", "auto_call_tools", "require_approval"}
    BY DEF RouteSlashCommandTier, RouteAfterApproval, HasToolCalls
  <2> QED
    BY <1>1, <2>1 DEF RouteFrom, StaticEdge
<1> QED
  BY <1>3, <1>4, <1>5, <1>6, <1>7

-----------------------------------------------------------------------------
(* Each node keeps a run sound, paid for and supervised. *)

Kept(s, n, k) == Sound(s) /\ Paid(s, n) /\ Supervised(s, k)

(* After any node, given what it returned, only the budgets of the next    *)
(* node remain to be checked.                                              *)
LEMMA NodeReturns ==
  ASSUME NEW s \in Checkpoint, Sound(s), NEW n \in Nat, Paid(s, n),
         NEW k \in Nat, Supervised(s, k), s.next # "end"
  PROVE  /\ s.next \in {"retrieve_context", "select_skill", "validate_plan"} =>
              Kept(Saved(s, s.next), n + 1, k)
         /\ s.next = "call_llm" =>
              /\ \A kind \in {"answer", "empty"} :
                   Kept(Saved(Answered(s, kind), "call_llm"), n + 1, k)
              /\ \A calls \in SUBSET Call, number \in Nat :
                   Kept(Saved(Proposed(s, calls, number), "call_llm"), n + 1, k)
         /\ s.next = "retry_empty_answer" =>
              Kept(Saved(Retried(s), "retry_empty_answer"), n + 1, k)
         /\ s.next = "prepare_slash_command" =>
              \A calls \in SUBSET Call, number \in Nat :
                Kept(Saved(Proposed(s, calls, number), "prepare_slash_command"), n + 1, k)
         /\ s.next = "require_approval" /\ s.approved # "none" =>
              Kept(Saved(GrantRecorded(s), "require_approval"), n + 1, k)
         /\ s.next \in {"call_tools", "auto_call_tools"} =>
              Kept(Saved(ToolsExecuted(s), s.next), n + 1, k + 1)
         /\ s.next = "run_slash_command_direct" =>
              Kept(Saved(SlashExecuted(s), "run_slash_command_direct"), n + 1, k + 1)
         /\ s.next = "reject_tools" =>
              Kept(Saved(ToolsRejected(s), "reject_tools"), n + 1, k)
<1> USE DEF Kept, Sound, Nodes, ToolNodes
<1>1. /\ s.tool_iterations \in Nat /\ s.empty_answer_retries \in Nat
      /\ s.auto_approval_streak \in Nat /\ s.approved \in {"none", "yes", "no"}
      /\ MaxToolIterations \in Nat /\ MaxEmptyAnswerRetries \in Nat
      /\ AutoApprovalStreakLimit \in Nat
      /\ ToolBudget \in Nat /\ ToolBudget >= 1 /\ ToolBudget >= MaxToolIterations
      /\ TurnLimit \in Nat /\ TurnLimit >= 1 /\ TurnLimit >= AutoApprovalStreakLimit
  BY AgentAssumption DEF Checkpoint, ToolBudget, TurnLimit
<1>2. /\ n <= 3 * s.tool_iterations + 2 * s.empty_answer_retries + Depth[s.next]
      /\ k <= TurnLimit /\ k <= s.auto_approval_streak
      /\ s.approved # "none" \/ s.by \in {"start", "prepare_slash_command"} => k = 0
      /\ s.tool_iterations <= ToolBudget
      /\ s.empty_answer_retries <= MaxEmptyAnswerRetries
      /\ s.by \in {"start", "prepare_slash_command", "require_approval"} =>
           s.tool_iterations < ToolBudget
  BY DEF Paid, Supervised, Budgeted
<1>3. ASSUME s.next \in {"retrieve_context", "select_skill", "validate_plan"}
      PROVE  Kept(Saved(s, s.next), n + 1, k)
  <2> DEFINE u == Saved(s, s.next)
  <2>1. /\ Routed(u) /\ u.by = s.next
        /\ u.tool_iterations = s.tool_iterations
        /\ u.empty_answer_retries = s.empty_answer_retries
        /\ u.auto_approval_streak = s.auto_approval_streak
        /\ u.approved = s.approved
        /\ u.next \in {"select_skill", "validate_plan", "call_llm"}
    BY <1>3, SavedFacts
  <2>2. Depth[u.next] = Depth[s.next] + 1 /\ Depth[s.next] \in Nat
    BY <1>3, SavedFacts DEF Depth
  <2> HIDE DEF u
  <2> QED
    BY <1>1, <1>2, <1>3, <2>1, <2>2 DEF Budgeted, Paid, Supervised, u
<1>4. ASSUME s.next = "call_llm", NEW t \in Checkpoint,
             t.tool_iterations = s.tool_iterations,
             t.empty_answer_retries = s.empty_answer_retries,
             t.auto_approval_streak = s.auto_approval_streak,
             t.approved = s.approved
      PROVE  Kept(Saved(t, "call_llm"), n + 1, k)
  <2> DEFINE u == Saved(t, "call_llm")
  <2>1. /\ Routed(u) /\ u.by = "call_llm"
        /\ u.tool_iterations = s.tool_iterations
        /\ u.empty_answer_retries = s.empty_answer_retries
        /\ u.auto_approval_streak = s.auto_approval_streak
        /\ u.approved = s.approved
        /\ u.next \in {"end", "retry_empty_answer", "auto_call_tools", "require_approval"}
    BY <1>4, SavedFacts
  <2>2. u.next # "end" => Depth[u.next] = 5
    BY <2>1 DEF Depth
  <2>3. Depth[s.next] = 4
    BY <1>4 DEF Depth
  <2> HIDE DEF u
  <2> QED
    BY <1>1, <1>2, <2>1, <2>2, <2>3 DEF Budgeted, Paid, Supervised, u
<1>5. ASSUME s.next = "retry_empty_answer"
      PROVE  Kept(Saved(Retried(s), "retry_empty_answer"), n + 1, k)
  <2> DEFINE u == Saved(Retried(s), "retry_empty_answer")
  <2>1. /\ Retried(s) \in Checkpoint
        /\ Retried(s).empty_answer_retries = s.empty_answer_retries + 1
        /\ Retried(s).tool_iterations = s.tool_iterations
        /\ Retried(s).auto_approval_streak = s.auto_approval_streak
        /\ Retried(s).approved = s.approved
    BY ReturnTypes DEF Retried, Checkpoint
  <2>2. /\ Routed(u) /\ u.by = "retry_empty_answer" /\ u.next = "call_llm"
        /\ u.tool_iterations = s.tool_iterations
        /\ u.empty_answer_retries = s.empty_answer_retries + 1
        /\ u.auto_approval_streak = s.auto_approval_streak
        /\ u.approved = s.approved
    BY <2>1, SavedFacts
  <2>3. s.empty_answer_retries < MaxEmptyAnswerRetries
    BY <1>5, RoutedFacts
  <2>4. Depth[s.next] = 5 /\ Depth["call_llm"] = 4
    BY <1>5 DEF Depth
  <2> HIDE DEF u
  <2> QED
    BY <1>1, <1>2, <2>2, <2>3, <2>4 DEF Budgeted, Paid, Supervised, u
<1>6. ASSUME s.next = "prepare_slash_command", NEW t \in Checkpoint,
             t.tool_iterations = s.tool_iterations,
             t.empty_answer_retries = s.empty_answer_retries,
             t.auto_approval_streak = s.auto_approval_streak,
             t.approved = s.approved
      PROVE  Kept(Saved(t, "prepare_slash_command"), n + 1, k)
  <2> DEFINE u == Saved(t, "prepare_slash_command")
  <2>1. /\ Routed(u) /\ u.by = "prepare_slash_command"
        /\ u.tool_iterations = s.tool_iterations
        /\ u.empty_answer_retries = s.empty_answer_retries
        /\ u.auto_approval_streak = s.auto_approval_streak
        /\ u.approved = s.approved
        /\ u.next \in {"require_approval", "run_slash_command_direct"}
    BY <1>6, SavedFacts
  <2>2. Depth[u.next] \in {2, 5} /\ Depth[s.next] = 1
    BY <1>6, <2>1 DEF Depth
  <2>3. s.by = "start"
    BY <1>6, RoutedFacts
  <2> HIDE DEF u
  <2> QED
    BY <1>1, <1>2, <2>1, <2>2, <2>3 DEF Budgeted, Paid, Supervised, u
<1>7. ASSUME s.next = "require_approval", s.approved # "none"
      PROVE  Kept(Saved(GrantRecorded(s), "require_approval"), n + 1, k)
  <2> DEFINE u == Saved(GrantRecorded(s), "require_approval")
  <2>1. /\ GrantRecorded(s) \in Checkpoint
        /\ GrantRecorded(s).empty_answer_retries = s.empty_answer_retries
        /\ GrantRecorded(s).tool_iterations = s.tool_iterations
        /\ GrantRecorded(s).auto_approval_streak = 0
        /\ GrantRecorded(s).approved = s.approved
    <3>1. GrantRecorded(s) \in Checkpoint
      BY ReturnTypes
    <3> QED
      BY <3>1 DEF GrantRecorded, Checkpoint
  <2>2. /\ Routed(u) /\ u.by = "require_approval" /\ u.next \in {"call_tools", "reject_tools"}
        /\ u.tool_iterations = s.tool_iterations
        /\ u.empty_answer_retries = s.empty_answer_retries
        /\ u.auto_approval_streak = 0
        /\ u.approved = s.approved
    BY <2>1, SavedFacts
  <2>3. s.tool_iterations < ToolBudget
    BY <1>1, <1>2, <1>7, RoutedFacts
  <2>4. Depth[s.next] = 5 /\ Depth[u.next] = 6
    BY <1>7, <2>2 DEF Depth
  <2> HIDE DEF u
  <2> QED
    BY <1>1, <1>2, <1>7, <2>2, <2>3, <2>4 DEF Budgeted, Paid, Supervised, u
<1>8. ASSUME s.next \in {"call_tools", "auto_call_tools"}
      PROVE  Kept(Saved(ToolsExecuted(s), s.next), n + 1, k + 1)
  <2> DEFINE u == Saved(ToolsExecuted(s), s.next)
  <2>1. /\ ToolsExecuted(s) \in Checkpoint
        /\ ToolsExecuted(s).empty_answer_retries = s.empty_answer_retries
        /\ ToolsExecuted(s).tool_iterations = s.tool_iterations + 1
        /\ ToolsExecuted(s).auto_approval_streak = s.auto_approval_streak + 1
        /\ ToolsExecuted(s).approved = "none"
    <3>1. ToolsExecuted(s) \in Checkpoint
      BY ReturnTypes
    <3> QED
      BY <3>1 DEF ToolsExecuted, Checkpoint
  <2>2. /\ Routed(u) /\ u.by = s.next /\ u.next = "call_llm"
        /\ u.tool_iterations = s.tool_iterations + 1
        /\ u.empty_answer_retries = s.empty_answer_retries
        /\ u.auto_approval_streak = s.auto_approval_streak + 1
        /\ u.approved = "none"
    BY <1>8, <2>1, SavedFacts
  <2>3. s.tool_iterations < ToolBudget /\ k + 1 <= TurnLimit
    BY <1>1, <1>2, <1>8, RoutedFacts
  <2>4. Depth[s.next] <= 6 /\ Depth[s.next] \in Nat /\ Depth["call_llm"] = 4
    BY <1>8 DEF Depth
  <2> HIDE DEF u
  <2> QED
    BY <1>1, <1>2, <1>8, <2>2, <2>3, <2>4 DEF Budgeted, Paid, Supervised, u
<1>9. ASSUME s.next = "run_slash_command_direct"
      PROVE  Kept(Saved(SlashExecuted(s), "run_slash_command_direct"), n + 1, k + 1)
  <2> DEFINE u == Saved(SlashExecuted(s), "run_slash_command_direct")
  <2>1. /\ SlashExecuted(s) \in Checkpoint
        /\ SlashExecuted(s).empty_answer_retries = s.empty_answer_retries
        /\ SlashExecuted(s).tool_iterations = s.tool_iterations + 1
    <3>1. SlashExecuted(s) \in Checkpoint
      BY ReturnTypes
    <3> QED
      BY <3>1 DEF SlashExecuted, Checkpoint
  <2>2. /\ Routed(u) /\ u.by = "run_slash_command_direct" /\ u.next = "end"
        /\ u.tool_iterations = s.tool_iterations + 1
        /\ u.empty_answer_retries = s.empty_answer_retries
    BY <2>1, SavedFacts
  <2>3. s.by = "prepare_slash_command"
    BY <1>9, RoutedFacts
  <2> HIDE DEF u
  <2> QED
    BY <1>1, <1>2, <2>2, <2>3 DEF Budgeted, Paid, Supervised, u
<1>10. ASSUME s.next = "reject_tools"
       PROVE  Kept(Saved(ToolsRejected(s), "reject_tools"), n + 1, k)
  <2> DEFINE u == Saved(ToolsRejected(s), "reject_tools")
  <2>1. /\ ToolsRejected(s) \in Checkpoint
        /\ ToolsRejected(s).empty_answer_retries = s.empty_answer_retries
        /\ ToolsRejected(s).tool_iterations = s.tool_iterations + 1
        /\ ToolsRejected(s).auto_approval_streak = s.auto_approval_streak
        /\ ToolsRejected(s).approved = "none"
    <3>1. ToolsRejected(s) \in Checkpoint
      BY ReturnTypes
    <3> QED
      BY <3>1 DEF ToolsRejected, Checkpoint
  <2>2. /\ Routed(u) /\ u.by = "reject_tools" /\ u.next = "call_llm"
        /\ u.tool_iterations = s.tool_iterations + 1
        /\ u.empty_answer_retries = s.empty_answer_retries
        /\ u.auto_approval_streak = s.auto_approval_streak
        /\ u.approved = "none"
    BY <2>1, SavedFacts
  <2>3. s.by = "require_approval"
    BY <1>10, RoutedFacts
  <2>4. Depth[s.next] = 6 /\ Depth["call_llm"] = 4
    BY <1>10 DEF Depth
  <2> HIDE DEF u
  <2> QED
    BY <1>1, <1>2, <2>2, <2>3, <2>4 DEF Budgeted, Paid, Supervised, u
<1>11. ASSUME NEW calls \in SUBSET Call, NEW number \in Nat
       PROVE  LET t == Proposed(s, calls, number) IN
              /\ t \in Checkpoint
              /\ t.tool_iterations = s.tool_iterations
              /\ t.empty_answer_retries = s.empty_answer_retries
              /\ t.auto_approval_streak = s.auto_approval_streak
              /\ t.approved = s.approved
  <2>1. Proposed(s, calls, number) \in Checkpoint
    BY ReturnTypes
  <2>2. /\ Proposed(s, calls, number).tool_iterations = s.tool_iterations
        /\ Proposed(s, calls, number).empty_answer_retries = s.empty_answer_retries
        /\ Proposed(s, calls, number).auto_approval_streak = s.auto_approval_streak
        /\ Proposed(s, calls, number).approved = s.approved
    BY DEF Proposed, Checkpoint
  <2> QED
    BY <2>1, <2>2
<1>12. ASSUME NEW kind \in {"answer", "empty"}
       PROVE  LET t == Answered(s, kind) IN
              /\ t \in Checkpoint
              /\ t.tool_iterations = s.tool_iterations
              /\ t.empty_answer_retries = s.empty_answer_retries
              /\ t.auto_approval_streak = s.auto_approval_streak
              /\ t.approved = s.approved
  <2>1. Answered(s, kind) \in Checkpoint
    BY ReturnTypes
  <2>2. /\ Answered(s, kind).tool_iterations = s.tool_iterations
        /\ Answered(s, kind).empty_answer_retries = s.empty_answer_retries
        /\ Answered(s, kind).auto_approval_streak = s.auto_approval_streak
        /\ Answered(s, kind).approved = s.approved
    BY DEF Answered, Checkpoint
  <2> QED
    BY <2>1, <2>2
<1> HIDE DEF Kept
<1> QED
  BY <1>3, <1>4, <1>5, <1>6, <1>7, <1>8, <1>9, <1>10, <1>11, <1>12

-----------------------------------------------------------------------------
(* The invariant is inductive. *)

LEMMA InvInit == Init => IInv
<1> SUFFICES ASSUME Init PROVE IInv
  OBVIOUS
<1>1. TypeOK /\ Sound(store) /\ \A r \in Requests : Sound(run[r])
  BY TypeInit, NewThreadSound DEF Init
<1>2. \A r \in Requests : RunInv(r)
  BY DEF Init, RunInv
<1> QED
  BY <1>1, <1>2 DEF IInv

(* A request that ends leaves nothing behind but the thread.               *)
LEMMA LeaveInv ==
  ASSUME IInv, TypeOK', NEW r \in Requests, Leave(r)
  PROVE  IInv'
<1>1. Sound(store)' /\ \A q \in Requests : Sound(run[q])'
  BY NewThreadSound DEF IInv, TypeOK, Leave
<1>2. ASSUME NEW q \in Requests PROVE RunInv(q)'
  <2>1. CASE q = r
    BY <2>1 DEF IInv, TypeOK, Leave, RunInv
  <2>2. CASE q # r
    BY <2>2 DEF IInv, TypeOK, Leave, RunInv
  <2> QED
    BY <2>1, <2>2
<1> QED
  BY <1>1, <1>2 DEF IInv

(* A node that keeps its own run keeps every other one.                    *)
LEMMA CommitInv ==
  ASSUME IInv, TypeOK', NEW r \in Requests, pc[r] = "run",
         NEW node, NEW s, Commit(r, node, s),
         NEW k, solo' = [solo EXCEPT ![r] = k],
         Kept(Saved(s, node), steps[r] + 1, k)
  PROVE  IInv'
<1>1. /\ run' = [run EXCEPT ![r] = Saved(s, node)] /\ store' = Saved(s, node)
      /\ steps' = [steps EXCEPT ![r] = @ + 1] /\ pc' = pc
      /\ run \in [Requests -> Checkpoint] /\ steps \in [Requests -> Nat]
      /\ solo \in [Requests -> Nat]
  BY DEF Commit, IInv, TypeOK
<1>2. Sound(store)' /\ \A q \in Requests : Sound(run[q])'
  BY <1>1 DEF IInv, Kept
<1>3. ASSUME NEW q \in Requests PROVE RunInv(q)'
  <2>1. CASE q = r
    BY <1>1, <2>1 DEF RunInv, Kept
  <2>2. CASE q # r
    BY <1>1, <2>2 DEF IInv, RunInv
  <2> QED
    BY <2>1, <2>2
<1> QED
  BY <1>2, <1>3 DEF IInv

(* A handler that writes the thread without running a node.                *)
LEMMA HandlerInv ==
  ASSUME IInv, TypeOK', Sound(store)', UNCHANGED <<run, steps, solo>>,
         \A r \in Requests : pc'[r] = "run" <=> pc[r] = "run"
  PROVE  IInv'
BY DEF IInv, RunInv

LEMMA DecideSound ==
  ASSUME NEW s \in Checkpoint, Sound(s), NEW m \in Message, NEW on \in Nat
  PROVE  LET t == Decided(s, Parse(m), on)
         IN  Sound([t EXCEPT !.next = RouteFrom(t)])
<1> DEFINE t == Decided(s, Parse(m), on)
           u == [t EXCEPT !.next = RouteFrom(t)]
<1>1. t \in Checkpoint
  BY ReturnTypes
<1>2. t.by = s.by /\ t.tool_iterations = s.tool_iterations
      /\ t.empty_answer_retries = s.empty_answer_retries
  BY DEF Decided, Checkpoint
<1> HIDE DEF t
<1>3. u.by = s.by /\ u.tool_iterations = s.tool_iterations
      /\ u.empty_answer_retries = s.empty_answer_retries /\ u.next = RouteFrom(t)
  BY <1>1, <1>2 DEF Checkpoint
<1>4. RouteFrom(u) = RouteFrom(t)
  BY <1>1, RouteFromNext
<1> HIDE DEF u
<1>5. Sound(u)
  BY <1>3, <1>4 DEF Sound, Routed, Budgeted
<1> QED
  BY <1>5 DEF u, t

LEMMA StartKept ==
  ASSUME NEW s \in Checkpoint, NEW m \in Message
  PROVE  LET t == RunInput(s, m)
         IN  Kept([t EXCEPT !.next = RouteFrom(t)], 1, 0)
<1> DEFINE t == RunInput(s, m)
           u == [t EXCEPT !.next = RouteFrom(t)]
<1>1. t \in Checkpoint
  BY ReturnTypes
<1>2. t.by = "start" /\ t.tool_iterations = 0 /\ t.empty_answer_retries = 0
      /\ t.auto_approval_streak = 0
  BY DEF RunInput, Checkpoint
<1> HIDE DEF t
<1>3. u.by = "start" /\ u.tool_iterations = 0 /\ u.empty_answer_retries = 0
      /\ u.auto_approval_streak = 0 /\ u.next = RouteFrom(t)
  BY <1>1, <1>2 DEF Checkpoint
<1>4. RouteFrom(u) = RouteFrom(t)
  BY <1>1, RouteFromNext
<1>5. u.next \in {"retrieve_context", "prepare_slash_command"}
  BY <1>2, <1>3 DEF RouteFrom, RouteEntry
<1> HIDE DEF u
<1>6. Sound(u)
  BY <1>3, <1>4, AgentAssumption DEF Sound, Routed, Budgeted, ToolBudget
<1>7. Paid(u, 1)
  BY <1>3, <1>5 DEF Paid, Depth
<1>8. Supervised(u, 0)
  BY <1>3, AgentAssumption DEF Supervised, TurnLimit
<1> QED
  BY <1>6, <1>7, <1>8 DEF Kept, u, t

LEMMA InvStep == IInv /\ [Next]_vars => IInv'
<1> SUFFICES ASSUME IInv, [Next]_vars PROVE IInv'
  OBVIOUS
<1> USE DEF handlers, history
<1>1. TypeOK /\ TypeOK'
  BY TypeStep DEF IInv
<1>2. ASSUME NEW r \in Requests, NEW m \in Message, Arrive(r, m)
      PROVE  IInv'
  <2>1. \A q \in Requests : pc'[q] = "run" <=> pc[q] = "run"
    BY <1>1, <1>2 DEF Arrive, TypeOK
  <2> QED
    BY <1>1, <1>2, <2>1, HandlerInv DEF Arrive, IInv
<1>3. ASSUME NEW r \in Requests, Decide(r)
      PROVE  IInv'
  <2>1. /\ store \in Checkpoint /\ seen[r].proposal \in Nat /\ msg[r] \in Message
        /\ Sound(store)
    BY <1>1 DEF TypeOK, Checkpoint, IInv
  <2>2. Sound(store)'
    BY <1>3, <2>1, DecideSound DEF Decide
  <2>3. \A q \in Requests : pc'[q] = "run" <=> pc[q] = "run"
    BY <1>1, <1>3 DEF Decide, TypeOK
  <2> QED
    BY <1>1, <1>3, <2>2, <2>3, HandlerInv DEF Decide
<1>4. ASSUME NEW r \in Requests, Start(r)
      PROVE  IInv'
  <2> DEFINE t == RunInput(store, msg[r])
             u == [t EXCEPT !.next = RouteFrom(t)]
  <2>1. /\ pc[r] = "start" /\ pc' = [pc EXCEPT ![r] = "run"]
        /\ run' = [run EXCEPT ![r] = u] /\ store' = u
        /\ steps' = [steps EXCEPT ![r] = 1] /\ solo' = solo
    BY <1>4 DEF Start
  <2>2. Kept(u, 1, 0)
    BY <1>1, StartKept DEF TypeOK
  <2> HIDE DEF u
  <2>3. Sound(store)' /\ \A q \in Requests : Sound(run[q])'
    BY <1>1, <2>1, <2>2 DEF Kept, IInv, TypeOK
  <2>4. ASSUME NEW q \in Requests PROVE RunInv(q)'
    <3>1. CASE q = r
      BY <1>1, <2>1, <2>2, <3>1 DEF RunInv, Kept, IInv, TypeOK
    <3>2. CASE q # r
      BY <1>1, <2>1, <3>2 DEF RunInv, IInv, TypeOK
    <3> QED
      BY <3>1, <3>2
  <2> QED
    BY <1>1, <2>3, <2>4 DEF IInv
<1>5. ASSUME NEW r \in Requests, Resume(r)
      PROVE  IInv'
  <2>1. /\ pc[r] = "resume" /\ pc' = [pc EXCEPT ![r] = "run"]
        /\ run' = [run EXCEPT ![r] = store] /\ store' = store
        /\ steps' = [steps EXCEPT ![r] = 0] /\ solo' = solo
    BY <1>5 DEF Resume
  <2>2. Paid(store, 0) /\ Supervised(store, 0)
    <3>1. store \in Checkpoint /\ store.tool_iterations \in Nat
          /\ store.empty_answer_retries \in Nat /\ store.auto_approval_streak \in Nat
          /\ store.next \in Nodes \cup {"end"}
      BY <1>1 DEF TypeOK, Checkpoint
    <3>2. store.next # "end" => Depth[store.next] \in Nat
      BY <3>1 DEF Depth, Nodes, ToolNodes
    <3> QED
      BY <3>1, <3>2, AgentAssumption DEF Paid, Supervised, TurnLimit
  <2>3. Sound(store)' /\ \A q \in Requests : Sound(run[q])'
    BY <1>1, <2>1 DEF IInv, TypeOK
  <2>4. ASSUME NEW q \in Requests PROVE RunInv(q)'
    <3>1. CASE q = r
      BY <1>1, <2>1, <2>2, <3>1 DEF RunInv, IInv, TypeOK
    <3>2. CASE q # r
      BY <1>1, <2>1, <3>2 DEF RunInv, IInv, TypeOK
    <3> QED
      BY <3>1, <3>2
  <2> QED
    BY <1>1, <2>3, <2>4 DEF IInv
<1>6. ASSUME NEW r \in Requests,
             \/ \E node \in Nodes : PassThrough(r, node) \/ ExecuteToolCalls(r, node)
             \/ CallLlmAnswers(r) \/ CallLlmProposes(r) \/ RetryEmptyAnswer(r)
             \/ PrepareSlashCommand(r) \/ RunSlashCommandDirect(r)
             \/ RequireApproval(r) \/ RejectTools(r)
      PROVE  IInv'
  <2>1. pc[r] = "run" /\ run[r].next # "end"
    BY <1>6
    DEF Running, PassThrough, ExecuteToolCalls, CallLlmAnswers, CallLlmProposes,
        RetryEmptyAnswer, PrepareSlashCommand, RunSlashCommandDirect, RequireApproval,
        RejectTools, Nodes, ToolNodes
  <2>2. /\ run[r] \in Checkpoint /\ steps[r] \in Nat /\ solo[r] \in Nat
        /\ run[r].last.calls \in SUBSET Call /\ minted + 1 \in Nat
        /\ Sound(run[r]) /\ Paid(run[r], steps[r]) /\ Supervised(run[r], solo[r])
        /\ solo = [solo EXCEPT ![r] = solo[r]]
    BY <1>1, <2>1 DEF TypeOK, Checkpoint, LastMessage, IInv, RunInv
  <2>3. PICK node, s, k :
          /\ Commit(r, node, s) /\ solo' = [solo EXCEPT ![r] = k]
          /\ Kept(Saved(s, node), steps[r] + 1, k)
    <3>1. ASSUME NEW node \in Nodes, PassThrough(r, node)
          PROVE  \E n, s, k : /\ Commit(r, n, s) /\ solo' = [solo EXCEPT ![r] = k]
                             /\ Kept(Saved(s, n), steps[r] + 1, k)
      BY <2>1, <2>2, <3>1, NodeReturns DEF PassThrough, Running
    <3>2. ASSUME NEW node \in Nodes, ExecuteToolCalls(r, node)
          PROVE  \E n, s, k : /\ Commit(r, n, s) /\ solo' = [solo EXCEPT ![r] = k]
                             /\ Kept(Saved(s, n), steps[r] + 1, k)
      <4>1. /\ node \in {"call_tools", "auto_call_tools"} /\ run[r].next = node
            /\ Commit(r, node, ToolsExecuted(run[r]))
            /\ solo' = [solo EXCEPT ![r] = solo[r] + 1]
        BY <3>2 DEF ExecuteToolCalls, Running
      <4>2. Kept(Saved(ToolsExecuted(run[r]), node), steps[r] + 1, solo[r] + 1)
        BY <2>1, <2>2, <4>1, NodeReturns
      <4> QED
        BY <4>1, <4>2
    <3>3. CASE CallLlmAnswers(r)
      BY <2>1, <2>2, <3>3, NodeReturns DEF CallLlmAnswers, Running
    <3>4. CASE CallLlmProposes(r)
      BY <2>1, <2>2, <3>4, NodeReturns, AgentAssumption DEF CallLlmProposes, Running
    <3>5. CASE RetryEmptyAnswer(r)
      BY <2>1, <2>2, <3>5, NodeReturns DEF RetryEmptyAnswer, Running
    <3>6. CASE PrepareSlashCommand(r)
      BY <2>1, <2>2, <3>6, NodeReturns DEF PrepareSlashCommand, Running
    <3>7. CASE RunSlashCommandDirect(r)
      <4>1. /\ run[r].next = "run_slash_command_direct"
            /\ Commit(r, "run_slash_command_direct", SlashExecuted(run[r]))
            /\ solo' = [solo EXCEPT ![r] = solo[r] + 1]
        BY <3>7 DEF RunSlashCommandDirect, Running
      <4>2. Kept(Saved(SlashExecuted(run[r]), "run_slash_command_direct"),
                 steps[r] + 1, solo[r] + 1)
        BY <2>1, <2>2, <4>1, NodeReturns
      <4> QED
        BY <4>1, <4>2
    <3>8. CASE RequireApproval(r)
      BY <2>1, <2>2, <3>8, NodeReturns DEF RequireApproval, Running
    <3>9. CASE RejectTools(r)
      BY <2>1, <2>2, <3>9, NodeReturns DEF RejectTools, Running
    <3> QED
      BY <1>6, <3>1, <3>2, <3>3, <3>4, <3>5, <3>6, <3>7, <3>8, <3>9
  <2> QED
    BY <1>1, <2>1, <2>3, CommitInv
<1>7. ASSUME NEW r \in Requests, Interrupt(r) \/ Finish(r) \/ OutOfSteps(r) \/ NodeFails(r)
      PROVE  IInv'
  BY <1>1, <1>7, LeaveInv DEF Interrupt, Finish, OutOfSteps, NodeFails
<1>8. CASE Restart
  BY <1>1, <1>8, NewThreadSound DEF Restart, IInv, RunInv
<1>9. CASE UNCHANGED vars
  <2>1. UNCHANGED <<store, run, steps, solo, pc>>
    BY <1>9 DEF vars
  <2> QED
    BY <1>1, <2>1, HandlerInv DEF IInv
<1> QED
  BY <1>2, <1>3, <1>4, <1>5, <1>6, <1>7, <1>8, <1>9 DEF Next, Serve, ChatCompletions, Approve

LEMMA Invariant == Spec => []IInv
BY InvInit, InvStep, PTL DEF Spec

-----------------------------------------------------------------------------
(* What the invariant gives. *)

(* recursion_limit = MAX_TOOL_ITERATIONS * 4 + 10 (main.py) is never the   *)
(* limit a run meets, whatever the limits, as long as the empty-answer     *)
(* retries stay in proportion (RetriesFit).                                *)
THEOREM NoRecursionError ==
  ASSUME RetriesFit
  PROVE  Spec => []WithinRecursionLimit
<1>1. IInv => WithinRecursionLimit
  <2> SUFFICES ASSUME IInv, NEW r \in Requests, pc[r] = "run", run[r].next # "end"
               PROVE  steps[r] < RecursionLimit
    BY DEF WithinRecursionLimit
  <2> DEFINE s == run[r]
  <2>1. /\ s \in Checkpoint /\ s.tool_iterations \in Nat
        /\ s.empty_answer_retries \in Nat /\ s.next \in Nodes /\ steps[r] \in Nat
        /\ MaxToolIterations \in Nat /\ MaxEmptyAnswerRetries \in Nat
        /\ Routed(s) /\ Budgeted(s) /\ Paid(s, steps[r])
    BY AgentAssumption DEF IInv, TypeOK, Checkpoint, Sound, RunInv
  <2>2. s.next \in {"require_approval", "auto_call_tools", "call_tools", "reject_tools"} =>
          s.tool_iterations < ToolBudget
    BY <2>1, RoutedFacts DEF Budgeted, ToolBudget
  <2>3. s.next = "retry_empty_answer" => s.empty_answer_retries < MaxEmptyAnswerRetries
    BY <2>1, RoutedFacts
  <2>4. /\ steps[r] <= 3 * s.tool_iterations + 2 * s.empty_answer_retries + Depth[s.next]
        /\ s.tool_iterations <= ToolBudget
        /\ s.empty_answer_retries <= MaxEmptyAnswerRetries
    BY <2>1 DEF Paid, Budgeted
  <2> HIDE DEF s
  <2>5. CASE s.next \in {"require_approval", "auto_call_tools", "call_tools", "reject_tools"}
    <3>1. Depth[s.next] \in {5, 6}
      BY <2>5 DEF Depth
    <3> QED
      <4>1. steps[r] <= 3 * s.tool_iterations + 2 * MaxEmptyAnswerRetries + 6
        BY <2>1, <2>4, <3>1
      <4>2. s.tool_iterations <= ToolBudget - 1 /\ ToolBudget <= MaxToolIterations + 1
            /\ (MaxToolIterations >= 1 => ToolBudget = MaxToolIterations)
        BY <2>1, <2>2, <2>5 DEF ToolBudget
      <4> QED
        BY <2>1, <4>1, <4>2, RetriesFit DEF ToolBudget, RecursionLimit, RetriesFit
  <2>6. CASE s.next = "retry_empty_answer"
    <3>1. Depth[s.next] = 5
      BY <2>6 DEF Depth
    <3> QED
      BY <2>1, <2>3, <2>4, <2>6, <3>1, RetriesFit DEF ToolBudget, RecursionLimit, RetriesFit
  <2>7. CASE s.next \in {"retrieve_context", "select_skill", "validate_plan", "call_llm",
                         "prepare_slash_command", "run_slash_command_direct"}
    <3>1. Depth[s.next] \in 1..4
      BY <2>7 DEF Depth
    <3> QED
      BY <2>1, <2>4, <3>1, RetriesFit DEF ToolBudget, RecursionLimit, RetriesFit
  <2> QED
    BY <2>1, <2>5, <2>6, <2>7 DEF Nodes, ToolNodes
<1> QED
  BY Invariant, <1>1, PTL

(* However many requests race on the thread, no request executes more than *)
(* AUTO_APPROVAL_STREAK_LIMIT tool turns before a human is asked again.    *)
THEOREM TurnsAreSupervised == Spec => []UnsupervisedTurnsBounded
<1>1. IInv => UnsupervisedTurnsBounded
  <2> SUFFICES ASSUME IInv, NEW r \in Requests PROVE solo[r] <= TurnLimit
    BY DEF UnsupervisedTurnsBounded, TurnLimit
  <2> QED
    BY AgentAssumption DEF IInv, RunInv, Supervised, TurnLimit
<1> QED
  BY Invariant, <1>1, PTL

(* A sensitive call runs without a pause only under a grant of the run     *)
(* that executes it, and never if its tool is in NEVER_GRANTABLE_TOOLS.    *)
THEOREM SensitiveCallsPause == Spec => []PausesUnlessGranted
<1>1. IInv => PausesUnlessGranted
  <2> SUFFICES ASSUME IInv, NEW r \in Requests,
                      AboutToRun(r, {"auto_call_tools", "run_slash_command_direct"}),
                      NEW c \in run[r].last.calls, ResolvedTier(c) = "sensitive"
               PROVE  c.name \in run[r].session_grants \ NeverGrantableTools
    BY DEF PausesUnlessGranted
  <2>1. run[r] \in Checkpoint /\ Routed(run[r])
    BY DEF IInv, TypeOK, Sound
  <2>2. EffectiveTier(c, run[r].session_grants) # "sensitive"
    BY <2>1, RoutedFacts DEF AboutToRun, IsAutoApproved
  <2> QED
    BY <2>2 DEF EffectiveTier
<1> QED
  BY Invariant, <1>1, PTL

-----------------------------------------------------------------------------
(* What the end of every request rests on: how many steps a request has    *)
(* before it, at most.  A handler that takes a decision writes it, resumes *)
(* and runs; a run visits RecursionLimit nodes before it is cut.           *)

Ahead(r) ==
  CASE pc[r] = "decide"             -> RecursionLimit + 3
    [] pc[r] \in {"start", "resume"} -> RecursionLimit + 2
    [] pc[r] = "run"                -> RecursionLimit + 1 - steps[r]
    [] OTHER                        -> 0

StepsCounted == \A r \in Requests : pc[r] = "run" => steps[r] <= RecursionLimit

(* What the service does for a request brings its answer nearer, and       *)
(* nothing else, a concurrent request, a failing node or a restart, moves  *)
(* it away.                                                                *)
AnswersComeNearer ==
  [][\A r \in Requests : /\ Serve(r) => Ahead(r)' < Ahead(r)
                         /\ pc[r] # "idle" => Ahead(r)' <= Ahead(r)]_vars

StepInv == TypeOK /\ StepsCounted

LEMMA LimitType == RecursionLimit \in Nat /\ RecursionLimit >= 1
BY AgentAssumption DEF RecursionLimit

(* The place of a request, the counter of its run and its distance.        *)
LEMMA AheadIs ==
  ASSUME NEW r \in Requests
  PROVE  /\ pc[r] = "decide" => Ahead(r) = RecursionLimit + 3
         /\ pc[r] \in {"start", "resume"} => Ahead(r) = RecursionLimit + 2
         /\ pc[r] = "run" => Ahead(r) = RecursionLimit + 1 - steps[r]
         /\ pc[r] = "idle" => Ahead(r) = 0
         /\ pc'[r] = "decide" => Ahead(r)' = RecursionLimit + 3
         /\ pc'[r] \in {"start", "resume"} => Ahead(r)' = RecursionLimit + 2
         /\ pc'[r] = "run" => Ahead(r)' = RecursionLimit + 1 - steps'[r]
         /\ pc'[r] = "idle" => Ahead(r)' = 0
BY DEF Ahead, RecursionLimit

(* A step of the service for one request moves that request alone.         *)
LEMMA ServeMoves ==
  ASSUME StepInv, NEW r \in Requests, Serve(r) \/ NodeFails(r)
  PROVE  /\ \A q \in Requests : q # r => pc'[q] = pc[q] /\ steps'[q] = steps[q]
         /\ \/ pc[r] = "decide" /\ pc'[r] = "resume"
            \/ pc[r] = "resume" /\ pc'[r] = "run" /\ steps'[r] = 0
            \/ pc[r] = "start" /\ pc'[r] = "run" /\ steps'[r] = 1
            \/ /\ pc[r] = "run" /\ pc'[r] = "run"
               /\ steps'[r] = steps[r] + 1 /\ steps[r] < RecursionLimit
            \/ pc[r] = "run" /\ pc'[r] = "idle"
<1>0. pc \in [Requests -> HandlerStates] /\ steps \in [Requests -> Nat]
  BY DEF StepInv, TypeOK
<1>1. CASE Decide(r)
  BY <1>0, <1>1 DEF Decide
<1>2. CASE Start(r)
  BY <1>0, <1>2 DEF Start
<1>3. CASE Resume(r)
  BY <1>0, <1>3 DEF Resume
<1>4. CASE Interrupt(r) \/ Finish(r) \/ OutOfSteps(r) \/ NodeFails(r)
  <2>1. pc[r] = "run" /\ Leave(r)
    BY <1>4 DEF Interrupt, Finish, OutOfSteps, NodeFails, Running
  <2> QED
    BY <1>0, <2>1 DEF Leave
<1>5. ASSUME \/ \E node \in Nodes : PassThrough(r, node) \/ ExecuteToolCalls(r, node)
             \/ CallLlmAnswers(r) \/ CallLlmProposes(r) \/ RetryEmptyAnswer(r)
             \/ PrepareSlashCommand(r) \/ RunSlashCommandDirect(r)
             \/ RequireApproval(r) \/ RejectTools(r)
      PROVE  /\ pc[r] = "run" /\ steps[r] < RecursionLimit
             /\ pc' = pc /\ steps' = [steps EXCEPT ![r] = @ + 1]
  BY <1>5 DEF PassThrough, ExecuteToolCalls, CallLlmAnswers, CallLlmProposes,
     RetryEmptyAnswer, PrepareSlashCommand, RunSlashCommandDirect, RequireApproval,
     RejectTools, Running, Commit
<1> QED
  BY <1>0, <1>1, <1>2, <1>3, <1>4, <1>5 DEF Serve

LEMMA StepsCountedStep == StepInv /\ [Next]_vars => StepInv'
<1> SUFFICES ASSUME StepInv, [Next]_vars PROVE StepInv'
  OBVIOUS
<1>1. TypeOK /\ TypeOK'
  BY TypeStep DEF StepInv
<1>2. ASSUME NEW r \in Requests, Serve(r) \/ NodeFails(r) PROVE StepsCounted'
  BY <1>1, <1>2, ServeMoves, LimitType DEF StepInv, StepsCounted, TypeOK
<1>3. ASSUME NEW r \in Requests, ChatCompletions(r) \/ Approve(r) PROVE StepsCounted'
  <2>1. pc[r] = "idle" /\ pc'[r] # "run" /\ steps' = steps
        /\ \A q \in Requests : q # r => pc'[q] = pc[q]
    BY <1>1, <1>3 DEF ChatCompletions, Approve, Arrive, TypeOK
  <2> QED
    BY <2>1 DEF StepInv, StepsCounted
<1>4. CASE Restart
  <2>1. \A r \in Requests : pc'[r] = "idle"
    BY <1>4 DEF Restart
  <2> QED
    BY <1>1, <2>1 DEF StepInv, StepsCounted
<1>5. CASE UNCHANGED vars
  <2>1. UNCHANGED <<pc, steps>>
    BY <1>5 DEF vars, handlers
  <2> QED
    BY <1>1, <2>1 DEF StepInv, StepsCounted, RecursionLimit
<1> QED
  BY <1>1, <1>2, <1>3, <1>4, <1>5 DEF Next, StepInv

(* The service answers a request within RecursionLimit + 3 steps of its    *)
(* own: no step of a concurrent request lengthens the way, and the limit   *)
(* ends even a run whose model never stops calling tools.                  *)
THEOREM RequestsAreFinite == Spec => AnswersComeNearer
<1> DEFINE Nearer == \A r \in Requests : /\ Serve(r) => Ahead(r)' < Ahead(r)
                                         /\ pc[r] # "idle" => Ahead(r)' <= Ahead(r)
<1>1. ASSUME StepInv, [Next]_vars PROVE [Nearer]_vars
  <2>1. /\ pc \in [Requests -> HandlerStates] /\ steps \in [Requests -> Nat]
        /\ pc' \in [Requests -> HandlerStates] /\ steps' \in [Requests -> Nat]
        /\ StepsCounted /\ StepsCounted'
    BY <1>1, StepsCountedStep DEF StepInv, TypeOK
  <2>2. ASSUME NEW r \in Requests
        PROVE  /\ Ahead(r) \in Nat /\ (pc[r] # "idle" => Ahead(r) > 0)
               /\ Ahead(r)' \in Nat
    BY <2>1, AheadIs, LimitType DEF StepsCounted, HandlerStates
  <2>3. ASSUME NEW r \in Requests, pc'[r] = pc[r], steps'[r] = steps[r]
        PROVE  Ahead(r)' = Ahead(r)
    BY <2>3 DEF Ahead, RecursionLimit
  <2>4. ASSUME NEW r \in Requests, Serve(r) \/ NodeFails(r) PROVE Ahead(r)' < Ahead(r)
    BY <1>1, <2>1, <2>4, ServeMoves, AheadIs, LimitType DEF StepsCounted
  <2>5. ASSUME NEW q \in Requests, Serve(q) \/ NodeFails(q) PROVE Nearer
    <3>1. ASSUME NEW r \in Requests, r # q PROVE Ahead(r)' = Ahead(r) /\ ~Serve(r)
      <4>1. pc'[r] = pc[r] /\ steps'[r] = steps[r]
        BY <1>1, <2>5, <3>1, ServeMoves
      <4>2. Ahead(r)' = Ahead(r)
        BY <2>3, <4>1
      <4> QED
        BY <2>2, <2>4, <4>2
    <3>2. Ahead(q)' < Ahead(q)
      BY <2>4, <2>5
    <3> QED
      BY <2>2, <3>1, <3>2
  <2>6. ASSUME NEW q \in Requests, ChatCompletions(q) \/ Approve(q) PROVE Nearer
    <3>1. /\ pc[q] = "idle" /\ steps' = steps
          /\ \A r \in Requests : r # q => pc'[r] = pc[r]
      BY <2>1, <2>6 DEF ChatCompletions, Approve, Arrive
    <3>2. ASSUME NEW r \in Requests, pc[r] # "idle" PROVE Ahead(r)' = Ahead(r)
      BY <2>3, <3>1, <3>2
    <3>3. ASSUME NEW r \in Requests, Serve(r) PROVE Ahead(r)' < Ahead(r)
      BY <2>4, <3>3
    <3> QED
      BY <2>2, <3>2, <3>3
  <2>7. CASE Restart
    <3>1. ASSUME NEW r \in Requests PROVE Ahead(r)' = 0
      <4>1. pc'[r] = "idle"
        BY <2>7 DEF Restart
      <4> QED
        BY <4>1, AheadIs
    <3>2. ASSUME NEW r \in Requests, Serve(r) PROVE Ahead(r)' < Ahead(r)
      BY <2>4, <3>2
    <3> QED
      BY <2>2, <3>1, <3>2
  <2> QED
    BY <1>1, <2>5, <2>6, <2>7 DEF Next
<1>2. Init => StepInv
  BY TypeInit DEF Init, StepInv, StepsCounted
<1>3. StepInv /\ [Next]_vars => [Nearer]_vars
  BY <1>1
<1> QED
  BY <1>2, <1>3, StepsCountedStep, PTL DEF Spec, AnswersComeNearer

-----------------------------------------------------------------------------
(* The policy. *)

(* ResolvedTier is well defined where argument rules match a call: one of  *)
(* the tiers they name is the most restrictive (_match_rules).             *)
LEMMA StrictestRuleExists ==
  ASSUME NEW c \in Call, MatchingTiers(c) # {}
  PROVE  /\ ResolvedTier(c) \in MatchingTiers(c)
         /\ \A t \in MatchingTiers(c) : TierRank[t] <= TierRank[ResolvedTier(c)]
<1> DEFINE tiers == MatchingTiers(c)
<1>1. tiers \subseteq Tiers
  BY PolicyAssumption DEF MatchingTiers, Rule
<1>2. \E t \in tiers : \A u \in tiers : TierRank[u] <= TierRank[t]
  <2>1. /\ \A u \in tiers : u = "read" \/ u = "reversible" \/ u = "sensitive"
        /\ TierRank["read"] = 0 /\ TierRank["reversible"] = 1 /\ TierRank["sensitive"] = 2
    BY <1>1 DEF Tiers, TierRank
  <2> HIDE DEF tiers
  <2>2. CASE "sensitive" \in tiers
    BY <2>1, <2>2
  <2>3. CASE "sensitive" \notin tiers /\ "reversible" \in tiers
    BY <2>1, <2>3
  <2>4. CASE "sensitive" \notin tiers /\ "reversible" \notin tiers
    <3>1. \A u \in tiers : u = "read"
      BY <2>1, <2>4
    <3>2. PICK t \in tiers : TRUE
      BY DEF tiers
    <3> QED
      BY <2>1, <3>1, <3>2
  <2> QED
    BY <2>2, <2>3, <2>4
<1>3. /\ MostRestrictive(tiers) \in tiers
      /\ \A u \in tiers : TierRank[u] <= TierRank[MostRestrictive(tiers)]
  BY <1>2 DEF MostRestrictive
<1> QED
  BY <1>3 DEF ResolvedTier

(* Every call has a tier.                                                  *)
LEMMA ResolvedTierType ==
  ASSUME NEW c \in Call
  PROVE  ResolvedTier(c) \in Tiers
<1>1. CASE MatchingTiers(c) # {}
  <2>1. MatchingTiers(c) \subseteq Tiers
    BY PolicyAssumption DEF MatchingTiers, Rule
  <2> QED
    BY <1>1, <2>1, StrictestRuleExists
<1>2. CASE MatchingTiers(c) = {}
  BY <1>2 DEF ResolvedTier, ToolTier, Tiers
<1> QED
  BY <1>1, <1>2

(* "A grant can only relax, never tighten" (effective_tier): more grants   *)
(* never raise the tier of a call nor make it wait, and no grant changes   *)
(* anything for a tool of NEVER_GRANTABLE_TOOLS or a call that a rule or   *)
(* the static tier already lets run.                                       *)
THEOREM GrantsOnlyRelax ==
  ASSUME NEW c \in Call, NEW few, NEW more, few \subseteq more
  PROVE  /\ TierRank[EffectiveTier(c, more)] <= TierRank[EffectiveTier(c, few)]
         /\ IsAutoApproved(c, few) => IsAutoApproved(c, more)
         /\ EffectiveTier(c, more) # EffectiveTier(c, few) =>
              /\ ResolvedTier(c) = "sensitive"
              /\ c.name \in more \ few /\ c.name \notin NeverGrantableTools
<1>1. ResolvedTier(c) \in {"read", "reversible", "sensitive"}
  BY ResolvedTierType DEF Tiers
<1> QED
  BY <1>1 DEF EffectiveTier, IsAutoApproved, TierRank

=============================================================================

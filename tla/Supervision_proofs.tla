------------------------ MODULE Supervision_proofs ------------------------
(***************************************************************************)
(* What AgentThread promises to a human who is alone on the thread: one    *)
(* request at a time, no node that raises, and retries that fit in the     *)
(* recursion limit.  The policy, the tools, the budgets, what the model    *)
(* proposes and the length of the conversation are arbitrary.              *)
(***************************************************************************)
EXTENDS AgentThread_proofs

(* What a request that has the thread to itself finds there.               *)
SingleRequest == \A q, r \in Requests : q = r
NothingFails  == FaultyNodes = {}

(* A run works on what is stored: it saves its copy after every node.      *)
InStep == \A r \in Requests : pc[r] = "run" => run[r] = store

Pausing(s) == s.next = "require_approval" /\ s.approved = "none"

(* Between two requests nothing is left to run, or the pause is; a new     *)
(* task starts where nothing is, and a decision where the pause is.        *)
Quiet == \A r \in Requests :
  /\ pc[r] = "idle" => store.next = "end" \/ Pausing(store)
  /\ pc[r] = "start" => store.next = "end"
  /\ pc[r] = "decide" => Pausing(store) /\ seen[r] = store

(* A decision belongs to the turn it was taken on and is used at once: it  *)
(* stands in the thread from the pause to the end of that turn only.       *)
OnThisTurn(s) ==
  /\ s.approved # "none" => /\ s.decidedOn = s.proposal
                            /\ s.next \in {"require_approval", "call_tools", "reject_tools"}
  /\ s.next \in {"call_tools", "reject_tools"} => s.approved # "none"

(* A turn still to be decided or run has not been run.                     *)
NotYetRun(s, done) ==
  s.next \in ToolNodes \cup {"require_approval", "reject_tools"} => s.proposal \notin done

Numbered == executed \subseteq 0..minted /\ store.proposal \in 0..minted

(* Grants come from humans who had a call of the tool in front of them.    *)
GrantedByHumans(s, by) ==
  /\ s.session_grants \subseteq by
  /\ s.grant_session => s.next = "require_approval" /\ Names(s.last.calls) \subseteq by

AloneInv ==
  /\ InStep /\ Quiet
  /\ OnThisTurn(store) /\ NotYetRun(store, executed) /\ Numbered
  /\ GrantedByHumans(store, granted)

-----------------------------------------------------------------------------
(* What a node leaves behind. *)

Good(s, done, by, top) ==
  /\ OnThisTurn(s) /\ NotYetRun(s, done) /\ GrantedByHumans(s, by)
  /\ s.proposal \in 0..top

LEMMA SavedLeaves ==
  ASSUME NEW s \in Checkpoint, NEW node \in Nodes
  PROVE  LET u == Saved(s, node) IN
         /\ u.last = s.last /\ u.proposal = s.proposal /\ u.decidedOn = s.decidedOn
         /\ u.session_grants = s.session_grants /\ u.grant_session = s.grant_session
BY DEF Saved, Checkpoint

(* A node outside the approval leads to no tool turn, so that only an open *)
(* decision or a grant about to be recorded could be misplaced by it.      *)
LEMMA PlainNode ==
  ASSUME NEW s \in Checkpoint, NEW node \in Nodes \ {"call_llm", "prepare_slash_command",
                                                     "require_approval"},
         NEW done, NEW by, NEW top,
         s.approved = "none", ~s.grant_session, s.session_grants \subseteq by,
         s.proposal \in 0..top
  PROVE  Good(Saved(s, node), done, by, top)
<1>1. Saved(s, node).next \in {"call_llm", "select_skill", "validate_plan", "end"}
  BY SavedFacts DEF Nodes, ToolNodes
<1> QED
  BY <1>1, SavedFacts, SavedLeaves
  DEF Good, OnThisTurn, NotYetRun, GrantedByHumans, ToolNodes

(* A new proposal has a number nobody has executed, and is undecided.      *)
LEMMA NewProposal ==
  ASSUME NEW s \in Checkpoint, NEW node \in {"call_llm", "prepare_slash_command"},
         NEW calls \in SUBSET Call, NEW top \in Nat, NEW done \in SUBSET (0..top), NEW by,
         s.approved = "none", ~s.grant_session, s.session_grants \subseteq by
  PROVE  Good(Saved(Proposed(s, calls, top + 1), node), done, by, top + 1)
<1> DEFINE p == Proposed(s, calls, top + 1)
<1>1. p \in Checkpoint /\ node \in Nodes
  BY ReturnTypes DEF Nodes
<1>2. /\ p.approved = "none" /\ ~p.grant_session /\ p.session_grants \subseteq by
      /\ p.proposal = top + 1
  BY DEF Proposed, Checkpoint
<1> HIDE DEF p
<1>3. Saved(p, node).next \in {"end", "retry_empty_answer", "auto_call_tools",
                               "require_approval", "run_slash_command_direct"}
  BY <1>1, SavedFacts
<1>4. top + 1 \notin done /\ top + 1 \in 0..(top + 1)
  OBVIOUS
<1>5. /\ Saved(p, node).approved = "none" /\ ~Saved(p, node).grant_session
      /\ Saved(p, node).session_grants \subseteq by /\ Saved(p, node).proposal = top + 1
  BY <1>1, <1>2, SavedFacts, SavedLeaves
<1> QED
  BY <1>3, <1>4, <1>5 DEF p, Good, OnThisTurn, NotYetRun, GrantedByHumans

(* An answer without calls ends the run or is asked for again.             *)
LEMMA AnswersLeadOn ==
  ASSUME NEW s \in Checkpoint, NEW kind \in {"answer", "empty"}
  PROVE  Saved(Answered(s, kind), "call_llm").next \in {"retry_empty_answer", "end"}
<1> DEFINE a == Answered(s, kind)
           t == [a EXCEPT !.by = "call_llm"]
<1>1. a \in Checkpoint /\ "call_llm" \in Nodes
  BY ReturnTypes DEF Nodes
<1>2. t.last.kind # "calls" /\ t.by = "call_llm"
  BY DEF Answered, Checkpoint
<1>3. Saved(a, "call_llm").next = HasToolCalls(t)
  BY <1>1, <1>2 DEF Saved, RouteFrom, Checkpoint
<1>4. HasToolCalls(t) \in {"retry_empty_answer", "end"}
  BY <1>2 DEF HasToolCalls
<1> QED
  BY <1>3, <1>4

LEMMA Answering ==
  ASSUME NEW s \in Checkpoint, NEW kind \in {"answer", "empty"}, NEW done, NEW by, NEW top,
         s.approved = "none", ~s.grant_session, s.session_grants \subseteq by,
         s.proposal \in 0..top
  PROVE  Good(Saved(Answered(s, kind), "call_llm"), done, by, top)
<1> DEFINE a == Answered(s, kind)
<1>1. a \in Checkpoint /\ "call_llm" \in Nodes
  BY ReturnTypes DEF Nodes
<1>2. /\ a.approved = "none" /\ ~a.grant_session /\ a.session_grants \subseteq by
      /\ a.proposal \in 0..top
  BY DEF Answered, Checkpoint
<1>3. Saved(a, "call_llm").next \in {"retry_empty_answer", "end"}
  BY AnswersLeadOn
<1> HIDE DEF a
<1> QED
  BY <1>1, <1>2, <1>3, SavedFacts, SavedLeaves
  DEF a, Good, OnThisTurn, NotYetRun, GrantedByHumans, ToolNodes

(* The decided turn goes where the decision says, its grant recorded.      *)
LEMMA ApprovalUsed ==
  ASSUME NEW s \in Checkpoint, NEW done, NEW by, NEW top, Good(s, done, by, top),
         s.next = "require_approval", s.approved # "none"
  PROVE  Good(Saved(GrantRecorded(s), "require_approval"), done, by, top)
<1> DEFINE g == GrantRecorded(s)
<1>1. g \in Checkpoint /\ "require_approval" \in Nodes
  BY ReturnTypes DEF Nodes
<1>2. /\ g.approved = s.approved /\ g.decidedOn = s.decidedOn /\ g.proposal = s.proposal
      /\ ~g.grant_session /\ g.session_grants \subseteq by
  BY DEF GrantRecorded, Checkpoint, Good, GrantedByHumans
<1>3. /\ s.decidedOn = s.proposal /\ s.proposal \notin done /\ s.proposal \in 0..top
  BY DEF Good, OnThisTurn, NotYetRun
<1> HIDE DEF g
<1>4. LET u == Saved(g, "require_approval") IN
      /\ u.next \in {"call_tools", "reject_tools"}
      /\ u.approved = s.approved /\ u.decidedOn = u.proposal /\ u.proposal = s.proposal
      /\ ~u.grant_session /\ u.session_grants \subseteq by
  BY <1>1, <1>2, <1>3, SavedFacts, SavedLeaves
<1> QED
  BY <1>3, <1>4 DEF g, Good, OnThisTurn, NotYetRun, GrantedByHumans

-----------------------------------------------------------------------------
(* The steps. *)

LEMMA CommitAlone ==
  ASSUME SingleRequest, TypeOK, AloneInv, NEW r \in Requests, NEW node, NEW s,
         Commit(r, node, s), pc[r] = "run", executed' \subseteq 0..minted',
         Good(Saved(s, node), executed', granted', minted')
  PROVE  AloneInv'
<1>1. /\ store' = Saved(s, node) /\ run'[r] = store' /\ pc' = pc
  BY DEF Commit, TypeOK
<1>2. \A q \in Requests : q = r
  BY DEF SingleRequest
<1>3. InStep' /\ Quiet'
  BY <1>1, <1>2 DEF InStep, Quiet
<1> QED
  BY <1>1, <1>3 DEF AloneInv, Good, Numbered

LEMMA LeaveAlone ==
  ASSUME SingleRequest, TypeOK, AloneInv, NEW r \in Requests, Leave(r), UNCHANGED history,
         store.next = "end" \/ Pausing(store)
  PROVE  AloneInv'
<1>1. store' = store /\ pc'[r] = "idle"
  BY DEF Leave, TypeOK
<1>2. \A q \in Requests : q = r
  BY DEF SingleRequest
<1>3. InStep' /\ Quiet'
  BY <1>1, <1>2 DEF InStep, Quiet, Pausing
<1> QED
  BY <1>1, <1>3 DEF AloneInv, Numbered, history

LEMMA AloneInit == Init => AloneInv
BY DEF Init, AloneInv, InStep, Quiet, OnThisTurn, NotYetRun, Numbered, GrantedByHumans,
       NewThread, ToolNodes

(* A decision leaves a pending turn where it is: the edges of the node     *)
(* that proposed it are evaluated again, and lead to the same pause.       *)
LEMMA DecidedStays ==
  ASSUME NEW s \in Checkpoint, Routed(s), s.next = "require_approval", NEW m \in Message,
         NEW on \in Nat
  PROVE  LET t == Decided(s, Parse(m), on) IN
         /\ RouteFrom(t) = "require_approval" /\ t \in Checkpoint
         /\ t.approved \in {"yes", "no"} /\ t.decidedOn = on
         /\ t.grant_session = Parse(m).session
         /\ t.last = s.last /\ t.proposal = s.proposal
         /\ t.session_grants = s.session_grants
<1> DEFINE t == Decided(s, Parse(m), on)
<1>1. t \in Checkpoint
  BY ReturnTypes
<1>2. /\ t.by = s.by /\ t.last = s.last
      /\ t.tool_iterations = s.tool_iterations /\ t.proposal = s.proposal
      /\ t.empty_answer_retries = s.empty_answer_retries
      /\ t.auto_approval_streak = s.auto_approval_streak
      /\ t.session_grants = s.session_grants /\ t.decidedOn = on
      /\ t.approved \in {"yes", "no"} /\ t.grant_session = Parse(m).session
  BY <1>1 DEF Decided, Parse, Checkpoint
<1>3. s.by \in {"call_llm", "prepare_slash_command"} /\ s.next = RouteFrom(s)
  BY RoutedFacts DEF Routed, NewThread
<1> HIDE DEF t
<1>4. RouteFrom(t) = "require_approval"
  BY <1>2, <1>3 DEF RouteFrom, HasToolCalls, RouteSlashCommandTier
<1> QED
  BY <1>1, <1>2, <1>4 DEF t

LEMMA DecideAlone ==
  ASSUME SingleRequest, IInv, AloneInv, NEW r \in Requests, Decide(r)
  PROVE  AloneInv'
<1> DEFINE d == Parse(msg[r])
           s == Decided(store, d, store.proposal)
<1>1. /\ store \in Checkpoint /\ msg[r] \in Message /\ Routed(store)
      /\ store.proposal \in Nat
  BY DEF IInv, TypeOK, Sound, Checkpoint
<1>2. /\ pc[r] = "decide" /\ seen[r] = store /\ store.next = "require_approval"
      /\ store.approved = "none"
  BY DEF Decide, AloneInv, Quiet, Pausing
<1>3. store' = [s EXCEPT !.next = RouteFrom(s)]
  BY <1>2 DEF Decide
<1>4. /\ RouteFrom(s) = "require_approval" /\ s \in Checkpoint
      /\ s.approved \in {"yes", "no"} /\ s.decidedOn = store.proposal
      /\ s.grant_session = d.session /\ s.last = store.last
      /\ s.proposal = store.proposal /\ s.session_grants = store.session_grants
  BY <1>1, <1>2, DecidedStays
<1> HIDE DEF s
<1>5. /\ store'.next = "require_approval" /\ store'.proposal = store.proposal
      /\ store'.decidedOn = store.proposal /\ store'.last = store.last
      /\ store'.approved # "none" /\ store'.session_grants = store.session_grants
      /\ store'.grant_session = d.session
  BY <1>3, <1>4 DEF Checkpoint
<1>6. /\ granted \subseteq granted'
      /\ d.session => Names(store.last.calls) \subseteq granted'
      /\ executed' = executed /\ minted' = minted
  BY <1>2 DEF Decide
<1>7. pc'[r] = "resume" /\ \A q \in Requests : q = r
  BY DEF Decide, IInv, TypeOK, SingleRequest
<1>8. InStep' /\ Quiet'
  BY <1>7 DEF InStep, Quiet
<1>9. OnThisTurn(store)' /\ Numbered'
  BY <1>5, <1>6 DEF AloneInv, OnThisTurn, Numbered
<1>10. NotYetRun(store, executed)'
  BY <1>2, <1>5, <1>6 DEF AloneInv, NotYetRun
<1>11. GrantedByHumans(store, granted)'
  BY <1>5, <1>6 DEF AloneInv, GrantedByHumans
<1> QED
  BY <1>8, <1>9, <1>10, <1>11 DEF AloneInv

(* A new task has nothing decided and nothing proposed.                    *)
LEMMA StartRoutes ==
  ASSUME store \in Checkpoint, NEW r \in Requests, msg[r] \in Message, Start(r)
  PROVE  /\ store'.next \in {"prepare_slash_command", "retrieve_context"}
         /\ store'.approved = "none" /\ ~store'.grant_session
         /\ store'.proposal = store.proposal /\ store'.session_grants = store.session_grants
<1> DEFINE t == RunInput(store, msg[r])
<1>1. t \in Checkpoint
  BY ReturnTypes
<1>2. /\ t.by = "start" /\ t.approved = "none" /\ ~t.grant_session
      /\ t.proposal = store.proposal /\ t.session_grants = store.session_grants
  BY <1>1 DEF RunInput, Checkpoint
<1>3. store' = [t EXCEPT !.next = RouteFrom(t)]
  BY DEF Start
<1> HIDE DEF t
<1> QED
  BY <1>1, <1>2, <1>3 DEF Checkpoint, RouteFrom, RouteEntry

LEMMA StartAlone ==
  ASSUME SingleRequest, IInv, AloneInv, NEW r \in Requests, Start(r)
  PROVE  AloneInv'
<1>1. store \in Checkpoint /\ msg[r] \in Message
  BY DEF IInv, TypeOK
<1>2. /\ store'.next \in {"prepare_slash_command", "retrieve_context"}
      /\ store'.approved = "none" /\ ~store'.grant_session
      /\ store'.proposal = store.proposal /\ store'.session_grants = store.session_grants
  BY <1>1, StartRoutes
<1>3. /\ pc'[r] = "run" /\ run'[r] = store' /\ UNCHANGED <<executed, minted, granted>>
  BY DEF Start, IInv, TypeOK, history
<1>4. InStep' /\ Quiet'
  BY <1>3 DEF InStep, Quiet, SingleRequest
<1> QED
  BY <1>2, <1>3, <1>4
  DEF AloneInv, OnThisTurn, NotYetRun, Numbered, GrantedByHumans, ToolNodes

LEMMA NodeAlone ==
  ASSUME SingleRequest, IInv, AloneInv, NEW r \in Requests,
         \/ \E node \in Nodes : PassThrough(r, node) \/ ExecuteToolCalls(r, node)
         \/ CallLlmAnswers(r) \/ CallLlmProposes(r) \/ RetryEmptyAnswer(r)
         \/ PrepareSlashCommand(r) \/ RunSlashCommandDirect(r)
         \/ RequireApproval(r) \/ RejectTools(r)
  PROVE  AloneInv'
<1> DEFINE s == run[r]
<1> USE DEF history
<1>1. pc[r] = "run"
  BY DEF Running, PassThrough, ExecuteToolCalls, CallLlmAnswers, CallLlmProposes,
         RetryEmptyAnswer, PrepareSlashCommand, RunSlashCommandDirect, RequireApproval,
         RejectTools
<1>2. /\ s = store /\ TypeOK /\ s \in Checkpoint /\ s.last.calls \in SUBSET Call
      /\ minted \in Nat
  BY <1>1 DEF AloneInv, InStep, IInv, TypeOK, Checkpoint, LastMessage
<1>3. /\ Good(s, executed, granted, minted) /\ executed \in SUBSET (0..minted)
  BY <1>2 DEF AloneInv, Good, Numbered
<1>4. s.session_grants \subseteq granted /\ s.proposal \in 0..minted
  BY <1>3 DEF Good, GrantedByHumans
<1>5. s.next \notin {"require_approval", "call_tools", "reject_tools"} =>
        s.approved = "none" /\ ~s.grant_session
  BY <1>3 DEF Good, OnThisTurn, GrantedByHumans
<1>6. s.next \in {"call_tools", "reject_tools"} => ~s.grant_session
  BY <1>3 DEF Good, GrantedByHumans
<1> HIDE DEF s
<1>7. ASSUME NEW node \in Nodes, PassThrough(r, node)
      PROVE  AloneInv'
  <2>1. /\ node \in {"retrieve_context", "select_skill", "validate_plan"}
        /\ s.next = node /\ Commit(r, node, s)
        /\ UNCHANGED <<executed, minted, granted>>
    BY <1>7 DEF s, PassThrough, Running
  <2>2. Good(Saved(s, node), executed, granted, minted)
    BY <1>2, <1>4, <1>5, <2>1, PlainNode
  <2> QED
    BY <1>1, <1>2, <1>3, <2>1, <2>2, CommitAlone
<1>8. CASE CallLlmAnswers(r)
  <2>1. PICK kind \in {"answer", "empty"} : Commit(r, "call_llm", Answered(s, kind))
    BY <1>8 DEF s, CallLlmAnswers
  <2>2. s.next = "call_llm" /\ UNCHANGED <<executed, minted, granted>>
    BY <1>8 DEF s, CallLlmAnswers, Running
  <2>3. Good(Saved(Answered(s, kind), "call_llm"), executed, granted, minted)
    BY <1>2, <1>4, <1>5, <2>2, Answering
  <2> QED
    BY <1>1, <1>2, <1>3, <2>1, <2>2, <2>3, CommitAlone
<1>9. CASE CallLlmProposes(r)
  <2>1. PICK p \in Proposals : Commit(r, "call_llm", Proposed(s, p, minted + 1))
    BY <1>9 DEF s, CallLlmProposes
  <2>2. /\ s.next = "call_llm" /\ UNCHANGED <<executed, granted>> /\ minted' = minted + 1
    BY <1>9 DEF s, CallLlmProposes, Running
  <2>3. p \in SUBSET Call
    BY AgentAssumption
  <2>4. Good(Saved(Proposed(s, p, minted + 1), "call_llm"), executed, granted, minted + 1)
    BY <1>2, <1>3, <1>4, <1>5, <2>2, <2>3, NewProposal
  <2>5. executed' \subseteq 0..minted'
    BY <1>2, <1>3, <2>2
  <2> QED
    BY <1>1, <1>2, <2>1, <2>2, <2>4, <2>5, CommitAlone
<1>10. CASE PrepareSlashCommand(r)
  <2>1. /\ Commit(r, "prepare_slash_command", Proposed(s, s.last.calls, minted + 1))
        /\ s.next = "prepare_slash_command" /\ UNCHANGED <<executed, granted>>
        /\ minted' = minted + 1
    BY <1>10 DEF s, PrepareSlashCommand, Running
  <2>2. Good(Saved(Proposed(s, s.last.calls, minted + 1), "prepare_slash_command"),
             executed, granted, minted + 1)
    BY <1>2, <1>3, <1>4, <1>5, <2>1, NewProposal
  <2>3. executed' \subseteq 0..minted'
    BY <1>2, <1>3, <2>1
  <2> QED
    BY <1>1, <1>2, <2>1, <2>2, <2>3, CommitAlone
<1>11. CASE RetryEmptyAnswer(r)
  <2>1. /\ Commit(r, "retry_empty_answer", Retried(s)) /\ s.next = "retry_empty_answer"
        /\ UNCHANGED <<executed, minted, granted>>
    BY <1>11 DEF s, RetryEmptyAnswer, Running
  <2>2. /\ Retried(s) \in Checkpoint /\ Retried(s).approved = s.approved
        /\ Retried(s).grant_session = s.grant_session /\ Retried(s).proposal = s.proposal
        /\ Retried(s).session_grants = s.session_grants
    BY <1>2, ReturnTypes DEF Retried, Checkpoint
  <2>3. Good(Saved(Retried(s), "retry_empty_answer"), executed, granted, minted)
    BY <1>4, <1>5, <2>1, <2>2, PlainNode DEF Nodes
  <2> QED
    BY <1>1, <1>2, <1>3, <2>1, <2>3, CommitAlone
<1>12. ASSUME NEW node \in {"call_tools", "auto_call_tools"}, ExecuteToolCalls(r, node)
      PROVE  AloneInv'
  <2>1. /\ Commit(r, node, ToolsExecuted(s)) /\ s.next = node
        /\ executed' = executed \cup {s.proposal} /\ UNCHANGED <<minted, granted>>
    BY <1>12 DEF s, ExecuteToolCalls, Running
  <2>2. /\ ToolsExecuted(s) \in Checkpoint /\ ToolsExecuted(s).approved = "none"
        /\ ToolsExecuted(s).grant_session = s.grant_session
        /\ ToolsExecuted(s).proposal = s.proposal
        /\ ToolsExecuted(s).session_grants = s.session_grants
    <3>1. ToolsExecuted(s) \in Checkpoint
      BY <1>2, ReturnTypes
    <3> QED
      BY <1>2, <3>1 DEF ToolsExecuted, Checkpoint
  <2>3. Good(Saved(ToolsExecuted(s), node), executed', granted, minted)
    BY <1>4, <1>5, <1>6, <2>1, <2>2, PlainNode DEF Nodes, ToolNodes
  <2>4. executed' \subseteq 0..minted'
    BY <1>3, <1>4, <2>1
  <2> QED
    BY <1>1, <1>2, <2>1, <2>3, <2>4, CommitAlone
<1>13. CASE RunSlashCommandDirect(r)
  <2>1. /\ Commit(r, "run_slash_command_direct", SlashExecuted(s))
        /\ s.next = "run_slash_command_direct"
        /\ executed' = executed \cup {s.proposal} /\ UNCHANGED <<minted, granted>>
    BY <1>13 DEF s, RunSlashCommandDirect, Running
  <2>2. /\ SlashExecuted(s) \in Checkpoint /\ SlashExecuted(s).approved = s.approved
        /\ SlashExecuted(s).grant_session = s.grant_session
        /\ SlashExecuted(s).proposal = s.proposal
        /\ SlashExecuted(s).session_grants = s.session_grants
    <3>1. SlashExecuted(s) \in Checkpoint
      BY <1>2, ReturnTypes
    <3> QED
      BY <1>2, <3>1 DEF SlashExecuted, Checkpoint
  <2>3. Good(Saved(SlashExecuted(s), "run_slash_command_direct"), executed', granted, minted)
    BY <1>4, <1>5, <2>1, <2>2, PlainNode DEF Nodes, ToolNodes
  <2>4. executed' \subseteq 0..minted'
    BY <1>3, <1>4, <2>1
  <2> QED
    BY <1>1, <1>2, <2>1, <2>3, <2>4, CommitAlone
<1>14. CASE RequireApproval(r)
  <2>1. /\ Commit(r, "require_approval", GrantRecorded(s)) /\ s.next = "require_approval"
        /\ s.approved # "none" /\ UNCHANGED <<executed, minted, granted>>
    BY <1>14 DEF s, RequireApproval, Running
  <2>2. Good(Saved(GrantRecorded(s), "require_approval"), executed, granted, minted)
    BY <1>2, <1>3, <2>1, ApprovalUsed
  <2> QED
    BY <1>1, <1>2, <1>3, <2>1, <2>2, CommitAlone
<1>15. CASE RejectTools(r)
  <2>1. /\ Commit(r, "reject_tools", ToolsRejected(s)) /\ s.next = "reject_tools"
        /\ UNCHANGED <<executed, minted, granted>>
    BY <1>15 DEF s, RejectTools, Running
  <2>2. /\ ToolsRejected(s) \in Checkpoint /\ ToolsRejected(s).approved = "none"
        /\ ToolsRejected(s).grant_session = s.grant_session
        /\ ToolsRejected(s).proposal = s.proposal
        /\ ToolsRejected(s).session_grants = s.session_grants
    <3>1. ToolsRejected(s) \in Checkpoint
      BY <1>2, ReturnTypes
    <3> QED
      BY <1>2, <3>1 DEF ToolsRejected, Checkpoint
  <2>3. Good(Saved(ToolsRejected(s), "reject_tools"), executed, granted, minted)
    BY <1>4, <1>6, <2>1, <2>2, PlainNode DEF Nodes
  <2> QED
    BY <1>1, <1>2, <1>3, <2>1, <2>3, CommitAlone
<1> QED
  BY <1>7, <1>8, <1>9, <1>10, <1>11, <1>12, <1>13, <1>14, <1>15 DEF ExecuteToolCalls

LEMMA AloneStep ==
  ASSUME SingleRequest, NothingFails
  PROVE  IInv /\ WithinRecursionLimit /\ AloneInv /\ [Next]_vars => AloneInv'
<1> SUFFICES ASSUME IInv, WithinRecursionLimit, AloneInv, [Next]_vars PROVE AloneInv'
  OBVIOUS
<1>1. TypeOK
  BY DEF IInv
<1>2. ASSUME NEW r \in Requests, NEW m \in Message, Arrive(r, m)
      PROVE  AloneInv'
  <2>1. /\ pc[r] = "idle" /\ seen'[r] = store /\ UNCHANGED <<store, executed, minted, granted>>
        /\ pc'[r] = IF store.next = "end" THEN "start" ELSE "decide"
        /\ \A q \in Requests : q = r
    BY <1>1, <1>2 DEF Arrive, TypeOK, history, SingleRequest
  <2>2. store.next = "end" \/ Pausing(store)
    BY <2>1 DEF AloneInv, Quiet
  <2>3. InStep' /\ Quiet'
    BY <2>1, <2>2 DEF InStep, Quiet, Pausing
  <2> QED
    BY <2>1, <2>3 DEF AloneInv, Numbered
<1>3. ASSUME NEW r \in Requests, Resume(r)
      PROVE  AloneInv'
  <2>1. /\ pc'[r] = "run" /\ run'[r] = store /\ UNCHANGED <<store, executed, minted, granted>>
        /\ \A q \in Requests : q = r
    BY <1>1, <1>3 DEF Resume, TypeOK, history, SingleRequest
  <2>2. InStep' /\ Quiet'
    BY <2>1 DEF InStep, Quiet
  <2> QED
    BY <2>1, <2>2 DEF AloneInv, Numbered
<1>4. ASSUME NEW r \in Requests, Interrupt(r) \/ Finish(r)
      PROVE  AloneInv'
  <2>1. /\ Leave(r) /\ UNCHANGED history /\ pc[r] = "run"
        /\ run[r].next = "end" \/ Pausing(run[r])
    BY <1>4 DEF Interrupt, Finish, Running, Pausing
  <2>2. run[r] = store
    BY <2>1 DEF AloneInv, InStep
  <2> QED
    BY <1>1, <2>1, <2>2, LeaveAlone
<1>5. ASSUME NEW r \in Requests PROVE ~OutOfSteps(r) /\ ~NodeFails(r)
  <2>1. ~NodeFails(r)
    BY DEF NodeFails, NothingFails
  <2>2. ASSUME OutOfSteps(r) PROVE FALSE
    <3>1. steps[r] < RecursionLimit /\ steps[r] >= RecursionLimit
      BY <2>2 DEF OutOfSteps, WithinRecursionLimit
    <3>2. steps[r] \in Nat /\ RecursionLimit \in Nat
      BY <1>1, AgentAssumption DEF TypeOK, RecursionLimit
    <3> QED
      BY <3>1, <3>2
  <2> QED
    BY <2>1, <2>2
<1>6. CASE Restart
  <2>1. NewThread.next = "end" /\ NewThread.session_grants = {} /\ NewThread.proposal = 0
        /\ NewThread.approved = "none" /\ NewThread.grant_session = FALSE
    BY DEF NewThread
  <2>2. /\ store' = NewThread /\ \A r \in Requests : pc'[r] = "idle"
        /\ UNCHANGED <<executed, minted>> /\ minted \in Nat
    BY <1>1, <1>6 DEF Restart, TypeOK
  <2>3. InStep' /\ Quiet'
    BY <2>1, <2>2 DEF InStep, Quiet
  <2> QED
    BY <2>1, <2>2, <2>3
    DEF AloneInv, OnThisTurn, NotYetRun, Numbered, GrantedByHumans, ToolNodes
<1>7. CASE UNCHANGED vars
  BY <1>7 DEF vars, handlers, history, AloneInv, InStep, Quiet, Numbered
<1> QED
  BY <1>2, <1>3, <1>4, <1>5, <1>6, <1>7, DecideAlone, StartAlone, NodeAlone
  DEF Next, Serve, ChatCompletions, Approve

LEMMA AloneInvariant ==
  ASSUME SingleRequest, NothingFails, RetriesFit
  PROVE  Spec => [](IInv /\ AloneInv)
<1>1. Spec => []WithinRecursionLimit
  BY RetriesFit, NoRecursionError
<1>2. IInv /\ WithinRecursionLimit /\ AloneInv /\ [Next]_vars => AloneInv'
  BY AloneStep
<1> QED
  BY Invariant, AloneInit, <1>1, <1>2, PTL DEF Spec

-----------------------------------------------------------------------------
(* What it gives. *)

(* Whatever goes through require_approval, in either direction, was        *)
(* decided by a human who was looking at it.                               *)
THEOREM DecisionsAreInformed ==
  ASSUME SingleRequest, NothingFails, RetriesFit
  PROVE  Spec => []DecidedOnThisTurn
<1>1. AloneInv => DecidedOnThisTurn
  BY DEF AloneInv, InStep, OnThisTurn, DecidedOnThisTurn, AboutToRun
<1> QED
  BY AloneInvariant, <1>1, PTL

(* Text is taken for a decision, and a button accepted, only at a pause.   *)
THEOREM DecisionsOnlyAtAPause ==
  ASSUME SingleRequest, NothingFails, RetriesFit
  PROVE  Spec => []DecisionsAnswerAPause
<1>1. AloneInv => DecisionsAnswerAPause
  BY DEF AloneInv, Quiet, Pausing, DecisionsAnswerAPause
<1> QED
  BY AloneInvariant, <1>1, PTL

(* No turn is executed twice, or after its rejection.                      *)
THEOREM OneTurnOneExecution ==
  ASSUME SingleRequest, NothingFails, RetriesFit
  PROVE  Spec => []ExecutedAtMostOnce
<1>1. AloneInv => ExecutedAtMostOnce
  BY DEF AloneInv, InStep, NotYetRun, ExecutedAtMostOnce, AboutToRun
<1> QED
  BY AloneInvariant, <1>1, PTL

(* What runs without a pause is not sensitive, or its tool was granted by  *)
(* a human with one of its calls in front of them and may be granted.      *)
THEOREM OnlyAllowedCallsRunAlone ==
  ASSUME SingleRequest, NothingFails, RetriesFit
  PROVE  Spec => []AutoRunsOnlyWhatIsAllowed
<1>1. IInv /\ AloneInv => AutoRunsOnlyWhatIsAllowed
  <2> SUFFICES ASSUME IInv, AloneInv, NEW r \in Requests,
                      AboutToRun(r, {"auto_call_tools", "run_slash_command_direct"}),
                      NEW c \in run[r].last.calls, ResolvedTier(c) = "sensitive"
               PROVE  c.name \in granted \ NeverGrantableTools
    BY DEF AutoRunsOnlyWhatIsAllowed
  <2>1. run[r] \in Checkpoint /\ Routed(run[r]) /\ run[r] = store
    BY DEF IInv, TypeOK, Sound, AloneInv, InStep, AboutToRun
  <2>2. EffectiveTier(c, run[r].session_grants) # "sensitive"
    BY <2>1, RoutedFacts DEF AboutToRun, IsAutoApproved
  <2>3. store.session_grants \subseteq granted
    BY DEF AloneInv, GrantedByHumans
  <2> QED
    BY <2>1, <2>2, <2>3 DEF EffectiveTier
<1> QED
  BY AloneInvariant, <1>1, PTL

-----------------------------------------------------------------------------
(* The thread implements Supervision. *)

TurnNodes == {"require_approval", "call_tools", "reject_tools", "auto_call_tools",
              "run_slash_command_direct"}

LEMMA PhaseFacts ==
  ASSUME NEW s
  PROVE  /\ s.next \notin TurnNodes =>
              PhaseOf(s) = "idle" /\ TurnOf(s) = 0 /\ CallsOf(s) = {}
         /\ s.next \in TurnNodes =>
              PhaseOf(s) # "idle" /\ TurnOf(s) = s.proposal /\ CallsOf(s) = s.last.calls
         /\ s.next = "require_approval" /\ s.approved = "none" => PhaseOf(s) = "pending"
         /\ s.next = "require_approval" /\ s.approved = "yes" => PhaseOf(s) = "approved"
         /\ s.next = "require_approval" /\ s.approved = "no" => PhaseOf(s) = "refused"
         /\ s.next = "call_tools" => PhaseOf(s) = "approved"
         /\ s.next = "reject_tools" => PhaseOf(s) = "refused"
         /\ s.next \in {"auto_call_tools", "run_slash_command_direct"} =>
              PhaseOf(s) = "automatic"
<1>1. /\ s.next \notin TurnNodes => PhaseOf(s) = "idle"
      /\ s.next \in TurnNodes => PhaseOf(s) # "idle"
      /\ s.next = "require_approval" /\ s.approved = "none" => PhaseOf(s) = "pending"
      /\ s.next = "require_approval" /\ s.approved = "yes" => PhaseOf(s) = "approved"
      /\ s.next = "require_approval" /\ s.approved = "no" => PhaseOf(s) = "refused"
      /\ s.next = "call_tools" => PhaseOf(s) = "approved"
      /\ s.next = "reject_tools" => PhaseOf(s) = "refused"
      /\ s.next \in {"auto_call_tools", "run_slash_command_direct"} =>
           PhaseOf(s) = "automatic"
  BY DEF PhaseOf, TurnNodes
<1> QED
  BY <1>1 DEF TurnOf, CallsOf

(* A step that leads from no turn to no turn, or keeps the turn and what   *)
(* was said of it, is none of the supervisor's business.                   *)
LEMMA NothingSeen ==
  ASSUME UNCHANGED <<granted, minted, executed>>,
         \/ store' = store
         \/ store.next \notin TurnNodes /\ store'.next \notin TurnNodes
         \/ /\ store.next \in TurnNodes /\ store'.next \in TurnNodes
            /\ PhaseOf(store') = PhaseOf(store)
            /\ store'.proposal = store.proposal /\ store'.last = store.last
  PROVE  UNCHANGED Human!supervised
<1>1. /\ PhaseOf(store') = PhaseOf(store) /\ TurnOf(store') = TurnOf(store)
      /\ CallsOf(store') = CallsOf(store)
  BY PhaseFacts
<1> QED
  BY <1>1 DEF Human!supervised

(* A turn is proposed, or given up because the budget is exhausted.        *)
LEMMA ProposalSeen ==
  ASSUME NEW node \in {"call_llm", "prepare_slash_command"}, NEW s \in Checkpoint,
         NEW cs \in SUBSET Call, store' = Saved(Proposed(s, cs, minted + 1), node),
         store.next \notin TurnNodes, minted \in Nat, minted' = minted + 1,
         UNCHANGED <<granted, executed>>, s.approved = "none",
         s.session_grants \subseteq granted
  PROVE  Human!Propose \/ Human!Discard
<1> DEFINE p == Proposed(s, cs, minted + 1)
<1>1. p \in Checkpoint /\ node \in Nodes
  BY ReturnTypes DEF Nodes
<1>2. /\ p.approved = "none" /\ p.proposal = minted + 1 /\ p.last.calls = cs
      /\ p.session_grants \subseteq granted
  BY DEF Proposed, Checkpoint
<1> HIDE DEF p
<1>3. /\ store' \in Checkpoint /\ Routed(store') /\ store'.approved = "none"
      /\ store'.next \in {"end", "retry_empty_answer", "auto_call_tools",
                          "require_approval", "run_slash_command_direct"}
      /\ store'.proposal = minted + 1 /\ store'.last.calls = cs
      /\ store'.session_grants \subseteq granted
  BY <1>1, <1>2, SavedFacts, SavedLeaves DEF p
<1>4. /\ PhaseOf(store) = "idle" /\ TurnOf(store) = 0 /\ CallsOf(store) = {}
  BY PhaseFacts
<1>5. CASE store'.next \notin TurnNodes
  <2>1. PhaseOf(store') = "idle" /\ TurnOf(store') = 0 /\ CallsOf(store') = {}
    BY <1>5, PhaseFacts
  <2>2. 1..minted \subseteq 1..minted'
    OBVIOUS
  <2> QED
    BY <1>4, <2>1, <2>2 DEF Human!Discard
<1>6. CASE store'.next \in TurnNodes
  <2>1. TurnOf(store') = minted + 1 /\ CallsOf(store') = cs
    BY <1>3, <1>6, PhaseFacts
  <2>2. minted + 1 \notin (1..minted) \cup {0} /\ 1..minted' = (1..minted) \cup {minted + 1}
    OBVIOUS
  <2>3. CASE store'.next = "require_approval"
    <3>1. PhaseOf(store') = "pending"
      BY <1>3, <2>3, PhaseFacts
    <3> QED
      BY <1>4, <2>1, <2>2, <3>1 DEF Human!Propose, Human!NoTurn
  <2>4. CASE store'.next \in {"auto_call_tools", "run_slash_command_direct"}
    <3>1. PhaseOf(store') = "automatic"
      BY <2>4, PhaseFacts
    <3>2. ASSUME NEW c \in cs, ResolvedTier(c) = "sensitive"
          PROVE  c.name \in granted \cap (Tools \ NeverGrantableTools)
      <4>1. EffectiveTier(c, store'.session_grants) # "sensitive"
        BY <1>3, <2>4, RoutedFacts DEF IsAutoApproved
      <4>2. c.name \in store'.session_grants /\ c.name \notin NeverGrantableTools
        BY <3>2, <4>1 DEF EffectiveTier
      <4> QED
        BY <1>3, <4>2 DEF Call
    <3> QED
      BY <1>4, <2>1, <2>2, <3>1, <3>2 DEF Human!Propose, Human!NoTurn, Human!Sanctioned
  <2> QED
    BY <1>3, <1>6, <2>3, <2>4 DEF TurnNodes
<1> QED
  BY <1>5, <1>6

(* The decision is about the turn that is pending, and grants its tools.   *)
LEMMA DecisionSeen ==
  ASSUME SingleRequest, IInv, AloneInv, NEW r \in Requests, Decide(r), AloneInv'
  PROVE  Human!Approve \/ Human!Refuse
<1> DEFINE d == Parse(msg[r])
<1>1. store \in Checkpoint /\ msg[r] \in Message /\ pc'[r] = "resume"
  BY DEF IInv, TypeOK, Decide
<1>2. /\ seen[r] = store /\ store.next = "require_approval" /\ store.approved = "none"
  BY DEF Decide, AloneInv, Quiet, Pausing
<1>3. /\ d.approved \in {"yes", "no"} /\ d.session \in BOOLEAN
      /\ d.session => d.approved = "yes"
  BY DEF Parse
<1>4. /\ store'.approved = d.approved /\ store'.proposal = store.proposal
      /\ store'.last = store.last
  BY <1>1 DEF Decide, Decided, Checkpoint
<1>5. granted' = IF d.session THEN granted \cup Names(store.last.calls) ELSE granted
  BY <1>2 DEF Decide
<1>6. UNCHANGED <<minted, executed>>
  BY DEF Decide
<1>7. store'.next = "require_approval"
  <2> DEFINE s == Decided(store, d, store.proposal)
  <2>1. Routed(store) /\ store.proposal \in Nat
    BY <1>1 DEF IInv, Sound, Checkpoint
  <2>2. RouteFrom(s) = "require_approval" /\ s \in Checkpoint
    BY <1>1, <1>2, <2>1, DecidedStays
  <2>3. store' = [s EXCEPT !.next = RouteFrom(s)]
    BY <1>2 DEF Decide
  <2> HIDE DEF s
  <2> QED
    BY <2>2, <2>3 DEF Checkpoint
<1> HIDE DEF d
<1>8. /\ PhaseOf(store) = "pending" /\ TurnOf(store) = store.proposal
      /\ CallsOf(store) = store.last.calls
  BY <1>2, PhaseFacts DEF TurnNodes
<1>9. /\ PhaseOf(store') = IF d.approved = "yes" THEN "approved" ELSE "refused"
      /\ TurnOf(store') = store.proposal /\ CallsOf(store') = store.last.calls
  BY <1>3, <1>4, <1>7, PhaseFacts DEF TurnNodes
<1>10. CASE d.approved = "yes"
  BY <1>5, <1>6, <1>8, <1>9, <1>10 DEF Human!Approve, Names
<1>11. CASE d.approved = "no"
  BY <1>3, <1>5, <1>6, <1>8, <1>9, <1>11 DEF Human!Refuse
<1> QED
  BY <1>3, <1>10, <1>11

(* What each node does to the turn.                                        *)
LEMMA NodeSeen ==
  ASSUME IInv, AloneInv, NEW r \in Requests,
         \/ \E node \in Nodes : PassThrough(r, node) \/ ExecuteToolCalls(r, node)
         \/ CallLlmAnswers(r) \/ CallLlmProposes(r) \/ RetryEmptyAnswer(r)
         \/ PrepareSlashCommand(r) \/ RunSlashCommandDirect(r)
         \/ RequireApproval(r) \/ RejectTools(r)
  PROVE  [Human!Next]_Human!supervised
<1>1. pc[r] = "run"
  BY DEF Running, PassThrough, ExecuteToolCalls, CallLlmAnswers, CallLlmProposes,
         RetryEmptyAnswer, PrepareSlashCommand, RunSlashCommandDirect, RequireApproval,
         RejectTools
<1>2. /\ run[r] = store /\ store \in Checkpoint /\ store.last.calls \in SUBSET Call
      /\ minted \in Nat /\ store.session_grants \subseteq granted
  BY <1>1 DEF AloneInv, InStep, IInv, TypeOK, Checkpoint, LastMessage, GrantedByHumans
<1>3. /\ store.approved # "none" =>
           store.next \in {"require_approval", "call_tools", "reject_tools"}
      /\ store.next \in TurnNodes => store.proposal \notin executed
  BY DEF AloneInv, OnThisTurn, NotYetRun, TurnNodes, ToolNodes
<1>4. ASSUME NEW node \in Nodes, PassThrough(r, node)
      PROVE  UNCHANGED Human!supervised
  <2>1. /\ node \in {"retrieve_context", "select_skill", "validate_plan"}
        /\ store.next = node /\ store' = Saved(store, node)
        /\ UNCHANGED <<executed, minted, granted>>
    BY <1>2, <1>4 DEF PassThrough, Running, Commit, history
  <2>2. store'.next \in {"select_skill", "validate_plan", "call_llm"}
    BY <1>2, <2>1, SavedFacts
  <2> QED
    BY <2>1, <2>2, NothingSeen DEF TurnNodes
<1>5. CASE CallLlmAnswers(r)
  <2>1. PICK kind \in {"answer", "empty"} : store' = Saved(Answered(store, kind), "call_llm")
    BY <1>2, <1>5 DEF CallLlmAnswers, Commit
  <2>2. store.next = "call_llm" /\ UNCHANGED <<executed, minted, granted>>
    BY <1>2, <1>5 DEF CallLlmAnswers, Running, history
  <2>3. store'.next \in {"retry_empty_answer", "end"}
    BY <1>2, <2>1, AnswersLeadOn
  <2> QED
    BY <2>2, <2>3, NothingSeen DEF TurnNodes
<1>6. CASE CallLlmProposes(r)
  <2>1. PICK p \in Proposals : store' = Saved(Proposed(store, p, minted + 1), "call_llm")
    BY <1>2, <1>6 DEF CallLlmProposes, Commit
  <2>2. /\ store.next = "call_llm" /\ UNCHANGED <<executed, granted>> /\ minted' = minted + 1
    BY <1>2, <1>6 DEF CallLlmProposes, Running
  <2>3. p \in SUBSET Call /\ store.next \notin TurnNodes /\ store.approved = "none"
    BY <1>3, <2>2, AgentAssumption DEF TurnNodes
  <2> QED
    BY <1>2, <2>1, <2>2, <2>3, ProposalSeen DEF Human!Next
<1>7. CASE PrepareSlashCommand(r)
  <2>1. /\ store' = Saved(Proposed(store, store.last.calls, minted + 1), "prepare_slash_command")
        /\ store.next = "prepare_slash_command" /\ UNCHANGED <<executed, granted>>
        /\ minted' = minted + 1
    BY <1>2, <1>7 DEF PrepareSlashCommand, Running, Commit
  <2>2. store.next \notin TurnNodes /\ store.approved = "none"
    BY <1>3, <2>1 DEF TurnNodes
  <2> QED
    BY <1>2, <2>1, <2>2, ProposalSeen DEF Human!Next
<1>8. CASE RetryEmptyAnswer(r)
  <2>1. /\ store' = Saved(Retried(store), "retry_empty_answer")
        /\ store.next = "retry_empty_answer" /\ UNCHANGED <<executed, minted, granted>>
    BY <1>2, <1>8 DEF RetryEmptyAnswer, Running, Commit, history
  <2>2. store'.next = "call_llm"
    BY <1>2, <2>1, ReturnTypes, SavedFacts DEF Nodes
  <2> QED
    BY <2>1, <2>2, NothingSeen DEF TurnNodes
<1>9. CASE RequireApproval(r)
  <2>1. /\ store' = Saved(GrantRecorded(store), "require_approval")
        /\ store.next = "require_approval" /\ store.approved \in {"yes", "no"}
        /\ UNCHANGED <<executed, minted, granted>>
    BY <1>2, <1>9 DEF RequireApproval, Running, Commit, history, Checkpoint
  <2>2. /\ GrantRecorded(store) \in Checkpoint
        /\ GrantRecorded(store).approved = store.approved
        /\ GrantRecorded(store).proposal = store.proposal
        /\ GrantRecorded(store).last = store.last
    <3>1. GrantRecorded(store) \in Checkpoint
      BY <1>2, ReturnTypes
    <3> QED
      BY <1>2, <3>1 DEF GrantRecorded, Checkpoint
  <2>3. /\ store'.next = IF store.approved = "yes" THEN "call_tools" ELSE "reject_tools"
        /\ store'.proposal = store.proposal /\ store'.last = store.last
    BY <2>1, <2>2, SavedFacts, SavedLeaves
    DEF Nodes, Routed, RouteFrom, RouteAfterApproval, NewThread
  <2>4. PhaseOf(store') = PhaseOf(store)
    BY <2>1, <2>3, PhaseFacts
  <2> QED
    BY <2>1, <2>3, <2>4, NothingSeen DEF TurnNodes
<1>10. ASSUME NEW node, \/ ExecuteToolCalls(r, node) /\ store' = Saved(ToolsExecuted(store), node)
                        \/ /\ RunSlashCommandDirect(r) /\ node = "run_slash_command_direct"
                           /\ store' = Saved(SlashExecuted(store), node)
       PROVE  Human!Execute
  <2>1. /\ node \in {"call_tools", "auto_call_tools", "run_slash_command_direct"}
        /\ store.next = node /\ executed' = executed \cup {store.proposal}
        /\ UNCHANGED <<minted, granted>>
    BY <1>2, <1>10 DEF ExecuteToolCalls, RunSlashCommandDirect, Running
  <2>2. node \in Nodes /\ ToolsExecuted(store) \in Checkpoint /\ SlashExecuted(store) \in Checkpoint
    BY <1>2, <2>1, ReturnTypes DEF Nodes, ToolNodes
  <2>3. store'.next \in {"call_llm", "end"}
    BY <1>10, <2>1, <2>2, SavedFacts DEF ExecuteToolCalls
  <2>4. /\ PhaseOf(store) \in {"approved", "automatic"} /\ TurnOf(store) = store.proposal
        /\ PhaseOf(store') = "idle" /\ TurnOf(store') = 0 /\ CallsOf(store') = {}
    BY <2>1, <2>3, PhaseFacts DEF TurnNodes
  <2> QED
    BY <1>3, <2>1, <2>4 DEF Human!Execute, Human!Idle, Human!NoTurn, TurnNodes
<1>11. CASE RejectTools(r)
  <2>1. /\ store' = Saved(ToolsRejected(store), "reject_tools")
        /\ store.next = "reject_tools" /\ UNCHANGED <<executed, minted, granted>>
    BY <1>2, <1>11 DEF RejectTools, Running, Commit, history
  <2>2. store'.next = "call_llm"
    BY <1>2, <2>1, ReturnTypes, SavedFacts DEF Nodes
  <2>3. /\ PhaseOf(store) = "refused"
        /\ PhaseOf(store') = "idle" /\ TurnOf(store') = 0 /\ CallsOf(store') = {}
    BY <2>1, <2>2, PhaseFacts DEF TurnNodes
  <2> QED
    BY <2>1, <2>3 DEF Human!TurnDown, Human!Idle, Human!NoTurn, Human!Next
<1>12. ASSUME NEW node \in Nodes, ExecuteToolCalls(r, node)
       PROVE  Human!Execute
  BY <1>2, <1>10, <1>12 DEF ExecuteToolCalls, Commit
<1>13. CASE RunSlashCommandDirect(r)
  BY <1>2, <1>10, <1>13 DEF RunSlashCommandDirect, Commit, Human!Next
<1> QED
  BY <1>4, <1>5, <1>6, <1>7, <1>8, <1>9, <1>11, <1>12, <1>13 DEF Human!Next

LEMMA SupervisedStep ==
  ASSUME SingleRequest, NothingFails
  PROVE  IInv /\ AloneInv /\ AloneInv' /\ [Next]_vars => [Human!Next]_Human!supervised
<1> SUFFICES ASSUME IInv, AloneInv, AloneInv', [Next]_vars
             PROVE  [Human!Next]_Human!supervised
  OBVIOUS
<1>1. ASSUME NEW r \in Requests, \/ \E m \in Message : Arrive(r, m)
                                \/ Resume(r) \/ Interrupt(r) \/ Finish(r) \/ OutOfSteps(r)
      PROVE  UNCHANGED Human!supervised
  <2>1. store' = store /\ UNCHANGED <<granted, minted, executed>>
    BY <1>1 DEF Arrive, Resume, Interrupt, Finish, OutOfSteps, Leave, history
  <2> QED
    BY <2>1, NothingSeen
<1>2. ASSUME NEW r \in Requests, Start(r)
      PROVE  UNCHANGED Human!supervised
  <2>1. store.next = "end" /\ UNCHANGED <<granted, minted, executed>>
    BY <1>2 DEF Start, AloneInv, Quiet, history
  <2>2. store'.next \notin TurnNodes
    BY <1>2, StartRoutes DEF IInv, TypeOK, TurnNodes
  <2> QED
    BY <2>1, <2>2, NothingSeen DEF TurnNodes
<1>3. ASSUME NEW r \in Requests PROVE ~NodeFails(r)
  BY DEF NodeFails, NothingFails
<1>4. CASE Restart
  <2>1. store' = NewThread /\ granted' = {} /\ UNCHANGED <<minted, executed>>
    BY <1>4 DEF Restart
  <2>2. PhaseOf(store') = "idle" /\ TurnOf(store') = 0 /\ CallsOf(store') = {}
    BY <2>1, PhaseFacts DEF NewThread, TurnNodes
  <2> QED
    BY <2>1, <2>2 DEF Human!Forget, Human!Idle, Human!NoTurn, Human!Next
<1>5. CASE UNCHANGED vars
  BY <1>5, NothingSeen DEF vars, history
<1> QED
  BY <1>1, <1>2, <1>3, <1>4, <1>5, DecisionSeen, NodeSeen
  DEF Next, Serve, ChatCompletions, Approve, Human!Next

(* A thread that serves one request at a time, whose nodes do not fail and *)
(* whose retries fit, settles each turn before the next, on a human's      *)
(* decision about it or on what a human granted, and executes it once.     *)
THEOREM ThreadImplementsSupervision ==
  ASSUME SingleRequest, NothingFails, RetriesFit
  PROVE  Spec => HumanSupervises
<1>1. Init => Human!Init
  <2> SUFFICES ASSUME Init PROVE Human!Init
    OBVIOUS
  <2>1. store = NewThread /\ granted = {} /\ minted = 0 /\ executed = {}
    BY DEF Init
  <2>2. PhaseOf(store) = "idle" /\ TurnOf(store) = 0 /\ CallsOf(store) = {}
    BY <2>1, PhaseFacts DEF NewThread, TurnNodes
  <2> QED
    BY <2>1, <2>2 DEF Human!Init, Human!Idle, Human!NoTurn
<1>2. IInv /\ AloneInv /\ AloneInv' /\ [Next]_vars => [Human!Next]_Human!supervised
  BY SupervisedStep
<1> QED
  BY AloneInvariant, <1>1, <1>2, PTL DEF Spec, HumanSupervises, Human!Spec

-----------------------------------------------------------------------------
(* Grants last, failures and retries included. *)

LEMMA InStepKept ==
  ASSUME SingleRequest
  PROVE  TypeOK /\ InStep /\ [Next]_vars => InStep'
<1> SUFFICES ASSUME TypeOK, InStep, [Next]_vars PROVE InStep'
  OBVIOUS
<1> USE DEF InStep
<1>1. \A q, r \in Requests : q = r
  BY DEF SingleRequest
<1>2. ASSUME NEW r \in Requests, \/ \E m \in Message : Arrive(r, m)
                                \/ Decide(r) \/ Start(r) \/ Resume(r)
      PROVE  InStep'
  BY <1>1, <1>2 DEF Arrive, Decide, Start, Resume, TypeOK
<1>3. ASSUME NEW r \in Requests, NEW node, NEW s, Commit(r, node, s)
      PROVE  InStep'
  BY <1>1, <1>3 DEF Commit, TypeOK
<1>4. ASSUME NEW r \in Requests, Leave(r)
      PROVE  InStep'
  BY <1>1, <1>4 DEF Leave, TypeOK
<1>5. CASE Restart
  BY <1>5 DEF Restart
<1>6. CASE UNCHANGED vars
  BY <1>6 DEF vars, handlers
<1>7. ASSUME NEW r \in Requests,
             \/ \E node \in Nodes : PassThrough(r, node) \/ ExecuteToolCalls(r, node)
             \/ CallLlmAnswers(r) \/ CallLlmProposes(r) \/ RetryEmptyAnswer(r)
             \/ PrepareSlashCommand(r) \/ RunSlashCommandDirect(r)
             \/ RequireApproval(r) \/ RejectTools(r)
      PROVE  InStep'
  <2>1. \E node, s : Commit(r, node, s)
    BY <1>7 DEF PassThrough, ExecuteToolCalls, CallLlmAnswers, CallLlmProposes,
                RetryEmptyAnswer, PrepareSlashCommand, RunSlashCommandDirect,
                RequireApproval, RejectTools
  <2> QED
    BY <1>3, <2>1
<1>8. ASSUME NEW r \in Requests, Interrupt(r) \/ Finish(r) \/ OutOfSteps(r) \/ NodeFails(r)
      PROVE  InStep'
  BY <1>4, <1>8 DEF Interrupt, Finish, OutOfSteps, NodeFails
<1> QED
  BY <1>2, <1>5, <1>6, <1>7, <1>8 DEF Next, Serve, ChatCompletions, Approve

(* What the nodes return has the grants they were given, or more.          *)
LEMMA NodesKeepGrants ==
  ASSUME NEW s \in Checkpoint, NEW node \in Nodes, NEW t \in Checkpoint,
         s.session_grants \subseteq t.session_grants
  PROVE  s.session_grants \subseteq Saved(t, node).session_grants
BY SavedLeaves

LEMMA GrantsKept ==
  ASSUME SingleRequest
  PROVE  TypeOK /\ InStep /\ [Next]_vars =>
           store.session_grants \subseteq store'.session_grants \/ Restart
<1> SUFFICES ASSUME TypeOK, InStep, [Next]_vars, ~Restart
             PROVE  store.session_grants \subseteq store'.session_grants
  OBVIOUS
<1>1. store \in Checkpoint
  BY DEF TypeOK
<1>2. ASSUME NEW r \in Requests, \/ \E m \in Message : Arrive(r, m)
                                \/ Resume(r) \/ Interrupt(r) \/ Finish(r)
                                \/ OutOfSteps(r) \/ NodeFails(r)
      PROVE  store' = store
  BY <1>2 DEF Arrive, Resume, Interrupt, Finish, OutOfSteps, NodeFails, Leave
<1>3. ASSUME NEW r \in Requests, Decide(r)
      PROVE  store'.session_grants = store.session_grants
  BY <1>1, <1>3 DEF Decide, Decided, Checkpoint
<1>4. ASSUME NEW r \in Requests, Start(r)
      PROVE  store'.session_grants = store.session_grants
  BY <1>1, <1>4 DEF Start, RunInput, Checkpoint
<1>5. ASSUME NEW r \in Requests,
             \/ \E node \in Nodes : PassThrough(r, node) \/ ExecuteToolCalls(r, node)
             \/ CallLlmAnswers(r) \/ CallLlmProposes(r) \/ RetryEmptyAnswer(r)
             \/ PrepareSlashCommand(r) \/ RunSlashCommandDirect(r)
             \/ RequireApproval(r) \/ RejectTools(r)
      PROVE  store.session_grants \subseteq store'.session_grants
  <2>1. run[r] = store
    BY <1>5 DEF InStep, Running, PassThrough, ExecuteToolCalls, CallLlmAnswers,
                CallLlmProposes, RetryEmptyAnswer, PrepareSlashCommand,
                RunSlashCommandDirect, RequireApproval, RejectTools
  <2> DEFINE Kin(t) == t \in Checkpoint /\ store.session_grants \subseteq t.session_grants
  <2>2. /\ \A kind \in {"answer", "empty"} : Kin(Answered(store, kind))
        /\ \A calls \in SUBSET Call, n \in Nat : Kin(Proposed(store, calls, n))
        /\ Kin(Retried(store)) /\ Kin(GrantRecorded(store)) /\ Kin(ToolsExecuted(store))
        /\ Kin(SlashExecuted(store)) /\ Kin(ToolsRejected(store)) /\ Kin(store)
    <3>1. /\ \A kind : Answered(store, kind).session_grants = store.session_grants
          /\ \A calls, n : Proposed(store, calls, n).session_grants = store.session_grants
          /\ Retried(store).session_grants = store.session_grants
          /\ ToolsExecuted(store).session_grants = store.session_grants
          /\ SlashExecuted(store).session_grants = store.session_grants
          /\ ToolsRejected(store).session_grants = store.session_grants
      BY <1>1 DEF Answered, Proposed, Retried, ToolsExecuted, SlashExecuted,
                  ToolsRejected, Checkpoint
    <3>2. store.session_grants \subseteq GrantRecorded(store).session_grants
      BY <1>1 DEF GrantRecorded, Checkpoint
    <3> QED
      BY <1>1, <3>1, <3>2, ReturnTypes
  <2>3. store.last.calls \in SUBSET Call /\ minted + 1 \in Nat
        /\ \A p \in Proposals : p \in SUBSET Call
    BY <1>1, AgentAssumption DEF TypeOK, Checkpoint, LastMessage
  <2>4. PICK node, t : node \in Nodes /\ Kin(t) /\ Commit(r, node, t)
    <3> HIDE DEF Kin
    <3>1. CASE \E node \in Nodes : PassThrough(r, node) \/ ExecuteToolCalls(r, node)
      BY <2>1, <2>2, <3>1 DEF PassThrough, ExecuteToolCalls
    <3>2. CASE CallLlmAnswers(r) \/ CallLlmProposes(r) \/ PrepareSlashCommand(r)
      BY <2>1, <2>2, <2>3, <3>2
      DEF CallLlmAnswers, CallLlmProposes, PrepareSlashCommand, Nodes
    <3>3. CASE \/ RetryEmptyAnswer(r) \/ RunSlashCommandDirect(r)
               \/ RequireApproval(r) \/ RejectTools(r)
      BY <2>1, <2>2, <3>3
      DEF RetryEmptyAnswer, RunSlashCommandDirect, RequireApproval, RejectTools,
          Nodes, ToolNodes
    <3> QED
      BY <1>5, <3>1, <3>2, <3>3
  <2> QED
    BY <1>1, <2>4, NodesKeepGrants DEF Commit
<1>6. CASE UNCHANGED vars
  BY <1>6 DEF vars
<1> QED
  BY <1>2, <1>3, <1>4, <1>5, <1>6 DEF Next, Serve, ChatCompletions, Approve

(* A session grant is lost by a restart only, whatever fails or is         *)
(* refused, as long as requests do not overlap.                            *)
THEOREM GrantsLast ==
  ASSUME SingleRequest
  PROVE  Spec => GrantsLastTheThread
<1>1. Init => InStep
  BY DEF Init, InStep
<1>2. TypeOK /\ InStep /\ [Next]_vars => InStep'
  BY InStepKept
<1>3. TypeOK /\ InStep /\ [Next]_vars =>
        [store.session_grants \subseteq store'.session_grants \/ Restart]_store
  BY GrantsKept
<1> QED
  BY TypeCorrect, <1>1, <1>2, <1>3, PTL DEF Spec, GrantsLastTheThread
=============================================================================

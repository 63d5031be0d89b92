# Verification of mjolnir-agent

TLA+ specifications of the parts of mjolnir-agent that decide what an agent may
do, on whose word, and in which browser; their model-checking configurations;
and machine-checked proofs about them. Paths are relative to the repository;
line numbers are those of the files at the commit that is modelled.
`PROJECT.json` maps each definition to the lines it translates.

## 1. The system

Open WebUI (or a test campaign) talks to **langgraph-agent**, which drives a
graph of nodes around an LLM and asks **mcp-client** to run tools, most of them
in a browser behind a playwright-mcp server.

| Part | State it keeps | Operations | Hard because |
|---|---|---|---|
| Approval policy (`langgraph-agent/app/approval_policy.py`) | static tier lists, argument rules; a thread's grants | `effective_tier`, `is_auto_approved` | rules move a call between tiers, grants relax one tier, two tools take no grant |
| Agent graph (`app/graph.py`) | `AgentState` per thread: messages, `approved`, `session_grants`, streaks, budgets | the nodes and conditional edges of `build_graph` | the approval pause is an exception and a second run; fields must be rearmed on every way out |
| HTTP handlers (`app/main.py`) | the thread in a `MemorySaver`; `_recent_threads` | `/v1/chat/completions`, `/approve` | read, decide and run are separate awaits without a lock; a reply is told from a task by the thread's state |
| Answers (`call_llm`, `_stream_response`, `_current_answer`) | two think flags in the thread | tags around the reasoning, retries of empty answers, notices | flags and streamed text must agree over loops, pauses, retries and new turns |
| Message bookkeeping (`_resolve_run`, `/approve`) | `owui_message_count` | what of a resent history is new | two client conventions, told apart by a count alone |
| Tool turn (`_execute_tool_calls`) | its copy of the thread; the page in the browser | one call after the other: plan, guardrail, references, mcp-client | saved only at the end; what was sent stays sent when it raises |
| History filters (`_apply_image_retention`, `_apply_episode_compaction`, `_apply_history_diff`) | none: functions of the messages and the plan | before each LLM call | indices into a list that grows, against a plan that changes |
| mcp-client sessions (`mcp-client/app/main.py`) | `_persistent_sessions`, `_persistent_locks`, `_tool_registry` | open, reuse, drop, reset, call and its follow-ups | every call suspends; drop and reset take no lock |
| Tools schema (`_get_tools_schema`, `/tools`) | a process-wide cache; mcp-client's registry | fill once, read | filled around an await, never invalidated, also with nothing |
| Audit log (`app/audit_log.py`) | one file per day, compressed archives | append, rotate, read back | a kill between compressing and unlinking, or inside a line |
| Campaigns (`tests_integration/test_web_tasks.py`, `campaign_persistence.py`, `scripts/run-campaign.sh`) | progress file, results file, pause sentinel; a pool of threads | launch, claim, run, record, pause, resume | crash between two files, parallel workers, a shared downloads folder, a script beside it |
| Campaign preamble (`campaign_preflight.py`) | what it has read so far | one check after the other | the deployment goes on living between two checks |
| context-manager, skill-manager, ocr-service, dashboard | none to speak of | one input, one output, or read-only | — |

How they interact. A request handler calls `aget_state`; if the graph has a node
left to run, the user's text is parsed as a decision and written with
`aupdate_state`, and the graph is resumed; otherwise a new run starts on
`run_input`. A run loads the latest checkpoint, works on its own copy and saves
the copy whole after each node. `call_llm` proposes calls; `has_tool_calls`
sends them to `auto_call_tools` or to `require_approval`, which raises
`NodeInterrupt` until a decision is recorded. Tool nodes call mcp-client over
HTTP; one such call is several calls to the browser server in a row, each of
which looks the worker's session up again. The client resends its whole history with
every request; the count in the thread says how much of it is new. What the model
streams reaches the client token by token, with tags that the flags in the thread carry
from one model call to the next. A campaign checks the deployment, then drives the
same endpoints from a pool of threads and records each run in two files.

What makes each part correct, in a sentence: a sensitive call runs only on a
human's word about that call or on a grant that may cover it; one approval
executes one turn; the unattended part of a run is bounded and ends on an answer;
a thread's grants outlive its tasks and failures; a worker has one browser, nobody
else's, and never a dead one; the agent opens only addresses it has seen; its
plan is followed in order; the model is still shown the turns it is working on; each
question enters the thread once; a human sees what is waited for and not the reasoning;
no audit entry is lost; a campaign measures each planned run once, on one configuration,
with the tools it says it has.
The hazards behind these, each at its line, are listed in `PROJECT.json`.

## 2. Modules

| Module | Models | Built on |
|---|---|---|
| `ApprovalPolicy` | tiers, rules, grants (pure operators) | |
| `Supervision` | abstract: what a thread promises to the human who supervises it | |
| `AgentThread` | one thread: handlers, checkpointer, every reachable node and edge, failures, restarts | `ApprovalPolicy`, `Supervision` (refines it) |
| `SessionPool` | abstract: what mcp-client promises of a worker's slot | |
| `McpSessions` | mcp-client's sessions, one step per suspension point | `SessionPool` (refines it) |
| `EpisodeCompaction` | which messages compaction replaces (pure operators) | |
| `ToolTurn` | the calls of each tool turn over the tasks of a conversation | `EpisodeCompaction` |
| `ThinkStream` | one answer: tags, flags, retries, notices | |
| `Conversation` | a client and a thread: histories, the count, answers in turn | `ThinkStream` (composes it) |
| `RunLedger` | abstract: what a campaign promises of its results | |
| `Campaign` | harness, workers, files, pause script | `RunLedger` (refines it) |
| `ToolsSchema` | mcp-client's registry and the agent's cache | |
| `Preamble` | the checks of a campaign against a living deployment | `ToolsSchema` (composes it) |
| `AuditLog` | append, rotation, kills, reading back | |
| `MCAgentThread`, `MCMcpSessions`, `MCToolTurn`, `MCConversation`, `MCCampaign`, `MCPreamble` | small instances for TLC (`AuditLog` needs none) | |
| `AgentThread_proofs`, `Supervision_proofs`, `McpSessions_proofs`, `ToolTurn_proofs`, `Conversation_proofs`, `Campaign_proofs`, `Preamble_proofs`, `AuditLog_proofs` | theorems | TLAPS |

Operators introduced by "Faulty variant" are not part of any specification: each
is what a definition would be with a plausible bug, and shows that the property
it is paired with in `PROJECT.json` would notice.

### AgentThread

- `store` is the checkpoint, `run[r]` the copy a graph run of request `r` works
  on, `seen[r]` the snapshot its handler read, `pc[r]` where that handler is.
  A checkpoint is the fields of `AgentState` the routing reads, the last message
  as its kind and calls, and the graph's position (`next`, `by`: the node that
  ran last).
- `ChatCompletions` and `Approve` are arrivals (`_resolve_run`, `/approve`, up to
  `aget_state`); `Decide` is `aupdate_state`, `Start` and `Resume` the two forms
  of `ainvoke`/`astream_events`; each node is one action that ends in `Commit`,
  which evaluates the node's edges and saves. `Interrupt` is the pause,
  `OutOfSteps` a `GraphRecursionError`, `NodeFails` a node that raises or is cut
  off by a client that leaves, `Restart` a process that loses its `MemorySaver`.
- langgraph itself is external and modelled from its use, for the pinned version
  0.2.34: `aupdate_state` without `as_node` applies the update as the node that
  ran last and evaluates that node's edges again; a node that raises stays next;
  `ainvoke(None)` runs it again; `ainvoke(input)` drops what was left to run; every
  node costs one step of `recursion_limit`, the entry included.
- History variables: `proposal` and `decidedOn` tie a decision to the turn the
  human was looking at; `solo`, `minted`, `executed`, `granted` count and collect.
  No guard reads them.
- `HumanSupervises` maps the thread to `Supervision`: the turn to be settled is the last
  proposal while the next node is one that settles it, and its phase is read off that node
  and `approved`; every other position of the graph is "idle". `Approve` and `Refuse` are then
  `Decide`, `Execute` and `TurnDown` the nodes, `Forget` the restart, `Discard` a proposal
  `has_tool_calls` ends the run on; arrivals, resumptions, pauses and the other nodes are
  stutters.
- Left out: texts and images; streaming and `owui_message_count` are `Conversation`'s. A request brings one
  new message of the user. `validate_plan` is a pass-through and
  `revise_plan`/`require_plan_approval` do not appear: `run_input` empties the
  plan and nothing fills it in front of `validate_plan`. The
  `aupdate_state({"think_opened": ...})` with which a stream ends re-evaluates the
  edges of the node that ran last on unchanged routing fields, so it does nothing
  to this state.

### McpSessions

- `cached`, `lock`, `registry` are the three module-level dictionaries; `open`,
  `dead` and `closing` are what the server side and the exit stacks hold. A
  session is the number of its opening.
- A request is a sequence of steps (`list` to refresh the registry, `tool`, `wait`,
  `snapshot`, `capture`); each looks up a session (`Reuse`, or `StartOpening` and
  `OpenSucceeds`/`OpenFails` under the worker's lock), then returns
  (`ActSucceeds`) or raises (`ActFails`, which pops the worker's session and
  waits for it to close).
- `ResetSession` is `/reset-session/browser`, `ServerRestarts` is external.
- Left out: the ephemeral sessions of the other servers (they share nothing), the
  shutdown hook, the JavaScript templates, the content of results.

### ToolTurn and EpisodeCompaction

- `thread` is what is saved, `work` the copy `_execute_tool_calls` works on, `todo`
  the calls it has not come to. `Propose` begins a turn, each call is one action,
  `SaveTurn` returns the result, `TurnFails` loses the copy and not what was sent;
  the graph then runs the same calls again (`Retry`) or a human refuses them
  (`Reject`). Which of the two is possible is `AgentThread`'s business: here both
  always are.
- An address is a value. What `_URL_RE` and `_clean_url` find of one in a text is `Found`: an
  address ends at the first space, quote or closing bracket, so `ReadAs` sends one that has a
  bracket of its own to what is left of it, and the scope of a task is what was found in its
  message. The result of a call shows any set of addresses, whole or cut. `page` numbers
  the pages the browser shows; `visual_ref_map` is the number of the page it was
  made from, 0 when empty. `manage_plan` is two calls, its argument the size of the
  plan or the position to complete; a plan of a legal size may still be refused
  (`validate_plan_heuristics` reads texts that are not modelled).
- `known`, `opened` and `openedBefore` are history: the addresses that results of the task
  showed or that were opened in it, those the running turn has opened, and those that saved
  turns have.
- `manage_plan` needs `PLANNING_MODE=merged`, `browser_click_ref` needs
  `VISUAL_NAVIGATION_ONLY`, compaction `EPISODE_COMPACTION_ENABLED`; the model has
  all three on. The guardrail is on by default.
- Left out: the audit entries, images (so a message count is that of assistant and
  tool messages and of the user's), truncation of results, feedback texts, final
  answers.
- `EpisodeCompaction` translates `_apply_episode_compaction` as the set of message
  indices it replaces; `ToolTurn` applies it to the plans and boundaries it
  reaches, not to invented ones.

### ThinkStream and Conversation

- A text is a sequence of pieces (`<think>`, `</think>`, reasoning, text, one per
  notice); `sent` is what the client received of the current answer, `last` the
  thread's last message, `flags` are `think_opened` and `think_closed`.
- One call of the model is `AskLlm`, which takes the thread's flags along, a `HearDelta` for
  each delta (`_convert_delta_with_reasoning`, and what of it goes to the stream) and
  `LlmAnswers`, the end of `call_llm` with the closing tag it adds itself, or `FailLlm`;
  `heard` is `_think_state` and the chunks merged so far.
  `HasToolCalls`, `RetryEmptyAnswer` and `RunSlashCommandDirect` are the nodes that
  matter to a text; `EndStream` and `EndPlain` what is added at the end of a stream or
  returned at once. `Shown` is what `_THINK_BLOCK_RE` leaves.
- The requests are `Conversation`'s: `Chat` (a new turn, or a reply to a pause or to an
  error) and `Approve`. Clients keep one of two conventions: Open WebUI appends each
  answer, its button edits the approval message in place; a program
  (`probe_compaction_multi_turn._run_turn`) loops on `/approve` and appends the last
  answer only.
- `disturbed` records what the tags do not survive: an answer that was not streamed
  (its flags close or open nothing the next stream contains), a connection cut, a tag
  closed before a tool call, a model that goes on reasoning after its tag was closed.
  `ReasoningStaysFolded` excludes them; `NoticesAreSeen` excludes the tag closed before a
  tool call, and says of the error notice, which is sent without a closing prefix, that it is
  seen where no prefix would have closed a tag.
- Left out: wording, chunk sizes, images, a slash command that asks for approval
  (`AgentThread` has it), users who edit or regenerate an earlier message.

### Campaign and RunLedger

- The files (`progress`, `results`, `recorded`, `sentinel`), the harness process
  (`pc`, `mem`, `previous`, `rows`, `queue`), the threads (`wpc`, `wrun`,
  `downloadLock`) and what is around them (`downloads`, `config`, `services`, `script`).
  A file is written to a temporary name and renamed, hence in one step.
- `Launch`, `ResumePreflight`, `ResumeRefused`, `ResumeOpen`, `FinalWrite`,
  `ConsumeSentinel`, `ReportPaused`, `Finish` are `_run_campaign` in order; `Claim` to
  `CompleteRun` are a worker of `_run_planned_tasks`, where `AppendRow` and `CompleteRun`
  are the two writes one `state_lock` covers and a crash separates. `WorkerDies` is an
  exception that ends a thread.
- Around it: `Crash`, the operator's `PauseRequest` and the three steps of `--release`,
  `Reconfigure` between segments, `Download` and `LateDownload` (a run the harness gave up
  on continues inside the agent).
- A configuration gives each setting (commit, image, flag) a value, `Unread` for a flag that is
  not set. Each `git` or `docker` command may fail, at the launch and at each resume, and then
  its settings are unread (`CollectMetadata`). `ConfigDrift` compares what
  `config_drift_diff` compares: the commit and every image, and those flags that were found at the launch.
- `measured`, `abandoned` and `confirmed` (the segment the script last saw paused) are history. `LedgerSpec` maps the results file to
  `RunLedger`'s ledger.
- Left out: reports, ETA, statistics, the staleness warning, a disk that fails between
  the two writes of one worker, a second harness process.

### ToolsSchema and Preamble

- `AskSchema`, `SchemaAnswered`, `SchemaFails` are the two halves of `_get_tools_schema`
  around its await, for several callers; `Refreshed` is mcp-client's registry, which
  keeps what a silent server declared before and always has the tools that mcp-client adds itself
  (`Synthetic`: `browser_extract`, `browser_inspect`, `type_text`).
- `Preamble` makes the checks of `run_preflight` in order, each an action that passes or
  raises. What a check compares is abstracted to whether its condition holds (`broken`
  names the one that does not); the two containers' visual modes and the tools are modelled.
- Meanwhile servers come and go, other callers ask, containers restart, conditions
  break. `disturbed` is set by the last two; `contended` when somebody else was
  filling the cache while the preamble read it.

### AuditLog

- `live` and `archives` are each day's files; a line is an entry, or the beginning of one
  that was torn, perhaps inside a character (`cut`). An archive that is being written is empty
  or truncated. `ReadFails` is what `read_entries` raises on: a truncated archive, or a cut
  character, which fails the decoding of the file and not the parsing of a line. `_append_entry` is `Rotate`, `FinishCopy`, `Unlink`, `AppendLine`, with
  `Kill` possible before each. Readers never see a step half-way (synchronous code in
  one event loop), so they are operators over the state.
- The size limit counts lines. Left out: the filter by thread, the order of entries.

## 3. What is checked

| Run | Shows |
|---|---|
| `thread_sequential` | one request at a time, no failing node: every decision, approving or refusing, is about the turn the human saw; a turn is executed at most once; the thread behaves as `Supervision`, so that what runs unasked is not sensitive or was granted; replies are decisions only at a pause; the recursion limit is never met |
| `thread_faults` | one request at a time, any node that does I/O may raise, retries beyond what the recursion limit allows for, restarts: grants outlive everything but a restart, every request is answered |
| `thread_concurrent` | two requests race on a thread: the bound on unattended turns and the pause before an ungranted or ungrantable sensitive call survive |
| `thread_stale_decision` | *violation*, finding 1 |
| `mcp_sessions` | two requests, two workers, resets and a server restart: no session is leaked, shared between workers, kept when dead or opened twice; a healthy session is closed only after a failure of its own worker; follow-ups see the tool's page unless it was dropped; slots behave as `SessionPool`; every request ends |
| `tool_turn` | three turns over two tasks: plans stay in order; once a saved turn has opened an address, no fabricated one is opened to the end of the task; compaction replaces exactly what follows the plan, once its first subtask is done |
| `tool_turn_refs` | *violation*, finding 2 |
| `conversation` | both client conventions, streamed and plain answers, loops, pauses, retries, cuts: each question enters the thread once, the count covers the history, reasoning is folded, notices are not, except for an error notice sent into an open fold |
| `conversation_silent` | *violation*, finding 3 |
| `campaign` | pause, resume, crash, dead worker, changing configuration, the release script: no run recorded twice, a paused campaign's files agree, a finished one is complete, the shared folder is exclusive, every setting recorded at launch is the one measured, the script never stops the services under the segment it paused, results implement `RunLedger`, the pool ends |
| `preamble` | a campaign that starts on a deployment where nothing was restarted or broken meanwhile has every condition that was checked and, if nobody else was filling the cache when the preamble read it, the tools that were compared |
| `audit_log` | no logged entry is lost, reading back is exact without a kill, a kill costs at most one entry or one copy as long as reading goes through: a kill may also leave a truncated archive or a cut character, on which every read fails |

Bounds. `AgentThread`: two tool iterations and a streak of one are the least for
which both limits bite separately; four requests are a task, an approval, a second
task and its approval; the proposals have one call per tier, a mixed turn and two
calls that rules move between tiers, one of them matched by two rules. The faulty
run lowers the budget to one and raises the retries to five so that
`GraphRecursionError` really happens. Two requests at once with three arrivals
cover a decision racing a decision and a task. `McpSessions`: two workers because
isolation needs two, two requests because every race in it is between two; two
sessions, one reset per worker and one outage give each a race with an opening, a use and a
close. With `MaxSessions` reached an opening can only fail, which the code allows
anyway. `ToolTurn`: two addresses, one of which a text cuts to the other, so that any of them may be
known or not, two tasks (state carried over), three turns of at most two calls, plans of two and three subtasks, a
compaction threshold of four messages. `Conversation`: six messages of history are three
questions; two tool iterations and one retry make a loop that reasons, one that stops at
the limit and an answer that stays empty after its retry; a call may bring
any deltas in any order as long as its text has fewer than four pieces, which is a fold, its
answer and reasoning that comes too late. `Campaign`:
three runs on two workers, so that one waits for another, two of them serialized; two
segments are a pause and a resume; three configurations are a drift of the image and one of the
flag. The image is always read and the reading of the flags may fail: what a failing command does
to the flags is the harder case, since it leaves nothing to compare, and `OneConfig` is proved for
commands that fail in any combination. `Preamble`: two servers, a
tool hidden in each mode, one other caller; it has no bound and its states are finite.
`AuditLog`: archives of two lines, so that eight entries rotate more than once a day over three
days; three kills reach a rotation killed again at the next attempt.

Deadlock is checked for `AgentThread` (`Restart` is always possible) and `Preamble`. It
is off for `McpSessions`, `ToolTurn`, `Campaign`, `Conversation` and `AuditLog`, which stop when
their bounded arrivals, turns, segments, messages or entries run out; that nothing stops
half-way is `EveryCallEnds` and `PoolEnds`. `thread_concurrent` uses the symmetry of requests; runs with a liveness property use none. `campaign` starts with
the old image and the flag set; a flag that is not found at launch is reached by the reading that fails.

Fairness. `AgentThread`: weak fairness of what the service does for an accepted
request. The handlers are coroutines of one event loop; the nodes' HTTP clients have
timeouts of 10 to 60 seconds, and the LLM's answers are capped by `LLM_MAX_TOKENS` and by
the timeout of its client library, so a node returns or raises. Nothing is assumed of
users, failures or restarts. `McpSessions`: weak fairness of each request's next step
and of closing a session's stack. mcp-client itself sets no timeout on a call: that
the transport of the MCP library ends every call with a result or an exception is an
assumption about it. Waiters of an `asyncio.Lock` are woken; weak fairness suffices
because arrivals are bounded, so that no one can overtake for ever. `Campaign`: weak
fairness of each worker's next step and of the harness's steps after the pool is
joined; `run_task` returns because its HTTP calls have timeouts. A worker waiting for
`download_lock` cannot be overtaken for ever, the queue being finite. Nothing is assumed of the operator, the
script, crashes or downloads.

What the sequential run shows does not hold under concurrency: two decisions may
both resume one pause (section 5), the same turn may then be executed twice, and of
two runs that record grants the last writer wins. `PausesUnlessGranted` and
`UnsupervisedTurnsBounded` are what remains, which is why these are proved.

## 4. What is proved

All theorems hold for every value of the constants that satisfies the `ASSUME` of
the module (typing of the constants; nothing about sizes).

**AgentThread** (`AgentThread_proofs`). The inductive invariant is `TypeOK` and, for
the thread and for every run, that the checkpoint is *routed* (its `next` is what
the edges give after `by`) and *budgeted* (retries and tool iterations within their
budgets, the latter strictly wherever a turn may still be spent), and for every run that it is *paid* (the steps
taken are at most what the turns and retries so far account for, by the depth of the
node it has reached) and *supervised* (the turns executed since its
request arrived are counted by the streak, and are none where a decision is about to
be used). Routing is needed because a run resumes from whatever
the last writer left; payment because a step count only makes sense against the
counters in the state.
- `TypeCorrect`: `Spec => []TypeOK`.
- `NoRecursionError`: if `2 * MaxEmptyAnswerRetries <= MaxToolIterations + 2`, no run meets
  `recursion_limit`. The default values (1 and 20) satisfy it; `thread_faults`
  shows the limit being met when they do not fit.
- `TurnsAreSupervised`: at most `AUTO_APPROVAL_STREAK_LIMIT` tool turns per human message.
- `SensitiveCallsPause`: a sensitive call runs without a pause only if its tool is
  among the run's grants and grantable. It needs routing only: the edge that leads
  to an automatic node was evaluated on the very state the node runs on.
- `RequestsAreFinite`: whatever the service does for a request takes one off what is
  `Ahead` of it, which is `RecursionLimit + 3` at most, and nothing else, another request,
  a failure or a restart, adds to it. This is why every request ends, retries that
  do not fit included.
- `GrantsOnlyRelax`: of the policy, for any tables and rules: more grants never raise a
  tier nor make a call wait, and change nothing but sensitive calls to grantable tools.

**A human alone on the thread** (`Supervision_proofs`). What concurrency or a failing
node breaks is proved from two assumptions on the constants, `SingleRequest` and
`NothingFails`, and from `RetriesFit`, which rules out `GraphRecursionError`, itself a failure
in the middle of a turn. The invariant (`AloneInv`): a run works on what is stored
(`InStep`); between two requests nothing is left to run but an undecided pause (`Quiet`); a
decision stands only from the pause to the end of the turn it was taken on
(`OnThisTurn`); a turn still to be decided or run has a number nobody executed
(`NotYetRun`, `Numbered`); grants come from humans with a call of the tool in front of them. That writing a decision evaluates the edges again and comes back to
the same pause is the step that needs routing, from `AgentThread_proofs`.
- `DecisionsAreInformed`, `DecisionsOnlyAtAPause`, `OneTurnOneExecution`,
  `OnlyAllowedCallsRunAlone`.
- `ThreadImplementsSupervision`: `Spec => HumanSupervises`. Each step is matched where the
  invariant says what the run's copy can be: a run works on what is stored, so a node
  settles the turn the supervisor sees (`NodeSeen`); a new proposal has a number not yet
  used (`ProposalSeen`); a decision meets the pause it was taken at and comes back to it
  (`DecisionSeen`); a new task, a failed retry or an answer starts and ends with nothing
  to settle (`NothingSeen`).
- `GrantsLast`: under `SingleRequest` alone, failures included.

These hold for any policy, model, budgets and length of conversation; restarts are
allowed. That the assumptions are needed is finding 1 (a failing node) and
the remark on concurrency in section 3.

**McpSessions** (`McpSessions_proofs`). The invariant adds to `TypeOK`: whoever is
opening holds its worker's lock and the slot is empty (`Opening`), a cached session was
opened for the worker that has it and has not failed (`Owned`), a request acts on a session of the worker
it names (`Acting`), failures concern opened sessions only, and `NoSessionLeaks`.
For `DropsAreLocal` and `FollowUpsStay` it adds the *ages*: sessions are numbered in the order
of their opening, a request acts on a session no younger than its worker's, and a follow-up
on one no older than the tool's.
- `TypeCorrect`, `NothingLeaks`, `Isolation`, `NoDeadSessionIsKept`, `OneOpener`,
  `DropsAreLocal`, `FollowUpsStay`: the safety properties of the run.
- `Refinement`: `Spec => Pool!PoolSpec` with `slot <- cached` and `used <- 1..opened`.
- `NobodyWaitsForEver`, `RequestsAdvance`: what `EveryCallEnds` rests on, for any number of
  requests. A lock is held by somebody who is opening (`HeldByOpeners`), so a request
  that waits waits for one that can step, or for a stack being closed; and a request only
  ever gets nearer to its end (`Rank`: the steps it has left, then its place within one), whatever
  other requests, resets and restarts do.

**ToolTurn** (`ToolTurn_proofs`). A copy of the thread is *sound* when it is well typed,
its plan is in order, it has observed nothing beyond the scope and what is known,
and a plan that is not empty has one first message. The invariant is that `thread` and
`work` are both sound, for the same scope: then beginning, saving, losing or
retrying a turn at any call keeps it, and each call need only keep `work` sound
(`DoneKeeps`).
What saved turns have opened is observed in the thread, so that the exemption of the first hop
is over for the rest of the task. Compaction is computed from the one boundary and the order of
the plan: if any subtask is done the first is, and its range has no end but the list's.
- `TypeCorrect`, `PlansStayInOrder`, `NoFabricatedUrl`, `CompactionIsExact`.

**Campaign** (`Campaign_proofs`). Three invariants on top of types (`TypeInv`, which
also says that no worker is in flight without a harness). The *books* (`BooksInv`): the two
files and the state in memory agree up to the rows appended and not yet completed, a
claimed run belongs to one worker and is queued and recorded nowhere, every planned
run is recorded, queued or claimed. They make a resume trustworthy: it is refused
unless `paused` is set, `paused` is only written once all workers are joined, and
then nothing is in between. The *folder* (`FolderInv`): who purges or runs a serialized
task holds the download lock, and only its file has arrived since. The *configuration*
(`ConfigInv`): what was read when a resume was checked is still what runs. For the script
(`Confirmed`): from its confirmation on the campaign is paused or in a later segment.
- `Typed`, `RecordedOnce`, `PausedConsistent`, `FinishedComplete`, `FolderExclusive`, `OneConfig`,
  `ReleaseSparesPaused`, and `ImplementsLedger`: `Spec => Ledger!Spec`, where the final
  rewrite of the results is a stutter because `previous \o rows` is what is there.
- `PoolNeverStuck`, `PoolAdvances`: what `PoolEnds` rests on, for any number of workers. Whoever
  holds the download lock is purging or running (`HolderAtWork`), the state lock is held
  between two writes only, and a queue that is not empty has a first run in the order of
  the plan (`FirstExists`, by the least-number principle, `Least`), so every worker can
  step or waits for one that can; a worker only moves towards its next claim, and a claim
  takes from the queue what nobody puts back.

**Conversation** (`Conversation_proofs`). Two invariants. For the questions: while a request
is served the count is one ahead of the history, except for an edit in place; a client
keeps its convention; so between requests the count equals what the client will send before
its next message. For the answers (`SInv`): until a tag is closed before a tool call, no
call starts with a closed tag (`Unclosed`), and a closing tag that was streamed
belongs to the call that ends the answer (`ClosedInSent`), which is how a notice knows
whether it has to close the fold first; notices come last (`NoticesLast`). As long as nothing
disturbed the stream, a fold that is open in the flags is open in what was sent, nothing
of the reasoning is outside a fold, and a closing tag was followed by text (`FlagsTrue`). It
needs no induction over texts: `Inside` and `Shown` quantify over positions, and the
lemmas say what one more piece, or one text behind another, does to them.
- `QuestionsOnce`, `CountRight`: for any model, any budgets and any length of history.
- `Typed`, `StaysFolded`, `NoticesSeen`: for any deltas in any number, too.

**AuditLog** (`AuditLog_proofs`). While the copy is made the last archive holds no line; from its end until
the unlinking it is whole and holds what the file holds, so that unlinking loses nothing; every
other step only adds lines, or writes an archive nobody relies on. For reading back, each kill
pays for one torn line that swallowed its entry, or for one more copy of a file (`CostInv`); the copy of a
file about to be unlinked costs nothing yet. The entry being written is in no file
(`FreshInv`), so that without a kill each entry is read once; and without a kill nothing is cut or
truncated (`WholeInv`), so that reading goes through.
- `AuditTyped`, `LosesNothing`, `ReadsBackExactly`, `KillsAreCheap`.

**Preamble** (`Preamble_proofs`). What a check has seen stays true while nothing is disturbed; after
the preamble has read the cache with nobody else filling it, nobody fills it again.
- `PreambleTyped`, `ToolsAreThere`, `DeploymentIsSound`.

Only model-checked: liveness (`EveryRequestAnswered`, `EveryCallEnds`, `PoolEnds`). That a fair
step is taken, and that a measure that falls reaches its end, is temporal reasoning and
induction the prover does not reach; that the measure falls, and that nobody waits for
somebody who waits, is proved (`RequestsAreFinite`, `RequestsAdvance`, `NobodyWaitsForEver`,
`PoolAdvances`, `PoolNeverStuck`). In `AgentThread` nobody waits for another request at all: that
some step is possible is its type invariant. Every safety property of a
passing run is a theorem. `AutoRunsOnlyWhatIsAllowed` is proved and left to no run: `HumanSupervises`,
which a run checks, says it of the turn as well as of the call.

## 5. Findings

1. **A reply is taken for an approval nobody asked for** (`app/main.py:309`). A thread left
   with *any* node to run is taken for one paused for approval. After `call_llm` raised,
   the user's next message is parsed as a decision and kept; the graph resumes, the
   model proposes, and a recorded "approuver" lets through a call nobody has seen,
   `browser_evaluate` included.
2. **References survive a page without any** (`app/graph.py:2687`): the map is replaced only by a
   non-empty one.
3. **An empty answer passes for a visible one** (`app/graph.py:867`). When an automatic loop
   reasoned before, the flags carry the opening tag over, and a last call that says
   nothing leaves a message of one closing tag. `has_visible_answer` looks for blocks
   that begin with an opening tag in this message alone: there is no retry and no notice,
   and the user is shown nothing.

Seen while modelling and not a run of the project, because the cause is shared with a
finding, the repository states nothing to the contrary, or the model says how far it goes
instead:

- Approval. `/approve` accepts a second click while the run of the first one executes
  (`main.py:705`), although `docs/architecture/tool-supervision.md:191-192` has it refused; it shares its cause
  with finding 1. A tool node that raises and is resumed sends its calls again;
  `browser_navigate` without `url` raises on every resumption. A question asked after an
  error is taken for a decision and lost.
- Sessions. A late failure drops the worker's newer, healthy session
  (`mcp-client/app/main.py:633`); a follow-up after a drop or reset sees a blank page (`:920`).
- Tool turn, addresses. `has_prior_navigation` is read from the saved state (`graph.py:2537`),
  so the first-hop exemption covers every navigation of the first turn that opens an address,
  and of the turns that raise before it, where the comment at `graph.py:2526-2531` exempts "the task's very FIRST navigation" and
  `test_url_fabrication_guardrail.py:14-23` has the guardrail active "from the SECOND navigation
  onward": two navigations proposed in one first turn are both let through
  (`GuardedOnceOpened` therefore starts with the saved turn). From the second task on, the scope is
  still the first message's (`graph.py:297`), and an address with a bracket or quote in it is
  found cut (`graph.py:257`): in both cases an address the user typed may be refused.
- Tool turn, compaction. `manage_plan` records one boundary per plan, so after a first completion
  the range reaches to the end of the list (`graph.py:1767`), the active subtask's turns and calls without
  their results included; the docstrings (`graph.py:1743-1762`) and
  `test_episode_compaction.py:93-111`, whose state has two boundaries, say that they are left
  untouched. `CompactedSinceThePlan` states what the code replaces.
- Answers. The error notice of a stream ("a visible notice is returned", `main.py:525`) is sent without
  the closing prefix the other notices get (`main.py:530-535`): after an exception in the middle of
  the reasoning it is inside the fold. A pause met by a plain request leaves the flags open for the next stream; a
  tool call recovered from prose closes the tag in the thread and not in the stream. A first
  attempt that only reasons and a retry that answers without reasoning stream
  `<think>`, the reasoning and the answer into one open fold: the answer is not
  seen, and the one `_render_visible_answer` appends (`main.py:480-497`) is swallowed with it. A user who
  regenerates an answer sends a history of the same length: nothing of it is submitted.
- Schema. Two first callers both fetch, and the one that fails last empties the cache
  (`graph.py:1287-1307`); it is then empty until a restart.
- Audit log. A truncated archive, left by a kill during the compression, and a line cut inside a
  character, left by a kill during the write, make `read_entries` raise for every entry of every
  thread (`audit_log.py:168-171`: both are met outside its `try`), where its docstring
  (`audit_log.py:159-161`) says that "the log stays browsable even if a writer was interrupted
  mid-line". `KillsCostLittle` is about the kills that leave neither.
- Campaigns. A crashed campaign says `paused=false` and cannot be resumed; a dead worker's run stays in
  `active` for ever; a sentinel touched after the last boundary trips the next
  segment. The drift check compares the flags found at launch (`campaign_persistence.py:493`): one that was
  absent or unread then and is set at the resume is no drift, although the digest its docstring
  refers to would differ and "a resume whose second half measured a different agent is void"
  (`:481-485`). Between the script's confirmation of a pause and its
  `docker compose stop` a resume may start runs, which then lose their services; `run-campaign.sh:36-39`
  says that this never happens while a run is in flight. A run given up on may download
  into another's folder (`test_web_tasks.py:1065`).

## 6. Not modelled

Text (parsing of replies beyond its outcome, prompts, wording of notices, extraction of calls from
prose), the LLM's choices (any proposal of the instance, any time), the browser's
contents, HTTP details, the read-only endpoints (`/pending`, `/context`, `/audit` beyond what
it reads, `/threads/recent`), context-manager, skill-manager, ocr-service and dashboard (no state
that another part depends on), image retention and the history diff (pure functions of
texts and images), the plan pipeline behind `validate_plan` (nothing fills the plan in
front of it at this commit), reports and statistics of campaigns, two harness processes on one campaign
(the code has no lock against it and the model has one), the probes and one-off scripts.
`PROJECT.json` gives the reason for each component.

## 7. What is left

1. `HistoryFilters`: image retention and the history diff as operators over a sequence of
   messages, checked against reference definitions over all short histories; then
   composed with `EpisodeCompaction` in the order `call_llm` applies them.
2. Composition: `ToolTurn` as the inside of `AgentThread`'s `ExecuteToolCalls`
   for one thread, sending its calls to `McpSessions` for one worker; their product is
   beyond TLC, so it would be a pair of refinements.

---------------------------- MODULE Conversation ----------------------------
(***************************************************************************)
(* A conversation between a client and one thread: the client resends its  *)
(* whole history with every request, and the agent works out from the      *)
(* number of messages alone which of them the thread has not seen          *)
(* (main.py: _resolve_run, /approve).  Open WebUI replies in the chat or   *)
(* with a button that edits the approval message in place; a program       *)
(* appends the answer once it is final.                                    *)
(***************************************************************************)
EXTENDS ThinkStream

CONSTANTS
  MaxMessages   \* bound on the client's history

ASSUME ConversationAssumption == MaxMessages \in Nat

VARIABLES
  client,      \* "owui" or "program"
  serving,     \* what the client does with the answer: "append", "edit", "loop"
  history,     \* roles of the client's messages; a message is its position
  stored,      \* owui_message_count
  thread,      \* the positions of the client's messages in the thread
  asked        \* the questions sent while nothing was pending (history)

clientVars == <<client, serving, history, stored, thread, asked>>
vars == <<streamVars, clientVars>>

Role == {"user", "assistant"}

TypeOK ==
  /\ StreamTypeOK
  /\ client \in {"owui", "program"}
  /\ serving \in {"append", "edit", "loop"}
  /\ history \in Seq(Role)
  /\ stored \in Nat
  /\ thread \in Seq(Nat) /\ asked \in Seq(Nat)

Init ==
  /\ StreamInit
  /\ client \in {"owui", "program"} /\ serving = "append"
  /\ history = <<>> /\ stored = 0 /\ thread = <<>> /\ asked = <<>>

----------------------------------------------------------------------------
(* Requests *)

\* The messages of a history that lie beyond those already seen.
Beyond(seen, size) == [i \in 1..(IF size > seen THEN size - seen ELSE 0) |-> seen + i]

\* Faulty variant: whatever is resumed counts as a tool turn.
ResumeCountsAlways ==
  /\ node' = "call_llm" /\ waiting' = "no"
  /\ iterations' = iterations + 1
  /\ UNCHANGED <<flags, heard, last, retries>>

\* A pause is resumed; an approved turn runs its tools first and counts them.
Resume ==
  /\ node' = "call_llm" /\ waiting' = "no"
  /\ \/ iterations' = iterations
     \/ waiting = "pause" /\ iterations' = iterations + 1
  /\ UNCHANGED <<flags, heard, last, retries>>

\* Faulty variant: the flags of the turn before are kept.
NewTurnKeepsFlags(size) ==
  /\ waiting = "no"
  /\ thread' = thread \o Beyond(stored, size)
  /\ asked' = Append(asked, size)
  /\ node' \in {"call_llm", "run_slash_command_direct"}
  /\ iterations' = 0 /\ retries' = 0 /\ disturbed' = {}
  /\ UNCHANGED <<waiting, heard, last, flags>>

\* _resolve_run with nothing pending: a new turn on the messages not seen.
NewTurn(size) ==
  /\ waiting = "no"
  /\ thread' = thread \o Beyond(stored, size)
  /\ asked' = Append(asked, size)
  /\ node' \in {"call_llm", "run_slash_command_direct"}
  /\ flags' = Fresh /\ iterations' = 0 /\ retries' = 0 /\ disturbed' = {}
  /\ UNCHANGED <<waiting, heard, last>>

\* _resolve_run with something pending: the message is read as a decision.
Reply ==
  /\ waiting # "no"
  /\ Resume
  /\ UNCHANGED <<thread, asked, disturbed>>

\* POST /v1/chat/completions.  A program loops on /approve instead of replying.
Chat ==
  /\ node = "idle" /\ Len(history) + 2 <= MaxMessages
  /\ client = "program" => waiting # "pause"
  /\ history' = Append(history, "user")
  /\ stored' = Len(history') + 1
  /\ NewTurn(Len(history')) \/ Reply
  /\ streaming' \in IF client = "owui" THEN BOOLEAN ELSE {FALSE}
  /\ serving' = IF client = "owui" THEN "append" ELSE "loop"
  /\ sent' = <<>>
  /\ UNCHANGED client

\* Faulty variant: every client is taken for one that edits in place.
ApproveInPlace ==
  /\ node = "idle" /\ waiting # "no"
  /\ client = "program" => waiting = "pause"
  /\ Resume
  /\ stored' = Len(history)
  /\ serving' = IF client = "owui" THEN "edit" ELSE "loop"
  /\ streaming' = FALSE /\ sent' = <<>>
  /\ UNCHANGED <<client, history, thread, asked, disturbed>>

\* Faulty variant: every client is taken for one that appends.
ApproveAppends ==
  /\ node = "idle" /\ waiting # "no"
  /\ client = "program" => waiting = "pause"
  /\ Resume
  /\ stored' = Len(history) + 1
  /\ serving' = IF client = "owui" THEN "edit" ELSE "loop"
  /\ streaming' = FALSE /\ sent' = <<>>
  /\ UNCHANGED <<client, history, thread, asked, disturbed>>

\* The client's convention is told from the count of messages it sends.
Approve ==
  /\ node = "idle" /\ waiting # "no"
  /\ client = "program" => waiting = "pause"
  /\ Resume
  /\ stored' = IF Len(history) = stored - 1 THEN Len(history) + 1 ELSE Len(history)
  /\ serving' = IF client = "owui" THEN "edit" ELSE "loop"
  /\ streaming' = FALSE /\ sent' = <<>>
  /\ UNCHANGED <<client, history, thread, asked, disturbed>>

\* A program appends nothing while it loops on approvals.
Received(outcome) ==
  /\ history' = IF serving = "append" \/ (serving = "loop" /\ outcome # "pause")
                THEN Append(history, "assistant") ELSE history
  /\ UNCHANGED <<client, serving, stored, thread, asked>>

Answered == (EndStream \/ EndPlain) /\ Received(waiting)

Failed == FailLlm /\ Received("cut")

Next ==
  \/ Chat
  \/ Approve
  \/ Work /\ UNCHANGED clientVars
  \/ Answered
  \/ Failed

Spec == Init /\ [][Next]_vars

----------------------------------------------------------------------------
(* Properties *)

\* The thread holds the questions asked while nothing was pending, each once
\* and in order: the count of messages never makes an answer, a reply or an
\* earlier question come back as new, nor hides a new one, whichever client
\* convention, in-place edits, repeated pauses and errors it went through.
ThreadIsWhatWasAsked == thread = asked

\* Between requests the count covers exactly the history the client will
\* extend, the answer a looping program has yet to append included.
CountCoversHistory ==
  node = "idle" /\ history # <<>> =>
    stored = Len(history) + IF client = "program" /\ waiting = "pause" THEN 1 ELSE 0

\* In a stream the reasoning stays folded and no closing tag is left over,
\* across the calls of an automatic loop, pauses, refusals, retries and new
\* turns, as long as every answer of the turn was streamed, none was cut, no
\* tag was closed before a tool call and no reasoning came after the tag.
ReasoningStaysFolded ==
  streaming /\ disturbed = {} => Shown(sent) \cap {"reasoning", "</think>"} = {}

\* Whatever notice ends a stream, the human sees it: the approval request,
\* the limit and the empty answer always, as long as no tag was closed before
\* a tool call.  The error notice is the exception the code makes: the handler
\* that sends it ("a visible notice is returned", main.py) computes no
\* closing_prefix, so it is seen unless the text sent before it had a tag that
\* a prefix would have closed; inside that open fold it is hidden.
NoticesAreSeen ==
  /\ streaming /\ node = "idle" /\ "early" \notin disturbed
  /\ sent # <<>> /\ Last(sent) \in Notices
  => \/ Last(sent) \in Shown(sent)
     \/ Last(sent) = "error" /\ ClosingPrefix(Front(sent)) # <<>>

\* An answer that ends a stream without error shows the client something
\* other than reasoning (has_visible_answer and the empty-answer notice).
AnswersAreSeen ==
  streaming /\ node = "idle" /\ waiting # "cut" /\ sent # <<>> =>
    Shown(sent) \ {"</think>"} # {}

=============================================================================

---------------------------- MODULE ThinkStream ----------------------------
(***************************************************************************)
(* One answer of the agent as it leaves the service: the <think> tags that *)
(* call_llm adds around the reasoning, the flags that carry them from one  *)
(* model call to the next and from one answer to the next, the text sent   *)
(* to the client token by token, and what is added to it at the end        *)
(* (graph.py: _convert_delta_with_reasoning, call_llm, has_tool_calls,     *)
(* retry_empty_answer; main.py: _stream_response, _current_answer).        *)
(*                                                                         *)
(* A text is a sequence of pieces; a run of pieces of one kind is one.     *)
(***************************************************************************)
EXTENDS Naturals, FiniteSets, SequencesExt

CONSTANTS
  MaxPieces,              \* bound: pieces of one answer of the model
  MaxToolIterations,
  MaxEmptyAnswerRetries

ASSUME StreamAssumption ==
  MaxPieces \in Nat /\ MaxToolIterations \in Nat /\ MaxEmptyAnswerRetries \in Nat

\* What a delta of the model's answer may carry, and how the answer's tool
\* calls are routed.
Delta   == {d \in [reasoning : BOOLEAN, text : BOOLEAN] : d.reasoning \/ d.text}
Routing == {"none", "auto", "ask"}

Notices == {"pending", "limit", "empty", "error"}
Pieces  == {"<think>", "</think>", "reasoning", "text"} \cup Notices
Flags   == [opened : BOOLEAN, closed : BOOLEAN]
Fresh   == [opened |-> FALSE, closed |-> FALSE]
Silence == [opened |-> FALSE, closed |-> FALSE, text |-> <<>>]

VARIABLES
  node,        \* the node about to run; "report" ends the answer
  waiting,     \* snapshot.next: "no", "pause" at an approval, "cut" by an error
  flags,       \* AgentState think_opened and think_closed
  heard,       \* the call that runs: _think_state and the merged chunks
  last,        \* content and tool calls of the thread's last message
  iterations,  \* tool_iterations
  retries,     \* empty_answer_retries
  streaming,   \* the request asked for a stream
  sent,        \* what the client received of this answer
  disturbed    \* what this turn met that the tags do not survive (history)

streamVars == <<node, waiting, flags, heard, last, iterations, retries, streaming,
                sent, disturbed>>

StreamTypeOK ==
  /\ node \in {"idle", "call_llm", "streaming", "has_tool_calls",
               "retry_empty_answer", "run_slash_command_direct", "report"}
  /\ waiting \in {"no", "pause", "cut"}
  /\ flags \in Flags
  /\ heard \in [opened : BOOLEAN, closed : BOOLEAN, text : Seq(Pieces)]
  /\ last \in [content : Seq(Pieces), tools : Routing]
  /\ iterations \in 0..MaxToolIterations
  /\ retries \in 0..MaxEmptyAnswerRetries
  /\ streaming \in BOOLEAN
  /\ sent \in Seq(Pieces)
  /\ disturbed \subseteq {"plain", "cut", "early", "late"}

StreamInit ==
  /\ node = "idle" /\ waiting = "no" /\ flags = Fresh /\ heard = Silence
  /\ last = [content |-> <<>>, tools |-> "none"]
  /\ iterations = 0 /\ retries = 0
  /\ streaming = FALSE /\ sent = <<>> /\ disturbed = {}

----------------------------------------------------------------------------
(* Texts and their tags *)

Joined(text, piece) ==
  IF text # <<>> /\ Last(text) = piece /\ piece \in {"reasoning", "text"}
  THEN text ELSE Append(text, piece)

\* _THINK_BLOCK_RE: from an opening tag to the next closing one, or the end.
Inside(text, i) ==
  \E j \in 1..i : text[j] = "<think>" /\ \A k \in j..i : text[k] # "</think>"

Shown(text) ==
  {text[i] : i \in {k \in DOMAIN text : text[k] # "<think>" /\ ~Inside(text, k - 1)}}

HasVisibleAnswer(text) == Shown(text) # {}

Times(piece, text) == Cardinality({i \in DOMAIN text : text[i] = piece})

\* Faulty variant: what is added to a stream does not close its tag.
ClosingPrefixNone(text) == <<>>

ClosingPrefix(text) ==
  IF Times("<think>", text) > Times("</think>", text) THEN <<"</think>">> ELSE <<>>

\* _convert_delta_with_reasoning on one delta of the call that runs.
Opens(delta)  == delta.reasoning /\ ~heard.opened
Closes(delta) == delta.text /\ (delta.reasoning \/ (heard.opened /\ ~heard.closed))

Plus(text, said, piece) == IF said THEN Joined(text, piece) ELSE text

Converted(text, delta) ==
  LET opened   == Plus(text, Opens(delta), "<think>")
      reasoned == Plus(opened, delta.reasoning, "reasoning")
      closed   == Plus(reasoned, Closes(delta), "</think>")
  IN  Plus(closed, delta.text, "text")

----------------------------------------------------------------------------
(* The nodes *)

\* The flags of the call before are carried into this one.
AskLlm ==
  /\ node = "call_llm"
  /\ heard' = [opened |-> flags.opened, closed |-> flags.closed, text |-> <<>>]
  /\ node' = "streaming"
  /\ UNCHANGED <<waiting, flags, last, iterations, retries, streaming, sent, disturbed>>

HearDelta(delta) ==
  /\ node = "streaming" /\ Len(heard.text) < MaxPieces
  /\ heard' = [opened |-> heard.opened \/ delta.reasoning,
               closed |-> heard.closed \/ Closes(delta),
               text   |-> Converted(heard.text, delta)]
  /\ sent' = IF streaming THEN Converted(sent, delta) ELSE sent
  /\ disturbed' = disturbed \cup IF delta.reasoning /\ heard.closed THEN {"late"} ELSE {}
  /\ UNCHANGED <<node, waiting, flags, last, iterations, retries, streaming>>

\* The tag is closed here only when no tool call of the server follows; a
\* call recovered from the prose comes after that.
LlmAnswers(tools, prose) ==
  /\ node = "streaming"
  /\ prose => tools # "none" /\ heard.text # <<>>
  /\ LET closes == heard.opened /\ ~heard.closed /\ (tools = "none" \/ prose)
         closed == heard.closed \/ closes
     IN /\ flags' = [opened |-> heard.opened, closed |-> closed]
        /\ last' = [content |-> IF closes THEN Append(heard.text, "</think>") ELSE heard.text,
                    tools   |-> tools]
        /\ disturbed' = disturbed \cup IF closed /\ tools # "none" THEN {"early"} ELSE {}
  /\ heard' = Silence
  /\ node' = "has_tool_calls"
  /\ UNCHANGED <<waiting, iterations, retries, streaming, sent>>

\* The connection breaks at some delta, or a node before raised: the thread
\* keeps what the nodes before it saved.
FailLlm ==
  /\ node \in {"call_llm", "streaming"}
  /\ sent' = Append(sent, "error")
  /\ heard' = Silence
  /\ node' = "idle" /\ waiting' = "cut"
  /\ disturbed' = disturbed \cup {"cut"}
  /\ UNCHANGED <<flags, last, iterations, retries, streaming>>

HasToolCalls ==
  /\ node = "has_tool_calls"
  /\ \/ /\ last.tools = "none"
        /\ node' = IF ~HasVisibleAnswer(last.content) /\ retries < MaxEmptyAnswerRetries
                   THEN "retry_empty_answer" ELSE "report"
        /\ UNCHANGED <<waiting, iterations>>
     \/ /\ last.tools # "none" /\ iterations >= MaxToolIterations
        /\ node' = "report"
        /\ UNCHANGED <<waiting, iterations>>
     \/ /\ last.tools = "auto" /\ iterations < MaxToolIterations
        /\ node' = "call_llm" /\ iterations' = iterations + 1
        /\ UNCHANGED waiting
     \/ /\ last.tools = "ask" /\ iterations < MaxToolIterations
        /\ node' = "report" /\ waiting' = "pause"
        /\ UNCHANGED iterations
  /\ UNCHANGED <<flags, heard, last, retries, streaming, sent, disturbed>>

RetryEmptyAnswer ==
  /\ node = "retry_empty_answer"
  /\ retries' = retries + 1
  /\ flags' = Fresh
  /\ node' = "call_llm"
  /\ UNCHANGED <<waiting, heard, last, iterations, streaming, sent, disturbed>>

\* A slash command answers without the model.
RunSlashCommandDirect ==
  /\ node = "run_slash_command_direct"
  /\ last' = [content |-> <<"text">>, tools |-> "none"]
  /\ node' = "report"
  /\ UNCHANGED <<waiting, flags, heard, iterations, retries, streaming, sent, disturbed>>

----------------------------------------------------------------------------
(* The end of the answer *)

\* What _stream_response adds to what it streamed.
Ending ==
  LET prefix == ClosingPrefix(sent)
  IN  CASE waiting = "pause"                -> Append(prefix, "pending")
        [] waiting # "pause" /\ last.tools # "none" -> Append(prefix, "limit")
        [] waiting # "pause" /\ last.tools = "none" ->
             IF HasVisibleAnswer(sent \o prefix) THEN <<>>
             ELSE IF HasVisibleAnswer(last.content) THEN last.content
             ELSE Append(prefix, "empty")

EndStream ==
  /\ node = "report" /\ streaming
  /\ flags' = IF ClosingPrefix(sent) # <<>> THEN Fresh ELSE flags
  /\ sent' = sent \o Ending
  /\ node' = "idle"
  /\ UNCHANGED <<waiting, heard, last, iterations, retries, streaming, disturbed>>

\* _current_answer, for a plain completion and for /approve.
EndPlain ==
  /\ node = "report" /\ ~streaming
  /\ sent' = CASE waiting = "pause"                         -> <<"pending">>
               [] waiting # "pause" /\ last.tools # "none"  -> <<"limit">>
               [] waiting # "pause" /\ last.tools = "none"  ->
                    IF HasVisibleAnswer(last.content) THEN last.content ELSE <<"empty">>
  /\ node' = "idle"
  /\ disturbed' = disturbed \cup {"plain"}
  /\ UNCHANGED <<waiting, flags, heard, last, iterations, retries, streaming>>

\* The nodes between one request and its answer.
Work ==
  \/ AskLlm
  \/ \E delta \in Delta : HearDelta(delta)
  \/ \E tools \in Routing, prose \in BOOLEAN : LlmAnswers(tools, prose)
  \/ HasToolCalls
  \/ RetryEmptyAnswer
  \/ RunSlashCommandDirect

=============================================================================

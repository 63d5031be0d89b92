------------------------ MODULE Conversation_proofs ------------------------
(***************************************************************************)
(* Proofs about Conversation, for any model and a history of any length:   *)
(* the count of messages always tells what the client will send next, so   *)
(* the thread receives every question once.                                *)
(***************************************************************************)
EXTENDS Conversation, SequenceTheorems, FiniteSetTheorems, TLAPS

(* The bookkeeping has its type.                                           *)
BookTyped ==
  /\ client \in {"owui", "program"}
  /\ history \in Seq(Role)
  /\ stored \in Nat
  /\ asked \in Seq(Nat)

(* A client keeps to its convention.                                       *)
KeepsConvention ==
  /\ client = "owui" => serving \in {"append", "edit"}
  /\ client = "program" => serving \in {"append", "loop"}

(* While a request is served the count runs ahead of the history by the    *)
(* message its answer will be, and by none for an edit in place.           *)
CountRunsAhead ==
  node # "idle" =>
    /\ history # <<>>
    /\ stored = Len(history) + IF serving = "edit" THEN 0 ELSE 1
    /\ client = "program" => serving = "loop"

CountFromTheStart ==
  node = "idle" /\ history = <<>> => stored = 0 /\ waiting = "no"

IInv ==
  /\ BookTyped
  /\ KeepsConvention
  /\ CountRunsAhead
  /\ CountFromTheStart
  /\ CountCoversHistory
  /\ ThreadIsWhatWasAsked

(* What every step works with.                                             *)
LEMMA HistoryLength ==
  ASSUME IInv
  PROVE  /\ Len(history) \in Nat
         /\ history = <<>> <=> Len(history) = 0
         /\ \A r \in Role : /\ Append(history, r) \in Seq(Role)
                            /\ Len(Append(history, r)) = Len(history) + 1
                            /\ Append(history, r) # <<>>
<1>1. history \in Seq(Role)
  BY DEF IInv, BookTyped
<1>2. Len(history) \in Nat /\ (history = <<>> <=> Len(history) = 0)
  BY <1>1
<1>3. \A r \in Role : /\ Append(history, r) \in Seq(Role)
                      /\ Len(Append(history, r)) = Len(history) + 1
  BY <1>1
<1>4. \A r \in Role : Append(history, r) # <<>>
  BY <1>2, <1>3
<1> QED
  BY <1>2, <1>3, <1>4

(* When nothing is pending exactly the last message is new.                *)
LEMMA OneQuestionIsNew ==
  ASSUME NEW seen \in Nat
  PROVE  Beyond(seen, seen + 1) = <<seen + 1>>
<1>1. Beyond(seen, seen + 1) = [i \in 1..1 |-> seen + i]
  BY DEF Beyond
<1>2. \A i \in 1..1 : i = 1
  OBVIOUS
<1>3. [i \in 1..1 |-> seen + i] = [i \in 1..1 |-> seen + 1]
  BY <1>2
<1>4. <<seen + 1>> = [i \in 1..1 |-> seen + 1]
  OBVIOUS
<1> QED
  BY <1>1, <1>3, <1>4

LEMMA Initially == Init => IInv
<1> SUFFICES ASSUME Init PROVE IInv
  OBVIOUS
<1>1. BookTyped
  BY DEF Init, BookTyped
<1> QED
  BY <1>1 DEF Init, StreamInit, IInv, KeepsConvention, CountRunsAhead,
              CountFromTheStart, CountCoversHistory, ThreadIsWhatWasAsked

(* The nodes touch no message and never end the request.                   *)
LEMMA WorkKeeps ==
  ASSUME IInv, Work, UNCHANGED clientVars
  PROVE  IInv'
<1>1. node # "idle" /\ node' # "idle"
  BY DEF Work, AskLlm, HearDelta, LlmAnswers, HasToolCalls, RetryEmptyAnswer,
         RunSlashCommandDirect
<1>2. UNCHANGED <<client, serving, history, stored, thread, asked>>
  BY DEF clientVars
<1> QED
  BY <1>1, <1>2 DEF IInv, BookTyped, KeepsConvention, CountRunsAhead,
     CountFromTheStart, CountCoversHistory, ThreadIsWhatWasAsked

(* A chat message: new when nothing is pending, a decision otherwise.      *)
LEMMA ChatKeeps ==
  ASSUME IInv, Chat
  PROVE  IInv'
<1>1. /\ node = "idle"
      /\ history' = Append(history, "user")
      /\ stored' = Len(history') + 1
      /\ NewTurn(Len(history')) \/ Reply
      /\ serving' = IF client = "owui" THEN "append" ELSE "loop"
      /\ client' = client
      /\ client = "program" => waiting # "pause"
  BY DEF Chat
<1>2. Len(history) \in Nat /\ history' \in Seq(Role) /\ Len(history') = Len(history) + 1
  BY <1>1, HistoryLength DEF Role
<1>3. node' # "idle"
  BY <1>1 DEF NewTurn, Reply, Resume
<1>4. client \in {"owui", "program"} /\ asked \in Seq(Nat) /\ thread = asked
  BY DEF IInv, BookTyped, ThreadIsWhatWasAsked
<1>5. asked' \in Seq(Nat) /\ thread' = asked'
  <2>1. CASE NewTurn(Len(history'))
    <3>1. stored = Len(history)
      BY <1>1, <1>2, <1>4, <2>1, HistoryLength
      DEF NewTurn, IInv, CountCoversHistory, CountFromTheStart
    <3>2. Beyond(stored, Len(history')) = <<Len(history')>>
      BY <3>1, <1>2, OneQuestionIsNew
    <3>3. thread' = asked \o <<Len(history')>> /\ asked' = Append(asked, Len(history'))
      BY <2>1, <3>2, <1>4 DEF NewTurn
    <3>4. Len(history') \in Nat
      BY <1>2
    <3> QED
      BY <3>3, <3>4, <1>4
  <2>2. CASE Reply
    BY <2>2, <1>4 DEF Reply
  <2> QED
    BY <1>1, <2>1, <2>2
<1>6. BookTyped'
  BY <1>1, <1>2, <1>4, <1>5 DEF BookTyped
<1>7. KeepsConvention' /\ CountRunsAhead'
  BY <1>1, <1>4 DEF KeepsConvention, CountRunsAhead
<1> QED
  BY <1>3, <1>5, <1>6, <1>7
  DEF IInv, CountFromTheStart, CountCoversHistory, ThreadIsWhatWasAsked

(* /approve: the count tells the client's convention rightly.              *)
LEMMA ApproveKeeps ==
  ASSUME IInv, Approve
  PROVE  IInv'
<1>1. /\ node = "idle" /\ waiting # "no"
      /\ client = "program" => waiting = "pause"
      /\ stored' = IF Len(history) = stored - 1 THEN Len(history) + 1 ELSE Len(history)
      /\ serving' = IF client = "owui" THEN "edit" ELSE "loop"
      /\ UNCHANGED <<client, history, thread, asked>>
  BY DEF Approve
<1>2. node' # "idle"
  BY DEF Approve, Resume
<1>3. client \in {"owui", "program"} /\ stored \in Nat /\ history \in Seq(Role)
      /\ asked \in Seq(Nat) /\ thread = asked
  BY DEF IInv, BookTyped, ThreadIsWhatWasAsked
<1>4. Len(history) \in Nat /\ history # <<>>
  BY <1>1, HistoryLength DEF IInv, CountFromTheStart
<1>5. stored = Len(history) + IF client = "program" THEN 1 ELSE 0
  BY <1>1, <1>4 DEF IInv, CountCoversHistory
<1>6. stored' = Len(history') + IF serving' = "edit" THEN 0 ELSE 1
  <2>1. CASE client = "program"
    BY <2>1, <1>1, <1>3, <1>4, <1>5
  <2>2. CASE client = "owui"
    BY <2>2, <1>1, <1>3, <1>4, <1>5
  <2> QED
    BY <2>1, <2>2, <1>3
<1>7. BookTyped'
  BY <1>1, <1>3, <1>4 DEF BookTyped
<1>8. KeepsConvention' /\ CountRunsAhead'
  BY <1>1, <1>3, <1>4, <1>6 DEF KeepsConvention, CountRunsAhead
<1> QED
  BY <1>1, <1>2, <1>3, <1>7, <1>8
  DEF IInv, CountFromTheStart, CountCoversHistory, ThreadIsWhatWasAsked

(* The answer arrives: appended, edited in place, or looped on.            *)
LEMMA ReceivedKeeps ==
  ASSUME IInv, NEW outcome, outcome = waiting', Received(outcome),
         node # "idle", node' = "idle"
  PROVE  IInv'
<1>1. /\ history' = IF serving = "append" \/ (serving = "loop" /\ waiting' # "pause")
                    THEN Append(history, "assistant") ELSE history
      /\ UNCHANGED <<client, serving, stored, thread, asked>>
  BY DEF Received
<1>2. /\ client \in {"owui", "program"} /\ stored \in Nat /\ history \in Seq(Role)
      /\ asked \in Seq(Nat) /\ thread = asked
      /\ stored = Len(history) + IF serving = "edit" THEN 0 ELSE 1
      /\ client = "program" => serving = "loop"
      /\ client = "owui" => serving \in {"append", "edit"}
      /\ history # <<>>
  BY DEF IInv, BookTyped, ThreadIsWhatWasAsked, CountRunsAhead, KeepsConvention
<1>3. Len(history) \in Nat /\ Append(history, "assistant") \in Seq(Role)
      /\ Len(Append(history, "assistant")) = Len(history) + 1
  BY HistoryLength DEF Role
<1>4. history' \in Seq(Role)
  BY <1>1, <1>2, <1>3
<1>5. stored' = Len(history') + IF client' = "program" /\ waiting' = "pause" THEN 1 ELSE 0
  <2>1. CASE client = "program" /\ waiting' = "pause"
    BY <2>1, <1>1, <1>2, <1>3
  <2>4. CASE client = "program" /\ waiting' # "pause"
    <3>1. history' = Append(history, "assistant") /\ stored = Len(history) + 1
      BY <2>4, <1>1, <1>2
    <3>2. client' # "program" \/ waiting' # "pause"
      BY <2>4
    <3> QED
      BY <3>1, <3>2, <1>1, <1>2, <1>3
  <2>2. CASE client = "owui" /\ serving = "append"
    BY <2>2, <1>1, <1>2, <1>3
  <2>3. CASE client = "owui" /\ serving = "edit"
    BY <2>3, <1>1, <1>2, <1>3
  <2> QED
    BY <2>1, <2>2, <2>3, <2>4, <1>2
<1>6. history' # <<>>
  <2>1. Append(history, "assistant") # <<>>
    BY HistoryLength DEF Role
  <2> QED
    BY <2>1, <1>1, <1>2
<1> QED
  BY <1>1, <1>2, <1>4, <1>5, <1>6
  DEF IInv, BookTyped, KeepsConvention, CountRunsAhead, CountFromTheStart,
      CountCoversHistory, ThreadIsWhatWasAsked

LEMMA Inductive == IInv /\ [Next]_vars => IInv'
<1> SUFFICES ASSUME IInv, [Next]_vars PROVE IInv'
  OBVIOUS
<1>1. CASE Chat
  BY <1>1, ChatKeeps
<1>2. CASE Approve
  BY <1>2, ApproveKeeps
<1>3. CASE Work /\ UNCHANGED clientVars
  BY <1>3, WorkKeeps
<1>4. CASE Answered
  <2>1. node # "idle" /\ node' = "idle" /\ waiting' = waiting /\ Received(waiting)
    BY <1>4 DEF Answered, EndStream, EndPlain
  <2> QED
    BY <2>1, ReceivedKeeps
<1>5. CASE Failed
  <2>1. node # "idle" /\ node' = "idle" /\ waiting' = "cut" /\ Received("cut")
    BY <1>5 DEF Failed, FailLlm
  <2> QED
    BY <2>1, ReceivedKeeps
<1>6. CASE UNCHANGED vars
  BY <1>6 DEF vars, streamVars, clientVars, IInv, BookTyped, KeepsConvention,
     CountRunsAhead, CountFromTheStart, CountCoversHistory, ThreadIsWhatWasAsked
<1> QED
  BY <1>1, <1>2, <1>3, <1>4, <1>5, <1>6 DEF Next

-----------------------------------------------------------------------------
(* Texts.  A text is in the fold where its last tag is an opening one; what *)
(* is appended there is not shown.                                         *)

InFold(text) == Inside(text, Len(text))

Has(text, piece) == \E i \in DOMAIN text : text[i] = piece

LEMMA Indices ==
  ASSUME NEW text \in Seq(Pieces)
  PROVE  /\ Len(text) \in Nat /\ DOMAIN text = 1..Len(text)
         /\ text = <<>> <=> Len(text) = 0
         /\ \A i \in DOMAIN text : text[i] \in Pieces
BY EmptySeq, LenProperties, ElementOfSeq

(* Whether a place is in the fold depends on what comes before it only.    *)
LEMMA InsideNext ==
  ASSUME NEW text, NEW i \in Nat
  PROVE  /\ ~Inside(text, 0)
         /\ Inside(text, i + 1) <=>
              \/ text[i + 1] = "<think>"
              \/ Inside(text, i) /\ text[i + 1] # "</think>"
<1>1. ~Inside(text, 0)
  BY DEF Inside
<1>2. ASSUME text[i + 1] = "<think>"
      PROVE  Inside(text, i + 1)
  <2>1. i + 1 \in 1..(i + 1) /\ \A k \in (i + 1)..(i + 1) : k = i + 1
    OBVIOUS
  <2> QED
    BY <1>2, <2>1 DEF Inside
<1>3. ASSUME Inside(text, i), text[i + 1] # "</think>"
      PROVE  Inside(text, i + 1)
  <2>1. PICK j \in 1..i : text[j] = "<think>" /\ \A k \in j..i : text[k] # "</think>"
    BY <1>3 DEF Inside
  <2>2. j \in 1..(i + 1) /\ \A k \in j..(i + 1) : k \in j..i \/ k = i + 1
    OBVIOUS
  <2> QED
    BY <1>3, <2>1, <2>2 DEF Inside
<1>4. ASSUME Inside(text, i + 1), text[i + 1] # "<think>"
      PROVE  Inside(text, i) /\ text[i + 1] # "</think>"
  <2>1. PICK j \in 1..(i + 1) :
          text[j] = "<think>" /\ \A k \in j..(i + 1) : text[k] # "</think>"
    BY <1>4 DEF Inside
  <2>2. j # i + 1
    BY <1>4, <2>1
  <2>3. j \in 1..i /\ i + 1 \in j..(i + 1) /\ j..i \subseteq j..(i + 1)
    BY <2>2
  <2> QED
    BY <2>1, <2>3 DEF Inside
<1> QED
  BY <1>1, <1>2, <1>3, <1>4

LEMMA InsideSame ==
  ASSUME NEW one, NEW two, NEW n \in Nat, \A i \in 1..n : one[i] = two[i]
  PROVE  \A i \in 0..n : Inside(one, i) <=> Inside(two, i)
<1> SUFFICES ASSUME NEW i \in 0..n PROVE Inside(one, i) <=> Inside(two, i)
  OBVIOUS
<1>1. \A j \in 1..i : j \in 1..n /\ \A k \in j..i : k \in 1..n
  OBVIOUS
<1> QED
  BY <1>1 DEF Inside

(* One piece at the end of a text.                                         *)
LEMMA TextAppended ==
  ASSUME NEW text \in Seq(Pieces), NEW piece \in Pieces
  PROVE  /\ Append(text, piece) \in Seq(Pieces)
         /\ Append(text, piece) # <<>>
         /\ Last(Append(text, piece)) = piece
         /\ \A p : Has(Append(text, piece), p) <=> Has(text, p) \/ p = piece
         /\ InFold(Append(text, piece)) <=>
              piece = "<think>" \/ (InFold(text) /\ piece # "</think>")
         /\ Shown(Append(text, piece)) =
              Shown(text) \cup (IF piece = "<think>" \/ InFold(text) THEN {} ELSE {piece})
<1> DEFINE n == Len(text)
           longer == Append(text, piece)
<1>1. /\ longer \in Seq(Pieces) /\ Len(longer) = n + 1 /\ n \in Nat
      /\ DOMAIN text = 1..n /\ DOMAIN longer = 1..(n + 1)
      /\ \A i \in 1..n : longer[i] = text[i]
      /\ longer[n + 1] = piece
  BY AppendProperties, LenProperties
<1>2. longer # <<>> /\ Last(longer) = piece
  BY <1>1, EmptySeq DEF Last
<1>3. \A i \in 1..(n + 1) : i \in 1..n \/ i = n + 1
  BY <1>1
<1>4. \A p : Has(longer, p) <=> Has(text, p) \/ p = piece
  <2>1. 1..n \subseteq 1..(n + 1) /\ n + 1 \in 1..(n + 1)
    BY <1>1
  <2> QED
    BY <1>1, <1>3, <2>1 DEF Has
<1>5. \A i \in 0..n : Inside(longer, i) <=> Inside(text, i)
  BY <1>1, InsideSame
<1>6. InFold(longer) <=> piece = "<think>" \/ (InFold(text) /\ piece # "</think>")
  <2>1. Inside(longer, n) <=> Inside(text, n)
    BY <1>1, <1>5
  <2> QED
    BY <1>1, <2>1, InsideNext DEF InFold
<1>7. ASSUME NEW p
      PROVE  p \in Shown(longer) <=>
               p \in Shown(text) \/ (p = piece /\ piece # "<think>" /\ ~InFold(text))
  <2>1. \A i \in 1..n : i - 1 \in 0..n
    BY <1>1
  <2>2. \A i \in 1..n : ~Inside(longer, i - 1) <=> ~Inside(text, i - 1)
    BY <1>5, <2>1
  <2>3. ~Inside(longer, (n + 1) - 1) <=> ~InFold(text)
    <3>1. (n + 1) - 1 = n /\ n \in 0..n
      BY <1>1
    <3> QED
      BY <1>5, <3>1 DEF InFold
  <2>4. p \in Shown(longer) <=>
          \E i \in 1..(n + 1) : p = longer[i] /\ longer[i] # "<think>" /\ ~Inside(longer, i - 1)
    BY <1>1 DEF Shown
  <2>5. p \in Shown(text) <=>
          \E i \in 1..n : p = text[i] /\ text[i] # "<think>" /\ ~Inside(text, i - 1)
    BY <1>1 DEF Shown
  <2>6. 1..n \subseteq 1..(n + 1) /\ n + 1 \in 1..(n + 1)
    BY <1>1
  <2> QED
    BY <1>1, <1>3, <2>2, <2>3, <2>4, <2>5, <2>6
<1>8. Shown(longer) =
        Shown(text) \cup (IF piece = "<think>" \/ InFold(text) THEN {} ELSE {piece})
  BY <1>7
<1> QED
  BY <1>1, <1>2, <1>4, <1>6, <1>8

LEMMA EmptyText ==
  /\ <<>> \in Seq(Pieces) /\ ~InFold(<<>>) /\ Shown(<<>>) = {}
  /\ \A p : ~Has(<<>>, p)
<1>1. <<>> \in Seq(Pieces) /\ Len(<<>>) = 0 /\ DOMAIN <<>> = {}
  BY EmptySeq
<1>2. ~Inside(<<>>, 0)
  BY InsideNext
<1> QED
  BY <1>1, <1>2 DEF InFold, Shown, Has

(* A run of one kind is one piece, in or out of the fold as a whole.       *)
LEMMA TextJoined ==
  ASSUME NEW text \in Seq(Pieces), NEW piece \in Pieces
  PROVE  /\ Joined(text, piece) \in Seq(Pieces)
         /\ \A p : Has(Joined(text, piece), p) <=> Has(text, p) \/ p = piece
         /\ InFold(Joined(text, piece)) <=>
              piece = "<think>" \/ (InFold(text) /\ piece # "</think>")
         /\ \A p : p \in Shown(Joined(text, piece)) <=>
              p \in Shown(text) \/ (p = piece /\ piece # "<think>" /\ ~InFold(text))
<1> DEFINE n == Len(text)
<1>1. CASE text # <<>> /\ Last(text) = piece /\ piece \in {"reasoning", "text"}
  <2>1. n \in Nat /\ DOMAIN text = 1..n /\ n # 0
    BY <1>1, Indices
  <2>2. n \in 1..n /\ n - 1 \in Nat /\ (n - 1) + 1 = n /\ text[n] = piece
    BY <1>1, <2>1 DEF Last
  <2>3. Inside(text, n) <=> Inside(text, n - 1)
    BY <1>1, <2>2, InsideNext
  <2>4. ~InFold(text) => piece \in Shown(text)
    BY <1>1, <2>1, <2>2, <2>3 DEF Shown, InFold
  <2>5. Has(text, piece)
    BY <2>1, <2>2 DEF Has
  <2>6. Joined(text, piece) = text
    BY <1>1 DEF Joined
  <2> QED
    BY <1>1, <2>4, <2>5, <2>6
<1>2. CASE ~(text # <<>> /\ Last(text) = piece /\ piece \in {"reasoning", "text"})
  <2>1. Joined(text, piece) = Append(text, piece)
    BY <1>2 DEF Joined
  <2> QED
    BY <2>1, TextAppended
<1> QED
  BY <1>1, <1>2

LEMMA TextPlus ==
  ASSUME NEW text \in Seq(Pieces), NEW said \in BOOLEAN, NEW piece \in Pieces
  PROVE  /\ Plus(text, said, piece) \in Seq(Pieces)
         /\ \A p : Has(Plus(text, said, piece), p) <=> Has(text, p) \/ (said /\ p = piece)
         /\ InFold(Plus(text, said, piece)) <=>
              (said /\ piece = "<think>") \/ (InFold(text) /\ ~(said /\ piece = "</think>"))
         /\ \A p : p \in Shown(Plus(text, said, piece)) <=>
              p \in Shown(text) \/ (said /\ p = piece /\ piece # "<think>" /\ ~InFold(text))
<1>1. CASE said
  BY <1>1, TextJoined DEF Plus
<1>2. CASE ~said
  BY <1>2 DEF Plus
<1> QED
  BY <1>1, <1>2

(* What one delta adds to a text, from the flags of the call.              *)
LEMMA TextConverted ==
  ASSUME NEW text \in Seq(Pieces), NEW delta \in Delta,
         heard.opened \in BOOLEAN, heard.closed \in BOOLEAN
  PROVE  LET folded == Opens(delta) \/ InFold(text)
             longer == Converted(text, delta)
         IN  /\ longer \in Seq(Pieces)
             /\ \A p : Has(longer, p) <=>
                  \/ Has(text, p)
                  \/ Opens(delta) /\ p = "<think>"
                  \/ delta.reasoning /\ p = "reasoning"
                  \/ Closes(delta) /\ p = "</think>"
                  \/ delta.text /\ p = "text"
             /\ InFold(longer) <=> folded /\ ~Closes(delta)
             /\ \A p : p \in Shown(longer) <=>
                  \/ p \in Shown(text)
                  \/ delta.reasoning /\ p = "reasoning" /\ ~folded
                  \/ Closes(delta) /\ p = "</think>" /\ ~folded
                  \/ delta.text /\ p = "text" /\ (Closes(delta) \/ ~folded)
<1> DEFINE opened   == Plus(text, Opens(delta), "<think>")
           reasoned == Plus(opened, delta.reasoning, "reasoning")
           closed   == Plus(reasoned, Closes(delta), "</think>")
           longer   == Plus(closed, delta.text, "text")
           folded   == Opens(delta) \/ InFold(text)
<1>1. /\ delta.reasoning \in BOOLEAN /\ delta.text \in BOOLEAN
      /\ Opens(delta) \in BOOLEAN /\ Closes(delta) \in BOOLEAN
      /\ {"<think>", "</think>", "reasoning", "text"} \subseteq Pieces
  BY DEF Delta, Opens, Closes, Pieces
<1>2. /\ opened \in Seq(Pieces)
      /\ \A p : Has(opened, p) <=> Has(text, p) \/ (Opens(delta) /\ p = "<think>")
      /\ InFold(opened) <=> folded
      /\ \A p : p \in Shown(opened) <=> p \in Shown(text)
  BY <1>1, TextPlus
<1>3. /\ reasoned \in Seq(Pieces)
      /\ \A p : Has(reasoned, p) <=> Has(opened, p) \/ (delta.reasoning /\ p = "reasoning")
      /\ InFold(reasoned) <=> folded
      /\ \A p : p \in Shown(reasoned) <=>
           p \in Shown(opened) \/ (delta.reasoning /\ p = "reasoning" /\ ~folded)
  <2> HIDE DEF opened, folded
  <2> QED
    BY <1>1, <1>2, TextPlus
<1>4. /\ closed \in Seq(Pieces)
      /\ \A p : Has(closed, p) <=> Has(reasoned, p) \/ (Closes(delta) /\ p = "</think>")
      /\ InFold(closed) <=> folded /\ ~Closes(delta)
      /\ \A p : p \in Shown(closed) <=>
           p \in Shown(reasoned) \/ (Closes(delta) /\ p = "</think>" /\ ~folded)
  <2> HIDE DEF reasoned, folded
  <2> QED
    BY <1>1, <1>3, TextPlus
<1>5. /\ longer \in Seq(Pieces)
      /\ \A p : Has(longer, p) <=> Has(closed, p) \/ (delta.text /\ p = "text")
      /\ InFold(longer) <=> folded /\ ~Closes(delta)
      /\ \A p : p \in Shown(longer) <=>
           p \in Shown(closed) \/ (delta.text /\ p = "text" /\ (Closes(delta) \/ ~folded))
  <2> HIDE DEF closed, folded
  <2> QED
    BY <1>1, <1>4, TextPlus
<1>6. Converted(text, delta) = longer
  BY DEF Converted
<1> HIDE DEF opened, reasoned, closed, longer
<1> QED
  BY <1>2, <1>3, <1>4, <1>5, <1>6

(* A text that is added to one in its fold, and closes it at its very end  *)
(* at most, is swallowed whole.                                            *)
LEMMA Swallowed ==
  ASSUME NEW text \in Seq(Pieces), NEW more \in Seq(Pieces), InFold(text),
         \A i \in DOMAIN more : more[i] = "</think>" => i = Len(more)
  PROVE  Shown(text \o more) = Shown(text)
<1> DEFINE n == Len(text)
           m == Len(more)
           whole == text \o more
<1>1. /\ n \in Nat /\ m \in Nat /\ DOMAIN text = 1..n /\ DOMAIN more = 1..m
      /\ whole \in Seq(Pieces) /\ Len(whole) = n + m /\ DOMAIN whole = 1..(n + m)
      /\ \A i \in 1..n : whole[i] = text[i]
      /\ \A i \in 1..m : whole[n + i] = more[i]
  <2>1. /\ n \in Nat /\ m \in Nat /\ DOMAIN text = 1..n /\ DOMAIN more = 1..m
        /\ whole \in Seq(Pieces) /\ Len(whole) = n + m
    BY Indices, ConcatProperties
  <2>2. \A i \in 1..(n + m) : whole[i] = IF i <= n THEN text[i] ELSE more[i - n]
    BY ConcatProperties
  <2>3. DOMAIN whole = 1..(n + m)
    BY <2>1, Indices
  <2>4. ASSUME NEW i \in 1..m
        PROVE  whole[n + i] = more[i]
    <3>1. n + i \in 1..(n + m) /\ ~(n + i <= n) /\ (n + i) - n = i
      BY <2>1
    <3> QED
      BY <2>2, <3>1
  <2>5. ASSUME NEW i \in 1..n
        PROVE  whole[i] = text[i]
    <3>1. i \in 1..(n + m) /\ i <= n
      BY <2>1
    <3> QED
      BY <2>2, <3>1
  <2> QED
    BY <2>1, <2>3, <2>4, <2>5
<1>2. \A i \in 0..n : Inside(whole, i) <=> Inside(text, i)
  BY <1>1, InsideSame
<1>3. PICK j \in 1..n : text[j] = "<think>" /\ \A k \in j..n : text[k] # "</think>"
  BY DEF InFold, Inside
<1>4. ASSUME NEW i \in (n + 1)..(n + m)
      PROVE  Inside(whole, i - 1)
  <2>1. ASSUME NEW k \in j..(i - 1)
        PROVE  whole[k] # "</think>"
    <3>1. CASE k <= n
      <4>1. k \in 1..n /\ k \in j..n
        BY <1>1, <3>1
      <4> QED
        BY <1>1, <1>3, <4>1
    <3>2. CASE k > n
      <4>1. k - n \in 1..m /\ k - n # m /\ n + (k - n) = k
        BY <1>1, <3>2
      <4>2. whole[k] = more[k - n]
        BY <1>1, <4>1
      <4> QED
        BY <1>1, <4>1, <4>2
    <3> QED
      BY <1>1, <3>1, <3>2
  <2>2. j \in 1..(i - 1) /\ whole[j] = "<think>"
    BY <1>1, <1>3
  <2> QED
    BY <2>1, <2>2 DEF Inside
<1>5. ASSUME NEW p
      PROVE  p \in Shown(whole) <=> p \in Shown(text)
  <2>1. p \in Shown(whole) <=>
          \E i \in 1..(n + m) : p = whole[i] /\ whole[i] # "<think>" /\ ~Inside(whole, i - 1)
    BY <1>1 DEF Shown
  <2>2. p \in Shown(text) <=>
          \E i \in 1..n : p = text[i] /\ text[i] # "<think>" /\ ~Inside(text, i - 1)
    BY <1>1 DEF Shown
  <2>3. \A i \in 1..n : Inside(whole, i - 1) <=> Inside(text, i - 1)
    <3>1. \A i \in 1..n : i - 1 \in 0..n
      BY <1>1
    <3> QED
      BY <1>2, <3>1
  <2>4. \A i \in 1..(n + m) : i \in 1..n \/ i \in (n + 1)..(n + m)
    BY <1>1
  <2>5. 1..n \subseteq 1..(n + m)
    BY <1>1
  <2> QED
    BY <1>1, <1>4, <2>1, <2>2, <2>3, <2>4, <2>5
<1> QED
  BY <1>5

(* A tag is counted where there is one.                                    *)
LEMMA TagsCounted ==
  ASSUME NEW text \in Seq(Pieces), NEW piece
  PROVE  /\ Times(piece, text) \in Nat
         /\ Times(piece, text) = 0 <=> ~Has(text, piece)
<1> DEFINE where == {i \in DOMAIN text : text[i] = piece}
<1>1. DOMAIN text = 1..Len(text) /\ Len(text) \in Nat
  BY Indices
<1>2. IsFiniteSet(DOMAIN text)
  BY <1>1, FS_Interval
<1>3. IsFiniteSet(where)
  BY <1>2, FS_Subset
<1>4. Cardinality(where) \in Nat /\ (Cardinality(where) = 0 <=> where = {})
  BY <1>3, FS_CardinalityType, FS_EmptySet
<1>5. where = {} <=> ~Has(text, piece)
  BY DEF Has
<1> QED
  BY <1>4, <1>5 DEF Times

(* Without a closing tag there is a fold where there is an opening one,    *)
(* and all is shown where there is none.                                   *)
LEMMA OpenText ==
  ASSUME NEW text \in Seq(Pieces), ~Has(text, "</think>")
  PROVE  /\ Has(text, "<think>") <=> InFold(text)
         /\ ~InFold(text) /\ text # <<>> => Shown(text) # {}
<1>1. DOMAIN text = 1..Len(text) /\ Len(text) \in Nat /\ (text = <<>> <=> Len(text) = 0)
  BY Indices
<1>2. \A k \in 1..Len(text) : text[k] # "</think>"
  BY <1>1 DEF Has
<1>3. Has(text, "<think>") <=> InFold(text)
  <2>1. \A j \in 1..Len(text) : j..Len(text) \subseteq 1..Len(text)
    BY <1>1
  <2> QED
    BY <1>1, <1>2, <2>1 DEF Has, InFold, Inside
<1>4. ASSUME ~InFold(text), text # <<>>
      PROVE  text[1] \in Shown(text)
  <2>1. 1 \in DOMAIN text /\ text[1] # "<think>"
    BY <1>1, <1>3, <1>4 DEF Has
  <2>2. ~Inside(text, 1 - 1)
    BY InsideNext
  <2> QED
    BY <2>1, <2>2 DEF Shown
<1> QED
  BY <1>3, <1>4

-----------------------------------------------------------------------------
(* What a stream holds at every node. *)

Calls  == {"call_llm", "streaming"}
Called == {"has_tool_calls", "report"}

Open(tag)       == tag.opened /\ ~tag.closed
Folded(text)    == Shown(text) \cap {"reasoning", "</think>"} = {}
NoNotice(text)  == \A p \in Notices : ~Has(text, p)

(* Only a call that is within its budget waits, or is made again.          *)
Budgets ==
  /\ waiting = "pause" => iterations < MaxToolIterations
  /\ node = "retry_empty_answer" => retries < MaxEmptyAnswerRetries

Paused ==
  /\ node \notin {"idle", "report"} => waiting = "no"
  /\ node = "report" => waiting = "no" \/ (waiting = "pause" /\ last.tools # "none")

NoticesLast ==
  /\ node # "idle" => NoNotice(sent)
  /\ NoNotice(heard.text) /\ NoNotice(last.content)

(* Unless a tag was closed before a tool call, no call starts with a tag   *)
(* that is closed, and one that closes it shows a text.                    *)
Unclosed ==
  "early" \notin disturbed =>
    /\ node \in Calls => ~flags.closed
    /\ node \in Called /\ last.tools # "none" => ~flags.closed
    /\ node = "idle" /\ waiting # "no" => ~flags.closed
    /\ node = "streaming" /\ heard.closed => "text" \in Shown(heard.text)

(* A closing tag in what was sent belongs to the call that ends the answer, *)
(* and as long as that call streams nothing opens the fold again.           *)
ClosedInSent ==
  "early" \notin disturbed /\ streaming /\ node # "idle" /\ Has(sent, "</think>") =>
    \/ node = "streaming" /\ heard.opened /\ heard.closed /\ ~InFold(sent)
    \/ node \in Called /\ last.tools = "none" /\ HasVisibleAnswer(last.content)

(* The closing tag of a message was sent, or could not be: it comes last,  *)
(* and the stream is still in the fold.                                    *)
ContentSent ==
  /\ \A i \in DOMAIN last.content : last.content[i] = "</think>" =>
       Has(sent, "</think>") \/ (i = Len(last.content) /\ InFold(sent))
  /\ sent = <<>> => last.content \in {<<>>, <<"text">>}

(* The flags know where an undisturbed stream stands.                      *)
FlagsTrue ==
  /\ node = "idle" /\ waiting # "no" /\ disturbed = {} => flags = Fresh
  /\ streaming /\ disturbed = {} =>
       /\ Folded(sent)
       /\ node \notin {"idle", "streaming", "retry_empty_answer"} /\ Open(flags) =>
            InFold(sent)
       /\ node = "streaming" /\ Open(heard) => InFold(sent)
       /\ node # "idle" /\ Has(sent, "</think>") => "text" \in Shown(sent)
       /\ node = "streaming" => \A p : Has(heard.text, p) => Has(sent, p)
       /\ node \in Called => ContentSent

SInv ==
  /\ StreamTypeOK /\ Budgets /\ Paused /\ NoticesLast
  /\ Unclosed /\ ClosedInSent /\ FlagsTrue /\ NoticesAreSeen

LEMMA StreamTypes ==
  ASSUME StreamTypeOK
  PROVE  /\ heard.opened \in BOOLEAN /\ heard.closed \in BOOLEAN /\ heard.text \in Seq(Pieces)
         /\ flags.opened \in BOOLEAN /\ flags.closed \in BOOLEAN
         /\ last.content \in Seq(Pieces) /\ last.tools \in Routing
         /\ sent \in Seq(Pieces)
         /\ iterations \in Nat /\ retries \in Nat
BY StreamAssumption DEF StreamTypeOK, Flags

LEMMA StreamInitially == Init => SInv
<1> SUFFICES ASSUME Init PROVE SInv
  OBVIOUS
<1>1. /\ node = "idle" /\ waiting = "no" /\ flags = Fresh /\ heard = Silence
      /\ last = [content |-> <<>>, tools |-> "none"] /\ iterations = 0 /\ retries = 0
      /\ streaming = FALSE /\ sent = <<>> /\ disturbed = {}
  BY DEF Init, StreamInit
<1>2. StreamTypeOK
  <2>1. Silence \in [opened : BOOLEAN, closed : BOOLEAN, text : Seq(Pieces)]
    BY EmptyText DEF Silence
  <2>2. last \in [content : Seq(Pieces), tools : Routing]
    BY <1>1, EmptyText DEF Routing
  <2> QED
    <3>1. 0 \in 0..MaxToolIterations /\ 0 \in 0..MaxEmptyAnswerRetries
      BY StreamAssumption
    <3>2. Fresh \in Flags /\ <<>> \in Seq(Pieces)
      BY EmptyText DEF Fresh, Flags
    <3> QED
      BY <1>1, <2>1, <2>2, <3>1, <3>2 DEF StreamTypeOK
<1>3. NoticesLast
  BY <1>1, EmptyText DEF NoticesLast, NoNotice, Silence
<1> QED
  BY <1>1, <1>2, <1>3, EmptyText
  DEF SInv, Budgets, Paused, Unclosed, ClosedInSent, FlagsTrue, NoticesAreSeen,
      Calls, Called

LEMMA AskLlmKeeps ==
  ASSUME SInv, AskLlm
  PROVE  SInv'
<1>1. /\ node = "call_llm" /\ node' = "streaming"
      /\ heard' = [opened |-> flags.opened, closed |-> flags.closed, text |-> <<>>]
      /\ UNCHANGED <<waiting, flags, last, iterations, retries, streaming, sent, disturbed>>
  BY DEF AskLlm
<1>2. StreamTypeOK'
  <2>1. heard' \in [opened : BOOLEAN, closed : BOOLEAN, text : Seq(Pieces)]
    BY <1>1, EmptyText, StreamTypes DEF SInv
  <2> QED
    BY <1>1, <2>1 DEF SInv, StreamTypeOK
<1>3. Budgets' /\ Paused' /\ NoticesLast'
  BY <1>1, EmptyText DEF SInv, Budgets, Paused, NoticesLast, NoNotice
<1>4. Unclosed' /\ ClosedInSent'
  BY <1>1 DEF SInv, Unclosed, ClosedInSent, Calls, Called
<1>5. FlagsTrue'
  BY <1>1, EmptyText DEF SInv, FlagsTrue, Open, Called
<1>6. NoticesAreSeen'
  BY <1>1 DEF NoticesAreSeen
<1> QED
  BY <1>2, <1>3, <1>4, <1>5, <1>6 DEF SInv

LEMMA HearDeltaKeeps ==
  ASSUME SInv, NEW delta \in Delta, HearDelta(delta)
  PROVE  SInv'
<1> DEFINE hearing == Opens(delta) \/ InFold(heard.text)
           sending == Opens(delta) \/ InFold(sent)
<1>1. /\ node = "streaming" /\ node' = "streaming"
      /\ heard' = [opened |-> heard.opened \/ delta.reasoning,
                   closed |-> heard.closed \/ Closes(delta),
                   text   |-> Converted(heard.text, delta)]
      /\ sent' = IF streaming THEN Converted(sent, delta) ELSE sent
      /\ disturbed' = disturbed \cup IF delta.reasoning /\ heard.closed THEN {"late"} ELSE {}
      /\ UNCHANGED <<waiting, flags, last, iterations, retries, streaming>>
  BY DEF HearDelta
<1>2. /\ heard.opened \in BOOLEAN /\ heard.closed \in BOOLEAN /\ heard.text \in Seq(Pieces)
      /\ sent \in Seq(Pieces) /\ streaming \in BOOLEAN
      /\ delta.reasoning \in BOOLEAN /\ delta.text \in BOOLEAN
  BY StreamTypes DEF SInv, StreamTypeOK, Delta
<1>3. /\ Converted(heard.text, delta) \in Seq(Pieces)
      /\ \A p : Has(Converted(heard.text, delta), p) <=>
           \/ Has(heard.text, p)
           \/ Opens(delta) /\ p = "<think>"
           \/ delta.reasoning /\ p = "reasoning"
           \/ Closes(delta) /\ p = "</think>"
           \/ delta.text /\ p = "text"
      /\ \A p : p \in Shown(Converted(heard.text, delta)) <=>
           \/ p \in Shown(heard.text)
           \/ delta.reasoning /\ p = "reasoning" /\ ~hearing
           \/ Closes(delta) /\ p = "</think>" /\ ~hearing
           \/ delta.text /\ p = "text" /\ (Closes(delta) \/ ~hearing)
  BY <1>2, TextConverted
<1>4. /\ Converted(sent, delta) \in Seq(Pieces)
      /\ \A p : Has(Converted(sent, delta), p) <=>
           \/ Has(sent, p)
           \/ Opens(delta) /\ p = "<think>"
           \/ delta.reasoning /\ p = "reasoning"
           \/ Closes(delta) /\ p = "</think>"
           \/ delta.text /\ p = "text"
      /\ InFold(Converted(sent, delta)) <=> sending /\ ~Closes(delta)
      /\ \A p : p \in Shown(Converted(sent, delta)) <=>
           \/ p \in Shown(sent)
           \/ delta.reasoning /\ p = "reasoning" /\ ~sending
           \/ Closes(delta) /\ p = "</think>" /\ ~sending
           \/ delta.text /\ p = "text" /\ (Closes(delta) \/ ~sending)
  BY <1>2, TextConverted
<1> HIDE DEF hearing, sending
<1>5. StreamTypeOK'
  <2>1. heard' \in [opened : BOOLEAN, closed : BOOLEAN, text : Seq(Pieces)]
    <3>1. Closes(delta) \in BOOLEAN
      BY <1>2 DEF Closes
    <3> QED
      BY <1>1, <1>2, <1>3, <3>1
  <2>2. sent' \in Seq(Pieces)
    BY <1>1, <1>2, <1>4
  <2> QED
    BY <1>1, <2>1, <2>2 DEF SInv, StreamTypeOK
<1>6. Budgets' /\ Paused'
  BY <1>1 DEF SInv, Budgets, Paused
<1>7. NoticesLast'
  <2>1. \A p \in Notices : p \notin {"<think>", "</think>", "reasoning", "text"}
    BY DEF Notices
  <2>2. NoNotice(heard'.text)
    BY <1>1, <1>3, <2>1 DEF SInv, NoticesLast, NoNotice
  <2>3. NoNotice(sent')
    BY <1>1, <1>4, <2>1 DEF SInv, NoticesLast, NoNotice
  <2> QED
    BY <1>1, <2>2, <2>3 DEF SInv, NoticesLast, NoNotice, Has
<1>8. Unclosed'
  <2>1. "early" \notin disturbed' => "early" \notin disturbed
    BY <1>1
  <2>2. Closes(delta) => delta.text
    BY DEF Closes
  <2>3. "text" \in Shown(heard.text) \/ Closes(delta) => "text" \in Shown(heard'.text)
    BY <1>1, <1>3, <2>2
  <2> QED
    BY <1>1, <2>1, <2>3 DEF SInv, Unclosed, Called, Shown
<1>9. ClosedInSent'
  <2>1. "early" \notin disturbed' => "early" \notin disturbed
    BY <1>1
  <2> SUFFICES ASSUME "early" \notin disturbed, streaming, Has(sent', "</think>")
               PROVE  heard'.opened /\ heard'.closed /\ ~InFold(sent')
    BY <1>1, <2>1 DEF ClosedInSent, Called, Has, InFold, Inside
  <2>2. sent' = Converted(sent, delta)
    BY <1>1
  <2>3. CASE Closes(delta)
    BY <1>1, <1>2, <1>4, <2>2, <2>3 DEF Closes
  <2>4. CASE ~Closes(delta)
    <3>1. Has(sent, "</think>")
      BY <1>4, <2>2, <2>4
    <3>2. heard.opened /\ heard.closed /\ ~InFold(sent)
      BY <1>1, <3>1 DEF SInv, ClosedInSent, Called
    <3>3. ~sending
      BY <3>2 DEF sending, Opens
    <3> QED
      BY <1>1, <1>2, <1>4, <2>2, <3>2, <3>3
  <2> QED
    BY <2>3, <2>4
<1>10. FlagsTrue'
  <2> SUFFICES ASSUME streaming', disturbed' = {}
               PROVE  /\ Folded(sent)'
                      /\ Open(heard)' => InFold(sent)'
                      /\ Has(sent, "</think>")' => ("text" \in Shown(sent))'
                      /\ \A p : Has(heard.text, p)' => Has(sent, p)'
    BY <1>1 DEF FlagsTrue, Called
  <2>1. disturbed = {} /\ ~(delta.reasoning /\ heard.closed) /\ streaming
    BY <1>1
  <2>2. /\ Folded(sent) /\ (Open(heard) => InFold(sent))
        /\ Has(sent, "</think>") => "text" \in Shown(sent)
        /\ \A p : Has(heard.text, p) => Has(sent, p)
    BY <1>1, <2>1 DEF SInv, FlagsTrue
  <2>3. sent' = Converted(sent, delta) /\ heard'.text = Converted(heard.text, delta)
    BY <1>1, <2>1
  <2>4. (delta.reasoning => sending) /\ (Closes(delta) => sending /\ delta.text)
    BY <1>2, <2>1, <2>2 DEF sending, Opens, Closes, Open
  <2>5. Open(heard') => sending /\ ~Closes(delta)
    BY <1>1, <1>2, <2>1, <2>2 DEF sending, Opens, Closes, Open
  <2>6. Folded(Converted(sent, delta))
    BY <1>4, <2>2, <2>4 DEF Folded
  <2>7. Has(Converted(sent, delta), "</think>") => "text" \in Shown(Converted(sent, delta))
    BY <1>4, <2>2, <2>4
  <2>8. \A p : Has(Converted(heard.text, delta), p) => Has(Converted(sent, delta), p)
    BY <1>3, <1>4, <2>2
  <2>9. Open(heard') => InFold(Converted(sent, delta))
    BY <1>4, <2>5
  <2>10. /\ Folded(sent)' <=> Folded(sent')
         /\ InFold(sent)' <=> InFold(sent')
         /\ Open(heard)' <=> Open(heard')
         /\ \A p : Has(sent, p)' <=> Has(sent', p)
         /\ \A p : Has(heard.text, p)' <=> Has(heard'.text, p)
         /\ Shown(sent)' = Shown(sent')
    BY DEF Folded, InFold, Open, Has, Shown, Inside
  <2> QED
    BY <2>3, <2>6, <2>7, <2>8, <2>9, <2>10
<1>11. NoticesAreSeen'
  BY <1>1 DEF NoticesAreSeen
<1> QED
  BY <1>5, <1>6, <1>7, <1>8, <1>9, <1>10, <1>11 DEF SInv

LEMMA LlmAnswersKeeps ==
  ASSUME SInv, NEW tools \in Routing, NEW prose \in BOOLEAN, LlmAnswers(tools, prose)
  PROVE  SInv'
<1> DEFINE closes  == heard.opened /\ ~heard.closed /\ (tools = "none" \/ prose)
           closed  == heard.closed \/ closes
           content == IF closes THEN Append(heard.text, "</think>") ELSE heard.text
<1>1. /\ node = "streaming" /\ node' = "has_tool_calls"
      /\ flags' = [opened |-> heard.opened, closed |-> closed]
      /\ last' = [content |-> content, tools |-> tools]
      /\ disturbed' = disturbed \cup IF closed /\ tools # "none" THEN {"early"} ELSE {}
      /\ heard' = Silence
      /\ UNCHANGED <<waiting, iterations, retries, streaming, sent>>
  BY DEF LlmAnswers
<1>2. /\ heard.opened \in BOOLEAN /\ heard.closed \in BOOLEAN /\ heard.text \in Seq(Pieces)
      /\ sent \in Seq(Pieces) /\ streaming \in BOOLEAN
  BY StreamTypes DEF SInv, StreamTypeOK
<1>3. /\ "</think>" \in Pieces /\ Append(heard.text, "</think>") \in Seq(Pieces)
      /\ content \in Seq(Pieces)
      /\ \A p : Has(content, p) <=> Has(heard.text, p) \/ (closes /\ p = "</think>")
  <2>1. "</think>" \in Pieces
    BY DEF Pieces
  <2> QED
    BY <1>2, <2>1, TextAppended
<1>4. closed \in BOOLEAN /\ (heard.closed => ~closes)
  BY <1>2
<1> HIDE DEF content, closed
<1>5. StreamTypeOK'
  <2>1. /\ last' \in [content : Seq(Pieces), tools : Routing]
        /\ flags' \in Flags
    BY <1>1, <1>2, <1>3, <1>4 DEF Flags
  <2>2. heard' \in [opened : BOOLEAN, closed : BOOLEAN, text : Seq(Pieces)]
    BY <1>1, EmptyText DEF Silence
  <2> QED
    BY <1>1, <2>1, <2>2 DEF SInv, StreamTypeOK
<1>6. Budgets' /\ Paused'
  BY <1>1 DEF SInv, Budgets, Paused
<1>7. NoticesLast'
  <2>1. \A p \in Notices : p # "</think>"
    BY DEF Notices
  <2>2. NoNotice(content) /\ NoNotice(heard'.text)
    BY <1>1, <1>3, <2>1, EmptyText DEF SInv, NoticesLast, NoNotice, Silence
  <2> QED
    BY <1>1, <2>2 DEF SInv, NoticesLast, NoNotice, Has
<1>8. Unclosed'
  <2>1. "early" \notin disturbed' => ~closed \/ tools = "none"
    BY <1>1
  <2> QED
    BY <1>1, <2>1 DEF Unclosed, Calls, Called
<1>9. ClosedInSent'
  <2> SUFFICES ASSUME "early" \notin disturbed', streaming', Has(sent, "</think>")'
               PROVE  tools = "none" /\ HasVisibleAnswer(content)
    BY <1>1 DEF ClosedInSent, Called, HasVisibleAnswer, Shown, Inside
  <2>1. Has(sent, "</think>") /\ "early" \notin disturbed /\ streaming
    BY <1>1 DEF Has
  <2>2. heard.closed
    BY <1>1, <2>1 DEF SInv, ClosedInSent, Called
  <2>3. tools = "none"
    BY <1>1, <2>2 DEF closed
  <2>4. "text" \in Shown(heard.text) /\ content = heard.text
    BY <1>1, <1>4, <2>1, <2>2 DEF SInv, Unclosed, content
  <2> QED
    BY <2>3, <2>4 DEF HasVisibleAnswer
<1>10. FlagsTrue'
  <2> SUFFICES ASSUME streaming', disturbed' = {}
               PROVE  /\ Folded(sent)'
                      /\ Open(flags)' => InFold(sent)'
                      /\ Has(sent, "</think>")' => ("text" \in Shown(sent))'
                      /\ ContentSent'
    BY <1>1 DEF FlagsTrue
  <2>1. disturbed = {} /\ streaming
    BY <1>1
  <2>2. /\ Folded(sent) /\ (Open(heard) => InFold(sent))
        /\ Has(sent, "</think>") => "text" \in Shown(sent)
        /\ \A p : Has(heard.text, p) => Has(sent, p)
    BY <1>1, <2>1 DEF SInv, FlagsTrue
  <2>3. sent' = sent
    BY <1>1
  <2>4. Open(flags') => InFold(sent)
    BY <1>1, <2>2 DEF Open, closed
  <2>5. closes => InFold(sent)
    BY <2>2 DEF Open
  <2>6. ASSUME NEW i \in DOMAIN content, content[i] = "</think>"
        PROVE  Has(sent, "</think>") \/ (i = Len(content) /\ InFold(sent))
    <3>1. CASE i \in DOMAIN heard.text /\ content[i] = heard.text[i]
      BY <2>2, <2>6, <3>1 DEF Has
    <3>2. CASE ~(i \in DOMAIN heard.text /\ content[i] = heard.text[i])
      <4>1. closes /\ content = Append(heard.text, "</think>")
        BY <2>6, <3>2 DEF content
      <4>2. i = Len(content)
        BY <1>2, <1>3, <2>6, <3>2, <4>1, AppendProperties, LenProperties
      <4> QED
        BY <2>5, <4>1, <4>2
    <3> QED
      BY <3>1, <3>2
  <2>7. sent = <<>> => content = <<>>
    <3> SUFFICES ASSUME sent = <<>> PROVE content = <<>>
      OBVIOUS
    <3>1. ~InFold(sent) /\ \A p : ~Has(sent, p)
      BY EmptyText
    <3>2. \A p : ~Has(content, p)
      BY <1>3, <2>2, <2>5, <3>1
    <3> QED
      BY <1>3, <3>2, Indices, EmptyText DEF Has
  <2>8. ContentSent'
    BY <1>1, <2>3, <2>6, <2>7 DEF ContentSent, Has, InFold, Inside
  <2> QED
    BY <2>2, <2>3, <2>4, <2>8 DEF Folded, InFold, Inside, Open, Has, Shown
<1>11. NoticesAreSeen'
  BY <1>1 DEF NoticesAreSeen
<1> QED
  BY <1>5, <1>6, <1>7, <1>8, <1>9, <1>10, <1>11 DEF SInv

LEMMA HasToolCallsKeeps ==
  ASSUME SInv, HasToolCalls
  PROVE  SInv'
<1>1. /\ node = "has_tool_calls"
      /\ node' \in {"retry_empty_answer", "report", "call_llm"}
      /\ UNCHANGED <<flags, heard, last, retries, streaming, sent, disturbed>>
      /\ node' = "retry_empty_answer" =>
           last.tools = "none" /\ ~HasVisibleAnswer(last.content)
             /\ retries < MaxEmptyAnswerRetries
      /\ node' = "call_llm" => last.tools # "none"
      /\ iterations' = iterations
           \/ (iterations < MaxToolIterations /\ iterations' = iterations + 1)
      /\ waiting' = waiting
           \/ (/\ waiting' = "pause" /\ last.tools # "none" /\ node' = "report"
               /\ iterations < MaxToolIterations /\ iterations' = iterations)
  BY DEF HasToolCalls
<1>2. iterations \in 0..MaxToolIterations /\ MaxToolIterations \in Nat
  BY StreamAssumption DEF SInv, StreamTypeOK
<1>3. waiting = "no"
  BY <1>1 DEF SInv, Paused
<1>4. StreamTypeOK'
  <2>1. iterations' \in 0..MaxToolIterations /\ waiting' \in {"no", "pause"}
    BY <1>1, <1>2, <1>3
  <2> QED
    BY <1>1, <2>1 DEF SInv, StreamTypeOK
<1>5. Budgets' /\ Paused' /\ NoticesLast'
  BY <1>1, <1>3 DEF SInv, Budgets, Paused, NoticesLast, NoNotice
<1>6. Unclosed' /\ ClosedInSent'
  BY <1>1 DEF SInv, Unclosed, ClosedInSent, Calls, Called
<1>7. FlagsTrue'
  BY <1>1 DEF SInv, FlagsTrue, ContentSent, Called
<1>8. NoticesAreSeen'
  BY <1>1 DEF NoticesAreSeen
<1> QED
  BY <1>4, <1>5, <1>6, <1>7, <1>8 DEF SInv

LEMMA RetryKeeps ==
  ASSUME SInv, RetryEmptyAnswer
  PROVE  SInv'
<1>1. /\ node = "retry_empty_answer" /\ node' = "call_llm" /\ flags' = Fresh
      /\ retries' = retries + 1
      /\ UNCHANGED <<waiting, heard, last, iterations, streaming, sent, disturbed>>
  BY DEF RetryEmptyAnswer
<1>2. StreamTypeOK'
  <2>1. retries' \in 0..MaxEmptyAnswerRetries /\ Fresh \in Flags
    BY <1>1, StreamAssumption DEF SInv, StreamTypeOK, Budgets, Fresh, Flags
  <2> QED
    BY <1>1, <2>1 DEF SInv, StreamTypeOK
<1>3. Budgets' /\ Paused' /\ NoticesLast'
  BY <1>1 DEF SInv, Budgets, Paused, NoticesLast, NoNotice
<1>4. Unclosed' /\ ClosedInSent'
  BY <1>1 DEF SInv, Unclosed, ClosedInSent, Calls, Called, Fresh
<1>5. FlagsTrue'
  BY <1>1 DEF SInv, FlagsTrue, Called, Fresh, Open
<1>6. NoticesAreSeen'
  BY <1>1 DEF NoticesAreSeen
<1> QED
  BY <1>2, <1>3, <1>4, <1>5, <1>6 DEF SInv

LEMMA SlashKeeps ==
  ASSUME SInv, RunSlashCommandDirect
  PROVE  SInv'
<1>1. /\ node = "run_slash_command_direct" /\ node' = "report"
      /\ last' = [content |-> <<"text">>, tools |-> "none"]
      /\ UNCHANGED <<waiting, flags, heard, iterations, retries, streaming, sent, disturbed>>
  BY DEF RunSlashCommandDirect
<1>2. /\ <<"text">> \in Seq(Pieces) /\ Len(<<"text">>) = 1
      /\ \A i \in DOMAIN <<"text">> : <<"text">>[i] = "text"
  BY DEF Pieces
<1>3. StreamTypeOK'
  <2>1. last' \in [content : Seq(Pieces), tools : Routing]
    BY <1>1, <1>2 DEF Routing
  <2> QED
    BY <1>1, <2>1 DEF SInv, StreamTypeOK
<1>4. Budgets' /\ Paused'
  BY <1>1 DEF SInv, Budgets, Paused
<1>5. NoticesLast'
  <2>1. NoNotice(<<"text">>)
    BY <1>2 DEF NoNotice, Has, Notices
  <2> QED
    BY <1>1, <2>1 DEF SInv, NoticesLast, NoNotice, Has
<1>6. Unclosed' /\ ClosedInSent'
  BY <1>1 DEF SInv, Unclosed, ClosedInSent, Calls, Called
<1>7. FlagsTrue'
  <2>1. ContentSent'
    BY <1>1, <1>2 DEF ContentSent
  <2> QED
    BY <1>1, <2>1 DEF SInv, FlagsTrue
<1>8. NoticesAreSeen'
  BY <1>1 DEF NoticesAreSeen
<1> QED
  BY <1>3, <1>4, <1>5, <1>6, <1>7, <1>8 DEF SInv

(* How the texts at the end of an answer are put together.                 *)
LEMMA Endings ==
  ASSUME NEW text \in Seq(Pieces)
  PROVE  /\ text \o <<>> = text /\ <<>> \o text = text
         /\ text \o <<"</think>">> = Append(text, "</think>")
         /\ \A p \in Pieces :
              /\ text \o Append(<<>>, p) = Append(text, p)
              /\ text \o Append(<<"</think>">>, p) = Append(Append(text, "</think>"), p)
<1>1. text \o <<>> = text /\ <<>> \o text = text
  BY ConcatEmptySeq
<1>2. \A p \in Pieces : Append(text, p) = text \o <<p>>
  BY AppendIsConcat
<1>3. "</think>" \in Pieces
  BY DEF Pieces
<1>4. ASSUME NEW p \in Pieces
      PROVE  /\ text \o Append(<<>>, p) = Append(text, p)
             /\ text \o Append(<<"</think>">>, p) = Append(Append(text, "</think>"), p)
  <2>1. Append(<<>>, p) = <<p>> /\ Append(<<"</think>">>, p) = <<"</think>">> \o <<p>>
    OBVIOUS
  <2>2. <<p>> \in Seq(Pieces) /\ <<"</think>">> \in Seq(Pieces)
    BY <1>3
  <2>3. Append(text, "</think>") \in Seq(Pieces)
    BY <1>3, AppendProperties
  <2>4. Append(Append(text, "</think>"), p) = (text \o <<"</think>">>) \o <<p>>
    BY <1>2, <1>3, <2>3, AppendIsConcat
  <2>5. (text \o <<"</think>">>) \o <<p>> = text \o (<<"</think>">> \o <<p>>)
    BY <2>2, ConcatAssociative
  <2> QED
    BY <1>2, <2>1, <2>4, <2>5
<1> QED
  BY <1>1, <1>2, <1>3, <1>4

(* A notice ends the stream outside the fold, and closes it first if it    *)
(* has to: there is no closing tag yet.                                    *)
LEMMA NoticeEnds ==
  ASSUME sent \in Seq(Pieces), ~Has(sent, "</think>"), NEW notice \in Notices
  PROVE  LET ended == sent \o Append(ClosingPrefix(sent), notice)
         IN  /\ ended \in Seq(Pieces) /\ ended # <<>> /\ Last(ended) = notice
             /\ Shown(ended) = Shown(sent) \cup {notice}
             /\ ClosingPrefix(sent) = <<>> => ~InFold(sent)
<1> DEFINE ended == sent \o Append(ClosingPrefix(sent), notice)
<1>1. /\ Times("<think>", sent) \in Nat /\ Times("</think>", sent) = 0
      /\ Times("<think>", sent) = 0 <=> ~InFold(sent)
  <2>1. Times("</think>", sent) = 0
    BY TagsCounted
  <2>2. Times("<think>", sent) \in Nat /\ (Times("<think>", sent) = 0 <=> ~Has(sent, "<think>"))
    BY TagsCounted
  <2> QED
    BY <2>1, <2>2, OpenText
<1>2. ClosingPrefix(sent) = IF InFold(sent) THEN <<"</think>">> ELSE <<>>
  BY <1>1 DEF ClosingPrefix
<1>3. notice \in Pieces /\ "</think>" \in Pieces /\ notice \notin {"<think>", "</think>"}
  BY DEF Pieces, Notices
<1>4. CASE ~InFold(sent)
  <2>1. ClosingPrefix(sent) = <<>>
    BY <1>2, <1>4
  <2>2. sent \o Append(<<>>, notice) = Append(sent, notice)
    BY <1>3, Endings
  <2>3. /\ Append(sent, notice) \in Seq(Pieces) /\ Append(sent, notice) # <<>>
        /\ Last(Append(sent, notice)) = notice
        /\ Shown(Append(sent, notice)) = Shown(sent) \cup {notice}
    BY <1>3, <1>4, TextAppended
  <2> QED
    BY <1>4, <2>1, <2>2, <2>3
<1>5. CASE InFold(sent)
  <2> DEFINE closed == Append(sent, "</think>")
  <2>1. ClosingPrefix(sent) = <<"</think>">> /\ <<"</think>">> # <<>>
    BY <1>2, <1>5
  <2>2. closed \in Seq(Pieces) /\ ~InFold(closed) /\ Shown(closed) = Shown(sent)
    <3>1. /\ closed \in Seq(Pieces)
          /\ InFold(closed) <=> "</think>" = "<think>" \/ (InFold(sent) /\ "</think>" # "</think>")
          /\ Shown(closed) =
               Shown(sent) \cup (IF "</think>" = "<think>" \/ InFold(sent) THEN {} ELSE {"</think>"})
      BY <1>3, TextAppended
    <3>2. "</think>" # "<think>"
      OBVIOUS
    <3> HIDE DEF closed
    <3> QED
      BY <1>5, <3>1, <3>2
  <2>3. /\ Append(closed, notice) \in Seq(Pieces) /\ Append(closed, notice) # <<>>
        /\ Last(Append(closed, notice)) = notice
        /\ Shown(Append(closed, notice)) = Shown(closed) \cup {notice}
    BY <1>3, <2>2, TextAppended
  <2>4. sent \o Append(<<"</think>">>, notice) = Append(closed, notice)
    BY <1>3, Endings
  <2> QED
    BY <2>1, <2>2, <2>3, <2>4
<1> QED
  BY <1>4, <1>5

LEMMA FrontAppended ==
  ASSUME NEW text \in Seq(Pieces), NEW piece \in Pieces
  PROVE  Front(Append(text, piece)) = text
BY AppendProperties, LenProperties DEF Front

LEMMA FailLlmKeeps ==
  ASSUME SInv, FailLlm
  PROVE  SInv'
<1>1. /\ node \in Calls /\ node' = "idle" /\ waiting' = "cut"
      /\ sent' = Append(sent, "error") /\ heard' = Silence
      /\ disturbed' = disturbed \cup {"cut"}
      /\ UNCHANGED <<flags, last, iterations, retries, streaming>>
  BY DEF FailLlm, Calls
<1>2. /\ sent' \in Seq(Pieces) /\ Last(sent') = "error"
  <2>1. sent \in Seq(Pieces) /\ "error" \in Pieces
    BY StreamTypes DEF SInv, Pieces, Notices
  <2> QED
    BY <1>1, <2>1, TextAppended
<1>3. StreamTypeOK'
  <2>1. heard' \in [opened : BOOLEAN, closed : BOOLEAN, text : Seq(Pieces)]
    BY <1>1, EmptyText DEF Silence
  <2> QED
    BY <1>1, <1>2, <2>1 DEF SInv, StreamTypeOK
<1>4. Budgets' /\ Paused'
  BY <1>1 DEF Budgets, Paused
<1>5. NoticesLast'
  BY <1>1, EmptyText DEF SInv, NoticesLast, NoNotice, Silence
<1>6. Unclosed' /\ ClosedInSent' /\ FlagsTrue'
  BY <1>1 DEF SInv, Unclosed, ClosedInSent, FlagsTrue, Calls, Called
<1>7. NoticesAreSeen'
  <2>1. sent \in Seq(Pieces) /\ "error" \in Pieces /\ "error" # "<think>"
    BY StreamTypes DEF SInv, Pieces, Notices
  <2>2. Front(sent') = sent
    BY <1>1, <2>1, FrontAppended
  <2>3. ASSUME streaming, "early" \notin disturbed, ClosingPrefix(sent) = <<>>
        PROVE  ~InFold(sent)
    <3>1. CASE ~Has(sent, "</think>")
      BY <2>1, <2>3, <3>1, NoticeEnds DEF Notices
    <3>2. CASE Has(sent, "</think>")
      BY <1>1, <2>3, <3>2 DEF SInv, ClosedInSent, Calls, Called
    <3> QED
      BY <3>1, <3>2
  <2>4. ~InFold(sent) => "error" \in Shown(Append(sent, "error"))
    BY <2>1, TextAppended
  <2>5. /\ Shown(sent)' = Shown(sent') /\ Last(sent)' = Last(sent')
        /\ ClosingPrefix(Front(sent))' = ClosingPrefix(Front(sent'))
    BY DEF Shown, Inside, Last, Front, ClosingPrefix, Times
  <2> QED
    BY <1>1, <1>2, <2>2, <2>3, <2>4, <2>5 DEF NoticesAreSeen
<1> QED
  BY <1>3, <1>4, <1>5, <1>6, <1>7 DEF SInv

LEMMA EndPlainKeeps ==
  ASSUME SInv, EndPlain
  PROVE  SInv'
<1>1. /\ node = "report" /\ ~streaming /\ node' = "idle"
      /\ disturbed' = disturbed \cup {"plain"}
      /\ UNCHANGED <<waiting, flags, heard, last, iterations, retries, streaming>>
      /\ sent' = CASE waiting = "pause"                         -> <<"pending">>
                   [] waiting # "pause" /\ last.tools # "none"  -> <<"limit">>
                   [] waiting # "pause" /\ last.tools = "none"  ->
                        IF HasVisibleAnswer(last.content) THEN last.content ELSE <<"empty">>
  BY DEF EndPlain
<1>2. StreamTypeOK'
  <2>1. \A p \in Notices : <<p>> \in Seq(Pieces)
    BY DEF Pieces
  <2>2. {"pending", "limit", "empty"} \subseteq Notices
    BY DEF Notices
  <2>3. sent' \in Seq(Pieces)
    BY <1>1, <2>1, <2>2, StreamTypes DEF SInv
  <2> QED
    BY <1>1, <2>3 DEF SInv, StreamTypeOK
<1>3. Budgets' /\ Paused' /\ NoticesLast'
  BY <1>1 DEF SInv, Budgets, Paused, NoticesLast, NoNotice
<1>4. Unclosed' /\ ClosedInSent' /\ FlagsTrue'
  BY <1>1 DEF SInv, Paused, Unclosed, ClosedInSent, FlagsTrue, Calls, Called
<1>5. NoticesAreSeen'
  BY <1>1 DEF NoticesAreSeen
<1> QED
  BY <1>2, <1>3, <1>4, <1>5 DEF SInv

LEMMA LastOfBoth ==
  ASSUME NEW text \in Seq(Pieces), NEW more \in Seq(Pieces), more # <<>>
  PROVE  Last(text \o more) = Last(more)
<1>1. Len(text) \in Nat /\ Len(more) \in Nat /\ Len(more) # 0
  BY Indices
<1>2. /\ Len(text \o more) = Len(text) + Len(more)
      /\ \A i \in 1..(Len(text) + Len(more)) :
           (text \o more)[i] = IF i <= Len(text) THEN text[i] ELSE more[i - Len(text)]
  BY ConcatProperties
<1>3. /\ Len(text) + Len(more) \in 1..(Len(text) + Len(more))
      /\ ~(Len(text) + Len(more) <= Len(text))
      /\ (Len(text) + Len(more)) - Len(text) = Len(more)
  BY <1>1
<1> QED
  BY <1>2, <1>3 DEF Last

(* A message that the stream did not show is added to it.  Either nothing  *)
(* was sent, or what was is still in the fold and swallows it.             *)
LEMMA MessageEnds ==
  ASSUME SInv, streaming, disturbed = {}, node = "report",
         ~HasVisibleAnswer(sent \o ClosingPrefix(sent))
  PROVE  Folded(sent \o last.content)
<1>1. sent \in Seq(Pieces) /\ last.content \in Seq(Pieces)
  BY StreamTypes DEF SInv
<1>2. ContentSent /\ (Has(sent, "</think>") => "text" \in Shown(sent))
  BY DEF SInv, FlagsTrue, Called
<1>3. Shown(sent) = {}
  <2>1. CASE ClosingPrefix(sent) = <<>>
    <3>1. sent \o ClosingPrefix(sent) = sent
      BY <1>1, <2>1, Endings
    <3> QED
      BY <3>1 DEF HasVisibleAnswer
  <2>2. CASE ClosingPrefix(sent) = <<"</think>">>
    <3>1. sent \o ClosingPrefix(sent) = Append(sent, "</think>") /\ "</think>" \in Pieces
      BY <1>1, <2>2, Endings DEF Pieces
    <3>2. Shown(sent) \subseteq Shown(Append(sent, "</think>"))
      BY <1>1, <3>1, TextAppended
    <3> QED
      BY <3>1, <3>2 DEF HasVisibleAnswer
  <2> QED
    BY <2>1, <2>2 DEF ClosingPrefix
<1>4. ~Has(sent, "</think>")
  BY <1>2, <1>3
<1>5. CASE sent = <<>>
  <2>1. sent \o last.content = last.content
    BY <1>1, <1>5, Endings
  <2>2. last.content \in {<<>>, <<"text">>}
    BY <1>2, <1>5 DEF ContentSent
  <2>3. Shown(<<"text">>) \subseteq {"text"}
    BY DEF Shown
  <2> QED
    BY <2>1, <2>2, <2>3, EmptyText DEF Folded
<1>6. CASE sent # <<>>
  <2>1. InFold(sent)
    BY <1>1, <1>3, <1>4, <1>6, OpenText
  <2>2. \A i \in DOMAIN last.content : last.content[i] = "</think>" => i = Len(last.content)
    BY <1>2, <1>4 DEF ContentSent
  <2>3. Shown(sent \o last.content) = Shown(sent)
    BY <1>1, <2>1, <2>2, Swallowed
  <2> QED
    BY <1>3, <2>3 DEF Folded
<1> QED
  BY <1>5, <1>6

LEMMA EndStreamKeeps ==
  ASSUME SInv, EndStream
  PROVE  SInv'
<1>1. /\ node = "report" /\ streaming /\ node' = "idle"
      /\ flags' = IF ClosingPrefix(sent) # <<>> THEN Fresh ELSE flags
      /\ sent' = sent \o Ending
      /\ UNCHANGED <<waiting, heard, last, iterations, retries, streaming, disturbed>>
  BY DEF EndStream
<1>2. /\ sent \in Seq(Pieces) /\ last.content \in Seq(Pieces)
      /\ flags.opened \in BOOLEAN /\ flags.closed \in BOOLEAN /\ flags \in Flags
      /\ waiting = "no" \/ (waiting = "pause" /\ last.tools # "none")
  BY <1>1, StreamTypes DEF SInv, StreamTypeOK, Paused
<1>3. \/ \E notice \in {"pending", "limit", "empty"} :
           /\ Ending = Append(ClosingPrefix(sent), notice)
           /\ last.tools # "none" \/ ~HasVisibleAnswer(last.content)
      \/ Ending = <<>> /\ waiting # "pause" /\ last.tools = "none"
      \/ /\ Ending = last.content /\ waiting # "pause" /\ last.tools = "none"
         /\ ~HasVisibleAnswer(sent \o ClosingPrefix(sent)) /\ HasVisibleAnswer(last.content)
  <2>1. CASE waiting = "pause"
    BY <1>2, <2>1 DEF Ending
  <2>2. CASE waiting # "pause" /\ last.tools # "none"
    BY <2>2 DEF Ending
  <2>3. CASE waiting # "pause" /\ last.tools = "none"
    BY <2>3 DEF Ending
  <2> QED
    BY <2>1, <2>2, <2>3
<1>4. ASSUME last.tools # "none" \/ ~HasVisibleAnswer(last.content), "early" \notin disturbed
      PROVE  ~Has(sent, "</think>")
  BY <1>1, <1>4 DEF SInv, ClosedInSent
<1>5. /\ {"pending", "limit", "empty"} \subseteq Notices
      /\ \A p \in Notices : p \in Pieces /\ p \notin {"reasoning", "</think>"}
  BY DEF Notices, Pieces
<1>6. StreamTypeOK'
  <2>1. Ending \in Seq(Pieces)
    <3>1. ClosingPrefix(sent) \in Seq(Pieces)
      BY EmptyText DEF ClosingPrefix, Pieces
    <3>2. \A notice \in Notices : Append(ClosingPrefix(sent), notice) \in Seq(Pieces)
      BY <1>5, <3>1, AppendProperties
    <3> QED
      BY <1>2, <1>3, <1>5, <3>2, EmptyText
  <2>2. sent' \in Seq(Pieces)
    BY <1>1, <1>2, <2>1, ConcatProperties
  <2>3. flags' \in Flags
    BY <1>1, <1>2 DEF Fresh, Flags
  <2> QED
    BY <1>1, <2>2, <2>3 DEF SInv, StreamTypeOK
<1>7. Budgets' /\ Paused' /\ NoticesLast'
  BY <1>1 DEF SInv, Budgets, Paused, NoticesLast, NoNotice
<1>8. Unclosed' /\ ClosedInSent'
  BY <1>1, <1>2 DEF SInv, Unclosed, ClosedInSent, Calls, Called, Fresh
<1>9. ASSUME waiting # "no", disturbed = {}
      PROVE  flags' = Fresh
  <2>1. CASE ClosingPrefix(sent) # <<>>
    BY <1>1, <2>1
  <2>2. CASE ClosingPrefix(sent) = <<>>
    <3>1. ~Has(sent, "</think>")
      BY <1>2, <1>4, <1>9
    <3>2. ~InFold(sent)
      BY <1>2, <1>5, <2>2, <3>1, NoticeEnds
    <3>3. ~Open(flags)
      BY <1>1, <1>9, <3>2 DEF SInv, FlagsTrue
    <3>4. ~flags.closed
      BY <1>1, <1>2, <1>9 DEF SInv, Unclosed, Called
    <3>5. flags = [opened |-> FALSE, closed |-> FALSE]
      BY <1>2, <3>3, <3>4 DEF Open, Flags
    <3> QED
      BY <1>1, <2>2, <3>5 DEF Fresh
  <2> QED
    BY <2>1, <2>2
<1>10. ASSUME disturbed = {}
       PROVE  Folded(sent')
  <2>1. Folded(sent)
    BY <1>1, <1>10 DEF SInv, FlagsTrue
  <2>2. CASE \E notice \in {"pending", "limit", "empty"} :
               /\ Ending = Append(ClosingPrefix(sent), notice)
               /\ last.tools # "none" \/ ~HasVisibleAnswer(last.content)
    <3>1. PICK notice \in {"pending", "limit", "empty"} :
            /\ Ending = Append(ClosingPrefix(sent), notice)
            /\ last.tools # "none" \/ ~HasVisibleAnswer(last.content)
      BY <2>2
    <3>2. ~Has(sent, "</think>")
      BY <1>4, <1>10, <3>1
    <3>3. Shown(sent') = Shown(sent) \cup {notice}
      BY <1>1, <1>2, <1>5, <3>1, <3>2, NoticeEnds
    <3> QED
      BY <1>5, <2>1, <3>3 DEF Folded
  <2>3. CASE Ending = <<>>
    BY <1>1, <1>2, <2>1, <2>3, Endings
  <2>4. CASE Ending = last.content /\ ~HasVisibleAnswer(sent \o ClosingPrefix(sent))
    BY <1>1, <1>10, <2>4, MessageEnds
  <2> QED
    BY <1>3, <2>2, <2>3, <2>4
<1>11. FlagsTrue'
  BY <1>1, <1>9, <1>10 DEF FlagsTrue, Folded, Called, Shown, Inside
<1>12. NoticesAreSeen'
  <2> SUFFICES ASSUME "early" \notin disturbed, sent' # <<>>,
                      Last(sent') \in Notices
               PROVE  Last(sent') \in Shown(sent')
    BY <1>1 DEF NoticesAreSeen, Shown, Last, Inside
  <2>1. NoNotice(sent) /\ NoNotice(last.content)
    BY <1>1 DEF SInv, NoticesLast
  <2>2. ASSUME NEW text \in Seq(Pieces), NoNotice(text), text # <<>>
        PROVE  Last(text) \notin Notices
    <3>1. Len(text) \in DOMAIN text
      BY <2>2, Indices
    <3> QED
      BY <2>2, <3>1 DEF NoNotice, Has, Last
  <2>3. CASE \E notice \in {"pending", "limit", "empty"} :
               /\ Ending = Append(ClosingPrefix(sent), notice)
               /\ last.tools # "none" \/ ~HasVisibleAnswer(last.content)
    <3>1. PICK notice \in {"pending", "limit", "empty"} :
            /\ Ending = Append(ClosingPrefix(sent), notice)
            /\ last.tools # "none" \/ ~HasVisibleAnswer(last.content)
      BY <2>3
    <3>2. ~Has(sent, "</think>")
      BY <1>4, <3>1
    <3> QED
      BY <1>1, <1>2, <1>5, <3>1, <3>2, NoticeEnds
  <2>4. CASE Ending = <<>>
    <3>1. sent' = sent
      BY <1>1, <1>2, <2>4, Endings
    <3> QED
      BY <1>2, <2>1, <2>2, <3>1
  <2>5. CASE Ending = last.content /\ HasVisibleAnswer(last.content)
    <3>1. last.content # <<>>
      BY <2>5, EmptyText DEF HasVisibleAnswer
    <3>2. Last(sent') = Last(last.content)
      BY <1>1, <1>2, <2>5, <3>1, LastOfBoth
    <3> QED
      BY <1>2, <2>1, <2>2, <3>1, <3>2
  <2> QED
    BY <1>3, <2>3, <2>4, <2>5
<1> QED
  BY <1>6, <1>7, <1>8, <1>11, <1>12 DEF SInv

(* A request starts on a fresh stream: a new turn with fresh flags, a      *)
(* resumed one with those that the pause left.                             *)
LEMMA RequestKeeps ==
  ASSUME SInv, node = "idle", sent' = <<>>, streaming' \in BOOLEAN,
         node' \in {"call_llm", "run_slash_command_direct"},
         UNCHANGED <<heard, last>>, waiting' = "no",
         \/ flags' = Fresh /\ iterations' = 0 /\ retries' = 0 /\ disturbed' = {}
         \/ /\ waiting # "no" /\ node' = "call_llm"
            /\ UNCHANGED <<flags, retries, disturbed>>
            /\ \/ iterations' = iterations
               \/ waiting = "pause" /\ iterations' = iterations + 1
  PROVE  SInv'
<1>1. StreamTypeOK'
  <2>1. iterations' \in 0..MaxToolIterations /\ retries' \in 0..MaxEmptyAnswerRetries
    BY StreamAssumption DEF SInv, StreamTypeOK, Budgets
  <2>2. flags' \in Flags /\ disturbed' \subseteq {"plain", "cut", "early", "late"}
    <3>1. Fresh \in Flags
      BY DEF Fresh, Flags
    <3>2. flags \in Flags /\ disturbed \subseteq {"plain", "cut", "early", "late"}
      BY DEF SInv, StreamTypeOK
    <3> QED
      BY <3>1, <3>2
  <2> QED
    BY <2>1, <2>2, EmptyText DEF SInv, StreamTypeOK
<1>2. Budgets' /\ Paused'
  BY DEF Budgets, Paused
<1>3. NoticesLast'
  BY EmptyText DEF SInv, NoticesLast, NoNotice
<1>4. Unclosed'
  BY DEF SInv, Unclosed, Calls, Called, Fresh
<1>5. ~Has(sent', "</think>") /\ Shown(sent') = {}
  BY EmptyText
<1>6. ClosedInSent'
  BY <1>5 DEF ClosedInSent, Has
<1>7. disturbed' = {} => flags' = Fresh
  BY DEF SInv, FlagsTrue
<1>8. FlagsTrue'
  BY <1>5, <1>7 DEF FlagsTrue, Folded, Open, Fresh, Called, Shown, Has, Inside
<1>9. NoticesAreSeen'
  BY DEF NoticesAreSeen
<1> QED
  BY <1>1, <1>2, <1>3, <1>4, <1>6, <1>8, <1>9 DEF SInv

LEMMA StreamInductive == SInv /\ [Next]_vars => SInv'
<1> SUFFICES ASSUME SInv, [Next]_vars PROVE SInv'
  OBVIOUS
<1>1. CASE Chat
  <2>1. /\ node = "idle" /\ sent' = <<>> /\ (NewTurn(Len(history')) \/ Reply)
        /\ streaming' \in IF client = "owui" THEN BOOLEAN ELSE {FALSE}
    BY <1>1 DEF Chat
  <2>2. streaming' \in BOOLEAN
    BY <2>1
  <2>3. CASE NewTurn(Len(history'))
    <3>1. /\ node' \in {"call_llm", "run_slash_command_direct"} /\ waiting' = "no"
          /\ heard' = heard /\ last' = last
          /\ flags' = Fresh /\ iterations' = 0 /\ retries' = 0 /\ disturbed' = {}
      BY <2>3 DEF NewTurn
    <3> QED
      BY <2>1, <2>2, <3>1, RequestKeeps
  <2>4. CASE Reply
    <3>1. /\ waiting # "no" /\ node' = "call_llm" /\ waiting' = "no"
          /\ UNCHANGED <<heard, last, flags, retries, disturbed>>
          /\ \/ iterations' = iterations
             \/ waiting = "pause" /\ iterations' = iterations + 1
      BY <2>4 DEF Reply, Resume
    <3> QED
      BY <2>1, <2>2, <3>1, RequestKeeps
  <2> QED
    BY <2>1, <2>3, <2>4
<1>2. CASE Approve
  BY <1>2, RequestKeeps DEF Approve, Resume
<1>3. CASE Work
  BY <1>3, AskLlmKeeps, HearDeltaKeeps, LlmAnswersKeeps, HasToolCallsKeeps,
     RetryKeeps, SlashKeeps DEF Work
<1>4. CASE Answered
  BY <1>4, EndStreamKeeps, EndPlainKeeps DEF Answered
<1>5. CASE Failed
  BY <1>5, FailLlmKeeps DEF Failed
<1>6. CASE UNCHANGED vars
  <2>1. UNCHANGED <<node, waiting, flags, heard, last, iterations, retries, streaming,
                    sent, disturbed>>
    BY <1>6 DEF vars, streamVars
  <2>2. (StreamTypeOK /\ Budgets /\ Paused /\ NoticesLast)'
    BY <2>1 DEF SInv, StreamTypeOK, Budgets, Paused, NoticesLast, NoNotice, Has
  <2>3. (Unclosed /\ ClosedInSent)'
    <3>1. /\ InFold(sent)' <=> InFold(sent)
          /\ Has(sent, "</think>")' <=> Has(sent, "</think>")
          /\ HasVisibleAnswer(last.content)' <=> HasVisibleAnswer(last.content)
          /\ Shown(heard.text)' = Shown(heard.text)
      BY <2>1 DEF InFold, Has, HasVisibleAnswer, Shown, Inside
    <3> QED
      BY <2>1, <3>1 DEF SInv, Unclosed, ClosedInSent
  <2>4. ContentSent' <=> ContentSent
    BY <2>1 DEF ContentSent, Has, InFold, Inside
  <2>5. FlagsTrue'
    <3>1. /\ Folded(sent)' <=> Folded(sent)
          /\ InFold(sent)' <=> InFold(sent)
          /\ ("text" \in Shown(sent))' <=> "text" \in Shown(sent)
      BY <2>1 DEF Folded, InFold, Shown, Inside
    <3>2. \A p : /\ Has(sent, p)' <=> Has(sent, p)
                 /\ Has(heard.text, p)' <=> Has(heard.text, p)
      BY <2>1 DEF Has
    <3>3. (Open(flags)' <=> Open(flags)) /\ (Open(heard)' <=> Open(heard))
      BY <2>1 DEF Open
    <3>4. FlagsTrue
      BY DEF SInv
    <3> QED
      BY <2>1, <2>4, <3>1, <3>2, <3>3, <3>4 DEF FlagsTrue
  <2>6. NoticesAreSeen'
    <3>1. /\ Shown(sent)' = Shown(sent) /\ Last(sent)' = Last(sent)
          /\ ClosingPrefix(Front(sent))' = ClosingPrefix(Front(sent))
      BY <2>1 DEF Shown, Inside, Last, Front, ClosingPrefix, Times
    <3> QED
      BY <2>1, <3>1 DEF SInv, NoticesAreSeen
  <2> QED
    BY <2>2, <2>3, <2>5, <2>6 DEF SInv
<1> QED
  BY <1>1, <1>2, <1>3, <1>4, <1>5, <1>6 DEF Next

LEMMA StreamAlways == Spec => []SInv
BY StreamInitially, StreamInductive, PTL DEF Spec

-----------------------------------------------------------------------------

(* The thread receives every question asked while nothing is pending once, *)
(* in order, and nothing else of the client's history, for a conversation  *)
(* of any length (_resolve_run and /approve).                              *)
THEOREM QuestionsOnce == Spec => []ThreadIsWhatWasAsked
<1>1. IInv => ThreadIsWhatWasAsked
  BY DEF IInv
<1> QED
  BY Initially, Inductive, <1>1, PTL DEF Spec

(* Between requests the stored count covers the client's history, whichever *)
(* of the two conventions /approve has met so far.                          *)
THEOREM CountRight == Spec => []CountCoversHistory
<1>1. IInv => CountCoversHistory
  BY DEF IInv
<1> QED
  BY Initially, Inductive, <1>1, PTL DEF Spec

(* Every variable keeps its type, the counts of tool calls and of retries  *)
(* their budgets included, which a resumed pause adds to as well.          *)
THEOREM Typed == Spec => []TypeOK
<1>1. IInv /\ SInv => TypeOK
  BY DEF IInv, SInv, TypeOK, BookTyped, KeepsConvention, ThreadIsWhatWasAsked
<1> QED
  BY Initially, Inductive, StreamAlways, <1>1, PTL DEF Spec

(* In a stream that nothing disturbed no reasoning and no closing tag is   *)
(* seen, however many calls, pauses and retries it is made of.             *)
THEOREM StaysFolded == Spec => []ReasoningStaysFolded
<1>1. SInv => ReasoningStaysFolded
  BY DEF SInv, FlagsTrue, Folded, ReasoningStaysFolded
<1> QED
  BY StreamAlways, <1>1, PTL

(* As long as no tag was closed before a tool call, the request for an     *)
(* approval and the notices of a limit or an empty answer that end a       *)
(* stream are seen, after a plain answer, a broken one or late reasoning   *)
(* as well; the error notice, which closes no tag, is seen where no prefix *)
(* would have closed one.                                                  *)
THEOREM NoticesSeen == Spec => []NoticesAreSeen
<1>1. SInv => NoticesAreSeen
  BY DEF SInv
<1> QED
  BY StreamAlways, <1>1, PTL

=============================================================================

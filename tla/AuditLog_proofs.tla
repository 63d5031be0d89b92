--------------------------- MODULE AuditLog_proofs ---------------------------
(***************************************************************************)
(* The audit log loses nothing, for any size of file, any number of        *)
(* entries, days and kills, wherever the process is killed; what is read   *)
(* back is exact as long as it is not killed, and otherwise differs by as  *)
(* little as the kills account for.                                        *)
(***************************************************************************)
EXTENDS AuditLog, SequenceTheorems, FiniteSetTheorems, TLAPS

(* An entry stands in a file.                                              *)
In(file, e) == \E i \in DOMAIN file : file[i].entry = e

(* While a file is copied the archive holds no line yet; from then until   *)
(* the file is unlinked the two hold the same.  What is written is an      *)
(* entry that was handed over.                                             *)
CopyInv ==
  /\ at # "idle" => entry \in Entries
  /\ at = "copying" =>
       archives[today] # <<>> /\ archives[today][Len(archives[today])].lines = <<>>
  /\ at = "unlink" =>
       /\ archives[today] # <<>> /\ archives[today][Len(archives[today])].whole
       /\ archives[today][Len(archives[today])].lines = live[today]

IInv == AuditTypeOK /\ CopyInv /\ NothingLost

-----------------------------------------------------------------------------
(* What appending to a sequence does to its members. *)

LEMMA Appended ==
  ASSUME NEW S, NEW s \in Seq(S), NEW x \in S
  PROVE  /\ Append(s, x) \in Seq(S)
         /\ DOMAIN s = 1..Len(s) /\ Len(s) \in Nat
         /\ DOMAIN Append(s, x) = 1..(Len(s) + 1)
         /\ Len(Append(s, x)) = Len(s) + 1
         /\ \A i \in DOMAIN s : i \in DOMAIN Append(s, x) /\ Append(s, x)[i] = s[i]
         /\ Append(s, x)[Len(s) + 1] = x
         /\ Append(s, x) # <<>>
<1>1. /\ Append(s, x) \in Seq(S) /\ Len(Append(s, x)) = Len(s) + 1
      /\ \A i \in 1..Len(s) : Append(s, x)[i] = s[i]
      /\ Append(s, x)[Len(s) + 1] = x
  BY AppendProperties
<1>2. Len(s) \in Nat /\ DOMAIN s = 1..Len(s)
  BY LenProperties
<1>3. DOMAIN Append(s, x) = 1..(Len(s) + 1)
  BY <1>1, LenProperties
<1>4. Append(s, x) # <<>>
  BY <1>1, <1>2, EmptySeq
<1> QED
  BY <1>1, <1>2, <1>3, <1>4

(* The witness of an entry that is kept, in one file or in one archive.    *)
LEMMA Kept ==
  ASSUME NothingLost, NEW e \in logged,
         \A d \in Days : In(live[d], e) =>
           \/ In(live'[d], e)
           \/ \E n \in DOMAIN archives'[d] :
                archives'[d][n].whole /\ In(archives'[d][n].lines, e),
         \A d \in Days : \A n \in DOMAIN archives[d] :
           archives[d][n].whole /\ In(archives[d][n].lines, e) =>
             n \in DOMAIN archives'[d] /\ archives'[d][n] = archives[d][n]
  PROVE  \E d \in Days :
           \/ In(live'[d], e)
           \/ \E n \in DOMAIN archives'[d] :
                archives'[d][n].whole /\ In(archives'[d][n].lines, e)
<1>1. PICK d \in Days :
        \/ In(live[d], e)
        \/ \E n \in DOMAIN archives[d] : archives[d][n].whole /\ In(archives[d][n].lines, e)
  BY DEF NothingLost, In
<1> QED
  BY <1>1

-----------------------------------------------------------------------------

LEMMA Initially == AuditInit => IInv
<1> SUFFICES ASSUME AuditInit PROVE IInv
  OBVIOUS
<1>1. \A S : <<>> \in Seq(S)
  BY EmptySeq
<1>2. live \in [Days -> Seq(Piece)] /\ archives \in [Days -> Seq(Archive)]
  BY <1>1 DEF AuditInit
<1>3. AuditTypeOK
  BY <1>2, AuditBounds DEF AuditInit, AuditTypeOK, Days
<1> QED
  BY <1>3 DEF AuditInit, IInv, CopyInv, NothingLost

LEMMA RotateKeeps ==
  ASSUME IInv, Rotate
  PROVE  IInv'
<1>1. \A blank \in Started : blank \in Archive /\ blank.lines = <<>>
  BY EmptySeq DEF Archive, Started
<1>2. AuditTypeOK /\ today \in Days /\ archives[today] \in Seq(Archive)
  BY DEF IInv, AuditTypeOK
<1>3. CASE at' = "append" /\ UNCHANGED archives
  BY <1>3 DEF Rotate, IInv, AuditTypeOK, CopyInv, NothingLost
<1>4. ASSUME NEW blank \in Started, at' = "copying",
             archives' = [archives EXCEPT ![today] = Append(@, blank)]
      PROVE  IInv'
  <2>1. /\ archives'[today] = Append(archives[today], blank)
        /\ \A d \in Days : d # today => archives'[d] = archives[d]
        /\ UNCHANGED <<live, today, entry, logged, kills>>
    BY <1>2, <1>4 DEF Rotate, AuditTypeOK
  <2>2. AuditTypeOK'
    <3>1. Append(archives[today], blank) \in Seq(Archive)
      BY <1>1, <1>2, Appended
    <3> QED
      BY <1>2, <1>4, <2>1, <3>1 DEF AuditTypeOK
  <2>3. CopyInv'
    <3>1. /\ archives'[today] # <<>>
          /\ archives'[today][Len(archives'[today])] = blank
      BY <1>1, <1>2, <2>1, Appended
    <3> QED
      BY <1>1, <1>4, <2>1, <3>1 DEF CopyInv, Rotate, IInv
  <2>4. \A d \in Days : \A n \in DOMAIN archives[d] :
          n \in DOMAIN archives'[d] /\ archives'[d][n] = archives[d][n]
    BY <1>1, <1>2, <2>1, Appended
  <2>5. NothingLost'
    <3> SUFFICES ASSUME NEW e \in logged
                 PROVE  \E d \in Days :
                          \/ In(live'[d], e)
                          \/ \E n \in DOMAIN archives'[d] :
                               archives'[d][n].whole /\ In(archives'[d][n].lines, e)
      BY <2>1 DEF NothingLost, In
    <3> QED
      BY <2>1, <2>4, Kept DEF IInv
  <2> QED
    BY <2>2, <2>3, <2>5 DEF IInv
<1> QED
  BY <1>3, <1>4 DEF Rotate

LEMMA FinishCopyKeeps ==
  ASSUME IInv, FinishCopy
  PROVE  IInv'
<1> DEFINE last == Len(archives[today])
           copy == [lines |-> live[today], whole |-> TRUE]
<1>1. /\ today \in Days /\ archives[today] \in Seq(Archive) /\ live[today] \in Seq(Piece)
      /\ archives[today] # <<>> /\ archives[today][last].lines = <<>>
  BY DEF IInv, AuditTypeOK, CopyInv, FinishCopy
<1>2. last \in DOMAIN archives[today] /\ DOMAIN archives[today] = 1..last
  BY <1>1, LenProperties, EmptySeq
<1>3. /\ archives'[today] = [archives[today] EXCEPT ![last] = copy]
      /\ \A d \in Days : d # today => archives'[d] = archives[d]
      /\ UNCHANGED <<live, today, entry, logged, kills>> /\ at' = "unlink"
      /\ archives' \in [Days -> {archives'[d] : d \in Days}]
  BY <1>1 DEF FinishCopy, IInv, AuditTypeOK
<1>4. copy \in Archive
  BY <1>1 DEF Archive
<1>5. /\ archives'[today] \in Seq(Archive) /\ Len(archives'[today]) = last
      /\ archives'[today][last] = copy
  BY <1>1, <1>2, <1>3, <1>4, ExceptSeq
<1>6. AuditTypeOK'
  BY <1>3, <1>5 DEF IInv, AuditTypeOK
<1>7. CopyInv'
  BY <1>1, <1>2, <1>3, <1>5 DEF CopyInv, FinishCopy, IInv
<1>8. ASSUME NEW e, NEW d \in Days, NEW n \in DOMAIN archives[d], In(archives[d][n].lines, e)
      PROVE  n \in DOMAIN archives'[d] /\ archives'[d][n] = archives[d][n]
  <2>1. ~In(<<>>, e)
    BY EmptySeq DEF In
  <2>2. CASE d = today
    <3>1. n # last
      BY <1>1, <1>8, <2>1, <2>2
    <3> QED
      BY <1>1, <1>2, <1>3, <1>8, <2>2, <3>1
  <2> QED
    BY <1>3, <1>8, <2>2
<1>9. NothingLost'
  <2> SUFFICES ASSUME NEW e \in logged
               PROVE  \E d \in Days :
                        \/ In(live'[d], e)
                        \/ \E n \in DOMAIN archives'[d] :
                             archives'[d][n].whole /\ In(archives'[d][n].lines, e)
    BY <1>3 DEF NothingLost, In
  <2>1. \A d \in Days : \A n \in DOMAIN archives[d] :
          archives[d][n].whole /\ In(archives[d][n].lines, e) =>
            n \in DOMAIN archives'[d] /\ archives'[d][n] = archives[d][n]
    BY <1>8
  <2>2. \A d \in Days : In(live[d], e) => In(live'[d], e)
    BY <1>3
  <2> QED
    BY <2>1, <2>2, Kept DEF IInv
<1> QED
  BY <1>6, <1>7, <1>9 DEF IInv

(* The copy that was made before holds what the file that goes held.       *)
LEMMA UnlinkKeeps ==
  ASSUME IInv, Unlink
  PROVE  IInv'
<1> DEFINE last == Len(archives[today])
<1>1. /\ today \in Days /\ archives[today] \in Seq(Archive)
      /\ archives[today] # <<>> /\ archives[today][last].whole
      /\ archives[today][last].lines = live[today]
  BY DEF IInv, AuditTypeOK, CopyInv, Unlink
<1>2. last \in DOMAIN archives[today]
  BY <1>1, LenProperties, EmptySeq
<1>3. /\ \A d \in Days : d # today => live'[d] = live[d]
      /\ UNCHANGED <<archives, today, entry, logged, kills>> /\ at' = "append"
  BY DEF Unlink, IInv, AuditTypeOK
<1>4. AuditTypeOK' /\ CopyInv'
  BY <1>3, EmptySeq DEF Unlink, IInv, AuditTypeOK, CopyInv
<1>5. NothingLost'
  <2> SUFFICES ASSUME NEW e \in logged
               PROVE  \E d \in Days :
                        \/ In(live'[d], e)
                        \/ \E n \in DOMAIN archives'[d] :
                             archives'[d][n].whole /\ In(archives'[d][n].lines, e)
    BY <1>3 DEF NothingLost, In
  <2>1. \A d \in Days : In(live[d], e) =>
          \/ In(live'[d], e)
          \/ \E n \in DOMAIN archives[d] : archives[d][n].whole /\ In(archives[d][n].lines, e)
    BY <1>1, <1>2, <1>3
  <2> QED
    BY <1>3, <2>1, Kept DEF IInv
<1> QED
  BY <1>4, <1>5 DEF IInv

(* A line is only ever added at the end of the day's file, torn or not.    *)
LEMMA LineAddedKeeps ==
  ASSUME IInv, NEW piece \in Piece, at' = "idle",
         live' = [live EXCEPT ![today] = Append(@, piece)],
         UNCHANGED <<archives, today, entry>>,
         logged' \in {logged, logged \cup {piece.entry}}, kills' \in 0..MaxKills
  PROVE  IInv'
<1>1. today \in Days /\ live[today] \in Seq(Piece)
  BY DEF IInv, AuditTypeOK
<1>2. /\ live'[today] = Append(live[today], piece)
      /\ \A d \in Days : d # today => live'[d] = live[d]
  BY <1>1 DEF IInv, AuditTypeOK
<1>3. Append(live[today], piece) \in Seq(Piece)
  BY <1>1, Appended
<1>4. AuditTypeOK' /\ CopyInv'
  BY <1>1, <1>3 DEF IInv, AuditTypeOK, CopyInv, Piece
<1>5. \A d \in Days : \A i \in DOMAIN live[d] :
        i \in DOMAIN live'[d] /\ live'[d][i] = live[d][i]
  BY <1>1, <1>2, Appended
<1>6. In(live'[today], piece.entry)
  <2>1. /\ Len(live[today]) + 1 \in DOMAIN live'[today]
        /\ live'[today][Len(live[today]) + 1] = piece
    BY <1>1, <1>2, Appended
  <2> QED
    BY <2>1 DEF In
<1>7. ASSUME NEW e \in logged'
      PROVE  \E d \in Days :
               \/ In(live'[d], e)
               \/ \E n \in DOMAIN archives'[d] :
                    archives'[d][n].whole /\ In(archives'[d][n].lines, e)
  <2>1. CASE e = piece.entry
    BY <1>1, <1>6, <2>1
  <2>2. CASE e \in logged
    BY <1>5, <2>2, Kept DEF IInv, In
  <2> QED
    BY <1>7, <2>1, <2>2
<1>8. NothingLost'
  BY <1>7 DEF NothingLost, In
<1> QED
  BY <1>4, <1>8 DEF IInv

LEMMA Inductive == IInv /\ [AuditNext]_auditVars => IInv'
<1> SUFFICES ASSUME IInv, [AuditNext]_auditVars PROVE IInv'
  OBVIOUS
<1>1. AuditTypeOK
  BY DEF IInv
<1>2. CASE Log \/ NextDay
  <2>1. UNCHANGED <<live, archives, logged, kills>>
    BY <1>2 DEF Log, NextDay
  <2>2. CASE Log
    <3>1. entry' \in Entries /\ entry' \in 0..MaxEntries
      BY <1>1, <2>2, AuditBounds DEF Log, AuditTypeOK, Entries
    <3> QED
      BY <1>1, <2>1, <2>2, <3>1 DEF Log, AuditTypeOK, CopyInv, IInv, NothingLost
  <2>3. CASE NextDay
    <3>1. today' \in Days
      BY <1>1, <2>3, AuditBounds DEF NextDay, AuditTypeOK, Days
    <3> QED
      BY <1>1, <2>1, <2>3, <3>1 DEF NextDay, AuditTypeOK, CopyInv, IInv, NothingLost
  <2> QED
    BY <1>2, <2>2, <2>3
<1>3. CASE AppendLine
  <2>1. Line(entry) \in Piece
    BY <1>3 DEF AppendLine, IInv, CopyInv, Piece, Line
  <2>2. Line(entry).entry = entry /\ kills' \in 0..MaxKills
    BY <1>1, <1>3 DEF AppendLine, AuditTypeOK, Line
  <2> QED
    BY <1>3, <2>1, <2>2, LineAddedKeeps DEF AppendLine
<1>4. CASE Kill
  <2>1. kills' \in 0..MaxKills
    BY <1>1, <1>4, AuditBounds DEF Kill, AuditTypeOK
  <2>2. CASE UNCHANGED live
    BY <1>1, <1>4, <2>1, <2>2 DEF Kill, IInv, AuditTypeOK, CopyInv, NothingLost
  <2>3. ASSUME NEW cut \in BOOLEAN, at = "append",
               live' = [live EXCEPT ![today] = Append(@, Torn(entry, cut))]
        PROVE  IInv'
    <3>1. Torn(entry, cut) \in Piece
      BY <2>3 DEF IInv, CopyInv, Piece, Torn
    <3> QED
      BY <1>4, <2>1, <2>3, <3>1, LineAddedKeeps DEF Kill
  <2> QED
    BY <1>4, <2>2, <2>3 DEF Kill
<1>5. CASE UNCHANGED auditVars
  BY <1>5 DEF auditVars, IInv, AuditTypeOK, CopyInv, NothingLost
<1> QED
  BY <1>2, <1>3, <1>4, <1>5, RotateKeeps, FinishCopyKeeps, UnlinkKeeps DEF AuditNext

LEMMA Always == AuditSpec => []IInv
BY Initially, Inductive, PTL DEF AuditSpec

-----------------------------------------------------------------------------
(* What the log is read back from.  A line that was appended to a torn one *)
(* is the only kind that does not parse, and a kill between the copy and   *)
(* the unlink is the only way to a second copy.                            *)

TornEnd(file) == file # <<>> /\ ~file[Len(file)].ended

One(b) == IF b THEN 1 ELSE 0

Unread == {e \in logged : ReadFrom(e) = {}}

(* Only a copy that is going on, or a kill, leaves an archive unfinished,  *)
(* and only a kill cuts a character.                                       *)
WholeInv ==
  kills = 0 =>
    \A d \in Days :
      /\ ~Cut(live[d])
      /\ \A n \in DOMAIN archives[d] :
           /\ ~Cut(archives[d][n].lines)
           /\ \/ archives[d][n].whole
              \/ at = "copying" /\ d = today /\ n = Len(archives[d])

(* An entry is read from nowhere before it was logged.                     *)
FreshInv ==
  /\ \A e \in logged : e <= entry /\ (at # "idle" => e # entry)
  /\ \A e \in Entries : ReadFrom(e) # {} => e \in logged
  /\ \A d \in Days : d > today => live[d] = <<>>

(* Each kill pays for one torn line, or for one more copy of a file; a     *)
(* torn line that nothing followed yet is paid for already, and so is the  *)
(* copy of a file that is about to be unlinked.                            *)
CostInv ==
  /\ Cardinality(Unread) + One(TornEnd(live[today])) <= kills
  /\ \A e \in Entries :
       /\ IsFiniteSet(ReadFrom(e))
       /\ TimesRead(e) <= 1 + kills + One(at = "unlink" /\ Holds(live[today], e))

RInv == IInv /\ WholeInv /\ FreshInv /\ CostInv

(* The files that hold an entry, member by member.                         *)
Among(files, zips, e, r) ==
  \E d \in Days :
    \/ r = <<d, 0>> /\ Holds(files[d], e)
    \/ \E n \in DOMAIN zips[d] : r = <<d, n>> /\ Holds(zips[d][n].lines, e)

LEMMA ReadsAmong ==
  ASSUME NEW e
  PROVE  /\ \A r : r \in ReadFrom(e) <=> Among(live, archives, e, r)
         /\ \A r : r \in ReadFrom(e)' <=> Among(live', archives', e, r)
BY DEF ReadFrom, Among

LEMMA ReadsUnchanged ==
  ASSUME NEW e, UNCHANGED <<live, archives>>
  PROVE  ReadFrom(e)' = ReadFrom(e)
BY DEF ReadFrom

(* A line is read when it is whole and follows a whole one.                *)
LEMMA HoldsAppended ==
  ASSUME NEW file \in Seq(Piece), NEW piece \in Piece, NEW e
  PROVE  /\ Holds(Append(file, piece), e) <=>
              Holds(file, e) \/ (piece.entry = e /\ piece.ended /\ ~TornEnd(file))
         /\ TornEnd(Append(file, piece)) <=> ~piece.ended
         /\ ~Holds(<<>>, e) /\ ~TornEnd(<<>>)
<1> DEFINE n == Len(file)
           longer == Append(file, piece)
<1>1. /\ n \in Nat /\ DOMAIN file = 1..n /\ DOMAIN longer = 1..(n + 1)
      /\ Len(longer) = n + 1 /\ longer # <<>> /\ longer[n + 1] = piece
      /\ \A i \in 1..n : longer[i] = file[i]
      /\ file # <<>> <=> n # 0
  BY Appended, EmptySeq
<1>2. TornEnd(longer) <=> ~piece.ended
  BY <1>1 DEF TornEnd
<1>3. ASSUME NEW i \in 1..n
      PROVE  i \in Parsed(longer) <=> i \in Parsed(file)
  <2>1. i = 1 \/ i - 1 \in 1..n
    BY <1>1
  <2> QED
    BY <1>1, <2>1 DEF Parsed
<1>4. n + 1 \in Parsed(longer) <=> piece.ended /\ ~TornEnd(file)
  <2>1. CASE n = 0
    BY <1>1, <2>1 DEF Parsed, TornEnd
  <2>2. CASE n # 0
    <3>1. n \in 1..n /\ (n + 1) - 1 = n /\ n + 1 # 1
      BY <1>1, <2>2
    <3> QED
      BY <1>1, <2>2, <3>1 DEF Parsed, TornEnd
  <2> QED
    BY <2>1, <2>2
<1>5. Parsed(longer) \subseteq 1..(n + 1) /\ Parsed(file) \subseteq 1..n
  BY <1>1 DEF Parsed
<1>6. Holds(longer, e) <=> Holds(file, e) \/ (piece.entry = e /\ piece.ended /\ ~TornEnd(file))
  BY <1>1, <1>3, <1>4, <1>5 DEF Holds
<1>7. ~Holds(<<>>, e) /\ ~TornEnd(<<>>)
  BY EmptySeq DEF Holds, Parsed, TornEnd
<1> QED
  BY <1>2, <1>6, <1>7

(* The unread entries are among finitely many.                             *)
LEMMA UnreadFinite ==
  ASSUME AuditTypeOK
  PROVE  /\ IsFiniteSet(Unread) /\ Cardinality(Unread) \in Nat
         /\ kills \in Nat /\ \A b : One(b) \in {0, 1}
<1>1. IsFiniteSet(Entries)
  BY FS_Interval, AuditBounds DEF Entries
<1>2. Unread \in SUBSET Entries
  BY DEF Unread, AuditTypeOK
<1>3. IsFiniteSet(Unread)
  BY <1>1, <1>2, FS_Subset
<1> QED
  BY <1>3, FS_CardinalityType, AuditBounds DEF AuditTypeOK, One

(* What a step that reads no less and costs no more preserves.             *)
LEMMA CostKept ==
  ASSUME RInv, AuditTypeOK', logged' = logged,
         \A e \in Entries : ReadFrom(e) # {} => ReadFrom(e)' # {},
         kills' \in Nat,
         kills + One(TornEnd(live'[today'])) <= kills' + One(TornEnd(live[today])),
         \A e \in Entries :
           /\ IsFiniteSet(ReadFrom(e)')
           /\ Cardinality(ReadFrom(e)') + kills + One(at = "unlink" /\ Holds(live[today], e))
                <= Cardinality(ReadFrom(e)) + kills'
                     + One(at' = "unlink" /\ Holds(live'[today'], e))
  PROVE  CostInv'
<1>0. AuditTypeOK
  BY DEF RInv, IInv
<1>1. /\ IsFiniteSet(Unread) /\ Cardinality(Unread) \in Nat /\ kills \in Nat
      /\ \A b : One(b) \in {0, 1}
  BY <1>0, UnreadFinite
<1>2. Unread' \in SUBSET Unread
  BY <1>0 DEF Unread, AuditTypeOK
<1>3. IsFiniteSet(Unread') /\ Cardinality(Unread') <= Cardinality(Unread)
  BY <1>1, <1>2, FS_Subset
<1>4. Cardinality(Unread') \in Nat
  BY <1>3, FS_CardinalityType
<1>5. Cardinality(Unread)' + One(TornEnd(live[today]))' <= kills'
  <2>1. /\ Cardinality(Unread)' = Cardinality(Unread')
        /\ One(TornEnd(live[today]))' = One(TornEnd(live'[today']))
    BY DEF One, TornEnd
  <2>2. Cardinality(Unread) + One(TornEnd(live[today])) <= kills
    BY DEF RInv, CostInv
  <2> QED
    BY <1>1, <1>3, <1>4, <2>1, <2>2
<1>6. ASSUME NEW e \in Entries
      PROVE  Cardinality(ReadFrom(e)') <=
               1 + kills' + One(at' = "unlink" /\ Holds(live'[today'], e))
  <2>1. /\ IsFiniteSet(ReadFrom(e)) /\ IsFiniteSet(ReadFrom(e)')
        /\ Cardinality(ReadFrom(e)) <= 1 + kills + One(at = "unlink" /\ Holds(live[today], e))
    BY DEF RInv, CostInv, TimesRead
  <2>2. Cardinality(ReadFrom(e)) \in Nat /\ Cardinality(ReadFrom(e)') \in Nat
    BY <2>1, FS_CardinalityType
  <2> QED
    BY <1>1, <2>1, <2>2
<1> QED
  BY <1>5, <1>6 DEF CostInv, TimesRead, One, Holds, TornEnd, Parsed

LEMMA ReadsInitially == AuditInit => RInv
<1> SUFFICES ASSUME AuditInit PROVE RInv
  OBVIOUS
<1>1. IInv
  BY Initially
<1>2. today \in Days /\ Days \subseteq Nat
  BY <1>1 DEF IInv, AuditTypeOK, Days
<1>3. \A d \in Days : live[d] = <<>> /\ DOMAIN archives[d] = {}
  BY EmptySeq DEF AuditInit
<1>4. ASSUME NEW e
      PROVE  ReadFrom(e) = {}
  <2>1. ~Holds(<<>>, e)
    BY EmptySeq DEF Holds, Parsed
  <2>2. \A r : ~Among(live, archives, e, r)
    BY <1>3, <2>1 DEF Among
  <2> QED
    BY <2>2, ReadsAmong
<1>5. Unread = {} /\ kills = 0 /\ logged = {} /\ at = "idle"
  BY DEF AuditInit, Unread
<1>6. Cardinality({}) = 0 /\ IsFiniteSet({})
  BY FS_EmptySet
<1>7. WholeInv
  <2>1. ~Cut(<<>>)
    BY EmptySeq DEF Cut
  <2> QED
    BY <1>3, <2>1 DEF WholeInv
<1>8. FreshInv
  BY <1>3, <1>4, <1>5 DEF FreshInv
<1>9. CostInv
  <2>1. Cardinality(Unread) = 0 /\ One(TornEnd(live[today])) = 0
    BY <1>2, <1>3, <1>5, <1>6 DEF One, TornEnd
  <2>2. \A e \in Entries : IsFiniteSet(ReadFrom(e)) /\ TimesRead(e) = 0
    BY <1>4, <1>6 DEF TimesRead
  <2>3. \A b : One(b) \in {0, 1}
    BY DEF One
  <2> QED
    BY <1>5, <2>1, <2>2, <2>3 DEF CostInv
<1> QED
  BY <1>1, <1>7, <1>8, <1>9 DEF RInv

(* The steps that touch neither the day's file nor what an archive holds.  *)
LEMMA QuietKeepsReads ==
  ASSUME RInv, Log \/ NextDay \/ UNCHANGED auditVars \/ (Kill /\ UNCHANGED live),
         IInv'
  PROVE  RInv'
<1>1. AuditTypeOK /\ AuditTypeOK'
  BY DEF RInv, IInv
<1>2. UNCHANGED <<live, archives, logged>> /\ kills' \in Nat /\ kills \in Nat /\ kills <= kills'
  BY <1>1, AuditBounds DEF Log, NextDay, Kill, auditVars, AuditTypeOK
<1>3. \A e : ReadFrom(e)' = ReadFrom(e)
  BY <1>2, ReadsUnchanged
<1>4. /\ entry \in Nat /\ entry' \in Nat /\ logged \subseteq Nat
      /\ today \in Nat /\ today' \in Nat /\ Days \subseteq Nat
  BY <1>1 DEF AuditTypeOK, Days, Entries
<1>5. WholeInv'
  BY <1>1, <1>2 DEF Log, NextDay, Kill, auditVars, RInv, WholeInv, AuditTypeOK
<1>6. FreshInv'
  BY <1>2, <1>3, <1>4 DEF Log, NextDay, Kill, auditVars, RInv, FreshInv
<1>7. TornEnd(live'[today']) => TornEnd(live[today])
  <2>1. CASE NextDay
    BY <1>1, <1>2, <1>4, <2>1 DEF NextDay, AuditTypeOK, RInv, FreshInv, TornEnd
  <2>2. CASE today' = today
    BY <1>2, <2>2
  <2> QED
    BY <2>1, <2>2 DEF Log, NextDay, Kill, auditVars
<1>8. One(TornEnd(live'[today'])) <= One(TornEnd(live[today]))
  BY <1>7 DEF One
<1>9. ASSUME NEW e \in Entries
      PROVE  /\ IsFiniteSet(ReadFrom(e)')
             /\ Cardinality(ReadFrom(e)') + kills + One(at = "unlink" /\ Holds(live[today], e))
                  <= Cardinality(ReadFrom(e)) + kills'
                       + One(at' = "unlink" /\ Holds(live'[today'], e))
  <2>1. IsFiniteSet(ReadFrom(e)) /\ Cardinality(ReadFrom(e)) \in Nat
    BY FS_CardinalityType DEF RInv, CostInv
  <2>2. kills + One(at = "unlink" /\ Holds(live[today], e))
          <= kills' + One(at' = "unlink" /\ Holds(live'[today'], e))
    <3>1. CASE Kill
      BY <1>2, <3>1 DEF Kill, One
    <3>2. CASE Log \/ NextDay
      <4>1. at # "unlink" /\ at' # "unlink" /\ kills' = kills
        BY <3>2 DEF Log, NextDay
      <4> QED
        BY <1>2, <4>1 DEF One
    <3>3. CASE UNCHANGED auditVars
      BY <1>2, <3>3 DEF auditVars, One
    <3> QED
      BY <3>1, <3>2, <3>3
  <2>3. \A b : One(b) \in {0, 1}
    BY DEF One
  <2> QED
    BY <1>2, <1>3, <2>1, <2>2, <2>3
<1>10. kills + One(TornEnd(live'[today'])) <= kills' + One(TornEnd(live[today]))
  <2>1. One(TornEnd(live[today])) \in {0, 1} /\ One(TornEnd(live'[today'])) \in {0, 1}
    BY DEF One
  <2> QED
    BY <1>2, <1>8, <2>1
<1>11. CostInv'
  BY <1>1, <1>2, <1>3, <1>9, <1>10, CostKept
<1> QED
  BY <1>5, <1>6, <1>11 DEF RInv

(* A new archive holds nothing until it is whole.                          *)
LEMMA RotateKeepsReads ==
  ASSUME RInv, Rotate
  PROVE  RInv'
<1>1. AuditTypeOK /\ IInv'
  BY RotateKeeps DEF RInv, IInv
<1>2. /\ today \in Days /\ archives[today] \in Seq(Archive) /\ AuditTypeOK'
      /\ kills \in Nat
  BY <1>1, AuditBounds DEF IInv, AuditTypeOK
<1>3. UNCHANGED <<live, today, entry, logged, kills>> /\ at = "rotate" /\ at' # "unlink"
  BY DEF Rotate
<1>4. CASE at' = "append" /\ UNCHANGED archives
  <2>1. \A e : ReadFrom(e)' = ReadFrom(e)
    BY <1>3, <1>4, ReadsUnchanged
  <2>2. WholeInv' /\ FreshInv'
    BY <1>3, <1>4, <2>1 DEF RInv, WholeInv, FreshInv
  <2>3. CostInv'
    BY <1>3, <1>4, <2>1 DEF RInv, CostInv, Unread, TimesRead, One, TornEnd, Holds, Parsed
  <2> QED
    BY <1>1, <2>2, <2>3 DEF RInv
<1>5. ASSUME NEW blank \in Started, at' = "copying",
             archives' = [archives EXCEPT ![today] = Append(@, blank)]
      PROVE  RInv'
  <2> DEFINE n == Len(archives[today])
  <2>1. blank \in Archive /\ blank.lines = <<>>
    BY EmptySeq DEF Archive, Started
  <2>2. /\ archives'[today] = Append(archives[today], blank)
        /\ \A d \in Days : d # today => archives'[d] = archives[d]
    BY <1>1, <1>2, <1>5 DEF AuditTypeOK
  <2>3. /\ n \in Nat /\ DOMAIN archives[today] = 1..n /\ DOMAIN archives'[today] = 1..(n + 1)
        /\ Len(archives'[today]) = n + 1 /\ archives'[today][n + 1] = blank
        /\ \A i \in 1..n : archives'[today][i] = archives[today][i]
    BY <1>2, <2>1, <2>2, Appended
  <2>4. ASSUME NEW e
        PROVE  ReadFrom(e)' = ReadFrom(e)
    <3>1. ~Holds(blank.lines, e)
      BY <2>1, EmptySeq DEF Holds, Parsed
    <3>2. ASSUME NEW d \in Days, NEW r
          PROVE  (\E i \in DOMAIN archives'[d] : r = <<d, i>> /\ Holds(archives'[d][i].lines, e))
                 <=> (\E i \in DOMAIN archives[d] : r = <<d, i>> /\ Holds(archives[d][i].lines, e))
      <4>1. CASE d # today
        BY <2>2, <4>1
      <4>2. CASE d = today
        <5>1. \A i \in DOMAIN archives'[d] : i \in DOMAIN archives[d] \/ i = n + 1
          BY <2>3, <4>2
        <5>2. \A i \in DOMAIN archives[d] :
                i \in DOMAIN archives'[d] /\ archives'[d][i] = archives[d][i]
          BY <2>3, <4>2
        <5>3. ~Holds(archives'[d][n + 1].lines, e)
          BY <2>3, <3>1, <4>2
        <5> QED
          BY <5>1, <5>2, <5>3
      <4> QED
        BY <4>1, <4>2
    <3>3. \A r : Among(live', archives', e, r) <=> Among(live, archives, e, r)
      BY <1>3, <3>2 DEF Among
    <3> QED
      BY <3>3, ReadsAmong
  <2>5. WholeInv'
    <3>1. ASSUME kills' = 0, NEW d \in Days, NEW i \in DOMAIN archives'[d]
          PROVE  /\ ~Cut(archives'[d][i].lines)
                 /\ archives'[d][i].whole \/ (d = today /\ i = n + 1)
      <4>0. ~Cut(<<>>)
        BY EmptySeq DEF Cut
      <4>1. \A m \in DOMAIN archives[d] :
              archives[d][m].whole /\ ~Cut(archives[d][m].lines)
        BY <1>3, <3>1 DEF RInv, WholeInv
      <4>2. CASE d = today
        BY <2>1, <2>3, <3>1, <4>0, <4>1, <4>2
      <4> QED
        BY <2>2, <3>1, <4>1, <4>2
    <3>2. ASSUME kills' = 0, NEW d \in Days PROVE ~Cut(live'[d])
      BY <1>3, <3>2 DEF RInv, WholeInv
    <3> QED
      BY <1>3, <1>5, <2>3, <3>1, <3>2 DEF WholeInv, Cut
  <2>6. FreshInv'
    BY <1>3, <2>4 DEF RInv, FreshInv
  <2>7. CostInv'
    BY <1>3, <1>5, <2>4 DEF RInv, CostInv, Unread, TimesRead, One, TornEnd, Holds, Parsed
  <2> QED
    BY <1>1, <2>5, <2>6, <2>7 DEF RInv
<1> QED
  BY <1>4, <1>5 DEF Rotate

(* The copy is one more file to read an entry of the day's file from.      *)
LEMMA FinishCopyKeepsReads ==
  ASSUME RInv, FinishCopy
  PROVE  RInv'
<1> DEFINE last == Len(archives[today])
           copy == [lines |-> live[today], whole |-> TRUE]
           place == <<today, last>>
<1>1. AuditTypeOK /\ IInv' /\ AuditTypeOK'
  BY FinishCopyKeeps DEF RInv, IInv
<1>2. /\ today \in Days /\ archives[today] \in Seq(Archive) /\ archives[today] # <<>>
      /\ kills \in Nat /\ UNCHANGED <<live, today, entry, logged, kills>>
      /\ at = "copying" /\ at' = "unlink"
  BY <1>1, AuditBounds DEF RInv, IInv, CopyInv, AuditTypeOK, FinishCopy
<1>3. /\ last \in 1..last /\ DOMAIN archives[today] = 1..last
      /\ archives[today][last].lines = <<>>
  BY <1>2, LenProperties, EmptySeq DEF RInv, IInv, CopyInv
<1>4. /\ archives'[today] = [archives[today] EXCEPT ![last] = copy]
      /\ \A d \in Days : d # today => archives'[d] = archives[d]
  BY <1>1, <1>2 DEF FinishCopy, AuditTypeOK
<1>5. /\ DOMAIN archives'[today] = 1..last /\ archives'[today][last] = copy
      /\ \A n \in 1..last : n # last => archives'[today][n] = archives[today][n]
      /\ Len(archives'[today]) = last
  BY <1>2, <1>3, <1>4
<1>6. ASSUME NEW e
      PROVE  /\ place \notin ReadFrom(e)
             /\ ReadFrom(e)' = IF Holds(live[today], e) THEN ReadFrom(e) \cup {place}
                                                        ELSE ReadFrom(e)
  <2>1. ~Holds(<<>>, e)
    BY EmptySeq DEF Holds, Parsed
  <2>2. ASSUME NEW d \in Days, NEW r
        PROVE  (\E n \in DOMAIN archives'[d] : r = <<d, n>> /\ Holds(archives'[d][n].lines, e))
               <=> \/ \E n \in DOMAIN archives[d] : r = <<d, n>> /\ Holds(archives[d][n].lines, e)
                   \/ d = today /\ r = place /\ Holds(live[today], e)
    <3>1. CASE d # today
      BY <1>4, <3>1
    <3>2. CASE d = today
      <4>1. Holds(archives'[today][last].lines, e) <=> Holds(live[today], e)
        BY <1>5
      <4>2. ~Holds(archives[today][last].lines, e)
        BY <1>3, <2>1
      <4> QED
        BY <1>3, <1>5, <3>2, <4>1, <4>2
    <3> QED
      BY <3>1, <3>2
  <2>3. \A r : Among(live', archives', e, r) <=>
                 Among(live, archives, e, r) \/ (r = place /\ Holds(live[today], e))
    BY <1>2, <2>2 DEF Among
  <2>4. ~Among(live, archives, e, place)
    <3>1. last # 0
      BY <1>3
    <3>2. \A d \in Days : \A n : place = <<d, n>> => d = today /\ n = last
      OBVIOUS
    <3>3. ~Holds(archives[today][last].lines, e)
      BY <1>3, <2>1
    <3> QED
      BY <3>1, <3>2, <3>3 DEF Among
  <2>5. \A r : r \in ReadFrom(e)' <=> r \in ReadFrom(e) \/ (r = place /\ Holds(live[today], e))
    BY <2>3, ReadsAmong
  <2>6. place \notin ReadFrom(e)
    BY <2>4, ReadsAmong
  <2>7. CASE Holds(live[today], e)
    BY <2>5, <2>6, <2>7
  <2>8. CASE ~Holds(live[today], e)
    BY <2>5, <2>6, <2>8
  <2> QED
    BY <2>7, <2>8
<1>7. WholeInv'
  <2>1. ASSUME kills' = 0, NEW d \in Days, NEW n \in DOMAIN archives'[d]
        PROVE  archives'[d][n].whole /\ ~Cut(archives'[d][n].lines)
    <3>1. /\ ~Cut(live[d])
          /\ \A m \in DOMAIN archives[d] :
               /\ ~Cut(archives[d][m].lines)
               /\ archives[d][m].whole \/ (d = today /\ m = last)
      BY <1>2, <2>1 DEF RInv, WholeInv
    <3>2. CASE d = today
      BY <1>3, <1>5, <2>1, <3>1, <3>2
    <3> QED
      BY <1>4, <2>1, <3>1, <3>2
  <2>2. ASSUME kills' = 0, NEW d \in Days PROVE ~Cut(live'[d])
    BY <1>2, <2>2 DEF RInv, WholeInv
  <2> QED
    BY <2>1, <2>2 DEF WholeInv, Cut
<1>8. FreshInv'
  <2>1. \A e \in Entries : ReadFrom(e)' # {} => ReadFrom(e) # {}
    <3> SUFFICES ASSUME NEW e \in Entries, Holds(live[today], e) PROVE ReadFrom(e) # {}
      BY <1>6
    <3>1. Among(live, archives, e, <<today, 0>>)
      BY <1>2 DEF Among
    <3> QED
      BY <3>1, ReadsAmong
  <2> QED
    BY <1>2, <2>1 DEF RInv, FreshInv
<1>9. CostInv'
  <2>1. ASSUME NEW e \in Entries
        PROVE  /\ IsFiniteSet(ReadFrom(e)')
               /\ Cardinality(ReadFrom(e)') + kills + One(at = "unlink" /\ Holds(live[today], e))
                    <= Cardinality(ReadFrom(e)) + kills'
                         + One(at' = "unlink" /\ Holds(live'[today'], e))
    <3>1. IsFiniteSet(ReadFrom(e)) /\ Cardinality(ReadFrom(e)) \in Nat
      BY FS_CardinalityType DEF RInv, CostInv
    <3>2. /\ IsFiniteSet(ReadFrom(e) \cup {place})
          /\ Cardinality(ReadFrom(e) \cup {place}) = Cardinality(ReadFrom(e)) + 1
      BY <1>6, <3>1, FS_AddElement
    <3>3. /\ One(at = "unlink" /\ Holds(live[today], e)) = 0
          /\ One(at' = "unlink" /\ Holds(live'[today'], e)) = IF Holds(live[today], e) THEN 1 ELSE 0
      BY <1>2 DEF One
    <3>4. CASE Holds(live[today], e)
      <4>1. ReadFrom(e)' = ReadFrom(e) \cup {place}
        BY <1>6, <3>4
      <4> QED
        BY <1>2, <3>1, <3>2, <3>3, <3>4, <4>1
    <3>5. CASE ~Holds(live[today], e)
      BY <1>2, <1>6, <3>1, <3>3, <3>5
    <3> QED
      BY <3>4, <3>5
  <2>2. \A e \in Entries : ReadFrom(e) # {} => ReadFrom(e)' # {}
    BY <1>6
  <2>3. kills + One(TornEnd(live'[today'])) <= kills' + One(TornEnd(live[today]))
    BY <1>2 DEF One
  <2> QED
    BY <1>1, <1>2, <2>1, <2>2, <2>3, CostKept
<1> QED
  BY <1>1, <1>7, <1>8, <1>9 DEF RInv

(* The file that goes was copied, so that what it held is still read.      *)
LEMMA UnlinkKeepsReads ==
  ASSUME RInv, Unlink
  PROVE  RInv'
<1> DEFINE last == Len(archives[today])
           place == <<today, 0>>
<1>1. AuditTypeOK /\ IInv' /\ AuditTypeOK'
  BY UnlinkKeeps DEF RInv, IInv
<1>2. /\ today \in Days /\ archives[today] \in Seq(Archive) /\ archives[today] # <<>>
      /\ archives[today][last].lines = live[today] /\ live[today] \in Seq(Piece)
      /\ kills \in Nat /\ UNCHANGED <<archives, today, entry, logged, kills>>
      /\ at = "unlink" /\ at' = "append"
  BY <1>1, AuditBounds DEF RInv, IInv, CopyInv, AuditTypeOK, Unlink
<1>3. last \in DOMAIN archives[today] /\ \A d \in Days : 0 \notin DOMAIN archives[d]
  BY <1>1, <1>2, LenProperties, EmptySeq DEF AuditTypeOK
<1>4. live'[today] = <<>> /\ \A d \in Days : d # today => live'[d] = live[d]
  BY <1>1, <1>2 DEF Unlink, AuditTypeOK
<1>5. ASSUME NEW e
      PROVE  /\ ReadFrom(e)' = ReadFrom(e) \ {place}
             /\ place \in ReadFrom(e) <=> Holds(live[today], e)
             /\ Holds(live[today], e) => <<today, last>> \in ReadFrom(e)'
  <2>1. ~Holds(<<>>, e)
    BY EmptySeq DEF Holds, Parsed
  <2>2. \A d \in Days : \A n : <<d, n>> = place <=> d = today /\ n = 0
    OBVIOUS
  <2>3. \A r : Among(live', archives', e, r) <=> Among(live, archives, e, r) /\ r # place
    <3> SUFFICES ASSUME NEW r
                 PROVE  Among(live', archives', e, r) <=> Among(live, archives, e, r) /\ r # place
      OBVIOUS
    <3>1. CASE r = place
      <4>1. ~Holds(live'[today], e)
        BY <1>4, <2>1
      <4> QED
        BY <1>2, <1>3, <2>2, <3>1, <4>1 DEF Among
    <3>2. CASE r # place
      BY <1>2, <1>4, <2>2, <3>2 DEF Among
    <3> QED
      BY <3>1, <3>2
  <2>4. Among(live, archives, e, place) <=> Holds(live[today], e)
    BY <1>2, <1>3, <2>2 DEF Among
  <2>5. Holds(live[today], e) => Among(live', archives', e, <<today, last>>)
    BY <1>2, <1>3 DEF Among
  <2> QED
    BY <2>3, <2>4, <2>5, ReadsAmong
<1>6. WholeInv'
  <2>1. ~Cut(<<>>)
    BY EmptySeq DEF Cut
  <2>2. ASSUME kills = 0, NEW d \in Days
        PROVE  /\ ~Cut(live'[d])
               /\ \A n \in DOMAIN archives[d] :
                    archives[d][n].whole /\ ~Cut(archives[d][n].lines)
    BY <1>2, <1>4, <2>1, <2>2 DEF RInv, WholeInv
  <2> QED
    BY <1>2, <2>2 DEF WholeInv, Cut
<1>7. FreshInv'
  <2>1. today' = today /\ \A d \in Days : d > today => live'[d] = <<>>
    BY <1>2, <1>4 DEF RInv, FreshInv
  <2> QED
    BY <1>2, <1>5, <2>1 DEF RInv, FreshInv
<1>8. CostInv'
  <2>1. ASSUME NEW e \in Entries
        PROVE  /\ IsFiniteSet(ReadFrom(e)')
               /\ Cardinality(ReadFrom(e)') + kills + One(at = "unlink" /\ Holds(live[today], e))
                    <= Cardinality(ReadFrom(e)) + kills'
                         + One(at' = "unlink" /\ Holds(live'[today'], e))
    <3>1. IsFiniteSet(ReadFrom(e)) /\ Cardinality(ReadFrom(e)) \in Nat
      BY FS_CardinalityType DEF RInv, CostInv
    <3>2. /\ IsFiniteSet(ReadFrom(e)')
          /\ Cardinality(ReadFrom(e)') =
               IF Holds(live[today], e) THEN Cardinality(ReadFrom(e)) - 1
                                        ELSE Cardinality(ReadFrom(e))
      BY <1>5, <3>1, FS_RemoveElement
    <3>3. /\ One(at = "unlink" /\ Holds(live[today], e)) = IF Holds(live[today], e) THEN 1 ELSE 0
          /\ One(at' = "unlink" /\ Holds(live'[today'], e)) = 0
      BY <1>2 DEF One
    <3> QED
      BY <1>2, <3>1, <3>2, <3>3
  <2>2. \A e \in Entries : ReadFrom(e) # {} => ReadFrom(e)' # {}
    BY <1>5
  <2>3. kills + One(TornEnd(live'[today'])) <= kills' + One(TornEnd(live[today]))
    BY <1>2, <1>4 DEF One, TornEnd
  <2> QED
    BY <1>1, <1>2, <2>1, <2>2, <2>3, CostKept
<1> QED
  BY <1>1, <1>6, <1>7, <1>8 DEF RInv

(* What a line at the end of the day's file adds to what is read.          *)
LEMMA LineAddedReads ==
  ASSUME AuditTypeOK, NEW piece \in Piece,
         live' = [live EXCEPT ![today] = Append(@, piece)],
         UNCHANGED <<archives, today>>, NEW e
  PROVE  /\ ReadFrom(e)' = IF piece.entry = e /\ piece.ended /\ ~TornEnd(live[today])
                           THEN ReadFrom(e) \cup {<<today, 0>>} ELSE ReadFrom(e)
         /\ TornEnd(live'[today]) <=> ~piece.ended
         /\ \A d \in Days : d # today => live'[d] = live[d]
<1> DEFINE place == <<today, 0>>
           read  == piece.entry = e /\ piece.ended /\ ~TornEnd(live[today])
<1>1. today \in Days /\ live[today] \in Seq(Piece)
  BY DEF AuditTypeOK
<1>2. /\ live'[today] = Append(live[today], piece)
      /\ \A d \in Days : d # today => live'[d] = live[d]
  BY <1>1 DEF AuditTypeOK
<1>3. /\ Holds(live'[today], e) <=> Holds(live[today], e) \/ read
      /\ TornEnd(live'[today]) <=> ~piece.ended
  BY <1>1, <1>2, HoldsAppended
<1>4. \A r : Among(live', archives', e, r) <=>
               Among(live, archives, e, r) \/ (r = place /\ read)
  BY <1>1, <1>2, <1>3 DEF Among
<1>5. \A r : r \in ReadFrom(e)' <=> r \in ReadFrom(e) \/ (r = place /\ read)
  BY <1>4, ReadsAmong
<1>6. ReadFrom(e)' = IF read THEN ReadFrom(e) \cup {place} ELSE ReadFrom(e)
  <2>1. CASE read
    BY <1>5, <2>1
  <2>2. CASE ~read
    BY <1>5, <2>2
  <2> QED
    BY <2>1, <2>2
<1> QED
  BY <1>2, <1>3, <1>6

(* A logged entry is read from the day's file, or the torn line it follows *)
(* was paid for by a kill.                                                 *)
LEMMA AppendLineKeepsReads ==
  ASSUME RInv, AppendLine, IInv'
  PROVE  RInv'
<1> DEFINE piece == Line(entry)
           place == <<today, 0>>
<1>1. AuditTypeOK /\ AuditTypeOK'
  BY DEF RInv, IInv
<1>2. /\ today \in Days /\ today \in Nat /\ entry \in Entries /\ Entries \subseteq Nat
      /\ kills \in Nat /\ piece \in Piece
      /\ piece.entry = entry /\ piece.ended = TRUE /\ piece.cut = FALSE
  BY <1>1, AuditBounds DEF RInv, IInv, CopyInv, AuditTypeOK, AppendLine, Piece, Line,
                           Entries, Days
<1>3. /\ live' = [live EXCEPT ![today] = Append(@, piece)]
      /\ UNCHANGED <<archives, today, entry, kills>>
      /\ logged' = logged \cup {entry} /\ at = "append" /\ at' = "idle"
  BY DEF AppendLine
<1>4. /\ TornEnd(live'[today]) <=> FALSE
      /\ \A d \in Days : d # today => live'[d] = live[d]
      /\ \A e : ReadFrom(e)' = IF entry = e /\ ~TornEnd(live[today])
                               THEN ReadFrom(e) \cup {place} ELSE ReadFrom(e)
  BY <1>1, <1>2, <1>3, LineAddedReads
<1>5. entry \notin logged /\ ReadFrom(entry) = {} /\ \A e \in logged : e <= entry
  BY <1>2, <1>3 DEF RInv, FreshInv
<1>6. WholeInv'
  <2>1. /\ live[today] \in Seq(Piece)
        /\ live'[today] = Append(live[today], piece)
    BY <1>1, <1>2, <1>3 DEF AuditTypeOK
  <2>2. ASSUME ~Cut(live[today]) PROVE ~Cut(live'[today])
    <3>1. \A i \in DOMAIN live'[today] :
            i \in DOMAIN live[today] \/ live'[today][i] = piece
      BY <1>2, <2>1, Appended
    <3>2. \A i \in DOMAIN live[today] : live'[today][i] = live[today][i]
      BY <1>2, <2>1, Appended
    <3> QED
      BY <1>2, <2>2, <3>1, <3>2 DEF Cut
  <2>3. ASSUME kills = 0, NEW d \in Days
        PROVE  /\ ~Cut(live'[d])
               /\ \A n \in DOMAIN archives[d] :
                    archives[d][n].whole /\ ~Cut(archives[d][n].lines)
    BY <1>2, <1>3, <1>4, <2>2, <2>3 DEF RInv, WholeInv
  <2> QED
    BY <1>3, <2>3 DEF WholeInv, Cut
<1>7. FreshInv'
  <2>1. \A d \in Days : d > today => live'[d] = <<>>
    BY <1>2, <1>3, <1>4 DEF RInv, FreshInv, Days
  <2>2. \A e \in logged' : e <= entry
    BY <1>2, <1>3, <1>5
  <2>3. \A e \in Entries : ReadFrom(e)' # {} => e \in logged'
    BY <1>3, <1>4 DEF RInv, FreshInv
  <2> QED
    BY <1>3, <2>1, <2>2, <2>3 DEF FreshInv
<1>8. Cardinality(Unread)' + One(TornEnd(live[today]))' <= kills'
  <2>1. IsFiniteSet(Unread) /\ Cardinality(Unread) \in Nat
    BY <1>1, UnreadFinite
  <2>2. Cardinality(Unread) + One(TornEnd(live[today])) <= kills
    BY DEF RInv, CostInv
  <2>3. One(TornEnd(live[today]))' = 0
    BY <1>3, <1>4 DEF One, TornEnd
  <2>4. CASE TornEnd(live[today])
    <3>1. Unread' = Unread \cup {entry} /\ entry \notin Unread
      BY <1>3, <1>4, <1>5, <2>4 DEF Unread
    <3>2. Cardinality(Unread') = Cardinality(Unread) + 1
      BY <2>1, <3>1, FS_AddElement
    <3> QED
      BY <1>2, <1>3, <2>1, <2>2, <2>3, <2>4, <3>2 DEF One
  <2>5. CASE ~TornEnd(live[today])
    <3>1. ReadFrom(entry)' # {}
      <4>1. \A e : e = entry => ReadFrom(e)' = ReadFrom(e) \cup {place}
        BY <1>4, <2>5
      <4>2. place \in ReadFrom(entry)'
        BY <1>3, <1>4, <2>5, ReadsAmong, <4>1
      <4> QED
        BY <4>2
    <3>2. Unread' = Unread
      BY <1>3, <1>4, <1>5, <3>1 DEF Unread
    <3> QED
      BY <1>2, <1>3, <2>1, <2>2, <2>3, <2>5, <3>2 DEF One
  <2> QED
    BY <2>4, <2>5
<1>9. ASSUME NEW e \in Entries
      PROVE  /\ IsFiniteSet(ReadFrom(e)')
             /\ Cardinality(ReadFrom(e)') <= 1 + kills
  <2>1. /\ IsFiniteSet(ReadFrom(e))
        /\ Cardinality(ReadFrom(e)) <= 1 + kills
    <3>1. One(at = "unlink" /\ Holds(live[today], e)) = 0
      BY <1>3 DEF One
    <3>2. /\ IsFiniteSet(ReadFrom(e))
          /\ Cardinality(ReadFrom(e)) <= 1 + kills + One(at = "unlink" /\ Holds(live[today], e))
      BY DEF RInv, CostInv, TimesRead
    <3> QED
      BY <1>2, <3>1, <3>2
  <2>2. CASE e = entry /\ ~TornEnd(live[today])
    <3>1. ReadFrom(e)' = {place}
      <4>1. ReadFrom(e) = {}
        BY <1>5, <2>2
      <4> QED
        BY <1>4, <2>2, <4>1
    <3>2. IsFiniteSet({place}) /\ Cardinality({place}) = 1
      BY FS_Singleton
    <3> QED
      BY <1>2, <3>1, <3>2
  <2>3. CASE ~(e = entry /\ ~TornEnd(live[today]))
    BY <1>4, <2>1, <2>3
  <2> QED
    BY <2>2, <2>3
<1>10. CostInv'
  <2>1. \A b : One(b)' \in {0, 1}
    BY DEF One
  <2>2. \A e \in Entries : One(at = "unlink" /\ Holds(live[today], e))' = 0
    BY <1>3 DEF One
  <2>3. \A e \in Entries : TimesRead(e)' = Cardinality(ReadFrom(e)')
    BY DEF TimesRead
  <2> QED
    BY <1>2, <1>3, <1>8, <1>9, <2>2, <2>3 DEF CostInv
<1> QED
  BY <1>6, <1>7, <1>10 DEF RInv

(* A line that is torn by a kill is read by nobody.                        *)
LEMMA TearKeepsReads ==
  ASSUME RInv, Kill, IInv',
         NEW cut \in BOOLEAN, live' = [live EXCEPT ![today] = Append(@, Torn(entry, cut))]
  PROVE  RInv'
<1> DEFINE piece == Torn(entry, cut)
<1>1. AuditTypeOK /\ AuditTypeOK'
  BY DEF RInv, IInv
<1>2. /\ today \in Days /\ today \in Nat /\ entry \in Entries
      /\ kills \in Nat /\ piece \in Piece /\ piece.ended = FALSE /\ at' = "idle"
      /\ UNCHANGED <<archives, today, entry, logged>> /\ kills' = kills + 1
  BY <1>1, AuditBounds DEF RInv, IInv, CopyInv, AuditTypeOK, Kill, Piece, Torn, Days
<1>3. /\ \A d \in Days : d # today => live'[d] = live[d]
      /\ \A e : ReadFrom(e)' = ReadFrom(e)
  BY <1>1, <1>2, LineAddedReads
<1>4. WholeInv'
  BY <1>2 DEF WholeInv
<1>5. FreshInv'
  <2>1. \A d \in Days : d > today => live'[d] = <<>>
    BY <1>2, <1>3 DEF RInv, FreshInv, Days
  <2> QED
    BY <1>2, <1>3, <2>1 DEF RInv, FreshInv
<1>6. \A b : One(b) \in {0, 1}
  BY DEF One
<1>7. ASSUME NEW e \in Entries
      PROVE  /\ IsFiniteSet(ReadFrom(e)')
             /\ Cardinality(ReadFrom(e)') + kills + One(at = "unlink" /\ Holds(live[today], e))
                  <= Cardinality(ReadFrom(e)) + kills'
                       + One(at' = "unlink" /\ Holds(live'[today'], e))
  <2>1. IsFiniteSet(ReadFrom(e)) /\ Cardinality(ReadFrom(e)) \in Nat
    BY FS_CardinalityType DEF RInv, CostInv
  <2> QED
    BY <1>2, <1>3, <1>6, <2>1
<1>8. kills + One(TornEnd(live'[today'])) <= kills' + One(TornEnd(live[today]))
  BY <1>2, <1>6
<1>9. CostInv'
  BY <1>1, <1>2, <1>3, <1>7, <1>8, CostKept
<1> QED
  BY <1>4, <1>5, <1>9 DEF RInv

LEMMA ReadsInductive == RInv /\ [AuditNext]_auditVars => RInv'
<1> SUFFICES ASSUME RInv, [AuditNext]_auditVars PROVE RInv'
  OBVIOUS
<1>1. IInv'
  BY Inductive DEF RInv
<1>2. CASE Kill
  <2>1. CASE UNCHANGED live
    BY <1>1, <1>2, <2>1, QuietKeepsReads
  <2>2. ASSUME NEW cut \in BOOLEAN, live' = [live EXCEPT ![today] = Append(@, Torn(entry, cut))]
        PROVE  RInv'
    BY <1>1, <1>2, <2>2, TearKeepsReads
  <2> QED
    BY <1>2, <2>1, <2>2 DEF Kill
<1> QED
  BY <1>1, <1>2, QuietKeepsReads, RotateKeepsReads, FinishCopyKeepsReads,
     UnlinkKeepsReads, AppendLineKeepsReads DEF AuditNext

LEMMA ReadsAlways == AuditSpec => []RInv
BY ReadsInitially, ReadsInductive, PTL DEF AuditSpec

(* Without a kill every archive is whole, and nothing is left to pay for.  *)
LEMMA ReadsExactly == RInv => ReadBackExactly
<1> SUFFICES ASSUME RInv, at = "idle", kills = 0
             PROVE  /\ ~ReadFails
                    /\ \A e \in Entries : TimesRead(e) = IF e \in logged THEN 1 ELSE 0
  BY DEF ReadBackExactly
<1>1. ~ReadFails
  BY DEF RInv, WholeInv, ReadFails
<1>2. Unread = {}
  <2>1. AuditTypeOK
    BY DEF RInv, IInv
  <2>2. IsFiniteSet(Unread) /\ Cardinality(Unread) \in Nat
    BY <2>1, UnreadFinite
  <2>3. One(TornEnd(live[today])) \in {0, 1} /\ Cardinality(Unread) + One(TornEnd(live[today])) <= 0
    BY DEF RInv, CostInv, One
  <2>4. Cardinality(Unread) = 0
    BY <2>2, <2>3
  <2> QED
    BY <2>2, <2>4, FS_EmptySet
<1>3. ASSUME NEW e \in Entries
      PROVE  TimesRead(e) = IF e \in logged THEN 1 ELSE 0
  <2>1. One(at = "unlink" /\ Holds(live[today], e)) = 0
    BY DEF One
  <2>2. IsFiniteSet(ReadFrom(e)) /\ Cardinality(ReadFrom(e)) <= 1
    BY <2>1 DEF RInv, CostInv, TimesRead
  <2>3. Cardinality(ReadFrom(e)) \in Nat /\ (Cardinality(ReadFrom(e)) = 0 <=> ReadFrom(e) = {})
    BY <2>2, FS_CardinalityType, FS_EmptySet
  <2>4. ReadFrom(e) # {} <=> e \in logged
    BY <1>2 DEF Unread, RInv, FreshInv
  <2> QED
    BY <2>2, <2>3, <2>4 DEF TimesRead
<1> QED
  BY <1>1, <1>3

LEMMA CostsLittle == RInv => KillsCostLittle
<1> SUFFICES ASSUME RInv, at = "idle"
             PROVE  /\ Cardinality({e \in logged : TimesRead(e) = 0}) <= kills
                    /\ \A e \in logged : TimesRead(e) <= 1 + kills
  BY DEF KillsCostLittle
<1>1. AuditTypeOK /\ kills \in Nat
  BY AuditBounds DEF RInv, IInv, AuditTypeOK
<1>2. logged \subseteq Entries
  BY <1>1 DEF AuditTypeOK
<1>3. ASSUME NEW e \in Entries
      PROVE  (TimesRead(e) = 0 <=> ReadFrom(e) = {}) /\ TimesRead(e) <= 1 + kills
  <2>1. One(at = "unlink" /\ Holds(live[today], e)) = 0
    BY DEF One
  <2>2. IsFiniteSet(ReadFrom(e)) /\ TimesRead(e) <= 1 + kills
    BY <1>1, <2>1 DEF RInv, CostInv
  <2> QED
    BY <2>2, FS_EmptySet DEF TimesRead
<1>4. {e \in logged : TimesRead(e) = 0} = Unread
  BY <1>2, <1>3 DEF Unread
<1>5. Cardinality(Unread) <= kills
  <2>1. Cardinality(Unread) \in Nat /\ One(TornEnd(live[today])) \in {0, 1}
    BY <1>1, UnreadFinite
  <2>2. Cardinality(Unread) + One(TornEnd(live[today])) <= kills
    BY DEF RInv, CostInv
  <2> QED
    BY <1>1, <2>1, <2>2
<1> QED
  BY <1>2, <1>3, <1>4, <1>5

-----------------------------------------------------------------------------

(* The files and archives keep their shape.                                *)
THEOREM AuditTyped == AuditSpec => []AuditTypeOK
BY Always, PTL DEF IInv

(* No logged entry leaves the day's file before a whole archive holds it,  *)
(* wherever rotation is killed.                                            *)
THEOREM LosesNothing == AuditSpec => []NothingLost
BY Always, PTL DEF IInv

(* Unless the process is killed, GET /audit returns every logged entry     *)
(* once and nothing else, whatever was rotated and on whichever day.       *)
THEOREM ReadsBackExactly == AuditSpec => []ReadBackExactly
BY ReadsAlways, ReadsExactly, PTL

(* As long as reading goes through, that is, no kill left a truncated      *)
(* archive or a cut character, at most as many logged entries are unread   *)
(* as there were kills, and an entry is read once plus once for each kill. *)
THEOREM KillsAreCheap == AuditSpec => []KillsCostLittle
BY ReadsAlways, CostsLittle, PTL

=============================================================================

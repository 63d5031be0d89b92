------------------------------ MODULE AuditLog ------------------------------
(***************************************************************************)
(* The audit log of langgraph-agent (app/audit_log.py): one file of lines  *)
(* per day, compressed into numbered archives when it grows too big, read  *)
(* back by GET /audit.  Writing is synchronous code in the one event loop  *)
(* of the process, so a reader never sees a writer half-way; the process   *)
(* may be killed anywhere in between, and is then started again.           *)
(***************************************************************************)
EXTENDS Naturals, Sequences, FiniteSets

CONSTANTS
  MaxLines,     \* AUDIT_LOG_MAX_BYTES, in lines
  MaxEntries,   \* bound: entries written
  MaxDays,      \* bound: days
  MaxKills      \* bound: kills of the process

ASSUME AuditBounds == /\ MaxLines \in Nat \ {0} /\ MaxEntries \in Nat
                      /\ MaxDays \in Nat \ {0} /\ MaxKills \in Nat

Entries == 1..MaxEntries
Days    == 1..MaxDays

\* A piece of a line: an entry with its end of line, or the beginning of an
\* entry whose writer was killed, perhaps in the middle of a character; what
\* is appended next continues that line.
Piece == [entry : Entries, ended : BOOLEAN, cut : BOOLEAN]
\* An archive that is not whole is truncated: gzip cannot read it.
Archive == [lines : Seq(Piece), whole : BOOLEAN]
\* What is on disk of an archive that is being written: nothing yet, which
\* reads as no line, or a beginning.
Started == [lines : {<<>>}, whole : BOOLEAN]

Line(e)      == [entry |-> e, ended |-> TRUE, cut |-> FALSE]
Torn(e, cut) == [entry |-> e, ended |-> FALSE, cut |-> cut]

VARIABLES
  live,       \* each day's .jsonl file; empty when there is none
  archives,   \* each day's .N.jsonl.gz files, by N
  today,
  at,         \* "idle", "rotate", "copying", "unlink", "append"
  entry,      \* number of entries handed to _append_entry
  logged,     \* entries whose _append_entry returned (history)
  kills       \* kills so far (history)

auditVars == <<live, archives, today, at, entry, logged, kills>>

AuditInit ==
  /\ live = [d \in Days |-> <<>>] /\ archives = [d \in Days |-> <<>>]
  /\ today = 1 /\ at = "idle" /\ entry = 0 /\ logged = {} /\ kills = 0

----------------------------------------------------------------------------
(* _append_entry *)

\* log_tool_call, log_message and log_failure_notice build the entry and
\* hand it over; the file is the one of the day it is.
Log ==
  /\ at = "idle" /\ entry < MaxEntries
  /\ entry' = entry + 1
  /\ at' = "rotate"
  /\ UNCHANGED <<live, archives, today, logged, kills>>

\* Faulty variant: the file is emptied before it is copied.
RotateEmptiesFirst ==
  /\ at = "rotate"
  /\ IF Len(live[today]) < MaxLines
     THEN at' = "append" /\ UNCHANGED <<live, archives>>
     ELSE /\ at' = "copying"
          /\ live' = [live EXCEPT ![today] = <<>>]
          /\ \E archive \in Started :
               archives' = [archives EXCEPT ![today] = Append(@, archive)]
  /\ UNCHANGED <<today, entry, logged, kills>>

\* Faulty variant: the archive of the day is written over.
RotateOver ==
  /\ at = "rotate"
  /\ IF Len(live[today]) < MaxLines
     THEN at' = "append" /\ UNCHANGED archives
     ELSE /\ at' = "copying"
          /\ \E archive \in Started : archives' = [archives EXCEPT ![today] = <<archive>>]
  /\ UNCHANGED <<live, today, entry, logged, kills>>

\* _rotate_if_needed: a file under the limit is left alone, a full one is
\* copied to the first archive number that is free.
Rotate ==
  /\ at = "rotate"
  /\ IF Len(live[today]) < MaxLines
     THEN at' = "append" /\ UNCHANGED archives
     ELSE /\ at' = "copying"
          /\ \E archive \in Started :
               archives' = [archives EXCEPT ![today] = Append(@, archive)]
  /\ UNCHANGED <<live, today, entry, logged, kills>>

FinishCopy ==
  /\ at = "copying"
  /\ archives' = [archives EXCEPT ![today][Len(archives[today])] =
                    [lines |-> live[today], whole |-> TRUE]]
  /\ at' = "unlink"
  /\ UNCHANGED <<live, today, entry, logged, kills>>

\* Faulty variant: the file stays after it was copied.
UnlinkNothing ==
  /\ at = "unlink"
  /\ at' = "append"
  /\ UNCHANGED <<live, archives, today, entry, logged, kills>>

Unlink ==
  /\ at = "unlink"
  /\ live' = [live EXCEPT ![today] = <<>>]
  /\ at' = "append"
  /\ UNCHANGED <<archives, today, entry, logged, kills>>

AppendLine ==
  /\ at = "append"
  /\ live' = [live EXCEPT ![today] = Append(@, Line(entry))]
  /\ logged' = logged \cup {entry}
  /\ at' = "idle"
  /\ UNCHANGED <<archives, today, entry, kills>>

----------------------------------------------------------------------------
NextDay ==
  /\ at = "idle" /\ today < MaxDays
  /\ today' = today + 1
  /\ UNCHANGED <<live, archives, at, entry, logged, kills>>

\* The process is killed and restarted; a line being written may be torn.
Kill ==
  /\ at # "idle" /\ kills < MaxKills
  /\ kills' = kills + 1
  /\ at' = "idle"
  /\ \/ UNCHANGED live
     \/ /\ at = "append"
        /\ \E cut \in BOOLEAN : live' = [live EXCEPT ![today] = Append(@, Torn(entry, cut))]
  /\ UNCHANGED <<archives, today, entry, logged>>

AuditNext == Log \/ Rotate \/ FinishCopy \/ Unlink \/ AppendLine \/ NextDay \/ Kill

AuditSpec == AuditInit /\ [][AuditNext]_auditVars

----------------------------------------------------------------------------
(* Reading back *)

\* Positions of a file whose line parses: a whole entry at a line's start.
Parsed(file) == {i \in DOMAIN file : file[i].ended /\ (i = 1 \/ file[i - 1].ended)}

\* read_entries decodes every file in turn and skips the lines that json
\* refuses; a truncated archive or a cut character fails it all.
Cut(file) == \E i \in DOMAIN file : file[i].cut
ReadFails ==
  \E d \in Days : \/ Cut(live[d])
                 \/ \E n \in DOMAIN archives[d] :
                      ~archives[d][n].whole \/ Cut(archives[d][n].lines)

\* The files an entry is read from.  A file holds an entry at most once.
Holds(file, e) == \E i \in Parsed(file) : file[i].entry = e
ReadFrom(e) ==
  {<<d, 0>> : d \in {day \in Days : Holds(live[day], e)}}
    \cup UNION {{<<d, n>> : n \in {m \in DOMAIN archives[d] :
                                     Holds(archives[d][m].lines, e)}} : d \in Days}
TimesRead(e) == Cardinality(ReadFrom(e))

----------------------------------------------------------------------------
(* Properties *)

AuditTypeOK ==
  /\ live \in [Days -> Seq(Piece)] /\ archives \in [Days -> Seq(Archive)]
  /\ today \in Days /\ at \in {"idle", "rotate", "copying", "unlink", "append"}
  /\ entry \in 0..MaxEntries /\ logged \subseteq Entries /\ kills \in 0..MaxKills

\* A tool call that was logged stands in the day's file or in a readable
\* archive, wherever rotation was killed (_rotate_if_needed copies, then
\* unlinks, and never writes over an archive).
NothingLost ==
  \A e \in logged : \E d \in Days :
    \/ \E i \in DOMAIN live[d] : live[d][i].entry = e
    \/ \E n \in DOMAIN archives[d] :
         archives[d][n].whole /\ \E i \in DOMAIN archives[d][n].lines :
                                    archives[d][n].lines[i].entry = e

\* As long as the process is not killed, GET /audit returns every logged entry
\* once, and nothing else (_iter_log_files, read_entries).
ReadBackExactly ==
  at = "idle" /\ kills = 0 =>
    ~ReadFails /\ \A e \in Entries : TimesRead(e) = IF e \in logged THEN 1 ELSE 0

\* As long as no kill left a truncated archive or a cut character behind, on
\* which GET /audit raises for every entry from then on, a kill costs the
\* reader one logged entry at most, the one appended to a torn line, or one
\* more copy of the entries of a file (read_entries, _rotate_if_needed).
KillsCostLittle ==
  at = "idle" /\ ~ReadFails =>
    /\ Cardinality({e \in logged : TimesRead(e) = 0}) <= kills
    /\ \A e \in logged : TimesRead(e) <= 1 + kills
=============================================================================

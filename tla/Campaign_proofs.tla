-------------------------- MODULE Campaign_proofs ---------------------------
(***************************************************************************)
(* What holds of Campaign for every plan, every number of workers and      *)
(* every number of segments.                                               *)
(***************************************************************************)
EXTENDS Campaign, SequenceTheorems, WellFoundedInduction, TLAPS

-----------------------------------------------------------------------------
(* The operators on the state dict make well-typed dicts. *)

LEMMA StateTypes ==
  /\ InitialState \in State
  /\ \A s \in State : \A b \in BOOLEAN : CloseSegment(s, b) \in State
  /\ \A s \in State : s.segments < MaxSegments => OpenNewSegment(s) \in State
<1>1. InitialState \in State
  BY SegmentsAssumption DEF InitialState, State, Segments
<1>2. ASSUME NEW s \in State, NEW b \in BOOLEAN PROVE CloseSegment(s, b) \in State
  BY DEF State, CloseSegment
<1>3. ASSUME NEW s \in State, s.segments < MaxSegments PROVE OpenNewSegment(s) \in State
  <2>1. s.segments \in 1..MaxSegments
    BY DEF State, Segments
  <2>2. s.segments + 1 \in Segments
    BY <1>3, <2>1, SegmentsAssumption DEF Segments
  <2> QED
    BY <2>2 DEF State, OpenNewSegment
<1> QED
  BY <1>1, <1>2, <1>3

(* Whatever commands fail, what is read of a setting is what it is, or     *)
(* nothing.                                                                *)
LEMMA MetadataTypes ==
  ASSUME config \in Configs
  PROVE  /\ NothingRead \in [Settings -> Values \cup {Unread}]
         /\ \A read \in CollectMetadata :
              /\ read \in [Settings -> Values \cup {Unread}]
              /\ \A s \in Settings : read[s] \in {config[s], Unread}
<1>1. config \in [Settings -> Values \cup {Unread}]
  BY ConfigAssumption
<1> QED
  BY <1>1 DEF NothingRead, CollectMetadata

LEMMA ClaimTypes ==
  ASSUME NEW s \in State, NEW r \in Runs
  PROVE  /\ [s EXCEPT !.active = @ \cup {<<r, s.segments>>}] \in State
         /\ [s EXCEPT !.completed = @ \cup {r},
                      !.active = @ \ {<<r, s.segments>>}] \in State
         /\ [run |-> r, segment |-> s.segments] \in Row
<1>1. /\ s.completed \cup {r} \in SUBSET Runs
      /\ <<r, s.segments>> \in Runs \X Segments
      /\ s.active \in SUBSET (Runs \X Segments) /\ s.segments \in Segments
  BY DEF State
<1>2. /\ s.active \cup {<<r, s.segments>>} \in SUBSET (Runs \X Segments)
      /\ s.active \ {<<r, s.segments>>} \in SUBSET (Runs \X Segments)
  BY <1>1
<1> QED
  BY <1>1, <1>2 DEF State, Row

LEMMA ProcessGoneType ==
  ASSUME ProcessGone
  PROVE  /\ pc' = "none" /\ metadataNow' = NothingRead /\ mem' \in State
         /\ previous' \in Seq(Row) /\ rows' \in Seq(Row) /\ queue' \subseteq Runs
         /\ pauseRequested' \in BOOLEAN
         /\ wpc' \in [Workers -> {"claim", "lock", "purge", "run", "record",
                                  "appended", "done", "dead"}]
         /\ wrun' \in [Workers -> Runs \cup {NoRun}]
         /\ downloadLock' \in Workers \cup {Nobody}
<1>1. <<>> \in Seq(Row)
  BY EmptySeq
<1> QED
  BY <1>1, StateTypes DEF ProcessGone

(* An invariant of the workers' program counters: what a worker in flight  *)
(* holds, and where no harness is running.                                  *)
Held == \A w \in Workers : InFlight(w) => wrun[w] \in Runs

IdleWorkers == pc # "pool" => \A w \in Workers : ~InFlight(w)

KnownCampaign == pc # "none" => progress # NoFile

TypeInv == TypeOK /\ Held /\ IdleWorkers /\ KnownCampaign
           /\ (script # "off" => progress # NoFile)

LEMMA TypeInvInit == Init => TypeInv
<1> SUFFICES ASSUME Init PROVE TypeInv
  OBVIOUS
<1>1. <<>> \in Seq(Row) /\ <<>> \in Seq(Configs)
  BY EmptySeq
<1>2. NothingRead \in [Settings -> Values \cup {Unread}]
  BY DEF NothingRead
<1> QED
  BY <1>1, <1>2, StateTypes
     DEF Init, NoProcess, TypeInv, TypeOK, Held, IdleWorkers, KnownCampaign, InFlight

-----------------------------------------------------------------------------
(* Type correctness, action by action. *)

LEMMA TypeInvWorker ==
  ASSUME TypeInv, NEW w \in Workers, WorkerStep(w)
  PROVE  TypeInv'
<1> USE DEF TypeInv
<1>0. TypeOK
  OBVIOUS
<1>1. CASE Claim(w)
  <2>1. CASE pauseRequested \/ queue = {}
    BY <1>1, <2>1 DEF Claim, TypeOK, PoolUnchanged, Held, IdleWorkers, KnownCampaign, InFlight
  <2>2. CASE ~(pauseRequested \/ queue = {})
    <3>1. PICK r \in Runs :
            /\ queue' = queue \ {r}
            /\ wpc' = [wpc EXCEPT ![w] = "lock"]
            /\ wrun' = [wrun EXCEPT ![w] = r]
            /\ mem' = [mem EXCEPT !.active = @ \cup {<<r, mem.segments>>}]
            /\ progress' = mem'
      BY <1>1, <2>2 DEF Claim
    <3>2. mem' \in State /\ progress' \in State
      BY <3>1, ClaimTypes DEF TypeOK
    <3>3. TypeOK'
      BY <1>0, <1>1, <3>1, <3>2 DEF Claim, TypeOK, PoolUnchanged
    <3> QED
      BY <1>1, <3>1, <3>2, <3>3, NoFileAssumption
         DEF Claim, TypeOK, PoolUnchanged, Held, IdleWorkers, KnownCampaign, InFlight
  <2> QED
    BY <2>1, <2>2
<1>2. CASE TakeDownloadLock(w)
  BY <1>2 DEF TakeDownloadLock, TypeOK, PoolUnchanged, Held, IdleWorkers, KnownCampaign, InFlight
<1>3. CASE Purge(w)
  BY <1>3 DEF Purge, TypeOK, PoolUnchanged, Held, IdleWorkers, KnownCampaign, InFlight
<1>4. CASE Download(w)
  BY <1>4 DEF Download, TypeOK, PoolUnchanged, pool, Held, IdleWorkers, KnownCampaign, InFlight
<1>5. CASE RunReturns(w)
  BY <1>5 DEF RunReturns, ReleaseDownloadLock, TypeOK, PoolUnchanged,
              Held, IdleWorkers, KnownCampaign, InFlight
<1>6. CASE WorkerDies(w)
  BY <1>6 DEF WorkerDies, ReleaseDownloadLock, TypeOK, PoolUnchanged,
              Held, IdleWorkers, KnownCampaign, InFlight
<1>7. CASE AppendRow(w)
  <2>1. [run |-> wrun[w], segment |-> mem.segments] \in Row
    BY <1>7, ClaimTypes DEF AppendRow, Held, InFlight, TypeOK
  <2>2. rows' \in Seq(Row) /\ results' \in Seq(Row)
    BY <1>7, <2>1, AppendProperties DEF AppendRow, TypeOK
  <2> QED
    BY <1>7, <2>2 DEF AppendRow, TypeOK, PoolUnchanged, Held, IdleWorkers, KnownCampaign, InFlight
<1>8. CASE CompleteRun(w)
  <2>1. mem' \in State /\ progress' \in State
    BY <1>8, ClaimTypes DEF CompleteRun, Held, InFlight, TypeOK
  <2>2. TypeOK'
    BY <1>0, <1>8, <2>1 DEF CompleteRun, TypeOK, PoolUnchanged
  <2> QED
    BY <1>8, <2>1, <2>2, NoFileAssumption
       DEF CompleteRun, TypeOK, PoolUnchanged, Held, IdleWorkers, KnownCampaign, InFlight
<1> QED
  BY <1>1, <1>2, <1>3, <1>4, <1>5, <1>6, <1>7, <1>8 DEF WorkerStep

LEMMA StartPoolType ==
  ASSUME TypeInv, NEW state \in State, StartPool(state),
         previous' \in Seq(Row)
  PROVE  /\ pc' = "pool" /\ mem' \in State /\ progress' \in State
         /\ rows' \in Seq(Row) /\ queue' \subseteq Runs /\ pauseRequested' \in BOOLEAN
         /\ wpc' = [w \in Workers |-> "claim"]
         /\ wrun' = [w \in Workers |-> NoRun]
         /\ measured' \in Seq(Configs)
         /\ progress' # NoFile
         /\ (Held /\ IdleWorkers /\ KnownCampaign)'
<1>1. <<>> \in Seq(Row)
  BY EmptySeq
<1>2. measured' \in Seq(Configs)
  BY AppendProperties DEF StartPool, TypeInv, TypeOK
<1> QED
  BY <1>1, <1>2, NoFileAssumption
     DEF StartPool, Remaining, Held, IdleWorkers, KnownCampaign, InFlight

LEMMA TypeInvHarness ==
  ASSUME TypeInv, HarnessStep \/ Crash
  PROVE  TypeInv'
<1> USE DEF TypeInv
<1>0. TypeOK
  OBVIOUS
<1>1. CASE Launch
  <2>1. previous' \in Seq(Row)
    BY <1>1, EmptySeq DEF Launch
  <2>2. recorded' \in [Settings -> Values \cup {Unread}]
    BY <1>0, <1>1, MetadataTypes DEF Launch, TypeOK
  <2> QED
    BY <1>0, <1>1, <2>1, <2>2, StateTypes, StartPoolType, Zenon DEF Launch, TypeOK
<1>2. CASE ResumePreflight
  <2>1. metadataNow' \in [Settings -> Values \cup {Unread}]
    BY <1>0, <1>2, MetadataTypes DEF ResumePreflight, TypeOK
  <2> QED
    BY <1>2, <2>1 DEF ResumePreflight, files, pool, TypeOK, Held, IdleWorkers,
              KnownCampaign, InFlight
<1>3. CASE ResumeRefused
  BY <1>0, <1>3, MetadataTypes DEF ResumeRefused, files, pool, around, TypeOK, Held,
     IdleWorkers, KnownCampaign, InFlight
<1>4. CASE ResumeOpen
  <2>1. OpenNewSegment(progress) \in State
    BY <1>4, StateTypes DEF ResumeOpen, TypeOK, KnownCampaign
  <2>2. previous' \in Seq(Row)
    BY <1>4 DEF ResumeOpen, TypeOK
  <2> QED
    BY <1>0, <1>4, <2>1, <2>2, StartPoolType, Zenon DEF ResumeOpen, TypeOK
<1>5. CASE FinalWrite
  <2>1. results' \in Seq(Row)
    BY <1>5, ConcatProperties DEF FinalWrite, TypeOK
  <2> QED
    BY <1>5, <2>1 DEF FinalWrite, Joined, pool, around, TypeOK, Held, IdleWorkers,
                      KnownCampaign, InFlight
<1>6. CASE ConsumeSentinel
  BY <1>6 DEF ConsumeSentinel, pool, around, TypeOK, Held, IdleWorkers,
              KnownCampaign, InFlight
<1>7. CASE ReportPaused \/ Finish
  <2>1. progress' \in State /\ ProcessGone /\ UNCHANGED <<results, recorded, sentinel, around>>
    BY <1>7, StateTypes DEF ReportPaused, Finish, TypeOK
  <2>2. TypeOK'
    BY <1>0, <2>1, ProcessGoneType, MetadataTypes DEF TypeOK, around
  <2> QED
    BY <2>1, <2>2, NoFileAssumption
       DEF ProcessGone, around, Held, IdleWorkers, KnownCampaign, InFlight
<1>8. CASE Crash
  <2>1. TypeOK'
    BY <1>0, <1>8, ProcessGoneType, MetadataTypes, PlanAssumption DEF Crash, TypeOK, files
  <2> QED
    BY <1>8, <2>1 DEF Crash, files, ProcessGone, Held, IdleWorkers, KnownCampaign, InFlight
<1> QED
  BY <1>1, <1>2, <1>3, <1>4, <1>5, <1>6, <1>7, <1>8 DEF HarnessStep

EnvironmentStep ==
  \/ \E release \in BOOLEAN : PauseRequest(release)
  \/ ScriptSeesPause \/ ScriptGivesUp \/ ScriptStopsServices
  \/ StartServices \/ Reconfigure
  \/ \E r \in Serialized : LateDownload(r)

LEMMA TypeInvEnvironment ==
  ASSUME TypeInv, EnvironmentStep
  PROVE  TypeInv'
<1>1. /\ AroundUnchanged /\ abandoned' = abandoned
      /\ sentinel' \in {sentinel, TRUE} /\ services' \in BOOLEAN
      /\ config' \in Configs /\ downloads' \subseteq downloads \cup abandoned
  BY DEF EnvironmentStep, TypeInv, TypeOK, PauseRequest, ScriptSeesPause, ScriptGivesUp,
         ScriptStopsServices, StartServices, Reconfigure, LateDownload
<1>2. script' \in {"off", "polling", "stopping"} /\ (script' # "off" => progress # NoFile)
  BY DEF EnvironmentStep, TypeInv, TypeOK, PauseRequest, ScriptSeesPause, ScriptGivesUp,
         ScriptStopsServices, StartServices, Reconfigure, LateDownload
<1>3. confirmed' \in Segments \cup {0}
  <2>1. confirmed' \in {confirmed, 0} \/ (ScriptSeesPause /\ confirmed' = progress.segments)
    BY DEF EnvironmentStep, PauseRequest, ScriptSeesPause, ScriptGivesUp,
       ScriptStopsServices, StartServices, Reconfigure, LateDownload
  <2>2. progress # NoFile => progress.segments \in Segments
    BY DEF TypeInv, TypeOK, State
  <2> QED
    BY <2>1, <2>2 DEF TypeInv, TypeOK, ScriptSeesPause
<1>4. TypeOK'
  BY <1>1, <1>2, <1>3 DEF TypeInv, TypeOK, AroundUnchanged, process, pool
<1>5. (Held /\ IdleWorkers /\ KnownCampaign)' /\ progress' = progress
  BY <1>1 DEF TypeInv, AroundUnchanged, process, pool, Held, IdleWorkers, KnownCampaign,
              InFlight
<1> QED
  BY <1>2, <1>4, <1>5 DEF TypeInv

LEMMA Steps == [Next]_vars => \/ HarnessStep \/ Crash
                              \/ \E w \in Workers : WorkerStep(w)
                              \/ EnvironmentStep
                              \/ UNCHANGED vars
BY DEF Next, EnvironmentStep

LEMMA TypeInvStep == TypeInv /\ [Next]_vars => TypeInv'
<1> SUFFICES ASSUME TypeInv, [Next]_vars PROVE TypeInv'
  OBVIOUS
<1>1. CASE UNCHANGED vars
  BY <1>1 DEF vars, files, process, pool, around, TypeInv, TypeOK, Held, IdleWorkers,
              KnownCampaign, InFlight
<1> QED
  BY <1>1, Steps, TypeInvHarness, TypeInvWorker, TypeInvEnvironment, Zenon

(* Every state of a campaign is well typed.                                *)
THEOREM Typed == Spec => []TypeOK
<1>1. TypeInv => TypeOK
  BY DEF TypeInv
<1> QED
  BY <1>1, TypeInvInit, TypeInvStep, PTL DEF Spec

-----------------------------------------------------------------------------
(* The bookkeeping of the pool. *)

HarnessAtWork == pc \in {"pool", "written", "unlinked"}

Claimed(w) == InFlight(w) \/ wpc[w] = "dead"

(* The two files and the state dict agree up to the rows appended but not  *)
(* yet completed, and nothing recorded is queued.                          *)
Books == HarnessAtWork =>
  /\ progress = mem /\ ~mem.paused /\ mem.open
  /\ results = previous \o rows
  /\ mem.completed \subseteq RunsOf(results)
  /\ \A r \in RunsOf(results) :
       r \in mem.completed \/ \E w \in Workers : wpc[w] = "appended" /\ wrun[w] = r
  /\ queue \cap RunsOf(results) = {}
  /\ pc # "pool" => Joined

(* A claimed run belongs to one worker, is not queued, not recorded before *)
(* its row is appended, and shown as active.                               *)
Claims == HarnessAtWork =>
  \A w \in Workers : Claimed(w) =>
    /\ wrun[w] \in Runs \ queue
    /\ wpc[w] # "appended" => wrun[w] \notin RunsOf(results)
    /\ \A v \in Workers : v # w /\ Claimed(v) => wrun[v] # wrun[w]
    /\ <<wrun[w], mem.segments>> \in mem.active

(* No planned run gets lost, and a worker leaves only when told to pause   *)
(* or when nothing is left.                                                *)
Cover == HarnessAtWork =>
  /\ \A r \in Runs : \/ r \in RunsOf(results) \/ r \in queue
                     \/ \E w \in Workers : Claimed(w) /\ wrun[w] = r
  /\ \A w \in Workers : wpc[w] = "done" => pauseRequested \/ queue = {}

Unlaunched == progress = NoFile => results = <<>> /\ measured = <<>>

(* A worker between the two writes has its row in the results.             *)
AppendedIsRecorded ==
  \A w \in Workers : wpc[w] = "appended" => wrun[w] \in RunsOf(results)

BooksInv == TypeInv /\ AppendedIsRecorded /\ Books /\ Claims /\ Cover /\ Unlaunched /\ NoRunRecordedTwice
            /\ PausedMeansConsistent /\ FinishedMeansComplete

LEMMA AppendedRow ==
  ASSUME NEW s \in Seq(Row), NEW row \in Row
  PROVE  /\ RunsOf(Append(s, row)) = RunsOf(s) \cup {row.run}
         /\ (\A i, j \in DOMAIN s : s[i].run = s[j].run => i = j)
              /\ row.run \notin RunsOf(s)
            => \A i, j \in DOMAIN Append(s, row) :
                 Append(s, row)[i].run = Append(s, row)[j].run => i = j
<1> DEFINE t == Append(s, row)
<1>1. /\ DOMAIN s = 1..Len(s) /\ Len(s) \in Nat
      /\ DOMAIN t = 1..(Len(s) + 1)
      /\ \A i \in 1..Len(s) : t[i] = s[i]
      /\ t[Len(s) + 1] = row
  BY AppendProperties, LenProperties
<1> HIDE DEF t
<1>2. RunsOf(t) \subseteq RunsOf(s) \cup {row.run}
  BY <1>1 DEF RunsOf
<1>3. RunsOf(s) \cup {row.run} \subseteq RunsOf(t)
  <2>1. ASSUME NEW i \in DOMAIN s PROVE s[i].run \in RunsOf(t)
    BY <1>1, <2>1 DEF RunsOf
  <2>2. row.run \in RunsOf(t)
    BY <1>1 DEF RunsOf
  <2> QED
    BY <2>1, <2>2 DEF RunsOf
<1>4. ASSUME \A i, j \in DOMAIN s : s[i].run = s[j].run => i = j,
             row.run \notin RunsOf(s)
      PROVE  \A i, j \in DOMAIN t : t[i].run = t[j].run => i = j
  <2>1. \A i \in DOMAIN s : s[i].run # row.run
    BY <1>4 DEF RunsOf
  <2> QED
    BY <1>1, <1>4, <2>1
<1> QED
  BY <1>2, <1>3, <1>4 DEF t

LEMMA AppendConcat ==
  ASSUME NEW s \in Seq(Row), NEW t \in Seq(Row), NEW row \in Row
  PROVE  Append(s \o t, row) = s \o Append(t, row)
<1>1. <<row>> \in Seq(Row)
  OBVIOUS
<1>2. s \o t \in Seq(Row)
  BY ConcatProperties
<1>3. Append(s \o t, row) = (s \o t) \o <<row>> /\ Append(t, row) = t \o <<row>>
  BY <1>2, AppendIsConcat
<1> QED
  BY <1>1, <1>3, ConcatAssociative

LEMMA RecordedRuns ==
  ASSUME NEW s \in Seq(Row)
  PROVE  RunsOf(s) \subseteq Runs
<1>1. \A i \in DOMAIN s : s[i] \in Row
  BY LenProperties, ElementOfSeq
<1> QED
  BY <1>1 DEF RunsOf, Row

LEMMA EmptyRuns == RunsOf(<<>>) = {}
BY DEF RunsOf

LEMMA BooksInit == Init => BooksInv
<1> SUFFICES ASSUME Init PROVE BooksInv
  OBVIOUS
<1>1. DOMAIN results = {} /\ progress = NoFile /\ pc = "none"
      /\ results = <<>> /\ measured = <<>>
  BY DEF Init, NoProcess
<1> QED
  BY <1>1, TypeInvInit
     DEF BooksInv, Books, Claims, Cover, Unlaunched, HarnessAtWork, NoRunRecordedTwice,
         PausedMeansConsistent, FinishedMeansComplete, AppendedIsRecorded, Init, NoProcess

(* The steps of a worker that neither record nor complete a run.           *)
LEMMA BooksSameFiles ==
  ASSUME BooksInv, TypeInv', NEW w \in Workers,
         UNCHANGED <<pc, progress, results, mem, rows, queue, previous, pauseRequested,
                     measured, wrun>>,
         wpc[w] # "appended", wpc[w] # "done", wpc'[w] # "appended",
         InFlight(w), Claimed(w)',
         \A v \in Workers : v # w => wpc'[v] = wpc[v]
  PROVE  BooksInv'
<1>1. \A v \in Workers : /\ Claimed(v)' <=> Claimed(v)
                         /\ wpc'[v] = "appended" <=> wpc[v] = "appended"
  BY DEF Claimed, InFlight
<1>2. \A v \in Workers : wpc'[v] = "done" => wpc[v] = "done"
  BY DEF Claimed, InFlight
<1>3. ~Joined
  BY DEF Joined, Claimed, InFlight
<1>4. RunsOf(results)' = RunsOf(results) /\ HarnessAtWork' = HarnessAtWork
  BY DEF HarnessAtWork, RunsOf
<1>5. Books'
  BY <1>1, <1>3, <1>4 DEF BooksInv, Books
<1>6. Claims'
  BY <1>1, <1>4 DEF BooksInv, Claims
<1>7. Cover'
  BY <1>1, <1>2, <1>4 DEF BooksInv, Cover
<1> QED
  BY <1>1, <1>4, <1>5, <1>6, <1>7
     DEF AppendedIsRecorded, BooksInv, Unlaunched, NoRunRecordedTwice, PausedMeansConsistent,
         FinishedMeansComplete

LEMMA BooksClaim ==
  ASSUME BooksInv, TypeInv', NEW w \in Workers, Claim(w)
  PROVE  BooksInv'
<1>1. /\ pc = "pool" /\ pc' = "pool" /\ wpc[w] = "claim" /\ results' = results
      /\ rows' = rows /\ previous' = previous /\ measured' = measured
      /\ pauseRequested' = pauseRequested
  BY DEF Claim, PoolUnchanged
<1>2. HarnessAtWork /\ HarnessAtWork' /\ RunsOf(results)' = RunsOf(results)
  BY <1>1 DEF HarnessAtWork, RunsOf
<1>3. ~Claimed(w) /\ wpc[w] # "appended"
  BY <1>1 DEF Claimed, InFlight
<1>4. NoRunRecordedTwice' /\ (progress' # NoFile)
  BY <1>1 DEF BooksInv, NoRunRecordedTwice, TypeInv, KnownCampaign
<1>5. CASE pauseRequested \/ queue = {}
  <2>1. /\ wpc' = [wpc EXCEPT ![w] = "done"]
        /\ UNCHANGED <<progress, mem, queue, wrun>>
    BY <1>5 DEF Claim
  <2>2. \A v \in Workers : /\ Claimed(v)' <=> Claimed(v)
                           /\ wpc'[v] = "appended" <=> wpc[v] = "appended"
                           /\ v # w => wpc'[v] = wpc[v]
    BY <1>1, <1>3, <2>1 DEF Claimed, InFlight, BooksInv, TypeInv, TypeOK
  <2>3. Books' /\ Claims'
    BY <1>1, <1>2, <2>1, <2>2 DEF BooksInv, Books, Claims
  <2>4. Cover'
    BY <1>1, <1>2, <1>5, <2>1, <2>2 DEF BooksInv, Cover
  <2> QED
    BY <1>1, <1>2, <1>4, <2>1, <2>2, <2>3, <2>4
       DEF AppendedIsRecorded, BooksInv, Unlaunched, PausedMeansConsistent, FinishedMeansComplete
<1>6. CASE ~(pauseRequested \/ queue = {})
  <2>1. PICK r \in Runs :
          /\ r \in queue /\ queue' = queue \ {r}
          /\ wpc' = [wpc EXCEPT ![w] = "lock"]
          /\ wrun' = [wrun EXCEPT ![w] = r]
          /\ mem' = [mem EXCEPT !.active = @ \cup {<<r, mem.segments>>}]
          /\ progress' = mem'
    BY <1>6 DEF Claim, FirstOf
  <2>2. /\ mem'.active = mem.active \cup {<<r, mem.segments>>}
        /\ mem'.segments = mem.segments /\ mem'.completed = mem.completed
        /\ mem'.paused = mem.paused /\ mem'.open = mem.open
    BY <2>1 DEF BooksInv, TypeInv, TypeOK, State
  <2>3. \A v \in Workers : /\ v # w => wpc'[v] = wpc[v] /\ wrun'[v] = wrun[v]
                           /\ v # w => (Claimed(v)' <=> Claimed(v))
                           /\ wpc'[v] = "appended" <=> wpc[v] = "appended"
                           /\ v # w /\ wpc'[v] = "done" => wpc[v] = "done"
    BY <1>1, <1>3, <2>1 DEF Claimed, InFlight, BooksInv, TypeInv, TypeOK
  <2>4. Claimed(w)' /\ wrun'[w] = r /\ wpc'[w] = "lock"
    BY <1>3, <2>1 DEF Claimed, InFlight, BooksInv, TypeInv, TypeOK
  <2>5. r \notin RunsOf(results)
    BY <1>2, <2>1 DEF BooksInv, Books
  <2>6. Books'
    <3>1. \A x \in RunsOf(results) :
            x \in mem.completed \/ \E v \in Workers : wpc'[v] = "appended" /\ wrun'[v] = x
      BY <1>2, <1>3, <2>3 DEF BooksInv, Books
    <3> QED
      BY <1>1, <1>2, <2>1, <2>2, <3>1 DEF BooksInv, Books
  <2>7. Claims'
    BY <1>2, <2>1, <2>2, <2>3, <2>4, <2>5 DEF BooksInv, Claims
  <2>8. Cover'
    <3>1. \A x \in Runs : \/ x \in RunsOf(results) \/ x \in queue'
                          \/ \E v \in Workers : Claimed(v)' /\ wrun'[v] = x
      BY <1>2, <1>3, <2>1, <2>3, <2>4 DEF BooksInv, Cover
    <3>2. \A v \in Workers : wpc'[v] = "done" => pauseRequested' \/ queue' = {}
      BY <1>1, <1>2, <1>6, <2>3, <2>4 DEF BooksInv, Cover
    <3> QED
      BY <1>2, <3>1, <3>2 DEF Cover
  <2>9. PausedMeansConsistent' /\ FinishedMeansComplete'
    BY <1>1, <1>2, <2>1, <2>2
       DEF BooksInv, Books, PausedMeansConsistent, FinishedMeansComplete
  <2> QED
    BY <1>2, <1>3, <1>4, <2>3, <2>6, <2>7, <2>8, <2>9
       DEF BooksInv, Unlaunched, AppendedIsRecorded
<1> QED
  BY <1>5, <1>6

LEMMA BooksAppend ==
  ASSUME BooksInv, TypeInv', NEW w \in Workers, AppendRow(w)
  PROVE  BooksInv'
<1> DEFINE row == [run |-> wrun[w], segment |-> mem.segments]
<1>1. /\ rows' = Append(rows, row) /\ results' = Append(results, row)
      /\ wpc[w] = "record" /\ wpc' = [wpc EXCEPT ![w] = "appended"]
      /\ UNCHANGED <<pc, progress, mem, queue, previous, pauseRequested, wrun, measured>>
  BY DEF AppendRow, PoolUnchanged
<1>2. HarnessAtWork /\ HarnessAtWork' /\ pc = "pool"
  BY <1>1 DEF BooksInv, TypeInv, IdleWorkers, InFlight, HarnessAtWork
<1>3. row \in Row /\ row.run = wrun[w] /\ wrun[w] \in Runs
  BY <1>1, ClaimTypes DEF BooksInv, TypeInv, Held, InFlight, TypeOK
<1> HIDE DEF row
<1>4. /\ Claimed(w) /\ wrun[w] \notin RunsOf(results)
  BY <1>1, <1>2 DEF BooksInv, Claims, Claimed, InFlight
<1>5. /\ RunsOf(results)' = RunsOf(results) \cup {wrun[w]}
      /\ NoRunRecordedTwice'
  <2>1. results \in Seq(Row) /\ NoRunRecordedTwice
    BY DEF BooksInv, TypeInv, TypeOK
  <2>2. RunsOf(results)' = RunsOf(Append(results, row))
    BY <1>1 DEF RunsOf
  <2>3. RunsOf(Append(results, row)) = RunsOf(results) \cup {wrun[w]}
    BY <1>3, <2>1, AppendedRow
  <2>4. NoRunRecordedTwice'
    BY <1>1, <1>3, <1>4, <2>1, AppendedRow DEF NoRunRecordedTwice
  <2> QED
    BY <2>2, <2>3, <2>4
<1>6. results' = previous' \o rows'
  <2>1. results = previous \o rows /\ previous \in Seq(Row) /\ rows \in Seq(Row)
    BY <1>2 DEF BooksInv, Books, TypeInv, TypeOK
  <2>2. Append(previous \o rows, row) = previous \o Append(rows, row)
    BY <1>3, <2>1, AppendConcat
  <2> QED
    BY <1>1, <2>1, <2>2
<1>7. \A v \in Workers : /\ v # w => wpc'[v] = wpc[v]
                         /\ Claimed(v)' <=> Claimed(v)
                         /\ wpc'[v] = "done" => wpc[v] = "done"
  BY <1>1, <1>4 DEF Claimed, InFlight, BooksInv, TypeInv, TypeOK
<1>8. wpc'[w] = "appended"
  BY <1>1 DEF BooksInv, TypeInv, TypeOK
<1>9. Books'
  <2>1. \A x \in RunsOf(results)' :
          x \in mem.completed \/ \E v \in Workers : wpc'[v] = "appended" /\ wrun'[v] = x
    BY <1>1, <1>2, <1>5, <1>7, <1>8 DEF BooksInv, Books
  <2>2. queue' \cap RunsOf(results)' = {}
    <3>1. queue \cap RunsOf(results) = {} /\ wrun[w] \notin queue
      BY <1>2, <1>4 DEF BooksInv, Books, Claims
    <3> QED
      BY <1>1, <1>5, <3>1
  <2>3. progress = mem /\ ~mem.paused /\ mem.open /\ mem.completed \subseteq RunsOf(results)
    BY <1>2 DEF BooksInv, Books
  <2>4. /\ progress' = mem' /\ ~mem'.paused /\ mem'.open
        /\ mem'.completed \subseteq RunsOf(results)' /\ pc' = "pool"
    BY <1>1, <1>2, <1>5, <2>3
  <2>5. \A x \in RunsOf(results)' :
          x \in mem'.completed \/ \E v \in Workers : wpc'[v] = "appended" /\ wrun'[v] = x
    BY <1>1, <2>1
  <2> QED
    BY <1>6, <2>2, <2>4, <2>5 DEF Books
<1>10. Claims'
  BY <1>1, <1>2, <1>4, <1>5, <1>7, <1>8 DEF BooksInv, Claims
<1>11. Cover'
  BY <1>1, <1>2, <1>5, <1>7 DEF BooksInv, Cover
<1>12. PausedMeansConsistent' /\ FinishedMeansComplete'
  BY <1>1, <1>2, <1>5 DEF BooksInv, Books, PausedMeansConsistent, FinishedMeansComplete
<1>13. Unlaunched'
  BY <1>1, <1>2 DEF Unlaunched, BooksInv, TypeInv, KnownCampaign
<1>14. AppendedIsRecorded'
  BY <1>1, <1>5, <1>7 DEF BooksInv, AppendedIsRecorded
<1> QED
  BY <1>5, <1>9, <1>10, <1>11, <1>12, <1>13, <1>14 DEF BooksInv

LEMMA BooksComplete ==
  ASSUME BooksInv, TypeInv', NEW w \in Workers, CompleteRun(w)
  PROVE  BooksInv'
<1>1. /\ wpc[w] = "appended" /\ wpc' = [wpc EXCEPT ![w] = "claim"]
      /\ wrun' = [wrun EXCEPT ![w] = NoRun]
      /\ progress' = mem'
      /\ pauseRequested => pauseRequested'
      /\ UNCHANGED <<pc, results, rows, queue, previous, measured>>
  BY DEF CompleteRun, PoolUnchanged
<1>2. HarnessAtWork /\ HarnessAtWork' /\ pc = "pool" /\ RunsOf(results)' = RunsOf(results)
  BY <1>1 DEF BooksInv, TypeInv, IdleWorkers, InFlight, HarnessAtWork, RunsOf
<1>3. /\ mem'.completed = mem.completed \cup {wrun[w]}
      /\ mem'.active = mem.active \ {<<wrun[w], mem.segments>>}
      /\ mem'.segments = mem.segments
      /\ mem'.paused = mem.paused /\ mem'.open = mem.open
  BY DEF CompleteRun, BooksInv, TypeInv, TypeOK, State
<1>4. \A v \in Workers : /\ v # w => wpc'[v] = wpc[v] /\ wrun'[v] = wrun[v]
                         /\ v # w => (Claimed(v)' <=> Claimed(v))
                         /\ wpc'[v] = "done" => wpc[v] = "done" /\ v # w
  BY <1>1 DEF Claimed, InFlight, BooksInv, TypeInv, TypeOK
<1>5. Claimed(w) /\ ~Claimed(w)' /\ wpc'[w] = "claim"
  BY <1>1 DEF Claimed, InFlight, BooksInv, TypeInv, TypeOK
<1>6. wrun[w] \in RunsOf(results)
  <2>1. wrun[w] \in Runs /\ wrun[w] \notin queue
    BY <1>2, <1>5 DEF BooksInv, Claims
  <2> QED
    BY <1>1, <2>1 DEF BooksInv, AppendedIsRecorded
<1>7. Books'
  <2>1. \A x \in RunsOf(results) :
          x \in mem'.completed \/ \E v \in Workers : wpc'[v] = "appended" /\ wrun'[v] = x
    BY <1>2, <1>3, <1>4 DEF BooksInv, Books
  <2>2. mem'.completed \subseteq RunsOf(results)
    BY <1>2, <1>3, <1>6 DEF BooksInv, Books
  <2> QED
    BY <1>1, <1>2, <1>3, <2>1, <2>2 DEF BooksInv, Books
<1>8. Claims'
  BY <1>1, <1>2, <1>3, <1>4, <1>5 DEF BooksInv, Claims
<1>9. Cover'
  <2>1. \A x \in Runs : \/ x \in RunsOf(results) \/ x \in queue
                        \/ \E v \in Workers : Claimed(v)' /\ wrun'[v] = x
    BY <1>2, <1>4, <1>6 DEF BooksInv, Cover
  <2> QED
    BY <1>1, <1>2, <1>4, <2>1 DEF BooksInv, Cover
<1>10. PausedMeansConsistent' /\ FinishedMeansComplete'
  BY <1>1, <1>2, <1>3, <1>6, <1>7 DEF BooksInv, Books, PausedMeansConsistent, FinishedMeansComplete
<1>11. Unlaunched' /\ NoRunRecordedTwice' /\ AppendedIsRecorded'
  BY <1>1, <1>2, <1>4, <1>5
     DEF Unlaunched, BooksInv, TypeInv, KnownCampaign, NoRunRecordedTwice, AppendedIsRecorded
<1> QED
  BY <1>7, <1>8, <1>9, <1>10, <1>11 DEF BooksInv

LEMMA BooksWorker ==
  ASSUME BooksInv, TypeInv', NEW w \in Workers, WorkerStep(w)
  PROVE  BooksInv'
<1> wpc \in [Workers -> {"claim", "lock", "purge", "run", "record",
                         "appended", "done", "dead"}]
  BY DEF BooksInv, TypeInv, TypeOK
<1>1. CASE TakeDownloadLock(w) \/ Purge(w) \/ RunReturns(w) \/ WorkerDies(w)
  <2>1. /\ UNCHANGED <<pc, progress, results, mem, rows, queue, previous, pauseRequested,
                       measured, wrun>>
        /\ wpc[w] \in {"lock", "purge", "run", "record"}
        /\ wpc' \in {[wpc EXCEPT ![w] = "purge"], [wpc EXCEPT ![w] = "run"],
                     [wpc EXCEPT ![w] = "record"], [wpc EXCEPT ![w] = "dead"]}
    BY <1>1 DEF TakeDownloadLock, Purge, RunReturns, WorkerDies, PoolUnchanged
  <2>2. /\ wpc'[w] \in {"purge", "run", "record", "dead"}
        /\ \A v \in Workers : v # w => wpc'[v] = wpc[v]
    BY <2>1
  <2>3. InFlight(w) /\ Claimed(w)'
    BY <2>1, <2>2 DEF InFlight, Claimed
  <2> QED
    BY <2>1, <2>2, <2>3, BooksSameFiles
<1>2. CASE Download(w)
  <2>1. UNCHANGED <<pc, progress, results, mem, rows, queue, previous, pauseRequested,
                    measured, wrun, wpc>> /\ wpc[w] = "run"
    BY <1>2 DEF Download, PoolUnchanged, pool
  <2>2. InFlight(w) /\ Claimed(w)'
    BY <2>1 DEF InFlight, Claimed
  <2> QED
    BY <2>1, <2>2, BooksSameFiles
<1> QED
  BY <1>1, <1>2, BooksClaim, BooksAppend, BooksComplete DEF WorkerStep

-----------------------------------------------------------------------------
(* Opening and closing segments. *)

LEMMA BooksStartPool ==
  ASSUME BooksInv, TypeInv', NEW state \in State, StartPool(state),
         results' = results, previous' \in Seq(Row), previous' = results,
         state.completed = RunsOf(results), ~state.paused, state.open
  PROVE  BooksInv'
<1>1. /\ progress' = state /\ mem' = state /\ pc' = "pool" /\ rows' = <<>>
      /\ queue' = Runs \ RunsOf(results)
      /\ wpc' = [w \in Workers |-> "claim"]
  BY DEF StartPool, Remaining
<1>2. \A w \in Workers : wpc'[w] = "claim" /\ ~Claimed(w)'
  BY <1>1 DEF Claimed, InFlight
<1>3. previous' \o rows' = results'
  BY <1>1, ConcatEmptySeq
<1>4. RunsOf(results)' = RunsOf(results) /\ RunsOf(results) \subseteq Runs
  BY RecordedRuns DEF RunsOf, BooksInv, TypeInv, TypeOK
<1>5. progress' # NoFile
  BY <1>1 DEF TypeInv, KnownCampaign
<1> QED
  BY <1>1, <1>2, <1>3, <1>4, <1>5
     DEF BooksInv, Books, Claims, Cover, Unlaunched, NoRunRecordedTwice,
         PausedMeansConsistent, FinishedMeansComplete, AppendedIsRecorded, HarnessAtWork

(* A harness that ends, or dies, leaves the progress file either as it was *)
(* or closed.                                                              *)
LEMMA BooksGone ==
  ASSUME BooksInv, TypeInv', ProcessGone, UNCHANGED <<results, measured>>,
         progress' # NoFile,
         progress'.completed \subseteq RunsOf(results),
         progress'.paused => progress'.completed = RunsOf(results),
         ~progress'.open /\ ~progress'.paused =>
           progress'.active # {} \/ RunsOf(results) = Runs
  PROVE  BooksInv'
<1>1. pc' = "none" /\ wpc' = [w \in Workers |-> "done"]
  BY DEF ProcessGone
<1>2. RunsOf(results)' = RunsOf(results)
  BY DEF RunsOf
<1> QED
  BY <1>1, <1>2
     DEF BooksInv, Books, Claims, Cover, Unlaunched, NoRunRecordedTwice,
         PausedMeansConsistent, FinishedMeansComplete, AppendedIsRecorded, HarnessAtWork

(* When the pool is over, what is completed is what is recorded.           *)
LEMMA BooksJoined ==
  ASSUME BooksInv, pc \in {"written", "unlinked"}
  PROVE  /\ progress = mem /\ mem.completed = RunsOf(results) /\ mem \in State
         /\ ~pauseRequested => mem.active # {} \/ RunsOf(results) = Runs
<1>1. HarnessAtWork /\ Joined
  BY DEF HarnessAtWork, BooksInv, Books
<1>2. \A w \in Workers : ~InFlight(w) /\ wpc[w] # "appended"
  BY <1>1 DEF Joined, InFlight
<1>3. progress = mem /\ mem.completed = RunsOf(results)
  BY <1>1, <1>2 DEF BooksInv, Books
<1>4. ASSUME ~pauseRequested, mem.active = {} PROVE RunsOf(results) = Runs
  <2>1. \A w \in Workers : ~Claimed(w)
    BY <1>1, <1>4 DEF BooksInv, Claims
  <2>2. \A w \in Workers : wpc[w] = "done"
    BY <1>1, <2>1 DEF Joined, Claimed
  <2>3. queue = {}
    BY <1>1, <1>4, <2>2, WorkersAssumption DEF BooksInv, Cover
  <2>4. RunsOf(results) \subseteq Runs
    BY RecordedRuns DEF BooksInv, TypeInv, TypeOK
  <2> QED
    BY <1>1, <2>1, <2>3, <2>4 DEF BooksInv, Cover
<1> QED
  BY <1>3, <1>4 DEF BooksInv, TypeInv, TypeOK

LEMMA BooksHarness ==
  ASSUME BooksInv, TypeInv', HarnessStep \/ Crash
  PROVE  BooksInv'
<1> TypeOK
  BY DEF BooksInv, TypeInv
<1>1. CASE Launch
  <2>1. results = <<>> /\ UNCHANGED results /\ previous' = results /\ StartPool(InitialState)
    BY <1>1 DEF Launch, BooksInv, Unlaunched
  <2>2. /\ InitialState.completed = RunsOf(results)
        /\ ~InitialState.paused /\ InitialState.open
    BY <2>1, EmptyRuns DEF InitialState
  <2> QED
    BY <2>1, <2>2, StateTypes, BooksStartPool DEF TypeOK
<1>2. CASE ResumeOpen
  <2> DEFINE state == OpenNewSegment(progress)
  <2>1. /\ UNCHANGED results /\ previous' = results /\ StartPool(state)
        /\ progress \in State /\ progress.paused /\ progress.segments < MaxSegments
    BY <1>2 DEF ResumeOpen, BooksInv, TypeInv, KnownCampaign, TypeOK
  <2>2. state.completed = progress.completed /\ ~state.paused /\ state.open
    BY <2>1 DEF OpenNewSegment, State
  <2>3. progress.completed = RunsOf(results)
    BY <2>1, NoFileAssumption DEF BooksInv, PausedMeansConsistent
  <2>4. state \in State
    BY <2>1, StateTypes
  <2> HIDE DEF state
  <2> QED
    BY <2>1, <2>2, <2>3, <2>4, BooksStartPool DEF TypeOK
<1>3. CASE ResumePreflight \/ ResumeRefused
  <2>1. /\ UNCHANGED <<progress, results, measured, pool>>
        /\ pc' \in {"none", "checked"} /\ pc \in {"none", "checked"}
    BY <1>3 DEF ResumePreflight, ResumeRefused, files, pool, around
  <2>2. RunsOf(results)' = RunsOf(results)
    BY <2>1 DEF RunsOf
  <2> QED
    BY <2>1, <2>2
       DEF pool, BooksInv, Books, Claims, Cover, Unlaunched, NoRunRecordedTwice,
           PausedMeansConsistent, FinishedMeansComplete, AppendedIsRecorded, HarnessAtWork
<1>4. CASE FinalWrite \/ ConsumeSentinel
  <2>1. /\ UNCHANGED <<progress, measured, pool, mem, previous, rows, queue, pauseRequested>>
        /\ pc' \in {"written", "unlinked"} /\ HarnessAtWork /\ HarnessAtWork'
        /\ results' \in {results, previous \o rows}
    BY <1>4 DEF FinalWrite, ConsumeSentinel, around, HarnessAtWork
  <2>2. results' = results /\ RunsOf(results)' = RunsOf(results)
    BY <2>1 DEF BooksInv, Books, RunsOf
  <2>3. Joined
    BY <1>4, <2>1 DEF FinalWrite, ConsumeSentinel, BooksInv, Books
  <2>4. /\ UNCHANGED <<wpc, wrun>>
        /\ \A w \in Workers : Claimed(w)' <=> Claimed(w)
        /\ Joined'
    BY <2>1, <2>3 DEF pool, Claimed, InFlight, Joined
  <2>5. Books' /\ Claims' /\ Cover'
    BY <2>1, <2>2, <2>4 DEF BooksInv, Books, Claims, Cover
  <2> QED
    BY <2>1, <2>2, <2>4, <2>5
       DEF BooksInv, Books, Unlaunched, NoRunRecordedTwice,
           PausedMeansConsistent, FinishedMeansComplete, AppendedIsRecorded
<1>5. CASE ReportPaused \/ Finish
  <2>1. /\ ProcessGone /\ UNCHANGED <<results, measured>>
        /\ pc \in {"written", "unlinked"}
        /\ \/ progress' = CloseSegment(mem, TRUE)
           \/ progress' = CloseSegment(mem, FALSE) /\ ~pauseRequested
    BY <1>5 DEF ReportPaused, Finish, around
  <2>2. /\ mem.completed = RunsOf(results) /\ mem \in State
        /\ ~pauseRequested => mem.active # {} \/ RunsOf(results) = Runs
    BY <2>1, BooksJoined
  <2>3. /\ progress'.completed = mem.completed /\ progress'.active = mem.active
        /\ progress'.paused \/ ~pauseRequested
        /\ progress' \in State
    BY <2>1, <2>2, StateTypes DEF CloseSegment, State
  <2> QED
    BY <2>1, <2>2, <2>3, NoFileAssumption, BooksGone
<1>6. CASE Crash
  <2>1. ProcessGone /\ UNCHANGED <<results, measured, progress>> /\ progress # NoFile
    BY <1>6 DEF Crash, files, BooksInv, TypeInv, KnownCampaign
  <2>2. /\ progress.completed \subseteq RunsOf(results)
        /\ progress.paused => progress.completed = RunsOf(results)
        /\ ~progress.open /\ ~progress.paused =>
             progress.active # {} \/ RunsOf(results) = Runs
    BY <2>1 DEF BooksInv, PausedMeansConsistent, FinishedMeansComplete
  <2> QED
    BY <2>1, <2>2, BooksGone
<1> QED
  BY <1>1, <1>2, <1>3, <1>4, <1>5, <1>6 DEF HarnessStep

LEMMA BooksRest ==
  ASSUME BooksInv, TypeInv', EnvironmentStep \/ UNCHANGED vars
  PROVE  BooksInv'
<1>1. UNCHANGED <<progress, results, measured, process, pool>>
  BY DEF EnvironmentStep, PauseRequest, ScriptSeesPause, ScriptGivesUp, ScriptStopsServices,
         StartServices, Reconfigure, LateDownload, AroundUnchanged, vars, files, around
<1>2. UNCHANGED <<pc, mem, previous, rows, queue, pauseRequested, wpc, wrun>>
  BY <1>1 DEF process, pool
<1>3. /\ RunsOf(results)' = RunsOf(results) /\ (Joined' <=> Joined)
      /\ \A w \in Workers : Claimed(w)' <=> Claimed(w)
      /\ HarnessAtWork' = HarnessAtWork
  BY <1>1, <1>2 DEF RunsOf, Joined, Claimed, InFlight, HarnessAtWork
<1>4. Books' /\ Claims' /\ Cover'
  BY <1>1, <1>2, <1>3 DEF BooksInv, Books, Claims, Cover
<1> QED
  BY <1>1, <1>2, <1>3, <1>4
     DEF BooksInv, Unlaunched, NoRunRecordedTwice, PausedMeansConsistent,
         FinishedMeansComplete, AppendedIsRecorded

LEMMA BooksStep == BooksInv /\ [Next]_vars => BooksInv'
<1> SUFFICES ASSUME BooksInv, [Next]_vars PROVE BooksInv'
  OBVIOUS
<1>1. TypeInv'
  BY TypeInvStep DEF BooksInv
<1> QED
  BY <1>1, Steps, BooksHarness, BooksWorker, BooksRest, Zenon

LEMMA BooksAlways == Spec => []BooksInv
BY BooksInit, BooksStep, PTL DEF Spec

(* No campaign records a run twice, whatever crashes, deaths of workers,   *)
(* pauses and resumes it goes through.                                     *)
THEOREM RecordedOnce == Spec => []NoRunRecordedTwice
<1>1. BooksInv => NoRunRecordedTwice
  BY DEF BooksInv
<1> QED
  BY <1>1, BooksAlways, PTL

(* A paused campaign has nothing at work on it and completed exactly what  *)
(* it recorded.                                                            *)
THEOREM PausedConsistent == Spec => []PausedMeansConsistent
<1>1. BooksInv => PausedMeansConsistent
  BY DEF BooksInv
<1> QED
  BY <1>1, BooksAlways, PTL

(* A finished campaign recorded its plan, or shows who did not.            *)
THEOREM FinishedComplete == Spec => []FinishedMeansComplete
<1>1. BooksInv => FinishedMeansComplete
  BY DEF BooksInv
<1> QED
  BY <1>1, BooksAlways, PTL

(* Once the script has confirmed a pause, the campaign is paused or in a   *)
(* later segment.                                                          *)
Confirmed == script = "stopping" =>
  /\ confirmed \in Segments
  /\ progress.segments > confirmed \/ (progress.segments = confirmed /\ progress.paused)

ReleaseInv == BooksInv /\ Confirmed

LEMMA ReleaseInit == Init => ReleaseInv
BY BooksInit DEF Init, ReleaseInv, Confirmed

LEMMA ReleaseStep == ReleaseInv /\ [Next]_vars => ReleaseInv'
<1> SUFFICES ASSUME ReleaseInv, [Next]_vars, script' = "stopping" PROVE Confirmed'
  BY BooksStep DEF ReleaseInv, Confirmed
<1>0. BooksInv /\ TypeInv /\ TypeOK
  BY DEF ReleaseInv, BooksInv, TypeInv
<1>1. /\ progress # NoFile => progress.segments \in Nat /\ progress.segments \in Segments
      /\ confirmed \in Nat /\ mem.segments \in Nat
  BY <1>0, SegmentsAssumption DEF TypeOK, State, Segments
<1>2. CASE ScriptSeesPause
  BY <1>0, <1>1, <1>2 DEF ScriptSeesPause, AroundUnchanged, TypeInv, Confirmed
<1>3. ASSUME script = "stopping", confirmed' = confirmed,
             progress' # progress => progress'.segments > confirmed
      PROVE  Confirmed'
  BY <1>3 DEF ReleaseInv, Confirmed
<1>4. script = "stopping" => progress # NoFile /\ Confirmed
  BY <1>0 DEF TypeInv, ReleaseInv
<1>5. HarnessAtWork /\ script = "stopping" => progress = mem /\ mem.segments > confirmed
  BY <1>0, <1>1, <1>4 DEF BooksInv, Books, Confirmed
<1>6. CASE HarnessStep \/ Crash
  <2>1. script = "stopping" /\ confirmed' = confirmed
    BY <1>6 DEF HarnessStep, Launch, ResumePreflight, ResumeRefused, ResumeOpen, FinalWrite,
                ConsumeSentinel, ReportPaused, Finish, Crash, around
  <2>2. CASE ResumeOpen
    <3>1. progress' = OpenNewSegment(progress) /\ progress \in State
      BY <1>0, <1>4, <2>1, <2>2 DEF ResumeOpen, StartPool, TypeOK
    <3>2. progress'.segments = progress.segments + 1
      BY <3>1 DEF OpenNewSegment, State
    <3> QED
      BY <1>1, <1>3, <1>4, <2>1, <3>2 DEF Confirmed
  <2>3. CASE ReportPaused \/ Finish
    <3>1. HarnessAtWork
      BY <2>3 DEF ReportPaused, Finish, HarnessAtWork
    <3>2. mem \in State /\ \E b \in BOOLEAN : progress' = CloseSegment(mem, b)
      BY <1>0, <2>3 DEF ReportPaused, Finish, TypeOK
    <3>3. progress'.segments = mem.segments
      BY <3>2 DEF CloseSegment, State
    <3> QED
      BY <1>3, <1>5, <2>1, <3>1, <3>3
  <2>4. CASE ResumePreflight \/ ResumeRefused \/ FinalWrite \/ ConsumeSentinel \/ Crash
    BY <1>3, <2>1, <2>4 DEF ResumePreflight, ResumeRefused, FinalWrite, ConsumeSentinel,
       Crash, files
  <2>5. ~Launch
    BY <1>4, <2>1 DEF Launch
  <2> QED
    BY <1>6, <2>2, <2>3, <2>4, <2>5 DEF HarnessStep
<1>7. ASSUME NEW w \in Workers, WorkerStep(w) PROVE Confirmed'
  <2>1. script = "stopping" /\ confirmed' = confirmed /\ pc = "pool"
    BY <1>0, <1>7 DEF WorkerStep, Claim, TakeDownloadLock, Purge, Download, RunReturns,
       WorkerDies, AppendRow, CompleteRun, PoolUnchanged, TypeInv, IdleWorkers, InFlight
  <2>2. progress' = progress
        \/ (progress' = mem' /\ \E c, a : mem' = [mem EXCEPT !.completed = c, !.active = a])
        \/ (progress' = mem' /\ \E a : mem' = [mem EXCEPT !.active = a])
    BY <1>7 DEF WorkerStep, Claim, TakeDownloadLock, Purge, Download, RunReturns,
       WorkerDies, AppendRow, CompleteRun
  <2>3. progress' = progress \/ progress'.segments = mem.segments
    BY <1>0, <2>2 DEF TypeOK, State
  <2> QED
    BY <1>3, <1>5, <2>1, <2>3 DEF HarnessAtWork
<1>8. CASE EnvironmentStep \/ UNCHANGED vars
  <2>1. CASE ~ScriptSeesPause
    <3>1. script = "stopping" /\ UNCHANGED <<confirmed, progress>>
      BY <1>8, <2>1 DEF EnvironmentStep, PauseRequest, ScriptGivesUp, ScriptStopsServices,
         StartServices, Reconfigure, LateDownload, AroundUnchanged, vars, files, around
    <3> QED
      BY <1>3, <3>1
  <2> QED
    BY <1>2, <2>1
<1> QED
  BY <1>6, <1>7, <1>8, Steps

(* The services are stopped only under runs of a segment that was opened   *)
(* after the pause the script had confirmed.                               *)
THEOREM ReleaseSparesPaused == Spec => ReleaseSparesThePausedSegment
<1>1. ASSUME ReleaseInv, [Next]_vars, services, ~services', NEW w \in Workers, InFlight(w)
      PROVE  confirmed \in 1..(mem.segments - 1)
  <2>1. script = "stopping"
    BY <1>1 DEF Next, HarnessStep, WorkerStep, Launch, ResumePreflight, ResumeRefused,
                ResumeOpen, FinalWrite, ConsumeSentinel, ReportPaused, Finish, Crash, Claim,
                TakeDownloadLock, Purge, Download, RunReturns, WorkerDies, AppendRow,
                CompleteRun, PoolUnchanged, PauseRequest, ScriptSeesPause, ScriptGivesUp,
                ScriptStopsServices, StartServices, Reconfigure, LateDownload, vars, around
  <2>2. pc = "pool"
    BY <1>1 DEF ReleaseInv, BooksInv, TypeInv, IdleWorkers
  <2>3. progress = mem /\ ~mem.paused
    BY <1>1, <2>2 DEF ReleaseInv, BooksInv, Books, HarnessAtWork
  <2>4. confirmed \in Nat \ {0} /\ mem.segments \in Nat
    BY <1>1, <2>1, SegmentsAssumption
       DEF ReleaseInv, Confirmed, BooksInv, TypeInv, TypeOK, State, Segments
  <2>5. mem.segments > confirmed
    BY <1>1, <2>1, <2>3 DEF ReleaseInv, Confirmed
  <2> QED
    BY <2>4, <2>5
<1>2. ReleaseInv /\ [Next]_vars =>
        [services /\ ~services' =>
           \A w \in Workers : InFlight(w) => confirmed \in 1..(mem.segments - 1)]_vars
  BY <1>1
<1> QED
  BY <1>2, ReleaseInit, ReleaseStep, PTL DEF Spec, ReleaseSparesThePausedSegment

-----------------------------------------------------------------------------
(* The shared folder: who purges, and who runs a serialized task, holds    *)
(* the download lock.                                                       *)

LockHeld == \A w \in Workers :
  wpc[w] = "purge" \/ (wpc[w] = "run" /\ wrun[w] \in Serialized) => downloadLock = w

FolderInv == TypeInv /\ LockHeld /\ SharedFolderExclusive

LEMMA FolderInit == Init => FolderInv
BY TypeInvInit DEF Init, NoProcess, FolderInv, LockHeld, SharedFolderExclusive

LEMMA FolderStep == FolderInv /\ [Next]_vars => FolderInv'
<1> SUFFICES ASSUME FolderInv, [Next]_vars PROVE FolderInv'
  OBVIOUS
<1> USE DEF LockHeld, SharedFolderExclusive
<1>0. TypeInv' /\ TypeOK /\ LockHeld /\ SharedFolderExclusive
  BY TypeInvStep DEF FolderInv, TypeInv
<1>1. ASSUME NEW w \in Workers, WorkerStep(w) PROVE FolderInv'
  <2>1. CASE Claim(w)
    <3>1. /\ \A v \in Workers : v # w => wpc'[v] = wpc[v] /\ wrun'[v] = wrun[v]
          /\ wpc'[w] \in {"done", "lock"}
          /\ UNCHANGED <<downloadLock, downloads, abandoned>>
      BY <1>0, <2>1 DEF Claim, TypeOK
    <3> QED
      BY <1>0, <3>1 DEF FolderInv
  <2>2. CASE TakeDownloadLock(w)
    BY <1>0, <2>2, WorkersAssumption DEF TakeDownloadLock, TypeOK, FolderInv
  <2>3. CASE Purge(w)
    BY <1>0, <2>3 DEF Purge, TypeOK, FolderInv
  <2>4. CASE Download(w)
    BY <1>0, <2>4 DEF Download, pool, TypeOK, FolderInv
  <2>5. CASE RunReturns(w)
    BY <1>0, <2>5 DEF RunReturns, ReleaseDownloadLock, TypeOK, FolderInv
  <2>6. CASE WorkerDies(w)
    BY <1>0, <2>6 DEF WorkerDies, ReleaseDownloadLock, TypeOK, FolderInv
  <2>7. CASE AppendRow(w)
    BY <1>0, <2>7 DEF AppendRow, TypeOK, FolderInv
  <2>8. CASE CompleteRun(w)
    BY <1>0, <2>8 DEF CompleteRun, TypeOK, FolderInv
  <2> QED
    BY <1>1, <2>1, <2>2, <2>3, <2>4, <2>5, <2>6, <2>7, <2>8 DEF WorkerStep
<1>2. CASE Launch \/ ResumeOpen
  <2>1. \A w \in Workers : wpc'[w] = "claim"
    BY <1>2 DEF Launch, ResumeOpen, StartPool
  <2> QED
    BY <1>0, <2>1 DEF FolderInv
<1>3. CASE ResumePreflight
  BY <1>0, <1>3 DEF ResumePreflight, pool, FolderInv
<1>4. CASE ResumeRefused \/ FinalWrite \/ ConsumeSentinel
  BY <1>0, <1>4 DEF ResumeRefused, FinalWrite, ConsumeSentinel, pool, around, FolderInv
<1>5. CASE ReportPaused \/ Finish \/ Crash
  <2>1. \A w \in Workers : wpc'[w] = "done"
    BY <1>5 DEF ReportPaused, Finish, Crash, ProcessGone
  <2> QED
    BY <1>0, <2>1 DEF FolderInv
<1>6. CASE \E r \in Serialized : LateDownload(r)
  BY <1>0, <1>6 DEF LateDownload, AroundUnchanged, pool, FolderInv
<1>7. ASSUME \/ \E release \in BOOLEAN : PauseRequest(release)
             \/ ScriptSeesPause \/ ScriptGivesUp \/ ScriptStopsServices
             \/ StartServices \/ Reconfigure \/ UNCHANGED vars
      PROVE  FolderInv'
  BY <1>0, <1>7 DEF PauseRequest, ScriptSeesPause, ScriptGivesUp, ScriptStopsServices,
     StartServices, Reconfigure, AroundUnchanged, pool, vars, around, FolderInv
<1> QED
  BY <1>1, <1>2, <1>3, <1>4, <1>5, <1>6, <1>7, Steps DEF HarnessStep, EnvironmentStep

(* No other worker writes to the folder of a serialized run, except one    *)
(* whose run the harness gave up on.                                       *)
THEOREM FolderExclusive == Spec => []SharedFolderExclusive
<1>1. FolderInv => SharedFolderExclusive
  BY DEF FolderInv
<1> QED
  BY <1>1, FolderInit, FolderStep, PTL DEF Spec

-----------------------------------------------------------------------------
(* The configuration measured. *)

ConfigInv ==
  /\ TypeInv /\ Unlaunched /\ OneConfigMeasured
  /\ pc = "checked" => \A s \in Settings : metadataNow[s] \in {config[s], Unread}

LEMMA ConfigInit == Init => ConfigInv
<1> SUFFICES ASSUME Init PROVE ConfigInv
  OBVIOUS
<1>1. recorded = NothingRead /\ measured = <<>> /\ results = <<>> /\ pc = "none"
  BY DEF Init, NoProcess
<1> QED
  BY <1>1, TypeInvInit DEF ConfigInv, Unlaunched, OneConfigMeasured, NothingRead

LEMMA ConfigStep == ConfigInv /\ [Next]_vars => ConfigInv'
<1> SUFFICES ASSUME ConfigInv, [Next]_vars PROVE ConfigInv'
  OBVIOUS
<1>0. TypeInv' /\ TypeOK /\ Unlaunched /\ OneConfigMeasured
  BY TypeInvStep DEF ConfigInv, TypeInv
<1>1. CASE Launch \/ ResumeOpen
  <2>1. /\ pc' = "pool" /\ measured' = Append(measured, config) /\ progress' # NoFile
    BY <1>0, <1>1 DEF Launch, ResumeOpen, StartPool, TypeInv, KnownCampaign
  <2>2. /\ Len(measured') = Len(measured) + 1 /\ DOMAIN measured' = 1..(Len(measured) + 1)
        /\ \A i \in 1..Len(measured) : measured'[i] = measured[i]
        /\ measured'[Len(measured) + 1] = config
        /\ DOMAIN measured = 1..Len(measured) /\ Len(measured) \in Nat
    BY <1>0, <2>1, AppendProperties, LenProperties DEF TypeOK
  <2>3. \A s \in Settings : recorded'[s] # Unread =>
          config[s] = recorded'[s] /\ \A i \in DOMAIN measured : measured[i][s] = recorded'[s]
    <3>1. CASE Launch
      <4>1. \A s \in Settings : recorded'[s] \in {config[s], Unread}
        BY <1>0, <3>1, MetadataTypes DEF Launch, TypeOK
      <4>2. measured = <<>>
        BY <1>0, <3>1 DEF Launch, Unlaunched
      <4> QED
        BY <4>1, <4>2
    <3>2. CASE ResumeOpen
      <4>1. recorded' = recorded /\ pc = "checked" /\ ~ConfigDrift(recorded, metadataNow)
        BY <3>2 DEF ResumeOpen
      <4>2. \A s \in Settings : recorded[s] # Unread => metadataNow[s] = recorded[s]
        BY <4>1 DEF ConfigDrift
      <4> QED
        BY <1>0, <4>1, <4>2 DEF ConfigInv, OneConfigMeasured
    <3> QED
      BY <1>1, <3>1, <3>2
  <2>4. OneConfigMeasured'
    <3> SUFFICES ASSUME NEW s \in Settings, recorded'[s] # Unread, NEW i \in DOMAIN measured'
                 PROVE  measured'[i][s] = recorded'[s]
      BY DEF OneConfigMeasured
    <3>1. i \in 1..Len(measured) \/ i = Len(measured) + 1
      BY <2>2
    <3> QED
      BY <2>2, <2>3, <3>1
  <2> QED
    BY <1>0, <2>1, <2>4 DEF ConfigInv, Unlaunched
<1>2. CASE ResumePreflight \/ ResumeRefused \/ FinalWrite \/ ConsumeSentinel
           \/ ReportPaused \/ Finish \/ Crash
  <2>1. /\ UNCHANGED <<recorded, measured, config>>
        /\ pc' = "checked" =>
             ResumePreflight \/ (pc = "checked" /\ metadataNow' = metadataNow)
    BY <1>2 DEF ResumePreflight, ResumeRefused, FinalWrite, ConsumeSentinel, ReportPaused,
                Finish, Crash, ProcessGone, files, around
  <2>2. progress' # NoFile
    BY <1>2, <1>0, NoFileAssumption, StateTypes
       DEF ResumePreflight, ResumeRefused, FinalWrite, ConsumeSentinel, ReportPaused,
           Finish, Crash, files, ConfigInv, TypeInv, KnownCampaign, TypeOK
  <2>3. ResumePreflight => \A s \in Settings : metadataNow'[s] \in {config[s], Unread}
    BY <1>0, MetadataTypes DEF ResumePreflight, TypeOK
  <2> QED
    BY <1>0, <2>1, <2>2, <2>3 DEF ConfigInv, Unlaunched, OneConfigMeasured
<1>3. ASSUME NEW w \in Workers, WorkerStep(w) PROVE ConfigInv'
  <2>1. UNCHANGED <<pc, recorded, measured, config, metadataNow>>
    BY <1>3 DEF WorkerStep, Claim, TakeDownloadLock, Purge, Download, RunReturns,
                WorkerDies, AppendRow, CompleteRun, PoolUnchanged
  <2>2. progress' # NoFile
    <3>1. pc = "pool"
      BY <1>3 DEF WorkerStep, Claim, TakeDownloadLock, Purge, Download, RunReturns,
                  WorkerDies, AppendRow, CompleteRun, ConfigInv, TypeInv, IdleWorkers, InFlight
    <3> QED
      BY <1>0, <2>1, <3>1 DEF TypeInv, KnownCampaign
  <2> QED
    BY <1>0, <2>1, <2>2 DEF ConfigInv, Unlaunched, OneConfigMeasured
<1>4. CASE Reconfigure
  BY <1>0, <1>4 DEF Reconfigure, AroundUnchanged, process, ConfigInv, Unlaunched, OneConfigMeasured
<1>5. ASSUME \/ \E release \in BOOLEAN : PauseRequest(release)
             \/ ScriptSeesPause \/ ScriptGivesUp \/ ScriptStopsServices
             \/ StartServices \/ (\E r \in Serialized : LateDownload(r)) \/ UNCHANGED vars
      PROVE  ConfigInv'
  <2>1. UNCHANGED <<pc, recorded, measured, config, metadataNow, progress, results>>
    BY <1>5 DEF PauseRequest, ScriptSeesPause, ScriptGivesUp, ScriptStopsServices,
       StartServices, LateDownload, AroundUnchanged, process, vars, files, around
  <2> QED
    BY <1>0, <2>1 DEF ConfigInv, Unlaunched, OneConfigMeasured
<1> QED
  BY <1>1, <1>2, <1>3, <1>4, <1>5, Steps DEF HarnessStep, EnvironmentStep

(* What was recorded of a setting at launch, every segment measured.       *)
THEOREM OneConfig == Spec => []OneConfigMeasured
<1>1. ConfigInv => OneConfigMeasured
  BY DEF ConfigInv
<1> QED
  BY <1>1, ConfigInit, ConfigStep, PTL DEF Spec

-----------------------------------------------------------------------------
(* The results file implements the ledger. *)

LedgerOf(table) == [i \in DOMAIN table |-> table[i].run]

LEMMA LedgerAppend ==
  ASSUME NEW s \in Seq(Row), NEW row \in Row
  PROVE  LedgerOf(Append(s, row)) = Append(LedgerOf(s), row.run)
<1> DEFINE t == Append(s, row)
<1>1. /\ DOMAIN s = 1..Len(s) /\ Len(s) \in Nat
      /\ DOMAIN t = 1..(Len(s) + 1)
      /\ \A i \in 1..Len(s) : t[i] = s[i]
      /\ t[Len(s) + 1] = row
      /\ \A i \in 1..Len(s) : s[i] \in Row
  BY AppendProperties, LenProperties, ElementOfSeq
<1> HIDE DEF t
<1>2. row.run \in Runs /\ \A i \in 1..Len(s) : s[i].run \in Runs
  BY <1>1 DEF Row
<1>3. LedgerOf(s) \in Seq(Runs) /\ Len(LedgerOf(s)) = Len(s)
  <2>1. LedgerOf(s) = [i \in 1..Len(s) |-> s[i].run]
    BY <1>1 DEF LedgerOf
  <2> QED
    BY <1>1, <1>2, <2>1, IsASeq, LenProperties
<1>4. LedgerOf(t) \in Seq(Runs) /\ Len(LedgerOf(t)) = Len(s) + 1
  <2>1. LedgerOf(t) = [i \in 1..(Len(s) + 1) |-> t[i].run]
    BY <1>1 DEF LedgerOf
  <2>2. \A i \in 1..(Len(s) + 1) : t[i].run \in Runs
    BY <1>1, <1>2
  <2> QED
    BY <1>1, <2>1, <2>2, IsASeq, LenProperties
<1>5. /\ Append(LedgerOf(s), row.run) \in Seq(Runs)
      /\ Len(Append(LedgerOf(s), row.run)) = Len(s) + 1
      /\ \A i \in 1..Len(s) : Append(LedgerOf(s), row.run)[i] = LedgerOf(s)[i]
      /\ Append(LedgerOf(s), row.run)[Len(s) + 1] = row.run
  BY <1>2, <1>3, AppendProperties
<1>6. \A i \in 1..(Len(s) + 1) : LedgerOf(t)[i] = Append(LedgerOf(s), row.run)[i]
  BY <1>1, <1>5 DEF LedgerOf
<1> QED
  BY <1>4, <1>5, <1>6, SeqEqual DEF t

LEMMA LedgerEmpty == LedgerOf(<<>>) = <<>>
BY DEF LedgerOf

LEMMA LedgerInit == Init => Ledger!Init
BY LedgerEmpty DEF Init, LedgerOf, Ledger!Init

LEMMA LedgerStep ==
  BooksInv /\ TypeInv' /\ [Next]_vars => [Ledger!Next]_(LedgerOf(results))
<1> SUFFICES ASSUME BooksInv, TypeInv', [Next]_vars
             PROVE  Ledger!Next \/ results' = results
  BY DEF LedgerOf
<1>1. ASSUME NEW w \in Workers, AppendRow(w) PROVE Ledger!Next
  <2> DEFINE row == [run |-> wrun[w], segment |-> mem.segments]
  <2>1. results' = Append(results, row) /\ wpc[w] = "record"
    BY <1>1 DEF AppendRow
  <2>2. row \in Row /\ row.run = wrun[w] /\ wrun[w] \in Runs
    BY <2>1, ClaimTypes DEF BooksInv, TypeInv, Held, InFlight, TypeOK
  <2> HIDE DEF row
  <2>3. wrun[w] \notin RunsOf(results)
    BY <2>1 DEF BooksInv, TypeInv, IdleWorkers, Claims, Claimed, InFlight, HarnessAtWork
  <2>4. LedgerOf(results') = Append(LedgerOf(results), wrun[w])
    BY <2>1, <2>2, LedgerAppend DEF BooksInv, TypeInv, TypeOK
  <2>5. wrun[w] \notin Ledger!Recorded
    BY <2>3 DEF Ledger!Recorded, RunsOf
  <2> QED
    BY <2>2, <2>4, <2>5 DEF LedgerOf, Ledger!Next, Ledger!Record
<1>2. CASE FinalWrite
  BY <1>2 DEF FinalWrite, BooksInv, Books, HarnessAtWork
<1>3. ASSUME NEW w \in Workers, WorkerStep(w), ~AppendRow(w) PROVE results' = results
  BY <1>3 DEF WorkerStep, Claim, TakeDownloadLock, Purge, Download, RunReturns,
              WorkerDies, CompleteRun
<1>4. ASSUME HarnessStep \/ Crash, ~FinalWrite PROVE results' = results
  BY <1>4 DEF HarnessStep, Launch, ResumePreflight, ResumeRefused, ResumeOpen,
              ConsumeSentinel, ReportPaused, Finish, Crash, files
<1>5. ASSUME EnvironmentStep \/ UNCHANGED vars PROVE results' = results
  BY <1>5 DEF EnvironmentStep, PauseRequest, ScriptSeesPause, ScriptGivesUp,
     ScriptStopsServices, StartServices, Reconfigure, LateDownload, AroundUnchanged,
     vars, files
<1> QED
  BY <1>1, <1>2, <1>3, <1>4, <1>5, Steps

(* The results only grow, one planned run at a time, each once.            *)
THEOREM ImplementsLedger == Spec => LedgerSpec
<1>1. BooksInv => TypeInv
  BY DEF BooksInv
<1>2. BooksInv /\ TypeInv' /\ [Next]_vars => [Ledger!Next]_([i \in DOMAIN results |-> results[i].run])
  BY LedgerStep DEF LedgerOf
<1> QED
  BY <1>1, <1>2, LedgerInit, BooksAlways, PTL DEF Spec, LedgerSpec, Ledger!Spec

-----------------------------------------------------------------------------
(* What the end of the pool rests on, whatever its size: no worker waits   *)
(* for ever, and what the workers have still to do only shrinks.           *)

LEMMA Least ==
  ASSUME NEW S, S \subseteq Nat, S # {}
  PROVE  \E i \in S : \A j \in S : i <= j
<1>1. \A j, i \in Nat : j < i => <<j, i>> \in OpToRel(<, Nat)
  BY DEF OpToRel
<1>2. PICK i \in S : \A j \in S : <<j, i>> \notin OpToRel(<, Nat)
  BY NatLessThanWellFounded, WFMin
<1>3. ASSUME NEW j \in S PROVE i <= j
  <2>1. j \in Nat /\ i \in Nat /\ ~(j < i)
    BY <1>1, <1>2, Zenon
  <2> QED
    BY <2>1
<1> QED
  BY <1>2, <1>3

(* The queue is emptied in the order of the plan: it has a first run as    *)
(* long as it has one.                                                     *)
LEMMA FirstExists ==
  ASSUME queue \subseteq Runs, queue # {}
  PROVE  \E r \in Runs : FirstOf(queue, r)
<1> DEFINE S == {i \in DOMAIN Plan : Plan[i] \in queue}
<1>1. DOMAIN Plan = 1..Len(Plan) /\ Len(Plan) \in Nat
  BY PlanAssumption, LenProperties
<1>2. S \subseteq Nat
  BY <1>1
<1>3. S # {}
  BY DEF Runs
<1>4. PICK i \in S : \A j \in S : i <= j
  <2> HIDE DEF S
  <2> QED
    BY <1>2, <1>3, Least
<1>5. \A j \in 1..(i - 1) : Plan[j] \notin queue
  <2>1. ASSUME NEW j \in 1..(i - 1), Plan[j] \in queue PROVE FALSE
    <3>1. j \in Nat /\ i \in Nat /\ j < i /\ j \in DOMAIN Plan
      BY <1>1, <1>2, <1>4, <2>1
    <3>2. i <= j
      BY <1>4, <2>1, <3>1
    <3> QED
      BY <3>1, <3>2
  <2> QED
    BY <2>1
<1>6. Plan[i] \in Runs /\ Plan[i] \in queue /\ i \in DOMAIN Plan
  BY <1>4 DEF Runs
<1>7. FirstOf(queue, Plan[i])
  BY <1>5, <1>6 DEF FirstOf
<1> QED
  BY <1>6, <1>7

(* Whoever holds the download lock is about to give it back.               *)
HolderAtWork ==
  downloadLock # Nobody =>
    downloadLock \in Workers /\ wpc[downloadLock] \in {"purge", "run"}

Able(w) ==
  \/ wpc[w] \in {"purge", "run", "appended"}
  \/ wpc[w] = "lock" /\ downloadLock = Nobody
  \/ wpc[w] = "record" /\ StateLockFree
  \/ /\ wpc[w] = "claim" /\ StateLockFree
     /\ pauseRequested \/ queue = {} \/ \E r \in Runs : FirstOf(queue, r)

(* A worker waits for the holder of one of the two locks, who waits for    *)
(* nobody.                                                                 *)
NoWorkerIsStuck ==
  pc = "pool" => \A w \in Workers :
    \/ wpc[w] \in {"done", "dead"}
    \/ Able(w)
    \/ wpc[w] = "lock" /\ downloadLock \in Workers /\ Able(downloadLock)
    \/ wpc[w] \in {"claim", "record"} /\ \E v \in Workers : wpc[v] = "appended" /\ Able(v)

(* How far a worker is from its next claim, or from leaving.               *)
StepsLeft == [lock |-> 6, purge |-> 5, run |-> 4, record |-> 3, appended |-> 2,
              claim |-> 1, done |-> 0, dead |-> 0]

(* While the pool runs a worker is where it was, nearer to its next claim, *)
(* or has taken a run off the queue, which nobody ever puts back: neither  *)
(* another worker nor the operator sends it back.                          *)
WorkersAdvance ==
  [][pc = "pool" /\ pc' = "pool" =>
       /\ queue' \subseteq queue
       /\ \A w \in Workers :
            \/ UNCHANGED <<wpc[w], wrun[w]>>
            \/ StepsLeft[wpc'[w]] < StepsLeft[wpc[w]]
            \/ wpc[w] = "claim" /\ wpc'[w] = "lock" /\ wrun'[w] \in queue \ queue']_vars

HolderInv == TypeInv /\ LockHeld /\ HolderAtWork

LEMMA HolderInit == Init => HolderInv
BY TypeInvInit DEF Init, NoProcess, HolderInv, LockHeld, HolderAtWork

LEMMA HolderStep == HolderInv /\ [Next]_vars => HolderInv'
<1> SUFFICES ASSUME HolderInv, [Next]_vars PROVE HolderInv'
  OBVIOUS
<1> USE DEF LockHeld, HolderAtWork
<1>0. TypeInv' /\ TypeOK /\ LockHeld /\ HolderAtWork /\ IdleWorkers
  BY TypeInvStep DEF HolderInv, TypeInv
<1>1. ASSUME NEW w \in Workers, WorkerStep(w) PROVE HolderInv'
  <2>1. CASE Claim(w)
    <3>1. /\ \A v \in Workers : v # w => wpc'[v] = wpc[v] /\ wrun'[v] = wrun[v]
          /\ wpc[w] = "claim" /\ wpc'[w] \in {"done", "lock"}
          /\ UNCHANGED downloadLock
      BY <1>0, <2>1 DEF Claim, TypeOK
    <3> QED
      BY <1>0, <3>1 DEF HolderInv
  <2>2. CASE TakeDownloadLock(w)
    BY <1>0, <2>2, WorkersAssumption DEF TakeDownloadLock, TypeOK, HolderInv
  <2>3. CASE Purge(w)
    BY <1>0, <2>3 DEF Purge, TypeOK, HolderInv
  <2>4. CASE Download(w)
    BY <1>0, <2>4 DEF Download, pool, TypeOK, HolderInv
  <2>5. CASE RunReturns(w) \/ WorkerDies(w)
    BY <1>0, <2>5 DEF RunReturns, WorkerDies, ReleaseDownloadLock, TypeOK, HolderInv
  <2>6. CASE AppendRow(w) \/ CompleteRun(w)
    BY <1>0, <2>6 DEF AppendRow, CompleteRun, TypeOK, HolderInv
  <2> QED
    BY <1>1, <2>1, <2>2, <2>3, <2>4, <2>5, <2>6 DEF WorkerStep
<1>2. CASE Launch \/ ResumeOpen
  <2>1. \A w \in Workers : wpc'[w] = "claim"
    BY <1>2 DEF Launch, ResumeOpen, StartPool
  <2>2. pc # "pool" /\ UNCHANGED downloadLock
    BY <1>2 DEF Launch, ResumeOpen
  <2>3. downloadLock = Nobody
    BY <1>0, <2>2 DEF IdleWorkers, InFlight
  <2> QED
    BY <1>0, <2>1, <2>2, <2>3 DEF HolderInv
<1>3. CASE ReportPaused \/ Finish \/ Crash
  <2>1. downloadLock' = Nobody /\ \A w \in Workers : wpc'[w] = "done"
    BY <1>3 DEF ReportPaused, Finish, Crash, ProcessGone
  <2> QED
    BY <1>0, <2>1 DEF HolderInv
<1>4. ASSUME \/ ResumePreflight \/ ResumeRefused \/ FinalWrite \/ ConsumeSentinel
             \/ EnvironmentStep \/ UNCHANGED vars
      PROVE  HolderInv'
  <2>1. UNCHANGED pool
    BY <1>4 DEF ResumePreflight, ResumeRefused, FinalWrite, ConsumeSentinel, EnvironmentStep,
       PauseRequest, ScriptSeesPause, ScriptGivesUp, ScriptStopsServices, StartServices,
       Reconfigure, LateDownload, AroundUnchanged, vars
  <2> QED
    BY <1>0, <2>1 DEF pool, HolderInv
<1> QED
  BY <1>1, <1>2, <1>3, <1>4, Steps DEF HarnessStep

(* No worker of the pool waits for ever: the locks cannot deadlock, and a  *)
(* worker that dies has released what it held (_run_planned_tasks, the     *)
(* finally of the download lock).                                          *)
THEOREM PoolNeverStuck == Spec => []NoWorkerIsStuck
<1>1. ASSUME HolderInv PROVE NoWorkerIsStuck
  <2> SUFFICES ASSUME NEW w \in Workers, wpc[w] \notin {"done", "dead"}
               PROVE  \/ Able(w)
                      \/ wpc[w] = "lock" /\ downloadLock \in Workers /\ Able(downloadLock)
                      \/ /\ wpc[w] \in {"claim", "record"}
                         /\ \E v \in Workers : wpc[v] = "appended" /\ Able(v)
    BY DEF NoWorkerIsStuck
  <2>1. wpc[w] \in {"claim", "lock", "purge", "run", "record", "appended"}
    BY <1>1 DEF HolderInv, TypeInv, TypeOK
  <2>2. CASE wpc[w] = "lock"
    BY <1>1, <2>2 DEF HolderInv, HolderAtWork, Able
  <2>3. CASE wpc[w] \in {"claim", "record"} /\ ~StateLockFree
    BY <2>3 DEF StateLockFree, Able
  <2>4. CASE wpc[w] \in {"claim", "record"} /\ StateLockFree
    <3>1. queue = {} \/ \E r \in Runs : FirstOf(queue, r)
      BY <1>1, FirstExists DEF HolderInv, TypeInv, TypeOK
    <3> QED
      BY <2>4, <3>1 DEF Able
  <2>5. CASE wpc[w] \in {"purge", "run", "appended"}
    BY <2>5 DEF Able
  <2> QED
    BY <2>1, <2>2, <2>3, <2>4, <2>5
<1> QED
  BY <1>1, HolderInit, HolderStep, PTL DEF Spec

LEMMA WorkerAdvances ==
  ASSUME TypeOK, NEW v \in Workers, WorkerStep(v), NEW w \in Workers
  PROVE  /\ queue' \subseteq queue
         /\ \/ UNCHANGED <<wpc[w], wrun[w]>>
            \/ StepsLeft[wpc'[w]] < StepsLeft[wpc[w]]
            \/ wpc[w] = "claim" /\ wpc'[w] = "lock" /\ wrun'[w] \in queue \ queue'
<1>1. CASE Claim(v)
  <2>1. CASE pauseRequested \/ queue = {}
    <3>1. UNCHANGED <<queue, wrun>> /\ wpc[v] = "claim" /\ wpc' = [wpc EXCEPT ![v] = "done"]
      BY <1>1, <2>1 DEF Claim
    <3> QED
      BY <3>1 DEF TypeOK, StepsLeft
  <2>2. CASE ~(pauseRequested \/ queue = {})
    <3>1. PICK r \in Runs :
            /\ FirstOf(queue, r)
            /\ queue' = queue \ {r}
            /\ wpc' = [wpc EXCEPT ![v] = "lock"]
            /\ wrun' = [wrun EXCEPT ![v] = r]
      BY <1>1, <2>2 DEF Claim
    <3>2. r \in queue /\ wpc[v] = "claim"
      BY <1>1, <3>1 DEF FirstOf, Claim
    <3> QED
      BY <3>1, <3>2 DEF TypeOK
  <2> QED
    BY <2>1, <2>2
<1>2. CASE Download(v)
  BY <1>2 DEF Download, pool
<1>3. CASE ~Claim(v) /\ ~Download(v)
  <2>1. /\ queue' = queue
        /\ \E to \in {"purge", "run", "record", "dead", "appended", "claim"} :
             wpc' = [wpc EXCEPT ![v] = to] /\ StepsLeft[to] < StepsLeft[wpc[v]]
        /\ \A u \in Workers : u # v => wrun'[u] = wrun[u]
    BY <1>3 DEF WorkerStep, TakeDownloadLock, Purge, RunReturns, WorkerDies, AppendRow,
                CompleteRun, StepsLeft, TypeOK
  <2> QED
    BY <2>1 DEF TypeOK
<1> QED
  BY <1>1, <1>2, <1>3

(* Every step of a worker brings the end of the pool nearer, and no step   *)
(* of anybody else moves it away.                                          *)
THEOREM PoolAdvances == Spec => WorkersAdvance
<1> DEFINE Advance ==
      pc = "pool" /\ pc' = "pool" =>
        /\ queue' \subseteq queue
        /\ \A w \in Workers :
             \/ UNCHANGED <<wpc[w], wrun[w]>>
             \/ StepsLeft[wpc'[w]] < StepsLeft[wpc[w]]
             \/ wpc[w] = "claim" /\ wpc'[w] = "lock" /\ wrun'[w] \in queue \ queue'
<1>1. ASSUME TypeOK, [Next]_vars PROVE Advance
  <2>1. ASSUME NEW v \in Workers, WorkerStep(v) PROVE Advance
    BY <1>1, <2>1, WorkerAdvances, WorkersAssumption
  <2>2. CASE HarnessStep \/ Crash
    BY <2>2 DEF HarnessStep, Launch, ResumePreflight, ResumeRefused, ResumeOpen, StartPool,
       FinalWrite, ConsumeSentinel, ReportPaused, Finish, Crash, ProcessGone
  <2>3. CASE EnvironmentStep \/ UNCHANGED vars
    <3>1. UNCHANGED <<process, pool>>
      BY <2>3 DEF EnvironmentStep, PauseRequest, ScriptSeesPause, ScriptGivesUp,
         ScriptStopsServices, StartServices, Reconfigure, LateDownload, AroundUnchanged, vars
    <3> QED
      BY <3>1 DEF process, pool
  <2> QED
    BY <1>1, <2>1, <2>2, <2>3, Steps
<1>2. TypeOK /\ [Next]_vars => [Advance]_vars
  BY <1>1
<1> QED
  BY Typed, <1>2, PTL DEF Spec, WorkersAdvance
=============================================================================

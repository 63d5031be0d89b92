------------------------------ MODULE Campaign ------------------------------
(***************************************************************************)
(* One measurement campaign of the web-task harness: the files it leaves   *)
(* under docs/campaigns (progress file, results file, pause sentinel), the *)
(* harness process that launches or resumes it (_run_campaign), its pool   *)
(* of worker threads (_run_planned_tasks), and the operator's              *)
(* run-campaign.sh --pause [--release] running beside it.                  *)
(*                                                                         *)
(* A crash of the harness may fall between any two steps.  The files are   *)
(* rewritten atomically (temporary file, then rename), so a write is one   *)
(* step.  One harness process at a time serves the campaign.               *)
(***************************************************************************)
EXTENDS Naturals, Sequences, FiniteSets

CONSTANTS
  Workers,      \* the pool's threads, N_WORKERS of them
  Plan,         \* sequence of the planned (task_id, repetition) pairs
  Serialized,   \* runs of serialized_task_ids: they use the shared folder
  Settings,     \* what the metadata names: the commit, image ids, env flags
  Flags,        \* the settings that are env flags
  Sources,      \* the settings each git or docker command reads, or fails to
  Unread,       \* a setting that was not read, or a flag that is not set
  Values,       \* what a setting may be
  Configs,      \* the agent configurations
  NoFile, Nobody, NoRun,
  MaxSegments   \* bound: how many segments, so resumes, are explored

Runs == {Plan[i] : i \in DOMAIN Plan}
Segments == 1..MaxSegments

ASSUME WorkersAssumption == Workers # {} /\ Nobody \notin Workers
ASSUME PlanAssumption ==
  Plan \in Seq(Runs) /\ Serialized \subseteq Runs /\ NoRun \notin Runs
ASSUME ConfigAssumption ==
  /\ Flags \subseteq Settings /\ Sources \subseteq SUBSET Settings
  /\ Configs \subseteq [Settings -> Values \cup {Unread}]
ASSUME SegmentsAssumption == MaxSegments \in Nat \ {0}

\* The state dict of the campaign.  An entry of `active` is one object, told
\* apart by its run and its segment: a run is claimed once per segment.
State == [completed : SUBSET Runs,
          active    : SUBSET (Runs \X Segments),
          paused    : BOOLEAN,
          segments  : Segments,
          open      : BOOLEAN]
ASSUME NoFileAssumption == NoFile \notin State

Row == [run : Runs, segment : Segments]

VARIABLES
  (* on disk *)
  progress,     \* <cid>.progress.json
  results,      \* "runs" of <cid>.json: sequence of [run, segment]
  recorded,     \* "metadata" of <cid>.json: the settings read at launch
  sentinel,     \* <cid>.pause exists
  (* the harness process *)
  pc,           \* "none", "checked", "pool", "written", "unlinked"
  metadataNow,     \* metadata_now of a resume
  mem,          \* the state dict in memory
  previous,     \* previous_rows: what the results file held at the resume
  rows,         \* rows of this pool
  queue,        \* runs not yet claimed
  pauseRequested,
  wpc, wrun,    \* each worker: where it is, the run it holds
  downloadLock,
  (* around it *)
  downloads,    \* runs whose file lies in the shared downloads folder
  abandoned,    \* serialized runs given up on while the agent goes on
  config,       \* the configuration the agent is running with
  measured,     \* per segment, the configuration it ran against (history)
  services,     \* tabbyapi, playwright-mcp and the fixtures are up
  script,       \* --release: "off", "polling", "stopping"
  confirmed     \* the segment the script last saw paused, 0 for none (history)

files   == <<progress, results, recorded, sentinel>>
process == <<pc, metadataNow, mem, previous, rows, queue, pauseRequested>>
pool    == <<wpc, wrun, downloadLock>>
around  == <<downloads, abandoned, config, measured, services, script,
             confirmed>>
vars    == <<files, process, pool, around>>

InitialState == [completed |-> {}, active |-> {}, paused |-> FALSE,
                 segments |-> 1, open |-> TRUE]

\* Faulty variant: a resume takes the whole plan again.
RemainingAll(state) == Runs

Remaining(state) == Runs \ state.completed

\* Faulty variant: the new segment leaves the campaign marked as paused.
OpenNewSegmentStillPaused(state) ==
  [state EXCEPT !.segments = @ + 1, !.open = TRUE]

OpenNewSegment(state) ==
  [state EXCEPT !.segments = @ + 1, !.open = TRUE, !.paused = FALSE]
CloseSegment(state, paused) == [state EXCEPT !.open = FALSE, !.paused = paused]

\* Faulty variant: a setting that cannot be read at the resume passes for equal.
ConfigDriftWhenRead(before, now) ==
  \E s \in Settings : Unread \notin {before[s], now[s]} /\ before[s] # now[s]

\* The flags compared are those found at launch: one that was not set or not
\* read then may appear without being a drift.
ConfigDrift(before, now) ==
  \E s \in Settings : before[s] # now[s] /\ (s \in Flags => before[s] # Unread)

NothingRead == [s \in Settings |-> Unread]

\* collect_metadata: each command is best effort.
CollectMetadata ==
  {[s \in Settings |-> IF s \in UNION failed THEN Unread ELSE config[s]] :
     failed \in SUBSET Sources}

RunsOf(table) == {table[i].run : i \in DOMAIN table}
FirstOf(set, r) ==
  \E i \in DOMAIN Plan : /\ Plan[i] = r /\ r \in set
                         /\ \A j \in 1..(i - 1) : Plan[j] \notin set

StateLockFree == \A w \in Workers : wpc[w] # "appended"
InFlight(w)   == wpc[w] \in {"lock", "purge", "run", "record", "appended"}
Joined        == \A w \in Workers : wpc[w] \in {"done", "dead"}

NoProcess ==
  /\ pc = "none" /\ metadataNow = NothingRead /\ mem = InitialState
  /\ previous = <<>> /\ rows = <<>> /\ queue = {} /\ pauseRequested = FALSE
  /\ wpc = [w \in Workers |-> "done"] /\ wrun = [w \in Workers |-> NoRun]
  /\ downloadLock = Nobody

Init ==
  /\ progress = NoFile /\ results = <<>> /\ recorded = NothingRead
  /\ sentinel = FALSE
  /\ NoProcess
  /\ downloads = {} /\ abandoned = {} /\ config \in Configs
  /\ measured = <<>> /\ services = TRUE /\ script = "off" /\ confirmed = 0

----------------------------------------------------------------------------
(* Launching, resuming, ending *)

StartPool(state) ==
  /\ pc' = "pool"
  /\ mem' = state /\ progress' = state
  /\ queue' = Remaining(state)
  /\ rows' = <<>> /\ pauseRequested' = FALSE
  /\ wpc' = [w \in Workers |-> "claim"] /\ wrun' = [w \in Workers |-> NoRun]
  /\ measured' = Append(measured, config)

\* A fresh campaign: preamble, metadata, initial progress file.
Launch ==
  /\ pc = "none" /\ progress = NoFile /\ services
  /\ recorded' \in CollectMetadata
  /\ StartPool(InitialState)
  /\ previous' = <<>>
  /\ downloads' = {}
  /\ UNCHANGED <<results, sentinel, metadataNow, downloadLock,
                 abandoned, config, services, script, confirmed>>

\* The preamble of a resume waits for the LLM and the fixtures, purges the
\* shared folder; the flags are collected after it.
ResumePreflight ==
  /\ pc = "none" /\ progress # NoFile /\ services
  /\ pc' = "checked"
  /\ metadataNow' \in CollectMetadata
  /\ downloads' = {}
  /\ UNCHANGED <<files, mem, previous, rows, queue, pauseRequested, pool,
                 abandoned, config, measured, services, script, confirmed>>

ResumeRefused ==
  /\ pc = "checked"
  /\ ~progress.paused \/ ConfigDrift(recorded, metadataNow)
  /\ pc' = "none" /\ metadataNow' = NothingRead
  /\ UNCHANGED <<files, mem, previous, rows, queue, pauseRequested, pool, around>>

ResumeOpen ==
  /\ pc = "checked"
  /\ progress.paused /\ ~ConfigDrift(recorded, metadataNow)
  /\ progress.segments < MaxSegments
  /\ StartPool(OpenNewSegment(progress))
  /\ previous' = results
  /\ UNCHANGED <<results, recorded, sentinel, metadataNow, downloadLock,
                 downloads, abandoned, config, services, script, confirmed>>

\* Faulty variant: the rows of the earlier segments are not carried over.
FinalWriteOwnRows ==
  /\ pc = "pool" /\ Joined
  /\ pc' = "written"
  /\ results' = rows
  /\ UNCHANGED <<progress, recorded, sentinel, metadataNow, mem, previous, rows,
                 queue, pauseRequested, pool, around>>

\* All workers joined: the whole table is written again.
FinalWrite ==
  /\ pc = "pool" /\ Joined
  /\ pc' = "written"
  /\ results' = previous \o rows
  /\ UNCHANGED <<progress, recorded, sentinel, metadataNow, mem, previous, rows,
                 queue, pauseRequested, pool, around>>

ConsumeSentinel ==
  /\ pc = "written" /\ pauseRequested
  /\ pc' = "unlinked"
  /\ sentinel' = FALSE
  /\ UNCHANGED <<progress, results, recorded, metadataNow, mem, previous, rows,
                 queue, pauseRequested, pool, around>>

ProcessGone ==
  /\ pc' = "none" /\ metadataNow' = NothingRead /\ mem' = InitialState
  /\ previous' = <<>> /\ rows' = <<>> /\ queue' = {} /\ pauseRequested' = FALSE
  /\ wpc' = [w \in Workers |-> "done"] /\ wrun' = [w \in Workers |-> NoRun]
  /\ downloadLock' = Nobody

ReportPaused ==
  /\ pc = "unlinked"
  /\ progress' = CloseSegment(mem, TRUE)
  /\ ProcessGone
  /\ UNCHANGED <<results, recorded, sentinel, around>>

\* Faulty variant: a campaign that stops at a pause is closed as finished.
FinishAnyway ==
  /\ pc = "written"
  /\ progress' = CloseSegment(mem, FALSE)
  /\ ProcessGone
  /\ UNCHANGED <<results, recorded, sentinel, around>>

Finish ==
  /\ pc = "written" /\ ~pauseRequested
  /\ progress' = CloseSegment(mem, FALSE)
  /\ ProcessGone
  /\ UNCHANGED <<results, recorded, sentinel, around>>

\* The harness dies.  A run in flight goes on inside the agent.
Crash ==
  /\ pc # "none"
  /\ ProcessGone
  /\ abandoned' = abandoned \cup
       {r \in Serialized : \E w \in Workers : wpc[w] = "run" /\ wrun[w] = r}
  /\ UNCHANGED <<files, downloads, config, measured, services, script, confirmed>>

----------------------------------------------------------------------------
(* One worker of the pool *)

PoolUnchanged == UNCHANGED <<pc, metadataNow, previous, recorded, sentinel,
                             config, measured, services, script, confirmed>>

\* Under state_lock: leave, or take the next run and publish it as active.
Claim(w) ==
  /\ pc = "pool" /\ wpc[w] = "claim" /\ StateLockFree
  /\ IF pauseRequested \/ queue = {}
     THEN /\ wpc' = [wpc EXCEPT ![w] = "done"]
          /\ UNCHANGED <<progress, mem, queue, wrun>>
     ELSE \E r \in Runs :
          /\ FirstOf(queue, r)
          /\ queue' = queue \ {r}
          /\ wpc' = [wpc EXCEPT ![w] = "lock"]
          /\ wrun' = [wrun EXCEPT ![w] = r]
          /\ mem' = [mem EXCEPT !.active = @ \cup {<<r, mem.segments>>}]
          /\ progress' = mem'
  /\ UNCHANGED <<results, rows, pauseRequested, downloadLock, downloads, abandoned>>
  /\ PoolUnchanged

TakeDownloadLock(w) ==
  /\ wpc[w] = "lock" /\ downloadLock = Nobody
  /\ downloadLock' = w
  /\ wpc' = [wpc EXCEPT ![w] = "purge"]
  /\ UNCHANGED <<progress, results, mem, rows, queue, pauseRequested, wrun,
                 downloads, abandoned>>
  /\ PoolUnchanged

\* Faulty variant: the lock covers the purge only, also for a serialized task.
PurgeThenRelease(w) ==
  /\ wpc[w] = "purge"
  /\ downloads' = {}
  /\ downloadLock' = Nobody
  /\ wpc' = [wpc EXCEPT ![w] = "run"]
  /\ UNCHANGED <<progress, results, mem, rows, queue, pauseRequested, wrun, abandoned>>
  /\ PoolUnchanged

\* Purge; the lock is kept through the run only by a serialized task.
Purge(w) ==
  /\ wpc[w] = "purge"
  /\ downloads' = {}
  /\ downloadLock' = IF wrun[w] \in Serialized THEN w ELSE Nobody
  /\ wpc' = [wpc EXCEPT ![w] = "run"]
  /\ UNCHANGED <<progress, results, mem, rows, queue, pauseRequested, wrun, abandoned>>
  /\ PoolUnchanged

\* What the agent does for a serialized run while the worker waits for it.
Download(w) ==
  /\ wpc[w] = "run" /\ wrun[w] \in Serialized
  /\ downloads' = downloads \cup {wrun[w]}
  /\ UNCHANGED <<progress, results, mem, rows, queue, pauseRequested, pool, abandoned>>
  /\ PoolUnchanged

\* Faulty variant: a worker whose run raised keeps the lock.
ReleaseDownloadLockNever(w) == UNCHANGED downloadLock

ReleaseDownloadLock(w) ==
  downloadLock' = IF downloadLock = w THEN Nobody ELSE downloadLock

\* run_task returns: an answer, or result.error after a timeout of the HTTP
\* call, which does not stop the run inside the agent.
RunReturns(w) ==
  /\ wpc[w] = "run"
  /\ wpc' = [wpc EXCEPT ![w] = "record"]
  /\ ReleaseDownloadLock(w)
  /\ abandoned' \in {abandoned, abandoned \cup ({wrun[w]} \cap Serialized)}
  /\ UNCHANGED <<progress, results, mem, rows, queue, pauseRequested, wrun, downloads>>
  /\ PoolUnchanged

\* run_task or the task's assertion raises something else than the two
\* exceptions it catches: the thread ends, its run stays claimed.
WorkerDies(w) ==
  /\ wpc[w] \in {"run", "record"}
  /\ wpc' = [wpc EXCEPT ![w] = "dead"]
  /\ ReleaseDownloadLock(w)
  /\ UNCHANGED <<progress, results, mem, rows, queue, pauseRequested, wrun,
                 downloads, abandoned>>
  /\ PoolUnchanged

\* state_lock taken again: the row goes to the results file first ...
AppendRow(w) ==
  /\ wpc[w] = "record" /\ StateLockFree
  /\ LET row == [run |-> wrun[w], segment |-> mem.segments] IN
     /\ rows' = Append(rows, row)
     /\ results' = Append(results, row)
  /\ wpc' = [wpc EXCEPT ![w] = "appended"]
  /\ UNCHANGED <<progress, mem, queue, pauseRequested, wrun, downloadLock,
                 downloads, abandoned>>
  /\ PoolUnchanged

\* ... then the run is completed in the progress file, and the run boundary
\* looks for the pause sentinel.
CompleteRun(w) ==
  /\ wpc[w] = "appended"
  /\ mem' = [mem EXCEPT !.completed = @ \cup {wrun[w]},
                        !.active = @ \ {<<wrun[w], mem.segments>>}]
  /\ progress' = mem'
  /\ pauseRequested' = (pauseRequested \/ sentinel)
  /\ wpc' = [wpc EXCEPT ![w] = "claim"]
  /\ wrun' = [wrun EXCEPT ![w] = NoRun]
  /\ UNCHANGED <<results, rows, queue, downloadLock, downloads, abandoned>>
  /\ PoolUnchanged

----------------------------------------------------------------------------
(* The operator and the rest of the machine *)

AroundUnchanged == UNCHANGED <<progress, results, recorded, process, pool, measured>>

\* run-campaign.sh --pause: it refuses an unknown campaign, touches the
\* sentinel and, with --release, waits for paused=true.
PauseRequest(release) ==
  /\ script = "off" /\ progress # NoFile
  /\ sentinel' = TRUE
  /\ script' = IF release THEN "polling" ELSE "off"
  /\ UNCHANGED <<downloads, abandoned, config, services, confirmed>>
  /\ AroundUnchanged

ScriptSeesPause ==
  /\ script = "polling" /\ progress.paused
  /\ script' = "stopping" /\ confirmed' = progress.segments
  /\ UNCHANGED <<sentinel, downloads, abandoned, config, services>>
  /\ AroundUnchanged

\* Faulty variant: the services are stopped at the timeout all the same.
ScriptStopsAnyway ==
  /\ script = "polling"
  /\ script' = "off" /\ services' = FALSE
  /\ UNCHANGED <<sentinel, downloads, abandoned, config, confirmed>>
  /\ AroundUnchanged

\* The pause is not confirmed in time: the services are left running.
ScriptGivesUp ==
  /\ script = "polling"
  /\ script' = "off"
  /\ UNCHANGED <<sentinel, downloads, abandoned, config, services, confirmed>>
  /\ AroundUnchanged

ScriptStopsServices ==
  /\ script = "stopping"
  /\ script' = "off" /\ services' = FALSE /\ confirmed' = 0
  /\ UNCHANGED <<sentinel, downloads, abandoned, config>>
  /\ AroundUnchanged

StartServices ==
  /\ pc = "none" /\ ~services
  /\ services' = TRUE
  /\ UNCHANGED <<sentinel, downloads, abandoned, config, script, confirmed>>
  /\ AroundUnchanged

\* The agent is rebuilt or recreated with other flags between two segments.
Reconfigure ==
  /\ pc = "none" /\ progress # NoFile
  /\ config' \in Configs \ {config}
  /\ UNCHANGED <<sentinel, downloads, abandoned, services, script, confirmed>>
  /\ AroundUnchanged

\* A run the harness no longer waits for reaches its download.
LateDownload(r) ==
  /\ r \in abandoned
  /\ downloads' = downloads \cup {r}
  /\ UNCHANGED <<sentinel, abandoned, config, services, script, confirmed>>
  /\ AroundUnchanged

----------------------------------------------------------------------------
WorkerStep(w) == \/ Claim(w) \/ TakeDownloadLock(w) \/ Purge(w) \/ Download(w)
                 \/ RunReturns(w) \/ WorkerDies(w) \/ AppendRow(w) \/ CompleteRun(w)

HarnessStep == \/ Launch \/ ResumePreflight \/ ResumeRefused \/ ResumeOpen
               \/ FinalWrite \/ ConsumeSentinel \/ ReportPaused \/ Finish

Next ==
  \/ HarnessStep \/ Crash
  \/ \E w \in Workers : WorkerStep(w)
  \/ \E release \in BOOLEAN : PauseRequest(release)
  \/ ScriptSeesPause \/ ScriptGivesUp \/ ScriptStopsServices
  \/ StartServices \/ Reconfigure
  \/ \E r \in Serialized : LateDownload(r)

Spec == Init /\ [][Next]_vars

\* Threads and the harness keep running; run_task returns because its HTTP
\* calls time out.  Nothing is assumed of the operator.
Fairness ==
  /\ \A w \in Workers :
       WF_vars(\/ Claim(w) \/ TakeDownloadLock(w) \/ Purge(w)
               \/ RunReturns(w) \/ AppendRow(w) \/ CompleteRun(w))
  /\ WF_vars(FinalWrite \/ ConsumeSentinel \/ ReportPaused \/ Finish)

FairSpec == Spec /\ Fairness

----------------------------------------------------------------------------
(* Properties *)

TypeOK ==
  /\ progress \in State \cup {NoFile}
  /\ results \in Seq(Row)
  /\ recorded \in [Settings -> Values \cup {Unread}]
  /\ metadataNow \in [Settings -> Values \cup {Unread}]
  /\ sentinel \in BOOLEAN /\ pauseRequested \in BOOLEAN
  /\ pc \in {"none", "checked", "pool", "written", "unlinked"}
  /\ mem \in State
  /\ previous \in Seq(Row)
  /\ rows \in Seq(Row)
  /\ queue \subseteq Runs
  /\ wpc \in [Workers -> {"claim", "lock", "purge", "run", "record",
                          "appended", "done", "dead"}]
  /\ wrun \in [Workers -> Runs \cup {NoRun}]
  /\ downloadLock \in Workers \cup {Nobody}
  /\ downloads \subseteq Runs /\ abandoned \subseteq Runs
  /\ config \in Configs /\ measured \in Seq(Configs)
  /\ services \in BOOLEAN /\ script \in {"off", "polling", "stopping"}
  /\ confirmed \in Segments \cup {0}

\* No run is in the results twice, whatever pauses, resumes, dead workers and
\* crashes between the write of a row and the write of the progress file
\* (_run_planned_tasks, remaining_runs, the paused gate of a resume).
NoRunRecordedTwice ==
  \A i, j \in DOMAIN results : results[i].run = results[j].run => i = j

\* A campaign that says paused has no harness at work on it, and what it calls
\* completed is exactly what its results hold: a resume can trust both.
PausedMeansConsistent ==
  progress # NoFile =>
    /\ progress.completed \subseteq RunsOf(results)
    /\ progress.paused => /\ pc \in {"none", "checked"}
                          /\ progress.completed = RunsOf(results)

\* While a serialized run uses the shared folder, every file in it is its own
\* or comes from a run the harness had given up on (download_lock).
SharedFolderExclusive ==
  \A w \in Workers : wpc[w] = "run" /\ wrun[w] \in Serialized =>
    downloads \subseteq {wrun[w]} \cup abandoned

\* Every segment measured the settings that were recorded at launch, whatever
\* commands fail there or at the resume.  A flag that was absent or unread at
\* launch is not among them: no later reading makes it a drift
\* (config_drift_diff).
OneConfigMeasured ==
  \A s \in Settings : recorded[s] # Unread =>
    \A i \in DOMAIN measured : measured[i][s] = recorded[s]

\* A campaign closed as finished has recorded its whole plan, unless the
\* progress file still shows a run in flight: the trace of a dead worker.
FinishedMeansComplete ==
  progress # NoFile /\ ~progress.open /\ ~progress.paused =>
    progress.active # {} \/ RunsOf(results) = Runs

\* The pool always ends, so a pause request is answered (worker, t.join()).
PoolEnds == pc = "pool" ~> pc = "none"

\* The results file implements the ledger: rows are only added, each planned
\* run once, and the final rewrite changes nothing.
Ledger == INSTANCE RunLedger WITH
            Runs <- Runs, ledger <- [i \in DOMAIN results |-> results[i].run]
LedgerSpec == Ledger!Spec

\* --release never stops the services under a run of a segment that was open
\* before its pause was confirmed.  A resume between the confirmation and the
\* stop opens a later segment, whose runs are not spared although the script
\* promises it of every run (run-campaign.sh).
ReleaseSparesThePausedSegment ==
  [][services /\ ~services' =>
       \A w \in Workers : InFlight(w) => confirmed \in 1..(mem.segments - 1)]_vars
=============================================================================

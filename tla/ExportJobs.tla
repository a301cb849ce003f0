----------------------------- MODULE ExportJobs -----------------------------
(***************************************************************************)
(* Asynchronous CSV exports: the request that creates a job, the           *)
(* background task that runs it, the requests that stop jobs, and the      *)
(* failures between them.  Jobs, stop requests and direct exports run on   *)
(* several Cloud Run instances and share nothing but the job table         *)
(* (JobTable) and the folder (DriveFolder).                                *)
(*                                                                         *)
(* pc[j] is the next statement of job j.  One action is one statement on   *)
(* shared state with the local code up to the next one:                    *)
(*                                                                         *)
(*   none      POST /exports/financial-data {"async": true} not yet made   *)
(*   refresh   trigger: row committed, session.refresh(job) pending        *)
(*   begin     202 sent, task queued: RunExportJob.execute polls the flag  *)
(*   cancelEarly, start             mark_cancelled, mark_running           *)
(*   build     the lazy factory, list_currencies, the window               *)
(*   firstReport                    update_progress(0, total)              *)
(*   series    poll and bulk fetch at the start of a series                *)
(*   item      _checkpoint: count one item                                 *)
(*   poll, report                   its poll and update_progress           *)
(*   resolve   session_refresh if due, then the item's value               *)
(*   finalPoll, finalReport         the poll and report before the upload  *)
(*   find, store                    the two Drive requests                 *)
(*   succeed, failing, cancelling   mark_succeeded, _failed, _cancelled    *)
(*   closing   the finally of run_export_job_in_background                 *)
(*   done      the task has ended; dead: its process is gone               *)
(***************************************************************************)
EXTENDS JobTable, DriveFolder

CONSTANTS
    Stopper,      \* requests to the two stop endpoints
    Series,       \* currency codes plus economic-index codes
    Window,       \* dates per series: lookback_days + forward_days + 1
    Interval,     \* EXPORT_CANCELLATION_CHECK_INTERVAL
    GuessIds,     \* clients also name ids that no answer has told them
    MaxFaults     \* bound: crashes and failing database statements

ASSUME ExportAssumption ==
    /\ Job \subseteq Writer
    /\ Series \in Nat \ {0}
    /\ Window \in Nat \ {0}
    /\ Interval \in Nat \ {0}
    /\ GuessIds \in BOOLEAN
    /\ MaxFaults \in Nat

VARIABLES
    pc,           \* pc[j]: the next statement of job j
    items,        \* items[j]: items_checked of the export loop
    broken,       \* broken[j]: the session's transaction is aborted
    todo,         \* todo[s]: ids the stop request has yet to flag
    reading,      \* reading[s]: the id it has flagged and will read back
    faults,       \* faults spent so far (bound)
    \* History, read by properties only:
    flagAt,       \* flagAt[j]: items[j] when the stop was recorded
    told,         \* told[j]: some stop response listed j as stopping
    disturbed     \* disturbed[j]: j met a crash or a database error

runVars  == <<pc, items, broken>>
stopVars == <<todo, reading>>
histVars == <<flagAt, told, disturbed>>
vars == <<job, folderVars, runVars, stopVars, faults, histVars>>

Total == Series * Window

NotFlagged == -1      \* no stop recorded
TooLate    == -2      \* recorded when the runner polls no more

BeforeRun  == {"refresh", "begin", "cancelEarly", "start"}
Loop       == {"firstReport", "series", "item", "poll", "report", "resolve",
               "finalPoll"}
PastPoll   == {"finalReport", "find", "store", "succeed"}
Handlers   == {"failing", "cancelling"}
Ended      == {"done", "dead"}

\* Faulty variant of InTry: mark_succeeded is inside as well.
InTryToTheEnd == {"build"} \cup Loop \cup PastPoll

\* The body of the try of RunExportJob.execute.
InTry == {"build"} \cup Loop \cup (PastPoll \ {"succeed"})

\* The task can still poll the flag.
Polls == (BeforeRun \ {"cancelEarly"}) \cup {"build"} \cup Loop

Pcs == {"none", "closing"} \cup BeforeRun \cup InTry \cup PastPoll
           \cup Handlers \cup Ended

Uploaded(j) == upload[j] = "stored"

TypeOK ==
    /\ job       \in [Job -> Row(0 .. Total)]
    /\ FolderTypeOK
    /\ pc        \in [Job -> Pcs]
    /\ items     \in [Job -> 0 .. Total]
    /\ broken    \in [Job -> BOOLEAN]
    /\ todo      \in [Stopper -> SUBSET Job]
    /\ reading   \in [Stopper -> SUBSET Job]
    /\ faults    \in 0 .. MaxFaults
    /\ flagAt    \in [Job -> {NotFlagged, TooLate} \cup 0 .. Total]
    /\ told      \in [Job -> BOOLEAN]
    /\ disturbed \in [Job -> BOOLEAN]

Init ==
    /\ TableInit
    /\ FolderInit
    /\ pc        = [j \in Job |-> "none"]
    /\ items     = [j \in Job |-> 0]
    /\ broken    = [j \in Job |-> FALSE]
    /\ todo      = [s \in Stopper |-> {}]
    /\ reading   = [s \in Stopper |-> {}]
    /\ faults    = 0
    /\ flagAt    = [j \in Job |-> NotFlagged]
    /\ told      = [j \in Job |-> FALSE]
    /\ disturbed = [j \in Job |-> FALSE]

-----------------------------------------------------------------------------
\* The background task

Goto(j, to) == pc' = [pc EXCEPT ![j] = to]

\* The row after the statement that the task runs at a given pc.
Effect(at, row, processed) ==
    CASE at = "none"                        -> CreateRow
      [] at = "start"                       -> MarkRunning(row)
      [] at \in {"cancelEarly", "cancelling"} -> MarkCancelled(row)
      [] at \in {"firstReport", "report", "finalReport"} ->
             UpdateProgress(row, processed, Total)
      [] at = "succeed"                     -> MarkSucceeded(row)
      [] at = "failing"                     -> MarkFailed(row)
      [] OTHER                              -> row

Execute(j, at, next) ==
    /\ pc[j] = at
    /\ job' = [job EXCEPT ![j] = Effect(at, @, items[j])]
    /\ Goto(j, next)
    /\ UNCHANGED <<folderVars, items, broken, stopVars, faults, histVars>>

\* raise_if_cancelled: the flag read decides the next statement.
PollFlag(j, at, ifStopped, otherwise) ==
    Execute(j, at, IF IsCancelRequested(j) THEN ifStopped ELSE otherwise)

\* Faulty variant of AfterItem: one series too many.
AfterItemOffByOne(n) ==
    IF n > Total THEN "finalPoll" ELSE IF n % Window = 0 THEN "series" ELSE "item"

\* After item n comes the final poll, the next series or the next date.
AfterItem(n) ==
    IF n = Total THEN "finalPoll" ELSE IF n % Window = 0 THEN "series" ELSE "item"

\* POST /exports/financial-data: the row is committed before the answer.
Trigger(j)     == Execute(j, "none", "refresh")
Dispatch(j)    == Execute(j, "refresh", "begin")

\* Faulty variant of Begin: an early stop returns without mark_cancelled.
BeginUnrecorded(j) == PollFlag(j, "begin", "closing", "start")

Begin(j)       == PollFlag(j, "begin", "cancelEarly", "start")
CancelEarly(j) == Execute(j, "cancelEarly", "closing")
Start(j)       == Execute(j, "start", "build")
Build(j)       == Execute(j, "build", "firstReport")
FirstReport(j) == Execute(j, "firstReport", "series")
NextSeries(j)  == PollFlag(j, "series", "cancelling", "item")

\* _checkpoint polls on every Interval-th item, counted across the series.
Checkpoint(j) ==
    /\ pc[j] = "item"
    /\ items' = [items EXCEPT ![j] = @ + 1]
    /\ Goto(j, IF (items[j] + 1) % Interval = 0 THEN "poll" ELSE "resolve")
    /\ UNCHANGED <<job, folderVars, broken, stopVars, faults, histVars>>

\* Faulty variants of Poll: the flag ignored, the progress not written; and of
\* FinalPoll: the same two.
PollIgnoresFlag(j)      == Execute(j, "poll", "report")
PollForgetsReport(j)    == PollFlag(j, "poll", "cancelling", "resolve")
FinalPollSkipped(j)     == Execute(j, "finalPoll", "finalReport")
FinalReportForgotten(j) == PollFlag(j, "finalPoll", "cancelling", "find")

Poll(j)        == PollFlag(j, "poll", "cancelling", "report")
Report(j)      == Execute(j, "report", "resolve")
Resolve(j)     == Execute(j, "resolve", AfterItem(items[j]))
FinalPoll(j)   == PollFlag(j, "finalPoll", "cancelling", "finalReport")
FinalReport(j) == Execute(j, "finalReport", "find")

Find(j) ==
    /\ pc[j] = "find"
    /\ FindExistingFileId(j)
    /\ Goto(j, "store")
    /\ UNCHANGED <<job, items, broken, stopVars, faults, histVars>>

Upload(j) ==
    /\ pc[j] = "store"
    /\ Store(j)
    /\ Goto(j, "succeed")
    /\ UNCHANGED <<job, items, broken, stopVars, faults, histVars>>

Succeed(j)     == Execute(j, "succeed", "closing")
Cancel(j)      == Execute(j, "cancelling", "closing")
CloseSession(j) == Execute(j, "closing", "done")

\* mark_failed runs on the session of the failed statement and nothing rolls
\* that session back: in an aborted transaction mark_failed raises as well.
Fail(j) ==
    /\ ~broken[j]
    /\ Execute(j, "failing", "closing")

FailRaises(j) ==
    /\ broken[j]
    /\ pc[j] = "failing"
    /\ Goto(j, "closing")
    /\ UNCHANGED <<job, folderVars, items, broken, stopVars, faults, histVars>>

\* Drive is not configured, a provider or a value is bad, Drive refuses or its
\* answer is lost: an exception that leaves the database session usable.
WorkFails(j) ==
    /\ pc[j] \in {"build", "resolve", "find", "store"}
    /\ \/ UNCHANGED folderVars
       \/ pc[j] = "store" /\ Store(j)
    /\ Goto(j, "failing")
    /\ UNCHANGED <<job, items, broken, stopVars, faults, histVars>>

TaskStep(j) ==
    \/ Dispatch(j) \/ Begin(j) \/ CancelEarly(j) \/ Start(j)
    \/ Build(j) \/ FirstReport(j) \/ NextSeries(j) \/ Checkpoint(j)
    \/ Poll(j) \/ Report(j) \/ Resolve(j) \/ FinalPoll(j) \/ FinalReport(j)
    \/ Find(j) \/ Upload(j) \/ Succeed(j) \/ Cancel(j)
    \/ Fail(j) \/ FailRaises(j) \/ WorkFails(j) \/ CloseSession(j)
-----------------------------------------------------------------------------
\* Faults

\* A database statement raises: its effect may be committed all the same (the
\* answer was lost), and its transaction may be left aborted (it is not when
\* no connection could be had).  Inside the try the handler takes over;
\* outside, the exception leaves the task.
OnDatabaseError(at) ==
    CASE at \in InTry                -> "failing"
      [] at \in {"none", "refresh"}  -> "dead"
      [] at = "closing"              -> "done"
      [] OTHER                       -> "closing"

DatabaseError(j) ==
    /\ pc[j] \notin Ended \cup {"item", "find", "store"}
    /\ faults < MaxFaults
    /\ faults' = faults + 1
    /\ \/ UNCHANGED job
       \/ job' = [job EXCEPT ![j] = Effect(pc[j], @, items[j])]
    /\ \E aborted \in BOOLEAN : broken' = [broken EXCEPT ![j] = @ \/ aborted]
    /\ Goto(j, OnDatabaseError(pc[j]))
    /\ disturbed' = [disturbed EXCEPT ![j] = TRUE]
    /\ UNCHANGED <<folderVars, items, stopVars, flagAt, told>>

\* The process of the task ends (scale to zero, redeploy, a cancelled task).
\* Nothing looks for jobs of dead processes, so nothing resumes it.  The crash
\* of an instance is a sequence of these, one for each task on it.
Crash(j) ==
    /\ pc[j] \notin Ended \cup {"none"}
    /\ faults < MaxFaults
    /\ faults' = faults + 1
    /\ Goto(j, "dead")
    /\ disturbed' = [disturbed EXCEPT ![j] = TRUE]
    /\ UNCHANGED <<job, folderVars, items, broken, stopVars, flagAt, told>>

-----------------------------------------------------------------------------
\* Stop requests

Idle(s) == todo[s] = {} /\ reading[s] = {}

\* POST /exports/jobs/stop takes its list of ids once.
StopAll(s) ==
    /\ Idle(s)
    /\ ListActiveIds # {}
    /\ todo' = [todo EXCEPT ![s] = ListActiveIds]
    /\ UNCHANGED <<job, folderVars, runVars, reading, faults, histVars>>

\* POST /exports/jobs/{job_id}/stop: nothing is read before the UPDATE.  Ids
\* are consecutive integers, so a client can name the next one.
StopOne(s, j) ==
    /\ Idle(s)
    /\ GuessIds \/ job[j].status # "absent"
    /\ todo' = [todo EXCEPT ![s] = {j}]
    /\ UNCHANGED <<job, folderVars, runVars, reading, faults, histVars>>

\* request_cancel: the conditional UPDATE and its commit ...
Flag(s, j) ==
    /\ reading[s] = {}
    /\ j \in todo[s]
    /\ todo' = [todo EXCEPT ![s] = @ \ {j}]
    /\ reading' = [reading EXCEPT ![s] = {j}]
    /\ job' = [job EXCEPT ![j] = RequestCancel(@)]
    /\ flagAt' = IF Cancellable(job[j])
                 THEN [flagAt EXCEPT ![j] =
                           IF pc[j] \in Polls THEN items[j] ELSE TooLate]
                 ELSE flagAt
    /\ UNCHANGED <<folderVars, runVars, faults, told, disturbed>>

\* ... and the read-back in a transaction of its own; a job that is no longer
\* active is left out of the bulk answer, and is a 409 or 404 of the single one.
ReadBack(s, j) ==
    /\ j \in reading[s]
    /\ reading' = [reading EXCEPT ![s] = {}]
    /\ told' = [told EXCEPT ![j] = @ \/ job[j].status \in ActiveStatuses]
    /\ UNCHANGED <<job, folderVars, runVars, todo, faults, flagAt, disturbed>>

\* The request dies with its instance or on a database error.
StopDies(s) ==
    /\ ~Idle(s)
    /\ faults < MaxFaults
    /\ faults' = faults + 1
    /\ todo' = [todo EXCEPT ![s] = {}]
    /\ reading' = [reading EXCEPT ![s] = {}]
    /\ UNCHANGED <<job, folderVars, runVars, histVars>>

StopStep(s) ==
    \/ StopAll(s)
    \/ \E j \in Job : StopOne(s, j) \/ Flag(s, j) \/ ReadBack(s, j)
    \/ StopDies(s)
-----------------------------------------------------------------------------
\* Direct (synchronous) exports and people, seen from the folder.

DirectExport(w) ==
    /\ w \notin Job
    /\ FindExistingFileId(w) \/ Store(w) \/ ExportAgain(w)
    /\ UNCHANGED <<job, runVars, stopVars, faults, histVars>>

TrashFile(f) ==
    /\ Trash(f)
    /\ UNCHANGED <<job, runVars, stopVars, faults, histVars>>

Next ==
    \/ \E j \in Job : Trigger(j) \/ TaskStep(j) \/ DatabaseError(j) \/ Crash(j)
    \/ \E s \in Stopper : StopStep(s)
    \/ \E w \in Writer : DirectExport(w)
    \/ \E f \in FileId : TrashFile(f)

Spec == Init /\ [][Next]_vars

\* The event loop runs every task that is ready and every awaited call
\* returns or raises (providers and Drive have timeouts).  Nothing makes a
\* client trigger or stop anything.
FairSpec == Spec /\ \A j \in Job : WF_vars(TaskStep(j))

-----------------------------------------------------------------------------
\* Properties

\* The job table and the uploads implement the promise of JobLifecycle: a
\* terminal row never changes status, a stop is recorded once and only on an
\* active row, only a published export succeeds, only a requested and never
\* published one is cancelled.  mark_* look at no old status, so this rests on
\* the order of the statements of RunExportJob, under every fault.
Lifecycle == INSTANCE JobLifecycle WITH
    status    <- [j \in Job |-> job[j].status],
    requested <- [j \in Job |-> job[j].cancel],
    published <- [j \in Job |-> Uploaded(j)]

ImplementsLifecycle == Lifecycle!Spec

\* A stop recorded while the task still polls wins: the job never uploads,
\* so never overwrites the last good export, and never succeeds
\* (run_export_job.py:35-41, export_exchange_rates_csv.py:131-136).
TimelyStopPreventsUpload ==
    \A j \in Job :
        flagAt[j] >= 0 => ~Uploaded(j) /\ job[j].status # "succeeded"

\* After a stop is recorded the loop counts at most Interval further items
\* ("stops at its next checkpoint", EXPORT_CANCELLATION_CHECK_INTERVAL), and
\* it does so although items are counted across series.
StopTakesEffectWithinInterval ==
    \A j \in Job : flagAt[j] >= 0 => items[j] - flagAt[j] <= Interval

\* The file never holds the export of a job whose row says that it was
\* cancelled, that it did not run, or that its upload was not complete.
FileHoldsCompleteExports ==
    \A f \in FileId : \A j \in content[f] \cap Job :
        /\ job[j].status \in {"running", "succeeded", "failed"}
        /\ job[j].processed = Total

\* A succeeded row tells the whole story: all items processed, the file
\* recorded, the upload made (progress 100.0 in docs/api.md:388-405).
SuccessIsComplete ==
    \A j \in Job :
        job[j].status = "succeeded" =>
            /\ Uploaded(j)
            /\ job[j].file
            /\ job[j].processed = Total
            /\ job[j].total = Total

\* Progress lags the loop by at most one polling interval and is never ahead of
\* it, in the row every other instance reads.
ProgressIsFresh ==
    \A j \in Job :
        /\ job[j].processed <= items[j]
        /\ pc[j] \in Loop \ {"firstReport"} =>
               items[j] - job[j].processed <= Interval

\* A job that a stop answer lists as stopping carries the flag, although the
\* UPDATE and the read-back are two transactions and the id list is older.
\* It needs clients that use ids they were told: with GuessIds a row inserted
\* between the two is read back as pending, and the answer is a 200 although
\* no flag is set (export_jobs.py:195-197, "Otherwise sets the DB-side flag").
ToldStoppingIsFlagged == \A j \in Job : told[j] => job[j].cancel

\* A row stays active without a live task only after a crash or a database
\* error: cancellation, provider and Drive failures all reach the row.
OrphanOnlyAfterFault ==
    \A j \in Job :
        pc[j] \in Ended /\ job[j].status \in ActiveStatuses => disturbed[j]

\* What RunExportJob says of itself (run_export_job.py:16-22 and 43-49): every
\* error of a run, a failing callback included, is recorded on the row, never
\* leaving it in 'running'.  A crash is not an error of the run: only tasks
\* that ended by themselves are meant.
EndedTaskRecordsOutcome ==
    \A j \in Job : pc[j] = "done" => job[j].status # "running"

\* What a client has read on a row that has ended stays true: neither the row
\* changes any more, nor does the job upload.  mark_* and update_progress would
\* overwrite any row: that a mark_succeeded whose answer was lost is not
\* followed by mark_failed rests on its place behind the try.
OutcomesAreFinal ==
    [][\A j \in Job : job[j].status \in TerminalStatuses =>
          job'[j] = job[j] /\ upload'[j] = upload[j]]_vars

\* Every triggered job reaches a terminal status, unless a crash or a database
\* error strikes it: whatever stops, uploads and failing providers do.
EveryJobEnds ==
    \A j \in Job :
        job[j].status = "pending" ~>
            job[j].status \in TerminalStatuses \/ disturbed[j]

\* A timely stop ends in 'cancelled', unless the run fails by itself first.
TimelyStopCancels ==
    \A j \in Job :
        flagAt[j] >= 0 ~>
            job[j].status \in {"cancelled", "failed"} \/ disturbed[j]
=============================================================================

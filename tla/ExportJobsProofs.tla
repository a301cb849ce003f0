--------------------------- MODULE ExportJobsProofs ---------------------------
(***************************************************************************)
(* Theorems about ExportJobs, for any number of jobs, stop requests, files *)
(* and faults, any window and any polling interval.                        *)
(***************************************************************************)
EXTENDS ExportJobs, DriveFolderProofs, NumberLemmas, TLAPS

\* The loop has at least one item: a window is never empty.
LEMMA TotalPositive == Total \in Nat \ {0}
  BY ExportAssumption DEF Total

\* What each statement leaves behind is a row again.
LEMMA RowType ==
  ASSUME NEW row \in Row(0 .. Total), NEW n \in 0 .. Total
  PROVE  /\ CreateRow \in Row(0 .. Total)
         /\ MarkRunning(row) \in Row(0 .. Total)
         /\ MarkSucceeded(row) \in Row(0 .. Total)
         /\ MarkFailed(row) \in Row(0 .. Total)
         /\ MarkCancelled(row) \in Row(0 .. Total)
         /\ UpdateProgress(row, n, Total) \in Row(0 .. Total)
         /\ RequestCancel(row) \in Row(0 .. Total)
  <1> USE DEF Row
  <1>1. {"pending", "running", "succeeded", "failed", "cancelled"} \subseteq Statuses
    BY DEF Statuses, ActiveStatuses, TerminalStatuses
  <1>2. EmptyRow \in Row(0 .. Total)
    BY TotalPositive DEF EmptyRow, NoTotal, Statuses
  <1>3. CreateRow \in Row(0 .. Total)
    BY <1>1, <1>2 DEF CreateRow
  <1>4. /\ MarkRunning(row) \in Row(0 .. Total)
        /\ MarkFailed(row) \in Row(0 .. Total)
        /\ MarkCancelled(row) \in Row(0 .. Total)
    BY <1>1 DEF MarkRunning, MarkFailed, MarkCancelled
  <1>5. MarkSucceeded(row) \in Row(0 .. Total)
    BY <1>1 DEF MarkSucceeded
  <1>6. UpdateProgress(row, n, Total) \in Row(0 .. Total)
    <2>1. Total \in 0 .. Total
      BY TotalPositive
    <2>2. [row EXCEPT !.processed = n] \in Row(0 .. Total)
      OBVIOUS
    <2> QED
      BY <2>1, <2>2 DEF UpdateProgress
  <1>7. RequestCancel(row) \in Row(0 .. Total)
    BY DEF RequestCancel
  <1> QED
    BY <1>3, <1>4, <1>5, <1>6, <1>7

\* So is the row after the statement at any pc.
LEMMA EffectType ==
  ASSUME NEW row \in Row(0 .. Total), NEW at \in Pcs, NEW n \in 0 .. Total
  PROVE  Effect(at, row, n) \in Row(0 .. Total)
  BY RowType DEF Effect

\* A statement of the task keeps the types, wherever it goes on.
LEMMA ExecuteType ==
  ASSUME TypeOK, NEW j \in Job, NEW at \in Pcs,
         NEW next \in Pcs, Execute(j, at, next)
  PROVE  TypeOK'
  <1>1. job' \in [Job -> Row(0 .. Total)]
    BY EffectType DEF TypeOK, Execute
  <1>2. pc' \in [Job -> Pcs]
    BY DEF TypeOK, Execute, Goto
  <1> QED
    BY <1>1, <1>2
    DEF TypeOK, Execute, FolderTypeOK, folderVars, stopVars, histVars

-----------------------------------------------------------------------------
\* The inductive invariant, job by job.

\* Where the task is tells what its row says: mark_* never look at the status
\* they replace, so every status they may replace follows from the pc.
Phase(j) ==
    /\ pc[j] = "none" => job[j] = EmptyRow /\ items[j] = 0
    /\ pc[j] \in BeforeRun => job[j].status = "pending"
    /\ pc[j] \in InTry \cup {"succeed"} \cup Handlers =>
           job[j].status = "running"

\* The loop counter and the progress on the row.
Counting(j) ==
    /\ pc[j] \in BeforeRun \cup {"build", "firstReport"} => items[j] = 0
    /\ pc[j] \in {"series", "item"} => items[j] < Total
    /\ pc[j] \in {"finalPoll", "finalReport"} => items[j] = Total
    /\ job[j].processed <= items[j]
    /\ pc[j] \in {"find", "store", "succeed"} =>
           job[j].processed = Total /\ job[j].total = Total

\* The upload: untouched before find, made at succeed, only for full rows.
Publishing(j) ==
    /\ pc[j] \in {"none", "build", "finalReport", "find", "cancelling"}
                     \cup BeforeRun \cup Loop => upload[j] = "idle"
    /\ pc[j] = "succeed" => Uploaded(j)
    /\ Uploaded(j) => /\ job[j].status \in {"running", "succeeded", "failed"}
                      /\ job[j].processed = Total
                      /\ job[j].total = Total

\* The stop request: a flag seen in time keeps the task away from the upload.
Stopping(j) ==
    /\ pc[j] \in {"cancelEarly", "cancelling"} => job[j].cancel
    /\ flagAt[j] = NotFlagged <=> ~job[j].cancel
    /\ flagAt[j] >= 0 => pc[j] \notin PastPoll /\ upload[j] = "idle"

\* What a terminal status, and the end of a task, imply.
Outcome(j) ==
    /\ job[j].status = "succeeded" => Uploaded(j) /\ job[j].file
    /\ job[j].status = "cancelled" => job[j].cancel
    /\ broken[j] => disturbed[j]
    /\ pc[j] \in Ended \cup {"closing"} /\ job[j].status \in ActiveStatuses =>
           disturbed[j]

JobInv(j) ==
    Phase(j) /\ Counting(j) /\ Publishing(j) /\ Stopping(j) /\ Outcome(j)

\* Ids on their way through a stop request belong to rows.
TellInv ==
    /\ \A s \in Stopper :
          /\ \A j \in todo[s] : job[j].status # "absent"
          /\ \A j \in reading[s] : /\ job[j].status # "absent"
                                   /\ ~Cancellable(job[j])
    /\ \A j \in Job : told[j] => job[j].cancel

\* The file holds uploads that were made.
ContentInv == \A f \in FileId : \A j \in content[f] \cap Job : Uploaded(j)

IInv == TypeOK /\ (\A j \in Job : JobInv(j)) /\ ContentInv

-----------------------------------------------------------------------------
\* Types

\* The folder part of a step is a folder step or none.
LEMMA FolderPart ==
  ASSUME [Next]_vars
  PROVE  [FolderNext]_folderVars
  <1> USE ExportAssumption
  <1>1. ASSUME NEW j \in Job, Trigger(j) \/ TaskStep(j)
        PROVE  [FolderNext]_folderVars
    <2>1. ASSUME NEW at, NEW next, Execute(j, at, next)
          PROVE  UNCHANGED folderVars
      BY <2>1 DEF Execute
    <2>2. CASE Checkpoint(j) \/ FailRaises(j)
      BY <2>2 DEF Checkpoint, FailRaises
    <2>3. CASE Find(j) \/ Upload(j) \/ WorkFails(j)
      BY <2>3 DEF Find, Upload, WorkFails, FolderNext
    <2> QED
      BY <1>1, <2>1, <2>2, <2>3
      DEF TaskStep, Trigger, Dispatch, Begin, CancelEarly, Start, Build,
          FirstReport, NextSeries, Poll, Report, Resolve, FinalPoll,
          FinalReport, Succeed, Cancel, CloseSession, Fail, PollFlag
  <1>2. ASSUME NEW j \in Job, DatabaseError(j) \/ Crash(j)
        PROVE  UNCHANGED folderVars
    BY <1>2 DEF DatabaseError, Crash
  <1>3. ASSUME NEW s \in Stopper, StopStep(s)
        PROVE  UNCHANGED folderVars
    BY <1>3 DEF StopStep, StopAll, StopOne, Flag, ReadBack, StopDies
  <1>4. ASSUME NEW w \in Writer, DirectExport(w)
        PROVE  FolderNext
    BY <1>4 DEF DirectExport, FolderNext
  <1>5. ASSUME NEW f \in FileId, TrashFile(f)
        PROVE  FolderNext
    BY <1>5 DEF TrashFile, FolderNext
  <1>6. CASE UNCHANGED vars
    BY <1>6 DEF vars
  <1> QED
    BY <1>1, <1>2, <1>3, <1>4, <1>5, <1>6 DEF Next

\* After an item the task goes on to one of three places, and the loop stays
\* below its total except at the end.
LEMMA AfterItemIn ==
  ASSUME NEW n
  PROVE  /\ AfterItem(n) \in {"finalPoll", "series", "item"}
         /\ AfterItem(n) = "finalPoll" <=> n = Total
  BY DEF AfterItem

\* A step of the job's own task keeps the types.
LEMMA TaskType ==
  ASSUME TypeOK, NEW j \in Job, JobInv(j), Trigger(j) \/ TaskStep(j)
  PROVE  TypeOK'
  <1> USE DEF Pcs, BeforeRun, InTry, Loop, PastPoll, Handlers, Ended
  <1>1. CASE Trigger(j) \/ Dispatch(j) \/ CancelEarly(j) \/ Start(j) \/ Build(j)
    BY <1>1, ExecuteType DEF Trigger, Dispatch, CancelEarly, Start, Build
  <1>2. CASE Begin(j) \/ NextSeries(j) \/ Poll(j) \/ FinalPoll(j)
    BY <1>2, ExecuteType DEF Begin, NextSeries, Poll, FinalPoll, PollFlag
  <1>3. CASE FirstReport(j) \/ Report(j) \/ FinalReport(j) \/ Succeed(j)
    BY <1>3, ExecuteType DEF FirstReport, Report, FinalReport, Succeed
  <1>4. CASE Cancel(j) \/ CloseSession(j) \/ Fail(j)
    BY <1>4, ExecuteType DEF Cancel, CloseSession, Fail
  <1>5. CASE Resolve(j)
    BY <1>5, ExecuteType, AfterItemIn DEF Resolve
  <1>6. CASE Checkpoint(j)
    <2>1. items[j] + 1 \in 0 .. Total
      BY <1>6, TotalPositive DEF Checkpoint, JobInv, Counting, TypeOK
    <2>2. items' \in [Job -> 0 .. Total]
      BY <1>6, <2>1 DEF Checkpoint, TypeOK
    <2> QED
      BY <1>6, <2>2
      DEF Checkpoint, TypeOK, Goto, FolderTypeOK, folderVars, stopVars, histVars
  <1>7. CASE Find(j) \/ Upload(j) \/ WorkFails(j) \/ FailRaises(j)
    <2>1. [FolderNext]_folderVars
      BY <1>7, ExportAssumption
      DEF Find, Upload, WorkFails, FailRaises, FolderNext
    <2>2. FolderTypeOK'
      BY <2>1, FolderStepType DEF TypeOK
    <2> QED
      BY <1>7, <2>2
      DEF TypeOK, Find, Upload, WorkFails, FailRaises, Goto, stopVars, histVars
  <1> QED
    BY <1>1, <1>2, <1>3, <1>4, <1>5, <1>6, <1>7 DEF TaskStep

\* So does a fault.
LEMMA FaultType ==
  ASSUME TypeOK, NEW j \in Job, DatabaseError(j) \/ Crash(j)
  PROVE  TypeOK'
  <1>1. faults + 1 \in 0 .. MaxFaults /\ faults' = faults + 1
    BY ExportAssumption DEF DatabaseError, Crash, TypeOK
  <1>2. FolderTypeOK'
    BY DEF DatabaseError, Crash, TypeOK, FolderTypeOK, folderVars
  <1>3. CASE DatabaseError(j)
    <2>1. job' \in [Job -> Row(0 .. Total)]
      <3>1. job[j] \in Row(0 .. Total) /\ pc[j] \in Pcs /\ items[j] \in 0 .. Total
        BY DEF TypeOK
      <3>2. Effect(pc[j], job[j], items[j]) \in Row(0 .. Total)
        BY <3>1, EffectType
      <3> QED
        BY <1>3, <3>2 DEF DatabaseError, TypeOK
    <2>2. OnDatabaseError(pc[j]) \in Pcs
      BY DEF OnDatabaseError, Pcs, Handlers, Ended
    <2>3. pc' \in [Job -> Pcs]
      BY <1>3, <2>2 DEF DatabaseError, TypeOK, Goto
    <2>4. broken' \in [Job -> BOOLEAN] /\ disturbed' \in [Job -> BOOLEAN]
      BY <1>3 DEF DatabaseError, TypeOK
    <2> QED
      BY <1>1, <1>2, <1>3, <2>1, <2>3, <2>4 DEF DatabaseError, TypeOK, stopVars
  <1>4. CASE Crash(j)
    BY <1>1, <1>2, <1>4 DEF Crash, TypeOK, Goto, Pcs, Ended, stopVars
  <1> QED
    BY <1>3, <1>4

\* So does a stop request.
LEMMA StopType ==
  ASSUME TypeOK, NEW s \in Stopper, StopStep(s)
  PROVE  TypeOK'
  <1>1. CASE StopAll(s)
    BY <1>1 DEF StopAll, ListActiveIds, TypeOK, FolderTypeOK, folderVars,
                runVars, histVars
  <1>2. ASSUME NEW j \in Job, StopOne(s, j)
        PROVE  TypeOK'
    BY <1>2 DEF StopOne, TypeOK, FolderTypeOK, folderVars, runVars, histVars
  <1>3. ASSUME NEW j \in Job, Flag(s, j)
        PROVE  TypeOK'
    <2>1. job' \in [Job -> Row(0 .. Total)]
      <3>1. 0 \in 0 .. Total /\ job[j] \in Row(0 .. Total)
        BY TotalPositive DEF TypeOK
      <3>2. RequestCancel(job[j]) \in Row(0 .. Total)
        BY <3>1, RowType
      <3> QED
        BY <1>3, <3>2 DEF Flag, TypeOK
    <2>2. flagAt' \in [Job -> {NotFlagged, TooLate} \cup 0 .. Total]
      BY <1>3 DEF Flag, TypeOK
    <2>3. todo' \in [Stopper -> SUBSET Job] /\ reading' \in [Stopper -> SUBSET Job]
      BY <1>3 DEF Flag, TypeOK
    <2> QED
      BY <1>3, <2>1, <2>2, <2>3
      DEF Flag, TypeOK, FolderTypeOK, folderVars, runVars
  <1>4. ASSUME NEW j \in Job, ReadBack(s, j)
        PROVE  TypeOK'
    BY <1>4 DEF ReadBack, TypeOK, FolderTypeOK, folderVars, runVars
  <1>5. CASE StopDies(s)
    BY <1>5, ExportAssumption
    DEF StopDies, TypeOK, FolderTypeOK, folderVars, runVars, histVars
  <1> QED
    BY <1>1, <1>2, <1>3, <1>4, <1>5 DEF StopStep

\* Every step keeps the types; the loop counter needs the invariant.
LEMMA TypeStep ==
  ASSUME TypeOK, \A j \in Job : JobInv(j), [Next]_vars
  PROVE  TypeOK'
  <1>1. ASSUME NEW w \in Writer, DirectExport(w)
        PROVE  TypeOK'
    <2>1. FolderTypeOK'
      BY FolderPart, FolderStepType DEF TypeOK
    <2> QED
      BY <1>1, <2>1 DEF DirectExport, TypeOK, runVars, stopVars, histVars
  <1>2. ASSUME NEW f \in FileId, TrashFile(f)
        PROVE  TypeOK'
    <2>1. FolderTypeOK'
      BY FolderPart, FolderStepType DEF TypeOK
    <2> QED
      BY <1>2, <2>1 DEF TrashFile, TypeOK, runVars, stopVars, histVars
  <1>3. CASE UNCHANGED vars
    BY <1>3 DEF vars, TypeOK, FolderTypeOK, folderVars, runVars, stopVars, histVars
  <1> QED
    BY <1>1, <1>2, <1>3, TaskType, FaultType, StopType DEF Next

-----------------------------------------------------------------------------
\* The job-by-job invariant

\* What a task statement changes of its own job, and that it leaves the other
\* jobs alone.
Same(k) ==
    /\ job'[k] = job[k]         /\ pc'[k] = pc[k]
    /\ items'[k] = items[k]     /\ broken'[k] = broken[k]
    /\ upload'[k] = upload[k]   /\ flagAt'[k] = flagAt[k]
    /\ disturbed'[k] = disturbed[k]

\* What a step may do to the promise of one job: nothing, or one action of
\* JobLifecycle.
Moves(j) ==
    LET from      == job[j].status
        to        == job'[j].status
        requested == job'[j].cancel <=> job[j].cancel
        published == Uploaded(j)' <=> Uploaded(j)
    IN  \/ to = from /\ requested /\ published
        \/ from = "absent" /\ to = "pending" /\ requested /\ published
        \/ from = "pending" /\ to = "running" /\ requested /\ published
        \/ /\ from \in ActiveStatuses /\ to = from /\ published
           /\ ~job[j].cancel /\ job'[j].cancel
        \/ /\ from = "running" /\ to = from /\ requested
           /\ ~Uploaded(j) /\ Uploaded(j)'
        \/ /\ from = "running" /\ to = "succeeded" /\ requested /\ published
           /\ Uploaded(j)
        \/ from = "running" /\ to = "failed" /\ requested /\ published
        \/ /\ from \in ActiveStatuses /\ to = "cancelled"
           /\ requested /\ published /\ job[j].cancel /\ ~Uploaded(j)

\* A job that a step leaves alone keeps its invariant and its promise.
LEMMA SameKeeps ==
  ASSUME NEW k \in Job, JobInv(k), Same(k)
  PROVE  JobInv(k)' /\ Moves(k)
  <1>1. JobInv(k)'
    BY DEF Same, JobInv, Phase, Counting, Publishing, Stopping, Outcome, Uploaded
  <1>2. Moves(k)
    BY DEF Same, Moves, Uploaded
  <1> QED
    BY <1>1, <1>2

\* A statement of one task writes its own row and nothing else.
LEMMA ExecuteLocal ==
  ASSUME TypeOK, NEW j \in Job, NEW at, NEW next, Execute(j, at, next)
  PROVE  /\ pc[j] = at
         /\ pc'[j] = next
         /\ job'[j] = Effect(at, job[j], items[j])
         /\ items' = items /\ broken' = broken /\ upload' = upload
         /\ flagAt' = flagAt /\ disturbed' = disturbed
         /\ \A k \in Job \ {j} : Same(k)
  BY DEF Execute, Goto, TypeOK, Same, folderVars, histVars

\* The statements that write the row, one by one; the others leave it alone.
LEMMA EffectAt ==
  ASSUME NEW row, NEW n
  PROVE  /\ Effect("none", row, n) = CreateRow
         /\ Effect("start", row, n) = MarkRunning(row)
         /\ Effect("cancelEarly", row, n) = MarkCancelled(row)
         /\ Effect("cancelling", row, n) = MarkCancelled(row)
         /\ Effect("firstReport", row, n) = UpdateProgress(row, n, Total)
         /\ Effect("report", row, n) = UpdateProgress(row, n, Total)
         /\ Effect("finalReport", row, n) = UpdateProgress(row, n, Total)
         /\ Effect("succeed", row, n) = MarkSucceeded(row)
         /\ Effect("failing", row, n) = MarkFailed(row)
         /\ \A at \in {"refresh", "begin", "build", "series", "poll", "resolve",
                       "finalPoll", "closing"} : Effect(at, row, n) = row
  BY DEF Effect

\* A step of the task keeps the invariant of its job.
LEMMA TaskInv ==
  ASSUME TypeOK, NEW j \in Job, JobInv(j), Trigger(j) \/ TaskStep(j)
  PROVE  JobInv(j)' /\ Moves(j)
  <1> USE DEF Moves, JobInv, Phase, Counting, Publishing, Stopping, Outcome, Uploaded,
              BeforeRun, Loop, PastPoll, Handlers, Ended, InTry, ActiveStatuses
  <1> DEFINE Kept == /\ items'[j] = items[j]   /\ broken'[j] = broken[j]
                     /\ upload'[j] = upload[j] /\ flagAt'[j] = flagAt[j]
                     /\ disturbed'[j] = disturbed[j]
  <1>1. ASSUME NEW at, NEW next, Execute(j, at, next)
        PROVE  /\ pc[j] = at /\ pc'[j] = next /\ Kept
               /\ job'[j] = Effect(at, job[j], items[j])
    BY <1>1, ExecuteLocal
  <1>t. /\ job[j] \in Row(0 .. Total) /\ items[j] \in 0 .. Total
        /\ pc[j] \in Pcs
        /\ flagAt[j] \in {NotFlagged, TooLate} \cup 0 .. Total
        /\ NotFlagged \in Int /\ NotFlagged < 0 /\ TooLate < 0
        /\ TooLate \in Int /\ Total \in Nat \ {0}
    BY TotalPositive DEF TypeOK, NotFlagged, TooLate
  <1>2. CASE Trigger(j)
    <2>1. /\ pc[j] = "none" /\ pc'[j] = "refresh" /\ Kept
          /\ job'[j] = [EmptyRow EXCEPT !.status = "pending"]
      BY <1>2, <1>1, EffectAt DEF Trigger, CreateRow
    <2> QED
      BY <2>1, <1>t DEF EmptyRow
  <1>3. CASE Dispatch(j) \/ Build(j) \/ CloseSession(j)
    <2>1. /\ <<pc[j], pc'[j]>> \in {<<"refresh", "begin">>,
                       <<"build", "firstReport">>, <<"closing", "done">>}
          /\ Kept /\ job'[j] = job[j]
      BY <1>3, <1>1, EffectAt DEF Dispatch, Build, CloseSession
    <2> QED
      BY <2>1, <1>t
  <1>4. CASE Begin(j) \/ NextSeries(j) \/ Poll(j) \/ FinalPoll(j)
    <2>1. /\ Kept /\ job'[j] = job[j]
          /\ \/ /\ job[j].cancel
                /\ <<pc[j], pc'[j]>> \in {<<"begin", "cancelEarly">>,
                       <<"series", "cancelling">>, <<"poll", "cancelling">>,
                       <<"finalPoll", "cancelling">>}
             \/ /\ ~job[j].cancel
                /\ <<pc[j], pc'[j]>> \in {<<"begin", "start">>,
                       <<"series", "item">>, <<"poll", "report">>,
                       <<"finalPoll", "finalReport">>}
      BY <1>4, <1>1, EffectAt
      DEF Begin, NextSeries, Poll, FinalPoll, PollFlag, IsCancelRequested
    <2> QED
      BY <2>1, <1>t
  <1>5. CASE CancelEarly(j) \/ Cancel(j)
    <2>1. /\ pc[j] \in {"cancelEarly", "cancelling"} /\ pc'[j] = "closing"
          /\ Kept /\ job'[j] = [job[j] EXCEPT !.status = "cancelled"]
      BY <1>5, <1>1, EffectAt DEF CancelEarly, Cancel, MarkCancelled
    <2> QED
      BY <2>1, <1>t DEF Row
  <1>6. CASE Start(j)
    <2>1. /\ pc[j] = "start" /\ pc'[j] = "build" /\ Kept
          /\ job'[j] = [job[j] EXCEPT !.status = "running"]
      BY <1>6, <1>1, EffectAt DEF Start, MarkRunning
    <2> QED
      BY <2>1, <1>t DEF Row
  <1>7. CASE FirstReport(j) \/ Report(j) \/ FinalReport(j)
    <2>1. /\ <<pc[j], pc'[j]>> \in {<<"firstReport", "series">>,
                       <<"report", "resolve">>, <<"finalReport", "find">>}
          /\ Kept /\ job'[j] = UpdateProgress(job[j], items[j], Total)
      BY <1>7, <1>1, EffectAt DEF FirstReport, Report, FinalReport
    <2> QED
      BY <2>1, <1>t DEF Row, UpdateProgress
  <1>8. CASE Resolve(j)
    <2>1. /\ pc[j] = "resolve" /\ Kept /\ job'[j] = job[j]
          /\ pc'[j] \in {"finalPoll", "series", "item"}
          /\ pc'[j] = "finalPoll" <=> items[j] = Total
      BY <1>8, <1>1, EffectAt, AfterItemIn DEF Resolve
    <2> QED
      BY <2>1, <1>t
  <1>9. CASE Checkpoint(j)
    <2>1. /\ pc[j] = "item" /\ pc'[j] \in {"poll", "resolve"}
          /\ items'[j] = items[j] + 1 /\ broken'[j] = broken[j]
          /\ upload'[j] = upload[j] /\ flagAt'[j] = flagAt[j]
          /\ disturbed'[j] = disturbed[j] /\ job'[j] = job[j]
      BY <1>9 DEF Checkpoint, Goto, TypeOK, folderVars, histVars
    <2> QED
      BY <2>1, <1>t DEF Row
  <1>10. CASE Succeed(j)
    <2>1. /\ pc[j] = "succeed" /\ pc'[j] = "closing" /\ Kept
          /\ job'[j] = MarkSucceeded(job[j])
      BY <1>10, <1>1, EffectAt DEF Succeed
    <2> QED
      BY <2>1, <1>t DEF Row, MarkSucceeded
  <1>11. CASE Fail(j)
    <2>1. /\ pc[j] = "failing" /\ pc'[j] = "closing" /\ Kept
          /\ job'[j] = [job[j] EXCEPT !.status = "failed"]
      BY <1>11, <1>1, EffectAt DEF Fail, MarkFailed
    <2> QED
      BY <2>1, <1>t DEF Row
  <1>12. CASE FailRaises(j)
    <2>1. /\ pc[j] = "failing" /\ pc'[j] = "closing" /\ Kept
          /\ job'[j] = job[j] /\ broken[j]
      BY <1>12 DEF FailRaises, Goto, TypeOK, folderVars, histVars
    <2> QED
      BY <2>1, <1>t
  <1>13. CASE Find(j) \/ Upload(j) \/ WorkFails(j)
    <2>1. /\ items'[j] = items[j] /\ broken'[j] = broken[j]
          /\ flagAt'[j] = flagAt[j] /\ disturbed'[j] = disturbed[j]
          /\ job'[j] = job[j]
      BY <1>13 DEF Find, Upload, WorkFails, histVars
    <2>2. \/ pc[j] = "find" /\ pc'[j] = "store" /\ upload'[j] = "found"
          \/ pc[j] = "store" /\ pc'[j] = "succeed" /\ upload'[j] = "stored"
          \/ /\ pc[j] \in {"build", "resolve", "find", "store"}
             /\ pc'[j] = "failing" /\ upload'[j] = upload[j]
          \/ pc[j] = "store" /\ pc'[j] = "failing" /\ upload'[j] = "stored"
      BY <1>13, ExportAssumption
      DEF Find, Upload, WorkFails, Goto, TypeOK, FolderTypeOK, folderVars,
          FindExistingFileId, Store
    <2> QED
      BY <2>1, <2>2, <1>t
  <1> QED
    BY <1>2, <1>3, <1>4, <1>5, <1>6, <1>7, <1>8, <1>9, <1>10, <1>11, <1>12,
       <1>13
    DEF TaskStep

\* Every step of one job's task leaves the other jobs alone.
LEMMA TaskSame ==
  ASSUME TypeOK, NEW j \in Job, NEW k \in Job \ {j}, Trigger(j) \/ TaskStep(j)
  PROVE  Same(k)
  <1>1. ASSUME NEW at, NEW next, Execute(j, at, next)
        PROVE  Same(k)
    BY <1>1, ExecuteLocal
  <1>2. CASE Checkpoint(j) \/ FailRaises(j)
    BY <1>2 DEF Checkpoint, FailRaises, Same, Goto, TypeOK, folderVars, histVars
  <1>3. CASE Find(j) \/ Upload(j) \/ WorkFails(j)
    BY <1>3, ExportAssumption
    DEF Find, Upload, WorkFails, Same, Goto, TypeOK, FolderTypeOK, folderVars,
        histVars, FindExistingFileId, Store
  <1> QED
    BY <1>1, <1>2, <1>3
    DEF TaskStep, Trigger, Dispatch, Begin, CancelEarly, Start, Build,
        FirstReport, NextSeries, Poll, Report, Resolve, FinalPoll,
        FinalReport, Succeed, Cancel, CloseSession, Fail, PollFlag

\* A fault of one job keeps the invariant of every job.
LEMMA FaultInv ==
  ASSUME TypeOK, NEW j \in Job, DatabaseError(j) \/ Crash(j),
         NEW k \in Job, JobInv(k)
  PROVE  JobInv(k)' /\ Moves(k)
  <1>1. CASE k # j
    <2>1. Same(k)
      BY <1>1 DEF DatabaseError, Crash, Same, Goto, TypeOK, folderVars
    <2> QED
      BY <2>1, SameKeeps
  <1>2. CASE k = j
    <2> USE DEF Moves, JobInv, Phase, Counting, Publishing, Stopping, Outcome,
                Uploaded, BeforeRun, Loop, PastPoll, Handlers, Ended, InTry,
                ActiveStatuses
    <2>1. /\ job[j] \in Row(0 .. Total) /\ items[j] \in 0 .. Total
          /\ pc[j] \in Pcs
          /\ flagAt[j] \in {NotFlagged, TooLate} \cup 0 .. Total
          /\ NotFlagged \in Int /\ NotFlagged < 0 /\ TooLate < 0
          /\ TooLate \in Int /\ Total \in Nat \ {0}
      BY TotalPositive DEF TypeOK, NotFlagged, TooLate
    <2>2. /\ items'[j] = items[j] /\ upload'[j] = upload[j]
          /\ flagAt'[j] = flagAt[j] /\ disturbed'[j] = TRUE
      BY DEF DatabaseError, Crash, TypeOK, folderVars
    <2>3. CASE Crash(j)
      <3>1. pc'[j] = "dead" /\ job'[j] = job[j]
        BY <2>3 DEF Crash, Goto, TypeOK
      <3> QED
        BY <3>1, <2>1, <2>2, <1>2
    <2>4. CASE DatabaseError(j)
      <3>1. /\ pc'[j] = OnDatabaseError(pc[j])
            /\ \/ job'[j] = job[j]
               \/ job'[j] = Effect(pc[j], job[j], items[j])
            /\ pc[j] \notin {"done", "dead", "item", "find", "store"}
        BY <2>4 DEF DatabaseError, Goto, TypeOK
      <3>2. CASE pc[j] \in InTry
        <4>1. pc'[j] = "failing"
          BY <3>1, <3>2 DEF OnDatabaseError
        <4>2. upload[j] = "idle"
          BY <3>1, <3>2, <1>2
        <4>3. CASE job'[j] = job[j]
          BY <4>1, <4>2, <4>3, <3>2, <2>1, <2>2, <1>2
        <4>4. CASE job'[j] = UpdateProgress(job[j], items[j], Total)
          <5>1. /\ job'[j].status = "running"
                /\ job'[j].cancel = job[j].cancel
                /\ job'[j].processed = items[j]
            BY <4>4, <3>2, <2>1, <1>2 DEF Row, UpdateProgress
          <5> QED
            BY <5>1, <4>1, <4>2, <3>2, <2>1, <2>2, <1>2
        <4> QED
          BY <3>1, <3>2, <4>3, <4>4, EffectAt
      <3>3. CASE pc[j] \in {"none", "refresh"}
        <4>1. pc'[j] = "dead"
          BY <3>1, <3>3 DEF OnDatabaseError
        <4>2. CASE job'[j] = job[j]
          BY <4>1, <4>2, <3>3, <2>1, <2>2, <1>2 DEF EmptyRow
        <4>3. CASE /\ pc[j] = "none"
                   /\ job'[j] = [EmptyRow EXCEPT !.status = "pending"]
          BY <4>1, <4>3, <2>1, <2>2, <1>2 DEF EmptyRow
        <4> QED
          BY <3>1, <3>3, <4>2, <4>3, EffectAt DEF CreateRow
      <3>4. CASE pc[j] \in {"begin", "closing"}
        <4>1. pc'[j] \in {"closing", "done"} /\ job'[j] = job[j]
          BY <3>1, <3>4, EffectAt DEF OnDatabaseError
        <4> QED
          BY <4>1, <3>4, <2>1, <2>2, <1>2
      <3>5. CASE pc[j] \in {"start", "cancelEarly", "cancelling", "succeed",
                            "failing"}
        <4>1. pc'[j] = "closing"
          BY <3>1, <3>5 DEF OnDatabaseError
        <4>2. CASE job'[j] = job[j]
          BY <4>1, <4>2, <3>5, <2>1, <2>2, <1>2
        <4>3. CASE pc[j] = "start" /\ job'[j] = MarkRunning(job[j])
          BY <4>1, <4>3, <2>1, <2>2, <1>2 DEF Row, MarkRunning
        <4>4. CASE /\ pc[j] \in {"cancelEarly", "cancelling"}
                   /\ job'[j] = MarkCancelled(job[j])
          BY <4>1, <4>4, <2>1, <2>2, <1>2 DEF Row, MarkCancelled
        <4>5. CASE pc[j] = "succeed" /\ job'[j] = MarkSucceeded(job[j])
          BY <4>1, <4>5, <2>1, <2>2, <1>2 DEF Row, MarkSucceeded
        <4>6. CASE pc[j] = "failing" /\ job'[j] = MarkFailed(job[j])
          BY <4>1, <4>6, <2>1, <2>2, <1>2 DEF Row, MarkFailed
        <4> QED
          BY <3>1, <3>5, <4>2, <4>3, <4>4, <4>5, <4>6, EffectAt
      <3> QED
        BY <2>1, <3>1, <3>2, <3>3, <3>4, <3>5 DEF Pcs
    <2> QED
      BY <2>3, <2>4
  <1> QED
    BY <1>1, <1>2

\* A stop request keeps the invariant of every job.
LEMMA StopInv ==
  ASSUME TypeOK, NEW s \in Stopper, StopStep(s), NEW k \in Job, JobInv(k)
  PROVE  JobInv(k)' /\ Moves(k)
  <1>1. ASSUME ~(\E j \in Job : Flag(s, j))
        PROVE  Same(k)
    BY <1>1
    DEF StopStep, StopAll, StopOne, ReadBack, StopDies, Same, folderVars,
        runVars, histVars
  <1>2. ASSUME NEW j \in Job, Flag(s, j), k # j
        PROVE  Same(k)
    BY <1>2 DEF Flag, Same, TypeOK, folderVars, runVars
  <1>3. ASSUME Flag(s, k)
        PROVE  JobInv(k)' /\ Moves(k)
    <2>1. /\ job[k] \in Row(0 .. Total) /\ items[k] \in 0 .. Total
          /\ pc[k] \in Pcs
          /\ NotFlagged = -1 /\ TooLate = -2
      BY DEF TypeOK, NotFlagged, TooLate
    <2>2. /\ pc'[k] = pc[k] /\ items'[k] = items[k] /\ broken'[k] = broken[k]
          /\ upload'[k] = upload[k] /\ disturbed'[k] = disturbed[k]
      BY <1>3 DEF Flag, folderVars, runVars
    <2>3. CASE ~Cancellable(job[k])
      <3>1. job'[k] = job[k] /\ flagAt'[k] = flagAt[k]
        BY <1>3, <2>3 DEF Flag, RequestCancel, TypeOK
      <3> QED
        BY <2>2, <3>1, SameKeeps DEF Same
    <2>4. CASE Cancellable(job[k])
      <3>1. /\ job'[k] = [job[k] EXCEPT !.cancel = TRUE]
            /\ flagAt'[k] = IF pc[k] \in Polls THEN items[k] ELSE TooLate
        BY <1>3, <2>4 DEF Flag, RequestCancel, TypeOK
      <3>2. job[k].status \in ActiveStatuses /\ ~job[k].cancel
        BY <2>4 DEF Cancellable
      <3> QED
        BY <2>1, <2>2, <3>1, <3>2
        DEF Moves, JobInv, Phase, Counting, Publishing, Stopping, Outcome, Uploaded,
            BeforeRun, Loop, PastPoll, Handlers, Ended, InTry, ActiveStatuses,
            Polls, Row, EmptyRow
    <2> QED
      BY <2>3, <2>4
  <1> QED
    BY <1>1, <1>2, <1>3, SameKeeps

\* So does every step of the system.
LEMMA JobStep ==
  ASSUME TypeOK, \A j \in Job : JobInv(j), [Next]_vars
  PROVE  \A j \in Job : JobInv(j)' /\ Moves(j)
  <1> SUFFICES ASSUME NEW k \in Job PROVE JobInv(k)' /\ Moves(k)
    OBVIOUS
  <1>1. ASSUME NEW j \in Job, Trigger(j) \/ TaskStep(j)
        PROVE  JobInv(k)' /\ Moves(k)
    BY <1>1, TaskInv, TaskSame, SameKeeps
  <1>2. ASSUME NEW w \in Writer, DirectExport(w)
        PROVE  Same(k)
    BY <1>2, ExportAssumption
    DEF DirectExport, Same, runVars, histVars, TypeOK, FolderTypeOK,
        FindExistingFileId, Store, ExportAgain
  <1>3. ASSUME NEW f \in FileId, TrashFile(f)
        PROVE  Same(k)
    BY <1>3 DEF TrashFile, Trash, Same, runVars, histVars
  <1>4. CASE UNCHANGED vars
    BY <1>4, SameKeeps DEF vars, Same, folderVars, runVars, histVars
  <1> QED
    BY <1>1, <1>2, <1>3, <1>4, FaultInv, StopInv, SameKeeps DEF Next

-----------------------------------------------------------------------------
\* The file, and the answers to stop requests

\* A job uploads once: what is stored stays stored.
LEMMA UploadStays ==
  ASSUME TypeOK, [Next]_vars, NEW j \in Job, Uploaded(j)
  PROVE  Uploaded(j)'
  <1> USE ExportAssumption DEF Uploaded, TypeOK, FolderTypeOK
  <1>1. ASSUME NEW k \in Job, Trigger(k) \/ TaskStep(k)
        PROVE  Uploaded(j)'
    <2>1. ASSUME NEW at, NEW next, Execute(k, at, next)
          PROVE  upload' = upload
      BY <2>1 DEF Execute, folderVars
    <2>2. CASE Checkpoint(k) \/ FailRaises(k)
      BY <2>2 DEF Checkpoint, FailRaises, folderVars
    <2>3. CASE Find(k) \/ Upload(k) \/ WorkFails(k)
      BY <2>3
      DEF Find, Upload, WorkFails, folderVars, FindExistingFileId, Store
    <2> QED
      BY <1>1, <2>1, <2>2, <2>3
      DEF TaskStep, Trigger, Dispatch, Begin, CancelEarly, Start, Build,
          FirstReport, NextSeries, Poll, Report, Resolve, FinalPoll,
          FinalReport, Succeed, Cancel, CloseSession, Fail, PollFlag
  <1>2. ASSUME NEW k \in Job, DatabaseError(k) \/ Crash(k)
        PROVE  Uploaded(j)'
    BY <1>2 DEF DatabaseError, Crash, folderVars
  <1>3. ASSUME NEW s \in Stopper, StopStep(s)
        PROVE  Uploaded(j)'
    BY <1>3 DEF StopStep, StopAll, StopOne, Flag, ReadBack, StopDies, folderVars
  <1>4. ASSUME NEW w \in Writer, DirectExport(w)
        PROVE  Uploaded(j)'
    BY <1>4 DEF DirectExport, FindExistingFileId, Store, ExportAgain
  <1>5. ASSUME NEW f \in FileId, TrashFile(f)
        PROVE  Uploaded(j)'
    BY <1>5 DEF TrashFile, Trash
  <1>6. CASE UNCHANGED vars
    BY <1>6 DEF vars, folderVars
  <1> QED
    BY <1>1, <1>2, <1>3, <1>4, <1>5, <1>6 DEF Next

\* Whatever the file holds after a step was there before or has just been
\* uploaded.
LEMMA ContentStep ==
  ASSUME TypeOK, ContentInv, [Next]_vars
  PROVE  ContentInv'
  <1> SUFFICES ASSUME NEW f \in FileId, NEW j \in content'[f] \cap Job
               PROVE  Uploaded(j)'
    BY DEF ContentInv
  <1>1. CASE j \in content[f]
    BY <1>1, UploadStays DEF ContentInv
  <1>2. CASE j \notin content[f]
    <2>1. \E w \in Writer : Store(w) /\ content'[f] = {w}
      BY <1>2, FolderPart
      DEF FolderNext, FindExistingFileId, Store, UpdateFile, CreateFile,
          ExportAgain, Trash, folderVars, TypeOK, FolderTypeOK
    <2> QED
      BY <2>1 DEF Store, Uploaded, TypeOK, FolderTypeOK
  <1> QED
    BY <1>1, <1>2

-----------------------------------------------------------------------------
\* The implementation of JobLifecycle

\* A step moves at most one job.
LEMMA OneJobMoves ==
  ASSUME TypeOK, [Next]_vars, NEW j \in Job, NEW k \in Job \ {j}
  PROVE  Same(j) \/ Same(k)
  <1>1. ASSUME NEW i \in Job, Trigger(i) \/ TaskStep(i)
        PROVE  Same(j) \/ Same(k)
    BY <1>1, TaskSame
  <1>2. ASSUME NEW i \in Job, DatabaseError(i) \/ Crash(i)
        PROVE  Same(j) \/ Same(k)
    BY <1>2 DEF DatabaseError, Crash, Same, Goto, TypeOK, folderVars
  <1>3. ASSUME NEW s \in Stopper, StopStep(s)
        PROVE  Same(j) \/ Same(k)
    <2>1. CASE \E i \in Job : Flag(s, i)
      BY <2>1 DEF Flag, Same, TypeOK, folderVars, runVars
    <2>2. CASE ~(\E i \in Job : Flag(s, i))
      BY <1>3, <2>2
      DEF StopStep, StopAll, StopOne, ReadBack, StopDies, Same, folderVars,
          runVars, histVars
    <2> QED
      BY <2>1, <2>2
  <1>4. ASSUME NEW w \in Writer, DirectExport(w)
        PROVE  Same(j)
    BY <1>4, ExportAssumption
    DEF DirectExport, Same, runVars, histVars, TypeOK, FolderTypeOK,
        FindExistingFileId, Store, ExportAgain
  <1>5. ASSUME NEW f \in FileId, TrashFile(f)
        PROVE  Same(j)
    BY <1>5 DEF TrashFile, Trash, Same, runVars, histVars
  <1>6. CASE UNCHANGED vars
    BY <1>6 DEF vars, Same, folderVars, runVars, histVars
  <1> QED
    BY <1>1, <1>2, <1>3, <1>4, <1>5, <1>6 DEF Next

\* Every step of the jobs is a step of the lifecycle or a stutter.
LEMMA LifecycleStep ==
  ASSUME TypeOK, \A j \in Job : JobInv(j), [Next]_vars
  PROVE  [Lifecycle!Next]_Lifecycle!vars
  <1> DEFINE status    == [j \in Job |-> job[j].status]
             requested == [j \in Job |-> job[j].cancel]
             published == [j \in Job |-> Uploaded(j)]
  <1>1. CASE \A j \in Job : Same(j)
    <2>1. status' = status /\ requested' = requested /\ published' = published
      BY <1>1 DEF Same, Uploaded
    <2> QED
      BY <2>1 DEF Lifecycle!vars
  <1>2. ASSUME NEW j \in Job, ~Same(j)
        PROVE  [Lifecycle!Next]_Lifecycle!vars
    <2>1. \A k \in Job \ {j} : Same(k)
      BY <1>2, OneJobMoves
    <2>2. \A k \in Job \ {j} : /\ status'[k] = status[k]
                               /\ requested'[k] = requested[k]
                               /\ published'[k] = published[k]
      BY <2>1 DEF Same, Uploaded
    <2>3. Moves(j)
      BY JobStep
    <2>4. /\ job[j].cancel \in BOOLEAN /\ job'[j].cancel \in BOOLEAN
          /\ Uploaded(j) \in BOOLEAN /\ Uploaded(j)' \in BOOLEAN
      BY TypeStep DEF TypeOK, Row, Uploaded
    <2>5. /\ status' = [status EXCEPT ![j] = job'[j].status]
          /\ requested' = [requested EXCEPT ![j] = job'[j].cancel]
          /\ published' = [published EXCEPT ![j] = Uploaded(j)']
      BY <2>2
    <2>6. job'[j].status = job[j].status => status' = status
      BY <2>5
    <2>7. (job'[j].cancel <=> job[j].cancel) => requested' = requested
      BY <2>4, <2>5
    <2>8. (Uploaded(j)' <=> Uploaded(j)) => published' = published
      BY <2>4, <2>5
    <2> USE DEF Lifecycle!Next, Lifecycle!Move
    <2> QED
      <3>1. CASE /\ job'[j].status = job[j].status
                 /\ job'[j].cancel <=> job[j].cancel
                 /\ Uploaded(j)' <=> Uploaded(j)
        BY <3>1, <2>6, <2>7, <2>8 DEF Lifecycle!vars
      <3>2. CASE /\ job[j].status = "absent" /\ job'[j].status = "pending"
                 /\ job'[j].cancel <=> job[j].cancel
                 /\ Uploaded(j)' <=> Uploaded(j)
        <4> Lifecycle!Create(j)
          BY <3>2, <2>5, <2>7, <2>8 DEF Lifecycle!Create
        <4> QED
          OBVIOUS
      <3>3. CASE /\ job[j].status = "pending" /\ job'[j].status = "running"
                 /\ job'[j].cancel <=> job[j].cancel
                 /\ Uploaded(j)' <=> Uploaded(j)
        <4> Lifecycle!Start(j)
          BY <3>3, <2>5, <2>7, <2>8 DEF Lifecycle!Start
        <4> QED
          OBVIOUS
      <3>4. CASE /\ job[j].status \in ActiveStatuses
                 /\ job'[j].status = job[j].status
                 /\ Uploaded(j)' <=> Uploaded(j)
                 /\ ~job[j].cancel /\ job'[j].cancel
        <4> Lifecycle!RequestStop(j)
          BY <3>4, <2>4, <2>5, <2>6, <2>8
          DEF Lifecycle!RequestStop, Lifecycle!Active, ActiveStatuses
        <4> QED
          OBVIOUS
      <3>5. CASE /\ job[j].status = "running" /\ job'[j].status = job[j].status
                 /\ job'[j].cancel <=> job[j].cancel
                 /\ ~Uploaded(j) /\ Uploaded(j)'
        <4> Lifecycle!Publish(j)
          BY <3>5, <2>4, <2>5, <2>6, <2>7 DEF Lifecycle!Publish
        <4> QED
          OBVIOUS
      <3>6. CASE /\ job[j].status = "running" /\ job'[j].status = "succeeded"
                 /\ job'[j].cancel <=> job[j].cancel
                 /\ Uploaded(j)' <=> Uploaded(j)
                 /\ Uploaded(j)
        <4> Lifecycle!Succeed(j)
          BY <3>6, <2>5, <2>7, <2>8 DEF Lifecycle!Succeed
        <4> QED
          OBVIOUS
      <3>7. CASE /\ job[j].status = "running" /\ job'[j].status = "failed"
                 /\ job'[j].cancel <=> job[j].cancel
                 /\ Uploaded(j)' <=> Uploaded(j)
        <4> Lifecycle!Fail(j)
          BY <3>7, <2>5, <2>7, <2>8 DEF Lifecycle!Fail
        <4> QED
          OBVIOUS
      <3>8. CASE /\ job[j].status \in ActiveStatuses
                 /\ job'[j].status = "cancelled"
                 /\ job'[j].cancel <=> job[j].cancel
                 /\ Uploaded(j)' <=> Uploaded(j)
                 /\ job[j].cancel /\ ~Uploaded(j)
        <4> Lifecycle!Cancel(j)
          BY <3>8, <2>5, <2>7, <2>8
          DEF Lifecycle!Cancel, Lifecycle!Active, ActiveStatuses
        <4> QED
          OBVIOUS
      <3> QED
        BY <2>3, <3>1, <3>2, <3>3, <3>4, <3>5, <3>6, <3>7, <3>8 DEF Moves
  <1> QED
    BY <1>1, <1>2

\* The task of a row that has ended is past all its statements but one, and a
\* stop request finds nothing to stop.
LEMMA FinalStep ==
  ASSUME TypeOK, [Next]_vars, NEW j \in Job, JobInv(j),
         job[j].status \in TerminalStatuses
  PROVE  job'[j] = job[j] /\ upload'[j] = upload[j]
  <1>1. pc[j] \in {"closing", "done", "dead"}
    <2>1. job[j].status \notin {"absent", "pending", "running"}
      BY DEF TerminalStatuses
    <2>2. job[j] # EmptyRow
      BY <2>1 DEF EmptyRow
    <2>3. pc[j] \in Pcs
      BY DEF TypeOK
    <2> QED
      BY <2>1, <2>2, <2>3
      DEF JobInv, Phase, Pcs, BeforeRun, InTry, Loop, PastPoll, Handlers, Ended
  <1>2. ASSUME NEW k \in Job, Trigger(k) \/ TaskStep(k)
        PROVE  job'[j] = job[j] /\ upload'[j] = upload[j]
    <2>1. CASE k # j
      BY <1>2, <2>1, TaskSame DEF Same
    <2>2. CASE k = j
      <3>1. CloseSession(j)
        BY <1>1, <1>2, <2>2
        DEF TaskStep, Trigger, Dispatch, Begin, CancelEarly, Start, Build,
            FirstReport, NextSeries, Checkpoint, Poll, Report, Resolve,
            FinalPoll, FinalReport, Find, Upload, Succeed, Cancel, Fail,
            FailRaises, WorkFails, PollFlag, Execute
      <3> QED
        BY <3>1, ExecuteLocal, EffectAt DEF CloseSession
    <2> QED
      BY <2>1, <2>2
  <1>3. ASSUME NEW k \in Job, DatabaseError(k) \/ Crash(k)
        PROVE  job'[j] = job[j] /\ upload'[j] = upload[j]
    <2>1. k = j /\ DatabaseError(k) => Effect(pc[j], job[j], items[j]) = job[j]
      BY <1>1, EffectAt DEF DatabaseError, Ended
    <2> QED
      BY <1>3, <2>1 DEF DatabaseError, Crash, TypeOK, folderVars
  <1>4. ASSUME NEW s \in Stopper, StopStep(s)
        PROVE  job'[j] = job[j] /\ upload'[j] = upload[j]
    <2>1. ~ Cancellable(job[j])
      BY DEF Cancellable, ActiveStatuses, TerminalStatuses
    <2>2. CASE \E k \in Job : Flag(s, k)
      BY <2>1, <2>2 DEF Flag, RequestCancel, TypeOK, folderVars
    <2>3. CASE ~ (\E k \in Job : Flag(s, k))
      BY <1>4, <2>3 DEF StopStep, StopAll, StopOne, ReadBack, StopDies, folderVars
    <2> QED
      BY <2>2, <2>3
  <1>5. ASSUME NEW w \in Writer, DirectExport(w)
        PROVE  job'[j] = job[j] /\ upload'[j] = upload[j]
    BY <1>5, ExportAssumption
    DEF DirectExport, TypeOK, FolderTypeOK, FindExistingFileId, Store, ExportAgain
  <1>6. ASSUME NEW f \in FileId, TrashFile(f)
        PROVE  job'[j] = job[j] /\ upload'[j] = upload[j]
    BY <1>6 DEF TrashFile, Trash
  <1>7. CASE UNCHANGED vars
    BY <1>7 DEF vars, folderVars
  <1> QED
    BY <1>2, <1>3, <1>4, <1>5, <1>6, <1>7 DEF Next

\* A row stays a row, a request stays recorded, and a row that cannot be
\* cancelled any more stays so.
LEMMA RowStays ==
  ASSUME TypeOK, \A j \in Job : JobInv(j), [Next]_vars, NEW k \in Job
  PROVE  /\ job[k].cancel => job'[k].cancel
         /\ job[k].status # "absent" => job'[k].status # "absent"
         /\ job[k].status # "absent" /\ ~Cancellable(job[k]) =>
                ~Cancellable(job'[k])
  <1>1. Moves(k)
    BY JobStep
  <1> QED
    BY <1>1 DEF Moves, Cancellable, ActiveStatuses

\* What a stop request knows of a row stays true, if ids are not guessed.
LEMMA TellStep ==
  ASSUME TypeOK, \A j \in Job : JobInv(j), TellInv, ~GuessIds, [Next]_vars
  PROVE  TellInv'
  <1>1. CASE UNCHANGED <<todo, reading, told>>
    BY <1>1, RowStays DEF TellInv, TypeOK
  <1>2. ASSUME NEW s \in Stopper, StopAll(s)
        PROVE  TellInv'
    BY <1>2 DEF StopAll, ListActiveIds, ActiveStatuses, TellInv, TypeOK, histVars
  <1>3. ASSUME NEW s \in Stopper, NEW j \in Job, StopOne(s, j)
        PROVE  TellInv'
    BY <1>3 DEF StopOne, TellInv, TypeOK, histVars
  <1>4. ASSUME NEW s \in Stopper, NEW j \in Job, Flag(s, j)
        PROVE  TellInv'
    <2>1. /\ j \in todo[s] /\ job'[j] = RequestCancel(job[j])
          /\ todo' = [todo EXCEPT ![s] = @ \ {j}]
          /\ reading' = [reading EXCEPT ![s] = {j}] /\ told' = told
      BY <1>4 DEF Flag, TypeOK
    <2>2. ~Cancellable(job'[j])
      BY <2>1 DEF RequestCancel, Cancellable, TypeOK, Row
    <2>3. job'[j].status # "absent"
      BY <2>1, RowStays DEF TellInv
    <2> QED
      BY <2>1, <2>2, <2>3, RowStays DEF TellInv, TypeOK
  <1>5. ASSUME NEW s \in Stopper, NEW j \in Job, ReadBack(s, j)
        PROVE  TellInv'
    BY <1>5 DEF ReadBack, Cancellable, TellInv, TypeOK
  <1>6. ASSUME NEW s \in Stopper, StopDies(s)
        PROVE  TellInv'
    BY <1>6 DEF StopDies, TellInv, TypeOK, histVars
  <1>7. CASE UNCHANGED vars
    BY <1>1, <1>7 DEF vars, stopVars, histVars
  <1>8. ASSUME NEW j \in Job,
               Trigger(j) \/ TaskStep(j) \/ DatabaseError(j) \/ Crash(j)
        PROVE  UNCHANGED <<todo, reading, told>>
    <2>1. ASSUME NEW at, NEW next, Execute(j, at, next)
          PROVE  UNCHANGED <<todo, reading, told>>
      BY <2>1 DEF Execute, stopVars, histVars
    <2>2. CASE Checkpoint(j) \/ FailRaises(j) \/ DatabaseError(j) \/ Crash(j)
      BY <2>2
      DEF Checkpoint, FailRaises, DatabaseError, Crash, stopVars, histVars
    <2>3. CASE Find(j) \/ Upload(j) \/ WorkFails(j)
      BY <2>3 DEF Find, Upload, WorkFails, stopVars, histVars
    <2> QED
      BY <1>8, <2>1, <2>2, <2>3
      DEF TaskStep, Trigger, Dispatch, Begin, CancelEarly, Start, Build,
          FirstReport, NextSeries, Poll, Report, Resolve, FinalPoll,
          FinalReport, Succeed, Cancel, CloseSession, Fail, PollFlag
  <1>9. ASSUME (\E w \in Writer : DirectExport(w)) \/ (\E f \in FileId : TrashFile(f))
        PROVE  UNCHANGED <<todo, reading, told>>
    BY <1>9 DEF DirectExport, TrashFile, stopVars, histVars
  <1> QED
    BY <1>1, <1>2, <1>3, <1>4, <1>5, <1>6, <1>7, <1>8, <1>9 DEF Next, StopStep

-----------------------------------------------------------------------------
\* The theorems

\* The initial state satisfies the invariant.
LEMMA InitInv == Init => IInv /\ TellInv
  <1> SUFFICES ASSUME Init PROVE IInv /\ TellInv
    OBVIOUS
  <1>1. EmptyRow \in Row(0 .. Total) /\ 0 \in 0 .. Total
    BY TotalPositive DEF EmptyRow, Row, NoTotal, Statuses
  <1>2. TypeOK
    BY <1>1, FolderInitType, ExportAssumption
    DEF Init, TableInit, TypeOK, Pcs, NotFlagged
  <1>3. ASSUME NEW j \in Job
        PROVE  JobInv(j)
    <2>1. /\ pc[j] = "none" /\ job[j] = EmptyRow /\ items[j] = 0
          /\ upload[j] = "idle" /\ flagAt[j] = -1 /\ ~broken[j]
      BY ExportAssumption DEF Init, TableInit, FolderInit, NotFlagged
    <2> QED
      BY <2>1
      DEF JobInv, Phase, Counting, Publishing, Stopping, Outcome, Uploaded,
          BeforeRun, InTry, Loop, PastPoll, Handlers, Ended, ActiveStatuses,
          EmptyRow, NotFlagged
  <1>4. ContentInv
    BY DEF Init, FolderInit, ContentInv
  <1>5. TellInv
    BY DEF Init, TellInv
  <1> QED
    BY <1>2, <1>3, <1>4, <1>5 DEF IInv

\* The invariant of every state an execution reaches.
LEMMA Invariant == Spec => []IInv
  <1>1. IInv /\ [Next]_vars => IInv'
    BY TypeStep, JobStep, ContentStep DEF IInv
  <1> QED
    BY <1>1, InitInv, PTL DEF Spec

\* Every reachable state has the types of the tables and variables: progress
\* never leaves 0 .. total, in particular.
THEOREM TypeCorrect == Spec => []TypeOK
  <1>1. IInv => TypeOK
    BY DEF IInv
  <1> QED
    BY <1>1, Invariant, PTL

\* A stop that the task can still see keeps the job from uploading and from
\* succeeding, whatever the jobs, stop requests, failures and crashes do.
THEOREM TimelyStop == Spec => []TimelyStopPreventsUpload
  <1>1. IInv => TimelyStopPreventsUpload
    <2> SUFFICES ASSUME IInv, NEW j \in Job, flagAt[j] >= 0
                 PROVE  ~Uploaded(j) /\ job[j].status # "succeeded"
      BY DEF TimelyStopPreventsUpload
    <2>1. upload[j] = "idle"
      BY DEF IInv, JobInv, Stopping
    <2> QED
      BY <2>1 DEF Uploaded, IInv, JobInv, Outcome
  <1> QED
    BY <1>1, Invariant, PTL

\* A row that says 'succeeded' stands for a complete, recorded upload.
THEOREM CompleteSuccess == Spec => []SuccessIsComplete
  <1>1. IInv => SuccessIsComplete
    BY DEF IInv, JobInv, Outcome, Publishing, SuccessIsComplete
  <1> QED
    BY <1>1, Invariant, PTL

\* The published file is never that of a cancelled, unstarted or incomplete job.
THEOREM CompleteFile == Spec => []FileHoldsCompleteExports
  <1>1. IInv => FileHoldsCompleteExports
    BY DEF IInv, JobInv, Publishing, ContentInv, FileHoldsCompleteExports
  <1> QED
    BY <1>1, Invariant, PTL

\* No job is left active by a task that has ended, but for crashes and
\* database errors.
THEOREM NoOrphans == Spec => []OrphanOnlyAfterFault
  <1>1. IInv => OrphanOnlyAfterFault
    BY DEF IInv, JobInv, Outcome, OrphanOnlyAfterFault
  <1> QED
    BY <1>1, Invariant, PTL

\* If clients stop only jobs they were told of, whatever a stop answer lists
\* as stopping carries the flag.
THEOREM ToldIsFlagged == ~GuessIds => (Spec => []ToldStoppingIsFlagged)
  <1> SUFFICES ASSUME ~GuessIds PROVE Spec => []ToldStoppingIsFlagged
    OBVIOUS
  <1>1. IInv /\ TellInv /\ [Next]_vars => TellInv'
    BY TellStep DEF IInv
  <1>2. TellInv => ToldStoppingIsFlagged
    BY DEF TellInv, ToldStoppingIsFlagged
  <1> QED
    BY <1>1, <1>2, InitInv, Invariant, PTL DEF Spec

\* The folder of the jobs behaves as DriveFolder says, so a seeded folder
\* stays single under jobs and direct exports together.
THEOREM SeededFolderUnderJobs == Spec => []SeededFolderStaysSingle
  <1>1. Init => FolderInit
    BY DEF Init
  <1>2. [Next]_vars => [FolderNext]_folderVars
    BY FolderPart
  <1>3. Spec => FolderSpec
    BY <1>1, <1>2, PTL DEF Spec, FolderSpec
  <1> QED
    BY <1>3, SeededFolder, PTL

\* So jobs and direct exports that keep apart leave one file, seeded or not.
THEOREM ApartUnderJobs ==
  (\A f, g \in Seed : f = g) => (Spec /\ []Apart => []OneFilePerName)
  <1> SUFFICES ASSUME \A f, g \in Seed : f = g
               PROVE  Spec /\ []Apart => []OneFilePerName
    OBVIOUS
  <1>1. Init => FolderInit
    BY DEF Init
  <1>2. [Next]_vars => [FolderNext]_folderVars
    BY FolderPart
  <1>3. Spec => FolderSpec
    BY <1>1, <1>2, PTL DEF Spec, FolderSpec
  <1>4. FolderSpec /\ []Apart => []OneFilePerName
    BY ApartStaysSingle
  <1> QED
    BY <1>3, <1>4, PTL

\* Jobs keep the promise of JobLifecycle to whoever polls them.
THEOREM Implementation == Spec => ImplementsLifecycle
  <1>1. ASSUME Init
        PROVE  Lifecycle!Init
    <2>1. \A j \in Job : job[j].status = "absent" /\ job[j].cancel = FALSE
      BY <1>1 DEF Init, TableInit, EmptyRow
    <2>2. \A j \in Job : upload[j] = "idle"
      BY <1>1, ExportAssumption DEF Init, FolderInit
    <2>3. \A j \in Job : Uploaded(j) = FALSE
      BY <2>2 DEF Uploaded
    <2> QED
      BY <2>1, <2>3 DEF Lifecycle!Init
  <1>2. IInv /\ [Next]_vars => [Lifecycle!Next]_Lifecycle!vars
    BY LifecycleStep DEF IInv
  <1> QED
    BY <1>1, <1>2, Invariant, PTL DEF Spec, ImplementsLifecycle, Lifecycle!Spec

\* A row that has ended is never written again, and its job uploads no more.
THEOREM FinalOutcomes == Spec => OutcomesAreFinal
  <1>1. IInv /\ [Next]_vars =>
          [\A j \in Job : job[j].status \in TerminalStatuses =>
              job'[j] = job[j] /\ upload'[j] = upload[j]]_vars
    BY FinalStep DEF IInv
  <1> QED
    BY <1>1, Invariant, PTL DEF Spec, OutcomesAreFinal

-----------------------------------------------------------------------------
\* Between polls the row says where the last one was, no more than an interval
\* ago, and a stop that is on the row came after that poll.
Between == {"series", "item", "resolve", "finalPoll"}
AtPoll  == {"poll", "report"}

Pace(j) ==
    /\ flagAt[j] >= 0 => items[j] - flagAt[j] <= Interval
    /\ pc[j] \in Between => /\ job[j].processed % Interval = 0
                            /\ items[j] - job[j].processed < Interval
    /\ pc[j] \in AtPoll => /\ items[j] % Interval = 0
                           /\ items[j] - job[j].processed <= Interval
    /\ pc[j] \in Between \cup {"poll"} /\ flagAt[j] >= 0 =>
           job[j].processed <= flagAt[j]
    /\ pc[j] = "report" /\ flagAt[j] >= 0 => flagAt[j] = items[j]

\* Outside these places only the distance to the stop matters.
LEMMA PaceOutside ==
  ASSUME NEW j \in Job, Pace(j), pc'[j] \notin Between \cup AtPoll,
         items'[j] = items[j], flagAt'[j] = flagAt[j]
  PROVE  Pace(j)'
  BY DEF Pace, AtPoll

LEMMA PaceTypes ==
  ASSUME TypeOK, NEW j \in Job
  PROVE  /\ job[j] \in Row(0 .. Total) /\ job[j].processed \in Nat
         /\ job[j].cancel \in BOOLEAN
         /\ items[j] \in Nat /\ flagAt[j] \in Int /\ (flagAt[j] < 0 \/ flagAt[j] \in Nat)
         /\ flagAt[j] = NotFlagged => flagAt[j] < 0
         /\ Interval \in Nat \ {0} /\ Total \in Nat \ {0}
         /\ NotFlagged = -1 /\ TooLate = -2
  <1>1. job[j] \in Row(0 .. Total) /\ items[j] \in 0 .. Total
    BY DEF TypeOK
  <1>2. flagAt[j] \in {-1, -2} \cup 0 .. Total
    BY DEF TypeOK, NotFlagged, TooLate
  <1>3. job[j].processed \in 0 .. Total /\ job[j].cancel \in BOOLEAN
    BY <1>1 DEF Row
  <1> QED
    BY <1>1, <1>2, <1>3, TotalPositive, ExportAssumption DEF NotFlagged, TooLate

\* A step of the task keeps the pace of its job.
LEMMA TaskPace ==
  ASSUME TypeOK, NEW j \in Job, JobInv(j), Pace(j), Trigger(j) \/ TaskStep(j)
  PROVE  Pace(j)'
  <1> DEFINE Kept == items'[j] = items[j] /\ flagAt'[j] = flagAt[j]
  <1>1. ASSUME NEW at, NEW next, Execute(j, at, next)
        PROVE  /\ pc[j] = at /\ pc'[j] = next /\ Kept
               /\ job'[j] = Effect(at, job[j], items[j])
    BY <1>1, ExecuteLocal
  <1>2. CASE \/ Trigger(j) \/ Dispatch(j) \/ CancelEarly(j) \/ Start(j)
             \/ Build(j) \/ FinalReport(j) \/ Succeed(j) \/ Cancel(j)
             \/ CloseSession(j) \/ Fail(j)
    <2>1. /\ Kept
          /\ pc'[j] \in {"refresh", "begin", "closing", "build", "firstReport",
                         "find", "done"}
      BY <1>2, <1>1
      DEF Trigger, Dispatch, CancelEarly, Start, Build, FinalReport, Succeed,
          Cancel, CloseSession, Fail
    <2> QED
      BY <2>1, PaceOutside DEF Between, AtPoll
  <1>3. CASE Begin(j)
    <2>1. Kept /\ pc'[j] \in {"cancelEarly", "start"}
      BY <1>3, <1>1 DEF Begin, PollFlag
    <2> QED
      BY <2>1, PaceOutside DEF Between, AtPoll
  <1>4. CASE Find(j) \/ Upload(j) \/ WorkFails(j) \/ FailRaises(j)
    <2>1. Kept /\ pc'[j] \in {"store", "succeed", "failing", "closing"}
      BY <1>4 DEF Find, Upload, WorkFails, FailRaises, Goto, TypeOK, histVars
    <2> QED
      BY <2>1, PaceOutside DEF Between, AtPoll
  <1>5. CASE FirstReport(j)
    <2>1. /\ Kept /\ pc'[j] = "series" /\ items[j] = 0
          /\ job'[j] = UpdateProgress(job[j], 0, Total)
      BY <1>5, <1>1, EffectAt DEF FirstReport, JobInv, Counting
    <2>2. job'[j].processed = 0
      BY <2>1, PaceTypes DEF Row, UpdateProgress
    <2>3. 0 % Interval = 0
      BY PaceTypes
    <2> QED
      BY <2>1, <2>2, <2>3, PaceTypes DEF Pace, Between, AtPoll
  <1>6. CASE NextSeries(j) \/ FinalPoll(j)
    <2>1. /\ Kept /\ job'[j] = job[j] /\ pc[j] \in {"series", "finalPoll"}
          /\ pc'[j] \in {"cancelling", "item", "finalReport"}
      BY <1>6, <1>1, EffectAt DEF NextSeries, FinalPoll, PollFlag
    <2> QED
      BY <2>1 DEF Pace, Between, AtPoll
  <1>7. CASE Poll(j)
    <2>1. /\ Kept /\ job'[j] = job[j] /\ pc[j] = "poll"
          /\ pc'[j] = IF job[j].cancel THEN "cancelling" ELSE "report"
      BY <1>7, <1>1, EffectAt DEF Poll, PollFlag, IsCancelRequested
    <2>2. ~job[j].cancel => flagAt[j] = NotFlagged
      BY DEF JobInv, Stopping
    <2> QED
      BY <2>1, <2>2, PaceTypes DEF Pace, Between, AtPoll
  <1>8. CASE Report(j)
    <2>1. /\ Kept /\ pc[j] = "report" /\ pc'[j] = "resolve"
          /\ job'[j] = UpdateProgress(job[j], items[j], Total)
      BY <1>8, <1>1, EffectAt DEF Report
    <2>2. job'[j].processed = items[j]
      BY <2>1, PaceTypes DEF Row, UpdateProgress
    <2> QED
      BY <2>1, <2>2, PaceTypes DEF Pace, Between, AtPoll
  <1>9. CASE Resolve(j)
    <2>1. /\ Kept /\ job'[j] = job[j] /\ pc[j] = "resolve"
          /\ pc'[j] \in {"finalPoll", "series", "item"}
      BY <1>9, <1>1, EffectAt, AfterItemIn DEF Resolve
    <2> QED
      BY <2>1 DEF Pace, Between, AtPoll
  <1>10. CASE Checkpoint(j)
    <2>1. /\ pc[j] = "item" /\ job'[j] = job[j] /\ flagAt'[j] = flagAt[j]
          /\ items'[j] = items[j] + 1
          /\ pc'[j] = IF (items[j] + 1) % Interval = 0 THEN "poll" ELSE "resolve"
      BY <1>10 DEF Checkpoint, Goto, TypeOK, histVars
    <2> DEFINE p == job[j].processed
               n == items[j]
               f == flagAt[j]
    <2>2. /\ p % Interval = 0 /\ n - p < Interval /\ p <= n
          /\ f >= 0 => p <= f
      BY <2>1 DEF Pace, Between, JobInv, Counting
    <2>3. p \in Nat /\ n \in Nat /\ f \in Int /\ Interval \in Nat \ {0}
      BY PaceTypes
    <2>4. (p + Interval) % Interval = 0
      BY <2>2, <2>3, NextMultiple
    <2>5. /\ n + 1 - p <= Interval
          /\ (n + 1) % Interval # 0 => n + 1 - p < Interval
      <3> HIDE DEF p, n
      <3>1. n + 1 - p = Interval => n + 1 = p + Interval
        BY <2>3
      <3> QED
        BY <2>2, <2>3, <2>4, <3>1
    <2>6. f >= 0 => n + 1 - f <= Interval
      <3> HIDE DEF p, n, f
      <3> QED
        BY <2>2, <2>3, <2>5
    <2>7. /\ flagAt'[j] >= 0 => items'[j] - flagAt'[j] <= Interval
          /\ flagAt'[j] >= 0 => job'[j].processed <= flagAt'[j]
          /\ job'[j].processed % Interval = 0
      BY <2>1, <2>2, <2>3, <2>6
    <2>8. CASE (n + 1) % Interval = 0
      <3>1. /\ pc'[j] = "poll" /\ items'[j] % Interval = 0
            /\ items'[j] - job'[j].processed <= Interval
        BY <2>1, <2>3, <2>5, <2>8
      <3> QED
        BY <2>7, <3>1 DEF Pace, Between, AtPoll
    <2>9. CASE (n + 1) % Interval # 0
      <3>1. /\ pc'[j] = "resolve"
            /\ items'[j] - job'[j].processed < Interval
        BY <2>1, <2>3, <2>5, <2>9
      <3> QED
        BY <2>7, <3>1 DEF Pace, Between, AtPoll
    <2> QED
      BY <2>8, <2>9
  <1> QED
    BY <1>2, <1>3, <1>4, <1>5, <1>6, <1>7, <1>8, <1>9, <1>10 DEF TaskStep

\* A fault takes its task out of the loop.
LEMMA FaultPace ==
  ASSUME TypeOK, NEW j \in Job, DatabaseError(j) \/ Crash(j), Pace(j)
  PROVE  Pace(j)'
  <1>1. /\ items'[j] = items[j] /\ flagAt'[j] = flagAt[j]
        /\ pc'[j] \in {"failing", "closing", "done", "dead"}
    BY DEF DatabaseError, Crash, Goto, OnDatabaseError, TypeOK
  <1> QED
    BY <1>1, PaceOutside DEF Between, AtPoll

\* A job that is left alone keeps its pace.
LEMMA SamePace ==
  ASSUME NEW k \in Job, Same(k), Pace(k)
  PROVE  Pace(k)'
  BY DEF Same, Pace

\* A stop is recorded where the loop is.
LEMMA FlagPace ==
  ASSUME TypeOK, NEW s \in Stopper, NEW k \in Job, Flag(s, k), JobInv(k), Pace(k)
  PROVE  Pace(k)'
  <1>1. /\ pc'[k] = pc[k] /\ items'[k] = items[k]
        /\ job'[k].processed = job[k].processed
    BY PaceTypes DEF Flag, runVars, RequestCancel, TypeOK, Row
  <1>2. CASE Cancellable(job[k])
    <2>1. flagAt'[k] = IF pc[k] \in Polls THEN items[k] ELSE TooLate
      BY <1>2 DEF Flag, TypeOK
    <2>2. job[k].processed <= items[k]
      BY DEF JobInv, Counting
    <2> QED
      BY <1>1, <2>1, <2>2, PaceTypes DEF Pace
  <1>3. CASE ~Cancellable(job[k])
    <2>1. flagAt'[k] = flagAt[k]
      BY <1>3 DEF Flag
    <2> QED
      BY <1>1, <2>1 DEF Pace
  <1> QED
    BY <1>2, <1>3

\* So every step of the system keeps the pace of every job.
LEMMA PaceStep ==
  ASSUME TypeOK, \A j \in Job : JobInv(j), \A j \in Job : Pace(j), [Next]_vars
  PROVE  \A j \in Job : Pace(j)'
  <1> SUFFICES ASSUME NEW k \in Job PROVE Pace(k)'
    OBVIOUS
  <1>1. CASE Same(k)
    BY <1>1, SamePace
  <1>2. CASE ~Same(k)
    <2>1. ASSUME NEW j \in Job, Trigger(j) \/ TaskStep(j)
          PROVE  Pace(k)'
      BY <2>1, <1>2, TaskSame, TaskPace
    <2>2. ASSUME NEW j \in Job, DatabaseError(j) \/ Crash(j)
          PROVE  Pace(k)'
      <3>1. CASE j = k
        BY <2>2, <3>1, FaultPace
      <3>2. CASE j # k
        BY <2>2, <3>2, <1>2
        DEF DatabaseError, Crash, Same, Goto, TypeOK, folderVars
      <3> QED
        BY <3>1, <3>2
    <2>3. ASSUME NEW s \in Stopper, StopStep(s)
          PROVE  Pace(k)'
      <3>1. CASE Flag(s, k)
        BY <3>1, FlagPace
      <3>2. ASSUME NEW j \in Job, Flag(s, j), j # k
            PROVE  Same(k)
        BY <3>2 DEF Flag, Same, TypeOK, folderVars, runVars
      <3>3. CASE ~(\E j \in Job : Flag(s, j))
        BY <2>3, <3>3, <1>2
        DEF StopStep, StopAll, StopOne, ReadBack, StopDies, Same, folderVars,
            runVars, histVars
      <3> QED
        BY <3>1, <3>2, <3>3, <1>2
    <2>4. ASSUME NEW w \in Writer, DirectExport(w)
          PROVE  Same(k)
      BY <2>4, ExportAssumption
      DEF DirectExport, Same, runVars, histVars, TypeOK, FolderTypeOK,
          FindExistingFileId, Store, ExportAgain
    <2>5. ASSUME NEW f \in FileId, TrashFile(f)
          PROVE  Same(k)
      BY <2>5 DEF TrashFile, Trash, Same, runVars, histVars
    <2>6. CASE UNCHANGED vars
      BY <2>6, <1>2 DEF vars, Same, folderVars, runVars, histVars
    <2> QED
      BY <2>1, <2>2, <2>3, <2>4, <2>5, <2>6, <1>2 DEF Next
  <1> QED
    BY <1>1, <1>2

\* The pace of the loop, in every state an execution reaches.
LEMMA Paced == Spec => [](IInv /\ \A j \in Job : Pace(j))
  <1>1. ASSUME Init, NEW j \in Job
        PROVE  Pace(j)
    <2>1. pc[j] = "none" /\ flagAt[j] = -1
      BY <1>1 DEF Init, NotFlagged
    <2>2. ~(flagAt[j] >= 0)
      BY <2>1
    <2> QED
      BY <2>1, <2>2 DEF Pace, Between, AtPoll
  <1>2. IInv /\ (\A j \in Job : Pace(j)) /\ [Next]_vars => (\A j \in Job : Pace(j))'
    BY PaceStep DEF IInv
  <1>3. Init => \A j \in Job : Pace(j)
    BY <1>1
  <1> QED
    BY <1>2, <1>3, Invariant, PTL DEF Spec

\* After a stop is recorded the loop counts at most one interval of items,
\* wherever in the window and the interval the stop falls.
THEOREM StopsWithinInterval == Spec => []StopTakesEffectWithinInterval
  <1>1. (\A j \in Job : Pace(j)) => StopTakesEffectWithinInterval
    BY DEF Pace, StopTakesEffectWithinInterval
  <1> QED
    BY <1>1, Paced, PTL

\* The progress on the row is never ahead of the loop and never more than an
\* interval behind it.
THEOREM ProgressFresh == Spec => []ProgressIsFresh
  <1>1. IInv /\ (\A j \in Job : Pace(j)) => ProgressIsFresh
    <2> SUFFICES ASSUME IInv, NEW j \in Job, Pace(j)
                 PROVE  /\ job[j].processed <= items[j]
                        /\ pc[j] \in Loop \ {"firstReport"} =>
                               items[j] - job[j].processed <= Interval
      BY DEF ProgressIsFresh
    <2>1. job[j].processed <= items[j]
      BY DEF IInv, JobInv, Counting
    <2>2. CASE pc[j] \in Between \cup AtPoll
      BY <2>1, <2>2, PaceTypes DEF Pace, IInv
    <2>3. CASE pc[j] \notin Between \cup AtPoll
      BY <2>1, <2>3 DEF Between, AtPoll, Loop
    <2> QED
      BY <2>2, <2>3
  <1> QED
    BY <1>1, Paced, PTL
=============================================================================

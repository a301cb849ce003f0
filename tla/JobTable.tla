------------------------------ MODULE JobTable ------------------------------
(***************************************************************************)
(* The table RAT_EXPORT_JOB and the statements that                        *)
(* SqlAlchemyExportJobRepository runs on it.  Every method is one UPDATE   *)
(* (or one SELECT) committed at once, so each is an operator on a row;     *)
(* ExportJobs says who runs which one, when, and what happens if it fails. *)
(* Timestamps, the window and the error text are left out.                 *)
(***************************************************************************)
EXTENDS Integers

CONSTANT Job      \* the ids a run may create

VARIABLE job      \* job[j]: the row of j; status "absent" when there is none

ActiveStatuses   == {"pending", "running"}
TerminalStatuses == {"succeeded", "failed", "cancelled"}
Statuses         == {"absent"} \cup ActiveStatuses \cup TerminalStatuses

NoTotal == -1     \* total_items IS NULL

Row(Count) ==
    [status    : Statuses,
     cancel    : BOOLEAN,                  \* cancel_requested_at IS NOT NULL
     processed : Count,                    \* processed_items
     total     : Count \cup {NoTotal},     \* total_items
     file      : BOOLEAN]                  \* rows_written and file_id set

EmptyRow ==
    [status |-> "absent", cancel |-> FALSE, processed |-> 0,
     total |-> NoTotal, file |-> FALSE]

TableInit == job = [j \in Job |-> EmptyRow]

-----------------------------------------------------------------------------
\* The statements, each as the row it leaves behind.  mark_* and
\* update_progress are unconditional: they do not look at the old status.

CreateRow == [EmptyRow EXCEPT !.status = "pending"]

MarkRunning(row)   == [row EXCEPT !.status = "running"]
MarkSucceeded(row) == [row EXCEPT !.status = "succeeded", !.file = TRUE]
MarkFailed(row)    == [row EXCEPT !.status = "failed"]
MarkCancelled(row) == [row EXCEPT !.status = "cancelled"]

UpdateProgress(row, processed, total) ==
    [row EXCEPT !.processed = processed, !.total = total]

\* Faulty variants of Cancellable: status IN (...) reduced to 'running', and
\* left out.
CancellableRunningOnly(row) == row.status = "running" /\ ~row.cancel
CancellableAnyStatus(row)   == ~row.cancel

\* The only conditional UPDATE: an active row without a request.
Cancellable(row) == row.status \in ActiveStatuses /\ ~row.cancel

RequestCancel(row) ==
    IF Cancellable(row) THEN [row EXCEPT !.cancel = TRUE] ELSE row

IsCancelRequested(j) == job[j].cancel

ListActiveIds == {j \in Job : job[j].status \in ActiveStatuses}
=============================================================================

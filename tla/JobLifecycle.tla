---------------------------- MODULE JobLifecycle ----------------------------
(***************************************************************************)
(* What an asynchronous export job promises to whoever polls it: the       *)
(* abstract specification of one row of RAT_EXPORT_JOB together with the   *)
(* one visible effect of a job, publishing its CSV.  Nothing is said of    *)
(* the loop, of the checkpoints or of the sessions behind it: ExportJobs   *)
(* implements this module (ExportJobs!ImplementsLifecycle).                *)
(***************************************************************************)

CONSTANT Job

VARIABLES
    status,       \* status[j]: RAT_EXPORT_JOB.status, "absent" before create
    requested,    \* requested[j]: a stop was asked for
    published     \* published[j]: the CSV of j reached the Drive folder

vars == <<status, requested, published>>

Active   == {"pending", "running"}
Terminal == {"succeeded", "failed", "cancelled"}

Init ==
    /\ status    = [j \in Job |-> "absent"]
    /\ requested = [j \in Job |-> FALSE]
    /\ published = [j \in Job |-> FALSE]

Move(j, from, to) ==
    /\ status[j] = from
    /\ status' = [status EXCEPT ![j] = to]

Create(j) ==
    /\ Move(j, "absent", "pending")
    /\ UNCHANGED <<requested, published>>

Start(j) ==
    /\ Move(j, "pending", "running")
    /\ UNCHANGED <<requested, published>>

\* A stop is recorded once, and only while there is something to stop.
RequestStop(j) ==
    /\ status[j] \in Active
    /\ ~requested[j]
    /\ requested' = [requested EXCEPT ![j] = TRUE]
    /\ UNCHANGED <<status, published>>

Publish(j) ==
    /\ status[j] = "running"
    /\ ~published[j]
    /\ published' = [published EXCEPT ![j] = TRUE]
    /\ UNCHANGED <<status, requested>>

\* Only a published export succeeds.
Succeed(j) ==
    /\ published[j]
    /\ Move(j, "running", "succeeded")
    /\ UNCHANGED <<requested, published>>

\* A failed export may have been published: the answer of the upload, or
\* the write of the outcome, can be lost.
Fail(j) ==
    /\ Move(j, "running", "failed")
    /\ UNCHANGED <<requested, published>>

\* Only a requested stop cancels, and a cancelled export is never published.
Cancel(j) ==
    /\ requested[j]
    /\ ~published[j]
    /\ \E from \in Active : Move(j, from, "cancelled")
    /\ UNCHANGED <<requested, published>>

Next ==
    \E j \in Job :
        \/ Create(j)
        \/ Start(j)
        \/ RequestStop(j)
        \/ Publish(j)
        \/ Succeed(j)
        \/ Fail(j)
        \/ Cancel(j)

Spec == Init /\ [][Next]_vars
=============================================================================

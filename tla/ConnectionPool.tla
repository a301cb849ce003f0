---------------------------- MODULE ConnectionPool ----------------------------
(***************************************************************************)
(* The five database connections of an instance and the sessions that      *)
(* share them: the request that triggers an export, the background job     *)
(* with the sessions that its swapper replaces, and all other requests.    *)
(*                                                                         *)
(* A session checks a connection out with its first statement and gives it *)
(* back when it commits, rolls back or is closed.  So a session that has   *)
(* only read keeps its connection while providers are asked.               *)
(*                                                                         *)
(* The request session of a trigger reads the row back after its commit,   *)
(* and is closed when FastAPI leaves the dependencies of the request: up   *)
(* to 0.117 before the background task starts, from 0.118 on after it has  *)
(* ended.  pyproject.toml admits both (fastapi>=0.116), so which one is a  *)
(* choice of the build, lateExit.                                          *)
(***************************************************************************)
EXTENDS Integers, FiniteSets

CONSTANTS
    Export,       \* async exports triggered on this instance
    Request,      \* other requests: lookups, syncs, polls, direct exports
    PoolSize,     \* _POOL_SIZE, with _MAX_OVERFLOW = 0
    Items,        \* bound: items that a job resolves
    MaxTimeouts   \* bound: waits that end with a pool timeout

ASSUME PoolAssumption ==
    /\ IsFiniteSet(Export)
    /\ Export \cap Request = {}
    /\ PoolSize \in Nat \ {0}
    /\ Items \in Nat
    /\ MaxTimeouts \in Nat

Owner == Export \cup Request

\* The three repositories of a job, each bound to a session.
Repository == {"jobs", "rates", "reference"}

\* Sessions: <<o, 0>> is that of a request, <<e, g>> the g-th of job e.
Generation == 1 .. Items + 1
Session == (Owner \X {0}) \cup (Export \X Generation)

VARIABLES
    lateExit,     \* dependencies are left after the background task
    pc,           \* pc[o]: the next statement of o
    held,         \* the sessions that have a connection
    current,      \* current[e]: ExportJobSessionSwapper._session of job e
    bound,        \* bound[e][r]: the session of repository r of job e
    items,        \* items[e]: items resolved so far (bound)
    timeouts      \* pool timeouts so far (bound)

jobVars == <<current, bound, items>>
vars == <<lateExit, pc, held, jobVars, timeouts>>

\* The statements of a job, by what they do with the transaction.
JobReads   == {"early", "codes", "series", "bulk", "item", "poll", "lastPoll"}
JobCommits == {"start", "first", "store", "report", "lastReport", "succeed",
               "failing", "cancelling"}
JobStatement == JobReads \cup JobCommits
Statement == {"insert", "reload", "statement"} \cup JobStatement

TypeOK ==
    /\ lateExit \in BOOLEAN
    /\ pc       \in [Owner -> Statement \cup {"idle", "respond", "swap",
                                  "upload", "closing", "busy", "ended"}]
    /\ held     \in SUBSET Session
    /\ Cardinality(held) <= PoolSize
    /\ current  \in [Export -> Generation]
    /\ bound    \in [Export -> [Repository -> Generation]]
    /\ items    \in [Export -> 0 .. Items]
    /\ timeouts \in 0 .. MaxTimeouts

Init ==
    /\ lateExit \in BOOLEAN
    /\ pc       = [o \in Owner |-> "idle"]
    /\ held     = {}
    /\ current  = [e \in Export |-> 1]
    /\ bound    = [e \in Export |-> [r \in Repository |-> 1]]
    /\ items    = [e \in Export |-> 0]
    /\ timeouts = 0

RepositoryOf(statement) ==
    CASE statement \in {"bulk", "item", "store"} -> "rates"
      [] statement = "codes"                     -> "reference"
      [] OTHER                                   -> "jobs"

\* The session on which o runs its next statement.
SessionOf(o) ==
    IF o \in Export /\ pc[o] \in JobStatement
    THEN <<o, bound[o][RepositoryOf(pc[o])]>>
    ELSE <<o, 0>>

Waits(o) == pc[o] \in Statement /\ SessionOf(o) \notin held

Goto(o, to) == pc' = [pc EXCEPT ![o] = to]

-----------------------------------------------------------------------------
\* The pool

\* Faulty variant of Acquire: overflow connections are opened.
AcquireOverflow(o) ==
    /\ Waits(o)
    /\ held' = held \cup {SessionOf(o)}
    /\ UNCHANGED <<lateExit, pc, jobVars, timeouts>>

\* The first statement of a transaction checks a connection out.
Acquire(o) ==
    /\ Waits(o)
    /\ Cardinality(held) < PoolSize
    /\ held' = held \cup {SessionOf(o)}
    /\ UNCHANGED <<lateExit, pc, jobVars, timeouts>>

Read(o, from, to) ==
    /\ pc[o] = from
    /\ SessionOf(o) \in held
    /\ Goto(o, to)
    /\ UNCHANGED held

Commit(o, from, to) ==
    /\ pc[o] = from
    /\ SessionOf(o) \in held
    /\ Goto(o, to)
    /\ held' = held \ {SessionOf(o)}

InTry(e) == pc[e] \in JobStatement \ {"early", "start", "succeed", "failing",
                                      "cancelling"}

\* After 30 s without a connection the statement raises: the request fails, or
\* the exception gets to the handler of the job or out of the task.
PoolTimeout(o) ==
    /\ Waits(o)
    /\ Cardinality(held) = PoolSize
    /\ timeouts < MaxTimeouts
    /\ timeouts' = timeouts + 1
    /\ Goto(o, IF o \in Request THEN "idle"
               ELSE IF InTry(o) THEN "failing" ELSE "closing")
    /\ UNCHANGED <<lateExit, held, jobVars>>

-----------------------------------------------------------------------------
\* POST /exports/financial-data with async_execution

\* ExportJobRepository.create: insert and commit, then read the row back.
Insert(e) ==
    /\ \/ pc[e] = "idle" /\ Goto(e, "insert") /\ UNCHANGED held
       \/ Commit(e, "insert", "reload")
    /\ UNCHANGED <<lateExit, jobVars, timeouts>>

Reload(e) ==
    /\ Read(e, "reload", "respond")
    /\ UNCHANGED <<lateExit, jobVars, timeouts>>

\* The answer is sent and the background task starts, with the dependencies
\* of the request left or not.
Respond(e) ==
    /\ pc[e] = "respond"
    /\ Goto(e, "early")
    /\ held' = IF lateExit THEN held ELSE held \ {<<e, 0>>}
    /\ UNCHANGED <<lateExit, jobVars, timeouts>>

-----------------------------------------------------------------------------
\* run_export_job_in_background

Begin(e) ==
    /\ \/ \E to \in {"start", "cancelling"} : Read(e, "early", to)
       \/ Commit(e, "start", "codes")
       \/ Read(e, "codes", "first")
       \/ Commit(e, "first", "series")
    /\ UNCHANGED <<lateExit, jobVars, timeouts>>

\* What may follow an item when n items are done: the next one, a checkpoint,
\* the next series or the end.
After(n) == {"lastPoll"} \cup
            (IF n < Items THEN {"item", "poll", "series"} ELSE {})

\* A series begins with a poll and its bulk query.
Series(e) ==
    /\ \/ \E to \in {"bulk", "cancelling"} : Read(e, "series", to)
       \/ \E to \in After(items[e]) \ {"series"} : Read(e, "bulk", to)
    /\ UNCHANGED <<lateExit, jobVars, timeouts>>

\* resolve_value_for_date: reads, asks the providers with the connection in
\* hand, and perhaps stores what they gave.
Item(e) ==
    /\ \/ /\ items[e] < Items
          /\ items' = [items EXCEPT ![e] = @ + 1]
          /\ \E to \in {"store"} \cup After(items[e] + 1) : Read(e, "item", to)
       \/ /\ \E to \in After(items[e]) : Commit(e, "store", to)
          /\ UNCHANGED items
    /\ UNCHANGED <<lateExit, current, bound, timeouts>>

Poll(e) ==
    /\ \E to \in {"report", "cancelling"} : Read(e, "poll", to)
    /\ UNCHANGED <<lateExit, jobVars, timeouts>>

\* Faulty variant of Report: update_progress without its commit.
ReportUncommitted(e) ==
    /\ Read(e, "report", "swap")
    /\ UNCHANGED <<lateExit, jobVars, timeouts>>

Report(e) ==
    /\ Commit(e, "report", "swap")
    /\ UNCHANGED <<lateExit, jobVars, timeouts>>

\* Faulty variant of Rebound: the repository of the jobs is forgotten.
ReboundInPart(e, g) == [bound[e] EXCEPT !["rates"] = g, !["reference"] = g]

\* Every repository of the job moves to the session g.
Rebound(e, g) == [r \in Repository |-> g]

\* refresh_if_due: nothing, or a new session, all repositories bound to it,
\* and the stale one closed.  An item of an index series that comes next runs
\* no statement.
RefreshIfDue(e) ==
    /\ pc[e] = "swap"
    /\ \/ Goto(e, "item") /\ UNCHANGED items
       \/ /\ items[e] < Items
          /\ items' = [items EXCEPT ![e] = @ + 1]
          /\ \E to \in After(items[e] + 1) : Goto(e, to)
    /\ \/ UNCHANGED <<held, current, bound>>
       \/ /\ current[e] + 1 \in Generation
          /\ current' = [current EXCEPT ![e] = @ + 1]
          /\ bound' = [bound EXCEPT ![e] = Rebound(e, current[e] + 1)]
          /\ held' = held \ {<<e, current[e]>>}
    /\ UNCHANGED <<lateExit, timeouts>>

Finish(e) ==
    /\ \/ \E to \in {"lastReport", "cancelling"} : Read(e, "lastPoll", to)
       \/ Commit(e, "lastReport", "upload")
       \/ pc[e] = "upload" /\ Goto(e, "succeed") /\ UNCHANGED held
       \/ Commit(e, "succeed", "closing")
    /\ UNCHANGED <<lateExit, jobVars, timeouts>>

\* A statement raises, or what follows it in the code (a provider, a value):
\* the transaction stays open until the session is closed, and a handler that
\* runs in an aborted one raises as well.
Raises(e) ==
    /\ pc[e] \in Statement
    /\ SessionOf(e) \in held
    /\ Goto(e, IF InTry(e) THEN "failing" ELSE "closing")
    /\ UNCHANGED <<lateExit, held, jobVars, timeouts>>

\* The factory of the use case (Drive credentials) or the upload raises; the
\* handlers record an outcome.
Fail(e) ==
    /\ \/ pc[e] = "codes" /\ Waits(e) /\ Goto(e, "failing") /\ UNCHANGED held
       \/ pc[e] = "upload" /\ Goto(e, "failing") /\ UNCHANGED held
       \/ Commit(e, "failing", "closing")
       \/ Commit(e, "cancelling", "closing")
    /\ UNCHANGED <<lateExit, jobVars, timeouts>>

\* Faulty variant of Closed: the session that the task began with is closed.
ClosedFirst(e) == {<<e, 1>>, <<e, 0>>}

\* swapper.close() and, at the latest now, the exit of get_session.
Closed(e) == {<<e, current[e]>>, <<e, 0>>}

Close(e) ==
    /\ pc[e] = "closing"
    /\ Goto(e, "ended")
    /\ held' = held \ Closed(e)
    /\ UNCHANGED <<lateExit, jobVars, timeouts>>

ExportStep(e) ==
    \/ Insert(e) \/ Reload(e) \/ Respond(e)
    \/ Begin(e) \/ Series(e) \/ Item(e) \/ Poll(e) \/ Report(e)
    \/ RefreshIfDue(e) \/ Finish(e) \/ Raises(e) \/ Fail(e) \/ Close(e)

-----------------------------------------------------------------------------
\* All other requests: one session, statements and requests to providers or
\* Drive in turn, and the session closed at the end.

Serve(r) ==
    /\ \/ pc[r] = "idle" /\ Goto(r, "statement") /\ UNCHANGED held
       \/ Read(r, "statement", "busy")
       \/ Commit(r, "statement", "busy")
    /\ UNCHANGED <<lateExit, jobVars, timeouts>>

Proceed(r) ==
    /\ pc[r] = "busy"
    /\ \/ Goto(r, "statement") /\ UNCHANGED held
       \/ Goto(r, "idle") /\ held' = held \ {<<r, 0>>}
    /\ UNCHANGED <<lateExit, jobVars, timeouts>>

-----------------------------------------------------------------------------
Next ==
    \/ \E o \in Owner : Acquire(o) \/ PoolTimeout(o)
    \/ \E e \in Export : ExportStep(e)
    \/ \E r \in Request : Serve(r) \/ Proceed(r)

Spec == Init /\ [][Next]_vars

\* The event loop runs what is ready, requests end, providers and Drive have
\* timeouts, and who waits for a connection is not passed over for ever.
FairSpec ==
    /\ Spec
    /\ \A o \in Owner  : SF_vars(Acquire(o))
    /\ \A e \in Export : WF_vars(pc[e] # "idle" /\ ExportStep(e))
    /\ \A r \in Request :
          /\ WF_vars(Serve(r))
          /\ SF_vars(pc[r] = "busy" /\ Goto(r, "idle") /\ Proceed(r))

-----------------------------------------------------------------------------
\* Properties

\* All connections are in the hands of those who wait for another.
Stalled ==
    /\ Cardinality(held) = PoolSize
    /\ \A s \in held : Waits(s[1])

\* Nobody waits for a connection that only waiting tasks could give back, but
\* for one case: the requests that triggered as many jobs as there are
\* connections keep one each until their own job ends, which waits for one.
\* "By then the request-scoped session is gone" (dependencies.py:395-397)
\* holds before FastAPI 0.118 only.
OnlyTriggersStall == Stalled => lateExit /\ held \subseteq Export \X {0}

\* However a task ends and however often its session was replaced, it leaves
\* no connection behind: "no connection is leaked either way"
\* (dependencies.py:404).
EndedHoldsNothing ==
    \A e \in Export : pc[e] = "ended" => \A s \in held : s[1] # e

\* A job has no transaction open when its session is replaced, so none is cut
\* off, nor while Drive stores its file.
NothingOpenAtSwapOrUpload ==
    \A e \in Export : pc[e] \in {"swap", "upload"} =>
        \A g \in Generation : <<e, g>> \notin held

\* A job never uses two connections of its own: its repositories agree about
\* the session (dependencies.py:311-312).
OneConnectionPerJob ==
    \A e \in Export : \A g, h \in Generation :
        <<e, g>> \in held /\ <<e, h>> \in held => g = h

\* The sessions of the triggers are closed in time, or there are fewer exports
\* than connections.
EnoughConnections == lateExit => Cardinality(Export) < PoolSize

\* Every job that has begun comes to its end, whatever other requests do.
JobsEnd ==
    \A e \in Export :
        pc[e] = "early" /\ EnoughConnections ~> pc[e] = "ended"
=============================================================================

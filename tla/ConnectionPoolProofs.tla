------------------------- MODULE ConnectionPoolProofs -------------------------
(***************************************************************************)
(* Theorems about ConnectionPool, for pools of any size, any number of     *)
(* exports and requests, and both times of leaving the dependencies.       *)
(***************************************************************************)
EXTENDS ConnectionPool, FiniteSetTheorems, TLAPS

-----------------------------------------------------------------------------
\* The inductive invariant, job by job.

\* All repositories of a job are on its current session.
InStep(e) == \A r \in Repository : bound[e][r] = current[e]

\* The job's connection is that of its current session, and there is none
\* before the task starts, at a swap, during the upload and after the end.
JobsOwn(e) ==
    \A g \in Generation : <<e, g>> \in held =>
        /\ g = current[e]
        /\ pc[e] \notin {"idle", "insert", "reload", "respond", "swap",
                         "upload", "ended"}

\* The request session outlives the answer only if dependencies are left late,
\* and the job in no case.
TriggersOwn(e) ==
    <<e, 0>> \in held =>
        \/ pc[e] \in {"insert", "reload", "respond", "closing"}
        \/ lateExit /\ pc[e] \notin {"idle", "ended"}

JobInv(e) ==
    /\ pc[e] \notin {"statement", "busy"}
    /\ InStep(e)
    /\ JobsOwn(e)
    /\ TriggersOwn(e)

IInv == TypeOK /\ IsFiniteSet(held) /\ \A e \in Export : JobInv(e)

-----------------------------------------------------------------------------
\* Lemmas

\* The sessions of a step belong to its owner.
LEMMA SessionOfOwner ==
  ASSUME TypeOK, NEW o \in Owner
  PROVE  /\ SessionOf(o) \in Session
         /\ SessionOf(o)[1] = o
  <1>1. CASE o \in Export /\ pc[o] \in JobStatement
    <2>1. RepositoryOf(pc[o]) \in Repository
      BY DEF RepositoryOf, Repository
    <2> QED
      BY <1>1, <2>1 DEF SessionOf, Session, TypeOK
  <1>2. CASE ~(o \in Export /\ pc[o] \in JobStatement)
    BY <1>2 DEF SessionOf, Session, Owner
  <1> QED
    BY <1>1, <1>2

\* A job that is in step runs all its statements on its current session.
LEMMA SessionOfJob ==
  ASSUME NEW e \in Export, InStep(e), pc[e] \in JobStatement
  PROVE  SessionOf(e) = <<e, current[e]>>
  <1>1. RepositoryOf(pc[e]) \in Repository
    BY DEF RepositoryOf, Repository
  <1> QED
    BY <1>1 DEF SessionOf, InStep

LEMMA SessionOfTrigger ==
  ASSUME NEW o \in Owner, pc[o] \notin JobStatement \/ o \notin Export
  PROVE  SessionOf(o) = <<o, 0>>
  BY DEF SessionOf

\* Giving connections back keeps the pool within its size.
LEMMA GivenBack ==
  ASSUME TypeOK, IsFiniteSet(held), held' \subseteq held
  PROVE  /\ held' \in SUBSET Session
         /\ IsFiniteSet(held')
         /\ Cardinality(held') <= PoolSize
  <1>1. /\ IsFiniteSet(held')
        /\ Cardinality(held') <= Cardinality(held)
    BY FS_Subset
  <1>2. Cardinality(held) \in Nat /\ Cardinality(held') \in Nat
    BY <1>1, FS_CardinalityType
  <1> QED
    BY <1>1, <1>2, PoolAssumption DEF TypeOK

\* A step that leaves a job's sessions and place alone leaves JobInv alone.
LEMMA Frame ==
  ASSUME NEW e \in Export, JobInv(e),
         pc'[e] = pc[e], current'[e] = current[e], bound'[e] = bound[e],
         lateExit' = lateExit,
         \A n : <<e, n>> \in held' => <<e, n>> \in held
  PROVE  JobInv(e)'
  BY DEF JobInv, InStep, JobsOwn, TriggersOwn

Pcs == Statement \cup {"idle", "respond", "swap", "upload", "closing", "busy",
                       "ended"}

\* A step of owner o that takes no new connection, seen from all jobs.
LEMMA StepInv ==
  ASSUME IInv, NEW o \in Owner, NEW to \in Pcs, Goto(o, to),
         held' \subseteq held, lateExit' = lateExit,
         current'  \in [Export -> Generation],
         bound'    \in [Export -> [Repository -> Generation]],
         items'    \in [Export -> 0 .. Items],
         timeouts' \in 0 .. MaxTimeouts,
         \A e \in Export \ {o} : /\ current'[e] = current[e]
                                 /\ bound'[e] = bound[e],
         o \in Export => JobInv(o)'
  PROVE  IInv'
  <1>1. /\ held' \in SUBSET Session
        /\ IsFiniteSet(held')
        /\ Cardinality(held') <= PoolSize
    BY GivenBack DEF IInv
  <1>2. pc' \in [Owner -> Pcs]
    BY DEF IInv, TypeOK, Goto, Pcs
  <1>3. TypeOK'
    BY <1>1, <1>2 DEF IInv, TypeOK, Pcs
  <1>4. ASSUME NEW e \in Export
        PROVE  JobInv(e)'
    <2>1. CASE e = o
      BY <2>1
    <2>2. CASE e # o
      <3>1. pc'[e] = pc[e]
        BY <2>2 DEF Goto, IInv, TypeOK, Owner
      <3> QED
        BY <2>2, <3>1, Frame DEF IInv
    <2> QED
      BY <2>1, <2>2
  <1> QED
    BY <1>1, <1>3, <1>4 DEF IInv

\* A job goes from one of its statements to another, in a transaction or not.
LEMMA JobReadsOn ==
  ASSUME IInv, NEW e \in Export, NEW to \in JobStatement,
         pc[e] \in JobStatement, Goto(e, to), UNCHANGED held,
         UNCHANGED <<lateExit, current, bound, timeouts>>,
         items' \in [Export -> 0 .. Items]
  PROVE  IInv'
  <1>1. to \in Pcs /\ e \in Owner
    BY DEF Pcs, Statement, Owner
  <1>2. pc'[e] = to
    BY <1>1 DEF Goto, IInv, TypeOK
  <1>3. JobInv(e)'
    BY <1>2
    DEF IInv, JobInv, InStep, JobsOwn, TriggersOwn, JobStatement, JobReads,
        JobCommits
  <1> QED
    BY <1>1, <1>3, StepInv DEF IInv, TypeOK

\* A job commits and goes on.
LEMMA JobCommitsOn ==
  ASSUME IInv, NEW e \in Export,
         NEW to \in JobStatement \cup {"swap", "upload", "closing"},
         pc[e] \in JobStatement, Goto(e, to), held' = held \ {SessionOf(e)},
         UNCHANGED <<lateExit, current, bound, timeouts>>,
         items' \in [Export -> 0 .. Items]
  PROVE  IInv'
  <1>1. to \in Pcs /\ e \in Owner
    BY DEF Pcs, Statement, Owner
  <1>2. pc'[e] = to
    BY <1>1 DEF Goto, IInv, TypeOK
  <1>3. SessionOf(e) = <<e, current[e]>>
    BY SessionOfJob DEF IInv, JobInv
  <1>4. \A g \in Generation : <<e, g>> \notin held'
    BY <1>3 DEF IInv, JobInv, JobsOwn
  <1>5. JobInv(e)'
    BY <1>2, <1>4
    DEF IInv, JobInv, InStep, JobsOwn, TriggersOwn, JobStatement, JobReads,
        JobCommits
  <1> QED
    BY <1>1, <1>5, StepInv DEF IInv, TypeOK

\* Between statements: no connection of the job's own is held.
LEMMA JobMoves ==
  ASSUME IInv, NEW e \in Export, NEW to \in JobStatement,
         pc[e] \in {"upload", "swap"}, Goto(e, to), UNCHANGED held,
         UNCHANGED <<lateExit, current, bound, timeouts>>,
         items' \in [Export -> 0 .. Items]
  PROVE  IInv'
  <1>1. to \in Pcs /\ e \in Owner
    BY DEF Pcs, Statement, Owner
  <1>2. pc'[e] = to
    BY <1>1 DEF Goto, IInv, TypeOK
  <1>3. JobInv(e)'
    BY <1>2
    DEF IInv, JobInv, InStep, JobsOwn, TriggersOwn, JobStatement, JobReads,
        JobCommits
  <1> QED
    BY <1>1, <1>3, StepInv DEF IInv, TypeOK

LEMMA AfterType ==
  ASSUME NEW n
  PROVE  After(n) \subseteq JobStatement
  BY DEF After, JobStatement, JobReads, JobCommits

-----------------------------------------------------------------------------
\* One lemma per action

LEMMA AcquireInv ==
  ASSUME IInv, NEW o \in Owner, Acquire(o)
  PROVE  IInv'
  <1>1. SessionOf(o) \in Session /\ SessionOf(o)[1] = o
    BY SessionOfOwner DEF IInv
  <1>2. /\ IsFiniteSet(held')
        /\ Cardinality(held') = Cardinality(held) + 1
    BY FS_AddElement DEF IInv, Acquire, Waits
  <1>3. Cardinality(held') <= PoolSize
    BY <1>2, FS_CardinalityType, PoolAssumption DEF IInv, Acquire
  <1>4. TypeOK'
    BY <1>1, <1>3 DEF IInv, TypeOK, Acquire, jobVars
  <1>5. ASSUME NEW e \in Export
        PROVE  JobInv(e)'
    <2>1. CASE e # o
      <3>1. \A n : <<e, n>> \in held' => <<e, n>> \in held
        BY <1>1, <2>1 DEF Acquire
      <3> QED
        BY <3>1, Frame DEF IInv, Acquire, jobVars
    <2>2. CASE e = o /\ pc[e] \in JobStatement
      <3>1. held' = held \cup {<<e, current[e]>>}
        BY <2>2, SessionOfJob DEF IInv, JobInv, Acquire
      <3>2. <<e, 0>> \in held' => <<e, 0>> \in held
        BY <3>1 DEF IInv, TypeOK, Generation
      <3>3. pc[e] \notin {"idle", "insert", "reload", "respond", "swap",
                          "upload", "ended"}
        BY <2>2 DEF JobStatement, JobReads, JobCommits
      <3> QED
        BY <3>1, <3>2, <3>3
        DEF IInv, Acquire, jobVars, JobInv, InStep, JobsOwn, TriggersOwn
    <2>3. CASE e = o /\ pc[e] \notin JobStatement
      <3>1. held' = held \cup {<<e, 0>>}
        BY <2>3, SessionOfTrigger DEF Acquire
      <3>2. pc[e] \in {"insert", "reload"}
        BY <2>3 DEF IInv, JobInv, Acquire, Waits, Statement
      <3>3. \A g \in Generation : <<e, g>> \in held' => <<e, g>> \in held
        BY <3>1 DEF Generation
      <3> QED
        BY <3>2, <3>3
        DEF IInv, Acquire, jobVars, JobInv, InStep, JobsOwn, TriggersOwn
    <2> QED
      BY <2>1, <2>2, <2>3
  <1> QED
    BY <1>2, <1>4, <1>5 DEF IInv

LEMMA PoolTimeoutInv ==
  ASSUME IInv, NEW o \in Owner, PoolTimeout(o)
  PROVE  IInv'
  <1>1. CASE o \in Request
    <2>1. o \notin Export
      BY <1>1, PoolAssumption
    <2>2. Goto(o, "idle") /\ "idle" \in Pcs
      BY <1>1 DEF PoolTimeout, Pcs
    <2>3. timeouts' \in 0 .. MaxTimeouts
      BY PoolAssumption DEF PoolTimeout, IInv, TypeOK
    <2> QED
      BY <2>1, <2>2, <2>3, StepInv
      DEF PoolTimeout, IInv, TypeOK, jobVars
  <1>2. CASE o \in Export
    <2>1. PICK to \in {"failing", "closing"} : Goto(o, to)
      BY <1>2, PoolAssumption DEF PoolTimeout
    <2>2. to \in Pcs /\ pc'[o] = to
      BY <2>1 DEF Pcs, Statement, JobStatement, JobCommits, Goto, IInv, TypeOK
    <2>3. timeouts' \in 0 .. MaxTimeouts
      BY PoolAssumption DEF PoolTimeout, IInv, TypeOK
    <2>4. JobInv(o)'
      <3>1. CASE pc[o] \in JobStatement
        BY <1>2, <2>2, <3>1
        DEF IInv, JobInv, InStep, JobsOwn, TriggersOwn, PoolTimeout, jobVars,
            JobStatement, JobReads, JobCommits
      <3>2. CASE pc[o] \notin JobStatement
        <4>1. SessionOf(o) = <<o, 0>> /\ pc[o] \in {"insert", "reload"}
          BY <1>2, <3>2, SessionOfTrigger
          DEF IInv, JobInv, PoolTimeout, Waits, Statement
        <4> QED
          BY <1>2, <2>2, <4>1
          DEF IInv, JobInv, InStep, JobsOwn, TriggersOwn, PoolTimeout,
              jobVars, Waits
      <3> QED
        BY <3>1, <3>2
    <2> QED
      BY <2>1, <2>2, <2>3, <2>4, StepInv
      DEF PoolTimeout, IInv, TypeOK, jobVars
  <1> QED
    BY <1>1, <1>2 DEF Owner

LEMMA TriggerInv ==
  ASSUME IInv, NEW e \in Export, Insert(e) \/ Reload(e) \/ Respond(e)
  PROVE  IInv'
  <1> e \in Owner
    BY DEF Owner
  <1> USE DEF jobVars
  <1>1. /\ lateExit' = lateExit
        /\ UNCHANGED <<current, bound, items, timeouts>>
    BY DEF Insert, Reload, Respond
  <1>2. CASE Insert(e)
    <2>1. PICK to \in {"insert", "reload"} : Goto(e, to)
      BY <1>2 DEF Insert, Commit
    <2>2. to \in Pcs /\ pc'[e] = to
      BY <2>1 DEF Pcs, Statement, Goto, IInv, TypeOK
    <2>3. held' \subseteq held /\ pc[e] \in {"idle", "insert"}
      BY <1>2 DEF Insert, Commit
    <2>4. JobInv(e)'
      BY <1>1, <2>2, <2>3 DEF IInv, JobInv, InStep, JobsOwn, TriggersOwn
    <2> QED
      BY <1>1, <2>1, <2>2, <2>3, <2>4, StepInv DEF IInv, TypeOK
  <1>3. CASE Reload(e)
    <2>1. Goto(e, "respond") /\ held' = held /\ pc[e] = "reload"
      BY <1>3 DEF Reload, Read
    <2>2. "respond" \in Pcs /\ pc'[e] = "respond"
      BY <2>1 DEF Pcs, Goto, IInv, TypeOK
    <2>3. JobInv(e)'
      BY <1>1, <2>1, <2>2 DEF IInv, JobInv, InStep, JobsOwn, TriggersOwn
    <2> QED
      BY <1>1, <2>1, <2>2, <2>3, StepInv DEF IInv, TypeOK
  <1>4. CASE Respond(e)
    <2>1. /\ Goto(e, "early") /\ pc[e] = "respond"
          /\ held' = IF lateExit THEN held ELSE held \ {<<e, 0>>}
      BY <1>4 DEF Respond
    <2>2. "early" \in Pcs /\ pc'[e] = "early"
      BY <2>1 DEF Pcs, Statement, JobStatement, JobReads, Goto, IInv, TypeOK
    <2>3. JobInv(e)'
      BY <1>1, <2>1, <2>2 DEF IInv, JobInv, InStep, JobsOwn, TriggersOwn
    <2> QED
      BY <1>1, <2>1, <2>2, <2>3, StepInv DEF IInv, TypeOK
  <1> QED
    BY <1>2, <1>3, <1>4

\* The statements of a job, all but the swap and the end.
LEMMA WorkInv ==
  ASSUME IInv, NEW e \in Export,
         Begin(e) \/ Series(e) \/ Item(e) \/ Poll(e) \/ Report(e)
  PROVE  IInv'
  <1> USE DEF jobVars, Read, Commit
  <1>1. /\ UNCHANGED <<lateExit, current, bound, timeouts>>
        /\ items' \in [Export -> 0 .. Items]
    BY PoolAssumption DEF Begin, Series, Item, Poll, Report, IInv, TypeOK
  <1>2. pc[e] \in JobStatement
    BY DEF Begin, Series, Item, Poll, Report, JobStatement, JobReads,
           JobCommits
  <1>3. \/ \E to \in JobStatement : Goto(e, to) /\ UNCHANGED held
        \/ \E to \in JobStatement \cup {"swap"} :
              Goto(e, to) /\ held' = held \ {SessionOf(e)}
    <2>1. {"start", "cancelling", "codes", "first", "series", "bulk", "store",
           "report"} \subseteq JobStatement
      BY DEF JobStatement, JobReads, JobCommits
    <2>2. \A n : After(n) \subseteq JobStatement
      BY AfterType
    <2>3. CASE Begin(e)
      BY <2>1, <2>3 DEF Begin
    <2>4. CASE Series(e)
      BY <2>1, <2>2, <2>4 DEF Series
    <2>5. CASE Item(e)
      <3>1. CASE \E to \in {"store"} \cup After(items[e] + 1) :
                    Goto(e, to) /\ UNCHANGED held
        BY <2>1, <2>2, <3>1
      <3>2. CASE \E to \in After(items[e]) :
                    Goto(e, to) /\ held' = held \ {SessionOf(e)}
        BY <2>2, <3>2
      <3> QED
        BY <2>5, <3>1, <3>2 DEF Item
    <2>6. CASE Poll(e)
      BY <2>1, <2>6 DEF Poll
    <2>7. CASE Report(e)
      BY <2>7 DEF Report
    <2> QED
      BY <2>3, <2>4, <2>5, <2>6, <2>7
  <1> QED
    BY <1>1, <1>2, <1>3, JobReadsOn, JobCommitsOn

LEMMA RaisesInv ==
  ASSUME IInv, NEW e \in Export, Raises(e)
  PROVE  IInv'
  <1>1. PICK to \in {"failing", "closing"} :
           /\ Goto(e, to)
           /\ to = "failing" => pc[e] \in JobStatement
    BY DEF Raises, InTry
  <1>2. to \in Pcs /\ e \in Owner /\ pc'[e] = to
    BY <1>1
    DEF Pcs, Statement, JobStatement, JobCommits, Owner, Goto, IInv, TypeOK
  <1>3. JobInv(e)'
    BY <1>1, <1>2
    DEF Raises, jobVars, IInv, JobInv, InStep, JobsOwn, TriggersOwn,
        JobStatement, JobReads, JobCommits
  <1> QED
    BY <1>1, <1>2, <1>3, StepInv DEF Raises, jobVars, IInv, TypeOK

LEMMA EndInv ==
  ASSUME IInv, NEW e \in Export, Finish(e) \/ Fail(e)
  PROVE  IInv'
  <1> USE DEF jobVars, Read, Commit
  <1>1. /\ UNCHANGED <<lateExit, current, bound, timeouts>>
        /\ items' \in [Export -> 0 .. Items]
    BY DEF Finish, Fail, IInv, TypeOK
  <1>2. \/ /\ pc[e] \in JobStatement
           /\ \E to \in {"lastReport", "cancelling", "failing"} :
                 Goto(e, to) /\ UNCHANGED held
        \/ /\ pc[e] \in JobStatement
           /\ \E to \in {"upload", "closing"} :
                 Goto(e, to) /\ held' = held \ {SessionOf(e)}
        \/ /\ pc[e] = "upload"
           /\ \E to \in {"succeed", "failing"} : Goto(e, to) /\ UNCHANGED held
    BY DEF Finish, Fail, JobStatement, JobReads, JobCommits
  <1>3. {"lastReport", "cancelling", "failing", "succeed"} \subseteq JobStatement
    BY DEF JobStatement, JobCommits
  <1> QED
    BY <1>1, <1>2, <1>3, JobReadsOn, JobCommitsOn, JobMoves

\* The swap: all repositories move, and no connection moves with them.
LEMMA SwapInv ==
  ASSUME IInv, NEW e \in Export, RefreshIfDue(e)
  PROVE  IInv'
  <1>1. PICK to \in JobStatement : Goto(e, to)
    BY AfterType DEF RefreshIfDue, JobStatement, JobReads
  <1>2. items' \in [Export -> 0 .. Items]
    BY PoolAssumption DEF RefreshIfDue, IInv, TypeOK
  <1>3. pc[e] = "swap" /\ UNCHANGED <<lateExit, timeouts>>
    BY DEF RefreshIfDue
  <1>4. CASE UNCHANGED <<held, current, bound>>
    BY <1>1, <1>2, <1>3, <1>4, JobMoves
  <1>5. CASE /\ current[e] + 1 \in Generation
             /\ current' = [current EXCEPT ![e] = @ + 1]
             /\ bound' = [bound EXCEPT ![e] = Rebound(e, current[e] + 1)]
             /\ held' = held \ {<<e, current[e]>>}
    <2>1. to \in Pcs /\ e \in Owner /\ pc'[e] = to
      BY <1>1 DEF Pcs, Statement, Owner, Goto, IInv, TypeOK
    <2>2. /\ current' \in [Export -> Generation]
          /\ bound' \in [Export -> [Repository -> Generation]]
      BY <1>5 DEF IInv, TypeOK, Rebound
    <2>3. InStep(e)'
      BY <1>5 DEF IInv, TypeOK, InStep, Rebound
    <2>4. \A g \in Generation : <<e, g>> \notin held'
      BY <1>3, <1>5 DEF IInv, JobInv, JobsOwn
    <2>5. JobInv(e)'
      BY <1>3, <1>5, <2>1, <2>3, <2>4
      DEF IInv, JobInv, JobsOwn, TriggersOwn, JobStatement, JobReads,
          JobCommits
    <2>6. \A f \in Export \ {e} : /\ current'[f] = current[f]
                                  /\ bound'[f] = bound[f]
      BY <1>5 DEF IInv, TypeOK
    <2> QED
      BY <1>1, <1>2, <1>3, <1>5, <2>1, <2>2, <2>5, <2>6, StepInv
      DEF IInv, TypeOK
  <1> QED
    BY <1>4, <1>5 DEF RefreshIfDue

\* The end of a task gives back whatever it still has.
LEMMA CloseInv ==
  ASSUME IInv, NEW e \in Export, Close(e)
  PROVE  IInv'
  <1>1. /\ "ended" \in Pcs /\ e \in Owner /\ Goto(e, "ended")
        /\ pc'[e] = "ended"
    BY DEF Pcs, Owner, Close, Goto, IInv, TypeOK
  <1>2. /\ <<e, 0>> \notin held'
        /\ \A g \in Generation : <<e, g>> \notin held'
    BY DEF Close, Closed, IInv, JobInv, JobsOwn
  <1>3. JobInv(e)'
    BY <1>1, <1>2
    DEF Close, jobVars, IInv, JobInv, InStep, JobsOwn, TriggersOwn
  <1> QED
    BY <1>1, <1>3, StepInv DEF Close, Closed, jobVars, IInv, TypeOK

LEMMA RequestInv ==
  ASSUME IInv, NEW r \in Request, Serve(r) \/ Proceed(r)
  PROVE  IInv'
  <1>1. r \in Owner /\ r \notin Export
    BY PoolAssumption DEF Owner
  <1>2. PICK to \in {"statement", "busy", "idle"} : Goto(r, to)
    BY DEF Serve, Proceed, Read, Commit
  <1>3. to \in Pcs
    BY DEF Pcs, Statement
  <1> QED
    BY <1>1, <1>2, <1>3, StepInv
    DEF Serve, Proceed, Read, Commit, jobVars, IInv, TypeOK

-----------------------------------------------------------------------------
\* Theorems

LEMMA InitInv ==
  ASSUME Init
  PROVE  IInv
  <1>1. IsFiniteSet(held) /\ Cardinality(held) = 0
    BY FS_EmptySet DEF Init
  <1>2. 1 \in Generation /\ 0 \in 0 .. Items /\ 0 \in 0 .. MaxTimeouts
    BY PoolAssumption DEF Generation
  <1>3. Cardinality(held) <= PoolSize
    BY <1>1, PoolAssumption
  <1>4. TypeOK
    BY <1>2, <1>3 DEF Init, TypeOK
  <1>5. \A e \in Export : JobInv(e)
    BY DEF Init, JobInv, InStep, JobsOwn, TriggersOwn, Owner
  <1> QED
    BY <1>1, <1>4, <1>5 DEF IInv

LEMMA NextInv ==
  ASSUME IInv, [Next]_vars
  PROVE  IInv'
  <1>1. CASE UNCHANGED vars
    BY <1>1
    DEF vars, jobVars, IInv, TypeOK, JobInv, InStep, JobsOwn, TriggersOwn
  <1>2. CASE Next
    BY <1>2, AcquireInv, PoolTimeoutInv, TriggerInv, WorkInv, RaisesInv, EndInv, SwapInv,
       CloseInv, RequestInv
    DEF Next, ExportStep
  <1> QED
    BY <1>1, <1>2

\* The inductive invariant holds in every state an execution reaches.
THEOREM Invariance == Spec => []IInv
  BY InitInv, NextInv, PTL DEF Spec

\* The pool never has more than PoolSize connections out, and everything stays
\* in its type.
THEOREM TypeCorrect == Spec => []TypeOK
  <1>1. IInv => TypeOK
    BY DEF IInv
  <1> QED
    BY <1>1, Invariance, PTL

\* The repositories of a job never use two connections, however often its
\* session is replaced.
THEOREM OneConnection == Spec => []OneConnectionPerJob
  <1>1. IInv => OneConnectionPerJob
    BY DEF IInv, JobInv, JobsOwn, OneConnectionPerJob
  <1> QED
    BY <1>1, Invariance, PTL

\* No transaction is open where a session is replaced or a file uploaded.
THEOREM NothingCutOff == Spec => []NothingOpenAtSwapOrUpload
  <1>1. IInv => NothingOpenAtSwapOrUpload
    BY DEF IInv, JobInv, JobsOwn, NothingOpenAtSwapOrUpload
  <1> QED
    BY <1>1, Invariance, PTL

\* A task that has ended has given back all connections.
THEOREM NothingLeaked == Spec => []EndedHoldsNothing
  <1>1. ASSUME IInv, NEW e \in Export, pc[e] = "ended", NEW s \in held,
               s[1] = e
        PROVE  FALSE
    <2>1. s = <<e, 0>> \/ \E g \in Generation : s = <<e, g>>
      BY <1>1 DEF IInv, TypeOK, Session
    <2> QED
      BY <1>1, <2>1 DEF IInv, JobInv, JobsOwn, TriggersOwn
  <1>2. IInv => EndedHoldsNothing
    BY <1>1 DEF EndedHoldsNothing
  <1> QED
    BY <1>2, Invariance, PTL

\* Who waits while it holds a connection is a trigger whose session is open.
LEMMA WaitingHolder ==
  ASSUME IInv, NEW s \in held, Waits(s[1])
  PROVE  lateExit /\ s \in Export \X {0}
  <1>1. \/ \E o \in Owner : s = <<o, 0>>
        \/ \E e \in Export : \E g \in Generation : s = <<e, g>>
    BY DEF IInv, TypeOK, Session
  <1>2. ASSUME NEW o \in Owner, s = <<o, 0>>
        PROVE  lateExit /\ s \in Export \X {0}
    <2>1. o \in Export /\ pc[o] \in JobStatement
      BY <1>2, SessionOfTrigger DEF Waits
    <2>2. pc[o] \notin {"insert", "reload", "respond", "closing"}
      BY <2>1 DEF JobStatement, JobReads, JobCommits
    <2> QED
      BY <1>2, <2>1, <2>2 DEF IInv, JobInv, TriggersOwn
  <1>3. ASSUME NEW e \in Export, NEW g \in Generation, s = <<e, g>>
        PROVE  FALSE
    <2>1. pc[e] \in JobStatement /\ g = current[e]
      BY <1>3 DEF Waits, Statement, IInv, JobInv, JobsOwn
    <2> QED
      BY <1>3, <2>1, SessionOfJob DEF Waits, IInv, JobInv
  <1> QED
    BY <1>1, <1>2, <1>3

LEMMA StalledByTriggers ==
  ASSUME IInv
  PROVE  OnlyTriggersStall
  <1>1. SUFFICES ASSUME Stalled
                 PROVE  lateExit /\ held \subseteq Export \X {0}
    BY DEF OnlyTriggersStall
  <1>2. held # {}
    BY <1>1, FS_EmptySet, PoolAssumption DEF Stalled
  <1>3. \A s \in held : lateExit /\ s \in Export \X {0}
    BY <1>1, WaitingHolder DEF Stalled
  <1> QED
    BY <1>2, <1>3

\* All connections are with tasks that wait for another only where every one
\* is kept by the request session of a trigger, which FastAPI closes late.
THEOREM StallsAreTriggers == Spec => []OnlyTriggersStall
  BY StalledByTriggers, Invariance, PTL

\* So a pool with a connection more than exports triggered on the instance, or
\* with sessions closed before the background task starts, never stalls.
THEOREM EnoughNeverStalls == Spec => [](EnoughConnections => ~Stalled)
  <1>1. ASSUME IInv, EnoughConnections, Stalled
        PROVE  FALSE
    <2>1. lateExit /\ held \subseteq Export \X {0}
      BY <1>1, StalledByTriggers DEF OnlyTriggersStall
    <2>2. Cardinality(Export) < PoolSize
      BY <1>1, <2>1 DEF EnoughConnections
    <2>3. /\ IsFiniteSet(Export \X {0})
          /\ Cardinality(Export \X {0}) = Cardinality(Export) * Cardinality({0})
      BY FS_Singleton, FS_Product, PoolAssumption
    <2>4. Cardinality(Export) \in Nat /\ Cardinality({0}) = 1
      BY FS_CardinalityType, FS_Singleton, PoolAssumption
    <2>5. Cardinality(held) <= Cardinality(Export \X {0})
      BY <2>1, <2>3, FS_Subset
    <2>6. Cardinality(held) = PoolSize
      BY <1>1 DEF Stalled
    <2> QED
      BY <2>2, <2>3, <2>4, <2>5, <2>6, PoolAssumption
  <1>2. IInv => (EnoughConnections => ~Stalled)
    BY <1>1
  <1> QED
    BY <1>2, Invariance, PTL

=============================================================================

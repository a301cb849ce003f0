----------------------- MODULE MonthlyCoverageProofs -----------------------
(***************************************************************************)
(* Further theorems about MonthlySync: brackets leave no gap under their   *)
(* last bound, and a sync that answers has closed the gaps of its window.  *)
(***************************************************************************)
EXTENDS MonthlySyncProofs

-----------------------------------------------------------------------------
\* Brackets

\* A stored month has all rows of some version of its table, and as long as there
\* was one version none but its rows, of which no two clash.
BracketRows ==
    \A m \in Month :
        /\ m \in stored[Brackets] =>
              \E v \in 1 .. version[m] : /\ Built(Tables[m][v]) # {}
                                         /\ Built(Tables[m][v]) \subseteq bracket[m]
        /\ m \in stored[Brackets] /\ version[m] = 1 =>
              /\ bracket[m] = Built(Tables[m][1])
              /\ ~Clashes(Tables[m][1])
        /\ m \notin stored[Brackets] => bracket[m] = {}

\* What a worker has in hand gave brackets when it was read.
InHand ==
    \A w \in Worker : pc[w] = "writeYear" =>
        \A m \in got[w] : Built(Fetched(w, m)) # {}

RowInv == BracketRows /\ InHand

LEMMA StoreBracketsRows ==
  ASSUME Typed, RowInv, NEW w \in Worker, pc[w] = "writeYear",
         Upsertable(w), StoreBrackets(w), UNCHANGED version
  PROVE  BracketRows'
  <1> SUFFICES ASSUME NEW m \in Month
               PROVE  /\ m \in stored'[Brackets] =>
                            \E v \in 1 .. version[m] :
                               /\ Built(Tables[m][v]) # {}
                               /\ Built(Tables[m][v]) \subseteq bracket'[m]
                      /\ m \in stored'[Brackets] /\ version[m] = 1 =>
                            /\ bracket'[m] = Built(Tables[m][1])
                            /\ ~Clashes(Tables[m][1])
                      /\ m \notin stored'[Brackets] => bracket'[m] = {}
    BY DEF BracketRows
  <1>1. /\ m \in stored[Brackets] =>
              \E v \in 1 .. version[m] :
                 /\ Built(Tables[m][v]) # {}
                 /\ Built(Tables[m][v]) \subseteq bracket[m]
        /\ m \in stored[Brackets] /\ version[m] = 1 =>
              /\ bracket[m] = Built(Tables[m][1])
              /\ ~Clashes(Tables[m][1])
        /\ m \notin stored[Brackets] => bracket[m] = {}
    BY DEF RowInv, BracketRows
  <1>2. stored'[Brackets] = stored[Brackets] \cup got[w]
    BY SeriesProperties DEF StoreBrackets, Typed, TypeOK
  <1>3. CASE m \notin got[w]
    <2>1. bracket'[m] = bracket[m]
      BY <1>3 DEF StoreBrackets
    <2> QED
      BY <1>1, <1>2, <1>3, <2>1
  <1>4. CASE m \in got[w]
    <2> DEFINE v == read[w][m]
    <2>1. v \in 1 .. version[m] /\ Fetched(w, m) = Tables[m][v]
      BY <1>4, ReadIsVersion
    <2>2. bracket'[m] = Upserted(bracket[m], Built(Tables[m][v]))
      BY <1>4, <2>1 DEF StoreBrackets
    <2>3. Built(Tables[m][v]) # {} /\ ~Clashes(Tables[m][v])
      BY <1>4, <2>1 DEF RowInv, InHand, Upsertable
    <2>4. Built(Tables[m][v]) \subseteq bracket'[m]
      BY <2>2, UpsertedProperties
    <2>5. ASSUME version[m] = 1
          PROVE  bracket'[m] = Built(Tables[m][1]) /\ ~Clashes(Tables[m][1])
      <3>1. v = 1
        BY <2>1, <2>5
      <3>2. bracket[m] \subseteq Built(Tables[m][1])
        BY <1>1, <2>5
      <3> QED
        BY <2>2, <2>3, <3>1, <3>2, UpsertedProperties
    <2> HIDE DEF v
    <2> QED
      BY <1>2, <1>4, <2>1, <2>3, <2>4, <2>5
  <1> QED
    BY <1>3, <1>4

\* Rows in hand are forgotten or stay as they are.
LEMMA KeepsInHand ==
  ASSUME InHand,
         \A w \in Worker : pc'[w] = "writeYear" =>
            pc[w] = "writeYear" /\ got'[w] = got[w] /\ read'[w] = read[w]
  PROVE  InHand'
  BY DEF InHand, Fetched

LEMMA TakesInHand ==
  ASSUME Typed, InHand, NEW w \in Worker, NEW y, TakePage(w, Page(y)),
         \A v \in Worker \ {w} : pc'[v] = pc[v]
  PROVE  InHand'
  <1> SUFFICES ASSUME NEW v \in Worker, pc'[v] = "writeYear", NEW m \in got'[v]
               PROVE  Built(Tables[m][read'[v][m]]) # {}
    BY DEF InHand, Fetched
  <1>1. CASE v = w
    <2>1. m \in Page(y) /\ read'[w][m] = version[m]
      BY <1>1, TakePageTyped
    <2> QED
      BY <1>1, <2>1 DEF Page
  <1>2. CASE v # w
    <2>1. pc[v] = "writeYear" /\ got'[v] = got[v] /\ read'[v] = read[v]
      BY <1>2, TakePageTyped
    <2> QED
      BY <2>1 DEF InHand, Fetched
  <1> QED
    BY <1>1, <1>2

\* A step of a sync.
LEMMA SyncRows ==
  ASSUME Typed, RowInv, NEW s \in Syncer,
         StartSync(s) \/ SyncStep(s) \/ SyncDies(s)
  PROVE  RowInv'
  <1> s \in Worker
    BY Workers
  <1>0. ASSUME UNCHANGED <<version, bracket>>, stored'[Brackets] = stored[Brackets]
        PROVE  BracketRows'
    BY <1>0 DEF RowInv, BracketRows
  <1>1. ASSUME Leave(s) PROVE InHand'
    <2>1. Forget(s) /\ pc'[s] = "idle" /\ \A w \in Worker \ {s} : pc'[w] = pc[w]
      BY <1>1 DEF Leave, Goto, Typed, TypeOK
    <2> QED
      BY <2>1, ForgetTyped, KeepsInHand DEF RowInv
  <1>2. CASE SyncDies(s) \/ FinishSync(s)
    BY <1>0, <1>1, <1>2 DEF SyncDies, FinishSync, page, rows, RowInv
  <1>3. CASE StartSync(s) \/ CollectMissing(s) \/ ListYear(s)
    <2>1. /\ pc'[s] # "writeYear" /\ \A w \in Worker \ {s} : pc'[w] = pc[w]
          /\ UNCHANGED <<got, read, version, rows>>
      BY <1>3
      DEF StartSync, CollectMissing, ListYear, NextYear, Goto, page, Typed, TypeOK
    <2> QED
      BY <1>0, <2>1, KeepsInHand DEF RowInv, rows
  <1>4. ASSUME NEW months \in SUBSET Month, SyncFetch(s, months)
        PROVE  RowInv'
    <2>1. /\ pc'[s] # "writeYear" /\ \A w \in Worker \ {s} : pc'[w] = pc[w]
          /\ \A w \in Worker \ {s} : got'[w] = got[w]
          /\ UNCHANGED <<read, version, rows>>
      BY <1>4 DEF SyncFetch, NextSeries, Goto, page, Typed, TypeOK
    <2> QED
      BY <1>0, <2>1, KeepsInHand DEF RowInv, rows
  <1>5. CASE SyncWrite(s)
    <2>1. Current(s) # Brackets
      BY <1>5, QueueProperties DEF SyncWrite
    <2>2. stored'[Brackets] = stored[Brackets]
      BY <1>5, <2>1, SeriesProperties DEF SyncWrite, Typed, TypeOK
    <2>3. /\ pc'[s] # "writeYear" /\ \A w \in Worker \ {s} : pc'[w] = pc[w]
          /\ \A w \in Worker \ {s} : got'[w] = got[w]
          /\ UNCHANGED <<read, version, bracket>>
      BY <1>5 DEF SyncWrite, NextSeries, Goto, page, Typed, TypeOK
    <2> QED
      BY <1>0, <2>2, <2>3, KeepsInHand DEF RowInv
  <1>6. CASE FetchYear(s)
    <2>1. UNCHANGED <<version, rows>>
      BY <1>6 DEF FetchYear, page
    <2>2. CASE NextYear(s) /\ UNCHANGED <<got, read>>
      <3>1. pc'[s] # "writeYear" /\ \A w \in Worker \ {s} : pc'[w] = pc[w]
        BY <2>2, NextYearTyped
      <3> QED
        BY <1>0, <2>1, <2>2, <3>1, KeepsInHand DEF RowInv, rows
    <2>3. CASE TakePage(s, Page(CurrentYear(s))) /\ Goto(s, "writeYear")
      <3>1. \A w \in Worker \ {s} : pc'[w] = pc[w]
        BY <2>3 DEF Goto, Typed, TypeOK
      <3> QED
        BY <1>0, <2>1, <2>3, <3>1, TakesInHand DEF RowInv, rows
    <2> QED
      BY <1>6, <2>2, <2>3 DEF FetchYear
  <1>7. CASE WriteYear(s)
    <2>1. pc[s] = "writeYear" /\ UNCHANGED version
      BY <1>7 DEF WriteYear, page
    <2>2. CASE Upsertable(s)
      <3>1. StoreBrackets(s) /\ NextYear(s) /\ Forget(s)
        BY <1>7, <2>2 DEF WriteYear, StoreBrackets
      <3>2. InHand'
        BY <3>1, ForgetTyped, NextYearTyped, KeepsInHand DEF RowInv
      <3> QED
        BY <2>1, <2>2, <3>1, <3>2, StoreBracketsRows DEF RowInv
    <2>3. CASE ~Upsertable(s)
      <3>1. Leave(s) /\ UNCHANGED rows
        BY <1>7, <2>3 DEF WriteYear
      <3> QED
        BY <1>0, <1>1, <2>1, <3>1 DEF rows, RowInv
    <2> QED
      BY <2>2, <2>3
  <1> QED
    BY <1>2, <1>3, <1>4, <1>5, <1>6, <1>7 DEF SyncStep

LEMMA RefreshRows ==
  ASSUME Typed, RowInv, NEW r \in Refresher,
         RefreshWrite(r) \/ \E y \in Year : RefreshFetch(r, y)
  PROVE  RowInv'
  <1> r \in Worker
    BY Workers
  <1>0. ASSUME UNCHANGED <<version, rows>>
        PROVE  BracketRows'
    BY <1>0 DEF rows, RowInv, BracketRows
  <1>1. CASE RefreshWrite(r)
    <2>1. /\ pc[r] = "writeYear" /\ UNCHANGED version /\ Forget(r)
          /\ pc'[r] = "idle" /\ \A w \in Worker \ {r} : pc'[w] = pc[w]
      BY <1>1 DEF RefreshWrite, StoreBrackets, Goto, page, Typed, TypeOK
    <2>2. InHand'
      BY <2>1, ForgetTyped, KeepsInHand DEF RowInv
    <2>3. CASE Upsertable(r)
      BY <1>1, <2>1, <2>2, <2>3, StoreBracketsRows DEF RefreshWrite, RowInv
    <2>4. CASE ~Upsertable(r)
      BY <1>0, <1>1, <2>1, <2>2, <2>4 DEF RefreshWrite, RowInv
    <2> QED
      BY <2>3, <2>4
  <1>2. ASSUME NEW y \in Year, RefreshFetch(r, y)
        PROVE  RowInv'
    <2>1. /\ TakePage(r, Page(y)) /\ UNCHANGED <<version, rows>>
          /\ \A w \in Worker \ {r} : pc'[w] = pc[w]
      BY <1>2 DEF RefreshFetch, Goto, page, Typed, TypeOK
    <2> QED
      BY <1>0, <2>1, TakesInHand DEF RowInv
  <1> QED
    BY <1>1, <1>2

\* The table of a stored month stays, or is corrected.
Onward ==
    \A m \in Month : \/ version'[m] = version[m]
                     \/ m \notin stored[Brackets]
                     \/ /\ version'[m] \in Nat
                        /\ version'[m] > 1 /\ version'[m] > version[m]

LEMMA NextRows ==
  ASSUME Typed, RowInv, [Next]_vars
  PROVE  RowInv'
  <1>1. ASSUME UNCHANGED <<version, rows, pc, got, read>>
        PROVE  RowInv'
    BY <1>1 DEF rows, RowInv, BracketRows, InHand, Fetched
  <1>2. CASE UNCHANGED vars \/ NextMonth
    BY <1>1, <1>2 DEF vars, page, rows, NextMonth
  <1>3. ASSUME UNCHANGED <<rows, pc, got, read>>, Onward
        PROVE  RowInv'
    <2>1. InHand'
      BY <1>3 DEF RowInv, InHand, Fetched
    <2>2. ASSUME NEW m \in Month, m \in stored[Brackets]
          PROVE  1 .. version[m] \subseteq 1 .. version'[m]
      <3>1. version[m] \in Nat
        BY DEF Typed, TypeOK
      <3>2. \/ version'[m] = version[m]
            \/ version'[m] \in Nat /\ version'[m] > version[m]
        BY <1>3, <2>2 DEF Onward
      <3>3. CASE version'[m] = version[m]
        BY <3>3
      <3>4. CASE version'[m] \in Nat /\ version'[m] > version[m]
        BY <3>1, <3>4
      <3> QED
        BY <3>2, <3>3, <3>4
    <2>3. \A m \in stored[Brackets] \cap Month : version'[m] = 1 => version[m] = 1
      BY <1>3 DEF Onward, Typed, TypeOK
    <2> QED
      BY <1>3, <2>1, <2>2, <2>3 DEF rows, RowInv, BracketRows
  <1>4. ASSUME NEW k \in Kind, Publish(k)
        PROVE  RowInv'
    <2>1. UNCHANGED <<rows, pc, got, read>>
      BY <1>4 DEF Publish
    <2>2. \A m \in Month : version'[m] # version[m] =>
             version[m] = 0 /\ version'[m] = 1
      BY <1>4, PublishTyped DEF Typed
    <2>3. \A m \in Month : version[m] = 0 => m \notin stored[Brackets]
      BY DEF RowInv, BracketRows
    <2> QED
      BY <1>3, <2>1, <2>2, <2>3 DEF Onward
  <1>5. ASSUME NEW m \in Month, Correct(m)
        PROVE  RowInv'
    <2>1. /\ UNCHANGED <<rows, pc, got, read>>
          /\ version[m] \in 1 .. Len(Tables[m]) - 1
          /\ version' = [version EXCEPT ![m] = @ + 1]
      BY <1>5 DEF Correct
    <2>2. Onward
      BY <2>1, Versions DEF Onward, Typed, TypeOK
    <2> QED
      BY <1>3, <2>1, <2>2
  <1> QED
    BY <1>2, <1>4, <1>5, SyncRows, RefreshRows DEF Next

LEMMA InitRows == Init => RowInv
  BY SeriesProperties DEF Init, RowInv, BracketRows, InHand, Nothing, Unread

LEMMA RowsLeaveNoGap ==
  ASSUME Typed, RowInv
  PROVE  BracketsLeaveNoGap
  <1> SUFFICES ASSUME NEW m \in stored[Brackets]
               PROVE  /\ \E v \in 1 .. version[m] :
                            /\ Built(Tables[m][v]) # {}
                            /\ \A income \in Income :
                                  Under(income, Built(Tables[m][v])) =>
                                     Matching(m, income) # {}
                      /\ version[m] = 1 /\ Ascends(Tables[m][1]) =>
                            \A income \in Income :
                               Cardinality(Matching(m, income)) <= 1
    BY DEF BracketsLeaveNoGap
  <1>1. m \in Month
    BY SeriesProperties DEF Typed, TypeOK
  <1>2. \A v \in 1 .. version[m] : Tables[m][v] \in Seq(PageRow)
    <2>1. version[m] \in Nat /\ version[m] <= Len(Tables[m])
      BY <1>1 DEF Typed, TypeOK
    <2> QED
      BY <1>1, <2>1, Versions
  <1>3. PICK v \in 1 .. version[m] : /\ Built(Tables[m][v]) # {}
                                     /\ Built(Tables[m][v]) \subseteq bracket[m]
    BY <1>1 DEF RowInv, BracketRows
  <1>4. ASSUME NEW income \in Income, Under(income, Built(Tables[m][v]))
        PROVE  Matching(m, income) # {}
    <2>1. PICK row \in Built(Tables[m][v]) : row[1] <= income /\ income < row[2]
      BY <1>2, <1>4, BuiltLeavesNoGap
    <2> QED
      BY <1>3, <2>1 DEF Matching
  <1>5. ASSUME version[m] = 1, Ascends(Tables[m][1]), NEW income \in Income
        PROVE  Cardinality(Matching(m, income)) <= 1
    <2>1. bracket[m] = Built(Tables[m][1]) /\ ~Clashes(Tables[m][1])
      BY <1>1, <1>5 DEF RowInv, BracketRows
    <2>2. Tables[m][1] \in Seq(PageRow)
      BY <1>2, <1>5
    <2>3. \A r1, r2 \in Matching(m, income) : r1 = r2
      BY <1>5, <2>1, <2>2, BuiltIsDisjoint DEF Matching
    <2>4. CASE Matching(m, income) = {}
      BY <2>4, FS_EmptySet
    <2>5. CASE Matching(m, income) # {}
      <3>1. PICK row : Matching(m, income) = {row}
        BY <2>3, <2>5
      <3>2. Cardinality({row}) = 1
        BY FS_Singleton
      <3> QED
        BY <3>1, <3>2
    <2> QED
      BY <2>4, <2>5
  <1> QED
    BY <1>3, <1>4, <1>5

\* Under the last bound that was read of some version of its table every taxable
\* base of a stored month has a bracket, and never two while the page did not
\* correct it, whatever rows and amounts the page lacks and in whatever order
\* syncs and refreshes upsert what they read of it.
THEOREM NoGapInBrackets == Spec => []BracketsLeaveNoGap
  BY Types, InitTyped, InitRows, NextRows, RowsLeaveNoGap, PTL DEF Spec

-----------------------------------------------------------------------------
\* What a sync has covered

AtYears == {"list", "fetchYear", "writeYear"}

\* A series that is done is covered; one that is not, will be when all that is
\* published of the months it wants is stored.
CoversSeries(s, k) ==
    /\ (pc[s] = "collect" /\ k \notin Waiting(s)) \/ pc[s] \in {"fetch", "write"} =>
          due[s][k] \subseteq stored[k] \cup want[s][k]
    /\ (pc[s] \in {"fetch", "write"} /\ k \notin Waiting(s)) \/ pc[s] \in AtYears =>
          due[s][k] \subseteq stored[k]
    /\ pc[s] = "write" /\ k = Current(s) =>
          due[s][k] \cap want[s][k] \subseteq got[s]

\* The months whose brackets were due and have always been on the page.
Expected(s, y) == {m \in due[s][Brackets] \cap MonthsOf(y) : AlwaysLegible(m)}

\* A year in which such brackets were due has some.
Reached(s, y) == Expected(s, y) # {} => stored[Brackets] \cap MonthsOf(y) # {}

\* A step reaches year y, if it was not reached before.
Reaches(s, y) == Expected(s, y) # {} => stored'[Brackets] \cap MonthsOf(y) # {}

Covering(s) ==
    /\ pc[s] # "idle" =>
          \A k \in Kind : due[s][k] \subseteq window[s] \cap published[k]
    /\ pc[s] = "writeYear" =>
          got[s] # {} /\ got[s] \subseteq MonthsOf(CurrentYear(s))
    /\ clean[s] => \A k \in Kind \ {Brackets} : CoversSeries(s, k)
    /\ clean[s] /\ pc[s] \in AtYears =>
          \A m \in window[s] : YearOf(m) \notin years[s] => Reached(s, YearOf(m))

CoverInv == \A s \in Syncer : Covering(s)

\* Rows are never deleted, nothing is withdrawn that was published, and no
\* version of a table comes back.
Grows == /\ \A k \in Kind : /\ stored[k] \subseteq stored'[k]
                            /\ published[k] \subseteq published'[k]
         /\ \A m \in Month : 1 .. version[m] \subseteq 1 .. version'[m]

LEMMA StillGrows ==
  ASSUME UNCHANGED <<published, version, stored>>
  PROVE  Grows
  BY DEF Grows

\* What is reached stays so.
LEMMA ExpectedShrinks ==
  ASSUME NEW s \in Syncer, NEW y, Grows, due'[s] = due[s]
  PROVE  Expected(s, y)' \subseteq Expected(s, y)
  <1> SUFFICES ASSUME NEW m \in due'[s][Brackets] \cap MonthsOf(y),
                      \A v \in 1 .. version'[m] : Built(Tables[m][v]) # {}
               PROVE  m \in Expected(s, y)
    BY DEF Expected, AlwaysLegible
  <1>1. 1 .. version[m] \subseteq 1 .. version'[m]
    BY DEF Grows, MonthsOf
  <1>2. AlwaysLegible(m)
    BY <1>1 DEF AlwaysLegible
  <1> QED
    BY <1>2 DEF Expected

LEMMA ReachedStays ==
  ASSUME NEW s \in Syncer, NEW y, Grows, due'[s] = due[s],
         Reached(s, y) \/ Reaches(s, y)
  PROVE  Reached(s, y)'
  <1>1. stored[Brackets] \subseteq stored'[Brackets]
    BY SeriesProperties DEF Grows
  <1>2. Expected(s, y)' # {} => stored'[Brackets] \cap MonthsOf(y) # {}
    BY <1>1, ExpectedShrinks DEF Reached, Reaches
  <1> QED
    BY <1>2 DEF Reached

\* What a step of somebody else leaves alone of sync s.
Aside(s) ==
    /\ pc'[s] = pc[s] /\ queue'[s] = queue[s] /\ want'[s] = want[s]
    /\ got'[s] = got[s] /\ window'[s] = window[s] /\ due'[s] = due[s]
    /\ clean'[s] = clean[s] /\ years'[s] = years[s]

LEMMA AsideCovering ==
  ASSUME NEW s \in Syncer, Covering(s), Aside(s), Grows
  PROVE  Covering(s)'
  <1>1. /\ Waiting(s)' = Waiting(s) /\ Current(s)' = Current(s)
        /\ CurrentYear(s)' = CurrentYear(s)
    BY DEF Aside, Waiting, Current, CurrentYear
  <1>2. ASSUME NEW k \in Kind \ {Brackets}, CoversSeries(s, k)
        PROVE  CoversSeries(s, k)'
    BY <1>1, <1>2 DEF Aside, Grows, CoversSeries
  <1>3. ASSUME NEW m \in window[s], Reached(s, YearOf(m))
        PROVE  Reached(s, YearOf(m))'
    BY <1>3, ReachedStays DEF Aside
  <1>4. pc'[s] # "idle" =>
          \A k \in Kind : due'[s][k] \subseteq window'[s] \cap published'[k]
    BY DEF Aside, Grows, Covering
  <1>5. pc'[s] = "writeYear" =>
          got'[s] # {} /\ got'[s] \subseteq MonthsOf(CurrentYear(s)')
    BY <1>1 DEF Aside, Covering
  <1>6. clean'[s] => \A k \in Kind \ {Brackets} : CoversSeries(s, k)'
    BY <1>2 DEF Aside, Covering
  <1>7. clean'[s] /\ pc'[s] \in AtYears =>
          \A m \in window'[s] : YearOf(m) \notin years'[s] => Reached(s, YearOf(m))'
    BY <1>3 DEF Aside, Covering
  <1> QED
    BY <1>4, <1>5, <1>6, <1>7 DEF Covering

\* A sync that starts, or that leaves, has covered nothing yet.
LEMMA StartCovering ==
  ASSUME Typed, NEW s \in Syncer, StartSync(s)
  PROVE  Covering(s)'
  <1> s \in Worker
    BY Workers
  <1>1. PICK months \in SUBSET Month :
           /\ window' = [window EXCEPT ![s] = months]
           /\ due' = [due EXCEPT ![s] =
                         [k \in Kind |-> months \cap published[k]]]
    BY DEF StartSync
  <1>2. pc'[s] = "collect" /\ queue'[s] = Series /\ UNCHANGED published
    BY DEF StartSync, Goto, page, Typed, TypeOK
  <1>3. \A k \in Kind : due'[s][k] \subseteq window'[s] \cap published[k]
    BY <1>1 DEF Typed, TypeOK
  <1>4. \A k \in Kind \ {Brackets} : k \in Waiting(s)'
    BY <1>2, SeriesProperties DEF Waiting
  <1> QED
    BY <1>2, <1>3, <1>4 DEF Covering, CoversSeries, AtYears

LEMMA LeaveCovering ==
  ASSUME Typed, NEW s \in Syncer, Leave(s)
  PROVE  Covering(s)'
  <1>1. pc'[s] = "idle"
    BY Workers DEF Leave, Goto, Typed, TypeOK
  <1> QED
    BY <1>1 DEF Covering, CoversSeries, AtYears

\* The rows of one series are looked up.
LEMMA CollectCovering ==
  ASSUME Typed, NEW s \in Syncer, Covering(s), CollectMissing(s)
  PROVE  Covering(s)'
  <1> s \in Worker
    BY Workers
  <1> DEFINE h == Current(s)
  <1>0. /\ pc[s] = "collect"
        /\ UNCHANGED <<published, stored, got, window, years, due, clean>>
    BY DEF CollectMissing, page, rows
  <1>1. /\ want'[s][h] = window[s] \ stored[h]
        /\ \A k \in Kind \ {h} : want'[s][k] = want[s][k]
        /\ h \in Kind \ {Brackets}
    BY <1>0, QueueProperties DEF CollectMissing, Typed, TypeOK
  <1>2. \A k \in Kind : due[s][k] \subseteq window[s] \cap published[k]
    BY <1>0 DEF Covering
  <1>3. ASSUME NEW k \in Kind \ {Brackets}, clean[s],
               k = h \/ k \notin Waiting(s)
        PROVE  due[s][k] \subseteq stored[k] \cup want'[s][k]
    <2>1. CASE k = h
      BY <1>1, <1>2, <2>1
    <2>2. CASE k # h
      BY <1>0, <1>1, <1>3, <2>2 DEF Covering, CoversSeries
    <2> QED
      BY <2>1, <2>2
  <1>4. ASSUME NEW k \in Kind \ {Brackets}, clean[s]
        PROVE  CoversSeries(s, k)'
    <2>1. CASE Len(queue[s]) > 1
      <3>1. pc'[s] = "collect" /\ queue'[s] = Tail(queue[s])
        BY <2>1 DEF CollectMissing, Goto, Typed, TypeOK
      <3>2. k \notin Waiting(s)' => k = h \/ k \notin Waiting(s)
        <4>1. Waiting(s)' = {Tail(queue[s])[i] : i \in 1 .. Len(Tail(queue[s]))}
          BY <3>1 DEF Waiting
        <4> QED
          BY <1>0, <4>1, QueueProperties
      <3> QED
        BY <1>0, <1>3, <1>4, <3>1, <3>2 DEF CoversSeries, AtYears
    <2>2. CASE ~(Len(queue[s]) > 1)
      <3>1. pc'[s] = "fetch" /\ queue'[s] = Series
        BY <2>2 DEF CollectMissing, Goto, Typed, TypeOK
      <3>2. k = h \/ k \notin Waiting(s)
        BY <1>0, <2>2, QueueProperties
      <3>3. k \in Waiting(s)'
        BY <3>1, SeriesProperties DEF Waiting
      <3> QED
        BY <1>0, <1>3, <1>4, <3>1, <3>2, <3>3 DEF CoversSeries, AtYears
    <2> QED
      BY <2>1, <2>2
  <1>5. pc'[s] \in {"collect", "fetch"}
    BY DEF CollectMissing, Goto, Typed, TypeOK
  <1> QED
    BY <1>0, <1>2, <1>4, <1>5 DEF Covering, AtYears

\* A series is done: all that was due of it is stored.
LEMMA NextSeriesCovering ==
  ASSUME Typed, NEW s \in Syncer, Covering(s), pc[s] \in {"fetch", "write"},
         NextSeries(s), Grows, UNCHANGED <<published, window, due>>,
         clean'[s] => clean[s] /\ due[s][Current(s)] \subseteq stored'[Current(s)]
  PROVE  Covering(s)'
  <1> s \in Worker
    BY Workers
  <1> DEFINE h == Current(s)
  <1>1. h \in Kind \ {Brackets}
    BY QueueProperties
  <1>2. \A k \in Kind : due[s][k] \subseteq window[s] \cap published[k]
    BY DEF Covering
  <1>3. /\ want'[s][h] = {}
        /\ \A k \in Kind \ {h} : want'[s][k] = want[s][k]
        /\ queue'[s] = Tail(queue[s])
    BY <1>1 DEF NextSeries, Typed, TypeOK
  <1>4. pc'[s] = (IF Len(queue[s]) > 1 THEN "fetch" ELSE "list")
    BY NextSeriesTyped
  <1>5. ASSUME NEW k \in Kind \ {Brackets}, clean'[s]
        PROVE  CoversSeries(s, k)'
    <2>1. CASE k = h
      BY <1>3, <1>4, <1>5, <2>1 DEF CoversSeries
    <2>2. CASE k # h
      <3>1. CoversSeries(s, k)
        BY <1>5 DEF Covering
      <3>2. due[s][k] \subseteq stored[k] \cup want[s][k]
        BY <3>1 DEF CoversSeries
      <3>3. k \notin Waiting(s) => due[s][k] \subseteq stored[k]
        BY <3>1 DEF CoversSeries
      <3>4. k \notin Waiting(s)' => k \notin Waiting(s)
        <4>1. Waiting(s)' = {Tail(queue[s])[i] : i \in 1 .. Len(Tail(queue[s]))}
          BY <1>3 DEF Waiting
        <4> QED
          BY <2>2, <4>1, QueueProperties
      <3>5. ~(Len(queue[s]) > 1) => k \notin Waiting(s)
        BY <2>2, QueueProperties
      <3>6. stored[k] \subseteq stored'[k]
        BY DEF Grows
      <3> QED
        BY <1>3, <1>4, <2>2, <3>2, <3>3, <3>4, <3>5, <3>6
        DEF CoversSeries, AtYears
    <2> QED
      BY <2>1, <2>2
  <1>6. pc'[s] = "list" =>
           \A m \in window'[s] : YearOf(m) \in years'[s]
    <2> SUFFICES ASSUME pc'[s] = "list"
                 PROVE  \A m \in window'[s] : YearOf(m) \in years'[s]
      OBVIOUS
    <2>1. years' = [years EXCEPT ![s] = {YearOf(m) : m \in window[s]}]
      BY <1>4 DEF NextSeries
    <2>2. years'[s] = {YearOf(m) : m \in window[s]}
      BY <2>1 DEF Typed, TypeOK
    <2> QED
      BY <2>2
  <1> QED
    BY <1>2, <1>4, <1>5, <1>6 DEF Covering, AtYears

LEMMA SyncFetchCovering ==
  ASSUME Typed, NEW s \in Syncer, Covering(s), NEW months \in SUBSET Month,
         SyncFetch(s, months)
  PROVE  Covering(s)'
  <1> s \in Worker
    BY Workers
  <1> DEFINE h == Current(s)
  <1>0. /\ pc[s] = "fetch" /\ months \subseteq Available(s)
        /\ UNCHANGED <<published, version, stored, window, due>>
        /\ h \in Kind \ {Brackets}
    BY QueueProperties DEF SyncFetch, page, rows
  <1>1. \A k \in Kind : due[s][k] \subseteq window[s] \cap published[k]
    BY <1>0 DEF Covering
  <1>2. clean'[s] => clean[s] /\ months = want[s][h] \cap published[h]
    BY Zenon DEF SyncFetch, Available, Typed, TypeOK
  <1>3. clean[s] => \A k \in Kind \ {Brackets} : CoversSeries(s, k)
    BY DEF Covering
  <1>4. CASE months = {}
    <2>1. NextSeries(s)
      BY <1>4 DEF SyncFetch
    <2>2. clean'[s] => due[s][h] \subseteq stored[h]
      BY <1>0, <1>1, <1>2, <1>3, <1>4 DEF CoversSeries
    <2>3. Grows
      BY <1>0, StillGrows
    <2> QED
      BY <1>0, <1>2, <2>1, <2>2, <2>3, NextSeriesCovering
  <1>5. CASE months # {}
    <2>1. /\ got' = [got EXCEPT ![s] = months] /\ Goto(s, "write")
          /\ UNCHANGED <<queue, want, years>>
      BY <1>5 DEF SyncFetch
    <2>2. got'[s] = months /\ pc'[s] = "write"
      BY <2>1 DEF Goto, Typed, TypeOK
    <2>3. Waiting(s)' = Waiting(s) /\ Current(s)' = Current(s)
      BY <2>1 DEF Waiting, Current
    <2>4. ASSUME NEW k \in Kind \ {Brackets}, clean'[s]
          PROVE  CoversSeries(s, k)'
      <3>1. CoversSeries(s, k)
        BY <1>2, <1>3, <2>4
      <3>2. k = h => due[s][k] \cap want[s][k] \subseteq months
        BY <1>1, <1>2, <2>4
      <3> QED
        BY <1>0, <2>1, <2>2, <2>3, <3>1, <3>2 DEF CoversSeries, AtYears
    <2> QED
      BY <1>0, <1>1, <2>2, <2>4 DEF Covering, AtYears
  <1> QED
    BY <1>4, <1>5

LEMMA SyncWriteCovering ==
  ASSUME Typed, NEW s \in Syncer, Covering(s), SyncWrite(s)
  PROVE  Covering(s)' /\ Grows
  <1> DEFINE h == Current(s)
  <1>0. /\ pc[s] = "write" /\ NextSeries(s)
        /\ UNCHANGED <<published, version, window, due, clean>>
        /\ h \in Kind \ {Brackets}
    BY QueueProperties DEF SyncWrite, page
  <1>1. /\ stored'[h] = stored[h] \cup got[s]
        /\ \A k \in Kind \ {h} : stored'[k] = stored[k]
    BY <1>0 DEF SyncWrite, Typed, TypeOK
  <1>2. Grows
    BY <1>0, <1>1 DEF Grows
  <1>3. clean[s] => due[s][h] \subseteq stored'[h]
    <2> SUFFICES ASSUME clean[s] PROVE due[s][h] \subseteq stored'[h]
      OBVIOUS
    <2>1. CoversSeries(s, h)
      BY <1>0 DEF Covering
    <2> QED
      BY <1>0, <1>1, <2>1 DEF CoversSeries
  <1> QED
    BY <1>0, <1>2, <1>3, NextSeriesCovering

\* The next year, when the one that was looked at is reached.
LEMMA NextYearCovering ==
  ASSUME Typed, NEW s \in Syncer, Covering(s), pc[s] \in AtYears, NextYear(s),
         Grows, UNCHANGED <<published, window, due>>,
         clean'[s] => clean[s] /\ Reaches(s, CurrentYear(s))
  PROVE  Covering(s)'
  <1> DEFINE y == CurrentYear(s)
  <1>1. /\ pc'[s] = "list" /\ years'[s] = years[s] \ {y}
    BY NextYearTyped DEF NextYear, Typed, TypeOK
  <1>2. \A k \in Kind : due[s][k] \subseteq window[s] \cap published[k]
    BY DEF Covering, AtYears
  <1>3. clean'[s] => \A k \in Kind \ {Brackets} : CoversSeries(s, k)'
    BY <1>1 DEF Covering, CoversSeries, Grows, AtYears
  <1>4. ASSUME clean'[s], NEW m \in window[s], YearOf(m) \notin years'[s]
        PROVE  Reached(s, YearOf(m))'
    <2>1. CASE YearOf(m) = y
      <3>1. due'[s] = due[s] /\ Reaches(s, y)
        BY <1>4
      <3> QED
        BY <2>1, <3>1, ReachedStays
    <2>2. CASE YearOf(m) # y
      <3>1. Reached(s, YearOf(m))
        BY <1>1, <1>4, <2>2 DEF Covering
      <3> QED
        BY <3>1, ReachedStays
    <2> QED
      BY <2>1, <2>2
  <1> QED
    BY <1>1, <1>2, <1>3, <1>4 DEF Covering

\* The year is left as it is, and its page is read or about to be.
LEMMA SameYearCovering ==
  ASSUME Typed, NEW s \in Syncer, Covering(s), pc[s] \in AtYears,
         pc'[s] \in AtYears, Grows,
         UNCHANGED <<published, stored, window, due, years>>,
         clean'[s] => clean[s],
         pc'[s] = "writeYear" =>
            got'[s] # {} /\ got'[s] \subseteq MonthsOf(CurrentYear(s))
  PROVE  Covering(s)'
  <1>1. CurrentYear(s)' = CurrentYear(s)
    BY DEF CurrentYear
  <1>2. ASSUME clean'[s], NEW k \in Kind \ {Brackets}
        PROVE  CoversSeries(s, k)'
    BY <1>2 DEF Covering, CoversSeries, AtYears
  <1>3. ASSUME clean'[s], NEW m \in window[s], YearOf(m) \notin years[s]
        PROVE  Reached(s, YearOf(m))'
    BY <1>3, ReachedStays DEF Covering
  <1>4. \A k \in Kind : due[s][k] \subseteq window[s] \cap published[k]
    BY DEF Covering, AtYears
  <1> QED
    BY <1>1, <1>2, <1>3, <1>4 DEF Covering

LEMMA YearCovering ==
  ASSUME Typed, NEW s \in Syncer, Covering(s),
         ListYear(s) \/ FetchYear(s) \/ WriteYear(s)
  PROVE  Covering(s)' /\ Grows
  <1> s \in Worker
    BY Workers
  <1> DEFINE y == CurrentYear(s)
  <1>1. CASE ListYear(s)
    <2>1. /\ pc[s] \in AtYears
          /\ UNCHANGED <<published, version, stored, window, due, got, clean>>
          /\ Grows
      BY <1>1, StillGrows DEF ListYear, page, rows, AtYears
    <2>2. CASE stored[Brackets] \cap MonthsOf(y) # {}
      <3>1. NextYear(s) /\ Reaches(s, y)
        BY <1>1, <2>1, <2>2 DEF ListYear, Reaches
      <3> QED
        BY <2>1, <3>1, NextYearCovering
    <2>3. CASE stored[Brackets] \cap MonthsOf(y) = {}
      <3>1. pc'[s] = "fetchYear" /\ UNCHANGED years
        BY <1>1, <2>3 DEF ListYear, Goto, Typed, TypeOK
      <3> QED
        BY <2>1, <3>1, SameYearCovering DEF AtYears
    <2> QED
      BY <2>2, <2>3
  <1>2. CASE FetchYear(s)
    <2>1. /\ pc[s] \in AtYears /\ pc[s] # "idle"
          /\ UNCHANGED <<published, version, stored, window, due>>
          /\ Grows
      BY <1>2, StillGrows DEF FetchYear, page, rows, AtYears
    <2>2. PICK months \in {Page(y), {}} :
            /\ clean' = [clean EXCEPT ![s] = @ /\ months = Page(y)]
            /\ IF months = {}
               THEN NextYear(s) /\ UNCHANGED <<got, read>>
               ELSE /\ TakePage(s, months)
                    /\ Goto(s, "writeYear")
                    /\ UNCHANGED years
      BY <1>2 DEF FetchYear
    <2>3. clean'[s] => clean[s] /\ months = Page(y)
      BY <2>2, Zenon DEF Typed, TypeOK
    <2>4. CASE months = {}
      <3>1. NextYear(s)
        BY <2>2, <2>4
      <3>2. due[s][Brackets] \subseteq published[Brackets]
        BY <2>1, SeriesProperties DEF Covering
      <3>3. clean'[s] => Reaches(s, y)
        <4> SUFFICES ASSUME clean'[s] PROVE Reaches(s, y)
          OBVIOUS
        <4>1. Page(y) = {}
          BY <2>3, <2>4
        <4>2. ASSUME NEW m \in Expected(s, y) PROVE FALSE
          <5>1. m \in published[Brackets] /\ m \in MonthsOf(y) /\ m \in Month
            BY <3>2 DEF Expected, MonthsOf
          <5>2. version[m] \in Nat /\ version[m] # 0
            BY <5>1 DEF Typed, TypeOK
          <5>3. version[m] \in 1 .. version[m]
            BY <5>2
          <5>4. Built(Tables[m][version[m]]) # {}
            BY <5>3 DEF Expected, AlwaysLegible
          <5> QED
            BY <4>1, <5>1, <5>4 DEF Page
        <4> QED
          BY <4>2 DEF Reaches
      <3> QED
        BY <2>1, <2>3, <3>1, <3>3, NextYearCovering
    <2>5. CASE months # {}
      <3>1. months = Page(y) /\ TakePage(s, Page(y)) /\ Goto(s, "writeYear")
            /\ UNCHANGED years
        BY <2>2, <2>5
      <3>2. got'[s] = Page(y) /\ pc'[s] = "writeYear"
        BY <3>1, TakePageTyped DEF Goto, Typed, TypeOK
      <3>3. got'[s] # {} /\ got'[s] \subseteq MonthsOf(y)
        BY <2>5, <3>1, <3>2 DEF Page
      <3> QED
        BY <2>1, <2>3, <3>1, <3>2, <3>3, SameYearCovering DEF AtYears
    <2> QED
      BY <2>4, <2>5
  <1>3. CASE WriteYear(s) /\ Upsertable(s)
    <2>1. /\ pc[s] = "writeYear" /\ NextYear(s) /\ StoreBrackets(s)
          /\ UNCHANGED <<published, version, window, due, clean>>
      BY <1>3 DEF WriteYear, page
    <2>2. /\ stored'[Brackets] = stored[Brackets] \cup got[s]
          /\ \A k \in Kind \ {Brackets} : stored'[k] = stored[k]
      BY <2>1, SeriesProperties DEF StoreBrackets, Typed, TypeOK
    <2>3. got[s] # {} /\ got[s] \subseteq MonthsOf(y)
      BY <2>1 DEF Covering
    <2>4. Grows
      BY <2>1, <2>2 DEF Grows
    <2>5. Reaches(s, y)
      <3>1. stored'[Brackets] \cap MonthsOf(y) # {}
        BY <2>2, <2>3
      <3> QED
        BY <3>1 DEF Reaches
    <2> QED
      BY <2>1, <2>4, <2>5, NextYearCovering DEF AtYears
  <1>4. CASE WriteYear(s) /\ ~Upsertable(s)
    <2>1. Leave(s) /\ UNCHANGED <<published, version, stored>>
      BY <1>4 DEF WriteYear, page, rows
    <2> QED
      BY <2>1, LeaveCovering, StillGrows
  <1> QED
    BY <1>1, <1>2, <1>3, <1>4

LEMMA SyncCovering ==
  ASSUME Typed, NEW s \in Syncer, Covering(s),
         StartSync(s) \/ SyncStep(s) \/ SyncDies(s)
  PROVE  Covering(s)'
  BY StartCovering, CollectCovering, SyncFetchCovering, SyncWriteCovering,
     YearCovering, LeaveCovering DEF SyncStep, FinishSync, SyncDies

\* What the steps of other workers do to a sync.
LEMMA OtherAside ==
  ASSUME Typed, NEW s \in Syncer, NEW v \in Syncer \ {s},
         StartSync(v) \/ SyncStep(v) \/ SyncDies(v)
  PROVE  Aside(s)
  <1> s \in Worker /\ v \in Worker
    BY Workers
  <1>1. ASSUME NEW months \in SUBSET Month, SyncFetch(v, months)
        PROVE  Aside(s)
    BY <1>1 DEF SyncFetch, NextSeries, Goto, Aside, Typed, TypeOK
  <1>2. CASE StartSync(v) \/ CollectMissing(v) \/ SyncDies(v)
    BY <1>2 DEF StartSync, CollectMissing, SyncDies, Leave, Forget, Goto, Aside,
                Typed, TypeOK
  <1>3. CASE SyncWrite(v)
    BY <1>3 DEF SyncWrite, NextSeries, Goto, Aside, Typed, TypeOK
  <1>4. CASE ListYear(v)
    BY <1>4 DEF ListYear, NextYear, Goto, Aside, Typed, TypeOK
  <1>5. CASE FetchYear(v)
    BY <1>5 DEF FetchYear, NextYear, TakePage, Goto, Aside, Typed, TypeOK
  <1>6. CASE WriteYear(v)
    BY <1>6 DEF WriteYear, StoreBrackets, Forget, NextYear, Leave, Goto, Aside,
                Typed, TypeOK
  <1>7. CASE FinishSync(v)
    BY <1>7 DEF FinishSync, Leave, Forget, Goto, Aside, Typed, TypeOK
  <1> QED
    BY <1>1, <1>2, <1>3, <1>4, <1>5, <1>6, <1>7 DEF SyncStep

LEMMA SyncGrows ==
  ASSUME Typed, CoverInv, NEW v \in Syncer,
         StartSync(v) \/ SyncStep(v) \/ SyncDies(v)
  PROVE  Grows
  <1>1. Covering(v)
    BY DEF CoverInv
  <1>2. CASE SyncWrite(v)
    BY <1>1, <1>2, SyncWriteCovering
  <1>3. CASE WriteYear(v)
    BY <1>1, <1>3, YearCovering
  <1>4. CASE ~SyncWrite(v) /\ ~WriteYear(v)
    <2>1. UNCHANGED <<published, version, stored>>
      BY <1>4 DEF StartSync, SyncStep, SyncDies, CollectMissing, SyncFetch,
                  ListYear, FetchYear, FinishSync, page, rows
    <2> QED
      BY <2>1, StillGrows
  <1> QED
    BY <1>2, <1>3, <1>4

LEMMA InitCovering == Init => CoverInv
  BY Workers DEF Init, CoverInv, Covering, CoversSeries, AtYears

LEMMA NextCovering ==
  ASSUME Typed, CoverInv, [Next]_vars
  PROVE  CoverInv'
  <1> SUFFICES ASSUME NEW s \in Syncer PROVE Covering(s)'
    BY DEF CoverInv
  <1>0. Covering(s)
    BY DEF CoverInv
  <1>1. CASE UNCHANGED vars \/ NextMonth
    <2>1. Aside(s) /\ Grows
      BY <1>1, StillGrows DEF vars, NextMonth, page, rows, syncVars, Aside
    <2> QED
      BY <1>0, <2>1, AsideCovering
  <1>2. ASSUME NEW k \in Kind, Publish(k)
        PROVE  Covering(s)'
    <2>1. Aside(s) /\ UNCHANGED stored
      BY <1>2 DEF Publish, rows, syncVars, Aside
    <2>2. \A j \in Kind : published[j] \subseteq published'[j]
      BY <1>2 DEF Publish, Typed, TypeOK
    <2>3. ASSUME NEW m \in Month
          PROVE  1 .. version[m] \subseteq 1 .. version'[m]
      <3>1. version'[m] = version[m] \/ m \notin published[Brackets]
        BY <1>2, PublishTyped
      <3>2. m \notin published[Brackets] => version[m] = 0
        BY DEF Typed
      <3> QED
        BY <3>1, <3>2
    <2>4. Grows
      BY <2>1, <2>2, <2>3 DEF Grows
    <2> QED
      BY <1>0, <2>1, <2>4, AsideCovering
  <1>3. ASSUME NEW m \in Month, Correct(m)
        PROVE  Covering(s)'
    <2>1. Aside(s) /\ UNCHANGED <<published, stored>>
      BY <1>3 DEF Correct, rows, syncVars, Aside
    <2>2. \A i \in Month : 1 .. version[i] \subseteq 1 .. version'[i]
      <3> SUFFICES ASSUME NEW i \in Month
                   PROVE  1 .. version[i] \subseteq 1 .. version'[i]
        OBVIOUS
      <3>1. version[i] \in Nat /\ version'[i] \in {version[i], version[i] + 1}
        BY <1>3 DEF Correct, Typed, TypeOK
      <3> QED
        BY <3>1
    <2>3. Grows
      BY <2>1, <2>2 DEF Grows
    <2> QED
      BY <1>0, <2>1, <2>3, AsideCovering
  <1>4. ASSUME NEW v \in Syncer, StartSync(v) \/ SyncStep(v) \/ SyncDies(v)
        PROVE  Covering(s)'
    <2>1. CASE v = s
      BY <1>0, <1>4, <2>1, SyncCovering
    <2>2. CASE v # s
      BY <1>0, <1>4, <2>2, OtherAside, SyncGrows, AsideCovering
    <2> QED
      BY <2>1, <2>2
  <1>5. ASSUME NEW r \in Refresher,
               RefreshWrite(r) \/ \E y \in Year : RefreshFetch(r, y)
        PROVE  Covering(s)'
    <2>0. s \in Worker /\ r \in Worker /\ r # s
      BY Workers, SyncAssumption
    <2>1. Aside(s)
      BY <1>5, <2>0 DEF RefreshWrite, RefreshFetch, StoreBrackets, Forget,
                        TakePage, Goto, syncVars, Aside, Typed, TypeOK
    <2>2. Grows
      <3>1. UNCHANGED <<published, version>>
        BY <1>5 DEF RefreshWrite, RefreshFetch, page
      <3>2. \/ UNCHANGED stored
            \/ stored' = [stored EXCEPT ![Brackets] = @ \cup got[r]]
        BY <1>5 DEF RefreshWrite, RefreshFetch, StoreBrackets, rows
      <3>3. \A k \in Kind : stored[k] \subseteq stored'[k]
        <4>1. stored \in [Kind -> SUBSET Month]
          BY DEF Typed, TypeOK
        <4>2. ASSUME NEW k \in Kind PROVE stored[k] \subseteq stored'[k]
          <5>1. CASE k = Brackets
            BY <3>2, <4>1, <5>1
          <5>2. CASE k # Brackets
            BY <3>2, <4>1, <5>2
          <5> QED
            BY <5>1, <5>2
        <4> QED
          BY <4>2
      <3> QED
        BY <3>1, <3>3 DEF Grows
    <2> QED
      BY <1>0, <2>1, <2>2, AsideCovering
  <1> QED
    BY <1>1, <1>2, <1>3, <1>4, <1>5 DEF Next

LEMMA CoveringShows ==
  ASSUME Typed, CoverInv
  PROVE  SyncClosesGaps /\ NewYearsArrive
  <1>1. ASSUME NEW s \in Syncer, Succeeds(s), NEW k \in Kind \ {Brackets}
        PROVE  Covered(s, k)
    <2>1. Covering(s) /\ pc[s] = "list" /\ clean[s]
      BY <1>1 DEF CoverInv, Succeeds, AboutToAnswer
    <2>2. CoversSeries(s, k)
      BY <2>1 DEF Covering
    <2> QED
      BY <2>1, <2>2 DEF CoversSeries, AtYears, Covered
  <1>2. ASSUME NEW s \in Syncer, Succeeds(s),
               NEW m \in due[s][Brackets] \ stored[Brackets],
               AlwaysLegible(m)
        PROVE  stored[Brackets] \cap MonthsOf(YearOf(m)) # {}
    <2>1. Covering(s) /\ pc[s] = "list" /\ years[s] = {} /\ clean[s]
      BY <1>2 DEF CoverInv, Succeeds, AboutToAnswer
    <2>2. m \in window[s] /\ m \in Month
      BY <2>1, SeriesProperties DEF Covering, Typed, TypeOK
    <2>3. Reached(s, YearOf(m))
      BY <2>1, <2>2 DEF Covering, AtYears
    <2>4. m \in Expected(s, YearOf(m))
      BY <1>2, <2>2 DEF MonthsOf, Expected
    <2> QED
      BY <2>3, <2>4 DEF Reached
  <1> QED
    BY <1>1, <1>2 DEF SyncClosesGaps, NewYearsArrive

\* A sync whose providers gave all they had leaves no published month of its
\* window out of a series, whatever other syncs and refreshes did meanwhile.
THEOREM GapsClosed == Spec => []SyncClosesGaps
  BY Types, InitTyped, InitCovering, NextCovering, CoveringShows, PTL DEF Spec

\* After such a sync no year of its window is without brackets whose page gave
\* some when it began: what is missing is missing beside another month.
THEOREM YearsArrive == Spec => []NewYearsArrive
  BY Types, InitTyped, InitCovering, NextCovering, CoveringShows, PTL DEF Spec

=============================================================================

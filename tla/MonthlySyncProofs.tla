------------------------- MODULE MonthlySyncProofs -------------------------
(***************************************************************************)
(* Theorems about MonthlySync, for any series, windows, years, versions of *)
(* the page of brackets, and numbers of syncs and refreshes.               *)
(***************************************************************************)
EXTENDS MonthlySync, NumberLemmas, FiniteSetTheorems, SequenceTheorems, TLAPS

\* The series that s has yet to go through.
Waiting(s) == {queue[s][i] : i \in 1 .. Len(queue[s])}

Pcs == {"idle", "collect", "fetch", "write", "list", "fetchYear", "writeYear"}

\* Types, and what they rest on: months are published in their order, a sync
\* that works on series has one, and what was read off the page was on it.
Typed ==
    /\ TypeOK
    /\ \A k \in Kind : \E n \in 0 .. LastMonth : published[k] = 1 .. n
    /\ \A m \in Month : version[m] # 0 <=> m \in published[Brackets]
    /\ \A s \in Syncer :
          pc[s] \in {"collect", "fetch", "write"} => queue[s] # <<>>
    /\ \A w \in Worker : pc[w] = "writeYear" =>
          \A m \in got[w] : read[w][m] \in 1 .. version[m]

-----------------------------------------------------------------------------
\* The rows of a table

LEMMA Numbers ==
  LastMonth \in Nat \ {0} /\ TopIncome \in Nat /\ Open = TopIncome + 1
  BY SyncAssumption DEF Open

LEMMA Versions ==
  ASSUME NEW m \in Month
  PROVE  /\ Len(Tables[m]) \in Nat \ {0}
         /\ \A v \in 1 .. Len(Tables[m]) : Tables[m][v] \in Seq(PageRow)
  <1>1. Tables[m] \in Seq(Seq(PageRow)) /\ Len(Tables[m]) > 0
    BY SyncAssumption
  <1> QED
    BY <1>1

LEMMA TableProperties ==
  ASSUME NEW table \in Seq(PageRow)
  PROVE  /\ DOMAIN table \in SUBSET Nat
         /\ \A i \in DOMAIN table :
               /\ table[i].upper \in 0 .. Open
               /\ \A j \in 1 .. i - 1 : j \in DOMAIN table
         /\ \A i \in Readable(table) : i \in DOMAIN table /\ table[i].readable
         /\ \A i \in Readable(table), j \in DOMAIN table :
               table[j].readable => j \in Readable(table)
  <1>1. DOMAIN table = 1 .. Len(table) /\ Len(table) \in Nat
    OBVIOUS
  <1>2. \A i \in 1 .. Len(table) : table[i] \in PageRow
    OBVIOUS
  <1> QED
    BY <1>1, <1>2 DEF PageRow, Readable

\* A row of a table that can be read and gives an upper amount.
Gives(table, j) == table[j].readable /\ table[j].upper # Open

\* A row begins at 0, or at the amount of the last row before it that gives one.
LEMMA LowerProperties ==
  ASSUME NEW table \in Seq(PageRow), NEW i \in DOMAIN table
  PROVE  /\ Lower(table, i) \in Income
         /\ \/ /\ Lower(table, i) = 0
               /\ \A k \in DOMAIN table : k < i => ~Gives(table, k)
            \/ \E j \in DOMAIN table :
                  /\ j < i /\ Gives(table, j) /\ Lower(table, i) = table[j].upper
                  /\ \A k \in DOMAIN table : k < i /\ Gives(table, k) => k <= j
  <1> DEFINE before == {j \in 1 .. i - 1 : Gives(table, j)}
  <1>1. Lower(table, i) = IF before = {} THEN 0 ELSE table[Max(before)].upper
    BY DEF Lower, Gives
  <1>2. /\ i \in Nat
        /\ \A j \in before : j \in DOMAIN table /\ j < i /\ Gives(table, j)
    BY TableProperties
  <1>3. ASSUME NEW k \in DOMAIN table, k < i, Gives(table, k)
        PROVE  k \in before
    <2>1. k \in 1 .. Len(table)
      OBVIOUS
    <2> QED
      BY <1>2, <1>3, <2>1
  <1>4. CASE before = {}
    <2>1. Lower(table, i) = 0
      BY <1>1, <1>4
    <2>2. \A k \in DOMAIN table : k < i => ~Gives(table, k)
      BY <1>3, <1>4
    <2> QED
      BY <2>1, <2>2, Numbers DEF Income
  <1>5. CASE before # {}
    <2> DEFINE j == Max(before)
    <2>1. before \in SUBSET Int /\ i \in Int /\ \A x \in before : x <= i
      BY <1>2
    <2>2. j \in before /\ \A y \in before : y <= j
      <3> HIDE DEF before
      <3> QED
        BY <1>5, <2>1, MaxIsGreatest
    <2>3. j \in DOMAIN table /\ j < i /\ Gives(table, j)
      BY <1>2, <2>2
    <2>4. Lower(table, i) = table[j].upper
      BY <1>1, <1>5
    <2>5. table[j].upper \in Income
      <3>1. table[j].upper \in 0 .. Open /\ table[j].upper # Open
        BY <2>3, TableProperties DEF Gives
      <3> HIDE DEF j
      <3> QED
        BY <3>1, Numbers DEF Income
    <2>6. \A k \in DOMAIN table : k < i /\ Gives(table, k) => k <= j
      BY <1>3, <2>2
    <2> HIDE DEF j, before
    <2> QED
      BY <2>3, <2>4, <2>5, <2>6
  <1> QED
    BY <1>4, <1>5

LEMMA BuiltType ==
  ASSUME NEW table \in Seq(PageRow)
  PROVE  Built(table) \in SUBSET (Income \X (0 .. Open))
  <1>1. \A i \in Readable(table) :
           <<Lower(table, i), table[i].upper>> \in Income \X (0 .. Open)
    BY TableProperties, LowerProperties
  <1> QED
    BY <1>1 DEF Built

\* The brackets of a table hang together: under the end of one there is no gap,
\* whatever rows were lost and whatever amounts they give.
LEMMA BuiltLeavesNoGap ==
  ASSUME NEW table \in Seq(PageRow), NEW income \in Income,
         Under(income, Built(table))
  PROVE  \E row \in Built(table) : row[1] <= income /\ income < row[2]
  <1> DEFINE Hits == {i \in Readable(table) : income < table[i].upper}
  <1>1. Hits # {}
    BY DEF Under, Built
  <1>2. Hits \in SUBSET Nat
    BY TableProperties
  <1>3. PICK i \in Hits : \A j \in Hits : i <= j
    <2> HIDE DEF Hits
    <2> QED
      BY <1>1, <1>2, SmallestOf
  <1>4. i \in Readable(table) /\ i \in DOMAIN table /\ income < table[i].upper
    BY TableProperties
  <1>5. Lower(table, i) <= income
    <2>1. CASE Lower(table, i) = 0
      BY <2>1, Numbers DEF Income
    <2>2. CASE Lower(table, i) # 0
      <3>1. PICK j \in DOMAIN table : /\ j < i /\ Gives(table, j)
                                      /\ Lower(table, i) = table[j].upper
        BY <1>4, <2>2, LowerProperties
      <3>2. j \in Readable(table)
        BY <1>4, <3>1, TableProperties DEF Gives
      <3>3. ~(i <= j)
        BY <1>4, <3>1, TableProperties
      <3>4. ~(income < table[j].upper)
        BY <1>3, <3>2, <3>3
      <3>5. table[j].upper \in 0 .. Open
        BY TableProperties
      <3> QED
        BY <3>1, <3>4, <3>5, Numbers DEF Income
    <2> QED
      BY <2>1, <2>2
  <1>6. <<Lower(table, i), table[i].upper>> \in Built(table)
    BY <1>4 DEF Built
  <1> QED
    BY <1>4, <1>5, <1>6

\* Of two brackets of a table without clashes whose amounts ascend, the former
\* ends before the latter begins.  An open row is the last of its table that can
\* be read, or the next one would clash with it.
LEMMA BuiltIsOrdered ==
  ASSUME NEW table \in Seq(PageRow), ~Clashes(table), Ascends(table),
         NEW i \in Readable(table), NEW j \in Readable(table), i < j
  PROVE  table[i].upper <= Lower(table, j)
  <1>1. /\ i \in DOMAIN table /\ j \in DOMAIN table /\ i \in Nat /\ j \in Nat
        /\ table[i].readable /\ table[j].readable
    BY TableProperties
  <1>2. table[i].upper # Open
    <2> SUFFICES ASSUME table[i].upper = Open PROVE FALSE
      OBVIOUS
    <2> DEFINE Later == {k \in Readable(table) : i < k}
    <2>1. j \in Later /\ Later \in SUBSET Nat
      BY TableProperties
    <2>2. PICK n \in Later : \A k \in Later : n <= k
      <3> HIDE DEF Later
      <3> QED
        BY <2>1, SmallestOf
    <2>3. n \in Readable(table) /\ i < n /\ n \in DOMAIN table /\ n \in Nat
      BY <2>1, <2>2, TableProperties
    <2>4. \A k \in DOMAIN table :
             k < n /\ Gives(table, k) <=> k < i /\ Gives(table, k)
      <3> SUFFICES ASSUME NEW k \in DOMAIN table, Gives(table, k)
                   PROVE  k < n <=> k < i
        OBVIOUS
      <3>1. k \in Nat /\ k \in Readable(table) /\ k # i
        BY <1>1, TableProperties DEF Gives
      <3>2. i < k => n <= k
        BY <2>2, <3>1
      <3> QED
        BY <1>1, <2>3, <3>1, <3>2
    <2>5. Lower(table, n) = Lower(table, i)
      <3>1. CASE \A k \in DOMAIN table : k < i => ~Gives(table, k)
        <4>1. \A k \in DOMAIN table : k < n => ~Gives(table, k)
          BY <2>4, <3>1
        <4>2. Lower(table, i) = 0
          BY <1>1, <3>1, LowerProperties
        <4>3. Lower(table, n) = 0
          BY <2>3, <4>1, LowerProperties
        <4> QED
          BY <4>2, <4>3
      <3>2. CASE ~\A k \in DOMAIN table : k < i => ~Gives(table, k)
        <4>1. PICK a \in DOMAIN table :
                 /\ a < i /\ Gives(table, a) /\ Lower(table, i) = table[a].upper
                 /\ \A k \in DOMAIN table : k < i /\ Gives(table, k) => k <= a
          BY <1>1, <3>2, LowerProperties
        <4>2. PICK b \in DOMAIN table :
                 /\ b < n /\ Gives(table, b) /\ Lower(table, n) = table[b].upper
                 /\ \A k \in DOMAIN table : k < n /\ Gives(table, k) => k <= b
          BY <2>3, <2>4, <3>2, LowerProperties
        <4>3. a <= b /\ b <= a /\ a \in Nat /\ b \in Nat
          BY <2>4, <4>1, <4>2, TableProperties
        <4>4. a = b
          BY <4>3
        <4> QED
          BY <4>1, <4>2, <4>4
      <3> QED
        BY <3>1, <3>2
    <2>6. n # i
      BY <1>1, <2>3
    <2> QED
      BY <2>3, <2>5, <2>6 DEF Clashes
  <1>3. Gives(table, i)
    BY <1>1, <1>2 DEF Gives
  <1>4. PICK k \in DOMAIN table :
           /\ k < j /\ Gives(table, k) /\ Lower(table, j) = table[k].upper
           /\ i <= k
    BY <1>1, <1>3, LowerProperties
  <1>5. /\ k \in Readable(table) /\ k \in Nat /\ table[k].upper # Open
        /\ table[k].upper \in 0 .. Open /\ table[i].upper \in 0 .. Open
    BY <1>1, <1>4, TableProperties DEF Gives
  <1>6. i < k => table[i].upper < table[k].upper
    BY <1>2, <1>5 DEF Ascends
  <1>7. i < k \/ i = k
    BY <1>1, <1>4, <1>5
  <1> QED
    BY <1>4, <1>5, <1>6, <1>7, Numbers

\* So no income falls into two of them.
LEMMA BuiltIsDisjoint ==
  ASSUME NEW table \in Seq(PageRow), ~Clashes(table), Ascends(table),
         NEW income \in Income, NEW r1 \in Built(table), NEW r2 \in Built(table),
         r1[1] <= income, income < r1[2], r2[1] <= income, income < r2[2]
  PROVE  r1 = r2
  <1>1. PICK i \in Readable(table) : r1 = <<Lower(table, i), table[i].upper>>
    BY DEF Built
  <1>2. PICK j \in Readable(table) : r2 = <<Lower(table, j), table[j].upper>>
    BY DEF Built
  <1>3. /\ i \in Nat /\ j \in Nat
        /\ i \in DOMAIN table /\ j \in DOMAIN table
        /\ table[i].upper \in 0 .. Open /\ table[j].upper \in 0 .. Open
    BY TableProperties
  <1>4. Lower(table, i) \in Income /\ Lower(table, j) \in Income
    BY <1>3, LowerProperties
  <1>5. ~(i < j)
    <2> SUFFICES ASSUME i < j PROVE FALSE
      OBVIOUS
    <2>1. table[i].upper <= Lower(table, j)
      BY BuiltIsOrdered
    <2> QED
      BY <1>1, <1>2, <1>3, <1>4, <2>1, Numbers DEF Income
  <1>6. ~(j < i)
    <2> SUFFICES ASSUME j < i PROVE FALSE
      OBVIOUS
    <2>1. table[j].upper <= Lower(table, i)
      BY BuiltIsOrdered
    <2> QED
      BY <1>1, <1>2, <1>3, <1>4, <2>1, Numbers DEF Income
  <1> QED
    BY <1>1, <1>2, <1>3, <1>5, <1>6

\* Rows that are upserted are there afterwards; those that were there already
\* stay as they are.
LEMMA UpsertedProperties ==
  ASSUME NEW old, NEW new
  PROVE  /\ new \subseteq Upserted(old, new)
         /\ Upserted(old, new) \subseteq old \cup new
         /\ old \subseteq new => Upserted(old, new) = new
  BY DEF Upserted

-----------------------------------------------------------------------------
\* Types

LEMMA Workers == Syncer \subseteq Worker /\ Refresher \subseteq Worker
  BY DEF Worker

LEMMA SeriesProperties ==
  /\ Series \in Seq(Kind \ {Brackets})
  /\ Series # <<>>
  /\ Kind \ {Brackets} = {Series[i] : i \in 1 .. Len(Series)}
  /\ Brackets \in Kind
  <1>1. Series \in Seq(Kind \ {Brackets}) /\ Len(Series) > 0
    BY SyncAssumption
  <1>2. Series # <<>> /\ DOMAIN Series = 1 .. Len(Series)
    BY <1>1
  <1>3. \A i \in 1 .. Len(Series) : Series[i] \in Kind \ {Brackets}
    BY <1>1
  <1> QED
    BY <1>1, <1>2, <1>3 DEF Kind

LEMMA TailFacts ==
  ASSUME NEW S, NEW q \in Seq(S), q # <<>>
  PROVE  /\ Head(q) \in S
         /\ Tail(q) \in Seq(S)
         /\ Len(q) \in Nat \ {0}
         /\ Len(q) > 1 => Tail(q) # <<>>
         /\ {q[i] : i \in 1 .. Len(q)} \subseteq
               {Head(q)} \cup {Tail(q)[i] : i \in 1 .. Len(Tail(q))}
         /\ ~(Len(q) > 1) => {q[i] : i \in 1 .. Len(q)} = {Head(q)}
  <1>1. /\ Head(q) \in S
        /\ Tail(q) \in Seq(S)
        /\ Len(Tail(q)) = Len(q) - 1
    BY HeadTailProperties
  <1>2. Len(q) \in Nat \ {0} /\ Len(<<>>) = 0
    BY EmptySeq
  <1>3. Len(q) > 1 => Tail(q) # <<>>
    <2>1. Len(q) > 1 => Len(Tail(q)) # 0
      BY <1>1, <1>2
    <2> QED
      BY <1>2, <2>1, Zenon
  <1>4. ASSUME NEW i \in 1 .. Len(q)
        PROVE  \/ q[i] = Head(q)
               \/ \E j \in 1 .. Len(Tail(q)) : q[i] = Tail(q)[j]
    <2>1. CASE i = 1
      BY <2>1
    <2>2. CASE i # 1
      <3>1. i - 1 \in 1 .. Len(Tail(q)) /\ Tail(q)[i - 1] = q[i]
        BY <2>2
      <3> QED
        BY <3>1
    <2> QED
      BY <2>1, <2>2
  <1>5. ~(Len(q) > 1) => {q[i] : i \in 1 .. Len(q)} = {Head(q)}
    BY <1>2
  <1> QED
    BY <1>1, <1>2, <1>3, <1>4, <1>5

LEMMA QueueProperties ==
  ASSUME Typed, NEW s \in Syncer, pc[s] \in {"collect", "fetch", "write"}
  PROVE  /\ Current(s) \in Kind \ {Brackets}
         /\ queue[s] \in Seq(Kind \ {Brackets})
         /\ Len(queue[s]) \in Nat \ {0}
         /\ Tail(queue[s]) \in Seq(Kind \ {Brackets})
         /\ Len(queue[s]) > 1 => Tail(queue[s]) # <<>>
         /\ Waiting(s) \subseteq
               {Current(s)} \cup
               {Tail(queue[s])[i] : i \in 1 .. Len(Tail(queue[s]))}
         /\ ~(Len(queue[s]) > 1) => Waiting(s) = {Current(s)}
  <1>1. queue[s] \in Seq(Kind \ {Brackets}) /\ queue[s] # <<>>
    BY DEF Typed, TypeOK
  <1> QED
    BY <1>1, TailFacts DEF Waiting, Current

LEMMA InitTyped == Init => Typed
  <1> SUFFICES ASSUME Init PROVE Typed
    OBVIOUS
  <1>1. 1 \in Month /\ {} \in SUBSET Month
    BY Numbers DEF Month
  <1>2. /\ Nothing \in [Kind -> SUBSET Month] /\ Unread \in [Month -> Nat]
        /\ \A m \in Month : Unread[m] <= Len(Tables[m])
    BY <1>1, Versions DEF Nothing, Unread
  <1>3. <<>> \in Seq(Kind \ {Brackets})
    OBVIOUS
  <1>4. TypeOK
    BY <1>1, <1>2, <1>3 DEF Init, TypeOK
  <1>5. \A k \in Kind : published[k] = 1 .. 0
    BY DEF Init, Nothing
  <1>6. 0 \in 0 .. LastMonth
    BY Numbers
  <1>7. \A m \in Month : version[m] = 0 /\ m \notin published[Brackets]
    BY DEF Init, Unread, Nothing, Kind
  <1>8. /\ \A s \in Syncer : pc[s] = "idle"
        /\ \A w \in Worker : pc[w] = "idle"
    BY Workers DEF Init
  <1> QED
    BY <1>4, <1>5, <1>6, <1>7, <1>8 DEF Typed

\* The month that is published next.
LEMMA PublishTyped ==
  ASSUME Typed, NEW k \in Kind, Publish(k)
  PROVE  Typed' /\ \A m \in Month : version'[m] # version[m] =>
                      m \notin published[Brackets] /\ version'[m] = 1
  <1>1. PICK n \in 0 .. LastMonth : published[k] = 1 .. n
    BY DEF Typed
  <1>2. Cardinality(published[k]) = n
    BY <1>1, Numbers, FS_Interval
  <1> DEFINE m == n + 1
  <1>3. /\ m <= now /\ now \in Month
        /\ published' = [published EXCEPT ![k] = @ \cup {m}]
        /\ version' = IF k = Brackets THEN [version EXCEPT ![m] = 1]
                                      ELSE version
        /\ UNCHANGED <<now, rows, pc, got, read, syncVars>>
    BY <1>2 DEF Publish, Typed, TypeOK
  <1>4. m \in Month /\ m \in 0 .. LastMonth /\ 1 .. m = (1 .. n) \cup {m}
        /\ m \notin 1 .. n
    BY <1>3, Numbers DEF Month
  <1>5. published' \in [Kind -> SUBSET Month]
    BY <1>3, <1>4 DEF Typed, TypeOK
  <1>6. \A i \in Month : Len(Tables[i]) \in Nat /\ 1 <= Len(Tables[i])
    BY Versions
  <1>7. /\ version' \in [Month -> Nat]
        /\ \A i \in Month : version'[i] <= Len(Tables[i])
    BY <1>3, <1>4, <1>6 DEF Typed, TypeOK
  <1>8. \A j \in Kind : \E i \in 0 .. LastMonth : published'[j] = 1 .. i
    BY <1>1, <1>3, <1>4 DEF Typed, TypeOK
  <1>9. Brackets \in Kind
    BY DEF Kind
  <1>10. \A i \in Month : version'[i] # version[i] =>
            i \notin published[Brackets] /\ version'[i] = 1
    BY <1>1, <1>3, <1>4 DEF Typed, TypeOK
  <1>11. \A i \in Month : version'[i] # 0 <=> i \in published'[Brackets]
    BY <1>3, <1>4, <1>9 DEF Typed, TypeOK
  <1>13. TypeOK'
    BY <1>3, <1>5, <1>7 DEF rows, syncVars, Typed, TypeOK
  <1>14. \A w \in Worker : pc[w] = "writeYear" =>
            \A i \in got[w] : read[w][i] \in 1 .. version'[i]
    <2> SUFFICES ASSUME NEW w \in Worker, pc[w] = "writeYear", NEW i \in got[w]
                 PROVE  read[w][i] \in 1 .. version'[i]
      OBVIOUS
    <2>1. i \in Month /\ read[w][i] \in 1 .. version[i]
      BY DEF Typed, TypeOK
    <2>2. version'[i] = version[i]
      <3> SUFFICES ASSUME version'[i] # version[i] PROVE FALSE
        OBVIOUS
      <3>1. k = Brackets /\ i = m
        BY <1>3, <2>1 DEF Typed, TypeOK
      <3>2. m \notin published[Brackets]
        BY <1>1, <1>4, <3>1
      <3>3. version[i] = 0
        BY <2>1, <3>1, <3>2 DEF Typed
      <3> QED
        BY <2>1, <3>3
    <2> QED
      BY <2>1, <2>2
  <1> QED
    BY <1>3, <1>8, <1>10, <1>11, <1>13, <1>14 DEF Typed, TypeOK, syncVars

LEMMA CorrectTyped ==
  ASSUME Typed, NEW m \in Month, Correct(m)
  PROVE  Typed'
  <1>1. /\ version[m] \in 1 .. Len(Tables[m]) - 1 /\ Len(Tables[m]) \in Nat
        /\ version' = [version EXCEPT ![m] = @ + 1]
        /\ UNCHANGED <<now, published, rows, pc, got, read, syncVars>>
    BY Versions DEF Correct
  <1>2. /\ version[m] + 1 \in Nat /\ version[m] + 1 <= Len(Tables[m])
        /\ version[m] # 0 /\ version[m] + 1 # 0
    BY <1>1
  <1>3. /\ version' \in [Month -> Nat]
        /\ \A i \in Month : version'[i] <= Len(Tables[i])
    BY <1>1, <1>2 DEF Typed, TypeOK
  <1>4. TypeOK'
    BY <1>1, <1>3 DEF rows, syncVars, Typed, TypeOK
  <1>5. \A i \in Month : version'[i] # 0 <=> version[i] # 0
    BY <1>1, <1>2 DEF Typed, TypeOK
  <1>6. \A i \in Month : 1 .. version[i] \subseteq 1 .. version'[i]
    <2> SUFFICES ASSUME NEW i \in Month
                 PROVE  1 .. version[i] \subseteq 1 .. version'[i]
      OBVIOUS
    <2>1. version[i] \in Nat
      BY DEF Typed, TypeOK
    <2>2. version'[i] \in {version[i], version[i] + 1}
      BY <1>1 DEF Typed, TypeOK
    <2> QED
      BY <2>1, <2>2
  <1>7. \A w \in Worker : pc[w] = "writeYear" =>
           \A i \in got[w] : read[w][i] \in 1 .. version'[i]
    BY <1>6 DEF Typed, TypeOK
  <1> QED
    BY <1>1, <1>4, <1>5, <1>7 DEF syncVars, Typed

\* Leaving, and the steps that go on to the next code or year.
LEMMA StartTyped ==
  ASSUME Typed, NEW s \in Syncer, StartSync(s)
  PROVE  Typed'
  <1> s \in Worker
    BY Workers
  <1>1. PICK months \in SUBSET Month :
           /\ window' = [window EXCEPT ![s] = months]
           /\ due' = [due EXCEPT ![s] =
                         [k \in Kind |-> months \cap published[k]]]
    BY DEF StartSync
  <1>2. window' \in [Syncer -> SUBSET Month]
    BY <1>1 DEF Typed, TypeOK
  <1>3. due' \in [Syncer -> [Kind -> SUBSET Month]]
    BY <1>1 DEF Typed, TypeOK
  <1>4. clean' \in [Syncer -> BOOLEAN]
    BY DEF StartSync, Typed, TypeOK
  <1>5. queue' \in [Syncer -> Seq(Kind \ {Brackets})] /\ queue'[s] # <<>>
    BY SeriesProperties DEF StartSync, Typed, TypeOK
  <1> QED
    BY <1>2, <1>3, <1>4, <1>5
    DEF StartSync, Goto, page, rows, Typed, TypeOK

LEMMA CollectTyped ==
  ASSUME Typed, NEW s \in Syncer, CollectMissing(s)
  PROVE  Typed'
  <1> s \in Worker
    BY Workers
  <1>1. Current(s) \in Kind /\ pc[s] = "collect"
    BY QueueProperties DEF CollectMissing
  <1>2. want' \in [Syncer -> [Kind -> SUBSET Month]]
    BY <1>1 DEF CollectMissing, Typed, TypeOK
  <1>3. queue' \in [Syncer -> Seq(Kind \ {Brackets})] /\ queue'[s] # <<>>
    BY <1>1, SeriesProperties, QueueProperties
    DEF CollectMissing, Typed, TypeOK
  <1>4. pc' \in [Worker -> {"idle", "collect", "fetch", "write", "list",
                            "fetchYear", "writeYear"}]
        /\ pc'[s] # "writeYear"
        /\ \A w \in Worker \ {s} : pc'[w] = pc[w]
    BY DEF CollectMissing, Goto, Typed, TypeOK
  <1>5. TypeOK'
    BY <1>2, <1>3, <1>4 DEF CollectMissing, page, rows, Typed, TypeOK
  <1>6. \A v \in Syncer : pc'[v] \in {"collect", "fetch", "write"} =>
           queue'[v] # <<>>
    BY <1>3, <1>4, Workers DEF CollectMissing, Typed, TypeOK
  <1>7. \A w \in Worker : pc'[w] = "writeYear" =>
           \A m \in got[w] : read[w][m] \in 1 .. version[m]
    BY <1>4 DEF Typed
  <1> QED
    BY <1>5, <1>6, <1>7 DEF CollectMissing, page, rows, Typed

LEMMA NextSeriesTyped ==
  ASSUME Typed, NEW s \in Syncer, pc[s] \in {"fetch", "write"}, NextSeries(s)
  PROVE  /\ want' \in [Syncer -> [Kind -> SUBSET Month]]
         /\ queue' \in [Syncer -> Seq(Kind \ {Brackets})]
         /\ years' \in [Syncer -> SUBSET Year]
         /\ pc' \in [Worker -> Pcs]
         /\ pc'[s] = (IF Len(queue[s]) > 1 THEN "fetch" ELSE "list")
         /\ \A w \in Worker \ {s} : pc'[w] = pc[w]
         /\ \A v \in Syncer : pc'[v] \in {"collect", "fetch", "write"} =>
               queue'[v] # <<>>
  <1> s \in Worker
    BY Workers
  <1>1. want' \in [Syncer -> [Kind -> SUBSET Month]]
    BY DEF NextSeries, Typed, TypeOK
  <1>2. queue' = [queue EXCEPT ![s] = Tail(queue[s])]
    BY DEF NextSeries
  <1>3. /\ Tail(queue[s]) \in Seq(Kind \ {Brackets})
        /\ Len(queue[s]) > 1 => Tail(queue[s]) # <<>>
    BY QueueProperties
  <1>4. queue' \in [Syncer -> Seq(Kind \ {Brackets})]
    BY <1>2, <1>3 DEF Typed, TypeOK
  <1>5. {YearOf(m) : m \in window[s]} \in SUBSET Year
    BY DEF Year, Typed, TypeOK
  <1>6. years' \in [Syncer -> SUBSET Year]
    BY <1>5 DEF NextSeries, Typed, TypeOK
  <1>7. pc' = [pc EXCEPT ![s] =
                  IF Len(queue[s]) > 1 THEN "fetch" ELSE "list"]
    BY DEF NextSeries, Goto
  <1>8. /\ pc' \in [Worker -> Pcs]
        /\ pc'[s] = (IF Len(queue[s]) > 1 THEN "fetch" ELSE "list")
        /\ \A w \in Worker \ {s} : pc'[w] = pc[w]
    BY <1>7 DEF Typed, TypeOK, Pcs
  <1>9. ASSUME NEW v \in Syncer, pc'[v] \in {"collect", "fetch", "write"}
        PROVE  queue'[v] # <<>>
    <2>1. CASE v = s
      BY <1>2, <1>3, <1>8, <1>9, <2>1 DEF Typed, TypeOK
    <2>2. CASE v # s
      BY <1>2, <1>8, <1>9, <2>2, Workers DEF Typed, TypeOK
    <2> QED
      BY <2>1, <2>2
  <1> QED
    BY <1>1, <1>4, <1>6, <1>8, <1>9

LEMMA SyncFetchTyped ==
  ASSUME Typed, NEW s \in Syncer, NEW months \in SUBSET Month,
         SyncFetch(s, months)
  PROVE  Typed'
  <1> s \in Worker
    BY Workers
  <1>0. /\ pc[s] = "fetch"
        /\ UNCHANGED <<now, page, rows, read, window, due>>
    BY DEF SyncFetch
  <1>1. clean' \in [Syncer -> BOOLEAN]
    BY Zenon DEF SyncFetch, Typed, TypeOK
  <1>2. CASE months = {}
    <2>1. NextSeries(s) /\ got' = got
      BY <1>2 DEF SyncFetch
    <2>2. \A w \in Worker : pc'[w] = "writeYear" => pc[w] = "writeYear"
      BY <2>1, <1>0, NextSeriesTyped
    <2> QED
      BY <1>0, <1>1, <2>1, <2>2, NextSeriesTyped
      DEF page, rows, Typed, TypeOK, Pcs
  <1>3. CASE months # {}
    <2>1. /\ got' = [got EXCEPT ![s] = months] /\ Goto(s, "write")
          /\ UNCHANGED <<queue, want, years>>
      BY <1>3 DEF SyncFetch
    <2>2. got' \in [Worker -> SUBSET Month] /\ pc' \in [Worker -> Pcs]
      BY <2>1 DEF Goto, Typed, TypeOK, Pcs
    <2>3. /\ \A w \in Worker : pc'[w] = "writeYear" =>
                pc[w] = "writeYear" /\ got'[w] = got[w]
          /\ \A v \in Syncer : pc'[v] \in {"collect", "fetch", "write"} =>
                pc[v] \in {"collect", "fetch", "write"}
      BY <1>0, <2>1, Workers DEF Goto, Typed, TypeOK
    <2> QED
      BY <1>0, <1>1, <2>1, <2>2, <2>3 DEF page, rows, Typed, TypeOK, Pcs
  <1> QED
    BY <1>2, <1>3

LEMMA SyncWriteTyped ==
  ASSUME Typed, NEW s \in Syncer, SyncWrite(s)
  PROVE  Typed'
  <1> s \in Worker
    BY Workers
  <1>1. /\ pc[s] = "write" /\ NextSeries(s)
        /\ stored' = [stored EXCEPT ![Current(s)] = @ \cup got[s]]
        /\ got' = [got EXCEPT ![s] = {}]
        /\ UNCHANGED <<now, page, bracket, read, window, due, clean>>
    BY DEF SyncWrite
  <1>2. stored' \in [Kind -> SUBSET Month]
    BY <1>1, QueueProperties DEF Typed, TypeOK
  <1>3. got' \in [Worker -> SUBSET Month]
    BY <1>1 DEF Typed, TypeOK
  <1>4. \A w \in Worker : pc'[w] = "writeYear" =>
           pc[w] = "writeYear" /\ got'[w] = got[w]
    BY <1>1, NextSeriesTyped DEF Typed, TypeOK
  <1> QED
    BY <1>1, <1>2, <1>3, <1>4, NextSeriesTyped DEF page, Typed, TypeOK, Pcs

LEMMA NextYearTyped ==
  ASSUME Typed, NEW s \in Syncer, NextYear(s)
  PROVE  /\ years' \in [Syncer -> SUBSET Year]
         /\ pc' \in [Worker -> Pcs]
         /\ pc'[s] = "list"
         /\ \A w \in Worker \ {s} : pc'[w] = pc[w]
  BY Workers DEF NextYear, Goto, Typed, TypeOK, Pcs

LEMMA ListYearTyped ==
  ASSUME Typed, NEW s \in Syncer, ListYear(s)
  PROVE  Typed'
  <1> s \in Worker
    BY Workers
  <1>1. /\ pc[s] = "list"
        /\ UNCHANGED <<now, page, rows, got, read, window, queue, want,
                       due, clean>>
    BY DEF ListYear
  <1>2. /\ years' \in [Syncer -> SUBSET Year]
        /\ pc' \in [Worker -> Pcs]
        /\ pc'[s] \in {"list", "fetchYear"}
        /\ \A w \in Worker \ {s} : pc'[w] = pc[w]
    <2>1. CASE NextYear(s)
      BY <2>1, NextYearTyped
    <2>2. CASE Goto(s, "fetchYear") /\ UNCHANGED years
      BY <2>2 DEF Goto, Typed, TypeOK, Pcs
    <2> QED
      BY <2>1, <2>2 DEF ListYear
  <1>3. /\ \A w \in Worker : pc'[w] = "writeYear" => pc[w] = "writeYear"
        /\ \A v \in Syncer : pc'[v] \in {"collect", "fetch", "write"} =>
              pc[v] \in {"collect", "fetch", "write"}
    BY <1>2, Workers
  <1> QED
    BY <1>1, <1>2, <1>3 DEF page, rows, Typed, TypeOK, Pcs

\* What is read off the page.
LEMMA TakePageTyped ==
  ASSUME Typed, NEW w \in Worker, NEW y, TakePage(w, Page(y))
  PROVE  /\ got' \in [Worker -> SUBSET Month]
         /\ read' \in [Worker -> [Month -> Nat]]
         /\ \A v \in Worker \ {w} : got'[v] = got[v] /\ read'[v] = read[v]
         /\ got'[w] = Page(y)
         /\ \A m \in got'[w] : read'[w][m] = version[m]
                               /\ version[m] \in 1 .. version[m]
  <1>1. Page(y) \in SUBSET Month /\ Page(y) \subseteq published[Brackets]
    BY DEF Page, MonthsOf
  <1>3. [m \in Month |-> IF m \in Page(y) THEN version[m] ELSE 0]
           \in [Month -> Nat]
    BY DEF Typed, TypeOK
  <1>4. /\ got' \in [Worker -> SUBSET Month]
        /\ read' \in [Worker -> [Month -> Nat]]
    BY <1>1, <1>3 DEF TakePage, Typed, TypeOK
  <1>5. /\ \A v \in Worker \ {w} : got'[v] = got[v] /\ read'[v] = read[v]
        /\ got'[w] = Page(y)
        /\ \A m \in Page(y) : read'[w][m] = version[m]
    BY <1>1 DEF TakePage, Typed, TypeOK
  <1>6. \A m \in Page(y) : version[m] \in 1 .. version[m]
    <2> SUFFICES ASSUME NEW m \in Page(y)
                 PROVE  version[m] \in 1 .. version[m]
      OBVIOUS
    <2>1. version[m] # 0 /\ version[m] \in Nat
      BY <1>1 DEF Typed, TypeOK
    <2> QED
      BY <2>1
  <1> QED
    BY <1>4, <1>5, <1>6

LEMMA FetchYearTyped ==
  ASSUME Typed, NEW s \in Syncer, FetchYear(s)
  PROVE  Typed'
  <1> s \in Worker
    BY Workers
  <1>0. /\ pc[s] = "fetchYear"
        /\ UNCHANGED <<now, page, rows, window, queue, want, due>>
    BY DEF FetchYear
  <1>1. PICK months \in {Page(CurrentYear(s)), {}} :
          /\ clean' = [clean EXCEPT ![s] = @ /\ months = Page(CurrentYear(s))]
          /\ IF months = {}
             THEN NextYear(s) /\ UNCHANGED <<got, read>>
             ELSE /\ TakePage(s, months)
                  /\ Goto(s, "writeYear")
                  /\ UNCHANGED years
    BY DEF FetchYear
  <1>2. clean' \in [Syncer -> BOOLEAN]
    BY <1>1, Zenon DEF Typed, TypeOK
  <1>3. CASE months = {}
    <2>1. NextYear(s) /\ UNCHANGED <<got, read>>
      BY <1>1, <1>3
    <2>2. /\ \A w \in Worker : pc'[w] = "writeYear" => pc[w] = "writeYear"
          /\ \A v \in Syncer : pc'[v] \in {"collect", "fetch", "write"} =>
                pc[v] \in {"collect", "fetch", "write"}
      BY <2>1, NextYearTyped, Workers
    <2> QED
      BY <1>0, <1>2, <2>1, <2>2, NextYearTyped DEF page, rows, Typed, TypeOK, Pcs
  <1>4. CASE months # {}
    <2>1. /\ TakePage(s, Page(CurrentYear(s)))
          /\ Goto(s, "writeYear") /\ UNCHANGED years
      BY <1>1, <1>4
    <2>2. /\ pc' \in [Worker -> Pcs] /\ pc'[s] = "writeYear"
          /\ \A w \in Worker \ {s} : pc'[w] = pc[w]
      BY <2>1 DEF Goto, Typed, TypeOK, Pcs
    <2>3. ASSUME NEW w \in Worker, pc'[w] = "writeYear"
          PROVE  \A m \in got'[w] : read'[w][m] \in 1 .. version[m]
      <3>1. CASE w = s
        BY <2>1, <3>1, TakePageTyped
      <3>2. CASE w # s
        BY <2>1, <2>2, <2>3, <3>2, TakePageTyped DEF Typed
      <3> QED
        BY <3>1, <3>2
    <2>4. \A v \in Syncer : pc'[v] \in {"collect", "fetch", "write"} =>
             pc[v] \in {"collect", "fetch", "write"}
      BY <2>2, Workers
    <2> QED
      BY <1>0, <1>2, <2>1, <2>2, <2>3, <2>4, TakePageTyped
      DEF page, rows, Typed, TypeOK, Pcs
  <1> QED
    BY <1>3, <1>4

\* The versions of which a worker holds rows are versions the page has had.
LEMMA ReadIsVersion ==
  ASSUME Typed, NEW w \in Worker, pc[w] = "writeYear", NEW m \in got[w]
  PROVE  /\ m \in Month
         /\ read[w][m] \in 1 .. version[m]
         /\ version[m] \in 1 .. Len(Tables[m])
         /\ read[w][m] \in 1 .. Len(Tables[m])
         /\ Fetched(w, m) = Tables[m][read[w][m]]
         /\ Fetched(w, m) \in Seq(PageRow)
  <1>1. /\ m \in Month /\ read[w][m] \in 1 .. version[m]
        /\ version[m] \in Nat /\ version[m] <= Len(Tables[m])
    BY DEF Typed, TypeOK
  <1>2. /\ version[m] \in 1 .. Len(Tables[m])
        /\ read[w][m] \in 1 .. Len(Tables[m])
    BY <1>1, Versions
  <1> QED
    BY <1>1, <1>2, Versions DEF Fetched

LEMMA ForgetTyped ==
  ASSUME Typed, NEW w \in Worker, Forget(w)
  PROVE  /\ got' \in [Worker -> SUBSET Month]
         /\ read' \in [Worker -> [Month -> Nat]]
         /\ \A v \in Worker \ {w} : got'[v] = got[v] /\ read'[v] = read[v]
         /\ got'[w] = {}
  <1>1. Unread \in [Month -> Nat]
    BY DEF Unread
  <1> QED
    BY <1>1 DEF Forget, Typed, TypeOK

LEMMA StoreBracketsTyped ==
  ASSUME Typed, NEW w \in Worker, pc[w] = "writeYear", StoreBrackets(w)
  PROVE  /\ stored' \in [Kind -> SUBSET Month]
         /\ bracket' \in [Month -> SUBSET (Income \X (0 .. Open))]
         /\ Forget(w)
  <1>1. stored' \in [Kind -> SUBSET Month]
    BY SeriesProperties DEF StoreBrackets, Typed, TypeOK
  <1>2. ASSUME NEW m \in Month
        PROVE  IF m \in got[w]
               THEN Upserted(bracket[m], Built(Fetched(w, m)))
                       \in SUBSET (Income \X (0 .. Open))
               ELSE bracket[m] \in SUBSET (Income \X (0 .. Open))
    <2>1. bracket[m] \in SUBSET (Income \X (0 .. Open))
      BY DEF Typed, TypeOK
    <2>2. CASE m \in got[w]
      <3>1. Built(Fetched(w, m)) \in SUBSET (Income \X (0 .. Open))
        BY <2>2, ReadIsVersion, BuiltType
      <3> QED
        BY <2>1, <2>2, <3>1, UpsertedProperties
    <2> QED
      BY <2>1, <2>2
  <1>3. bracket' \in [Month -> SUBSET (Income \X (0 .. Open))]
    BY <1>2 DEF StoreBrackets
  <1> QED
    BY <1>1, <1>3 DEF StoreBrackets

LEMMA LeaveTyped ==
  ASSUME Typed, NEW s \in Syncer, Leave(s), UNCHANGED <<now, page, rows>>
  PROVE  Typed'
  <1> s \in Worker
    BY Workers
  <1>1. Nothing \in [Kind -> SUBSET Month] /\ Forget(s)
    BY DEF Nothing, Leave
  <1>2. /\ pc' \in [Worker -> Pcs] /\ pc'[s] = "idle"
        /\ \A w \in Worker \ {s} :
              pc'[w] = pc[w] /\ got'[w] = got[w] /\ read'[w] = read[w]
        /\ \A v \in Syncer \ {s} : queue'[v] = queue[v]
    BY <1>1, ForgetTyped DEF Leave, Goto, Typed, TypeOK, Pcs
  <1>3. queue' \in [Syncer -> Seq(Kind \ {Brackets})]
    BY DEF Leave, Typed, TypeOK
  <1>4. TypeOK'
    BY <1>1, <1>2, <1>3, ForgetTyped DEF Leave, page, rows, Typed, TypeOK, Pcs
  <1>5. /\ \A w \in Worker : pc'[w] = "writeYear" =>
              pc[w] = "writeYear" /\ got'[w] = got[w] /\ read'[w] = read[w]
        /\ \A v \in Syncer : pc'[v] \in {"collect", "fetch", "write"} =>
              pc[v] \in {"collect", "fetch", "write"} /\ queue'[v] = queue[v]
    BY <1>2, Workers
  <1> QED
    BY <1>4, <1>5 DEF page, rows, Typed

LEMMA WriteYearTyped ==
  ASSUME Typed, NEW s \in Syncer, WriteYear(s)
  PROVE  Typed'
  <1> s \in Worker
    BY Workers
  <1>0. pc[s] = "writeYear" /\ UNCHANGED <<now, page>>
    BY DEF WriteYear
  <1>1. CASE Upsertable(s)
    <2>1. /\ StoreBrackets(s) /\ NextYear(s)
          /\ UNCHANGED <<window, queue, want, due, clean>>
      BY <1>1 DEF WriteYear
    <2>2. Forget(s)
      BY <2>1 DEF StoreBrackets
    <2>3. /\ \A w \in Worker : pc'[w] = "writeYear" =>
                pc[w] = "writeYear" /\ got'[w] = got[w] /\ read'[w] = read[w]
          /\ \A v \in Syncer : pc'[v] \in {"collect", "fetch", "write"} =>
                pc[v] \in {"collect", "fetch", "write"}
      BY <2>1, <2>2, ForgetTyped, NextYearTyped, Workers
    <2>4. TypeOK'
      BY <1>0, <2>1, <2>2, StoreBracketsTyped, ForgetTyped, NextYearTyped
      DEF page, Typed, TypeOK, Pcs
    <2> QED
      BY <1>0, <2>1, <2>3, <2>4 DEF page, Typed
  <1>2. CASE ~Upsertable(s)
    BY <1>0, <1>2, LeaveTyped DEF WriteYear
  <1> QED
    BY <1>1, <1>2

LEMMA RefreshTyped ==
  ASSUME Typed, NEW r \in Refresher,
         RefreshWrite(r) \/ \E y \in Year : RefreshFetch(r, y)
  PROVE  Typed'
  <1> r \in Worker /\ r \notin Syncer
    BY Workers, SyncAssumption
  <1>1. CASE RefreshWrite(r)
    <2>1. /\ pc[r] = "writeYear" /\ Forget(r) /\ Goto(r, "idle")
          /\ UNCHANGED <<now, page, syncVars>>
      BY <1>1 DEF RefreshWrite, StoreBrackets
    <2>2. /\ pc' \in [Worker -> Pcs] /\ pc'[r] = "idle"
          /\ \A w \in Worker \ {r} : pc'[w] = pc[w]
      BY <2>1 DEF Goto, Typed, TypeOK, Pcs
    <2>3. /\ stored' \in [Kind -> SUBSET Month]
          /\ bracket' \in [Month -> SUBSET (Income \X (0 .. Open))]
      <3>1. CASE StoreBrackets(r)
        BY <2>1, <3>1, StoreBracketsTyped
      <3>2. CASE UNCHANGED rows
        BY <3>2 DEF rows, Typed, TypeOK
      <3> QED
        BY <1>1, <3>1, <3>2 DEF RefreshWrite
    <2>4. /\ \A w \in Worker : pc'[w] = "writeYear" =>
                pc[w] = "writeYear" /\ got'[w] = got[w] /\ read'[w] = read[w]
          /\ \A v \in Syncer : pc'[v] = pc[v]
      BY <2>1, <2>2, ForgetTyped, Workers
    <2>5. TypeOK'
      BY <2>1, <2>2, <2>3, ForgetTyped DEF page, syncVars, Typed, TypeOK, Pcs
    <2> QED
      BY <2>1, <2>4, <2>5 DEF page, syncVars, Typed
  <1>2. ASSUME NEW y \in Year, RefreshFetch(r, y)
        PROVE  Typed'
    <2>1. /\ TakePage(r, Page(y)) /\ Goto(r, "writeYear")
          /\ UNCHANGED <<now, page, rows, syncVars>>
      BY <1>2 DEF RefreshFetch
    <2>2. /\ pc' \in [Worker -> Pcs] /\ pc'[r] = "writeYear"
          /\ \A w \in Worker \ {r} : pc'[w] = pc[w]
      BY <2>1 DEF Goto, Typed, TypeOK, Pcs
    <2>3. ASSUME NEW w \in Worker, pc'[w] = "writeYear"
          PROVE  \A m \in got'[w] : read'[w][m] \in 1 .. version[m]
      <3>1. CASE w = r
        BY <2>1, <3>1, TakePageTyped
      <3>2. CASE w # r
        BY <2>1, <2>2, <2>3, <3>2, TakePageTyped DEF Typed
      <3> QED
        BY <3>1, <3>2
    <2>4. \A v \in Syncer : pc'[v] = pc[v]
      BY <2>2, Workers
    <2>5. TypeOK'
      BY <2>1, <2>2, TakePageTyped DEF page, rows, syncVars, Typed, TypeOK, Pcs
    <2> QED
      BY <2>1, <2>3, <2>4, <2>5 DEF page, rows, syncVars, Typed
  <1> QED
    BY <1>1, <1>2

LEMMA NextTyped ==
  ASSUME Typed, [Next]_vars
  PROVE  Typed'
  <1>1. CASE UNCHANGED vars
    BY <1>1 DEF vars, page, rows, syncVars, Typed, TypeOK
  <1>2. CASE NextMonth
    <2>1. now' \in Month
      BY <1>2, Numbers DEF NextMonth, Month, Typed, TypeOK
    <2> QED
      BY <1>2, <2>1 DEF NextMonth, page, rows, syncVars, Typed, TypeOK
  <1>3. ASSUME NEW s \in Syncer, StartSync(s) \/ SyncStep(s) \/ SyncDies(s)
        PROVE  Typed'
    BY <1>3, StartTyped, CollectTyped, SyncFetchTyped, SyncWriteTyped,
       ListYearTyped, FetchYearTyped, WriteYearTyped, LeaveTyped
    DEF SyncStep, FinishSync, SyncDies
  <1> QED
    BY <1>1, <1>2, <1>3, PublishTyped, CorrectTyped, RefreshTyped DEF Next

\* The invariant that the other proofs rest on: types, that months are published
\* in order, that a sync at work has a series left, and that a page is read in a
\* version it has had.
THEOREM Types == Spec => []Typed
  BY InitTyped, NextTyped, PTL DEF Spec

\* Months, windows, queues and rows of brackets stay in their types: every row
\* that is built off a page begins and ends within the taxable bases.
THEOREM TypeCorrect == Spec => []TypeOK
  <1>1. Typed => TypeOK
    BY DEF Typed
  <1> QED
    BY <1>1, Types, PTL
=============================================================================

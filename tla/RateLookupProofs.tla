--------------------------- MODULE RateLookupProofs ---------------------------
(***************************************************************************)
(* Theorems about RateLookup, for any codes, providers' dates, pages that  *)
(* fail together, lengths of months and of the lookback, and any number of *)
(* days.                                                                   *)
(***************************************************************************)
EXTENDS RateLookup, NumberLemmas, SequenceTheorems, TLAPS

Value == Date \cup {None}
Table == [Date -> Value]

-----------------------------------------------------------------------------
\* Dates and months

LEMMA Numbers ==
  /\ ProbeDays \in Nat \ {0} /\ MonthDays \in Nat \ {0} /\ ProbeDays < MonthDays
  /\ Ahead \in Nat /\ LastDay \in Nat \ {0}
  BY LookupAssumption

LEMMA Dates ==
  /\ Date \subseteq Int /\ Asked \subseteq Date
  /\ None \in Int /\ None \notin Date /\ \A d \in Date : None < d
  /\ \A d \in Asked : Window(d) \subseteq Date
  /\ \A d \in Asked : \A e \in Window(d) : e \in Int /\ 1 - ProbeDays <= e /\ e < d
  BY Numbers DEF Date, Asked, None, Window

\* The first of a month is in the month, and is its own first.
LEMMA FirstOfMonth ==
  ASSUME NEW d \in Int
  PROVE  /\ First(d) \in Int /\ First(d) <= d /\ d - MonthDays < First(d)
         /\ First(First(d)) = First(d)
         /\ d >= 1 => First(d) >= 1
  <1> DEFINE n == d - 1
             q == n \div MonthDays
             r == n % MonthDays
  <1>1. n \in Int /\ n = d - 1 /\ d = n + 1
    OBVIOUS
  <1>2. n = (MonthDays * q) + r /\ q \in Int /\ r \in 0 .. (MonthDays - 1)
    <2> HIDE DEF n
    <2> QED
      BY <1>1, Division, Numbers
  <1>3. (n - r) % MonthDays = 0
    <2> HIDE DEF n
    <2> QED
      BY <1>1, MultipleWithoutRemainder, Numbers
  <1>4. First(d) = d - r
    BY DEF First
  <1>5. First(First(d)) = First(d) - ((First(d) - 1) % MonthDays)
    BY DEF First
  <1> HIDE DEF n, q, r
  <1>6. First(d) - 1 = n - r
    BY <1>1, <1>2, <1>4, Numbers
  <1>7. r >= 0 /\ r < MonthDays /\ r \in Int
    BY <1>2, Numbers
  <1>8. ASSUME n >= 0 PROVE r <= n
    <2>1. CASE q >= 0
      <3>1. MonthDays * q >= 0
        BY <2>1, <1>2, Numbers
      <3> QED
        BY <3>1, <1>1, <1>2, <1>7, Numbers
    <2>2. CASE q <= 0 - 1
      <3>1. MonthDays * q <= 0 - MonthDays
        BY <2>2, <1>2, Numbers
      <3>2. MonthDays * q \in Int
        BY <1>2, Numbers
      <3> HIDE DEF q
      <3> QED
        BY <3>1, <3>2, <1>8, <1>1, <1>2, <1>7, Numbers
    <2> QED
      BY <2>1, <2>2, <1>2
  <1>9. First(First(d)) = First(d)
    <2>1. First(d) \in Int
      BY <1>4, <1>7
    <2> QED
      BY <2>1, <1>3, <1>5, <1>6
  <1> QED
    BY <1>1, <1>4, <1>7, <1>8, <1>9, Numbers

LEMMA NormalDates ==
  ASSUME code \in Code, NEW d \in Int
  PROVE  /\ Normal(d) \in Int /\ Normal(d) <= d
         /\ Normal(Normal(d)) = Normal(d)
         /\ code \in Daily => Normal(d) = d
         /\ d \in Asked => Normal(d) \in Asked
         /\ d \in Date /\ 1 - ProbeDays <= d => Normal(d) \in Date
  <1>1. CASE code \in Daily
    <2>1. Normal(d) = d /\ Normal(Normal(d)) = d
      BY <1>1, LookupAssumption DEF Normal
    <2> QED
      BY <2>1
  <1>2. CASE code \notin Daily
    <2>1. Normal(d) = First(d) /\ Normal(Normal(d)) = First(First(d))
      BY <1>2 DEF Code, Normal
    <2>2. d \in Asked => First(d) \in Asked
      BY FirstOfMonth, Numbers DEF Asked
    <2>3. d \in Date /\ 1 - ProbeDays <= d => First(d) \in Date
      BY FirstOfMonth, Numbers DEF Date
    <2> QED
      BY <1>2, <2>1, <2>2, <2>3, FirstOfMonth
  <1> QED
    BY <1>1, <1>2

-----------------------------------------------------------------------------
\* What the providers give

LEMMA ChainIs ==
  /\ DOMAIN Chain = 1 .. 3
  /\ Chain[1] = "bcch" /\ Chain[2] = "sii" /\ Chain[3] = "mindicador"
  /\ Provider = {"bcch", "sii", "mindicador"}
  <1>1. DOMAIN Chain = 1 .. 3
    BY DEF Chain
  <1>2. Chain[1] = "bcch" /\ Chain[2] = "sii" /\ Chain[3] = "mindicador"
    BY DEF Chain
  <1>3. Provider = {Chain[i] : i \in 1 .. 3}
    BY <1>1 DEF Provider, ToSet
  <1> QED
    BY <1>1, <1>2, <1>3

\* A provider answers for a date with what it published for its month or day.
LEMMA AnswersArePublished ==
  ASSUME code \in Code, NEW p \in Provider, NEW d \in Int, Answers(p, d)
  PROVE  Normal(d) \in Published(p)
  <1>1. CASE p = "sii"
    BY <1>1 DEF Answers, HasMonth, Normal
  <1>2. CASE p # "sii"
    <2>1. d \in Published(p)
      BY <1>2 DEF Answers, HasDate
    <2>2. code \in Monthly => First(d) = d
      BY <2>1, LookupAssumption DEF Published
    <2> QED
      BY <2>1, <2>2 DEF Normal
  <1> QED
    BY <1>1, <1>2

\* The first of the three that answers.
LEMMA FirstMatchIs ==
  ASSUME NEW d
  PROVE  FirstMatch(d) = IF Answers("bcch", d) THEN "bcch"
                         ELSE IF Answers("sii", d) THEN "sii"
                         ELSE IF Answers("mindicador", d) THEN "mindicador"
                         ELSE "none"
  <1> DEFINE hits == {i \in 1 .. 3 : Answers(Chain[i], d)}
  <1>1. FirstMatch(d) = IF hits = {} THEN "none" ELSE Chain[Min(hits)]
    BY ChainIs DEF FirstMatch
  <1>2. hits # {} => Min(hits) \in hits /\ \A i \in hits : Min(hits) <= i
    <2>1. hits \in SUBSET Int /\ \A i \in hits : 0 <= i
      OBVIOUS
    <2> HIDE DEF hits
    <2> QED
      BY <2>1, MinIsLeast
  <1>3. \A i \in hits : i \in {1, 2, 3} /\ Answers(Chain[i], d)
    OBVIOUS
  <1>4. /\ 1 \in hits <=> Answers("bcch", d)
        /\ 2 \in hits <=> Answers("sii", d)
        /\ 3 \in hits <=> Answers("mindicador", d)
    BY ChainIs
  <1> HIDE DEF hits
  <1> QED
    BY <1>1, <1>2, <1>3, <1>4, ChainIs

LEMMA FetchableIs ==
  ASSUME NEW d
  PROVE  Fetchable(d) <=> \E p \in Provider : Answers(p, d)
  BY FirstMatchIs, ChainIs DEF Fetchable

\* Fetching together: what the chain finds for the dates that are asked for.
LEMMA FetchedTogether ==
  ASSUME NEW dates \in SUBSET Date, NEW d \in Date
  PROVE  FetchEntries(dates)[d] = IF d \in dates THEN FirstMatch(d) ELSE "none"
  <1> DEFINE a0 == [remaining |-> dates, source |-> [e \in Date |-> "none"]]
             a1 == AskNext(a0, Chain[1])
             a2 == AskNext(a1, Chain[2])
             a3 == AskNext(a2, Chain[3])
  <1>1. FetchEntries(dates) = a3.source
    BY DEF FetchEntries
  <1>2. ASSUME NEW acc, NEW p
        PROVE  /\ d \in AskNext(acc, p).remaining
                     <=> d \in acc.remaining /\ ~ Answers(p, d)
               /\ AskNext(acc, p).source[d] =
                     IF d \in acc.remaining /\ Answers(p, d)
                       THEN p ELSE acc.source[d]
    BY DEF AskNext
  <1>3. d \in a0.remaining <=> d \in dates
    OBVIOUS
  <1>4. a0.source[d] = "none"
    OBVIOUS
  <1> HIDE DEF a0
  <1>5. /\ d \in a1.remaining <=> d \in dates /\ ~ Answers("bcch", d)
        /\ a1.source[d] = IF d \in dates /\ Answers("bcch", d)
                            THEN "bcch" ELSE "none"
    BY <1>2, <1>3, <1>4, ChainIs
  <1> HIDE DEF a1
  <1>6. /\ d \in a2.remaining <=> d \in a1.remaining /\ ~ Answers("sii", d)
        /\ a2.source[d] = IF d \in a1.remaining /\ Answers("sii", d)
                            THEN "sii" ELSE a1.source[d]
    BY <1>2, ChainIs
  <1> HIDE DEF a2
  <1>7. a3.source[d] = IF d \in a2.remaining /\ Answers("mindicador", d)
                         THEN "mindicador" ELSE a2.source[d]
    BY <1>2, ChainIs
  <1> HIDE DEF a3
  <1> QED
    BY <1>1, <1>5, <1>6, <1>7, FirstMatchIs

-----------------------------------------------------------------------------
\* Tables

\* Every row of t holds what was published for its date, or for its month.
Genuine(t) ==
    \A d \in Date : t[d] # None =>
        t[d] = Normal(d) /\ \E p \in Provider : Normal(d) \in Published(p)

\* No row of t is lost or changed in u.
Grown(t, u) == \A d \in Date : t[d] # None => u[d] = t[d]

\* A value that may answer for d: that of d or, once d has come, one of the
\* days before.
Reaches(v, d) == v \in {d} \cup Window(d) /\ (v = d \/ d <= today)

LEMMA RowsAre == RowsAreGenuine <=> Genuine(table)
  BY DEF RowsAreGenuine, Genuine

LEMMA GrownIsTransitive ==
  ASSUME NEW t, NEW u, NEW v, Grown(t, u), Grown(u, v)
  PROVE  Grown(t, v)
  BY DEF Grown

LEMMA GenuineHits ==
  ASSUME code \in Code, NEW t \in Table, Genuine(t), NEW d \in Date, t[d] # None
  PROVE  t[d] \in Date /\ t[d] = Normal(d) /\ (code \in Daily => t[d] = d)
  BY Dates, NormalDates DEF Genuine, Table, Value

\* Storing what a provider has keeps a table what it should be.
LEMMA PersistKeeps ==
  ASSUME code \in Code, NEW t \in Table, Genuine(t),
         NEW d \in Date, 1 - ProbeDays <= d, Fetchable(d)
  PROVE  /\ Persist(t, d) \in Table /\ Genuine(Persist(t, d))
         /\ Grown(t, Persist(t, d))
         /\ Persist(t, d)[d] = Normal(d) /\ Normal(d) \in Date
  <1>1. d \in Int /\ Normal(d) \in Date /\ None \notin Date
    BY Dates, NormalDates
  <1>2. PICK p \in Provider : Normal(d) \in Published(p)
    BY <1>1, FetchableIs, AnswersArePublished
  <1>3. Persist(t, d) = [e \in Date |-> IF e = d THEN Normal(d) ELSE t[e]]
    BY DEF Persist, Table
  <1>4. Persist(t, d) \in Table
    BY <1>1, <1>3 DEF Table, Value
  <1>5. Genuine(Persist(t, d))
    BY <1>2, <1>3 DEF Genuine
  <1>6. Grown(t, Persist(t, d))
    BY <1>3 DEF Genuine, Grown
  <1> QED
    BY <1>1, <1>3, <1>4, <1>5, <1>6

-----------------------------------------------------------------------------
\* The five steps

Prior(t, d) == {e \in Window(d) : t[e] # None}
Probed(d)   == {e \in Window(d) : Fetchable(e)}

LEMMA SingleCases ==
  ASSUME NEW t, NEW d
  PROVE  \/ t[Normal(d)] # None /\ Single(t, d) = Hit(t, Normal(d))
         \/ /\ t[Normal(d)] = None /\ Fetchable(d)
            /\ Single(t, d) = Fetched(t, d)
         \/ /\ t[Normal(d)] = None /\ ~ Fetchable(d) /\ d > today
            /\ Single(t, d) = NotFound(t)
         \/ /\ t[Normal(d)] = None /\ ~ Fetchable(d) /\ ~ d > today
            /\ Prior(t, d) # {} /\ Single(t, d) = Hit(t, Max(Prior(t, d)))
         \/ /\ t[Normal(d)] = None /\ ~ Fetchable(d) /\ ~ d > today
            /\ Prior(t, d) = {} /\ Probed(d) # {}
            /\ Single(t, d) = Fetched(t, Max(Probed(d)))
         \/ /\ t[Normal(d)] = None /\ ~ Fetchable(d) /\ ~ d > today
            /\ Prior(t, d) = {} /\ Probed(d) = {}
            /\ Single(t, d) = NotFound(t)
  BY DEF Single, Prior, Probed

LEMMA GreatestOfWindow ==
  ASSUME NEW d \in Asked, NEW S \in SUBSET Window(d), S # {}
  PROVE  Max(S) \in S /\ \A e \in S : e <= Max(S)
  <1>1. S \in SUBSET Int /\ d \in Int /\ \A e \in S : e <= d
    BY Dates
  <1> QED
    BY <1>1, MaxIsGreatest

LEMMA PriorIs ==
  ASSUME NEW t, NEW d \in Asked, Prior(t, d) # {}
  PROVE  /\ Max(Prior(t, d)) \in Window(d) /\ t[Max(Prior(t, d))] # None
         /\ \A e \in Window(d) : t[e] # None => e <= Max(Prior(t, d))
  <1>1. Prior(t, d) \in SUBSET Window(d)
    BY DEF Prior
  <1>2. /\ Max(Prior(t, d)) \in Prior(t, d)
        /\ \A e \in Prior(t, d) : e <= Max(Prior(t, d))
    BY <1>1, GreatestOfWindow
  <1> QED
    BY <1>2 DEF Prior

LEMMA ProbedIs ==
  ASSUME NEW d \in Asked, Probed(d) # {}
  PROVE  /\ Max(Probed(d)) \in Window(d) /\ Max(Probed(d)) \in Date
         /\ 1 - ProbeDays <= Max(Probed(d)) /\ Fetchable(Max(Probed(d)))
  <1>1. Probed(d) \in SUBSET Window(d)
    BY DEF Probed
  <1>2. Max(Probed(d)) \in Probed(d)
    BY <1>1, GreatestOfWindow
  <1> QED
    BY <1>2, Dates DEF Probed

\* What one lookup leaves in the table and answers.
LEMMA SingleOutcome ==
  ASSUME code \in Code, today \in Int, NEW t \in Table, Genuine(t), NEW d \in Asked
  PROVE  /\ Single(t, d).table \in Table /\ Genuine(Single(t, d).table)
         /\ Grown(t, Single(t, d).table)
         /\ Single(t, d).value \in Value
         /\ d > today => Single(t, d).value \in {None, Normal(d)}
         /\ code \in Daily /\ Single(t, d).value # None =>
               /\ Reaches(Single(t, d).value, d)
               /\ Single(t, d).table[Single(t, d).value] # None
  <1> DEFINE s == Single(t, d)
  <1> SUFFICES /\ s.table \in Table /\ Genuine(s.table) /\ Grown(t, s.table)
               /\ s.value \in Value
               /\ d > today => s.value \in {None, Normal(d)}
               /\ code \in Daily /\ s.value # None =>
                     Reaches(s.value, d) /\ s.table[s.value] # None
    OBVIOUS
  <1>1. /\ d \in Int /\ d \in Date /\ 1 - ProbeDays <= d /\ None \notin Date
        /\ Normal(d) \in Date /\ Normal(Normal(d)) = Normal(d)
        /\ Window(d) \subseteq Date
        /\ code \in Daily => Normal(d) = d
        /\ Grown(t, t)
    BY Dates, NormalDates, Numbers DEF Asked, Grown
  <1>2. CASE t[Normal(d)] # None /\ s = Hit(t, Normal(d))
    <2>1. s.table = t /\ s.value = t[Normal(d)]
      BY <1>2 DEF Hit
    <2>2. s.value = Normal(d) /\ s.value \in Date
      BY <1>1, <1>2, <2>1, GenuineHits
    <2> HIDE DEF s
    <2> QED
      BY <1>1, <1>2, <2>1, <2>2 DEF Value, Reaches
  <1>3. CASE Fetchable(d) /\ s = Fetched(t, d)
    <2>1. s.table = Persist(t, d) /\ s.value = Normal(d)
      BY <1>3 DEF Fetched
    <2> HIDE DEF s
    <2> QED
      BY <1>1, <1>3, <2>1, PersistKeeps DEF Value, Reaches
  <1>4. CASE s = NotFound(t)
    <2>1. s.table = t /\ s.value = None
      BY <1>4 DEF NotFound
    <2> HIDE DEF s
    <2> QED
      BY <1>1, <2>1 DEF Value
  <1>5. CASE /\ ~ d > today
             /\ Prior(t, d) # {} /\ s = Hit(t, Max(Prior(t, d)))
    <2> DEFINE e == Max(Prior(t, d))
    <2>1. s.table = t /\ s.value = t[e]
      BY <1>5 DEF Hit
    <2>2. e \in Window(d) /\ t[e] # None
      BY <1>5, PriorIs
    <2>3. t[e] \in Date /\ (code \in Daily => t[e] = e)
      BY <1>1, <2>2, GenuineHits
    <2> HIDE DEF s, e
    <2> QED
      BY <1>1, <1>5, <2>1, <2>2, <2>3 DEF Value, Reaches
  <1>6. CASE /\ ~ d > today
             /\ Probed(d) # {} /\ s = Fetched(t, Max(Probed(d)))
    <2> DEFINE e == Max(Probed(d))
    <2>1. s.table = Persist(t, e) /\ s.value = Normal(e)
      BY <1>6 DEF Fetched
    <2>2. /\ e \in Window(d) /\ e \in Date /\ e \in Int
          /\ 1 - ProbeDays <= e /\ Fetchable(e)
      BY <1>6, ProbedIs, Dates
    <2>3. code \in Daily => Normal(e) = e
      BY <2>2, NormalDates
    <2> HIDE DEF s, e
    <2>4. /\ s.table \in Table /\ Genuine(s.table) /\ Grown(t, s.table)
          /\ s.value \in Date /\ s.table[e] = Normal(e)
      BY <2>1, <2>2, PersistKeeps
    <2> QED
      BY <1>1, <1>6, <2>1, <2>2, <2>3, <2>4 DEF Value, Reaches
  <1> HIDE DEF s
  <1> QED
    BY <1>2, <1>3, <1>4, <1>5, <1>6, SingleCases DEF s

\* For a daily code a lookup finds what is stored, and nothing older.
LEMMA SingleIsLatest ==
  ASSUME code \in Code, code \in Daily, today \in Int,
         NEW t \in Table, Genuine(t), NEW d \in Asked,
         NEW b \in Date, t[b] # None, Reaches(b, d)
  PROVE  Single(t, d).value # None /\ Single(t, d).value >= b
  <1> DEFINE s == Single(t, d)
  <1> SUFFICES s.value # None /\ s.value >= b
    OBVIOUS
  <1>1. /\ d \in Int /\ d \in Date /\ b \in Int /\ None \notin Date
        /\ Window(d) \subseteq Date /\ Normal(d) = d
        /\ b <= d
    BY Dates, NormalDates DEF Reaches
  <1>2. CASE t[d] # None /\ s = Hit(t, d)
    <2>1. s.value = d
      BY <1>1, <1>2, GenuineHits DEF Hit
    <2> QED
      BY <1>1, <2>1
  <1>3. CASE s = Fetched(t, d)
    BY <1>1, <1>3 DEF Fetched
  <1>4. ASSUME t[d] = None
        PROVE  b \in Window(d) /\ b \in Prior(t, d) /\ ~ d > today
    BY <1>1, <1>4 DEF Reaches, Prior
  <1>5. CASE t[d] = None /\ s = Hit(t, Max(Prior(t, d)))
    <2> DEFINE e == Max(Prior(t, d))
    <2>1. e \in Window(d) /\ t[e] # None /\ b <= e
      BY <1>4, <1>5, PriorIs
    <2>2. s.value = t[e]
      BY <1>5 DEF Hit
    <2> HIDE DEF s, e
    <2>3. e \in Date /\ e \in Int /\ t[e] = e
      BY <2>1, <1>1, Dates, GenuineHits
    <2> QED
      BY <1>1, <2>1, <2>2, <2>3
  <1> HIDE DEF s
  <1> QED
    BY <1>1, <1>2, <1>3, <1>4, <1>5, SingleCases DEF s

-----------------------------------------------------------------------------
\* The loop of a batch: a recursive function on 0 .. n exists, and what the
\* first accumulator and every step of the loop keep, its last one has.

IsLoop(f, t, dates, n) ==
    f = [i \in 0 .. n |-> IF i = 0 THEN Before(t, dates)
                                   ELSE Resolve(f[i - 1], dates[i])]

LEMMA LongerLoop ==
  ASSUME NEW t, NEW dates, NEW n \in Nat, NEW f, IsLoop(f, t, dates, n)
  PROVE  \E g : IsLoop(g, t, dates, n + 1)
  <1> DEFINE g == [i \in 0 .. n + 1 |-> IF i = n + 1
                                          THEN Resolve(f[n], dates[n + 1])
                                          ELSE f[i]]
             h == [i \in 0 .. n + 1 |-> IF i = 0 THEN Before(t, dates)
                                          ELSE Resolve(g[i - 1], dates[i])]
  <1>1. \A i \in 0 .. n : f[i] = IF i = 0 THEN Before(t, dates)
                                          ELSE Resolve(f[i - 1], dates[i])
    BY Zenon DEF IsLoop
  <1>2. /\ \A i \in 0 .. n : g[i] = f[i]
        /\ g[n + 1] = Resolve(f[n], dates[n + 1])
    OBVIOUS
  <1>3. ASSUME NEW i \in 0 .. n + 1
        PROVE  g[i] = IF i = 0 THEN Before(t, dates)
                               ELSE Resolve(g[i - 1], dates[i])
    <2> HIDE DEF g
    <2>1. CASE i = n + 1
      <3>1. i - 1 = n /\ n \in 0 .. n /\ i # 0
        BY <2>1
      <3> QED
        BY <2>1, <3>1, <1>2
    <2>2. CASE i \in 0 .. n
      <3>1. i # 0 => i - 1 \in 0 .. n
        BY <2>2
      <3> QED
        BY <2>2, <3>1, <1>1, <1>2
    <2> QED
      BY <2>1, <2>2
  <1>4. g = h
    <2>1. \A i \in 0 .. n + 1 : h[i] = g[i]
      <3> HIDE DEF g
      <3> QED
        BY <1>3
    <2> QED
      BY <2>1, Zenon
  <1> HIDE DEF g
  <1> QED
    BY <1>4 DEF IsLoop

LEMMA LoopExists ==
  ASSUME NEW t, NEW dates, NEW n \in Nat
  PROVE  \E f : IsLoop(f, t, dates, n)
  <1> DEFINE Bad == {m \in Nat : ~ \E f : IsLoop(f, t, dates, m)}
  <1> SUFFICES ASSUME Bad # {} PROVE FALSE
    OBVIOUS
  <1>1. PICK m \in Bad : \A k \in Bad : m <= k
    BY SmallestOf
  <1>2. CASE m = 0
    <2> DEFINE f == [i \in 0 .. 0 |-> Before(t, dates)]
               g == [i \in 0 .. 0 |-> IF i = 0 THEN Before(t, dates)
                                        ELSE Resolve(f[i - 1], dates[i])]
    <2>1. f = g
      OBVIOUS
    <2> HIDE DEF f
    <2>2. IsLoop(f, t, dates, 0)
      BY <2>1 DEF IsLoop
    <2> QED
      BY <2>2, <1>1, <1>2
  <1>3. CASE m # 0
    <2>1. m - 1 \in Nat /\ m - 1 \notin Bad /\ (m - 1) + 1 = m
      BY <1>1, <1>3
    <2>2. \E f : IsLoop(f, t, dates, m - 1)
      BY <2>1
    <2>3. \E f : IsLoop(f, t, dates, (m - 1) + 1)
      BY <2>1, <2>2, LongerLoop
    <2> QED
      BY <2>1, <2>3, <1>1
  <1> QED
    BY <1>2, <1>3

LEMMA BatchKeeps ==
  ASSUME NEW t, NEW dates, Len(dates) \in Nat,
         NEW Kept, Before(t, dates) \in Kept[0],
         \A i \in 1 .. Len(dates) : \A acc \in Kept[i - 1] :
            Resolve(acc, dates[i]) \in Kept[i]
  PROVE  Batch(t, dates) \in Kept[Len(dates)]
  <1> DEFINE n == Len(dates)
             after == CHOOSE f : IsLoop(f, t, dates, n)
             Lost == {i \in 0 .. n : after[i] \notin Kept[i]}
  <1>1. Batch(t, dates) = after[n]
    BY Zenon DEF Batch, IsLoop
  <1>2. IsLoop(after, t, dates, n)
    BY LoopExists
  <1> HIDE DEF after
  <1>3. \A i \in 0 .. n : after[i] = IF i = 0 THEN Before(t, dates)
                                     ELSE Resolve(after[i - 1], dates[i])
    BY <1>2, Zenon DEF IsLoop
  <1>4. Lost = {}
    <2> SUFFICES ASSUME Lost # {} PROVE FALSE
      OBVIOUS
    <2>1. Lost \in SUBSET Nat
      OBVIOUS
    <2>2. PICK i \in Lost : \A k \in Lost : i <= k
      BY <2>1, SmallestOf
    <2>3. i # 0
      BY <2>2, <1>3
    <2>4. i \in 1 .. n /\ i - 1 \in 0 .. n /\ i - 1 \notin Lost
      BY <2>2, <2>3
    <2>5. after[i - 1] \in Kept[i - 1]
      BY <2>4
    <2>6. after[i] = Resolve(after[i - 1], dates[i])
      BY <1>3, <2>3, <2>4
    <2> QED
      BY <2>2, <2>4, <2>5, <2>6
  <1>5. n \in 0 .. n
    OBVIOUS
  <1> QED
    BY <1>1, <1>4, <1>5

-----------------------------------------------------------------------------
\* The dates of a request

IsRequest(dates) ==
    /\ Len(dates) \in Nat \ {0} /\ DOMAIN dates = 1 .. Len(dates)
    /\ \A i \in 1 .. Len(dates) : dates[i] \in Asked

LEMMA RequestDates ==
  ASSUME NEW dates, IsRequest(dates)
  PROVE  /\ ToSet(dates) \subseteq Asked /\ ToSet(dates) # {}
         /\ \A i \in 1 .. Len(dates) : dates[i] \in ToSet(dates)
  BY DEF IsRequest, ToSet

LEMMA SequencesAreRequests ==
  ASSUME NEW n \in Nat \ {0}, NEW dates \in [1 .. n -> Asked]
  PROVE  IsRequest(dates)
  <1>1. dates \in Seq(Asked)
    BY SeqDef
  <1>2. Len(dates) = n /\ DOMAIN dates = 1 .. n
    BY <1>1, LenProperties
  <1> QED
    BY <1>2 DEF IsRequest

LEMMA RequestShapes ==
  /\ \A d \in Asked : IsRequest(<<d>>)
  /\ \A dates \in Pairs \cup Windows : IsRequest(dates)
  <1>1. ASSUME NEW d \in Asked PROVE IsRequest(<<d>>)
    BY DEF IsRequest
  <1>2. ASSUME NEW dates \in Pairs PROVE IsRequest(dates)
    <2>1. PICK d \in Asked, e \in Asked : dates = <<d, e>>
      BY DEF Pairs
    <2>2. Len(dates) = 2 /\ DOMAIN dates = 1 .. 2
      BY <2>1
    <2>3. dates[1] = d /\ dates[2] = e
      BY <2>1
    <2>4. \A i \in 1 .. 2 : i = 1 \/ i = 2
      OBVIOUS
    <2> QED
      BY <2>2, <2>3, <2>4 DEF IsRequest
  <1>3. ASSUME NEW dates \in Windows PROVE IsRequest(dates)
    <2>1. /\ dates \in {[i \in 1 .. b - a + 1 |-> a + i - 1] :
                          a \in Asked, b \in Asked}
          /\ dates # <<>>
      BY <1>3 DEF Windows
    <2>2. PICK a \in Asked, b \in Asked :
             dates = [i \in 1 .. b - a + 1 |-> a + i - 1]
      BY <2>1
    <2> DEFINE n == b - a + 1
    <2>3. a \in Int /\ b \in Int /\ n \in Int
      BY Dates
    <2>4. CASE n <= 0
      <3>1. 1 .. n = 1 .. 0
        BY <2>3, <2>4
      <3> HIDE DEF n
      <3>2. dates = [i \in 1 .. 0 |-> a + i - 1]
        BY <2>2, <3>1, Zenon DEF n
      <3>3. dates = <<>>
        BY <3>2
      <3> QED
        BY <2>1, <3>3
    <2>5. CASE n > 0
      <3>1. ASSUME NEW i \in 1 .. n PROVE a + i - 1 \in Asked
        <4>1. /\ a \in Int /\ b \in Int /\ i \in Int
              /\ 1 <= a /\ b <= LastDay + Ahead /\ LastDay + Ahead \in Int
          BY Numbers DEF Asked
        <4>2. 1 <= i /\ i <= b - a + 1
          BY <4>1
        <4> QED
          BY <4>1, <4>2 DEF Asked
      <3>2. dates = [i \in 1 .. n |-> a + i - 1]
        BY <2>2
      <3>3. n \in Nat \ {0}
        BY <2>3, <2>5
      <3> HIDE DEF n
      <3>4. dates \in [1 .. n -> Asked]
        BY <3>1, <3>2
      <3> QED
        BY <3>3, <3>4, SequencesAreRequests
    <2> QED
      BY <2>3, <2>4, <2>5
  <1> QED
    BY <1>1, <1>2, <1>3

-----------------------------------------------------------------------------
\* Batches

LEMMA BulkMapIs ==
  ASSUME NEW t \in Table
  PROVE  \A dates : /\ BulkMap(t, dates) \in Table
                    /\ \A d \in Date : BulkMap(t, dates)[d] # None =>
                                          BulkMap(t, dates)[d] = t[d]
  BY DEF BulkMap, Table, Value

\* For a daily code the map has what the table has, up to the dates asked for
\* and from the first date of the span on.
LEMMA BulkMapOfDay ==
  ASSUME code \in Code, code \in Daily, NEW t \in Table,
         NEW dates, IsRequest(dates), NEW d \in ToSet(dates)
  PROVE  \E a \in Asked :
            /\ a <= d
            /\ \A e \in Date : e <= d =>
                  BulkMap(t, dates)[e] = IF a <= e THEN t[e] ELSE None
  <1> DEFINE D == ToSet(dates)
  <1>1. D \subseteq Asked /\ D # {} /\ D \in SUBSET Int /\ D \subseteq Date
    BY RequestDates, Dates
  <1>2. \A e \in D : 1 <= e /\ e <= LastDay + Ahead
    BY <1>1, Numbers DEF Asked
  <1>3. LastDay + Ahead \in Int
    BY Numbers
  <1> HIDE DEF D
  <1>4. Min(D) \in D /\ \A e \in D : Min(D) <= e
    BY <1>1, <1>2, MinIsLeast
  <1>5. Max(D) \in D /\ \A e \in D : e <= Max(D)
    BY <1>1, <1>2, <1>3, MaxIsGreatest
  <1>6. Normal(Min(D)) = Min(D)
    BY <1>1, <1>4, NormalDates
  <1>7. Min(D) \in Asked /\ Min(D) <= d /\ d <= Max(D) /\ d \in Int
        /\ Min(D) \in Int /\ Max(D) \in Int
    BY <1>1, <1>4, <1>5 DEF D
  <1>8. BulkMap(t, dates) =
          [e \in Date |-> IF e \in Min(D) .. Max(D) THEN t[e] ELSE None]
    BY <1>6, Zenon DEF BulkMap, D
  <1>9. ASSUME NEW e \in Date, e <= d
        PROVE  BulkMap(t, dates)[e] = IF Min(D) <= e THEN t[e] ELSE None
    BY <1>7, <1>8, <1>9, Dates
  <1> QED
    BY <1>7, <1>9

\* resolve_value_for_date, once it has a value of the map.
Given(acc, d, value) ==
    [table |-> acc.table, map |-> acc.map,
     answers |-> [acc.answers EXCEPT ![d] = value]]

Asking(acc, d) ==
    [table |-> Single(acc.table, d).table, map |-> acc.map,
     answers |-> [acc.answers EXCEPT ![d] = Single(acc.table, d).value]]

Accumulator == [table : Table, map : Table, answers : Table]

LEMMA ResolveCases ==
  ASSUME NEW acc \in Accumulator, NEW d \in Asked, code \in Code
  PROVE  \/ /\ acc.map[Normal(d)] # None
            /\ Resolve(acc, d) = Given(acc, d, acc.map[Normal(d)])
         \/ /\ acc.map[Normal(d)] = None /\ d <= today
            /\ CachedPrior(acc.map, d) # {}
            /\ acc.map[Max(CachedPrior(acc.map, d))] # None
            /\ Resolve(acc, d) =
                  Given(acc, d, acc.map[Max(CachedPrior(acc.map, d))])
         \/ /\ acc.map[Normal(d)] = None
            /\ ~ (d <= today /\ CachedPrior(acc.map, d) # {})
            /\ Resolve(acc, d) = Asking(acc, d)
  <1> DEFINE v == IF acc.map[Normal(d)] # None THEN acc.map[Normal(d)]
                  ELSE IF d <= today /\ CachedPrior(acc.map, d) # {}
                    THEN acc.map[Max(CachedPrior(acc.map, d))]
                  ELSE None
  <1>1. /\ v # None => Resolve(acc, d) = Given(acc, d, v)
        /\ v = None => Resolve(acc, d) = Asking(acc, d)
    <2>1. Resolve(acc, d) =
            [acc EXCEPT !.table = IF v # None THEN acc.table
                                  ELSE Single(acc.table, d).table,
                        !.answers = [acc.answers EXCEPT
                                        ![d] = IF v # None THEN v
                                        ELSE Single(acc.table, d).value]]
      BY DEF Resolve
    <2> HIDE DEF v
    <2> QED
      BY <2>1 DEF Accumulator, Given, Asking
  <1>2. CachedPrior(acc.map, d) # {} =>
          acc.map[Max(CachedPrior(acc.map, d))] # None
    <2>1. Normal(d) \in Asked
      BY NormalDates, Dates
    <2>2. CachedPrior(acc.map, d) \in SUBSET Window(Normal(d))
      BY DEF CachedPrior
    <2>3. CachedPrior(acc.map, d) # {} =>
            Max(CachedPrior(acc.map, d)) \in CachedPrior(acc.map, d)
      BY <2>1, <2>2, GreatestOfWindow
    <2> QED
      BY <2>3 DEF CachedPrior
  <1> QED
    BY <1>1, <1>2

\* The prior date of the map is that of the table, if the map has one at all.
LEMMA CachedPriorOfDay ==
  ASSUME code \in Code, code \in Daily, NEW t \in Table,
         NEW dates, IsRequest(dates), NEW d \in ToSet(dates),
         NEW map, map = BulkMap(t, dates), CachedPrior(map, d) # {}
  PROVE  /\ Max(CachedPrior(map, d)) \in Window(d)
         /\ map[Max(CachedPrior(map, d))] = t[Max(CachedPrior(map, d))]
         /\ t[Max(CachedPrior(map, d))] # None
         /\ \A e \in Window(d) : t[e] # None => e <= Max(CachedPrior(map, d))
  <1> DEFINE C == CachedPrior(map, d)
             e == Max(C)
  <1>1. d \in Asked /\ d \in Int /\ Normal(d) = d /\ Window(d) \subseteq Date
    BY RequestDates, Dates, NormalDates
  <1>2. C = {x \in Window(d) : map[x] # None}
    BY <1>1 DEF CachedPrior
  <1>3. C \in SUBSET Window(d) /\ C # {}
    BY <1>2
  <1> HIDE DEF C
  <1>4. e \in C /\ \A x \in C : x <= e
    BY <1>1, <1>3, GreatestOfWindow
  <1> HIDE DEF e
  <1>5. e \in Window(d) /\ map[e] # None
    BY <1>2, <1>4
  <1>6. PICK a \in Asked :
           /\ a <= d
           /\ \A x \in Date : x <= d => map[x] = IF a <= x THEN t[x] ELSE None
    BY BulkMapOfDay
  <1>7. \A x \in Window(d) : x \in Int /\ x \in Date /\ x <= d
    BY <1>1, Dates
  <1>8. a <= e /\ map[e] = t[e] /\ t[e] # None
    BY <1>5, <1>6, <1>7
  <1>9. ASSUME NEW x \in Window(d), t[x] # None PROVE x <= e
    <2>1. CASE a <= x
      <3>1. map[x] # None
        BY <2>1, <1>6, <1>7, <1>9
      <3> QED
        BY <3>1, <1>2, <1>4
    <2>2. CASE ~ a <= x
      <3>1. a \in Int
        BY Dates
      <3> QED
        BY <2>2, <3>1, <1>5, <1>7, <1>8
    <2> QED
      BY <2>1, <2>2
  <1> QED
    BY <1>5, <1>8, <1>9 DEF C, e

\* An answer v for d, given with the rows of t to see and of u to leave, is a
\* value that may answer for d, stored, and no older than one that is stored.
AnswerOK(t, u, d, v) ==
    /\ v \in Value
    /\ d > today => v \in {None, Normal(d)}
    /\ code \in Daily /\ v # None =>
          /\ Reaches(v, d) /\ u[v] # None
          /\ \A b \in Date : t[b] # None /\ Reaches(b, d) => b <= v

LEMMA AnswerStays ==
  ASSUME NEW t, NEW u, NEW w, NEW d, NEW v, AnswerOK(t, u, d, v), Grown(u, w)
  PROVE  AnswerOK(t, w, d, v)
  BY DEF AnswerOK, Grown, Value

LEMMA SingleAnswers ==
  ASSUME code \in Code, today \in Int, NEW t \in Table, NEW u \in Table,
         Genuine(u), Grown(t, u), NEW d \in Asked
  PROVE  AnswerOK(t, Single(u, d).table, d, Single(u, d).value)
  <1> DEFINE s == Single(u, d)
  <1>1. /\ s.value \in Value
        /\ d > today => s.value \in {None, Normal(d)}
        /\ code \in Daily /\ s.value # None =>
              Reaches(s.value, d) /\ s.table[s.value] # None
    BY SingleOutcome
  <1>2. ASSUME code \in Daily, s.value # None,
               NEW b \in Date, t[b] # None, Reaches(b, d)
        PROVE  b <= s.value
    <2>1. u[b] # None
      BY <1>2 DEF Grown
    <2>2. s.value >= b
      BY <1>2, <2>1, SingleIsLatest
    <2>3. s.value \in Int /\ b \in Int
      BY <1>1, <1>2, Dates DEF Value
    <2> HIDE DEF s
    <2> QED
      BY <2>2, <2>3
  <1> HIDE DEF s
  <1>3. AnswerOK(t, s.table, d, s.value)
    BY <1>1, <1>2 DEF AnswerOK
  <1> QED
    BY <1>3 DEF s

\* What holds of an accumulator of a batch for dates on table t.
Keeping(t, dates, acc) ==
    /\ Genuine(acc.table) /\ Grown(t, acc.table)
    /\ acc.map = BulkMap(t, dates)
    /\ \A d \in ToSet(dates) : AnswerOK(t, acc.table, d, acc.answers[d])

LEMMA AnswerOneMore ==
  ASSUME NEW t, NEW dates, IsRequest(dates), NEW d \in ToSet(dates),
         NEW acc \in Accumulator, Keeping(t, dates, acc),
         NEW u \in Table, Genuine(u), Grown(acc.table, u),
         NEW v, AnswerOK(t, u, d, v)
  PROVE  LET next == [table |-> u, map |-> acc.map,
                      answers |-> [acc.answers EXCEPT ![d] = v]]
         IN  next \in Accumulator /\ Keeping(t, dates, next)
  <1> DEFINE answers == [acc.answers EXCEPT ![d] = v]
             next == [table |-> u, map |-> acc.map, answers |-> answers]
  <1>1. /\ acc.table \in Table /\ acc.map \in Table /\ acc.answers \in Table
        /\ v \in Value
    BY DEF Accumulator, AnswerOK
  <1>2. answers \in Table
    BY <1>1 DEF Table
  <1>3. \A e \in Date : answers[e] = IF e = d THEN v ELSE acc.answers[e]
    BY <1>1 DEF Table
  <1>4. ToSet(dates) \subseteq Date
    BY RequestDates, Dates
  <1>5. ASSUME NEW e \in ToSet(dates) PROVE AnswerOK(t, u, e, answers[e])
    <2>1. CASE e = d
      BY <2>1, <1>3, <1>4
    <2>2. CASE e # d
      <3>1. AnswerOK(t, acc.table, e, acc.answers[e])
        BY DEF Keeping
      <3>2. AnswerOK(t, u, e, acc.answers[e])
        BY <3>1, AnswerStays
      <3>3. answers[e] = acc.answers[e]
        BY <2>2, <1>3, <1>4
      <3> HIDE DEF answers
      <3> QED
        BY <3>2, <3>3
    <2> QED
      BY <2>1, <2>2
  <1>6. Grown(t, u)
    BY GrownIsTransitive DEF Keeping
  <1> HIDE DEF answers
  <1>7. next \in Accumulator
    BY <1>1, <1>2 DEF Accumulator
  <1>8. Keeping(t, dates, next)
    BY <1>5, <1>6 DEF Keeping
  <1> QED
    BY <1>7, <1>8 DEF answers

LEMMA ResolveKeeps ==
  ASSUME code \in Code, today \in Int, NEW t \in Table, Genuine(t),
         NEW dates, IsRequest(dates), NEW d \in ToSet(dates),
         NEW acc \in Accumulator, Keeping(t, dates, acc)
  PROVE  Resolve(acc, d) \in Accumulator /\ Keeping(t, dates, Resolve(acc, d))
  <1>1. /\ d \in Asked /\ d \in Int /\ d \in Date /\ None \notin Date
        /\ Normal(d) \in Asked /\ Normal(d) \in Date
        /\ Normal(Normal(d)) = Normal(d) /\ (code \in Daily => Normal(d) = d)
        /\ Window(Normal(d)) \subseteq Date
    <2>1. d \in Asked /\ d \in Int /\ d \in Date /\ None \notin Date
      BY RequestDates, Dates
    <2>2. /\ Normal(d) \in Asked /\ Normal(Normal(d)) = Normal(d)
          /\ code \in Daily => Normal(d) = d
      BY <2>1, NormalDates
    <2> QED
      BY <2>1, <2>2, Dates
  <1>2. /\ acc.table \in Table /\ Genuine(acc.table) /\ Grown(t, acc.table)
        /\ acc.map = BulkMap(t, dates) /\ Grown(acc.table, acc.table)
    BY DEF Accumulator, Keeping, Grown
  <1>3. \A e \in Date : acc.map[e] # None => acc.map[e] = t[e] /\ t[e] # None
    BY <1>2, BulkMapIs
  <1>4. ASSUME NEW v, AnswerOK(t, acc.table, d, v), Resolve(acc, d) = Given(acc, d, v)
        PROVE  Resolve(acc, d) \in Accumulator /\ Keeping(t, dates, Resolve(acc, d))
    <2>1. Resolve(acc, d) = [table |-> acc.table, map |-> acc.map,
                             answers |-> [acc.answers EXCEPT ![d] = v]]
      BY <1>4 DEF Given
    <2> QED
      BY <2>1, <1>2, <1>4, AnswerOneMore
  <1>5. ASSUME NEW v, v = Normal(d), code \in Daily => acc.table[d] # None
        PROVE  AnswerOK(t, acc.table, d, v)
    <2>1. \A b \in Date : Reaches(b, d) => b <= d
      BY <1>1, Dates DEF Reaches
    <2> QED
      BY <1>1, <1>5, <2>1 DEF AnswerOK, Value, Reaches
  <1>6. CASE /\ acc.map[Normal(d)] # None
             /\ Resolve(acc, d) = Given(acc, d, acc.map[Normal(d)])
    <2>1. acc.map[Normal(d)] = Normal(d) /\ t[Normal(d)] # None
      BY <1>1, <1>3, <1>6, GenuineHits
    <2>2. code \in Daily => acc.table[d] # None
      BY <1>1, <1>2, <2>1 DEF Grown
    <2> QED
      BY <1>4, <1>5, <1>6, <2>1, <2>2
  <1>7. CASE /\ acc.map[Normal(d)] = None /\ d <= today
             /\ CachedPrior(acc.map, d) # {}
             /\ Resolve(acc, d) =
                   Given(acc, d, acc.map[Max(CachedPrior(acc.map, d))])
    <2> DEFINE e == Max(CachedPrior(acc.map, d))
    <2>1. e \in Window(Normal(d)) /\ acc.map[e] # None
      <3>1. CachedPrior(acc.map, d) \in SUBSET Window(Normal(d))
        BY DEF CachedPrior
      <3>2. e \in CachedPrior(acc.map, d)
        BY <3>1, <1>1, <1>7, GreatestOfWindow
      <3> QED
        BY <3>2 DEF CachedPrior
    <2>2. code \in Daily => \A x \in Window(d) : t[x] # None => x <= e
      BY <1>2, <1>7, CachedPriorOfDay
    <2> HIDE DEF e
    <2>3. e \in Date /\ acc.map[e] = t[e] /\ t[e] # None
      BY <1>1, <1>3, <2>1
    <2>4. t[e] \in Date /\ (code \in Daily => t[e] = e)
      BY <2>3, GenuineHits
    <2>5. acc.table[e] # None
      BY <1>2, <2>3 DEF Grown
    <2>6. ASSUME code \in Daily PROVE t[d] = None
      <3>1. PICK a \in Asked :
               /\ a <= d
               /\ \A x \in Date : x <= d =>
                     acc.map[x] = IF a <= x THEN t[x] ELSE None
        BY <1>2, <2>6, BulkMapOfDay
      <3> QED
        BY <1>1, <1>7, <2>6, <3>1
    <2>7. ASSUME code \in Daily, NEW b \in Date, t[b] # None, Reaches(b, d)
          PROVE  b <= e
      BY <2>2, <2>6, <2>7 DEF Reaches
    <2>8. AnswerOK(t, acc.table, d, t[e])
      <3>1. ~ d > today
        BY <1>1, <1>7
      <3>2. code \in Daily => Reaches(e, d)
        BY <1>1, <1>7, <2>1 DEF Reaches
      <3> QED
        BY <1>1, <2>4, <2>5, <2>7, <3>1, <3>2 DEF AnswerOK, Value
    <2> QED
      BY <1>4, <1>7, <2>3, <2>8 DEF e
  <1>8. CASE Resolve(acc, d) = Asking(acc, d)
    <2> DEFINE u == Single(acc.table, d).table
               v == Single(acc.table, d).value
    <2>1. u \in Table /\ Genuine(u) /\ Grown(acc.table, u)
      BY <1>1, <1>2, SingleOutcome
    <2>2. AnswerOK(t, u, d, v)
      BY <1>1, <1>2, SingleAnswers
    <2>3. Resolve(acc, d) = [table |-> u, map |-> acc.map,
                             answers |-> [acc.answers EXCEPT ![d] = v]]
      BY <1>8 DEF Asking
    <2> HIDE DEF u, v
    <2> QED
      BY <2>1, <2>2, <2>3, AnswerOneMore
  <1> QED
    BY <1>1, <1>6, <1>7, <1>8, ResolveCases

LEMMA BeforeKeeps ==
  ASSUME NEW t \in Table, Genuine(t), NEW dates, IsRequest(dates)
  PROVE  Before(t, dates) \in Accumulator /\ Keeping(t, dates, Before(t, dates))
  <1> DEFINE start == Before(t, dates)
  <1>1. /\ start.table = t /\ start.map = BulkMap(t, dates)
        /\ \A d \in Date : start.answers[d] = None
        /\ start \in Accumulator
    BY BulkMapIs DEF Before, Accumulator, Table, Value
  <1> HIDE DEF start
  <1>2. \A d \in ToSet(dates) : start.answers[d] = None
    BY <1>1, RequestDates, Dates
  <1>3. \A d \in ToSet(dates) : AnswerOK(t, t, d, None)
    BY DEF AnswerOK, Value
  <1>4. Grown(t, t)
    BY DEF Grown
  <1>5. start \in Accumulator /\ Keeping(t, dates, start)
    BY <1>1, <1>2, <1>3, <1>4 DEF Keeping
  <1> QED
    BY <1>5 DEF start

\* What a batch leaves in the table and answers.
LEMMA BatchOutcome ==
  ASSUME code \in Code, today \in Int, NEW t \in Table, Genuine(t),
         NEW dates, IsRequest(dates)
  PROVE  Batch(t, dates) \in Accumulator /\ Keeping(t, dates, Batch(t, dates))
  <1> DEFINE Kept == {acc \in Accumulator : Keeping(t, dates, acc)}
             start == Before(t, dates)
  <1>1. start \in Kept
    BY BeforeKeeps
  <1>2. ASSUME NEW acc \in Kept, NEW i \in 1 .. Len(dates)
        PROVE  Resolve(acc, dates[i]) \in Kept
    BY RequestDates, ResolveKeeps
  <1> DEFINE Each == [i \in 0 .. Len(dates) |-> Kept]
  <1>3. Len(dates) \in Nat
    BY DEF IsRequest
  <1> HIDE DEF Kept, start
  <1>4. \A i \in 0 .. Len(dates) : Each[i] = Kept
    OBVIOUS
  <1>5. \A i \in 1 .. Len(dates) : i \in 0 .. Len(dates) /\ i - 1 \in 0 .. Len(dates)
    BY <1>3
  <1>6. 0 \in 0 .. Len(dates) /\ Len(dates) \in 0 .. Len(dates)
    BY <1>3
  <1> HIDE DEF Each
  <1>7. Before(t, dates) \in Each[0]
    BY <1>1, <1>4, <1>6 DEF start
  <1>8. \A i \in 1 .. Len(dates) : \A acc \in Each[i - 1] :
           Resolve(acc, dates[i]) \in Each[i]
    BY <1>2, <1>4, <1>5
  <1>9. Batch(t, dates) \in Each[Len(dates)]
    BY <1>3, <1>7, <1>8, BatchKeeps
  <1> QED
    BY <1>4, <1>6, <1>9 DEF Kept

-----------------------------------------------------------------------------
\* Which dates of a daily code get an answer at all

\* With the rows of t there is a value for d: its own, or one of the days
\* before once d has come, stored or to be fetched.
Answerable(t, d) ==
    \/ t[d] # None \/ Fetchable(d)
    \/ d <= today /\ \E e \in Window(d) : t[e] # None \/ Fetchable(e)

\* The rows of u are those of t and some that can be fetched now.
Learned(t, u) ==
    \A e \in Date : u[e] # None => t[e] # None \/ Fetchable(e)

LEMMA AnswerableStays ==
  ASSUME NEW t, NEW u, Grown(t, u), Learned(t, u), NEW d \in Asked
  PROVE  Answerable(t, d) <=> Answerable(u, d)
  <1>1. d \in Date /\ Window(d) \subseteq Date
    BY Dates
  <1>2. \A e \in Date : (t[e] # None \/ Fetchable(e)) <=> (u[e] # None \/ Fetchable(e))
    BY DEF Grown, Learned
  <1> QED
    BY <1>1, <1>2 DEF Answerable

LEMMA PersistLearns ==
  ASSUME NEW t \in Table, NEW d \in Date, Fetchable(d)
  PROVE  Learned(t, Persist(t, d))
  BY DEF Persist, Table, Learned

\* The five steps answer exactly these dates.
LEMMA SingleAnswersAll ==
  ASSUME code \in Code, code \in Daily, today \in Int,
         NEW t \in Table, NEW d \in Asked, Genuine(t)
  PROVE  /\ Single(t, d).value # None <=> Answerable(t, d)
         /\ Learned(t, Single(t, d).table)
  <1> DEFINE s == Single(t, d)
  <1> SUFFICES (s.value # None <=> Answerable(t, d)) /\ Learned(t, s.table)
    OBVIOUS
  <1>1. /\ d \in Int /\ d \in Date /\ None \notin Date /\ Normal(d) = d
        /\ Window(d) \subseteq Date
    BY Dates, NormalDates
  <1>2. Learned(t, t)
    BY DEF Learned
  <1>3. CASE t[d] # None /\ s = Hit(t, d)
    BY <1>2, <1>3 DEF Hit, Answerable
  <1>4. CASE Fetchable(d) /\ s = Fetched(t, d)
    <2>1. s.table = Persist(t, d) /\ s.value = d
      BY <1>1, <1>4 DEF Fetched
    <2> HIDE DEF s
    <2> QED
      BY <1>1, <1>4, <2>1, PersistLearns DEF Answerable
  <1>5. CASE t[d] = None /\ ~ Fetchable(d) /\ d > today /\ s = NotFound(t)
    <2>1. s.table = t /\ s.value = None
      BY <1>5 DEF NotFound
    <2>2. ~ d <= today
      BY <1>1, <1>5
    <2> HIDE DEF s
    <2> QED
      BY <1>2, <1>5, <2>1, <2>2 DEF Answerable
  <1>6. CASE /\ ~ d > today /\ Prior(t, d) # {} /\ s = Hit(t, Max(Prior(t, d)))
    <2> DEFINE e == Max(Prior(t, d))
    <2>1. s.table = t /\ s.value = t[e]
      BY <1>6 DEF Hit
    <2>2. e \in Window(d) /\ t[e] # None
      BY <1>6, PriorIs
    <2>3. d <= today
      BY <1>1, <1>6
    <2> HIDE DEF s, e
    <2> QED
      BY <1>2, <2>1, <2>2, <2>3 DEF Answerable
  <1>7. CASE /\ ~ d > today /\ Probed(d) # {} /\ s = Fetched(t, Max(Probed(d)))
    <2> DEFINE e == Max(Probed(d))
    <2>1. s.table = Persist(t, e) /\ s.value = Normal(e)
      BY <1>7 DEF Fetched
    <2>2. e \in Window(d) /\ e \in Date /\ Fetchable(e)
      BY <1>7, ProbedIs
    <2>3. d <= today
      BY <1>1, <1>7
    <2> HIDE DEF s, e
    <2>4. Normal(e) = e /\ e # None
      BY <1>1, <2>2, Dates, NormalDates
    <2> QED
      BY <2>1, <2>2, <2>3, <2>4, PersistLearns DEF Answerable
  <1>8. CASE /\ t[d] = None /\ ~ Fetchable(d) /\ Prior(t, d) = {} /\ Probed(d) = {}
             /\ s = NotFound(t)
    <2>1. s.table = t /\ s.value = None
      BY <1>8 DEF NotFound
    <2>2. \A e \in Window(d) : t[e] = None /\ ~ Fetchable(e)
      BY <1>8 DEF Prior, Probed
    <2> HIDE DEF s
    <2> QED
      BY <1>2, <1>8, <2>1, <2>2 DEF Answerable
  <1> HIDE DEF s
  <1> QED
    BY <1>1, <1>3, <1>4, <1>5, <1>6, <1>7, <1>8, SingleCases DEF s

\* One date of a batch: it is answered if it is answerable when the request
\* begins, from the map or from rows that are new since.
LEMMA ResolveAnswers ==
  ASSUME code \in Code, code \in Daily, today \in Int,
         NEW t \in Table, Genuine(t),
         NEW dates, IsRequest(dates), NEW d \in ToSet(dates),
         NEW acc \in Accumulator, Keeping(t, dates, acc), Learned(t, acc.table)
  PROVE  \E u, v : /\ Resolve(acc, d) =
                         [table |-> u, map |-> acc.map,
                          answers |-> [acc.answers EXCEPT ![d] = v]]
                   /\ v # None <=> Answerable(t, d)
                   /\ Learned(t, u)
  <1>1. d \in Asked /\ d \in Date /\ Normal(d) = d /\ Window(d) \subseteq Date
    BY RequestDates, Dates, NormalDates
  <1>2. /\ acc.table \in Table /\ Genuine(acc.table) /\ Grown(t, acc.table)
        /\ acc.map = BulkMap(t, dates)
    BY DEF Accumulator, Keeping
  <1>3. \A e \in Date : acc.map[e] # None => t[e] # None
    BY <1>2, BulkMapIs
  <1>4. CASE acc.map[d] # None /\ Resolve(acc, d) = Given(acc, d, acc.map[d])
    <2>1. Answerable(t, d)
      BY <1>1, <1>3, <1>4 DEF Answerable
    <2> QED
      BY <1>4, <2>1 DEF Given
  <1>5. CASE /\ d <= today /\ CachedPrior(acc.map, d) # {}
             /\ acc.map[Max(CachedPrior(acc.map, d))] # None
             /\ Resolve(acc, d) =
                   Given(acc, d, acc.map[Max(CachedPrior(acc.map, d))])
    <2> DEFINE e == Max(CachedPrior(acc.map, d))
    <2>1. e \in Window(d) /\ t[e] # None
      BY <1>2, <1>5, CachedPriorOfDay
    <2>2. acc.map[e] # None /\ Resolve(acc, d) = Given(acc, d, acc.map[e])
      BY <1>5
    <2> HIDE DEF e
    <2>3. Answerable(t, d)
      BY <1>5, <2>1 DEF Answerable
    <2> QED
      BY <2>2, <2>3 DEF Given
  <1>6. CASE Resolve(acc, d) = Asking(acc, d)
    <2> DEFINE u == Single(acc.table, d).table
               v == Single(acc.table, d).value
    <2>1. v # None <=> Answerable(acc.table, d)
      BY <1>1, <1>2, SingleAnswersAll
    <2>2. Learned(acc.table, u)
      BY <1>1, <1>2, SingleAnswersAll
    <2>3. Resolve(acc, d) = [table |-> u, map |-> acc.map,
                             answers |-> [acc.answers EXCEPT ![d] = v]]
      BY <1>6 DEF Asking
    <2> HIDE DEF u, v
    <2>4. Answerable(t, d) <=> Answerable(acc.table, d)
      BY <1>1, <1>2, AnswerableStays
    <2>5. Learned(t, u)
      BY <2>2 DEF Learned
    <2> QED
      BY <2>1, <2>3, <2>4, <2>5
  <1> QED
    BY <1>1, <1>4, <1>5, <1>6, ResolveCases

\* After the whole batch, then, every date has been treated so.
LEMMA BatchAnswersAll ==
  ASSUME code \in Code, code \in Daily, today \in Int,
         NEW t \in Table, Genuine(t), NEW dates, IsRequest(dates)
  PROVE  \A d \in ToSet(dates) :
            Batch(t, dates).answers[d] # None <=> Answerable(t, d)
  <1> DEFINE n == Len(dates)
             Done(i, acc) == \A k \in 1 .. i :
                acc.answers[dates[k]] # None <=> Answerable(t, dates[k])
             Kept == [i \in 0 .. n |->
                {acc \in Accumulator : /\ Keeping(t, dates, acc)
                                       /\ Learned(t, acc.table)
                                       /\ Done(i, acc)}]
             start == Before(t, dates)
  <1>1. n \in Nat /\ \A d \in ToSet(dates) : \E k \in 1 .. n : d = dates[k]
    BY DEF IsRequest, ToSet
  <1>2. start \in Kept[0]
    <2>1. /\ start \in Accumulator /\ start.table = t
          /\ Keeping(t, dates, start)
      BY BeforeKeeps DEF Before
    <2>2. Learned(t, t)
      BY DEF Learned
    <2> HIDE DEF start
    <2>3. Done(0, start)
      OBVIOUS
    <2> QED
      BY <1>1, <2>1, <2>2, <2>3
  <1>3. ASSUME NEW i \in 1 .. n, NEW acc \in Kept[i - 1]
        PROVE  Resolve(acc, dates[i]) \in Kept[i]
    <2>1. i - 1 \in 0 .. n /\ i \in 0 .. n
      BY <1>1
    <2>2. /\ acc \in Accumulator /\ Keeping(t, dates, acc)
          /\ Learned(t, acc.table) /\ Done(i - 1, acc)
      BY <2>1
    <2> DEFINE d == dates[i]
               next == Resolve(acc, d)
    <2>3. d \in ToSet(dates)
      BY RequestDates
    <2> HIDE DEF d
    <2>4. next \in Accumulator /\ Keeping(t, dates, next)
      BY <2>2, <2>3, ResolveKeeps
    <2>5. PICK u, v : /\ next = [table |-> u, map |-> acc.map,
                                 answers |-> [acc.answers EXCEPT ![d] = v]]
                      /\ v # None <=> Answerable(t, d)
                      /\ Learned(t, u)
      BY <2>2, <2>3, ResolveAnswers
    <2>6. \A e \in ToSet(dates) : e \in Date
      BY RequestDates, Dates
    <2>7. \A e \in Date : next.answers[e] = IF e = d THEN v ELSE acc.answers[e]
      BY <2>2, <2>5 DEF Accumulator, Table
    <2>8. Learned(t, next.table)
      BY <2>5
    <2> HIDE DEF next
    <2>9. ASSUME NEW k \in 1 .. i
          PROVE  next.answers[dates[k]] # None <=> Answerable(t, dates[k])
      <3>1. dates[k] \in Date
        BY <2>6, RequestDates
      <3>2. CASE dates[k] = d
        BY <3>1, <3>2, <2>5, <2>7
      <3>3. CASE dates[k] # d
        <4>1. k \in 1 .. i - 1
          BY <3>3 DEF d
        <4>2. next.answers[dates[k]] = acc.answers[dates[k]]
          BY <3>1, <3>3, <2>7
        <4> QED
          BY <4>1, <4>2, <2>2
      <3> QED
        BY <3>2, <3>3
    <2> QED
      BY <2>1, <2>4, <2>8, <2>9 DEF next, d
  <1> HIDE DEF Kept, start
  <1>4. Batch(t, dates) \in Kept[n]
    BY <1>1, <1>2, <1>3, BatchKeeps DEF start
  <1>5. Done(n, Batch(t, dates))
    BY <1>1, <1>4 DEF Kept
  <1> QED
    BY <1>1, <1>5

-----------------------------------------------------------------------------
\* The inductive invariant: the types, genuine rows, and that the most recent
\* answer is still a row, one that may answer for the date.

Remembered ==
    code \in Daily /\ best # None => table[best] # None /\ Reaches(best, watched)

IInv == TypeOK /\ RowsAreGenuine /\ Remembered

LEMMA TypesOf ==
  ASSUME IInv
  PROVE  /\ code \in Code /\ today \in Int /\ table \in Table /\ Genuine(table)
         /\ watched \in Asked /\ best \in Value /\ up \in SUBSET Page
  BY RowsAre, Numbers DEF IInv, TypeOK, Table, Value, Day

\* As days pass nothing becomes unpublished, so genuine rows stay genuine.
LEMMA GenuineStays ==
  ASSUME code' = code, today' \in Int, today \in Int, today <= today',
         code \in Code, Genuine(table')
  PROVE  RowsAreGenuine'
  <1>1. \A d : Normal(d)' = Normal(d)
    BY DEF Normal
  <1>2. \A p \in Provider : Published(p) \subseteq Published(p)'
    <2>1. ASSUME NEW d \in Date, d <= today + Ahead
          PROVE  d <= today' + Ahead
      <3>1. d \in Int /\ Ahead \in Int
        BY Dates, Numbers
      <3>2. \A x, y, n, e \in Int : e <= x + n /\ x <= y => e <= y + n
        OBVIOUS
      <3> QED
        BY <2>1, <3>1, <3>2
    <2>2. \A p \in Provider : Holds[p][code] \subseteq Date
      BY LookupAssumption
    <2> QED
      BY <2>1, <2>2 DEF Published
  <1> QED
    BY <1>1, <1>2 DEF Genuine, RowsAreGenuine

\* A request keeps the invariant and answers nothing older than before, when
\* its answer v for the date watched is fit for the rows it leaves.
LEMMA RequestKeeps ==
  ASSUME IInv, UNCHANGED <<today, code, up, watched>>,
         table' \in Table, Genuine(table'), Grown(table, table'),
         \/ best' = best
         \/ \E v : /\ AnswerOK(table, table', watched, v) /\ v # None
                   /\ best' = v
  PROVE  IInv' /\ (code \in Daily => best' >= best)
  <1>1. /\ code \in Code /\ today \in Int /\ today' = today
        /\ watched \in Asked /\ best \in Value /\ None \notin Date
        /\ watched \in Int
    <2>1. code \in Code /\ today \in Int /\ watched \in Asked /\ best \in Value
      BY TypesOf
    <2> QED
      BY <2>1, Dates
  <1>2. RowsAreGenuine'
    BY <1>1, GenuineStays
  <1>3. \A v : Reaches(v, watched)' <=> Reaches(v, watched)
    BY <1>1 DEF Reaches, Window
  <1>4. CASE best' = best
    <2>1. TypeOK'
      BY <1>4 DEF IInv, TypeOK, Table, Value
    <2>2. Remembered'
      BY <1>1, <1>3, <1>4 DEF IInv, Remembered, Grown, Value
    <2>3. best' >= best
      BY <1>1, <1>4, Dates DEF Value
    <2> QED
      BY <1>2, <2>1, <2>2, <2>3 DEF IInv
  <1>5. CASE \E v : /\ AnswerOK(table, table', watched, v) /\ v # None
                    /\ best' = v
    <2>1. PICK v : AnswerOK(table, table', watched, v) /\ v # None /\ best' = v
      BY <1>5
    <2>2. TypeOK'
      BY <2>1 DEF IInv, TypeOK, Table, Value, AnswerOK
    <2>3. Remembered'
      BY <1>1, <1>3, <2>1 DEF Remembered, AnswerOK
    <2>4. ASSUME code \in Daily PROVE best' >= best
      <3>1. v \in Date
        BY <2>1 DEF AnswerOK, Value
      <3>2. CASE best = None
        BY <2>1, <3>1, <3>2, Dates
      <3>3. CASE best # None
        <4>1. best \in Date /\ table[best] # None /\ Reaches(best, watched)
          BY <1>1, <2>4, <3>3 DEF IInv, Remembered, Value
        <4>2. best <= v
          BY <2>1, <2>4, <4>1 DEF AnswerOK
        <4> QED
          BY <2>1, <3>1, <4>1, <4>2, Dates
      <3> QED
        BY <3>2, <3>3
    <2> QED
      BY <1>2, <2>2, <2>3, <2>4 DEF IInv
  <1> QED
    BY <1>4, <1>5

LEMMA GetValueKeeps ==
  ASSUME IInv, NEW d \in Asked, GetValue(d)
  PROVE  IInv' /\ (code \in Daily => best' >= best)
  <1> DEFINE u == Single(table, d).table
             v == Single(table, d).value
  <1>1. /\ code \in Code /\ today \in Int /\ table \in Table /\ Genuine(table)
        /\ Grown(table, table)
    BY TypesOf DEF Grown
  <1>2. u \in Table /\ Genuine(u) /\ Grown(table, u)
    BY <1>1, SingleOutcome
  <1>3. AnswerOK(table, u, d, v)
    BY <1>1, SingleAnswers
  <1>4. /\ table' = u /\ UNCHANGED <<today, code, up, watched>>
        /\ best' = IF d = watched /\ v # None THEN v ELSE best
    BY DEF GetValue, Answer
  <1> HIDE DEF u, v
  <1> QED
    BY <1>2, <1>3, <1>4, RequestKeeps

LEMMA GetValuesKeeps ==
  ASSUME IInv, NEW dates \in Pairs \cup Windows, GetValues(dates)
  PROVE  IInv' /\ (code \in Daily => best' >= best)
  <1> DEFINE b == Batch(table, dates)
             v == b.answers[watched]
  <1>1. /\ code \in Code /\ today \in Int /\ table \in Table /\ Genuine(table)
        /\ IsRequest(dates)
    BY TypesOf, RequestShapes
  <1>2. b \in Accumulator /\ Keeping(table, dates, b)
    BY <1>1, BatchOutcome
  <1>3. /\ table' = b.table /\ UNCHANGED <<today, code, up, watched>>
        /\ \/ best' = best
           \/ watched \in ToSet(dates) /\ v # None /\ best' = v
    BY DEF GetValues, Answer
  <1> HIDE DEF b
  <1>4. /\ b.table \in Table /\ Genuine(b.table) /\ Grown(table, b.table)
        /\ watched \in ToSet(dates) => AnswerOK(table, b.table, watched, v)
    BY <1>2 DEF Accumulator, Keeping
  <1> HIDE DEF v
  <1> QED
    BY <1>3, <1>4, RequestKeeps

LEMMA SyncKeeps ==
  ASSUME IInv, Sync
  PROVE  IInv' /\ best' = best
  <1> DEFINE wanted == {d \in Asked : /\ Normal(d) = d
                                      /\ d <= today \/ code \in Forward
                                      /\ table[d] = None}
             source == FetchEntries(wanted)
             filled == [d \in Date |-> IF source[d] # "none" THEN Normal(d)
                                       ELSE table[d]]
  <1>1. /\ code \in Code /\ today \in Int /\ table \in Table /\ Genuine(table)
        /\ Asked \subseteq Date /\ Date \subseteq Int /\ None \notin Date
    BY TypesOf, Dates
  <1>2. table' = filled /\ UNCHANGED <<today, code, up, watched, best>>
    BY DEF Sync
  <1>3. wanted \in SUBSET Date
    BY <1>1
  <1>4. \A d \in wanted : d \in Date /\ Normal(d) = d /\ table[d] = None
    BY <1>1
  <1> HIDE DEF wanted
  <1>5. \A d \in Date : source[d] = IF d \in wanted THEN FirstMatch(d) ELSE "none"
    BY <1>3, FetchedTogether
  <1> HIDE DEF source
  <1>6. ASSUME NEW d \in Date, source[d] # "none"
        PROVE  /\ d \in wanted /\ table[d] = None /\ Normal(d) = d
               /\ \E p \in Provider : Normal(d) \in Published(p)
    <2>1. d \in wanted /\ Fetchable(d)
      BY <1>5, <1>6 DEF Fetchable
    <2>2. PICK p \in Provider : Answers(p, d)
      BY <2>1, FetchableIs
    <2>3. Normal(d) \in Published(p)
      BY <1>1, <2>2, AnswersArePublished
    <2> QED
      BY <1>4, <2>1, <2>3
  <1>7. filled \in Table
    BY <1>1, <1>6 DEF Table, Value
  <1>8. Genuine(filled)
    BY <1>1, <1>6 DEF Genuine
  <1>9. Grown(table, filled)
    BY <1>6 DEF Grown
  <1> HIDE DEF filled
  <1> QED
    BY <1>2, <1>7, <1>8, <1>9, RequestKeeps

LEMMA TickKeeps ==
  ASSUME IInv, Tick
  PROVE  IInv' /\ best' = best
  <1>1. /\ code \in Code /\ today \in Int /\ today' = today + 1
        /\ UNCHANGED <<code, up, table, watched, best>> /\ Genuine(table')
        /\ watched \in Int
    BY TypesOf, Dates DEF Tick
  <1>2. TypeOK'
    BY <1>1, Numbers DEF IInv, TypeOK, Tick, Day
  <1>3. RowsAreGenuine'
    BY <1>1, GenuineStays
  <1>4. Remembered'
    <2>1. Reaches(best, watched) => Reaches(best, watched)'
      <3>1. watched <= today => watched <= today'
        BY <1>1
      <3>2. Window(watched)' = Window(watched)
        BY <1>1 DEF Window
      <3> QED
        BY <1>1, <3>1, <3>2 DEF Reaches
    <2> QED
      BY <1>1, <2>1 DEF IInv, Remembered
  <1> QED
    BY <1>1, <1>2, <1>3, <1>4 DEF IInv

LEMMA OutageKeeps ==
  ASSUME IInv, NEW page \in Page, Outage(page)
  PROVE  IInv' /\ best' = best
  <1>1. UNCHANGED <<today, code, table, watched, best>> /\ up' \in SUBSET Page
    BY TypesOf DEF Outage
  <1>2. TypeOK'
    BY <1>1 DEF IInv, TypeOK
  <1>3. RowsAreGenuine'
    BY <1>1, TypesOf, GenuineStays
  <1>4. Remembered'
    BY <1>1 DEF IInv, Remembered, Reaches
  <1> QED
    BY <1>1, <1>2, <1>3, <1>4 DEF IInv

LEMMA InitHolds == Init => IInv
  <1> SUFFICES ASSUME Init PROVE IInv
    OBVIOUS
  <1>1. TypeOK
    BY Numbers DEF Init, TypeOK, Day
  <1>2. RowsAreGenuine
    BY DEF Init, RowsAreGenuine
  <1>3. Remembered
    BY DEF Init, Remembered
  <1> QED
    BY <1>1, <1>2, <1>3 DEF IInv

LEMMA StepKeeps ==
  ASSUME IInv, [Next]_vars
  PROVE  IInv' /\ (code \in Daily => best' >= best \/ best' = best)
  <1>1. CASE UNCHANGED vars
    <2>1. Remembered'
      BY <1>1 DEF IInv, Remembered, Reaches, vars
    <2>2. TypeOK'
      BY <1>1 DEF IInv, TypeOK, vars
    <2>3. RowsAreGenuine'
      BY <1>1, TypesOf, GenuineStays DEF vars
    <2> QED
      BY <1>1, <2>1, <2>2, <2>3 DEF IInv, vars
  <1>2. CASE Next
    BY <1>2, GetValueKeeps, GetValuesKeeps, SyncKeeps, TickKeeps, OutageKeeps
    DEF Next
  <1> QED
    BY <1>1, <1>2

LEMMA Invariance == Spec => []IInv
  <1>1. IInv /\ [Next]_vars => IInv'
    BY StepKeeps
  <1> QED
    BY InitHolds, <1>1, PTL DEF Spec

-----------------------------------------------------------------------------
\* What follows from the invariant in a state

LEMMA FutureFollows == IInv => FutureNotInvented
  <1> SUFFICES ASSUME IInv, NEW d \in Asked, d > today,
                      NEW dates \in {<<d>>} \cup {w \in Windows : d \in ToSet(w)}
               PROVE  /\ Single(table, d).value \in {None, Normal(d)}
                      /\ Batch(table, dates).answers[d] \in {None, Normal(d)}
    BY DEF FutureNotInvented
  <1>1. /\ code \in Code /\ today \in Int /\ table \in Table /\ Genuine(table)
    BY TypesOf
  <1>2. IsRequest(dates) /\ d \in ToSet(dates)
    <2>1. CASE dates = <<d>>
      BY <2>1, RequestShapes DEF ToSet
    <2>2. CASE dates \in Windows /\ d \in ToSet(dates)
      BY <2>2, RequestShapes
    <2> QED
      BY <2>1, <2>2
  <1>3. Single(table, d).value \in {None, Normal(d)}
    BY <1>1, SingleOutcome
  <1>4. Keeping(table, dates, Batch(table, dates))
    BY <1>1, <1>2, BatchOutcome
  <1>5. Batch(table, dates).answers[d] \in {None, Normal(d)}
    BY <1>2, <1>4 DEF Keeping, AnswerOK
  <1> QED
    BY <1>3, <1>5

LEMMA AgreementFollows == IInv => BatchMatchesUnlessUnstored
  <1> SUFFICES ASSUME IInv, code \in Daily, NEW dates \in Pairs \cup Windows,
                      NEW d \in ToSet(dates), table[d] # None \/ ~ Fetchable(d)
               PROVE  Resolve(Before(table, dates), d).answers[d]
                         = Single(table, d).value
    BY DEF BatchMatchesUnlessUnstored
  <1> DEFINE acc == Before(table, dates)
             map == BulkMap(table, dates)
             e == Max(CachedPrior(map, d))
  <1>1. /\ code \in Code /\ today \in Int /\ table \in Table /\ Genuine(table)
        /\ IsRequest(dates)
    BY TypesOf, RequestShapes
  <1>2. d \in Asked /\ d \in Int /\ d \in Date /\ Normal(d) = d
    BY <1>1, RequestDates, Dates, NormalDates
  <1>3. /\ acc \in Accumulator /\ acc.table = table /\ acc.map = map
        /\ acc.answers \in Table
    BY <1>1, BulkMapIs DEF Before, Accumulator, Table, Value
  <1>4. PICK a \in Asked :
           /\ a <= d
           /\ \A x \in Date : x <= d => map[x] = IF a <= x THEN table[x] ELSE None
    BY <1>1, BulkMapOfDay
  <1>5. map[d] = table[d]
    BY <1>2, <1>4
  <1> HIDE DEF acc, map
  <1>6. \A v : [acc.answers EXCEPT ![d] = v][d] = v
    BY <1>2, <1>3 DEF Table
  <1>7. CASE map[d] # None /\ Resolve(acc, d) = Given(acc, d, map[d])
    <2>1. Resolve(acc, d).answers[d] = map[d]
      BY <1>6, <1>7 DEF Given
    <2>2. Single(table, d) = Hit(table, d)
      BY <1>2, <1>5, <1>7, SingleCases
    <2> QED
      BY <1>5, <2>1, <2>2 DEF Hit, acc
  <1>8. CASE /\ map[d] = None /\ d <= today /\ CachedPrior(map, d) # {}
             /\ Resolve(acc, d) = Given(acc, d, map[e])
    <2>1. Resolve(acc, d).answers[d] = map[e]
      BY <1>6, <1>8 DEF Given
    <2>2. /\ e \in Window(d) /\ map[e] = table[e] /\ table[e] # None
          /\ \A x \in Window(d) : table[x] # None => x <= e
      BY <1>1, <1>8, CachedPriorOfDay DEF map
    <2> HIDE DEF e
    <2>3. Prior(table, d) # {}
      BY <2>2 DEF Prior
    <2>4. Max(Prior(table, d)) = e
      <3>1. /\ Max(Prior(table, d)) \in Window(d)
            /\ table[Max(Prior(table, d))] # None
            /\ \A x \in Window(d) : table[x] # None => x <= Max(Prior(table, d))
        BY <1>2, <2>3, PriorIs
      <3> DEFINE m == Max(Prior(table, d))
      <3>2. m \in Window(d) /\ table[m] # None
        BY <3>1
      <3>3. e <= m
        BY <2>2, <3>1
      <3> HIDE DEF m
      <3>4. m <= e /\ m \in Int /\ e \in Int
        BY <1>2, <2>2, <3>2, Dates
      <3>5. m = e
        BY <3>3, <3>4
      <3> QED
        BY <3>5 DEF m
    <2>5. ~ d > today
      BY <1>1, <1>2, <1>8
    <2>6. Single(table, d) = Hit(table, e)
      BY <1>2, <1>5, <1>8, <2>3, <2>4, <2>5, SingleCases
    <2> QED
      BY <2>1, <2>2, <2>6 DEF Hit, acc
  <1>9. CASE Resolve(acc, d) = Asking(acc, d)
    BY <1>3, <1>6, <1>9 DEF Asking, acc
  <1> QED
    BY <1>1, <1>2, <1>3, <1>7, <1>8, <1>9, ResolveCases DEF acc

LEMMA SameDatesFollow == IInv => BatchAnswersSameDates
  <1> SUFFICES ASSUME IInv, code \in Daily, NEW dates \in Pairs \cup Windows,
                      NEW d \in ToSet(dates)
               PROVE  Batch(table, dates).answers[d] = None
                         <=> Single(table, d).value = None
    BY DEF BatchAnswersSameDates
  <1>1. /\ code \in Code /\ today \in Int /\ table \in Table /\ Genuine(table)
        /\ IsRequest(dates) /\ d \in Asked
    BY TypesOf, RequestShapes, RequestDates
  <1>2. Batch(table, dates).answers[d] # None <=> Answerable(table, d)
    BY <1>1, BatchAnswersAll
  <1>3. Single(table, d).value # None <=> Answerable(table, d)
    BY <1>1, SingleAnswersAll
  <1> QED
    BY <1>2, <1>3

\* In a request of one date the map has no other, so the five steps decide.
LEMMA OneDate ==
  ASSUME code \in Code, NEW t \in Table, NEW d \in Asked
  PROVE  /\ Batch(t, <<d>>).table = Single(t, d).table
         /\ Batch(t, <<d>>).answers[d] = Single(t, d).value
  <1> DEFINE dates == <<d>>
             map == BulkMap(t, dates)
             acc == Before(t, dates)
             Kept == [i \in 0 .. 1 |-> IF i = 0 THEN {acc} ELSE {Resolve(acc, d)}]
  <1>1. /\ Len(dates) = 1 /\ dates[1] = d /\ IsRequest(dates)
        /\ ToSet(dates) = {d}
    BY RequestShapes DEF ToSet
  <1>2. /\ d \in Int /\ d \in Date /\ Normal(d) \in Date /\ Normal(d) \in Asked
        /\ Normal(Normal(d)) = Normal(d) /\ Normal(d) <= d /\ Normal(d) \in Int
    BY Dates, NormalDates
  <1>3. map = [e \in Date |-> IF e \in Normal(d) .. d THEN t[e] ELSE None]
    <2>1. Min({d}) = d /\ Max({d}) = d
      <3>1. {d} \in SUBSET Int /\ {d} # {} /\ \A e \in {d} : d <= e /\ e <= d
        BY <1>2
      <3> DEFINE D == {d}
      <3> HIDE DEF D
      <3>2. Min(D) \in D /\ Max(D) \in D
        BY <1>2, <3>1, MinIsLeast, MaxIsGreatest DEF D
      <3> QED
        BY <3>2 DEF D
    <2> QED
      BY <1>1, <2>1, Zenon DEF BulkMap
  <1>4. acc \in Accumulator /\ acc.table = t /\ acc.map = map /\ acc.answers \in Table
    BY BulkMapIs DEF Before, Accumulator, Table, Value
  <1>5. Batch(t, dates) = Resolve(acc, d)
    <2>1. /\ acc \in Kept[0]
          /\ \A i \in 1 .. 1 : \A a \in Kept[i - 1] : Resolve(a, dates[i]) \in Kept[i]
      <3> HIDE DEF acc, dates
      <3>1. Kept[0] = {acc} /\ Kept[1] = {Resolve(acc, d)}
        OBVIOUS
      <3> HIDE DEF Kept
      <3>2. \A i \in 1 .. 1 : i = 1 /\ i - 1 = 0
        OBVIOUS
      <3> QED
        BY <1>1, <3>1, <3>2
    <2>2. Kept[1] = {Resolve(acc, d)}
      OBVIOUS
    <2>3. Len(dates) = 1 /\ Len(dates) \in Nat
      BY <1>1
    <2> HIDE DEF Kept, dates
    <2>4. Before(t, dates) \in Kept[0]
      BY <2>1
    <2> HIDE DEF acc
    <2>5. \A i \in 1 .. Len(dates) : \A a \in Kept[i - 1] :
             Resolve(a, dates[i]) \in Kept[i]
      BY <2>1, <2>3
    <2>6. Batch(t, dates) \in Kept[Len(dates)]
      BY <2>3, <2>4, <2>5, BatchKeeps
    <2> QED
      BY <2>2, <2>3, <2>6
  <1>6. map[Normal(d)] = t[Normal(d)]
    BY <1>2, <1>3
  <1>7. CachedPrior(map, d) = {}
    <2>1. \A e \in Window(Normal(d)) : e \in Date /\ e \in Int /\ e < Normal(d)
      BY <1>2, Dates
    <2>2. \A e \in Window(Normal(d)) : map[e] = None
      BY <1>2, <1>3, <2>1
    <2> QED
      BY <2>2 DEF CachedPrior
  <1> HIDE DEF map, acc, dates
  <1>8. \A v : [acc.answers EXCEPT ![d] = v][d] = v
    BY <1>2, <1>4 DEF Table
  <1>9. CASE map[Normal(d)] # None /\ Resolve(acc, d) = Given(acc, d, map[Normal(d)])
    <2>1. Single(t, d) = Hit(t, Normal(d))
      BY <1>6, <1>9, SingleCases
    <2> QED
      BY <1>4, <1>5, <1>6, <1>8, <1>9, <2>1 DEF Given, Hit, dates
  <1>10. CASE Resolve(acc, d) = Asking(acc, d)
    BY <1>4, <1>5, <1>8, <1>10 DEF Asking, dates
  <1> QED
    BY <1>4, <1>7, <1>9, <1>10, ResolveCases

LEMMA ChainsFollow == ChainsAgree
  <1> SUFFICES ASSUME NEW a \in Asked, NEW b \in Asked, NEW d \in a .. b
               PROVE  FetchEntries(a .. b)[d] = FirstMatch(d)
    BY DEF ChainsAgree
  <1>1. a .. b \in SUBSET Date /\ d \in Date
    <2>1. a .. b \subseteq Asked
      BY Numbers DEF Asked
    <2> QED
      BY <2>1, Dates
  <1> QED
    BY <1>1, FetchedTogether

LEMMA AnsweredFollows == IInv => OnceAnsweredAlwaysAnswered
  <1> SUFFICES ASSUME IInv, code \in Daily, best # None
               PROVE  Single(table, watched).value >= best
    BY DEF OnceAnsweredAlwaysAnswered
  <1>1. best \in Date /\ table[best] # None /\ Reaches(best, watched)
    BY TypesOf DEF IInv, Remembered, Value
  <1> QED
    BY <1>1, TypesOf, SingleIsLatest

\* The row of the most recent answer is where the lookup of its date finds it,
\* or a later one, without a provider.
LEMMA PersistedFollows == IInv /\ code \in Daily => PersistedForFutureLookups
  <1> SUFFICES ASSUME IInv, code \in Daily, best # None
               PROVE  Single(table, watched).value # None
    BY DEF PersistedForFutureLookups
  <1>1. best \in Date /\ table[best] # None /\ Reaches(best, watched)
    BY TypesOf DEF IInv, Remembered, Value
  <1> QED
    BY <1>1, TypesOf, SingleIsLatest

-----------------------------------------------------------------------------
\* The theorems

\* Types: above all, no lookup, probe or batch leaves the dates of the model,
\* and every value that is stored or answered is a date's.
THEOREM TypeCorrect == Spec => []TypeOK
  BY Invariance, PTL DEF IInv

\* Nothing carried forward or probed is stored under the date that was asked
\* for (get_exchange_rate_value.py:75-76), by whatever route it came.
THEOREM GenuineRows == Spec => []RowsAreGenuine
  BY Invariance, PTL DEF IInv

\* No route invents a rate for a future date
\* (export_exchange_rates_csv.py:222-227), also not in the last of any number
\* of lookups of one request.
THEOREM NoInventedFuture == Spec => []FutureNotInvented
  BY Invariance, FutureFollows, PTL

\* Where a daily code is stored or cannot be fetched, the map of a batch
\* decides as the five steps do, however long the request.
THEOREM BatchAgrees == Spec => []BatchMatchesUnlessUnstored
  BY Invariance, AgreementFollows, PTL

\* A batch finds a value for the same dates of a daily code as the single
\* requests would: what it stores on the way opens no date and closes none.
THEOREM BatchAnswersSame == Spec => []BatchAnswersSameDates
  BY Invariance, SameDatesFollow, PTL

\* What the run lookup_batch refutes for two dates holds for one, of any code:
\* POST /exchange-rates/values with one pair is GET /exchange-rates/value.
THEOREM OneDateMatches ==
  Spec => [](\A d \in Asked : /\ Batch(table, <<d>>).table = Single(table, d).table
                               /\ Batch(table, <<d>>).answers[d] = Single(table, d).value)
  <1>1. IInv => \A d \in Asked : /\ Batch(table, <<d>>).table = Single(table, d).table
                                  /\ Batch(table, <<d>>).answers[d] = Single(table, d).value
    BY TypesOf, OneDate
  <1> QED
    BY <1>1, Invariance, PTL

\* _fetch_remaining_entries fills every date from the provider that
\* _fetch_first_match would take for it.
THEOREM ChainAgreement == Spec => []ChainsAgree
  BY ChainsFollow, PTL

\* A date of a daily code once answered is never answered by less.
THEOREM StaysAnswered == Spec => []OnceAnsweredAlwaysAnswered
  BY Invariance, AnsweredFollows, PTL

\* No answer for a daily code goes back to an older value, whichever endpoint
\* gives it and whatever the providers do meanwhile.
THEOREM NoRegress == Spec => AnswersNeverRegress
  <1>1. IInv /\ [Next]_vars => [(code \in Daily) => best' >= best]_best
    BY StepKeeps
  <1> QED
    BY <1>1, Invariance, PTL DEF Spec, AnswersNeverRegress

\* What the run lookup_monthly refutes for monthly codes holds for daily ones:
\* "persisted for future lookups" (routes/exchange_rates.py:140-144).
THEOREM DailyPersisted == Spec => [](code \in Daily => PersistedForFutureLookups)
  <1>1. IInv => (code \in Daily => PersistedForFutureLookups)
    BY PersistedFollows
  <1> QED
    BY <1>1, Invariance, PTL
=============================================================================

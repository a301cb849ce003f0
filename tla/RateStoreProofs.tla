--------------------------- MODULE RateStoreProofs ---------------------------
(***************************************************************************)
(* Theorems about RateStore, for any codes, windows, numbers of syncs,     *)
(* requests and refreshes, and any number of days.                         *)
(***************************************************************************)
EXTENDS RateStore, SequenceTheorems, TLAPS

Pcs == {"idle", "collect", "fetch", "open", "write", "select", "exact",
        "prior", "probe"}

\* Types, and what they rest on: a busy worker has a code, and the lookback
\* window of every question is within the dates of the model.
Typed ==
    /\ TypeOK
    /\ \A w \in Worker : pc[w] # "idle" => queue[w] # <<>>
    /\ \A w \in Worker : asked[w] - ProbeDays \in Date

-----------------------------------------------------------------------------
\* Lemmas

LEMMA Numbers ==
  /\ Lookback \in Nat /\ Forward \in Nat /\ ProbeDays \in Nat
  /\ LastDay \in Nat /\ MaxLookups \in Nat /\ MaxDeaths \in Nat
  /\ Lookback > 0 /\ LastDay > 0
  /\ FirstDate \in Int /\ FirstDate <= 1 - Lookback /\ FirstDate <= 1 - ProbeDays
  BY StoreAssumption DEF FirstDate

LEMMA CodesNonEmpty == Codes \in Seq(Code) /\ Codes # <<>> /\ Len(Codes) \in Nat \ {0}
  BY StoreAssumption, EmptySeq

LEMMA NothingType == Nothing \in [Date -> Value]
  BY Numbers DEF Nothing, None, Value

LEMMA HeadIsCode ==
  ASSUME NEW q \in Seq(Code), q # <<>>
  PROVE  /\ Head(q) \in Code
         /\ Tail(q) \in Seq(Code)
         /\ Len(q) \in Nat \ {0}
         /\ Len(q) > 1 => Tail(q) # <<>>
  <1>1. /\ Head(q) \in Code
        /\ Tail(q) \in Seq(Code)
        /\ Len(Tail(q)) = Len(q) - 1
    BY HeadTailProperties
  <1>2. Len(q) \in Nat \ {0} /\ Len(<<>>) = 0
    BY EmptySeq
  <1>3. Len(q) > 1 => Tail(q) # <<>>
    <2>1. Len(q) > 1 => Len(Tail(q)) # 0
      BY <1>1, <1>2
    <2> QED
      BY <1>2, <2>1, Zenon
  <1> QED
    BY <1>1, <1>2, <1>3

LEMMA WindowInDate ==
  ASSUME NEW c \in Code, NEW day \in {today, today + 1}, today \in Day
  PROVE  Window(c, day) \subseteq Date
  BY Numbers DEF Window, Date, Day

LEMMA DayIsDate == 1 \in Date /\ 1 - ProbeDays \in Date /\ Day \subseteq Value
  BY Numbers DEF Date, Day, Value

LEMMA Workers ==
  /\ \A s \in Syncer : s \in Worker
  /\ \A l \in Looker : l \in Worker
  /\ \A r \in Refresher : r \in Worker
  BY DEF Worker

-----------------------------------------------------------------------------
\* Types, action by action

LEMMA InitTyped ==
  ASSUME Init
  PROVE  Typed
  <1>1. Nothing \in [Date -> Value]
    BY NothingType
  <1>2. NoRow \in Row
    BY Numbers DEF NoRow, Row, None, Value
  <1>3. <<>> \in Seq(Code)
    OBVIOUS
  <1>4. NoAnswer \in [asked : Date, given : Date, on : Day]
    BY Numbers, DayIsDate DEF NoAnswer, Day
  <1>5. 0 \in 0 .. LastDay /\ 0 \in 0 .. ProbeDays /\ 0 \in 0 .. MaxLookups
        /\ 0 \in 0 .. MaxDeaths /\ 1 \in Day
    BY Numbers DEF Day
  <1>6. TypeOK
    BY <1>1, <1>2, <1>3, <1>4, <1>5, DayIsDate DEF Init, TypeOK, None
  <1> QED
    BY <1>6, DayIsDate DEF Init, Typed

LEMMA SyncTyped ==
  ASSUME Typed, NEW s \in Syncer,
         StartSync(s) \/ CollectMissing(s) \/ SyncDies(s)
  PROVE  Typed'
  <1> s \in Worker
    BY Workers
  <1> USE DEF Typed, TypeOK, clientVars, historyVars
  <1>1. CASE StartSync(s)
    <2>1. PICK day \in {today, today + 1} :
             want' = [want EXCEPT ![s] = [c \in Code |-> Window(c, day)]]
      BY <1>1 DEF StartSync
    <2>2. [c \in Code |-> Window(c, day)] \in [Code -> SUBSET Date]
      BY WindowInDate
    <2>3. want' \in [Worker -> [Code -> SUBSET Date]]
      BY <2>1, <2>2
    <2> QED
      BY <1>1, <2>3, CodesNonEmpty DEF StartSync, Goto
  <1>2. CASE CollectMissing(s)
    <2>1. queue[s] \in Seq(Code) /\ queue[s] # <<>>
      BY <1>2 DEF CollectMissing
    <2>2. Begun(s) \in 0 .. LastDay
      BY Numbers DEF Begun, Day
    <2>3. tx' \in [Worker -> 0 .. LastDay]
      BY <1>2, <2>2 DEF CollectMissing, Begin
    <2>4. /\ queue' \in [Worker -> Seq(Code)]
          /\ \A w \in Worker : pc'[w] # "idle" => queue'[w] # <<>>
      BY <1>2, <2>1, HeadIsCode, CodesNonEmpty DEF CollectMissing, Goto
    <2>5. want' \in [Worker -> [Code -> SUBSET Date]]
      <3>1. {d \in want[s][Head(queue[s])] : ~Confirmed(Head(queue[s]), d)}
               \in SUBSET Date
        BY <2>1, HeadIsCode
      <3> QED
        BY <1>2, <2>1, <3>1, HeadIsCode DEF CollectMissing
    <2>6. pc' \in [Worker -> Pcs]
      BY <1>2 DEF CollectMissing, Goto, Pcs
    <2> QED
      BY <1>2, <2>3, <2>4, <2>5, <2>6 DEF CollectMissing, Pcs
  <1>3. CASE SyncDies(s)
    <2>1. Nothing \in [Date -> Value]
      BY NothingType
    <2>2. deaths' \in 0 .. MaxDeaths
      BY <1>3, Numbers DEF SyncDies
    <2> QED
      BY <1>3, <2>1, <2>2, Numbers DEF SyncDies, Leave, Goto, None
  <1> QED
    BY <1>1, <1>2, <1>3

LEMMA NextCodeTyped ==
  ASSUME Typed, NEW s \in Syncer, pc[s] # "idle", NextCode(s),
         UNCHANGED asked
  PROVE  /\ pc' \in [Worker -> Pcs]
         /\ queue' \in [Worker -> Seq(Code)]
         /\ got' \in [Worker -> [Date -> Value]]
         /\ want' \in [Worker -> [Code -> SUBSET Date]]
         /\ \A w \in Worker : pc'[w] # "idle" => queue'[w] # <<>>
  <1> s \in Worker
    BY Workers
  <1>1. queue[s] \in Seq(Code) /\ queue[s] # <<>>
    BY DEF Typed, TypeOK
  <1>2. got' = [got EXCEPT ![s] = Nothing]
    BY DEF NextCode
  <1>3. got' \in [Worker -> [Date -> Value]]
    BY <1>2, NothingType DEF Typed, TypeOK
  <1>4. CASE Len(queue[s]) > 1
    <2>1. /\ Goto(s, "fetch")
          /\ queue' = [queue EXCEPT ![s] = Tail(queue[s])]
          /\ want'  = [want EXCEPT ![s][Head(queue[s])] = {}]
      BY <1>4 DEF NextCode
    <2>2. Tail(queue[s]) \in Seq(Code) /\ Tail(queue[s]) # <<>>
      BY <1>1, <1>4, HeadIsCode
    <2>3. want' \in [Worker -> [Code -> SUBSET Date]]
      BY <1>1, <2>1, HeadIsCode DEF Typed, TypeOK
    <2> QED
      BY <1>3, <2>1, <2>2, <2>3 DEF Goto, Typed, TypeOK, Pcs
  <1>5. CASE ~(Len(queue[s]) > 1)
    <2>1. /\ Goto(s, "idle")
          /\ queue' = [queue EXCEPT ![s] = <<>>]
          /\ want'  = [want EXCEPT ![s] = [c \in Code |-> {}]]
      BY <1>5 DEF NextCode
    <2> QED
      BY <1>3, <2>1 DEF Goto, Typed, TypeOK, Pcs
  <1> QED
    BY <1>4, <1>5

LEMMA OthersType ==
  ASSUME Typed, NEW s \in Syncer, NEW c
  PROVE  Others(s, c) \in SUBSET (Code \X Date)
  BY DEF Typed, TypeOK, Others

LEMMA SyncFetchTyped ==
  ASSUME Typed, NEW s \in Syncer, NEW dates \in SUBSET Open,
         SyncFetch(s, dates)
  PROVE  Typed'
  <1> s \in Worker
    BY Workers
  <1>1. CASE dates # {}
    <2>1. [d \in Date |-> IF d \in dates THEN today ELSE None]
             \in [Date -> Value]
      BY Numbers, DayIsDate DEF None, Value, Typed, TypeOK
    <2>2. got' \in [Worker -> [Date -> Value]]
      BY <1>1, <2>1 DEF SyncFetch, Typed, TypeOK
    <2> QED
      BY <1>1, <2>2
      DEF SyncFetch, Goto, clientVars, historyVars, Typed, TypeOK
  <1>2. CASE dates = {}
    <2>1. NextCode(s) /\ pc[s] # "idle" /\ UNCHANGED asked
      BY <1>2 DEF SyncFetch, clientVars
    <2>2. missed' \in [Syncer -> SUBSET (Code \X Date)]
      <3>1. missed' = [missed EXCEPT ![s] = Others(s, Head(queue[s]))]
        BY <1>2 DEF SyncFetch
      <3>2. Others(s, Head(queue[s])) \in SUBSET (Code \X Date)
        BY OthersType
      <3> QED
        BY <3>1, <3>2 DEF Typed, TypeOK
    <2>3. tx' \in [Worker -> 0 .. LastDay] /\ fresh' \in [Worker -> BOOLEAN]
      <3>1. \/ UNCHANGED <<tx, fresh>>
            \/ /\ tx' = [tx EXCEPT ![s] = None]
               /\ fresh' = [fresh EXCEPT ![s] = TRUE]
        BY <1>2 DEF SyncFetch
      <3>2. tx' \in [Worker -> 0 .. LastDay]
        <4>1. tx \in [Worker -> 0 .. LastDay] /\ None \in 0 .. LastDay
          BY Numbers DEF None, Typed, TypeOK
        <4> QED
          BY <3>1, <4>1
      <3>3. fresh' \in [Worker -> BOOLEAN]
        <4>1. fresh \in [Worker -> BOOLEAN]
          BY DEF Typed, TypeOK
        <4> QED
          BY <3>1, <4>1
      <3> QED
        BY <3>2, <3>3
    <2> QED
      BY <1>2, <2>1, <2>2, <2>3, NextCodeTyped
      DEF SyncFetch, clientVars, Typed, TypeOK, Pcs
  <1> QED
    BY <1>1, <1>2

LEMMA OpenWriteTyped ==
  ASSUME Typed, NEW w \in Worker, OpenWrite(w)
  PROVE  Typed'
  <1>1. Begun(w) \in 0 .. LastDay
    BY Numbers DEF Begun, Day, Typed, TypeOK
  <1> QED
    BY <1>1
    DEF OpenWrite, Begin, Goto, clientVars, historyVars, Typed, TypeOK

LEMMA UpsertTyped ==
  ASSUME Typed, NEW w \in Worker, pc[w] = "write", Upsert(w, Head(queue[w]))
  PROVE  /\ rate' \in [Code -> [Date -> Row]]
         /\ missed' \in [Syncer -> SUBSET (Code \X Date)]
  <1> DEFINE c == Head(queue[w])
  <1>1. c \in Code
    BY HeadIsCode DEF Typed, TypeOK
  <1>2. \A d \in Date : Entry(w, d) \in Row
    BY DEF Entry, Row, Typed, TypeOK
  <1>3. rate' \in [Code -> [Date -> Row]]
    <2>1. [d \in Date |-> IF got[w][d] = None THEN rate[c][d] ELSE Entry(w, d)]
             \in [Date -> Row]
      BY <1>1, <1>2 DEF Typed, TypeOK
    <2>2. rate' = [rate EXCEPT ![c] = [d \in Date |->
                      IF got[w][d] = None THEN rate[c][d] ELSE Entry(w, d)]]
      BY DEF Upsert
    <2> QED
      BY <1>1, <2>1, <2>2 DEF Typed, TypeOK
  <1>4. ASSUME NEW s \in Syncer
        PROVE  (IF s = w THEN Others(s, c)
                ELSE missed[s] \cup
                     {<<c, d>> : d \in {e \in want[s][c] : got[w][e] # None}})
                  \in SUBSET (Code \X Date)
    <2>1. want[s][c] \in SUBSET Date
      BY <1>1, Workers DEF Typed, TypeOK
    <2> QED
      BY <1>1, <2>1, OthersType DEF Typed, TypeOK
  <1>5. missed' \in [Syncer -> SUBSET (Code \X Date)]
    BY <1>4 DEF Upsert
  <1> QED
    BY <1>3, <1>5

LEMMA SyncWriteTyped ==
  ASSUME Typed, NEW s \in Syncer, SyncWrite(s)
  PROVE  Typed'
  <1> s \in Worker
    BY Workers
  <1>1. /\ rate' \in [Code -> [Date -> Row]]
        /\ missed' \in [Syncer -> SUBSET (Code \X Date)]
    BY UpsertTyped DEF SyncWrite
  <1>2. NextCode(s) /\ pc[s] # "idle" /\ UNCHANGED asked
    BY DEF SyncWrite, clientVars
  <1>3. tx' \in [Worker -> 0 .. LastDay] /\ fresh' \in [Worker -> BOOLEAN]
    BY Numbers DEF SyncWrite, None, Typed, TypeOK
  <1> QED
    BY <1>1, <1>2, <1>3, NextCodeTyped
    DEF SyncWrite, clientVars, Typed, TypeOK, Pcs

LEMMA LeaveTyped ==
  ASSUME Typed, NEW w \in Worker, Leave(w),
         rate' \in [Code -> [Date -> Row]],
         missed' \in [Syncer -> SUBSET (Code \X Date)],
         UNCHANGED <<today, cache, clientVars, deaths>>
  PROVE  Typed'
  BY NothingType, Numbers DEF Leave, Goto, None, clientVars, Typed, TypeOK

\* What a lookup leaves behind when it has found its value, or none.
LEMMA AnsweredTyped ==
  ASSUME Typed, NEW l \in Looker, NEW given \in Date, Answered(l, given)
  PROVE  /\ answer' \in [Worker -> [asked : Date, given : Date, on : Day]]
         /\ pc' \in [Worker -> Pcs]
         /\ queue' \in [Worker -> Seq(Code)]
         /\ got' \in [Worker -> [Date -> Value]]
         /\ back' \in [Worker -> 0 .. ProbeDays]
         /\ asked' \in [Worker -> Date]
         /\ lookups' \in [Worker -> 0 .. MaxLookups]
         /\ \A w \in Worker : pc'[w] # "idle" => queue'[w] # <<>>
         /\ \A w \in Worker : asked'[w] - ProbeDays \in Date
  <1> l \in Worker
    BY Workers
  <1>1. [asked |-> asked[l], given |-> given, on |-> today]
           \in [asked : Date, given : Date, on : Day]
    BY DEF Typed, TypeOK
  <1>2. answer' \in [Worker -> [asked : Date, given : Date, on : Day]]
    BY <1>1 DEF Answered, Typed, TypeOK
  <1>3. got' \in [Worker -> [Date -> Value]]
    BY NothingType DEF Answered, Typed, TypeOK
  <1>4. /\ back' \in [Worker -> 0 .. ProbeDays]
        /\ asked' \in [Worker -> Date]
        /\ \A w \in Worker : asked'[w] - ProbeDays \in Date
    BY Numbers, DayIsDate DEF Answered, Typed, TypeOK
  <1> QED
    BY <1>2, <1>3, <1>4 DEF Answered, Goto, Typed, TypeOK, Pcs

LEMMA NotFoundTyped ==
  ASSUME Typed, NEW l \in Looker, NotFound(l),
         UNCHANGED <<today, rate, want, cache, deaths, historyVars, tx>>
  PROVE  Typed'
  <1> l \in Worker
    BY Workers
  <1>1. /\ back' \in [Worker -> 0 .. ProbeDays]
        /\ asked' \in [Worker -> Date]
        /\ \A w \in Worker : asked'[w] - ProbeDays \in Date
    BY Numbers, DayIsDate DEF NotFound, Typed, TypeOK
  <1> QED
    BY <1>1 DEF NotFound, Goto, historyVars, Typed, TypeOK

LEMMA BeginTyped ==
  ASSUME Typed, NEW w \in Worker, Begin(w)
  PROVE  tx' \in [Worker -> 0 .. LastDay]
  BY Numbers DEF Begin, Begun, Day, Typed, TypeOK

LEMMA FetchTyped ==
  ASSUME Typed, NEW l \in Looker, NEW d, NEW hit \in Pcs \ {"idle"},
         NEW miss \in Pcs \ {"idle"},
         pc[l] # "idle", Fetch(l, d, hit, miss), UNCHANGED queue
  PROVE  /\ cache' \in [Worker -> 0 .. LastDay]
         /\ got' \in [Worker -> [Date -> Value]]
         /\ pc' \in [Worker -> Pcs]
         /\ \A w \in Worker : pc'[w] # "idle" => queue'[w] # <<>>
  <1> l \in Worker
    BY Workers
  <1>1. cache' \in [Worker -> 0 .. LastDay]
    BY Numbers DEF Fetch, Day, Typed, TypeOK
  <1>2. ProviderDays(l) \subseteq Value
    BY Numbers DEF ProviderDays, Day, Value, None, Typed, TypeOK
  <1>3. \/ got' = got
        \/ \E day \in ProviderDays(l) : got' = [got EXCEPT ![l][d] = day]
    BY DEF Fetch
  <1>4. got' \in [Worker -> [Date -> Value]]
    <2>1. got \in [Worker -> [Date -> Value]]
      BY DEF Typed, TypeOK
    <2>2. CASE got' = got
      BY <2>1, <2>2
    <2>3. ASSUME NEW day \in Value, got' = [got EXCEPT ![l][d] = day]
          PROVE  got' \in [Worker -> [Date -> Value]]
      BY <2>1, <2>3
    <2> QED
      BY <1>2, <1>3, <2>2, <2>3
  <1>5. \E to \in Pcs \ {"idle"} : pc' = [pc EXCEPT ![l] = to]
    <2>1. Goto(l, hit) \/ Goto(l, miss)
      BY DEF Fetch
    <2> QED
      BY <2>1 DEF Goto
  <1> QED
    BY <1>1, <1>4, <1>5 DEF Typed, TypeOK, Pcs

LEMMA LookupTyped ==
  ASSUME Typed, NEW l \in Looker, LookupStep(l)
  PROVE  Typed'
  <1> l \in Worker
    BY Workers
  <1>1. ASSUME NEW c \in Code, NEW d \in Date, Ask(l, c, d)
        PROVE  Typed'
    <2>1. NoAnswer \in [asked : Date, given : Date, on : Day]
      BY Numbers, DayIsDate DEF NoAnswer, Day
    <2>2. /\ lookups' \in [Worker -> 0 .. MaxLookups]
          /\ asked' \in [Worker -> Date]
          /\ answer' \in [Worker -> [asked : Date, given : Date, on : Day]]
          /\ \A w \in Worker : asked'[w] - ProbeDays \in Date
      BY <1>1, <2>1, Numbers DEF Ask, Typed, TypeOK
    <2>3. <<c>> \in Seq(Code) /\ <<c>> # <<>>
      OBVIOUS
    <2> QED
      BY <1>1, <2>2, <2>3 DEF Ask, Goto, historyVars, Typed, TypeOK
  <1>2. CASE SelectExact(l)
    <2>1. tx' \in [Worker -> 0 .. LastDay]
      BY <1>2, BeginTyped DEF SelectExact
    <2>2. CASE Stored(Head(queue[l]), asked[l])
      <3>1. asked[l] \in Date /\ Answered(l, asked[l])
        BY <1>2, <2>2 DEF SelectExact, Typed, TypeOK
      <3> QED
        BY <1>2, <2>1, <3>1, AnsweredTyped
        DEF SelectExact, historyVars, Typed, TypeOK, Pcs
    <2>3. CASE ~Stored(Head(queue[l]), asked[l])
      <3>1. Goto(l, "exact") /\ pc[l] = "select"
            /\ UNCHANGED <<queue, got, clientVars>>
        BY <1>2, <2>3 DEF SelectExact
      <3> QED
        BY <1>2, <2>1, <3>1
        DEF SelectExact, Goto, clientVars, historyVars, Typed, TypeOK
    <2> QED
      BY <2>2, <2>3
  <1>3. CASE FetchExact(l)
    <2>1. /\ Fetch(l, asked[l], "open", "prior")
          /\ pc[l] # "idle" /\ UNCHANGED queue
          /\ {"open", "prior"} \subseteq Pcs \ {"idle"}
      BY <1>3 DEF FetchExact, Pcs
    <2> QED
      BY <1>3, <2>1, FetchTyped
      DEF FetchExact, clientVars, historyVars, Typed, TypeOK, Pcs
  <1>4. CASE SelectPrior(l)
    <2>1. CASE ~MayCarryForward(l)
      BY <1>4, <2>1, NotFoundTyped DEF SelectPrior
    <2>2. CASE MayCarryForward(l)
      <3>1. tx' \in [Worker -> 0 .. LastDay]
        BY <1>4, <2>2, BeginTyped DEF SelectPrior
      <3>2. CASE PriorDates(l) # {}
        <4>1. PICK d \in PriorDates(l) : Answered(l, d)
          BY <1>4, <2>2, <3>2 DEF SelectPrior
        <4>2. d \in Date
          BY DEF PriorDates
        <4> QED
          BY <1>4, <3>1, <4>1, <4>2, AnsweredTyped
          DEF SelectPrior, historyVars, Typed, TypeOK, Pcs
      <3>3. CASE PriorDates(l) = {}
        <4>1. /\ Goto(l, "probe") /\ pc[l] = "prior"
              /\ back' = [back EXCEPT ![l] = 0]
              /\ UNCHANGED <<queue, got, asked, lookups, answer>>
          BY <1>4, <2>2, <3>3 DEF SelectPrior
        <4>2. back' \in [Worker -> 0 .. ProbeDays]
          BY <4>1, Numbers DEF Typed, TypeOK
        <4>3. pc' \in [Worker -> Pcs] /\ queue[l] # <<>>
          BY <4>1 DEF Goto, Typed, TypeOK, Pcs
        <4>4. UNCHANGED <<today, rate, want, cache, deaths, historyVars>>
          BY <1>4 DEF SelectPrior
        <4> QED
          BY <3>1, <4>1, <4>2, <4>3, <4>4
          DEF Goto, historyVars, Typed, TypeOK, Pcs
      <3> QED
        BY <3>2, <3>3
    <2> QED
      BY <2>1, <2>2
  <1>5. CASE ProbePrior(l)
    <2>1. /\ Fetch(l, asked[l] - (back[l] + 1), "open", "probe")
          /\ pc[l] # "idle" /\ UNCHANGED queue
          /\ {"open", "probe"} \subseteq Pcs \ {"idle"}
      BY <1>5 DEF ProbePrior, Pcs
    <2>2. back' \in [Worker -> 0 .. ProbeDays]
      BY <1>5, Numbers DEF ProbePrior, Typed, TypeOK
    <2> QED
      BY <1>5, <2>1, <2>2, FetchTyped
      DEF ProbePrior, historyVars, Typed, TypeOK, Pcs
  <1>6. CASE GiveUp(l)
    BY <1>6, NotFoundTyped DEF GiveUp
  <1>7. CASE l \in Looker /\ OpenWrite(l)
    BY <1>7, OpenWriteTyped
  <1>8. CASE LookupWrite(l)
    <2>1. /\ rate' \in [Code -> [Date -> Row]]
          /\ missed' \in [Syncer -> SUBSET (Code \X Date)]
      BY <1>8, UpsertTyped DEF LookupWrite
    <2>2. asked[l] - back[l] \in Date
      BY Numbers DEF Typed, TypeOK, Date
    <2>3. tx' \in [Worker -> 0 .. LastDay] /\ fresh' \in [Worker -> BOOLEAN]
      BY <1>8, Numbers DEF LookupWrite, None, Typed, TypeOK
    <2>4. Answered(l, asked[l] - back[l])
      BY <1>8 DEF LookupWrite
    <2> QED
      BY <1>8, <2>1, <2>2, <2>3, <2>4, AnsweredTyped
      DEF LookupWrite, Typed, TypeOK, Pcs
  <1>9. CASE EndRequest(l)
    <2>1. NoAnswer \in [asked : Date, given : Date, on : Day]
      BY Numbers, DayIsDate DEF NoAnswer, Day
    <2> QED
      BY <1>9, <2>1, Numbers DEF EndRequest, None, Typed, TypeOK
  <1> QED
    BY <1>1, <1>2, <1>3, <1>4, <1>5, <1>6, <1>7, <1>8, <1>9 DEF LookupStep

LEMMA RefreshTyped ==
  ASSUME Typed, NEW r \in Refresher, RefreshStep(r)
  PROVE  Typed'
  <1> r \in Worker
    BY Workers
  <1>1. ASSUME NEW c \in Code, NEW dates \in SUBSET Open,
               NEW manual \in SUBSET Supplied, StartRefresh(r, c, dates, manual)
        PROVE  Typed'
    <2>1. ByHand \in Value /\ None \in Value /\ Open \subseteq Date
      BY Numbers, StoreAssumption DEF Value, None
    <2>2. [d \in Date |-> IF d \in manual THEN ByHand ELSE None]
             \in [Date -> Value]
      BY <2>1
    <2>3. got' \in [Worker -> [Date -> Value]]
      BY <1>1, <2>2 DEF StartRefresh, Typed, TypeOK
    <2>4. want' \in [Worker -> [Code -> SUBSET Date]]
      BY <1>1, <2>1 DEF StartRefresh, Typed, TypeOK
    <2>5. <<c>> \in Seq(Code) /\ <<c>> # <<>>
      OBVIOUS
    <2>6. pc' \in [Worker -> Pcs]
      BY <1>1 DEF StartRefresh, Goto, Typed, TypeOK, Pcs
    <2> QED
      BY <1>1, <2>3, <2>4, <2>5, <2>6
      DEF StartRefresh, Goto, clientVars, historyVars, Typed, TypeOK, Pcs
  <1>2. ASSUME NEW d \in Open, RefreshFetch(r, d)
        PROVE  Typed'
    <2>1. d \in Date /\ today \in Value
      BY StoreAssumption, DayIsDate DEF Typed, TypeOK
    <2>2. got' \in [Worker -> [Date -> Value]]
      BY <1>2, <2>1 DEF RefreshFetch, Typed, TypeOK
    <2>3. want' \in [Worker -> [Code -> SUBSET Date]]
      <3>1. Head(queue[r]) \in Code
        BY <1>2, HeadIsCode DEF RefreshFetch, Typed, TypeOK
      <3> QED
        BY <1>2, <3>1 DEF RefreshFetch, Typed, TypeOK
    <2>4. pc' \in [Worker -> Pcs] /\ pc[r] # "idle"
      BY <1>2 DEF RefreshFetch, Goto, Typed, TypeOK, Pcs
    <2> QED
      BY <1>2, <2>2, <2>3, <2>4
      DEF RefreshFetch, Goto, clientVars, historyVars, Typed, TypeOK, Pcs
  <1>3. CASE RefreshFails(r)
    BY <1>3, LeaveTyped DEF RefreshFails, Typed, TypeOK
  <1>4. CASE r \in Refresher /\ OpenWrite(r)
    BY <1>4, OpenWriteTyped
  <1>5. CASE RefreshWrite(r)
    BY <1>5, LeaveTyped, UpsertTyped DEF RefreshWrite
  <1> QED
    BY <1>1, <1>2, <1>3, <1>4, <1>5 DEF RefreshStep

LEMMA NextTyped ==
  ASSUME Typed, [Next]_vars
  PROVE  Typed'
  <1>1. CASE UNCHANGED vars
    BY <1>1 DEF vars, workVars, clientVars, historyVars, Typed, TypeOK
  <1>2. CASE Tick
    <2>1. today' \in Day
      BY <1>2, Numbers DEF Tick, Day, Typed, TypeOK
    <2> QED
      BY <1>2, <2>1 DEF Tick, workVars, clientVars, historyVars, Typed, TypeOK
  <1>3. ASSUME NEW s \in Syncer, StartSync(s) \/ SyncStep(s) \/ SyncDies(s)
        PROVE  Typed'
    BY <1>3, SyncTyped, SyncFetchTyped, SyncWriteTyped, OpenWriteTyped, Workers
    DEF SyncStep
  <1> QED
    BY <1>1, <1>2, <1>3, LookupTyped, RefreshTyped DEF Next

\* The invariant that the other proofs rest on: types, that a worker at work has
\* a code left to work on, and that the probes of a date stay within the dates.
THEOREM Types == Spec => []Typed
  BY InitTyped, NextTyped, PTL DEF Spec

\* Rows, transactions, fetched values and answers stay in their types: no probe
\* and no window leaves the dates of the model.
THEOREM TypeCorrect == Spec => []TypeOK
  <1>1. Typed => TypeOK
    BY DEF Typed
  <1> QED
    BY <1>1, Types, PTL


-----------------------------------------------------------------------------
\* The first transaction of a session

\* What w has fetched or read in its first transaction is no older than that
\* transaction, which began before its first fetch.
Honest(w) ==
    /\ tx[w] <= today
    /\ pc[w] \notin {"open", "write"} => \A d \in Date : got[w][d] = None
    /\ w \in Syncer => cache[w] = None
    /\ fresh[w] /\ pc[w] \notin {"idle", "collect", "select"} => tx[w] # None
    /\ \A d \in Date : fresh[w] /\ got[w][d] # None =>
          tx[w] # None /\ tx[w] <= got[w][d]
    /\ fresh[w] /\ cache[w] # None => tx[w] # None /\ tx[w] <= cache[w]

\* So no row of a first transaction is stamped later than it was fetched.
RowsHonest ==
    \A c \in Code : \A d \in Date :
        rate[c][d].early => rate[c][d].stamp <= rate[c][d].fetched

Honesty ==
    /\ RowsHonest
    /\ \A w \in Syncer \cup Looker : Honest(w)

\* Worker u takes a step on its own.
Alone(u) ==
    /\ today' = today
    /\ \A w \in Worker \ {u} : /\ tx'[w] = tx[w]
                               /\ pc'[w] = pc[w]
                               /\ got'[w] = got[w]
                               /\ cache'[w] = cache[w]
                               /\ fresh'[w] = fresh[w]

LEMMA AloneHonest ==
  ASSUME Honesty, NEW u \in Worker, Alone(u),
         u \in Syncer \cup Looker => Honest(u)'
  PROVE  \A w \in Syncer \cup Looker : Honest(w)'
  <1> SUFFICES ASSUME NEW w \in Syncer \cup Looker, w # u
               PROVE  Honest(w)'
    OBVIOUS
  <1>1. Honest(w) /\ w \in Worker \ {u}
    BY Workers DEF Honesty
  <1> QED
    BY <1>1 DEF Alone, Honest

LEMMA RowsKept == ASSUME Honesty, UNCHANGED rate PROVE RowsHonest'
  BY DEF Honesty, RowsHonest

LEMMA UpsertHonest ==
  ASSUME Typed, Honesty, NEW w \in Worker, pc[w] = "write",
         Upsert(w, Head(queue[w]))
  PROVE  RowsHonest'
  <1> DEFINE c == Head(queue[w])
  <1>1. c \in Code
    BY HeadIsCode DEF Typed, TypeOK
  <1>2. rate' = [rate EXCEPT ![c] = [d \in Date |->
                    IF got[w][d] = None THEN @[d] ELSE Entry(w, d)]]
    BY DEF Upsert
  <1>3. ASSUME NEW d \in Date, got[w][d] # None, Entry(w, d).early
        PROVE  Entry(w, d).stamp <= Entry(w, d).fetched
    <2>1. fresh[w] /\ w \notin Refresher
      BY <1>3 DEF Entry
    <2>2. Honest(w)
      BY <2>1 DEF Honesty, Worker
    <2> QED
      BY <1>3, <2>1, <2>2 DEF Honest, Entry
  <1>4. ASSUME NEW k \in Code, NEW d \in Date, rate'[k][d].early
        PROVE  rate'[k][d].stamp <= rate'[k][d].fetched
    <2>1. rate'[k][d] = rate[k][d]
          \/ (got[w][d] # None /\ rate'[k][d] = Entry(w, d))
      <3>1. CASE k = c
        BY <1>1, <1>2, <3>1 DEF Typed, TypeOK
      <3>2. CASE k # c
        BY <1>1, <1>2, <3>2 DEF Typed, TypeOK
      <3> QED
        BY <3>1, <3>2
    <2>2. CASE rate'[k][d] = rate[k][d]
      BY <1>4, <2>2 DEF Honesty, RowsHonest
    <2>3. CASE got[w][d] # None /\ rate'[k][d] = Entry(w, d)
      BY <1>3, <1>4, <2>3
    <2> QED
      BY <2>1, <2>2, <2>3
  <1> QED
    BY <1>4 DEF RowsHonest

\* A session that has ended is honest again, whatever it did.
LEMMA RenewedHonest ==
  ASSUME Typed, NEW w \in Worker, today' = today,
         pc'[w] = "idle", tx'[w] = None, cache'[w] = None,
         got'[w] = Nothing
  PROVE  Honest(w)'
  BY DEF Honest, Nothing, None, Typed, TypeOK, Day

LEMMA BeginHonest ==
  ASSUME Typed, NEW w \in Worker, Honest(w), Begin(w)
  PROVE  /\ tx'[w] # None /\ tx'[w] <= today
         /\ tx[w] # None => tx'[w] = tx[w]
         /\ \A v \in Worker \ {w} : tx'[v] = tx[v]
  BY DEF Begin, Begun, Honest, Day, None, Typed, TypeOK

LEMMA OpenWriteHonest ==
  ASSUME Typed, Honesty, NEW w \in Syncer \cup Looker, OpenWrite(w)
  PROVE  Honesty'
  <1> w \in Worker
    BY Workers
  <1>1. Honest(w) /\ Begin(w) /\ pc[w] = "open"
    BY DEF Honesty, OpenWrite
  <1>2. UNCHANGED <<today, rate, got, cache, fresh>> /\ Goto(w, "write")
    BY DEF OpenWrite, historyVars
  <1>3. pc'[w] = "write" /\ \A v \in Worker \ {w} : pc'[v] = pc[v]
    BY <1>2 DEF Goto, Typed, TypeOK
  <1>4. Honest(w)'
    BY <1>1, <1>2, <1>3, BeginHonest DEF Honest
  <1>5. Alone(w)
    BY <1>1, <1>2, <1>3, BeginHonest DEF Alone
  <1> QED
    BY <1>2, <1>4, <1>5, AloneHonest, RowsKept DEF Honesty

LEMMA NextCodeLocal ==
  ASSUME Typed, NEW s \in Syncer, NextCode(s)
  PROVE  /\ got'[s] = Nothing
         /\ pc'[s] = (IF Len(queue[s]) > 1 THEN "fetch" ELSE "idle")
         /\ \A v \in Worker \ {s} : pc'[v] = pc[v] /\ got'[v] = got[v]
  BY Workers DEF NextCode, Goto, Typed, TypeOK

LEMMA SyncFetchHonest ==
  ASSUME Typed, Honesty, NEW s \in Syncer, NEW dates \in SUBSET Open,
         SyncFetch(s, dates)
  PROVE  Honesty'
  <1> s \in Worker
    BY Workers
  <1> UNCHANGED <<today, rate, cache>> /\ pc[s] = "fetch"
    BY DEF SyncFetch
  <1>1. Honest(s) /\ cache[s] = None
    BY DEF Honesty, Honest
  <1>2. CASE dates # {}
    <2>1. /\ got' = [got EXCEPT ![s] =
                        [d \in Date |-> IF d \in dates THEN today ELSE None]]
          /\ Goto(s, "open")
          /\ UNCHANGED <<tx, fresh>>
      BY <1>2 DEF SyncFetch, historyVars
    <2>2. /\ pc'[s] = "open"
          /\ \A d \in Date : got'[s][d] \in {today, None}
          /\ \A v \in Worker \ {s} : pc'[v] = pc[v] /\ got'[v] = got[v]
      BY <2>1 DEF Goto, Typed, TypeOK
    <2>3. Honest(s)'
      BY <1>1, <2>1, <2>2 DEF Honest
    <2>4. Alone(s)
      BY <2>1, <2>2 DEF Alone
    <2> QED
      BY <2>3, <2>4, AloneHonest, RowsKept DEF Honesty
  <1>3. CASE dates = {}
    <2>1. NextCode(s)
      BY <1>3 DEF SyncFetch
    <2>2. CASE Len(queue[s]) > 1
      <3>1. UNCHANGED <<tx, fresh>>
        BY <1>3, <2>2 DEF SyncFetch
      <3>2. pc'[s] = "fetch" /\ \A d \in Date : got'[s][d] = None
        BY <2>1, <2>2, NextCodeLocal DEF Nothing
      <3>3. Honest(s)'
        BY <1>1, <3>1, <3>2 DEF Honest
      <3>4. Alone(s)
        BY <2>1, <3>1, NextCodeLocal DEF Alone
      <3> QED
        BY <3>3, <3>4, AloneHonest, RowsKept DEF Honesty
    <2>3. CASE ~(Len(queue[s]) > 1)
      <3>1. /\ tx' = [tx EXCEPT ![s] = None]
            /\ fresh' = [fresh EXCEPT ![s] = TRUE]
        BY <1>3, <2>3 DEF SyncFetch
      <3>2. pc'[s] = "idle" /\ got'[s] = Nothing
        BY <2>1, <2>3, NextCodeLocal
      <3>3. Honest(s)'
        BY <1>1, <3>1, <3>2, RenewedHonest DEF Typed, TypeOK
      <3>4. Alone(s)
        BY <2>1, <3>1, NextCodeLocal DEF Alone, Typed, TypeOK
      <3> QED
        BY <3>3, <3>4, AloneHonest, RowsKept DEF Honesty
    <2> QED
      BY <2>2, <2>3
  <1> QED
    BY <1>2, <1>3

LEMMA SyncWriteHonest ==
  ASSUME Typed, Honesty, NEW s \in Syncer, SyncWrite(s)
  PROVE  Honesty'
  <1> s \in Worker
    BY Workers
  <1>1. /\ UNCHANGED <<today, cache>> /\ NextCode(s)
        /\ tx' = [tx EXCEPT ![s] = None]
        /\ fresh' = [fresh EXCEPT ![s] = Len(queue[s]) = 1]
    BY DEF SyncWrite
  <1>2. RowsHonest'
    BY UpsertHonest DEF SyncWrite
  <1>3. cache'[s] = None /\ tx'[s] = None /\ got'[s] = Nothing
    BY <1>1, NextCodeLocal DEF Honesty, Honest, Typed, TypeOK
  <1>4. Honest(s)'
    <2>1. CASE Len(queue[s]) > 1
      <3>1. ~fresh'[s]
        <4>1. Len(queue[s]) # 1
          <5>1. queue[s] \in Seq(Code)
            BY DEF Typed, TypeOK
          <5>2. Len(queue[s]) \in Nat
            BY <5>1, LenProperties
          <5>3. \A n \in Nat : n > 1 => n # 1
            OBVIOUS
          <5> QED
            BY <2>1, <5>2, <5>3, Zenon
        <4>2. fresh \in [Worker -> BOOLEAN]
          BY DEF Typed, TypeOK
        <4> QED
          BY <1>1, <4>1, <4>2, Zenon
      <3>2. pc'[s] = "fetch"
        BY <1>1, <2>1, NextCodeLocal
      <3> QED
        BY <1>1, <1>3, <3>1, <3>2 DEF Honest, Nothing, None, Typed, TypeOK, Day
    <2>2. CASE ~(Len(queue[s]) > 1)
      <3>1. pc'[s] = "idle"
        BY <1>1, <2>2, NextCodeLocal
      <3> QED
        BY <1>1, <1>3, <3>1, RenewedHonest
    <2> QED
      BY <2>1, <2>2
  <1>5. Alone(s)
    BY <1>1, NextCodeLocal DEF Alone, Typed, TypeOK
  <1> QED
    BY <1>2, <1>4, <1>5, AloneHonest DEF Honesty

LEMMA SyncHonest ==
  ASSUME Typed, Honesty, NEW s \in Syncer,
         StartSync(s) \/ CollectMissing(s) \/ SyncDies(s)
  PROVE  Honesty'
  <1> s \in Worker
    BY Workers
  <1> Honest(s) /\ cache[s] = None
    BY DEF Honesty, Honest
  <1>1. CASE StartSync(s)
    <2>1. /\ UNCHANGED <<today, rate, tx, got, cache, fresh>>
          /\ pc[s] = "idle" /\ Goto(s, "collect")
      BY <1>1 DEF StartSync, historyVars
    <2>2. Honest(s)' /\ Alone(s)
      BY <2>1 DEF Goto, Honest, Alone, Typed, TypeOK
    <2> QED
      BY <2>1, <2>2, AloneHonest, RowsKept DEF Honesty
  <1>2. CASE CollectMissing(s)
    <2>1. /\ UNCHANGED <<today, rate, got, cache, fresh>>
          /\ pc[s] = "collect" /\ Begin(s)
          /\ pc' = [pc EXCEPT ![s] =
                       IF Len(queue[s]) > 1 THEN "collect" ELSE "fetch"]
      BY <1>2 DEF CollectMissing, Goto, historyVars
    <2>2. /\ pc'[s] \in {"collect", "fetch"}
          /\ \A v \in Worker \ {s} : pc'[v] = pc[v]
      BY <2>1 DEF Typed, TypeOK
    <2>3. Honest(s)'
      BY <2>1, <2>2, BeginHonest DEF Honest
    <2>4. Alone(s)
      BY <2>1, <2>2, BeginHonest DEF Alone
    <2> QED
      BY <2>1, <2>3, <2>4, AloneHonest, RowsKept DEF Honesty
  <1>3. CASE SyncDies(s)
    <2>1. Leave(s) /\ UNCHANGED <<today, rate, cache>>
      BY <1>3 DEF SyncDies
    <2>2. Alone(s)
      BY <2>1 DEF Leave, Goto, Alone, Typed, TypeOK
    <2>3. pc'[s] = "idle" /\ tx'[s] = None /\ got'[s] = Nothing
      BY <2>1 DEF Leave, Goto, Typed, TypeOK
    <2> QED
      BY <2>1, <2>2, <2>3, RenewedHonest, AloneHonest, RowsKept DEF Honesty
  <1> QED
    BY <1>1, <1>2, <1>3

\* A lookup that has answered or found nothing keeps its transaction.
LEMMA IdleHonest ==
  ASSUME Typed, NEW l \in Looker, NEW t \in 0 .. LastDay,
         Honest(l), today' = today, UNCHANGED <<cache, fresh>>,
         pc'[l] = "idle", \A d \in Date : got'[l][d] = None,
         tx'[l] <= today, tx[l] # None => tx'[l] = tx[l]
  PROVE  Honest(l)'
  <1> l \notin Syncer
    BY StoreAssumption
  <1> QED
    BY DEF Honest

LEMMA AnsweredLocal ==
  ASSUME Typed, NEW l \in Looker, NEW given, Answered(l, given)
  PROVE  /\ pc'[l] = "idle" /\ \A d \in Date : got'[l][d] = None
         /\ \A v \in Worker \ {l} : pc'[v] = pc[v] /\ got'[v] = got[v]
  BY Workers DEF Answered, Goto, Nothing, Typed, TypeOK

\* A provider answers with a value of today, or of a day in the transaction.
LEMMA FetchHonest ==
  ASSUME Typed, Honesty, NEW l \in Looker, NEW d, NEW hit, NEW miss,
         pc[l] \in {"exact", "probe"}, hit = "open",
         miss \in {"prior", "probe"},
         Fetch(l, d, hit, miss), UNCHANGED <<today, rate, tx, fresh>>
  PROVE  Honesty'
  <1> l \in Worker /\ l \notin Syncer
    BY Workers, StoreAssumption
  <1>1. Honest(l) /\ \A e \in Date : got[l][e] = None
    BY DEF Honesty, Honest
  <1>2. /\ cache'[l] = (IF cache[l] = None THEN today ELSE cache[l])
        /\ \A v \in Worker \ {l} : cache'[v] = cache[v]
    BY DEF Fetch, Typed, TypeOK
  <1>3. fresh'[l] => tx'[l] # None /\ tx'[l] <= cache'[l]
    BY <1>1, <1>2 DEF Honest
  <1>4. CASE got' = got /\ Goto(l, miss)
    <2>1. /\ pc'[l] = miss
          /\ \A v \in Worker \ {l} : pc'[v] = pc[v]
      BY <1>4 DEF Goto, Typed, TypeOK
    <2>2. Honest(l)' /\ Alone(l)
      BY <1>1, <1>2, <1>3, <1>4, <2>1 DEF Honest, Alone
    <2> QED
      BY <2>2, AloneHonest, RowsKept DEF Honesty
  <1>5. ASSUME NEW day \in ProviderDays(l),
               got' = [got EXCEPT ![l][d] = day], Goto(l, "open")
        PROVE  Honesty'
    <2>1. /\ pc'[l] = "open"
          /\ \A v \in Worker \ {l} : pc'[v] = pc[v] /\ got'[v] = got[v]
      BY <1>5 DEF Goto, Typed, TypeOK
    <2>2. \A e \in Date : got'[l][e] \in {None, day}
      BY <1>1, <1>5 DEF Typed, TypeOK
    <2>3. fresh[l] => tx[l] # None /\ tx[l] <= day
      BY <1>1 DEF Honest, ProviderDays
    <2>4. Honest(l)' /\ Alone(l)
      BY <1>1, <1>2, <1>3, <2>1, <2>2, <2>3 DEF Honest, Alone
    <2> QED
      BY <2>4, AloneHonest, RowsKept DEF Honesty
  <1> QED
    BY <1>4, <1>5 DEF Fetch

LEMMA LookupHonest ==
  ASSUME Typed, Honesty, NEW l \in Looker, LookupStep(l)
  PROVE  Honesty'
  <1> l \in Worker /\ l \notin Syncer
    BY Workers, StoreAssumption
  <1>0. Honest(l) /\ tx[l] \in 0 .. LastDay
    BY DEF Honesty, Typed, TypeOK
  <1>1. ASSUME NEW c \in Code, NEW d \in Date, Ask(l, c, d)
        PROVE  Honesty'
    <2>1. /\ UNCHANGED <<today, rate, tx, got, cache, fresh>>
          /\ pc[l] = "idle" /\ Goto(l, "select")
      BY <1>1 DEF Ask, historyVars
    <2>2. Honest(l)' /\ Alone(l)
      BY <1>0, <2>1 DEF Goto, Honest, Alone, Typed, TypeOK
    <2> QED
      BY <2>1, <2>2, AloneHonest, RowsKept DEF Honesty
  <1>2. CASE SelectExact(l)
    <2>1. Begin(l) /\ UNCHANGED <<today, rate, cache, fresh>> /\ pc[l] = "select"
      BY <1>2 DEF SelectExact, historyVars
    <2>2. \/ Answered(l, asked[l])
          \/ Goto(l, "exact") /\ UNCHANGED got
      BY <1>2 DEF SelectExact
    <2>3. CASE Answered(l, asked[l])
      <3>1. Honest(l)'
        BY <1>0, <2>1, <2>3, BeginHonest, AnsweredLocal, IdleHonest
      <3>2. Alone(l)
        BY <1>0, <2>1, <2>3, BeginHonest, AnsweredLocal DEF Alone
      <3> QED
        BY <2>1, <3>1, <3>2, AloneHonest, RowsKept DEF Honesty
    <2>4. CASE Goto(l, "exact") /\ UNCHANGED got
      <3>1. pc'[l] = "exact" /\ \A v \in Worker \ {l} : pc'[v] = pc[v]
        BY <2>4 DEF Goto, Typed, TypeOK
      <3>2. Honest(l)'
        BY <1>0, <2>1, <2>4, <3>1, BeginHonest DEF Honest
      <3>3. Alone(l)
        BY <1>0, <2>1, <2>4, <3>1, BeginHonest DEF Alone
      <3> QED
        BY <2>1, <3>2, <3>3, AloneHonest, RowsKept DEF Honesty
    <2> QED
      BY <2>2, <2>3, <2>4
  <1>3. CASE FetchExact(l)
    BY <1>3, FetchHonest DEF FetchExact, historyVars
  <1>4. CASE SelectPrior(l)
    <2>1. UNCHANGED <<today, rate, cache, fresh>> /\ pc[l] = "prior"
      BY <1>4 DEF SelectPrior, historyVars
    <2>2. /\ tx'[l] <= today
          /\ tx[l] # None => tx'[l] = tx[l]
          /\ MayCarryForward(l) => tx'[l] # None
          /\ \A v \in Worker \ {l} : tx'[v] = tx[v]
      <3>1. CASE MayCarryForward(l)
        BY <1>0, <1>4, <3>1, BeginHonest DEF SelectPrior
      <3>2. CASE ~MayCarryForward(l)
        BY <1>0, <1>4, <3>2 DEF SelectPrior, Honest
      <3> QED
        BY <3>1, <3>2
    <2>3. \/ NotFound(l)
          \/ \E d \in PriorDates(l) : Answered(l, d)
          \/ Goto(l, "probe") /\ got' = got /\ MayCarryForward(l)
      BY <1>4 DEF SelectPrior
    <2>4. CASE NotFound(l) \/ \E d \in PriorDates(l) : Answered(l, d)
      <3>1. /\ pc'[l] = "idle" /\ \A d \in Date : got'[l][d] = None
            /\ \A v \in Worker \ {l} : pc'[v] = pc[v] /\ got'[v] = got[v]
        <4>1. CASE NotFound(l)
          BY <1>0, <2>1, <4>1 DEF NotFound, Goto, Honest, Typed, TypeOK
        <4>2. CASE \E d \in PriorDates(l) : Answered(l, d)
          BY <4>2, AnsweredLocal
        <4> QED
          BY <2>4, <4>1, <4>2
      <3>2. Honest(l)' /\ Alone(l)
        BY <1>0, <2>1, <2>2, <3>1, IdleHonest DEF Alone
      <3> QED
        BY <2>1, <3>2, AloneHonest, RowsKept DEF Honesty
    <2>5. CASE Goto(l, "probe") /\ got' = got /\ MayCarryForward(l)
      <3>1. pc'[l] = "probe" /\ \A v \in Worker \ {l} : pc'[v] = pc[v]
        BY <2>5 DEF Goto, Typed, TypeOK
      <3>2. Honest(l)'
        BY <1>0, <2>1, <2>2, <2>5, <3>1 DEF Honest
      <3>3. Alone(l)
        BY <2>1, <2>2, <2>5, <3>1 DEF Alone
      <3> QED
        BY <2>1, <3>2, <3>3, AloneHonest, RowsKept DEF Honesty
    <2> QED
      BY <2>3, <2>4, <2>5
  <1>5. CASE ProbePrior(l)
    BY <1>5, FetchHonest DEF ProbePrior, historyVars
  <1>6. CASE GiveUp(l)
    <2>1. /\ UNCHANGED <<today, rate, tx, cache, fresh, got>>
          /\ pc[l] = "probe" /\ Goto(l, "idle")
      BY <1>6 DEF GiveUp, NotFound, historyVars
    <2>2. pc'[l] = "idle" /\ \A v \in Worker \ {l} : pc'[v] = pc[v]
      BY <2>1 DEF Goto, Typed, TypeOK
    <2>3. Honest(l)' /\ Alone(l)
      BY <1>0, <2>1, <2>2 DEF Honest, Alone
    <2> QED
      BY <2>1, <2>3, AloneHonest, RowsKept DEF Honesty
  <1>7. CASE l \in Looker /\ OpenWrite(l)
    BY <1>7, OpenWriteHonest
  <1>8. CASE LookupWrite(l)
    <2>1. /\ UNCHANGED <<today, cache>>
          /\ tx' = [tx EXCEPT ![l] = None]
          /\ fresh' = [fresh EXCEPT ![l] = FALSE]
          /\ Answered(l, asked[l] - back[l])
      BY <1>8 DEF LookupWrite
    <2>2. RowsHonest'
      BY <1>8, UpsertHonest DEF LookupWrite
    <2>3. tx'[l] = None /\ fresh'[l] = FALSE
      BY <2>1 DEF Typed, TypeOK
    <2>4. Honest(l)'
      BY <2>1, <2>3, AnsweredLocal DEF Honest, None, Typed, TypeOK, Day
    <2>5. Alone(l)
      BY <2>1, AnsweredLocal DEF Alone, Typed, TypeOK
    <2> QED
      BY <2>2, <2>4, <2>5, AloneHonest DEF Honesty
  <1>9. CASE EndRequest(l)
    <2>1. /\ UNCHANGED <<today, rate, pc, got>> /\ pc[l] = "idle"
          /\ cache' = [cache EXCEPT ![l] = None]
          /\ tx' = [tx EXCEPT ![l] = None]
          /\ fresh' = [fresh EXCEPT ![l] = TRUE]
      BY <1>9 DEF EndRequest
    <2>2. cache'[l] = None /\ tx'[l] = None
      BY <2>1 DEF Typed, TypeOK
    <2>3. Honest(l)'
      BY <1>0, <2>1, <2>2 DEF Honest, None, Typed, TypeOK, Day
    <2>4. Alone(l)
      BY <2>1 DEF Alone, Typed, TypeOK
    <2> QED
      BY <2>1, <2>3, <2>4, AloneHonest, RowsKept DEF Honesty
  <1> QED
    BY <1>1, <1>2, <1>3, <1>4, <1>5, <1>6, <1>7, <1>8, <1>9 DEF LookupStep

\* A refresh has no early rows.
LEMMA RefreshHonest ==
  ASSUME Typed, Honesty, NEW r \in Refresher, RefreshStep(r)
  PROVE  Honesty'
  <1> r \in Worker /\ r \notin Syncer \cup Looker
    BY Workers, StoreAssumption
  <1>1. Alone(r)
    <2>1. ASSUME NEW c \in Code, NEW dates \in SUBSET Open,
                 NEW manual \in SUBSET Supplied, StartRefresh(r, c, dates, manual)
          PROVE  Alone(r)
      BY <2>1 DEF StartRefresh, Goto, historyVars, Alone, Typed, TypeOK
    <2>2. ASSUME NEW d \in Open, RefreshFetch(r, d)
          PROVE  Alone(r)
      BY <2>2 DEF RefreshFetch, Goto, historyVars, Alone, Typed, TypeOK
    <2>3. CASE RefreshFails(r)
      BY <2>3 DEF RefreshFails, Leave, Goto, Alone, Typed, TypeOK
    <2>4. CASE OpenWrite(r)
      BY <2>4 DEF OpenWrite, Begin, Goto, historyVars, Alone, Typed, TypeOK
    <2>5. CASE RefreshWrite(r)
      BY <2>5 DEF RefreshWrite, Leave, Goto, Alone, Typed, TypeOK
    <2> QED
      BY <2>1, <2>2, <2>3, <2>4, <2>5 DEF RefreshStep
  <1>2. RowsHonest'
    <2>1. CASE RefreshWrite(r)
      BY <2>1, UpsertHonest DEF RefreshWrite
    <2>2. CASE ~RefreshWrite(r)
      BY <2>2, RowsKept
      DEF RefreshStep, StartRefresh, RefreshFetch, RefreshFails, OpenWrite
    <2> QED
      BY <2>1, <2>2
  <1> QED
    BY <1>1, <1>2, AloneHonest DEF Honesty

LEMMA InitHonest == Init => Honesty
  <1> SUFFICES ASSUME Init PROVE Honesty
    OBVIOUS
  <1>1. RowsHonest
    BY DEF Init, RowsHonest, NoRow
  <1>2. ASSUME NEW w \in Syncer \cup Looker PROVE Honest(w)
    BY Workers DEF Init, Honest, None, Nothing
  <1> QED
    BY <1>1, <1>2 DEF Honesty

LEMMA NextHonest ==
  ASSUME Typed, Honesty, [Next]_vars
  PROVE  Honesty'
  <1>1. CASE UNCHANGED vars
    BY <1>1 DEF vars, workVars, historyVars, Honesty, RowsHonest, Honest
  <1>2. CASE Tick
    <2>1. today' = today + 1 /\ UNCHANGED <<rate, tx, pc, got, cache, fresh>>
      BY <1>2 DEF Tick, workVars, historyVars
    <2>2. ASSUME NEW w \in Syncer \cup Looker PROVE Honest(w)'
      <3>1. Honest(w) /\ tx[w] \in 0 .. LastDay /\ today \in Int
        BY Numbers, Workers DEF Honesty, Day, Typed, TypeOK
      <3> QED
        BY <2>1, <3>1, Numbers DEF Honest
    <2> QED
      BY <2>1, <2>2, RowsKept DEF Honesty
  <1>3. ASSUME NEW s \in Syncer, StartSync(s) \/ SyncStep(s) \/ SyncDies(s)
        PROVE  Honesty'
    BY <1>3, SyncHonest, SyncFetchHonest, SyncWriteHonest, OpenWriteHonest
    DEF SyncStep
  <1> QED
    BY <1>1, <1>2, <1>3, LookupHonest, RefreshHonest DEF Next

LEMMA HonestyShows ==
  ASSUME Typed, Honesty
  PROVE  FirstTransactionIsHonest
  <1> SUFFICES ASSUME NEW c \in Code, NEW d \in Date,
                      Confirmed(c, d), rate[c][d].early
               PROVE  Final(c, d)
    BY DEF FirstTransactionIsHonest
  <1>1. /\ rate[c][d].stamp \in Int /\ rate[c][d].fetched \in Int /\ d \in Int
        /\ rate[c][d].stamp <= rate[c][d].fetched
    BY Numbers
    DEF Honesty, RowsHonest, Typed, TypeOK, Row, Value, ByHand, Date
  <1>2. Stored(c, d) /\ rate[c][d].stamp > d
    BY <1>1 DEF Confirmed, Unconfirmed
  <1> QED
    BY <1>1, <1>2 DEF Final

\* Of a row that the first transaction of a sync or of a lookup session wrote,
\* created_at may be trusted: where it says that the day was over, the value
\* was fetched after that day.
THEOREM FirstHonest == Spec => []FirstTransactionIsHonest
  BY Types, InitTyped, InitHonest, NextHonest, HonestyShows, PTL DEF Spec

-----------------------------------------------------------------------------
\* Values carried forward

\* A lookup is back in time only for a date that is not in the future.
CarriesBack(l) ==
    /\ pc[l] = "probe" => asked[l] <= today
    /\ pc[l] \in {"open", "write"} /\ back[l] # 0 => asked[l] <= today
    /\ pc[l] \notin {"open", "write", "probe"} => back[l] = 0

AnswerIsExact(l) ==
    LET a == answer[l] IN
    a.given # a.asked =>
        /\ a.asked <= a.on
        /\ a.given \in a.asked - ProbeDays .. a.asked - 1

Carrying ==
    /\ FutureAnswersAreExact
    /\ \A l \in Looker : CarriesBack(l)

\* What a step leaves alone of every looker but u.
Unasked(u) ==
    /\ today' \in {today, today + 1}
    /\ \A l \in Looker \ {u} : /\ pc'[l] = pc[l]
                               /\ asked'[l] = asked[l]
                               /\ back'[l] = back[l]
                               /\ answer'[l] = answer[l]

LEMMA UnaskedCarries ==
  ASSUME Typed, Carrying, NEW u, Unasked(u),
         u \in Looker => CarriesBack(u)' /\ AnswerIsExact(u)'
  PROVE  Carrying'
  <1>1. ASSUME NEW l \in Looker, l # u
        PROVE  CarriesBack(l)' /\ AnswerIsExact(l)'
    <2>1. /\ l \in Worker
          /\ asked[l] \in Int /\ today \in Int
      BY Workers, Numbers DEF Typed, TypeOK, Date, Day
    <2>2. CarriesBack(l) /\ AnswerIsExact(l)
      BY DEF Carrying, FutureAnswersAreExact, AnswerIsExact
    <2>3. today' \in Int /\ today' >= today
      BY <2>1 DEF Unasked
    <2>4. /\ pc'[l] = pc[l] /\ asked'[l] = asked[l]
          /\ back'[l] = back[l] /\ answer'[l] = answer[l]
      BY <1>1 DEF Unasked
    <2>5. AnswerIsExact(l)'
      BY <2>2, <2>4 DEF AnswerIsExact
    <2> QED
      BY <2>1, <2>2, <2>3, <2>4, <2>5 DEF CarriesBack
  <1>2. \A l \in Looker : CarriesBack(l)' /\ AnswerIsExact(l)'
    BY <1>1
  <1> QED
    BY <1>2 DEF Carrying, FutureAnswersAreExact, AnswerIsExact

LEMMA AnsweredCarries ==
  ASSUME Typed, NEW l \in Looker, NEW given, Answered(l, given),
         today' = today,
         given = asked[l] \/ (/\ asked[l] <= today
                              /\ given \in asked[l] - ProbeDays .. asked[l] - 1)
  PROVE  CarriesBack(l)' /\ AnswerIsExact(l)' /\ Unasked(l)
  <1>1. l \in Worker
    BY Workers
  <1>2. /\ pc'[l] = "idle" /\ back'[l] = 0
        /\ answer'[l] = [asked |-> asked[l], given |-> given, on |-> today]
    BY <1>1 DEF Answered, Goto, Typed, TypeOK
  <1>3. CarriesBack(l)'
    BY <1>2 DEF CarriesBack
  <1>4. AnswerIsExact(l)'
    BY <1>2 DEF AnswerIsExact
  <1>5. Unasked(l)
    BY Workers DEF Answered, Goto, Unasked, Typed, TypeOK
  <1> QED
    BY <1>3, <1>4, <1>5

LEMMA NotFoundCarries ==
  ASSUME Typed, Carrying, NEW l \in Looker, NotFound(l), today' = today
  PROVE  CarriesBack(l)' /\ AnswerIsExact(l)' /\ Unasked(l)
  <1>1. pc'[l] = "idle" /\ back'[l] = 0 /\ answer' = answer
    BY Workers DEF NotFound, Goto, Typed, TypeOK
  <1>2. CarriesBack(l)' /\ AnswerIsExact(l)'
    BY <1>1 DEF CarriesBack, AnswerIsExact, Carrying, FutureAnswersAreExact
  <1>3. Unasked(l)
    BY Workers DEF NotFound, Goto, Unasked, Typed, TypeOK
  <1> QED
    BY <1>2, <1>3

LEMMA LookupCarries ==
  ASSUME Typed, Carrying, NEW l \in Looker, LookupStep(l)
  PROVE  Carrying'
  <1> l \in Worker
    BY Workers
  <1>0. /\ CarriesBack(l) /\ AnswerIsExact(l)
        /\ asked[l] \in Int /\ back[l] \in 0 .. ProbeDays
        /\ ProbeDays \in Nat
    BY Numbers DEF Carrying, FutureAnswersAreExact, AnswerIsExact,
                   Typed, TypeOK, Date
  <1> SUFFICES CarriesBack(l)' /\ AnswerIsExact(l)' /\ Unasked(l)
    BY UnaskedCarries
  <1>1. ASSUME NEW c \in Code, NEW d \in Date, Ask(l, c, d)
        PROVE  CarriesBack(l)' /\ AnswerIsExact(l)' /\ Unasked(l)
    <2>1. /\ pc'[l] = "select" /\ pc[l] = "idle" /\ back' = back
          /\ answer'[l] = NoAnswer
      BY <1>1 DEF Ask, Goto, Typed, TypeOK
    <2>2. Unasked(l)
      BY <1>1, Workers DEF Ask, Goto, Unasked, Typed, TypeOK
    <2> QED
      BY <1>0, <2>1, <2>2 DEF CarriesBack, AnswerIsExact, NoAnswer
  <1>2. CASE SelectExact(l)
    <2>1. CASE Stored(Head(queue[l]), asked[l])
      BY <1>2, <2>1, AnsweredCarries DEF SelectExact
    <2>2. CASE ~Stored(Head(queue[l]), asked[l])
      <3>1. /\ pc[l] = "select" /\ Goto(l, "exact")
            /\ UNCHANGED <<today, clientVars>>
        BY <1>2, <2>2 DEF SelectExact
      <3>2. pc'[l] = "exact"
        BY <3>1 DEF Goto, Typed, TypeOK
      <3> QED
        BY <1>0, <3>1, <3>2, Workers
        DEF Goto, clientVars, CarriesBack, AnswerIsExact, Unasked, Typed, TypeOK
    <2> QED
      BY <2>1, <2>2
  <1>3. CASE FetchExact(l)
    <2>1. /\ pc[l] = "exact" /\ UNCHANGED <<today, clientVars>>
          /\ Goto(l, "open") \/ Goto(l, "prior")
      BY <1>3 DEF FetchExact, Fetch
    <2>2. pc'[l] \in {"open", "prior"}
      BY <2>1 DEF Goto, Typed, TypeOK
    <2> QED
      BY <1>0, <2>1, <2>2, Workers
      DEF Goto, clientVars, CarriesBack, AnswerIsExact, Unasked, Typed, TypeOK
  <1>4. CASE SelectPrior(l)
    <2>1. pc[l] = "prior" /\ today' = today
      BY <1>4 DEF SelectPrior
    <2>2. CASE ~MayCarryForward(l)
      BY <1>4, <2>1, <2>2, NotFoundCarries DEF SelectPrior
    <2>3. CASE MayCarryForward(l) /\ PriorDates(l) # {}
      <3>1. PICK d \in PriorDates(l) : Answered(l, d)
        BY <1>4, <2>3 DEF SelectPrior
      <3>2. d \in asked[l] - ProbeDays .. asked[l] - 1 /\ asked[l] <= today
        BY <1>0, <2>3, Numbers DEF PriorDates, MayCarryForward, Date
      <3> QED
        BY <2>1, <3>1, <3>2, AnsweredCarries
    <2>4. CASE MayCarryForward(l) /\ PriorDates(l) = {}
      <3>1. /\ Goto(l, "probe") /\ back' = [back EXCEPT ![l] = 0]
            /\ UNCHANGED <<asked, answer>>
        BY <1>4, <2>4 DEF SelectPrior
      <3>2. pc'[l] = "probe" /\ asked[l] <= today
        BY <2>4, <3>1 DEF Goto, MayCarryForward, Typed, TypeOK
      <3> QED
        BY <1>0, <2>1, <3>1, <3>2, Workers
        DEF Goto, CarriesBack, AnswerIsExact, Unasked, Typed, TypeOK
    <2> QED
      BY <2>2, <2>3, <2>4
  <1>5. CASE ProbePrior(l)
    <2>1. /\ pc[l] = "probe" /\ UNCHANGED <<today, asked, answer>>
          /\ back' = [back EXCEPT ![l] = @ + 1]
          /\ Goto(l, "open") \/ Goto(l, "probe")
      BY <1>5 DEF ProbePrior, Fetch
    <2>2. pc'[l] \in {"open", "probe"}
      BY <2>1 DEF Goto, Typed, TypeOK
    <2> QED
      BY <1>0, <2>1, <2>2, Workers
      DEF Goto, CarriesBack, AnswerIsExact, Unasked, Typed, TypeOK
  <1>6. CASE GiveUp(l)
    BY <1>6, NotFoundCarries DEF GiveUp
  <1>7. CASE l \in Looker /\ OpenWrite(l)
    <2>1. /\ pc[l] = "open" /\ UNCHANGED <<today, clientVars>>
          /\ Goto(l, "write")
      BY <1>7 DEF OpenWrite
    <2>2. pc'[l] = "write"
      BY <2>1 DEF Goto, Typed, TypeOK
    <2> QED
      BY <1>0, <2>1, <2>2, Workers
      DEF Goto, clientVars, CarriesBack, AnswerIsExact, Unasked, Typed, TypeOK
  <1>8. CASE LookupWrite(l)
    <2>1. /\ pc[l] = "write" /\ today' = today
          /\ Answered(l, asked[l] - back[l])
      BY <1>8 DEF LookupWrite
    <2>2. back[l] # 0 => asked[l] <= today
      BY <1>0, <2>1 DEF CarriesBack
    <2>3. \/ asked[l] - back[l] = asked[l]
          \/ asked[l] - back[l] \in asked[l] - ProbeDays .. asked[l] - 1
             /\ back[l] # 0
      BY <1>0
    <2> QED
      BY <2>1, <2>2, <2>3, AnsweredCarries
  <1>9. CASE EndRequest(l)
    <2>1. UNCHANGED <<today, pc, asked, back>> /\ answer'[l] = NoAnswer
      BY <1>9 DEF EndRequest, Typed, TypeOK
    <2>2. Unasked(l)
      BY <1>9, Workers DEF EndRequest, Unasked, Typed, TypeOK
    <2> QED
      BY <1>0, <2>1, <2>2 DEF CarriesBack, AnswerIsExact, NoAnswer
  <1> QED
    BY <1>1, <1>2, <1>3, <1>4, <1>5, <1>6, <1>7, <1>8, <1>9 DEF LookupStep

\* Syncs and refreshes ask nothing.
LEMMA OthersCarry ==
  ASSUME Typed, Carrying, NEW u \in Syncer \cup Refresher,
         UNCHANGED <<today, clientVars>>,
         \A w \in Worker \ {u} : pc'[w] = pc[w]
  PROVE  Carrying'
  <1>1. u \notin Looker
    BY StoreAssumption
  <1>2. Unasked(u)
    BY <1>1, Workers DEF Unasked, clientVars
  <1> QED
    BY <1>1, <1>2, UnaskedCarries

LEMMA InitCarries == Init => Carrying
  <1> SUFFICES ASSUME Init PROVE Carrying
    OBVIOUS
  <1>1. ASSUME NEW l \in Looker
        PROVE  CarriesBack(l) /\ answer[l] = NoAnswer
    BY Workers DEF Init, CarriesBack
  <1> QED
    BY <1>1 DEF Carrying, FutureAnswersAreExact, NoAnswer

LEMMA NextCarries ==
  ASSUME Typed, Carrying, [Next]_vars
  PROVE  Carrying'
  <1>1. CASE UNCHANGED vars
    BY <1>1 DEF vars, workVars, clientVars, Carrying, CarriesBack,
                FutureAnswersAreExact
  <1>2. CASE Tick
    <2>1. Unasked(0) /\ \A l \in Looker : Unasked(l)
      BY <1>2 DEF Tick, workVars, clientVars, Unasked
    <2>2. ASSUME NEW l \in Looker
          PROVE  CarriesBack(l)' /\ AnswerIsExact(l)'
      <3>1. /\ CarriesBack(l) /\ AnswerIsExact(l)
            /\ asked[l] \in Int /\ today \in Int
        BY Workers, Numbers DEF Carrying, FutureAnswersAreExact, AnswerIsExact,
                                Typed, TypeOK, Date, Day
      <3>2. /\ today' = today + 1
            /\ UNCHANGED <<pc, asked, back, answer>>
        BY <1>2 DEF Tick, workVars, clientVars
      <3> QED
        BY <3>1, <3>2 DEF CarriesBack, AnswerIsExact
    <2> QED
      BY <2>1, <2>2, UnaskedCarries
  <1>3. ASSUME NEW s \in Syncer, StartSync(s) \/ SyncStep(s) \/ SyncDies(s)
        PROVE  Carrying'
    <2>1. UNCHANGED <<today, clientVars>>
      BY <1>3 DEF StartSync, SyncStep, SyncDies, CollectMissing, SyncFetch,
                  OpenWrite, SyncWrite
    <2>2. \A w \in Worker \ {s} : pc'[w] = pc[w]
      BY <1>3, Workers
      DEF StartSync, SyncStep, SyncDies, CollectMissing, SyncFetch, OpenWrite,
          SyncWrite, NextCode, Leave, Goto, Typed, TypeOK
    <2> QED
      BY <2>1, <2>2, OthersCarry
  <1>4. ASSUME NEW r \in Refresher, RefreshStep(r)
        PROVE  Carrying'
    <2>1. UNCHANGED <<today, clientVars>>
      BY <1>4 DEF RefreshStep, StartRefresh, RefreshFetch, RefreshFails,
                  OpenWrite, RefreshWrite
    <2>2. \A w \in Worker \ {r} : pc'[w] = pc[w]
      BY <1>4, Workers
      DEF RefreshStep, StartRefresh, RefreshFetch, RefreshFails, OpenWrite,
          RefreshWrite, Leave, Goto, Typed, TypeOK
    <2> QED
      BY <2>1, <2>2, OthersCarry
  <1> QED
    BY <1>1, <1>2, <1>3, <1>4, LookupCarries DEF Next

\* A value is carried forward from an earlier date only to a date that is not
\* in the future, and never over more days than the lookback window: a date in
\* the future gets a published value or none.
THEOREM FutureIsExact == Spec => []FutureAnswersAreExact
  <1>1. Carrying => FutureAnswersAreExact
    BY DEF Carrying
  <1> QED
    BY <1>1, Types, InitCarries, NextCarries, PTL DEF Spec


-----------------------------------------------------------------------------
\* Confirmed rows that a sync writes over

Losing(s) ==
    \A c \in Code : Collected(s, c) =>
        \A d \in want[s][c] : Confirmed(c, d) => <<c, d>> \in missed[s]

\* What a step of somebody else leaves alone of s.
Aside(s) == /\ pc'[s] = pc[s]
            /\ queue'[s] = queue[s]
            /\ want'[s] = want[s]

LEMMA AsideCollected ==
  ASSUME NEW s, NEW c, Aside(s)
  PROVE  Collected(s, c)' <=> Collected(s, c)
  BY DEF Aside, Collected

LEMMA QuietLosing ==
  ASSUME NEW s \in Syncer, Losing(s), Aside(s), UNCHANGED rate,
         missed'[s] = missed[s]
  PROVE  Losing(s)'
  BY AsideCollected DEF Aside, Losing, Confirmed, Unconfirmed, Stored

\* What an upsert does to the other syncs, and to the other codes.
LEMMA UpsertRows ==
  ASSUME Typed, NEW w \in Worker, pc[w] = "write", Upsert(w, Head(queue[w])),
         NEW c \in Code, NEW d \in Date
  PROVE  \/ rate'[c][d] = rate[c][d]
         \/ c = Head(queue[w]) /\ got[w][d] # None
  <1>1. Head(queue[w]) \in Code
    BY HeadIsCode DEF Typed, TypeOK
  <1>2. rate' = [rate EXCEPT ![Head(queue[w])] = [e \in Date |->
                    IF got[w][e] = None THEN @[e] ELSE Entry(w, e)]]
    BY DEF Upsert
  <1>3. CASE c = Head(queue[w])
    BY <1>1, <1>2, <1>3 DEF Typed, TypeOK
  <1>4. CASE c # Head(queue[w])
    BY <1>1, <1>2, <1>4 DEF Typed, TypeOK
  <1> QED
    BY <1>3, <1>4

LEMMA UpsertLosing ==
  ASSUME Typed, NEW s \in Syncer, NEW w \in Worker, w # s, Losing(s), Aside(s),
         pc[w] = "write", Upsert(w, Head(queue[w]))
  PROVE  Losing(s)'
  <1> SUFFICES ASSUME NEW c \in Code, Collected(s, c)',
                      NEW d \in want'[s][c], Confirmed(c, d)'
               PROVE  <<c, d>> \in missed'[s]
    BY DEF Losing
  <1>1. want'[s][c] = want[s][c] /\ d \in Date
    BY Workers DEF Aside, Typed, TypeOK
  <1>2. missed'[s] = missed[s] \cup
           {<<Head(queue[w]), e>> : e \in {f \in want[s][Head(queue[w])] :
                                             got[w][f] # None}}
    BY DEF Upsert
  <1>3. CASE rate'[c][d] = rate[c][d]
    <2>1. Confirmed(c, d) /\ Collected(s, c)
      BY <1>3, AsideCollected DEF Confirmed, Unconfirmed, Stored
    <2> QED
      BY <1>1, <1>2, <2>1 DEF Losing
  <1>4. CASE c = Head(queue[w]) /\ got[w][d] # None
    BY <1>1, <1>2, <1>4
  <1> QED
    BY <1>1, <1>3, <1>4, UpsertRows

\* The codes behind the head of a queue.
LEMMA BehindHead ==
  ASSUME NEW q \in Seq(Code), Len(q) > 1, NEW c,
         c \in {q[i] : i \in 1 .. Len(q)}
  PROVE  c = Head(q) \/ c \in {Tail(q)[i] : i \in 1 .. Len(Tail(q))}
  <1>1. PICK i \in 1 .. Len(q) : c = q[i]
    OBVIOUS
  <1>2. CASE i = 1
    BY <1>1, <1>2
  <1>3. CASE i # 1
    <2>1. i - 1 \in 1 .. Len(Tail(q)) /\ Tail(q)[i - 1] = q[i]
      BY <1>3
    <2> QED
      BY <1>1, <2>1
  <1> QED
    BY <1>2, <1>3

LEMMA CollectLosing ==
  ASSUME Typed, NEW s \in Syncer, Losing(s), CollectMissing(s)
  PROVE  Losing(s)'
  <1> DEFINE h == Head(queue[s])
  <1>0. /\ s \in Worker /\ pc[s] = "collect" /\ queue[s] \in Seq(Code)
        /\ queue[s] # <<>> /\ h \in Code
        /\ want[s] \in [Code -> SUBSET Date]
    BY Workers, HeadIsCode DEF CollectMissing, Typed, TypeOK
  <1>1. /\ want'[s][h] = {d \in want[s][h] : ~Confirmed(h, d)}
        /\ \A c \in Code \ {h} : want'[s][c] = want[s][c]
        /\ UNCHANGED <<rate, missed>>
    BY <1>0 DEF CollectMissing, historyVars, Typed, TypeOK
  <1>2. ASSUME NEW c \in Code \ {h}, Collected(s, c)'
        PROVE  Collected(s, c)
    <2>1. CASE Len(queue[s]) > 1
      <3>1. pc'[s] = "collect" /\ queue'[s] = Tail(queue[s])
        BY <1>0, <2>1 DEF CollectMissing, Goto, Typed, TypeOK
      <3>2. c \notin {Tail(queue[s])[i] : i \in 1 .. Len(Tail(queue[s]))}
        BY <1>2, <3>1 DEF Collected
      <3>3. c \notin {queue[s][i] : i \in 1 .. Len(queue[s])}
        BY <1>0, <1>2, <2>1, <3>2, BehindHead
      <3> QED
        BY <1>0, <3>3 DEF Collected
    <2>2. CASE ~(Len(queue[s]) > 1)
      <3>1. \A i \in 1 .. Len(queue[s]) : queue[s][i] = h
        BY <1>0, <2>2
      <3> QED
        BY <1>0, <1>2, <3>1 DEF Collected
    <2> QED
      BY <2>1, <2>2
  <1> SUFFICES ASSUME NEW c \in Code, Collected(s, c)',
                      NEW d \in want'[s][c], Confirmed(c, d)'
               PROVE  <<c, d>> \in missed'[s]
    BY DEF Losing
  <1>3. Confirmed(c, d)
    BY <1>1 DEF Confirmed, Unconfirmed, Stored
  <1>4. c # h
    BY <1>1, <1>3
  <1> QED
    BY <1>1, <1>2, <1>3, <1>4 DEF Losing

\* A code that is done is wanted no more, whatever is forgotten with it.
LEMMA NextCodeLosing ==
  ASSUME Typed, NEW s \in Syncer, Losing(s), pc[s] \in {"fetch", "write"},
         NextCode(s), missed'[s] = Others(s, Head(queue[s])),
         \A c \in Code \ {Head(queue[s])} : rate'[c] = rate[c]
  PROVE  Losing(s)'
  <1> DEFINE h == Head(queue[s])
  <1>0. /\ s \in Worker /\ want[s] \in [Code -> SUBSET Date]
        /\ h \in Code
    BY Workers, HeadIsCode DEF Typed, TypeOK
  <1>1. /\ want'[s][h] = {}
        /\ \A c \in Code \ {h} : want'[s][c] \in {want[s][c], {}}
    BY <1>0 DEF NextCode, Typed, TypeOK
  <1> SUFFICES ASSUME NEW c \in Code, NEW d \in want'[s][c], Confirmed(c, d)'
               PROVE  <<c, d>> \in missed'[s]
    BY DEF Losing
  <1>2. c # h /\ d \in want[s][c]
    BY <1>1
  <1>3. Confirmed(c, d) /\ Collected(s, c)
    BY <1>2 DEF Confirmed, Unconfirmed, Stored, Collected
  <1>4. <<c, d>> \in missed[s]
    BY <1>2, <1>3 DEF Losing
  <1> QED
    BY <1>2, <1>4 DEF Others

LEMMA NothingWantedLosing ==
  ASSUME NEW s \in Syncer, \A c \in Code : want'[s][c] = {}
  PROVE  Losing(s)'
  BY DEF Losing

\* Every code is to be collected when a sync begins.
LEMMA StartLosing ==
  ASSUME Typed, NEW s \in Syncer, StartSync(s)
  PROVE  Losing(s)'
  <1>1. pc'[s] = "collect" /\ queue'[s] = Codes
    BY Workers DEF StartSync, Goto, Typed, TypeOK
  <1>2. \A c \in Code : ~Collected(s, c)'
    BY <1>1 DEF Collected, Code
  <1> QED
    BY <1>2 DEF Losing

LEMMA SyncLosing ==
  ASSUME Typed, NEW s \in Syncer, Losing(s),
         StartSync(s) \/ SyncStep(s) \/ SyncDies(s)
  PROVE  Losing(s)'
  <1> s \in Worker
    BY Workers
  <1>1. ASSUME NEW dates \in SUBSET Open, SyncFetch(s, dates)
        PROVE  Losing(s)'
    <2>1. CASE dates # {}
      <3>1. /\ pc[s] = "fetch" /\ pc'[s] = "open"
            /\ UNCHANGED <<rate, want, queue, missed>>
        BY <1>1, <2>1 DEF SyncFetch, Goto, historyVars, Typed, TypeOK
      <3>2. \A c \in Code : Collected(s, c)
        BY <3>1 DEF Collected
      <3> QED
        BY <3>1, <3>2 DEF Losing, Confirmed, Unconfirmed, Stored
    <2>2. CASE dates = {}
      <3>1. /\ pc[s] = "fetch" /\ NextCode(s) /\ UNCHANGED rate
            /\ missed' = [missed EXCEPT ![s] = Others(s, Head(queue[s]))]
        BY <1>1, <2>2 DEF SyncFetch
      <3>2. missed'[s] = Others(s, Head(queue[s]))
        BY <3>1 DEF Typed, TypeOK
      <3> QED
        BY <3>1, <3>2, NextCodeLosing
    <2> QED
      BY <2>1, <2>2
  <1>2. CASE OpenWrite(s)
    <2>1. /\ pc[s] = "open" /\ pc'[s] = "write"
          /\ UNCHANGED <<rate, want, queue, missed>>
      BY <1>2 DEF OpenWrite, Goto, historyVars, Typed, TypeOK
    <2>2. \A c \in Code : Collected(s, c)
      BY <2>1 DEF Collected
    <2> QED
      BY <2>1, <2>2 DEF Losing, Confirmed, Unconfirmed, Stored
  <1>3. CASE SyncWrite(s)
    <2>1. /\ pc[s] = "write" /\ NextCode(s)
          /\ Upsert(s, Head(queue[s]))
      BY <1>3 DEF SyncWrite
    <2>2. missed'[s] = Others(s, Head(queue[s]))
      BY <2>1 DEF Upsert
    <2>3. \A c \in Code \ {Head(queue[s])} : rate'[c] = rate[c]
      BY <2>1 DEF Upsert, Typed, TypeOK
    <2> QED
      BY <2>1, <2>2, <2>3, NextCodeLosing
  <1>4. CASE SyncDies(s)
    <2>1. \A c \in Code : want'[s][c] = {}
      BY <1>4 DEF SyncDies, Leave, Typed, TypeOK
    <2> QED
      BY <2>1, NothingWantedLosing
  <1> QED
    BY <1>1, <1>2, <1>3, <1>4, StartLosing, CollectLosing DEF SyncStep

\* Steps of others: an upsert, or nothing that concerns s.
LEMMA OtherSyncLosing ==
  ASSUME Typed, NEW s \in Syncer, Losing(s), NEW v \in Syncer \ {s},
         StartSync(v) \/ SyncStep(v) \/ SyncDies(v)
  PROVE  Losing(s)'
  <1> v \in Worker /\ s \in Worker
    BY Workers
  <1>1. Aside(s)
    BY DEF StartSync, SyncStep, SyncDies, CollectMissing, SyncFetch, OpenWrite,
           SyncWrite, NextCode, Leave, Goto, Aside, Typed, TypeOK
  <1>2. CASE SyncWrite(v)
    BY <1>1, <1>2, UpsertLosing DEF SyncWrite
  <1>3. CASE ~SyncWrite(v)
    <2>1. UNCHANGED rate
      BY <1>3 DEF StartSync, SyncStep, SyncDies, CollectMissing, SyncFetch,
                  OpenWrite
    <2>2. missed'[s] = missed[s]
      BY <1>3 DEF StartSync, SyncStep, SyncDies, CollectMissing, SyncFetch,
                  OpenWrite, historyVars, Typed, TypeOK
    <2> QED
      BY <1>1, <2>1, <2>2, QuietLosing
  <1> QED
    BY <1>2, <1>3

LEMMA LookupLosing ==
  ASSUME Typed, NEW s \in Syncer, Losing(s), NEW l \in Looker, LookupStep(l)
  PROVE  Losing(s)'
  <1> l \in Worker /\ s \in Worker /\ l # s
    BY Workers, StoreAssumption
  <1>1. UNCHANGED want
    BY DEF LookupStep, Ask, SelectExact, FetchExact, SelectPrior, ProbePrior,
           GiveUp, OpenWrite, LookupWrite, EndRequest
  <1>2. pc'[s] = pc[s] /\ queue'[s] = queue[s]
    BY DEF LookupStep, Ask, SelectExact, FetchExact, SelectPrior, ProbePrior,
           GiveUp, OpenWrite, LookupWrite, EndRequest, Answered, NotFound,
           Fetch, Goto, Typed, TypeOK
  <1>3. Aside(s)
    BY <1>1, <1>2 DEF Aside
  <1>4. CASE LookupWrite(l)
    BY <1>3, <1>4, UpsertLosing DEF LookupWrite
  <1>5. CASE ~LookupWrite(l)
    <2>1. UNCHANGED <<rate, missed>>
      BY <1>5 DEF LookupStep, Ask, SelectExact, FetchExact, SelectPrior,
                  ProbePrior, GiveUp, OpenWrite, EndRequest, historyVars
    <2> QED
      BY <1>3, <2>1, QuietLosing
  <1> QED
    BY <1>4, <1>5

LEMMA RefreshLosing ==
  ASSUME Typed, NEW s \in Syncer, Losing(s), NEW r \in Refresher,
         RefreshStep(r)
  PROVE  Losing(s)'
  <1> r \in Worker /\ s \in Worker /\ r # s
    BY Workers, StoreAssumption
  <1>1. Aside(s)
    BY DEF RefreshStep, StartRefresh, RefreshFetch, RefreshFails, OpenWrite,
           RefreshWrite, Leave, Goto, Aside, Typed, TypeOK
  <1>2. CASE RefreshWrite(r)
    BY <1>1, <1>2, UpsertLosing DEF RefreshWrite
  <1>3. CASE ~RefreshWrite(r)
    <2>1. UNCHANGED <<rate, missed>>
      BY <1>3 DEF RefreshStep, StartRefresh, RefreshFetch, RefreshFails,
                  OpenWrite, historyVars
    <2> QED
      BY <1>1, <2>1, QuietLosing
  <1> QED
    BY <1>2, <1>3

LEMMA InitLosing == Init => ConfirmedLostToRacesOnly
  BY Workers DEF Init, ConfirmedLostToRacesOnly

LEMMA NextLosing ==
  ASSUME Typed, ConfirmedLostToRacesOnly, [Next]_vars
  PROVE  ConfirmedLostToRacesOnly'
  <1> SUFFICES ASSUME NEW s \in Syncer PROVE Losing(s)'
    BY DEF ConfirmedLostToRacesOnly, Losing
  <1>0. Losing(s)
    BY DEF ConfirmedLostToRacesOnly, Losing
  <1>1. CASE UNCHANGED vars
    BY <1>0, <1>1, QuietLosing DEF vars, workVars, historyVars, Aside
  <1>2. CASE Tick
    BY <1>0, <1>2, QuietLosing DEF Tick, workVars, historyVars, Aside
  <1>3. ASSUME NEW v \in Syncer, StartSync(v) \/ SyncStep(v) \/ SyncDies(v)
        PROVE  Losing(s)'
    BY <1>0, <1>3, SyncLosing, OtherSyncLosing
  <1> QED
    BY <1>0, <1>1, <1>2, <1>3, LookupLosing, RefreshLosing DEF Next

\* A sync writes over a row that was confirmed when it looked for gaps only if
\* somebody has written the row since.
THEOREM LostToRacesOnly == Spec => []ConfirmedLostToRacesOnly
  BY Types, InitLosing, NextLosing, PTL DEF Spec

=============================================================================

------------------------------ MODULE RateStore ------------------------------
(***************************************************************************)
(* Daily exchange rates: the table RAT_EXCH_RATE with its created_at, the  *)
(* providers, and the three use cases that write it while days pass:       *)
(* SyncRecentMarketData, GetExchangeRateValue and RefreshRates.            *)
(*                                                                         *)
(* Until the day d is over the providers may publish a preliminary value   *)
(* for d.  The service does not store when a value was fetched; it derives *)
(* it from created_at, which PostgreSQL's now() sets to the beginning of   *)
(* the writing transaction.  A row whose created_at is on or before its    *)
(* own date is unconfirmed and fetched again by the next sync, any other   *)
(* row is never fetched again.  Hence the question of this module: can a   *)
(* preliminary value get a later created_at?                               *)
(*                                                                         *)
(* Time is counted in Chilean days; a value is the day it was fetched on,  *)
(* or ByHand when a client supplied it.                                    *)
(***************************************************************************)
EXTENDS Integers, Sequences, FiniteSets

CONSTANTS
    Codes,        \* sequence of currency codes, in the order a sync runs them
    ForwardCodes, \* FORWARD_DAILY_RATE_CODES
    Syncer,       \* runs of POST /sync and of the startup sync
    Looker,       \* requests that resolve values, one provider chain each
    Refresher,    \* runs of POST /exchange-rates/refresh
    Lookback,     \* lookback_days of a sync
    Forward,      \* forward_days of a sync
    ProbeDays,    \* MAX_PROVIDER_LOOKBACK_DAYS
    LastDay,      \* bound: days run from 1 to LastDay
    MaxLookups,   \* bound: values resolved by one request
    MaxDeaths,    \* bound: syncs that die on the way
    Open,         \* dates the providers ever publish (no weekends, no gaps)
    Supplied      \* bound: dates that clients supply values for by hand

FirstDate == 1 - (IF Lookback > ProbeDays THEN Lookback ELSE ProbeDays)
Day  == 1 .. LastDay
Date == FirstDate .. LastDay + 1 + Forward
Code == {Codes[i] : i \in 1 .. Len(Codes)}
Worker == Syncer \cup Looker \cup Refresher

ASSUME StoreAssumption ==
    /\ Codes \in Seq(Code)
    /\ Len(Codes) > 0
    /\ ForwardCodes \subseteq Code
    /\ {Lookback, Forward, ProbeDays, LastDay, MaxLookups, MaxDeaths}
          \subseteq Nat
    /\ Lookback > 0
    /\ LastDay > 0
    /\ Open \subseteq Date
    /\ Supplied \subseteq Date
    /\ Syncer \cap Looker = {} /\ Syncer \cap Refresher = {}
    /\ Looker \cap Refresher = {}

None == 0                        \* no day
ByHand == LastDay + Forward + 2  \* a manual entry, later than every date
Value == 0 .. LastDay \cup {ByHand}

VARIABLES
    today,        \* the current day in America/Santiago
    rate,         \* rate[c][d]: the row of c and d
    pc,           \* pc[w]: the next statement of worker w
    tx,           \* tx[w]: the day its open transaction began, or None
    queue,        \* queue[w]: the codes w still works on, the current one first
    want,         \* want[w][c]: the dates w will ask the providers for
    got,          \* got[w][d]: the day w fetched d on for the current code
    cache,        \* cache[w]: the day w first read the provider's series
    asked,        \* asked[w]: the date being resolved
    back,         \* back[w]: days back of the next probe
    lookups,      \* lookups[w]: values resolved so far (bound)
    answer,       \* answer[w]: the last answer, for properties
    deaths,       \* syncs that died so far (bound)
    \* History, read by properties only:
    fresh,        \* fresh[w]: the session of w has not committed yet
    missed        \* missed[s]: rows sync s wants that others wrote meanwhile

historyVars == <<fresh, missed>>
clientVars == <<asked, back, lookups, answer>>
workVars   == <<pc, tx, queue, want, got, cache>>
vars == <<today, rate, workVars, clientVars, deaths, historyVars>>

\* A row, and whether the first transaction of a session wrote it.
Row == [fetched : Value, stamp : 0 .. LastDay, early : BOOLEAN]
NoRow == [fetched |-> None, stamp |-> None, early |-> FALSE]
NoAnswer == [asked |-> 1, given |-> 1, on |-> 1]
Nothing == [d \in Date |-> None]

TypeOK ==
    /\ today   \in Day
    /\ rate    \in [Code -> [Date -> Row]]
    /\ pc      \in [Worker -> {"idle", "collect", "fetch", "open", "write",
                               "select", "exact", "prior", "probe"}]
    /\ tx      \in [Worker -> 0 .. LastDay]
    /\ queue   \in [Worker -> Seq(Code)]
    /\ want    \in [Worker -> [Code -> SUBSET Date]]
    /\ got     \in [Worker -> [Date -> Value]]
    /\ cache   \in [Worker -> 0 .. LastDay]
    /\ asked   \in [Worker -> Date]
    /\ back    \in [Worker -> 0 .. ProbeDays]
    /\ lookups \in [Worker -> 0 .. MaxLookups]
    /\ answer  \in [Worker -> [asked : Date, given : Date, on : Day]]
    /\ deaths  \in 0 .. MaxDeaths
    /\ fresh   \in [Worker -> BOOLEAN]
    /\ missed  \in [Syncer -> SUBSET (Code \X Date)]

Init ==
    /\ today   = 1
    /\ rate    = [c \in Code |-> [d \in Date |-> NoRow]]
    /\ pc      = [w \in Worker |-> "idle"]
    /\ tx      = [w \in Worker |-> None]
    /\ queue   = [w \in Worker |-> <<>>]
    /\ want    = [w \in Worker |-> [c \in Code |-> {}]]
    /\ got     = [w \in Worker |-> Nothing]
    /\ cache   = [w \in Worker |-> None]
    /\ asked   = [w \in Worker |-> 1]
    /\ back    = [w \in Worker |-> 0]
    /\ lookups = [w \in Worker |-> 0]
    /\ answer  = [w \in Worker |-> NoAnswer]
    /\ deaths  = 0
    /\ fresh   = [w \in Worker |-> TRUE]
    /\ missed  = [s \in Syncer |-> {}]

-----------------------------------------------------------------------------
\* The table

Stored(c, d) == rate[c][d] # NoRow

\* Faulty variant of Unconfirmed: a row written on its own date is final.
UnconfirmedBefore(c, d) == Stored(c, d) /\ rate[c][d].stamp < d

\* list_unconfirmed_rate_dates: created_at, in Chilean days, <= rate_date.
Unconfirmed(c, d) == Stored(c, d) /\ rate[c][d].stamp <= d

Confirmed(c, d) == Stored(c, d) /\ ~Unconfirmed(c, d)

Final(c, d) == Stored(c, d) /\ rate[c][d].fetched > d

\* The first statement of a session begins its transaction.
Begun(w) == IF tx[w] = None THEN today ELSE tx[w]
Begin(w) == tx' = [tx EXCEPT ![w] = Begun(w)]

Goto(w, to) == pc' = [pc EXCEPT ![w] = to]

\* refresh_rates: SELECT of the known currencies, then the upsert of all
\* entries, which sets created_at to now(), and the commit.
OpenWrite(w) ==
    /\ pc[w] = "open"
    /\ Begin(w)
    /\ Goto(w, "write")
    /\ UNCHANGED <<today, rate, queue, want, got, cache, clientVars, deaths,
                   historyVars>>

\* What w writes: all entries with one created_at.
Entry(w, d) ==
    [fetched |-> got[w][d], stamp |-> tx[w],
     early   |-> fresh[w] /\ w \notin Refresher]

\* What s missed, apart from the code it is done with.
Others(s, c) == {row \in missed[s] : row[1] # c}

\* The upsert and the commit.
Upsert(w, c) ==
    /\ rate' = [rate EXCEPT ![c] = [d \in Date |->
                   IF got[w][d] = None THEN @[d] ELSE Entry(w, d)]]
    /\ missed' = [s \in Syncer |->
                     IF s = w THEN Others(s, c)
                     ELSE missed[s] \cup
                          {<<c, d>> : d \in {e \in want[s][c] :
                                               got[w][e] # None}}]

\* Worker w leaves its request: the session is closed and rolled back.
Leave(w) ==
    /\ Goto(w, "idle")
    /\ fresh' = [fresh EXCEPT ![w] = TRUE]
    /\ tx'    = [tx EXCEPT ![w] = None]
    /\ queue' = [queue EXCEPT ![w] = <<>>]
    /\ want'  = [want EXCEPT ![w] = [c \in Code |-> {}]]
    /\ got'   = [got EXCEPT ![w] = Nothing]

\* A new day begins in Chile.
Tick ==
    /\ today < LastDay
    /\ today' = today + 1
    /\ UNCHANGED <<rate, workVars, clientVars, deaths, historyVars>>

-----------------------------------------------------------------------------
\* SyncRecentMarketData

\* _build_daily_dates and, for the codes published ahead, _build_forward_dates,
\* around the day the server's clock shows: UTC is ahead of Chile.
Window(c, day) ==
    day - Lookback + 1 .. day + (IF c \in ForwardCodes THEN Forward ELSE 0)

StartSync(s) ==
    /\ pc[s] = "idle"
    /\ Goto(s, "collect")
    /\ \E day \in {today, today + 1} :
          want' = [want EXCEPT ![s] = [c \in Code |-> Window(c, day)]]
    /\ queue' = [queue EXCEPT ![s] = Codes]
    /\ UNCHANGED <<today, rate, tx, got, cache, clientVars, deaths,
                   historyVars>>

\* Faulty variant of CollectMissing: every stored date is skipped.
CollectAbsent(s) ==
    LET c == Head(queue[s]) IN
    /\ pc[s] = "collect"
    /\ want' = [want EXCEPT ![s][c] = {d \in @ : ~Stored(c, d)}]
    /\ queue' = [queue EXCEPT ![s] =
                    IF Len(@) > 1 THEN Tail(@) ELSE Codes]
    /\ Goto(s, IF Len(queue[s]) > 1 THEN "collect" ELSE "fetch")
    /\ Begin(s)
    /\ UNCHANGED <<today, rate, got, cache, clientVars, deaths, historyVars>>

\* Faulty variant of CollectMissing: every date of the window is asked for.
CollectAll(s) ==
    /\ pc[s] = "collect"
    /\ queue' = [queue EXCEPT ![s] =
                    IF Len(@) > 1 THEN Tail(@) ELSE Codes]
    /\ Goto(s, IF Len(queue[s]) > 1 THEN "collect" ELSE "fetch")
    /\ Begin(s)
    /\ UNCHANGED <<today, rate, want, got, cache, clientVars, deaths,
                   historyVars>>

\* _collect_missing_exchange_rates for one code: the stored dates and the
\* unconfirmed ones are two queries, merged here, since a row that changes in
\* between is at worst fetched once more.  The first of them begins the
\* transaction that stays open until the first upsert commits.
CollectMissing(s) ==
    LET c == Head(queue[s]) IN
    /\ pc[s] = "collect"
    /\ want' = [want EXCEPT ![s][c] = {d \in @ : ~Confirmed(c, d)}]
    /\ queue' = [queue EXCEPT ![s] =
                    IF Len(@) > 1 THEN Tail(@) ELSE Codes]
    /\ Goto(s, IF Len(queue[s]) > 1 THEN "collect" ELSE "fetch")
    /\ Begin(s)
    /\ UNCHANGED <<today, rate, got, cache, clientVars, deaths, historyVars>>

NextCode(s) ==
    IF Len(queue[s]) > 1
    THEN /\ Goto(s, "fetch")
         /\ queue' = [queue EXCEPT ![s] = Tail(@)]
         /\ got'   = [got EXCEPT ![s] = Nothing]
         /\ want'  = [want EXCEPT ![s][Head(queue[s])] = {}]
    ELSE /\ Goto(s, "idle")
         /\ queue' = [queue EXCEPT ![s] = <<>>]
         /\ got'   = [got EXCEPT ![s] = Nothing]
         /\ want'  = [want EXCEPT ![s] = [c \in Code |-> {}]]

\* The provider chain returns the dates it has; nothing leaves the code out
\* and keeps the transaction as it is.
SyncFetch(s, dates) ==
    /\ pc[s] = "fetch"
    /\ dates \subseteq want[s][Head(queue[s])] \cap Open
    /\ IF dates # {}
       THEN /\ got' = [got EXCEPT ![s] =
                          [d \in Date |-> IF d \in dates THEN today ELSE None]]
            /\ Goto(s, "open")
            /\ UNCHANGED <<tx, queue, want, historyVars>>
       ELSE /\ NextCode(s)
            /\ missed' = [missed EXCEPT ![s] = Others(s, Head(queue[s]))]
            /\ IF Len(queue[s]) > 1
               THEN UNCHANGED <<tx, fresh>>
               ELSE /\ tx' = [tx EXCEPT ![s] = None]
                    /\ fresh' = [fresh EXCEPT ![s] = TRUE]
    /\ UNCHANGED <<today, rate, cache, clientVars, deaths>>

SyncWrite(s) ==
    /\ s \in Syncer
    /\ pc[s] = "write"
    /\ Upsert(s, Head(queue[s]))
    /\ tx' = [tx EXCEPT ![s] = None]
    /\ fresh' = [fresh EXCEPT ![s] = Len(queue[s]) = 1]
    /\ NextCode(s)
    /\ UNCHANGED <<today, cache, clientVars, deaths>>

\* A database error, or the cancellation of the startup sync at shutdown:
\* the codes committed so far stay.
SyncDies(s) ==
    /\ pc[s] # "idle"
    /\ deaths < MaxDeaths
    /\ deaths' = deaths + 1
    /\ Leave(s)
    /\ missed' = [missed EXCEPT ![s] = {}]
    /\ UNCHANGED <<today, rate, cache, clientVars>>

SyncStep(s) ==
    \/ CollectMissing(s)
    \/ \E dates \in SUBSET Open : SyncFetch(s, dates)
    \/ s \in Syncer /\ OpenWrite(s)
    \/ SyncWrite(s)

-----------------------------------------------------------------------------
\* GetExchangeRateValue

\* Only dates that can be answered are asked for: a date whose whole lookback
\* window is closed is not found, whatever the others do.
Ask(l, c, d) ==
    /\ pc[l] = "idle"
    /\ lookups[l] < MaxLookups
    /\ d - ProbeDays \in Date
    /\ (d - ProbeDays .. d) \cap Open # {}
    /\ lookups' = [lookups EXCEPT ![l] = @ + 1]
    /\ asked' = [asked EXCEPT ![l] = d]
    /\ queue' = [queue EXCEPT ![l] = <<c>>]
    /\ answer' = [answer EXCEPT ![l] = NoAnswer]
    /\ Goto(l, "select")
    /\ UNCHANGED <<today, rate, tx, want, got, cache, back, deaths,
                   historyVars>>

\* The next lookup of the same request keeps session and providers; the
\* transaction stays open unless the lookup committed.
Answered(l, given) ==
    /\ answer' = [answer EXCEPT ![l] =
                     [asked |-> asked[l], given |-> given, on |-> today]]
    /\ Goto(l, "idle")
    /\ queue' = [queue EXCEPT ![l] = <<>>]
    /\ got' = [got EXCEPT ![l] = Nothing]
    /\ back' = [back EXCEPT ![l] = 0]
    /\ asked' = [asked EXCEPT ![l] = 1]
    /\ UNCHANGED lookups

\* 1. Exact date in the database.
SelectExact(l) ==
    /\ pc[l] = "select"
    /\ Begin(l)
    /\ IF Stored(Head(queue[l]), asked[l])
       THEN Answered(l, asked[l])
       ELSE Goto(l, "exact") /\ UNCHANGED <<queue, got, clientVars>>
    /\ UNCHANGED <<today, rate, want, cache, deaths, historyVars>>

\* A provider of the chain that caches its series answers from the series as
\* it was read first; others ask again.
ProviderDays(l) == {today, IF cache[l] = None THEN today ELSE cache[l]}

Fetch(l, d, hit, miss) ==
    /\ cache' = [cache EXCEPT ![l] = IF @ = None THEN today ELSE @]
    /\ \/ /\ d \in Open
          /\ \E day \in ProviderDays(l) : got' = [got EXCEPT ![l][d] = day]
          /\ Goto(l, hit)
       \/ /\ got' = got
          /\ Goto(l, miss)

\* 2. Exact date from the providers, future dates included.
FetchExact(l) ==
    /\ pc[l] = "exact"
    /\ Fetch(l, asked[l], "open", "prior")
    /\ UNCHANGED <<today, rate, tx, queue, want, clientVars, deaths,
                   historyVars>>

NotFound(l) ==
    /\ Goto(l, "idle")
    /\ queue' = [queue EXCEPT ![l] = <<>>]
    /\ back' = [back EXCEPT ![l] = 0]
    /\ asked' = [asked EXCEPT ![l] = 1]
    /\ UNCHANGED <<got, lookups, answer>>

\* Faulty variant of MayCarryForward: the clock of a server in UTC.
MayCarryForwardUtc(l) == asked[l] <= today + 1

\* Steps 3 and 4 are for the past and today only.
MayCarryForward(l) == asked[l] <= today

\* 3. Nearest prior date in the database.
PriorDates(l) ==
    {d \in Date : /\ d < asked[l]
                  /\ d >= asked[l] - ProbeDays
                  /\ Stored(Head(queue[l]), d)}

SelectPrior(l) ==
    /\ pc[l] = "prior"
    /\ IF ~MayCarryForward(l)
       THEN NotFound(l) /\ UNCHANGED tx
       ELSE /\ Begin(l)
            /\ IF PriorDates(l) # {}
               THEN \E d \in PriorDates(l) :
                       /\ \A e \in PriorDates(l) : e <= d
                       /\ Answered(l, d)
               ELSE /\ Goto(l, "probe")
                    /\ back' = [back EXCEPT ![l] = 0]
                    /\ UNCHANGED <<queue, got, asked, lookups, answer>>
    /\ UNCHANGED <<today, rate, want, cache, deaths, historyVars>>

\* Faulty variant of ProbePrior: one probe too many.
ProbeOneMore(l) ==
    /\ pc[l] = "probe"
    /\ back[l] <= ProbeDays
    /\ back' = [back EXCEPT ![l] = @ + 1]
    /\ Fetch(l, asked[l] - (back[l] + 1), "open", "probe")
    /\ UNCHANGED <<today, rate, tx, queue, want, asked, lookups, answer, deaths,
                   historyVars>>

\* 4. The providers probed one day back at a time.
ProbePrior(l) ==
    /\ pc[l] = "probe"
    /\ back[l] < ProbeDays
    /\ back' = [back EXCEPT ![l] = @ + 1]
    /\ Fetch(l, asked[l] - (back[l] + 1), "open", "probe")
    /\ UNCHANGED <<today, rate, tx, queue, want, asked, lookups, answer, deaths,
                   historyVars>>

\* 5. Not found.
GiveUp(l) ==
    /\ pc[l] = "probe"
    /\ back[l] = ProbeDays
    /\ NotFound(l)
    /\ UNCHANGED <<today, rate, tx, want, cache, deaths, historyVars>>

LookupWrite(l) ==
    /\ pc[l] = "write"
    /\ Upsert(l, Head(queue[l]))
    /\ tx' = [tx EXCEPT ![l] = None]
    /\ fresh' = [fresh EXCEPT ![l] = FALSE]
    /\ Answered(l, asked[l] - back[l])
    /\ UNCHANGED <<today, want, cache, deaths>>

\* The response is sent; the next request has a session and providers of its
\* own.
EndRequest(l) ==
    /\ pc[l] = "idle"
    /\ lookups[l] > 0
    /\ lookups' = [lookups EXCEPT ![l] = 0]
    /\ cache' = [cache EXCEPT ![l] = None]
    /\ tx' = [tx EXCEPT ![l] = None]
    /\ answer' = [answer EXCEPT ![l] = NoAnswer]
    /\ fresh' = [fresh EXCEPT ![l] = TRUE]
    /\ UNCHANGED <<today, rate, pc, queue, want, got, asked, back, deaths,
                   missed>>

LookupStep(l) ==
    \/ \E c \in Code : \E d \in Date : Ask(l, c, d)
    \/ SelectExact(l) \/ FetchExact(l) \/ SelectPrior(l)
    \/ ProbePrior(l) \/ GiveUp(l)
    \/ l \in Looker /\ OpenWrite(l)
    \/ LookupWrite(l) \/ EndRequest(l)

-----------------------------------------------------------------------------
\* RefreshRates, for the entries of one code

\* A command has dates to fetch and manual entries.
StartRefresh(r, c, dates, manual) ==
    /\ pc[r] = "idle"
    /\ dates \cup manual # {}
    /\ want' = [want EXCEPT ![r][c] = dates]
    /\ got' = [got EXCEPT ![r] =
                  [d \in Date |-> IF d \in manual THEN ByHand ELSE None]]
    /\ queue' = [queue EXCEPT ![r] = <<c>>]
    /\ Goto(r, IF dates = {} THEN "open" ELSE "fetch")
    /\ UNCHANGED <<today, rate, tx, cache, clientVars, deaths, historyVars>>

\* One request after the other, before the session has run a statement; where
\* a date is in both lists the manual entry wins.
RefreshFetch(r, d) ==
    LET c == Head(queue[r]) IN
    /\ pc[r] = "fetch"
    /\ d \in want[r][c] \cap Open
    /\ got' = [got EXCEPT ![r][d] = IF @ = ByHand THEN @ ELSE today]
    /\ want' = [want EXCEPT ![r][c] = @ \ {d}]
    /\ Goto(r, IF want[r][c] = {d} THEN "open" ELSE "fetch")
    /\ UNCHANGED <<today, rate, tx, queue, cache, clientVars, deaths,
                   historyVars>>

\* One request that no provider answers fails the whole command, and so does
\* an unknown currency, or an upsert that PostgreSQL aborts because it and
\* another one wait for each other's rows.
RefreshFails(r) ==
    /\ pc[r] # "idle"
    /\ Leave(r)
    /\ UNCHANGED <<today, rate, cache, clientVars, deaths, missed>>

RefreshWrite(r) ==
    /\ pc[r] = "write"
    /\ Upsert(r, Head(queue[r]))
    /\ Leave(r)
    /\ UNCHANGED <<today, cache, clientVars, deaths>>

RefreshStep(r) ==
    \/ \E c \in Code :
          \E dates \in SUBSET Open : \E manual \in SUBSET Supplied :
             StartRefresh(r, c, dates, manual)
    \/ \E d \in Open : RefreshFetch(r, d)
    \/ RefreshFails(r)
    \/ r \in Refresher /\ OpenWrite(r)
    \/ RefreshWrite(r)

-----------------------------------------------------------------------------
Next ==
    \/ Tick
    \/ \E s \in Syncer : StartSync(s) \/ SyncStep(s) \/ SyncDies(s)
    \/ \E l \in Looker : LookupStep(l)
    \/ \E r \in Refresher : RefreshStep(r)

Spec == Init /\ [][Next]_vars

\* A fetch that the providers answer completely.
Complete(s) ==
    \A dates \in SUBSET Open :
        SyncFetch(s, dates) => dates = want[s][Head(queue[s])] \cap Open

\* Clients repeat syncs (docs/api.md:853-856, a daily or weekly cron), days go
\* by, the event loop runs a sync that has started, and from some time on the
\* providers answer.
FairSpec ==
    /\ Spec
    /\ WF_vars(Tick)
    /\ \A s \in Syncer : WF_vars(StartSync(s) \/ SyncStep(s))
    /\ \A s \in Syncer : <>[][Complete(s)]_vars

-----------------------------------------------------------------------------
\* Properties

\* A row that no sync will fetch again holds a final value: "re-fetched ...
\* until the fetch date is strictly after the rate date, at which point the
\* value is considered final" (ports/market_data_repository.py:59-68).
ConfirmedIsFinal ==
    \A c \in Code : \A d \in Date : Confirmed(c, d) => Final(c, d)

\* Where that is true: of all rows that the first transaction of a sync or a
\* lookup session wrote.  It was open when their values were fetched.  Only a
\* later transaction of a session (the codes of a sync after the first that is
\* stored, the lookups of a request after one that stored a value) and a
\* refresh can stamp a preliminary value too late.
FirstTransactionIsHonest ==
    \A c \in Code : \A d \in Date :
        Confirmed(c, d) /\ rate[c][d].early => Final(c, d)

\* A sync writes over a row that was confirmed when it looked for gaps only if
\* somebody wrote the row since: final values and manual corrections are lost
\* to syncs that were under way already, and to no others.
Collected(s, c) ==
    \/ pc[s] \in {"fetch", "open", "write"}
    \/ pc[s] = "collect" /\ c \notin {queue[s][i] : i \in 1 .. Len(queue[s])}

ConfirmedLostToRacesOnly ==
    \A s \in Syncer : \A c \in Code : Collected(s, c) =>
        \A d \in want[s][c] : Confirmed(c, d) => <<c, d>> \in missed[s]

\* A value is never carried forward to a future date, nor further than the
\* lookback window (get_exchange_rate_value.py:59-66).
FutureAnswersAreExact ==
    \A w \in Looker :
        LET a == answer[w] IN
        a.given # a.asked =>
            /\ a.asked <= a.on
            /\ a.given \in a.asked - ProbeDays .. a.asked - 1

\* "After a re-fetch on day D+1 the row ... stabilises naturally"
\* (market_data_repository.py:158-160): what is stored for a past date that
\* the syncs still cover ends up confirmed and stays so.
RatesSettle ==
    \A c \in Code : \A d \in Open \cap (LastDay - Lookback + 2 .. LastDay - 1) :
        Stored(c, d) ~> [](Confirmed(c, d))
=============================================================================

----------------------------- MODULE RateLookup -----------------------------
(***************************************************************************)
(* Which value a date gets: the five steps of GetExchangeRateValue behind  *)
(* GET /exchange-rates/value, and the resolution that the batch endpoint   *)
(* and the CSV exports put in front of it, against the same table and the  *)
(* same chain of providers, while days pass and providers fail.            *)
(*                                                                         *)
(* Requests are atomic here; RateStore has their interleavings.  Codes do  *)
(* not touch each other, so a behaviour is about one of them.  A value is  *)
(* named by the date it was published for: the value of a monthly code is  *)
(* published for the first day of its month.  Providers fail page by page: *)
(* mindicador.cl and the SII are asked for a year, the Banco Central is    *)
(* asked for a date.                                                       *)
(***************************************************************************)
EXTENDS Integers, SequencesExt

CONSTANTS
    Daily,        \* codes with a value per day (USD, EUR, UF)
    Forward,      \* FORWARD_DAILY_RATE_CODES (UF)
    Monthly,      \* MONTHLY_EXCHANGE_RATE_CODES (UTM)
    Holds,        \* Holds[p][c]: the dates for which p ever publishes c
    Ahead,        \* days in advance that values appear (UF, weekends)
    ProbeDays,    \* MAX_PROVIDER_LOOKBACK_DAYS
    MonthDays,    \* bound: days of a month
    PageOf,       \* PageOf[p][d]: what p is asked for to have d
    LastDay       \* bound: days run from 1 to LastDay

Code == Daily \cup Monthly
Day  == 1 .. LastDay
Date == 1 - ProbeDays - MonthDays .. LastDay + Ahead
Asked == 1 .. LastDay + Ahead      \* the dates that requests name

None == 1 - 2 * (ProbeDays + MonthDays)   \* no value

\* get_fx_rate_provider: the order of the fallback chain.
Chain == <<"bcch", "sii", "mindicador">>

Provider == ToSet(Chain)
Page     == {PageOf[p][d] : p \in Provider, d \in Date}

First(d) == d - ((d - 1) % MonthDays)      \* the first of the month of d

\* Monthly values are published for the first of their month.
ASSUME LookupAssumption ==
    /\ Daily \cap Monthly = {}
    /\ Forward \subseteq Daily
    /\ {Ahead, ProbeDays} \subseteq Nat
    /\ ProbeDays > 0
    /\ LastDay \in Nat \ {0}
    /\ MonthDays \in Nat /\ MonthDays > ProbeDays
    /\ PageOf \in [Provider -> [Date -> Page]]
    /\ Holds \in [Provider -> [Code -> SUBSET Date]]
    /\ \A p \in Provider, c \in Monthly : \A d \in Holds[p][c] : First(d) = d

VARIABLES
    today,        \* the current day in America/Santiago
    code,         \* the code of this behaviour
    up,           \* the pages that can be had at present
    table,        \* table[d]: the value stored under rate_date d
    watched,      \* a date the clients ask for, for properties
    best          \* the most recent value an answer has had for it

vars == <<today, code, up, table, watched, best>>

TypeOK ==
    /\ today   \in Day
    /\ code    \in Code
    /\ up      \in SUBSET Page
    /\ table   \in [Date -> Date \cup {None}]
    /\ watched \in Asked
    /\ best    \in Date \cup {None}

Init ==
    /\ today = 1
    /\ code \in Code
    /\ up = Page
    /\ table = [d \in Date |-> None]
    /\ watched \in Asked
    /\ best = None

\* normalize_exchange_rate_lookup_date
Normal(d) == IF code \in Monthly THEN First(d) ELSE d

-----------------------------------------------------------------------------
\* The providers

Published(p) == {d \in Holds[p][code] : d <= today + Ahead}

\* Faulty variant of Answers: the latest value published by then is carried
\* forward.
AnswersCarried(p, d) ==
    PageOf[p][d] \in up /\ \E e \in Published(p) : e <= d

\* The Banco Central and mindicador.cl look for the exact date; the UTM page
\* of the SII has a row for each month and no days.
HasDate(p, d)  == d \in Published(p)
HasMonth(p, d) == code \in Monthly /\ First(d) \in Published(p)

\* Does p have a value when asked for d?  mindicador.cl and the SII are asked
\* for a year once in a request: a failure is remembered as an empty year, so
\* all dates of the page share its fate, and those of another page do not.
Answers(p, d) ==
    /\ PageOf[p][d] \in up
    /\ IF p = "sii" THEN HasMonth(p, d) ELSE HasDate(p, d)

\* fetch_rate_entry: the first of the chain that answers, one that raises
\* being passed over.
FirstMatch(d) ==
    LET hits == {i \in DOMAIN Chain : Answers(Chain[i], d)}
    IN  IF hits = {} THEN "none" ELSE Chain[Min(hits)]

Fetchable(d) == FirstMatch(d) # "none"

\* Faulty variant of AskNext: every provider is asked for every date.
AskAll(acc, p) ==
    LET filled == {d \in Date : acc.remaining # {} /\ Answers(p, d)} IN
    [remaining |-> acc.remaining \ filled,
     source    |-> [d \in Date |-> IF d \in filled THEN p ELSE acc.source[d]]]

\* fetch_rate_entries: each provider is asked for what the ones before it
\* left open.
AskNext(acc, p) ==
    LET filled == {d \in acc.remaining : Answers(p, d)} IN
    [remaining |-> acc.remaining \ filled,
     source    |-> [d \in Date |-> IF d \in filled THEN p ELSE acc.source[d]]]

FetchEntries(dates) ==
    LET open == [remaining |-> dates, source |-> [d \in Date |-> "none"]]
    IN  AskNext(AskNext(AskNext(open, Chain[1]), Chain[2]), Chain[3]).source

-----------------------------------------------------------------------------
\* GetExchangeRateValue.execute: the table it leaves and the value it returns

\* Faulty variants of Persist: nothing stored; months counted from zero.
PersistNothing(t, d)   == t
PersistNextMonth(t, d) ==
    [t EXCEPT ![d] = IF code \in Monthly THEN First(d) + MonthDays ELSE d]

\* The provider's value is stored under the date it was asked for.
Persist(t, d) == [t EXCEPT ![d] = Normal(d)]

Hit(t, d)     == [table |-> t, value |-> t[d]]
Fetched(t, d) == [table |-> Persist(t, d), value |-> Normal(d)]
NotFound(t)   == [table |-> t, value |-> None]

Window(d) == d - ProbeDays .. d - 1

Single(t, d) ==
    LET prior  == {e \in Window(d) : t[e] # None}
        probed == {e \in Window(d) : Fetchable(e)}
    IN  IF t[Normal(d)] # None THEN Hit(t, Normal(d))           \* step 1
        ELSE IF Fetchable(d) THEN Fetched(t, d)                 \* step 2
        ELSE IF d > today THEN NotFound(t)
        ELSE IF prior # {} THEN Hit(t, Max(prior))              \* step 3
        ELSE IF probed # {} THEN Fetched(t, Max(probed))        \* step 4
        ELSE NotFound(t)                                        \* step 5

-----------------------------------------------------------------------------
\* The batch endpoint and the exports

\* bulk_fetch_currency_values: one query for the span of the dates, widened to
\* the first of the month for monthly codes.
BulkMap(t, dates) ==
    LET span == Normal(Min(ToSet(dates))) .. Max(ToSet(dates))
    IN  [d \in Date |-> IF d \in span THEN t[d] ELSE None]

\* Faulty variant of CachedPrior: one day more than the lookback.
CachedPriorLonger(map, d) ==
    {e \in Normal(d) - ProbeDays - 1 .. d - 1 : map[e] # None}

\* lookup_nearest_prior_cached_value
CachedPrior(map, d) == {e \in Window(Normal(d)) : map[e] # None}

\* Faulty variant of Resolve: carries forward to future dates.
ResolveFuture(acc, d) ==
    LET prior  == CachedPrior(acc.map, d)
        single == Single(acc.table, d)
        value  == IF acc.map[Normal(d)] # None THEN acc.map[Normal(d)]
                  ELSE IF prior # {} THEN acc.map[Max(prior)]
                  ELSE None
    IN  [acc EXCEPT !.table = IF value # None THEN @ ELSE single.table,
                    !.answers[d] = IF value # None THEN value ELSE single.value]

\* Faulty variant of Resolve: the furthest prior date instead of the nearest.
ResolveFurthest(acc, d) ==
    LET prior  == CachedPrior(acc.map, d)
        single == Single(acc.table, d)
        value  == IF acc.map[Normal(d)] # None THEN acc.map[Normal(d)]
                  ELSE IF d <= today /\ prior # {} THEN acc.map[Min(prior)]
                  ELSE None
    IN  [acc EXCEPT !.table = IF value # None THEN @ ELSE single.table,
                    !.answers[d] = IF value # None THEN value ELSE single.value]

\* resolve_value_for_date: the map, its nearest prior date unless d is in the
\* future, and only then the five steps.
Resolve(acc, d) ==
    LET prior  == CachedPrior(acc.map, d)
        single == Single(acc.table, d)
        value  == IF acc.map[Normal(d)] # None THEN acc.map[Normal(d)]
                  ELSE IF d <= today /\ prior # {} THEN acc.map[Max(prior)]
                  ELSE None
    IN  [acc EXCEPT !.table = IF value # None THEN @ ELSE single.table,
                    !.answers[d] = IF value # None THEN value ELSE single.value]

\* resolve_exchange_rate_pairs for the pairs of one code, in request order;
\* the loop of an export over its window is the ascending case.
Before(t, dates) ==
    [table |-> t, map |-> BulkMap(t, dates),
     answers |-> [d \in Date |-> None]]

Batch(t, dates) ==
    LET after[i \in 0 .. Len(dates)] ==
            IF i = 0 THEN Before(t, dates)
                     ELSE Resolve(after[i - 1], dates[i])
    IN  after[Len(dates)]

Pairs   == {<<d, e>> : d \in Asked, e \in Asked}
Windows == {[i \in 1 .. b - a + 1 |-> a + i - 1] : a \in Asked, b \in Asked}
               \ {<<>>}

-----------------------------------------------------------------------------

\* get_exchange_rate_value: a 404 answers nothing.
Answer(d, value) ==
    best' = IF d = watched /\ value # None THEN value ELSE best

GetValue(d) ==
    /\ table' = Single(table, d).table
    /\ Answer(d, Single(table, d).value)
    /\ UNCHANGED <<today, code, up, watched>>

GetValues(dates) ==
    /\ table' = Batch(table, dates).table
    /\ IF watched \in ToSet(dates)
       THEN Answer(watched, Batch(table, dates).answers[watched])
       ELSE UNCHANGED best
    /\ UNCHANGED <<today, code, up, watched>>

\* A sync asks for the dates of its window that are not stored: every day, for
\* some codes future days too, or the first of each month.  (A date fetched
\* again, RateStore!Unconfirmed, has its value already.)
Sync ==
    LET wanted == {d \in Asked : /\ Normal(d) = d
                                 /\ d <= today \/ code \in Forward
                                 /\ table[d] = None}
        source == FetchEntries(wanted)
    IN  /\ table' = [d \in Date |-> IF source[d] # "none" THEN Normal(d)
                                                          ELSE table[d]]
        /\ UNCHANGED <<today, code, up, watched, best>>

Tick ==
    /\ today < LastDay
    /\ today' = today + 1
    /\ UNCHANGED <<code, up, table, watched, best>>

\* A page of the code cannot be had in the requests from now on, or can again.
Outage(page) ==
    /\ \E p \in Provider, d \in Date :
          PageOf[p][d] = page /\ Normal(d) \in Holds[p][code]
    /\ up' = IF page \in up THEN up \ {page} ELSE up \cup {page}
    /\ UNCHANGED <<today, code, table, watched, best>>

Next ==
    \/ \E d \in Asked : GetValue(d)
    \/ \E dates \in Pairs \cup Windows : GetValues(dates)
    \/ Sync
    \/ Tick
    \/ \E page \in Page : Outage(page)

Spec == Init /\ [][Next]_vars

-----------------------------------------------------------------------------
\* Properties

\* A row holds the value published for its own date (of its month): nothing
\* carried forward or probed is stored under the date that was asked for, and
\* no row is made up ("no carry-forward", get_exchange_rate_value.py:75-76).
RowsAreGenuine ==
    \A d \in Date : table[d] # None =>
        /\ table[d] = Normal(d)
        /\ \E p \in Provider : Normal(d) \in Published(p)

\* "Inventing future rates" (export_exchange_rates_csv.py:222-227): no route
\* gives a future date the value of another date.
FutureNotInvented ==
    \A d \in Asked : d > today =>
        \A dates \in {<<d>>} \cup {w \in Windows : d \in ToSet(w)} :
            /\ Single(table, d).value \in {None, Normal(d)}
            /\ Batch(table, dates).answers[d] \in {None, Normal(d)}

\* For a daily code the resolution of a batch gives the answer of the single
\* request wherever the date is stored or cannot be fetched now, although it
\* sees the prior dates through a map of the span of the request only.
BatchMatchesUnlessUnstored ==
    code \in Daily =>
        \A dates \in Pairs \cup Windows : \A d \in ToSet(dates) :
            table[d] # None \/ ~Fetchable(d) =>
                Resolve(Before(table, dates), d).answers[d]
                    = Single(table, d).value

\* For a daily code a batch leaves those dates without a value which a single
\* request would not find, and no others, whatever the rest of the request
\* stores meanwhile; only which value they get may differ (BatchMatchesSingle).
BatchAnswersSameDates ==
    code \in Daily =>
        \A dates \in Pairs \cup Windows :
            LET answers == Batch(table, dates).answers
            IN  \A d \in ToSet(dates) :
                    answers[d] = None <=> Single(table, d).value = None

\* "Exchange rates use the same database and provider fallback chain as
\* GET /exchange-rates/value" (docs/api.md, POST /exchange-rates/values).
\* The batch looks for a prior stored date before it asks the providers for
\* the date itself, and whether it finds one depends on the other dates.
BatchMatchesSingle ==
    \A dates \in Pairs : \A d \in ToSet(dates) :
        Batch(table, dates).answers[d] = Single(table, d).value

\* Fetching dates together takes each from the provider that fetching it alone
\* would take: the dates left open by one provider are the ones it lacks.
ChainsAgree ==
    \A a, b \in Asked :
        LET source == FetchEntries(a .. b)
        IN  \A d \in a .. b : source[d] = FirstMatch(d)

\* The answers a client gets for a past or future date of a daily code never
\* go back to an older value, whichever endpoint gives them and whatever the
\* providers do; nor does a date once answered become unknown.
AnswersNeverRegress ==
    [][(code \in Daily) => best' >= best]_best

OnceAnsweredAlwaysAnswered ==
    code \in Daily /\ best # None => Single(table, watched).value >= best

\* "Fetched from the external provider chain, persisted for future lookups"
\* (routes/exchange_rates.py:140-144): a date that was answered is answered
\* again without the providers.  A monthly value that the SII gave for a later
\* day of the month is stored under that day, and looked up under the first.
PersistedForFutureLookups ==
    best # None => Single(table, watched).value # None
=============================================================================

----------------------------- MODULE MonthlySync -----------------------------
(***************************************************************************)
(* Monthly data: the series that SyncRecentMarketData brings up to date    *)
(* month by month (UTM, IPC_CL) and the income tax brackets, of which the  *)
(* SII keeps one page per year that grows as the months are published.     *)
(* POST /income-tax-brackets/refresh writes brackets besides.              *)
(*                                                                         *)
(* One action is one statement on the database or one request to the       *)
(* providers with the local code up to the next.  A month's brackets are   *)
(* published and upserted together; they are rows of their own, keyed by   *)
(* month and lower bound, since the page may correct a month later.        *)
(***************************************************************************)
EXTENDS Integers, Sequences, FiniteSetsExt

CONSTANTS
    Series,       \* MONTHLY_MARKET_RATE_CODES \o MONTHLY_ECONOMIC_INDEX_CODES
    Brackets,     \* the kind of data that is no series: income tax brackets
    Syncer,       \* runs of POST /sync and of the startup sync
    Refresher,    \* runs of POST /income-tax-brackets/refresh
    Lookbacks,    \* the values of lookback_days that callers use
    DaysPerMonth, \* _DAYS_PER_MONTH_APPROX
    YearMonths,   \* bound: months of a year
    LastMonth,    \* bound: months run from 1 to LastMonth
    Tables,       \* Tables[m]: the versions of month m's table on the page
    TopIncome     \* bound: taxable bases run from 0 to TopIncome

Month  == 1 .. LastMonth
Kind   == {Series[i] : i \in DOMAIN Series} \cup {Brackets}
Worker == Syncer \cup Refresher

YearOf(m) == (m - 1) \div YearMonths
Year      == {YearOf(m) : m \in Month}
MonthsOf(y) == {m \in Month : YearOf(m) = y}

Income == 0 .. TopIncome

\* A row of the page gives an upper amount or none, which is the bound above all
\* incomes here.  It cannot be read when a cell or its factor is missing.
Open    == TopIncome + 1
PageRow == [upper : 0 .. Open, readable : BOOLEAN]

ASSUME SyncAssumption ==
    /\ Series \in Seq(Kind \ {Brackets})
    /\ Len(Series) > 0
    /\ Syncer \cap Refresher = {}
    /\ Lookbacks \subseteq Nat \ {0}
    /\ {DaysPerMonth, YearMonths, LastMonth} \subseteq Nat \ {0}
    /\ TopIncome \in Nat
    /\ Tables \in [Month -> Seq(Seq(PageRow))]
    /\ \A m \in Month : Len(Tables[m]) > 0

VARIABLES
    now,          \* the current month
    published,    \* published[k]: the months that the providers have of k
    version,      \* version[m]: the version of month m on the page, 0 for none
    stored,       \* stored[k]: the months with rows of k
    pc,           \* pc[w]: the next statement of worker w
    window,       \* window[s]: monthly_dates of sync s
    queue,        \* queue[s]: the series it still works on, the current first
    want,         \* want[s][k]: the months it will ask for
    bracket,      \* bracket[m]: its rows, as pairs of lower and upper bounds
    got,          \* got[w]: the months just fetched
    read,         \* read[w][m]: for brackets, the version that was fetched
    years,        \* years[s]: the years whose brackets it has yet to look at
    \* History, read by properties only:
    due,          \* due[s][k]: the published months of the window at the start
    clean         \* clean[s]: every answer had all that was published

syncVars == <<window, queue, want, years, due, clean>>
page == <<published, version>>
rows == <<stored, bracket>>
vars == <<now, page, rows, pc, got, read, syncVars>>

TypeOK ==
    /\ now       \in Month
    /\ published \in [Kind -> SUBSET Month]
    /\ version   \in [Month -> Nat]
    /\ \A m \in Month : version[m] <= Len(Tables[m])
    /\ stored    \in [Kind -> SUBSET Month]
    /\ bracket   \in [Month -> SUBSET (Income \X (0 .. Open))]
    /\ pc        \in [Worker -> {"idle", "collect", "fetch", "write", "list",
                                 "fetchYear", "writeYear"}]
    /\ window    \in [Syncer -> SUBSET Month]
    /\ queue     \in [Syncer -> Seq(Kind \ {Brackets})]
    /\ want      \in [Syncer -> [Kind -> SUBSET Month]]
    /\ got       \in [Worker -> SUBSET Month]
    /\ read      \in [Worker -> [Month -> Nat]]
    /\ years     \in [Syncer -> SUBSET Year]
    /\ due       \in [Syncer -> [Kind -> SUBSET Month]]
    /\ clean     \in [Syncer -> BOOLEAN]

Nothing == [k \in Kind |-> {}]
Unread  == [m \in Month |-> 0]

Init ==
    /\ now       = 1
    /\ published = Nothing
    /\ version   = Unread
    /\ stored    = Nothing
    /\ bracket   = [m \in Month |-> {}]
    /\ pc        = [w \in Worker |-> "idle"]
    /\ window    = [s \in Syncer |-> {}]
    /\ queue     = [s \in Syncer |-> <<>>]
    /\ want      = [s \in Syncer |-> Nothing]
    /\ got       = [w \in Worker |-> {}]
    /\ read      = [w \in Worker |-> Unread]
    /\ years     = [s \in Syncer |-> {}]
    /\ due       = [s \in Syncer |-> Nothing]
    /\ clean     = [s \in Syncer |-> TRUE]

Goto(w, to) == pc' = [pc EXCEPT ![w] = to]

Current(s) == Head(queue[s])

-----------------------------------------------------------------------------
\* The world

NextMonth ==
    /\ now < LastMonth
    /\ now' = now + 1
    /\ UNCHANGED <<page, rows, pc, got, read, syncVars>>

\* Some provider has the next month, in that month or later.
Publish(k) ==
    LET m == Cardinality(published[k]) + 1 IN
    /\ m <= now
    /\ published' = [published EXCEPT ![k] = @ \cup {m}]
    /\ version' = IF k = Brackets THEN [version EXCEPT ![m] = 1] ELSE version
    /\ UNCHANGED <<now, rows, pc, got, read, syncVars>>

\* The SII corrects the table of a month it has published.
Correct(m) ==
    /\ version[m] \in 1 .. Len(Tables[m]) - 1
    /\ version' = [version EXCEPT ![m] = @ + 1]
    /\ UNCHANGED <<now, published, rows, pc, got, read, syncVars>>

-----------------------------------------------------------------------------
\* SyncRecentMarketData, monthly part

\* Faulty variant of MonthlyDates: a lookback under a month has no months.
MonthlyDatesMayBeEmpty(lookback) ==
    now - (lookback \div DaysPerMonth) + 1 .. now

\* _build_monthly_dates: as many months, counted back from the current one, as
\* lookback_days has, and at least the current one.  (Months before the first
\* of the model have nothing published.)
MonthlyDates(lookback) ==
    now - Max({1, lookback \div DaysPerMonth}) + 1 .. now

StartSync(s) ==
    /\ pc[s] = "idle"
    /\ \E lookback \in Lookbacks :
          LET months == MonthlyDates(lookback) \cap Month IN
          /\ window' = [window EXCEPT ![s] = months]
          /\ due' = [due EXCEPT ![s] =
                        [k \in Kind |-> months \cap published[k]]]
    /\ queue' = [queue EXCEPT ![s] = Series]
    /\ clean' = [clean EXCEPT ![s] = TRUE]
    /\ Goto(s, "collect")
    /\ UNCHANGED <<now, page, rows, got, read, want, years>>

\* Faulty variant of CollectMissing: the current month is left out.
CollectPast(s) ==
    /\ pc[s] = "collect"
    /\ want' = [want EXCEPT ![s][Current(s)] =
                   window[s] \ (stored[Current(s)] \cup {now})]
    /\ queue' = [queue EXCEPT ![s] = IF Len(@) > 1 THEN Tail(@) ELSE Series]
    /\ Goto(s, IF Len(queue[s]) > 1 THEN "collect" ELSE "fetch")
    /\ UNCHANGED <<now, page, rows, got, read, window, years, due, clean>>

\* The dates or periods of one series that have no row, all series first.
CollectMissing(s) ==
    /\ pc[s] = "collect"
    /\ want' = [want EXCEPT ![s][Current(s)] = window[s] \ stored[Current(s)]]
    /\ queue' = [queue EXCEPT ![s] = IF Len(@) > 1 THEN Tail(@) ELSE Series]
    /\ Goto(s, IF Len(queue[s]) > 1 THEN "collect" ELSE "fetch")
    /\ UNCHANGED <<now, page, rows, got, read, window, years, due, clean>>

\* The next series, or the years of the window.
NextSeries(s) ==
    /\ want' = [want EXCEPT ![s][Current(s)] = {}]
    /\ queue' = [queue EXCEPT ![s] = Tail(@)]
    /\ IF Len(queue[s]) > 1
       THEN Goto(s, "fetch") /\ UNCHANGED years
       ELSE /\ Goto(s, "list")
            /\ years' = [years EXCEPT ![s] = {YearOf(m) : m \in window[s]}]

\* What the providers have of the months that s asks for.
Available(s) == want[s][Current(s)] \cap published[Current(s)]

\* The chain of providers answers with some of the months it is asked for; an
\* empty answer leaves the series out.
SyncFetch(s, months) ==
    /\ pc[s] = "fetch"
    /\ months \subseteq Available(s)
    /\ clean' = [clean EXCEPT ![s] = @ /\ months = Available(s)]
    /\ IF months = {}
       THEN NextSeries(s) /\ UNCHANGED got
       ELSE /\ got' = [got EXCEPT ![s] = months]
            /\ Goto(s, "write")
            /\ UNCHANGED <<queue, want, years>>
    /\ UNCHANGED <<now, page, rows, read, window, due>>

SyncWrite(s) ==
    /\ pc[s] = "write"
    /\ stored' = [stored EXCEPT ![Current(s)] = @ \cup got[s]]
    /\ got' = [got EXCEPT ![s] = {}]
    /\ NextSeries(s)
    /\ UNCHANGED <<now, page, bracket, read, window, due, clean>>

CurrentYear(s) == Min(years[s])

\* Faulty variant of NextYear: goes on to the following year, whether or not it
\* is one of the window.
NextYearByCounting(s) ==
    /\ years' = [years EXCEPT ![s] =
                    (@ \ {CurrentYear(s)}) \cup {CurrentYear(s) + 1}]
    /\ Goto(s, "list")

NextYear(s) ==
    /\ years' = [years EXCEPT ![s] = @ \ {CurrentYear(s)}]
    /\ Goto(s, "list")

\* Faulty variant of ListYear: no year is looked at once there is any bracket.
ListAny(s) ==
    /\ pc[s] = "list"
    /\ years[s] # {}
    /\ IF stored[Brackets] # {}
       THEN NextYear(s)
       ELSE Goto(s, "fetchYear") /\ UNCHANGED years
    /\ UNCHANGED <<now, page, rows, got, read, window, queue, want,
                   due, clean>>

\* _sync_income_tax_brackets: a year with any bracket is left alone.
ListYear(s) ==
    /\ pc[s] = "list"
    /\ years[s] # {}
    /\ IF stored[Brackets] \cap MonthsOf(CurrentYear(s)) # {}
       THEN NextYear(s)
       ELSE Goto(s, "fetchYear") /\ UNCHANGED years
    /\ UNCHANGED <<now, page, rows, got, read, window, queue, want,
                   due, clean>>

\* The rows of a month's table that become brackets: none without a positive
\* first amount, from which the value of the UTM is derived.
Readable(table) ==
    {i \in DOMAIN table : table[i].readable /\ table[1].upper \in 1 .. TopIncome}

\* Faulty variant of Lower: a row that cannot be read moves the bound too.
LowerOfAnyRow(table, i) ==
    LET before == {j \in 1 .. i - 1 : table[j].upper # Open} IN
    IF before = {} THEN 0 ELSE table[Max(before)].upper

\* A row begins where the last row before it ended that could be read and gave
\* an upper amount.
Lower(table, i) ==
    LET before ==
            {j \in 1 .. i - 1 : table[j].readable /\ table[j].upper # Open}
    IN IF before = {} THEN 0 ELSE table[Max(before)].upper

\* _build_monthly_income_tax_brackets: lower and upper bounds of the brackets.
Built(table) == {<<Lower(table, i), table[i].upper>> : i \in Readable(table)}

\* A row without an upper amount leaves the bound to the row after it, and the
\* two have one key.
Clashes(table) ==
    \E i, j \in Readable(table) :
        i # j /\ Lower(table, i) = Lower(table, j)

\* The months of a year for which the page gives brackets by now.
Page(y) == {m \in published[Brackets] \cap MonthsOf(y) :
               Built(Tables[m][version[m]]) # {}}

TakePage(w, months) ==
    /\ got' = [got EXCEPT ![w] = months]
    /\ read' = [read EXCEPT ![w] =
                   [m \in Month |-> IF m \in months THEN version[m] ELSE 0]]

\* The page, or nothing when it cannot be had.
FetchYear(s) ==
    /\ pc[s] = "fetchYear"
    /\ \E months \in {Page(CurrentYear(s)), {}} :
          /\ clean' = [clean EXCEPT ![s] = @ /\ months = Page(CurrentYear(s))]
          /\ IF months = {}
             THEN NextYear(s) /\ UNCHANGED <<got, read>>
             ELSE /\ TakePage(s, months)
                  /\ Goto(s, "writeYear")
                  /\ UNCHANGED years
    /\ UNCHANGED <<now, page, rows, window, queue, want, due>>

\* upsert_income_tax_brackets for one month: rows are replaced by their lower
\* bound and never deleted.
Upserted(old, new) ==
    new \cup {row \in old : \A other \in new : other[1] # row[1]}

Fetched(w, m) == Tables[m][read[w][m]]

\* All rows of a page go into one INSERT ... ON CONFLICT DO UPDATE, which fails
\* as a whole when two of them have one key.
Upsertable(w) == \A m \in got[w] : ~Clashes(Fetched(w, m))

Forget(w) ==
    /\ got' = [got EXCEPT ![w] = {}]
    /\ read' = [read EXCEPT ![w] = Unread]

StoreBrackets(w) ==
    /\ stored' = [stored EXCEPT ![Brackets] = @ \cup got[w]]
    /\ bracket' = [m \in Month |->
                      IF m \in got[w]
                      THEN Upserted(bracket[m], Built(Fetched(w, m)))
                      ELSE bracket[m]]
    /\ Forget(w)

\* Sync s leaves its request.
Leave(s) ==
    /\ Goto(s, "idle")
    /\ window' = [window EXCEPT ![s] = {}]
    /\ queue'  = [queue EXCEPT ![s] = <<>>]
    /\ want'   = [want EXCEPT ![s] = Nothing]
    /\ Forget(s)
    /\ years'  = [years EXCEPT ![s] = {}]
    /\ due'    = [due EXCEPT ![s] = Nothing]
    /\ clean'  = [clean EXCEPT ![s] = TRUE]

\* An upsert that fails is an error of the sync, which leaves.
WriteYear(s) ==
    /\ s \in Syncer
    /\ pc[s] = "writeYear"
    /\ IF Upsertable(s)
       THEN /\ StoreBrackets(s)
            /\ NextYear(s)
            /\ UNCHANGED <<window, queue, want, due, clean>>
       ELSE Leave(s) /\ UNCHANGED rows
    /\ UNCHANGED <<now, page>>

AboutToAnswer(s) == pc[s] = "list" /\ years[s] = {}

FinishSync(s) ==
    /\ AboutToAnswer(s)
    /\ Leave(s)
    /\ UNCHANGED <<now, page, rows>>

\* A database error, a page of brackets that times out (only HTTPError and
\* URLError are caught), or the cancellation of the startup sync at shutdown:
\* what is committed stays.
SyncDies(s) ==
    /\ pc[s] # "idle"
    /\ ~AboutToAnswer(s)
    /\ Leave(s)
    /\ UNCHANGED <<now, page, rows>>

SyncStep(s) ==
    \/ CollectMissing(s)
    \/ \E months \in SUBSET Month : SyncFetch(s, months)
    \/ SyncWrite(s)
    \/ ListYear(s)
    \/ FetchYear(s)
    \/ WriteYear(s)
    \/ FinishSync(s)

-----------------------------------------------------------------------------
\* RefreshIncomeTaxBrackets

\* An empty page is an error, and nothing happens.
RefreshFetch(r, y) ==
    /\ pc[r] = "idle"
    /\ Page(y) # {}
    /\ TakePage(r, Page(y))
    /\ Goto(r, "writeYear")
    /\ UNCHANGED <<now, page, rows, syncVars>>

RefreshWrite(r) ==
    /\ r \in Refresher
    /\ pc[r] = "writeYear"
    /\ IF Upsertable(r) THEN StoreBrackets(r) ELSE Forget(r) /\ UNCHANGED rows
    /\ Goto(r, "idle")
    /\ UNCHANGED <<now, page, syncVars>>

-----------------------------------------------------------------------------
\* GET /income-tax-brackets for a date of month m and a taxable base: the rows
\* that get_income_tax_bracket selects.  It expects at most one; the client
\* gets 404 for none and 500 for two.
Matching(m, income) ==
    {row \in bracket[m] : row[1] <= income /\ income < row[2]}

-----------------------------------------------------------------------------
Next ==
    \/ NextMonth
    \/ \E k \in Kind : Publish(k)
    \/ \E m \in Month : Correct(m)
    \/ \E s \in Syncer : StartSync(s) \/ SyncStep(s) \/ SyncDies(s)
    \/ \E r \in Refresher :
          RefreshWrite(r) \/ \E y \in Year : RefreshFetch(r, y)

Spec == Init /\ [][Next]_vars

\* Syncs are repeated (docs/api.md:853-856), the event loop runs one that has
\* started, months go by, and from some time on no sync dies and the providers
\* give all they have.
FairSpec ==
    /\ Spec
    /\ WF_vars(NextMonth)
    /\ \A s \in Syncer :
          /\ WF_vars(StartSync(s) \/ SyncStep(s))
          /\ <>[][clean[s] => clean'[s]]_vars
          /\ <>[][~SyncDies(s)]_vars

-----------------------------------------------------------------------------
\* Properties

\* What was published for the window of a sync when it began is stored.
Covered(s, k) == due[s][k] \subseteq stored[k]

\* A sync is about to answer, and its providers gave all they had.
Succeeds(s) == AboutToAnswer(s) /\ clean[s]

\* After a sync whose providers gave all they had, no published month of its
\* window is missing in the series, whatever ran meanwhile.
SyncClosesGaps ==
    \A s \in Syncer : Succeeds(s) =>
        \A k \in Kind \ {Brackets} : Covered(s, k)

\* The page has given brackets for month m ever since it has the month.
AlwaysLegible(m) == \A v \in 1 .. version[m] : Built(Tables[m][v]) # {}

\* Brackets: a published month of the window is missing only if its table gave
\* none, or if the table of the database has another month of its year.
NewYearsArrive ==
    \A s \in Syncer : Succeeds(s) =>
        \A m \in due[s][Brackets] \ stored[Brackets] :
            AlwaysLegible(m) => stored[Brackets] \cap MonthsOf(YearOf(m)) # {}

Under(income, brackets) == \E row \in brackets : income < row[2]

\* The amounts of the rows that can be read ascend, where they are given.
Ascends(table) ==
    \A i, j \in {k \in Readable(table) : table[k].upper # Open} :
        i < j => table[i].upper < table[j].upper

\* The brackets of a stored month leave no gap under the last bound that was
\* read of some version of its table, whatever rows of it were lost, and in
\* whatever order syncs and refreshes upsert the versions they read.  As long as
\* the page did not correct the month, no base has two: tables that would give
\* it two are refused.  Bases that no readable row reaches have none, which is
\* the top of a month whose last row is lost; and a corrected month may keep
\* rows of the old bounds beside the new ones.
BracketsLeaveNoGap ==
    \A m \in stored[Brackets] :
        /\ \E v \in 1 .. version[m] :
              /\ Built(Tables[m][v]) # {}
              /\ \A income \in Income :
                    Under(income, Built(Tables[m][v])) =>
                        Matching(m, income) # {}
        /\ version[m] = 1 /\ Ascends(Tables[m][1]) =>
              \A income \in Income : Cardinality(Matching(m, income)) <= 1

\* "Fetches exchange rates and income tax brackets for the requested window"
\* (docs/api.md, POST /sync): the year stops being looked at with its first
\* month, so no later month of it arrives.
BracketsCoverWindow == \A s \in Syncer : Succeeds(s) => Covered(s, Brackets)

\* However syncs die and providers fail, the months of a series that the last
\* windows cover are stored in the end.
MonthsArrive ==
    \A k \in Kind \ {Brackets} :
        LastMonth \in published[k] ~> LastMonth \in stored[k]
=============================================================================

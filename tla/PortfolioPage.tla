---------------------------- MODULE PortfolioPage ----------------------------
(***************************************************************************)
(* The portfolio page and the caches behind it: refresh, renderChart and    *)
(* renderFlows of portfolio/portfolio-page.component.js, over computeBase    *)
(* and computeIbSnapshot of portfolio/portfolio-data.js.                    *)
(*                                                                         *)
(* The three parts of the page are computed one after the other, each from  *)
(* a base it asks for itself.  Holdings, prices and history are a version   *)
(* number here: what is computed while they change may have either.         *)
(***************************************************************************)
EXTENDS Naturals

CONSTANTS
  Currency,     \* the currency select
  From,         \* the start of the period: month and year select
  Granularity,  \* the buttons of the chart
  Default,      \* what they are when the page is opened
  Run,          \* refreshes and chart renders that may be under way at once
  MaxClicks,    \* bound: times the user changes a select or clicks a button
  MaxWorld      \* bound: versions of the holdings and prices

ASSUME WorldAssumption ==
  Default \in [currency : Currency, from : From, grain : Granularity] /\ MaxClicks \in Nat /\ MaxWorld \in Nat

VARIABLES
  world,        \* the version the storage and the price service would answer with now
  baseCache,    \* per currency: a version, or 0
  ibCache,      \* per currency and date: what the opening was computed from, or Nothing
  select,       \* the selects, and the chart's granularity
  current,      \* this.currentCurrency and this.currentFromDate, or Nothing
  run,          \* run[r]: what r computes
  busy,         \* are the Refresh button and the currency select disabled?
  summary, chart, flows,   \* the parts of the page, or Nothing where hidden or not drawn
  overlapped,   \* have two runs been under way at once, since a refresh began alone?
  clicks,       \* the bounded count of them
  moved         \* has the world changed under a Refresh, since a refresh began alone?

portfolioVars ==
  <<world, baseCache, ibCache, select, current, run, busy, summary, chart, flows, overlapped, clicks,
    moved>>

Nothing == [none |-> TRUE]
IdleRun == [part |-> "idle"]
AtWork == {r \in Run : run[r].part # "idle"}

\* What the run needs a base for, with which bases are cached as it begins; `moves` is the
\* base of the movements, once it has them.
Computing(part, of, grain, force, cached) ==
  LET fresh == force \/ cached[of.currency] = 0
  IN [part |-> part, of |-> of, grain |-> grain, force |-> force, fresh |-> fresh,
      since |-> IF fresh THEN world ELSE 0, moves |-> 0]

PortfolioInit ==
  /\ world = 1
  /\ baseCache = [c \in Currency |-> 0]
  /\ ibCache = [c \in Currency |-> [d \in From |-> Nothing]]
  /\ select = Default
  /\ current = Nothing
  /\ run = [r \in Run |-> IdleRun]
  /\ busy = FALSE
  /\ summary = Nothing /\ chart = Nothing /\ flows = Nothing
  /\ overlapped = FALSE /\ clicks = 0 /\ moved = FALSE

---------------------------------------------------------------------------
(* What the user does. *)

Starts(r, state) ==
  /\ run[r].part = "idle" /\ clicks < MaxClicks
  /\ run' = [run EXCEPT ![r] = state]
  /\ clicks' = clicks + 1

\* refresh, from the page's init, a select or the button.
Refresh(r, to, force) ==
  /\ select' = to
  /\ current' = [currency |-> to.currency, from |-> to.from]
  /\ Starts(r, Computing("summary", current', to.grain, force, baseCache))
  /\ busy' = TRUE
  /\ moved' = (moved /\ AtWork # {})
  /\ overlapped' = (AtWork # {})
  /\ UNCHANGED <<world, baseCache, ibCache, summary, chart, flows>>

Opens(r) == current = Nothing /\ Refresh(r, select, FALSE)

ChooseCurrency(r, c) ==
  /\ current # Nothing /\ ~busy /\ c # select.currency
  /\ Refresh(r, [select EXCEPT !.currency = c], FALSE)

ChooseFrom(r, d) ==
  /\ current # Nothing /\ d # select.from
  /\ Refresh(r, [select EXCEPT !.from = d], FALSE)

ClickRefresh(r) == current # Nothing /\ ~busy /\ Refresh(r, select, TRUE)

\* A granularity button draws the chart only.
ChooseGranularity(r, n) ==
  /\ current # Nothing /\ n # select.grain
  /\ select' = [select EXCEPT !.grain = n]
  /\ Starts(r, Computing("granularity", current, n, FALSE, baseCache))
  /\ overlapped' = (overlapped \/ AtWork # {})
  /\ chart' = Nothing
  /\ UNCHANGED <<world, baseCache, ibCache, current, busy, summary, flows, moved>>

---------------------------------------------------------------------------
(* The parts of the page. *)

\* computeBase: what is cached, or one of the versions seen while it was computed.
Bases(r) == IF run[r].fresh THEN run[r].since .. world ELSE {baseCache[run[r].of.currency]}
CacheBase(r, v) == baseCache' = [baseCache EXCEPT ![run[r].of.currency] = v]

\* computeIbSnapshot: once per currency and date.  Mutant: once per currency.
CachedForCurrency(of) ==
  {ibCache[of.currency][d] : d \in From} \ {Nothing}
CachedIb(of) == {ibCache[of.currency][of.from]} \ {Nothing}

IbSnapshot(of, v) ==
  IF CachedIb(of) # {} THEN CHOOSE ib \in CachedIb(of) : TRUE ELSE [from |-> of.from, base |-> v]
CacheIb(r, v) ==
  ibCache' = [ibCache EXCEPT ![run[r].of.currency][run[r].of.from] = IbSnapshot(run[r].of, v)]

\* What fails may have come as far as to cache the base, and the opening after it.
MayCacheBase(r) == UNCHANGED baseCache \/ \E v \in Bases(r) : CacheBase(r, v)
MayCache(r) ==
  \/ MayCacheBase(r) /\ UNCHANGED ibCache
  \/ \E v \in Bases(r) : CacheBase(r, v) /\ CacheIb(r, v)

\* calculatePortfolio; renderChart then draws what the page is at by now.
SummaryReady(r) ==
  /\ run[r].part = "summary"
  /\ \E v \in Bases(r) :
       /\ CacheBase(r, v) /\ CacheIb(r, v)
       /\ summary' = [of |-> run[r].of, base |-> v, opening |-> IbSnapshot(run[r].of, v)]
  /\ busy' = FALSE
  /\ run' = [run EXCEPT ![r] = Computing("chart", current, select.grain, @.force, baseCache')]
  /\ chart' = Nothing
  /\ UNCHANGED <<world, select, current, flows, overlapped, clicks, moved>>

\* refresh's catch: the summary and the chart are hidden.
SummaryFails(r) ==
  /\ run[r].part = "summary"
  /\ busy' = FALSE
  /\ run' = [run EXCEPT ![r] = IdleRun]
  /\ summary' = Nothing /\ chart' = Nothing
  /\ MayCache(r)
  /\ UNCHANGED <<world, select, current, flows, overlapped, clicks, moved>>

\* renderFlows follows the chart of a refresh, drawn or not.
AfterChart(r, cached) ==
  IF run[r].part = "granularity" THEN IdleRun
  ELSE Computing("flows", current, select.grain, run[r].force, cached)

ChartReady(r) ==
  /\ run[r].part \in {"chart", "granularity"}
  /\ \E v \in Bases(r) :
       /\ CacheBase(r, v)
       /\ chart' = [of |-> run[r].of, base |-> v, grain |-> run[r].grain]
  /\ run' = [run EXCEPT ![r] = AfterChart(r, baseCache')]
  /\ UNCHANGED <<world, ibCache, select, current, busy, summary, flows, overlapped, clicks, moved>>

ChartFails(r) ==
  /\ run[r].part \in {"chart", "granularity"}
  /\ chart' = Nothing
  /\ MayCacheBase(r)
  /\ run' = [run EXCEPT ![r] = AfterChart(r, baseCache')]
  /\ UNCHANGED <<world, ibCache, select, current, busy, summary, flows, overlapped, clicks, moved>>

\* calculateFlowDecomposition asks for a base twice: for the movements, and, through
\* calculatePortfolio, for what they are to explain.
MovementsReady(r) ==
  /\ run[r].part = "flows"
  /\ \E v \in Bases(r) :
       /\ CacheBase(r, v)
       /\ run' = [run EXCEPT ![r] =
            [Computing("explain", run[r].of, run[r].grain, run[r].force, baseCache') EXCEPT !.moves = v]]
  /\ UNCHANGED <<world, ibCache, select, current, busy, summary, chart, flows, overlapped, clicks, moved>>

FlowsReady(r) ==
  /\ run[r].part = "explain"
  /\ \E v \in Bases(r) :
       /\ CacheBase(r, v) /\ CacheIb(r, v)
       /\ flows' = [of |-> run[r].of, moves |-> run[r].moves, base |-> v,
                    opening |-> IbSnapshot(run[r].of, v)]
  /\ run' = [run EXCEPT ![r] = IdleRun]
  /\ UNCHANGED <<world, select, current, busy, summary, chart, overlapped, clicks, moved>>

FlowsFail(r) ==
  /\ run[r].part \in {"flows", "explain"}
  /\ flows' = Nothing
  /\ run' = [run EXCEPT ![r] = IdleRun]
  /\ IF run[r].part = "flows" THEN MayCacheBase(r) /\ UNCHANGED ibCache ELSE MayCache(r)
  /\ UNCHANGED <<world, select, current, busy, summary, chart, overlapped, clicks, moved>>

\* An import, a sync, a quote, or a price history that grows.
WorldMoves ==
  /\ world < MaxWorld
  /\ world' = world + 1
  /\ moved' = (moved \/ \E r \in AtWork : run[r].fresh)
  /\ UNCHANGED <<baseCache, ibCache, select, current, run, busy, summary, chart, flows, overlapped, clicks>>

PortfolioNext ==
  \/ WorldMoves
  \/ \E r \in Run :
       \/ Opens(r) \/ ClickRefresh(r)
       \/ \E c \in Currency : ChooseCurrency(r, c)
       \/ \E d \in From : ChooseFrom(r, d)
       \/ \E n \in Granularity : ChooseGranularity(r, n)
       \/ SummaryReady(r) \/ SummaryFails(r) \/ ChartReady(r) \/ ChartFails(r)
       \/ MovementsReady(r) \/ FlowsReady(r) \/ FlowsFail(r)

PortfolioSpec == PortfolioInit /\ [][PortfolioNext]_portfolioVars

---------------------------------------------------------------------------
(* Properties. *)

\* A part that is shown is for what the selects say, and computed from the summary's base.
Meets(part) == part # Nothing => part.of = summary.of /\ part.base = summary.base

\* When the page is quiet after a refresh that no other run overlapped, and nothing changed
\* while Refresh computed anew, its three parts agree: one currency, period and base, the
\* flows' movements and the opening's date included.  What other runs left behind before, in
\* the caches or on the page, does not matter, save that the opening may be of another base.
ChartMeetsSummary ==
  AtWork = {} /\ ~overlapped /\ ~moved /\ summary # Nothing =>
    /\ summary.of = [currency |-> select.currency, from |-> select.from]
    /\ summary.opening.from = select.from
    /\ Meets(chart) /\ (chart # Nothing => chart.grain = select.grain)
    /\ Meets(flows) /\ (flows # Nothing => flows.moves = flows.base /\ flows.opening = summary.opening)
=============================================================================

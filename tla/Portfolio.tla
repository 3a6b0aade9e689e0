------------------------------ MODULE Portfolio ------------------------------
(***************************************************************************)
(* Where the portfolio's money came from: portfolio/flow-extract.js,        *)
(* flow-decomposition.js, portfolio-transfers.js and portfolio-data.js.     *)
(*                                                                         *)
(* The movements of all tokens' year reports are told apart into what       *)
(* crossed the portfolio's edge and what only moved inside it: swaps share  *)
(* a key; a move between two buckets and a trade settled in two             *)
(* transactions do not, and are recognized by address, units, time and      *)
(* counterparty.  What crossed is set against the change of the portfolio's *)
(* value, and the result is checked against the books.                      *)
(***************************************************************************)
EXTENDS YearReport, SequencesExt

CONSTANTS
  TokenOrder,   \* the tokens, as the pages go through them
  Bucket,       \* Bucket[t]: "native", "intents" or "confidential"
  Asset,        \* Asset[t]: what t is underneath
  Yield,        \* those of ReceivedFrom that pay on what is held
  Custody, Gateway, Trader,  \* contracts that only give back; intents.near; market makers
  Implicit,     \* accounts of others whose names are 64 hexadecimal digits
  Window,       \* the time within which two legs are one trade
  From          \* the first day of the period

ASSUME TokenOrderAssumption == Range(TokenOrder) = Token

Venue == Custody \cup Gateway

VARIABLE view   \* what the portfolio page shows

---------------------------------------------------------------------------
(* Movements. *)

NoKey == <<0, "none">>

Movement(t, d, units, kind, key, peers, at) ==
  [token |-> t, date |-> d, units |-> units, kind |-> kind, key |-> key,
   counterparties |-> peers, at |-> at]

MovementsOf(entry, receipts, t, d) ==
  LET flow(f) == Movement(t, d, Magnitude(f.changed), IF f.changed > 0 THEN "deposit" ELSE "withdrawal",
                          SwapKeyForHash(f.hash), f.counterparties, f.at)
      paid(r) == Movement(t, d, r.amount, IF r.account \in Yield THEN "yield" ELSE "income", NoKey, {}, 0)
      visited == InOrder(entry.flows)
  IN [n \in DOMAIN visited |-> flow(visited[n])]
     \o [n \in DOMAIN receipts |-> paid(receipts[n])]
     \o (IF entry.expense = 0 THEN <<>>
         ELSE <<Movement(t, d, entry.expense, "expense", NoKey, {}, 0)>>)

MovementsForToken(pass, t, d) ==
  LET of(entry) == MovementsOf(entry, SetToSeq(entry.receivedFrom), t, d) IN of(Entry(pass[t], d))

\* Of the period, token by token.
Movements(pass) ==
  LET ofToken(t) == FlattenSeq([n \in 1 .. LastDay + 1 - From |-> MovementsForToken(pass, t, From + n - 1)])
  IN FlattenSeq([n \in DOMAIN TokenOrder |-> ofToken(TokenOrder[n])])

ValueOf(m) == IF Price[m.date][m.token] = NoPrice THEN Null ELSE m.units * Price[m.date][m.token]

Worth(L, N) == MapThenSumSet(LAMBDA n : ValueOf(L[n]), N)
Known(L, N) == \A n \in N : ValueOf(L[n]) # Null
Inflows(L, N) == {n \in N : L[n].kind \in {"deposit", "income"}}
Outflows(L, N) == {n \in N : L[n].kind \in {"withdrawal", "expense"}}

\* Two values within a quarter of the larger.
Near25(v, w) == 4 * Magnitude(v - w) <= Max({v, w})

---------------------------------------------------------------------------
(* Swaps. *)

\* Mutant: gas counts as a side.
StripNothing(L, group) == group

\* The legs of a key that are more than the cost of transacting.
StripTransactionCosts(L, group) ==
  LET scale == Max({0} \cup {ValueOf(L[n]) : n \in group})
  IN IF Cardinality(group) < 2 \/ scale = 0 THEN group
     ELSE {n \in group : ValueOf(L[n]) = Null \/ 100 * ValueOf(L[n]) >= scale}

Verdict(L, legs) ==
  LET ins == Inflows(L, legs)
      outs == Outflows(L, legs)
  IN IF ins = {} \/ outs = {} \/ ~Known(L, legs) THEN "external"
     ELSE IF Near25(Worth(L, ins), Worth(L, outs)) THEN "internal" ELSE "suspect"

\* groups: the legs of each key, where the key comes first and what the legs are; loose:
\* what has no key; costs: the rest.
SeparateSwaps(L) ==
  LET keyed == {n \in DOMAIN L : L[n].key # NoKey}
      all == {{m \in keyed : L[m].key = L[n].key} : n \in keyed}
      groupOf(group, legs) == [legs |-> legs, first |-> Min(group), verdict |-> Verdict(L, legs)]
      groups == {groupOf(group, StripTransactionCosts(L, group)) : group \in all}
  IN [groups |-> groups,
      costs |-> keyed \ UNION {g.legs : g \in groups},
      loose |-> DOMAIN L \ keyed]

\* The order in which legs are offered to the next step: those without a key, those of
\* keys that are no swap, those of swaps whose sides differ too much.
Candidates(L, swaps) ==
  LET groupOf(n) == CHOOSE g \in swaps.groups : n \in g.legs
      offered == swaps.loose \cup UNION {g.legs : g \in {h \in swaps.groups : h.verdict # "internal"}}
      rank(n) == IF n \in swaps.loose THEN <<0, n, n>>
                 ELSE <<IF groupOf(n).verdict = "external" THEN 1 ELSE 2, groupOf(n).first, n>>
      before(m, n) == LET a == rank(m) b == rank(n)
                      IN \E i \in 1 .. 3 : a[i] < b[i] /\ \A j \in 1 .. i - 1 : a[j] = b[j]
  IN SetToSortSeq(offered, before)

---------------------------------------------------------------------------
(* Moves between the portfolio's own buckets.  M: the candidates in their order.  A rule *)
(* adds transfers, each a set of legs, to those the rules before it have found.          *)

Movable(M) == {n \in DOMAIN M : M[n].kind \in {"deposit", "withdrawal"}}
Free(M, found) == Movable(M) \ UNION found
Opposite(a, b) == a.kind # b.kind

\* Mutant: as far as time and value go.
TradedAnywhere(m) == TRUE

\* Somebody's account in intents, or a deposit address.
IsImplicit(p) == p \in Implicit \/ p \in Nat \X {"address"}

\* Is the other side of a leg somebody who trades?
TradedInsideAVenue(m) ==
  IF m.counterparties = {} THEN Bucket[m.token] = "intents"
  ELSE \A p \in m.counterparties : p \in Venue \cup Trader \/ IsImplicit(p)

\* Mutant: the address is looked for on the wrong side.
DepositAddressesSwapped(M, before) ==
  LET pair(found, s) ==
        LET credited == {c \in Free(M, found) : M[s].key \in M[c].counterparties /\ Opposite(M[c], M[s])}
        IN IF s \notin Free(M, found) \/ credited = {} \/ Bucket[M[s].token] = "confidential" THEN found
           ELSE found \cup {{s, Min(credited)}}
  IN FoldLeftDomain(pair, before, M)

\* 0. The public leg names the deposit address that is the confidential leg's key.
DepositAddresses(M, before) ==
  LET pair(found, s) ==
        LET credited == {c \in Free(M, found) :
              /\ Bucket[M[c].token] = "confidential"
              /\ M[c].key \in M[s].counterparties
              /\ Opposite(M[c], M[s])}
        IN IF s \notin Free(M, found) \/ Bucket[M[s].token] = "confidential" \/ credited = {} THEN found
           ELSE found \cup {{s, Min(credited)}}
  IN FoldLeftDomain(pair, before, M)

\* 1. The same asset and units leave one bucket and arrive in another on the same day.
BucketTransfers(M, before) ==
  LET pair(found, i) ==
        LET partners == {j \in Free(M, found) :
              /\ j > i /\ Opposite(M[i], M[j]) /\ M[i].date = M[j].date
              /\ Asset[M[i].token] = Asset[M[j].token] /\ Bucket[M[i].token] # Bucket[M[j].token]
              /\ M[i].units = M[j].units}
        IN IF i \notin Free(M, found) \/ partners = {} THEN found ELSE found \cup {{i, Min(partners)}}
  IN FoldLeftDomain(pair, before, M)

\* 2. Two assets, of about one value, within the window: the nearest in time.
VenueTrades(M, before) ==
  LET apart(i, j) == Magnitude(M[i].at - M[j].at)
      pair(found, i) ==
        LET partners == {j \in Free(M, found) :
              /\ Opposite(M[i], M[j]) /\ Asset[M[i].token] # Asset[M[j].token]
              /\ TradedInsideAVenue(M[i]) /\ TradedInsideAVenue(M[j])
              /\ apart(i, j) <= Window
              /\ Known(M, {i, j}) /\ Near25(ValueOf(M[i]), ValueOf(M[j]))}
            nearest == {j \in partners : \A k \in partners : apart(i, j) <= apart(i, k)}
        IN IF i \notin Free(M, found) \/ partners = {} THEN found ELSE found \cup {{i, Min(nearest)}}
  IN FoldLeftDomain(pair, before, M)

\* 2b. One purchase paid in lots of the same day: the latest of them that add up.
Instalments(M, before) ==
  LET earlier(i, j) == M[i].at < M[j].at \/ (M[i].at = M[j].at /\ i < j)
      arrivals == SetToSortSeq({n \in Free(M, before) :
                                  M[n].kind = "deposit" /\ TradedInsideAVenue(M[n])}, earlier)
      pay(found, got) ==
        LET lots == {n \in Free(M, found) :
              /\ M[n].kind = "withdrawal" /\ M[n].date = M[got].date
              /\ Asset[M[n].token] # Asset[M[got].token]
              /\ TradedInsideAVenue(M[n]) /\ M[n].at <= M[got].at}
            latest(k) == {n \in lots : Cardinality({m \in lots : earlier(n, m)}) < k}
            enough == {k \in 2 .. Cardinality(lots) :
              Known(M, latest(k)) /\ Near25(Worth(M, latest(k)), ValueOf(M[got]))}
        IN IF ValueOf(M[got]) = Null \/ enough = {} THEN found
           ELSE found \cup {latest(Min(enough)) \cup {got}}
  IN FoldLeft(pay, before, arrivals)

\* Mutant: a withdrawal through intents.near stays inside, too.
OneSidedBothWays(m) ==
  /\ m.kind \in {"deposit", "withdrawal"} /\ m.counterparties # {}
  /\ m.counterparties \subseteq Trader \cup Venue

\* 3. One leg alone, by who was on the other side: a market maker; a venue it came from; a
\* contract that can only give back.
OneSided(m) ==
  /\ m.kind \in {"deposit", "withdrawal"} /\ m.counterparties # {}
  /\ \/ m.counterparties \subseteq Trader
     \/ m.counterparties \subseteq Venue /\ (m.kind = "deposit" \/ m.counterparties \subseteq Custody)

SeparatePortfolioTransfers(M) ==
  LET found == Instalments(M, VenueTrades(M, BucketTransfers(M, DepositAddresses(M, {}))))
  IN found \cup {{n} : n \in {k \in Free(M, found) : OneSided(M[k])}}

---------------------------------------------------------------------------
(* The decomposition of a period. *)

NeverPriced == {t \in Token : \A d \in 1 .. LastDay : Price[d][t] = NoPrice}

\* Of the movements in the order they are offered: what are transfers, what is left, and the
\* swaps whose sides differ and stay apart.
SeparatedFrom(L, swaps, cand, M, transfers) ==
  [live |-> L, movements |-> M, transfers |-> transfers, external |-> DOMAIN M \ UNION transfers,
   suspect |-> {{k \in DOMAIN cand : cand[k] \in g.legs} :
                  g \in {h \in swaps.groups : h.verdict = "suspect"}},
   costs |-> [k \in swaps.costs |-> L[k]]]

\* Movements, less swaps.
SeparatedOf(movements) ==
  LET withTransfers(L, swaps, cand, M) ==
        SeparatedFrom(L, swaps, cand, M, SeparatePortfolioTransfers(M))
      withOrder(L, swaps, cand) == withTransfers(L, swaps, cand, [k \in DOMAIN cand |-> L[cand[k]]])
      withSwaps(L, swaps) == withOrder(L, swaps, Candidates(L, swaps))
      of(L) == withSwaps(L, SeparateSwaps(L))
  IN of(movements)

\* Of the tokens not skipped, over the whole period.
Separated(pass, skip) == SeparatedOf(SelectSeq(Movements(pass), LAMBDA m : m.token \notin skip))

\* Suspects that no transfer resolves.
Ambiguous(s) == {g \in s.suspect : g \cap s.external # {}}

Decomposition(s) ==
  LET M == s.movements
      sum(kinds) == Worth(M, {n \in s.external : M[n].kind \in kinds})
      single == {n \in UNION s.transfers : {n} \in s.transfers}
      paid == DOMAIN s.costs
  IN [ok |-> Known(M, s.external) /\ Ambiguous(s) = {},
      movements |-> M, transfers |-> s.transfers, external |-> s.external,
      deposits |-> sum({"deposit"}), income |-> sum({"income"}),
      withdrawals |-> sum({"withdrawal", "expense"}), earned |-> sum({"yield"}),
      oneSided |-> LET known == {n \in single : ValueOf(M[n]) # Null}
                   IN Worth(M, Inflows(M, known)) - Worth(M, Outflows(M, known)),
      costs |-> Worth(s.costs, Outflows(s.costs, paid)) - Worth(s.costs, Inflows(s.costs, paid))]

---------------------------------------------------------------------------
(* The combined view of the year report: one row a day for all tokens that had a price in *)
(* the period.  It never refuses: it counts what it can and marks the day.                *)

LeftOut(today) == {t \in Token : \A d \in From .. today : Price[d][t] = NoPrice}

Taken == {"withdrawal", "expense"}

FlowsOfDay(s, d) ==
  LET M == s.movements
      today == {n \in s.external : M[n].date = d}
      sum(kinds) == Worth(M, {n \in today : M[n].kind \in kinds /\ ValueOf(M[n]) # Null})
  IN [deposit |-> sum({"deposit"}), withdrawal |-> sum(Taken),
      unpriced |-> {M[n].token : n \in {k \in today : ValueOf(M[k]) = Null}},
      ambiguous |-> {g \in Ambiguous(s) : M[Min(g)].date = d}]

\* Mutant: each day's movements are separated on their own.
PortfolioFlowsByDay(s, today) ==
  LET alone(d) == SeparatedOf(SelectSeq(s.live, LAMBDA m : m.date = d))
  IN [d \in From .. today |-> FlowsOfDay(alone(d), d)]

PortfolioFlows(s, today) == [d \in From .. today |-> FlowsOfDay(s, d)]

---------------------------------------------------------------------------
(* The portfolio's value and its books. *)

LiquidNear(rs, d) ==
  LET upTo(a) == SelectSeq(rs[a][Near], LAMBDA r : r.day <= d)
  IN MapThenSumSet(LAMBDA a : IF upTo(a) = <<>> THEN 0 ELSE Last(upTo(a)).balance, Accounts)

\* The latest day's, of the days on which anything was staked.
StakedRaw(pools, d) ==
  LET days == {x \in 1 .. d : pools[x] # 0} IN IF days = {} THEN 0 ELSE pools[Max(days)]


\* Holdings at the end of day d at the prices of day at: what they are worth, and what of
\* it they did not cost.  costsOf: the tokens whose cost counts.
Snapshot(book, rs, pools, d, at, costsOf) ==
  LET liquid == LiquidNear(rs, d)
      amount(t) == IF t = Near /\ liquid + pools[d] > 0 THEN liquid ELSE RemainingOf(book[t])
      staked == StakedRaw(pools, d) * Price[at][Near]
      value == MapThenSumSet(LAMBDA t : amount(t) * Price[at][t], Token)
      cost == MapThenSumSet(LAMBDA t : CostBasis(book[t]), costsOf)
      stakedHasCost == pools[d] > 0 /\ CostBasis(book[Near]) > 0
  IN [total |-> value + staked, unrealized |-> value - cost + (IF stakedHasCost THEN staked ELSE 0)]

RealizedIn(book) == MapThenSumSet(LAMBDA t : book[t].profit - book[t].loss, Token)

\* calculatePortfolio and calculateFlowDecomposition: what the portfolio gained beyond what
\* crossed its edge, less what the books have realized, hold unrealized and earned.
ViewOf(flows, days, pools, full, before, now, ib, today) ==
  [flows |-> flows, days |-> days, staked |-> StakedRaw(pools, today),
   difference |->
     now.total - ib.total - (flows.deposits + flows.income - flows.withdrawals)
     - (RealizedIn(full) - RealizedIn(before)) - (now.unrealized - ib.unrealized)
     - flows.earned - flows.oneSided]

EmptyView ==
  [flows |-> [ok |-> TRUE, movements |-> <<>>, transfers |-> {}, external |-> {}, deposits |-> 0,
              income |-> 0, withdrawals |-> 0, earned |-> 0, oneSided |-> 0, costs |-> 0],
   days |-> <<>>, staked |-> 0, difference |-> 0]

\* The page is shown of a period that has begun.
ShowPortfolio ==
  \E rs \in {rows'}, pools \in {stake'}, full \in {books'}, today \in {day'} :
    IF today < From THEN view' = EmptyView
    ELSE
      \E pass \in {[t \in Token |-> Pass(rs, t)]} :
      \E before \in {[t \in Token |-> CalculateProfitLoss(pass, priced', t, From - 1)]},
         sides \in {Separated(pass, NeverPriced)} :
      \E combined \in {IF LeftOut(today) = NeverPriced THEN sides ELSE Separated(pass, LeftOut(today))} :
        view' = ViewOf(Decomposition(sides), PortfolioFlows(combined, today), pools, full, before,
                       Snapshot(full, rs, pools, today, today, {t \in Token : Price[today][t] # NoPrice}),
                       Snapshot(before, rs, pools, From - 1, From, Token), today)

PortfolioInit == Init /\ view = EmptyView
PortfolioNext == Next /\ ShowPortfolio
PortfolioSpec == PortfolioInit /\ [][PortfolioNext]_<<vars, view>>

---------------------------------------------------------------------------
(* Properties. *)

Moved == view.flows.movements
DeedOf(n) == done[Moved[n].key[1]]
WithEdge(N, edge) == {n \in N : Moved[n].key # NoKey /\ DeedOf(n).edge = edge}

\* Somebody known by name, who is none of those that trade or hold the owner's money.
Person(p) == p \notin Venue \cup Trader /\ ~IsImplicit(p)

\* What looks like the same money in two buckets on one day.
SameMoney(T) ==
  \E m, n \in T :
    /\ T = {m, n} /\ Opposite(Moved[m], Moved[n]) /\ Moved[m].date = Moved[n].date
    /\ Asset[Moved[m].token] = Asset[Moved[n].token] /\ Moved[m].units = Moved[n].units
    /\ Bucket[Moved[m].token] # Bucket[Moved[n].token]

\* What looks like a trade: against another asset, of about the value, within the window or
\* in instalments of the day, and nobody with a name had a part in it.
LooksLikeATrade(T) ==
  /\ \A n \in T : ~\E p \in Moved[n].counterparties : Person(p)
  /\ \E got \in Inflows(Moved, T) :
       /\ Inflows(Moved, T) = {got}
       /\ \A n \in T \ {got} :
            /\ Asset[Moved[n].token] # Asset[Moved[got].token]
            /\ \/ Moved[n].date = Moved[got].date /\ Cardinality(T) > 2
               \/ Magnitude(Moved[n].at - Moved[got].at) <= Window
  /\ Near25(Worth(Moved, Inflows(Moved, T)), Worth(Moved, Outflows(Moved, T)))

\* Money that really left or came in is hidden only together with other money it cannot be
\* told from: never by who was on the other side alone, and never, whatever its time and
\* value, behind another movement when somebody with a name sent or got it, but for the
\* same units of the same asset in another bucket that day.
GenuineFlowsAreSeen ==
  \A T \in view.flows.transfers : WithEdge(T, "crosses") # {} => SameMoney(T) \/ LooksLikeATrade(T)

\* A shielding, an unshielding or a trade in two transactions leaves no part of itself
\* among what crossed the edge, unless its other part was taken for half of something else.
OwnMovesStayInside ==
  \A n \in WithEdge(view.flows.external, "inside") :
    \E T \in view.flows.transfers : \E m, k \in T :
      Moved[m].key[1] = Moved[n].key[1] /\ Moved[k].key[1] # Moved[n].key[1]

\* The year report's days are the portfolio's flows, taken apart: they add up to what the
\* decomposition says, and where that refuses, a day is marked or a token is left out.
DaysAgree ==
  LET total(amount(_)) == MapThenSumSet(LAMBDA d : amount(view.days[d]), DOMAIN view.days)
      marked == \E d \in DOMAIN view.days :
                  view.days[d].unpriced # {} \/ view.days[d].ambiguous # {}
  IN IF view.flows.ok
     THEN /\ total(LAMBDA e : e.deposit) = view.flows.deposits
          /\ total(LAMBDA e : e.withdrawal) = view.flows.withdrawals
          /\ ~marked
     ELSE marked \/ LeftOut(day) # {}

TradeGap(T) ==
  Worth(Moved, Inflows(Moved, T)) - Worth(Moved, Outflows(Moved, T))

Expenses == MapThenSumSet(LAMBDA n : ValueOf(Moved[n]),
                          {n \in view.flows.external : Moved[n].kind = "expense"})

CostWithoutPrice ==
  MapThenSumSet(LAMBDA t : CostBasis(books[t]), {t \in Token : Price[day][t] = NoPrice})

\* The change of the portfolio's value less what crossed its edge is what the books have
\* realized and hold unrealized: two ways through all movements that must not count one of
\* them twice or not at all.  Four things set them apart: expenses, which realize nothing,
\* gas, which is no flow but is sold in the books, the gap between the two sides of a trade
\* settled in two transactions, and the cost of what has no price today, which is among the
\* opening's costs and not among today's.
Reconciles ==
  /\ day >= From /\ view.flows.ok
  /\ \A t \in Token : books[t].short = 0
  /\ \A n \in DOMAIN priced : priced[n] = NoPrice
  /\ view.staked = stake[day] /\ RewardsOf(done) = 0
  => view.difference = Expenses - view.flows.costs - CostWithoutPrice
       + MapThenSumSet(TradeGap, {T \in view.flows.transfers : Cardinality(T) > 1})

\* "Current = latest staking balance".
StakedIsLatest == day >= From => view.staked = stake[day]
=============================================================================

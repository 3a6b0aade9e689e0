----------------------------- MODULE YearReport -----------------------------
(***************************************************************************)
(* The year report's books: yearreport/yearreportdata.js and swap-legs.js.  *)
(* The state is the stored rows of the owner's accounts.  The report is     *)
(* derived from them anew each time it is shown: one pass per token turns   *)
(* balances into movements and movements into deposits, withdrawals, income *)
(* and expenses of a day, and the profit and loss step opens positions and  *)
(* realizes them first in, first out.  A swap is in two passes: each must   *)
(* book it at the figure the other books.                                   *)
(*                                                                         *)
(* Amounts are raw units; values are in the report's currency, scaled so    *)
(* that every division is exact.                                            *)
(***************************************************************************)
EXTENDS Integers, Sequences, FiniteSets, FiniteSetsExt, Functions

CONSTANTS
  Account,       \* the owner's accounts, in the order of the settings
  Token, Near,   \* the tokens, NEAR among them
  Stable,        \* those whose symbol says they are stablecoins
  Price,         \* Price[d][t]: the closing price of a day, 0 if there is none
  ReceivedFrom,  \* counterparties the owner marked as income
  ExpenseTo,     \* counterparties the owner marked as expense
  StakingPool,   \* counterparties that are staking pools
  Nobody,        \* the counterparty of a row that names none
  Address,       \* as a counterparty: the deposit address of the same deed's confidential side
  Confidential,  \* the tokens of the confidential ledger
  Scenario,      \* what may happen, one deed after the other: see MCBooks
  Sampled,       \* the fungible tokens whose balances the server samples
  OwnerPrice,    \* prices the owner may enter for a transaction
  Units,         \* no transaction moves more of a token: what values are scaled for
  LastDay        \* bound

NoPrice == 0
Null == -1

VARIABLES
  deeds,   \* deeds[n]: the deeds of which one may be the n-th
  rows,    \* rows[a][t]: stored rows of account a and token t, oldest first
  day,     \* today
  done,    \* what has happened, the n-th with hash n
  priced,  \* priced[n]: the price the owner entered for n, or NoPrice
  stake,   \* stake[d]: what the pools held at the end of day d
  books    \* books[t]: what the report shows of token t

vars == <<deeds, rows, day, done, priced, stake, books>>

Accounts == Range(Account)
Magnitude(n) == IF n < 0 THEN -n ELSE n

\* The settings list an account once.
ASSUME AccountAssumption ==
  /\ Account \in Seq(Accounts)
  /\ \A m, n \in DOMAIN Account : Account[m] = Account[n] => m = n

ASSUME TokenAssumption ==
  /\ IsFiniteSet(Token) /\ Near \in Token /\ Sampled \subseteq Token
  /\ LastDay \in Nat \ {0} /\ OwnerPrice \subseteq Nat
  /\ \A d \in 1 .. LastDay, t \in Token : Price[d][t] \in Nat

\* A transaction changes what an account has of a token once.  Pools hold NEAR, and what
\* goes to or comes from one does not do so beside other NEAR under the same hash.
Possible(deed) ==
  /\ deed.reward \in Nat /\ deed.usd \in Nat /\ IsFiniteSet(deed.moves)
  /\ \A m \in deed.moves :
       /\ m.account \in Accounts /\ m.token \in Token /\ m.amount \in Int /\ m.after \in Int
       /\ m.peer \in StakingPool => m.token = Near
  /\ \A m, n \in deed.moves : m.token = n.token =>
       /\ m.account = n.account => m = n
       /\ m.part = n.part /\ m.peer \in StakingPool => n.peer \in StakingPool

ASSUME ScenarioAssumption ==
  /\ Near \notin Confidential /\ Nobody \notin StakingPool /\ Address \notin StakingPool
  /\ \A p \in StakingPool : p \notin Nat \X {"address"}
  /\ \A s \in Scenario : s \in Seq(Range(s)) /\ \A n \in DOMAIN s : \A deed \in s[n] : Possible(deed)

\* Values are scaled such that what a swap is worth is a whole value for each unit of it.
ASSUME ScaleAssumption ==
  /\ Units \in Nat
  /\ \A n \in 1 .. Units, d \in 1 .. LastDay, t \in Token : Price[d][t] % n = 0
  /\ \A s \in Scenario : \A k \in DOMAIN s : \A deed \in s[k] :
       /\ \A n \in 1 .. Units : deed.usd % n = 0
       /\ \A t \in Token :
            SumFunction([m \in {x \in deed.moves : x.token = t} |-> Magnitude(m.amount)]) <= Units

---------------------------------------------------------------------------
(* Rows and movements. *)

\* Mutant: between consecutive rows, observations too.
ChangedBetweenRows(s, n) == s[n].balance - (IF n = 1 THEN 0 ELSE s[n - 1].balance)

\* One row's balance minus that of the real row before it; an observation moves nothing.
Changed(s, n) ==
  LET older == {m \in 1 .. n - 1 : s[m].real}
  IN IF ~s[n].real THEN 0
     ELSE s[n].balance - (IF older = {} THEN 0 ELSE s[Max(older)].balance)

DeriveChangedBalance(s, n) == [s[n] EXCEPT !.changed = Changed(s, n)]

\* Income, expense, or a movement.  A native row beside a token's row in one transaction
\* is neither income nor expense.
Class(rs, r) ==
  LET outside == r.peer \notin Accounts \cup StakingPool
      counts == r.token # Near
                \/ ~\E t \in Token \ {Near} : \E q \in Range(rs[r.account][t]) : q.hash = r.hash
  IN CASE r.changed > 0 /\ r.peer \in ReceivedFrom /\ outside /\ counts -> "received"
       [] r.changed < 0 /\ r.peer \in ExpenseTo /\ outside /\ counts -> "expense"
       [] OTHER -> "moved"

\* The place <<n, k>> is the k-th row of the n-th account.  A day's rows are visited the last
\* account first.
Places(rs, t) == UNION {{n} \X DOMAIN rs[Account[n]][t] : n \in DOMAIN Account}
Before(p, q) == p[1] > q[1] \/ (p[1] = q[1] /\ p[2] < q[2])

\* One token's rows in all accounts, by place.
Pass(rs, t) ==
  LET classified(r) == [r EXCEPT !.class = Class(rs, r)]
  IN [p \in Places(rs, t) |-> classified(DeriveChangedBalance(rs[Account[p[1]]][t], p[2]))]

Total(pass, class, P) == SumFunction([p \in {q \in P : pass[q].class = class} |-> pass[p].changed])

\* The rows of a hash, wherever they are.
Together(pass, p) == {q \in DOMAIN pass : pass[q].hash = pass[p].hash}

\* All rows of a hash are summed at the first of them; the others find nothing left.
Visited(pass, d) ==
  {p \in DOMAIN pass : pass[p].day = d
     /\ \A q \in Together(pass, p) : pass[q].day > d \/ (pass[q].day = d /\ ~Before(q, p))}

FlowAt(pass, p) ==
  [place |-> p, hash |-> pass[p].hash, at |-> pass[p].at,
   changed |-> Total(pass, "moved", Together(pass, p)),
   counterparties |-> {pass[q].peer : q \in Together(pass, p)} \ (Accounts \cup {Nobody})]

FlowsOf(pass, visited) == {f \in {FlowAt(pass, p) : p \in visited} : f.changed # 0}

\* A day's flows as they were visited.
InOrder(flows) ==
  [k \in 1 .. Cardinality(flows) |->
     CHOOSE f \in flows : Cardinality({g \in flows : Before(g.place, f.place)}) = k - 1]

Positive(n) == IF n > 0 THEN n ELSE 0

EntryOf(pass, flows, rowsOf) ==
  [flows |-> flows,
   deposit |-> SumFunction([f \in flows |-> Positive(f.changed)]),
   withdrawal |-> SumFunction([f \in flows |-> Positive(-f.changed)]),
   received |-> Total(pass, "received", rowsOf),
   receivedFrom |-> {[account |-> pass[p].peer, amount |-> pass[p].changed, hash |-> pass[p].hash] :
                     p \in {q \in rowsOf : pass[q].class = "received"}},
   expense |-> -Total(pass, "expense", rowsOf)]

\* What a day's rows do to a token.  A move to or from a pool is no flow.
EntryVisiting(pass, visited) ==
  EntryOf(pass, FlowsOf(pass, {p \in visited : pass[p].peer \notin StakingPool}),
          UNION {Together(pass, p) : p \in visited})
Entry(pass, d) == EntryVisiting(pass, Visited(pass, d))

---------------------------------------------------------------------------
(* What a swap is worth. *)

\* Both halves of a confidential swap, and every token of one transaction.
SwapKeyForHash(hash) == hash[1]

IndexSwapLegs(pass, key) ==
  LET legRows(t) == {p \in DOMAIN pass[t] : SwapKeyForHash(pass[t][p].hash) = key /\ pass[t][p].changed # 0}
      leg(t) == [token |-> t, changed |-> SumFunction([p \in legRows(t) |-> pass[t][p].changed]),
                 usd |-> IF \E p \in legRows(t) : pass[t][p].usd = Null THEN Null
                         ELSE SumFunction([p \in legRows(t) |-> pass[t][p].usd])]
  IN {leg(t) : t \in {u \in Token : legRows(u) # {}}}

EodValue(leg, d) ==
  IF Price[d][leg.token] = NoPrice THEN Null ELSE Magnitude(leg.changed) * Price[d][leg.token]

NoSwap == [value |-> Null, tokens |-> {}]

\* The first of these that has a value: the venue's mark, a stablecoin, the destination, the
\* source.
SwapFigure(ins, outs, d) ==
  LET marked(side) == \A leg \in side : leg.usd > 0
      stable(side) == {leg \in side : leg.token \in Stable /\ EodValue(leg, d) # Null}
      priceable(side) == \A leg \in side : EodValue(leg, d) # Null
      worth(side) == SumFunction([leg \in side |-> EodValue(leg, d)])
      mark(side) == SumFunction([leg \in side |-> leg.usd])
  IN CASE marked(ins) -> mark(ins)
       [] ~marked(ins) /\ marked(outs) -> mark(outs)
       [] OTHER ->
          IF stable(ins) # {} THEN worth(stable(ins))
          ELSE IF stable(outs) # {} THEN worth(stable(outs))
          ELSE IF priceable(ins) THEN worth(ins)
          ELSE IF priceable(outs) THEN worth(outs) ELSE Null

SidesOf(substance, ins, outs, d) ==
  IF ins = {} \/ outs = {} THEN NoSwap
  ELSE [value |-> SwapFigure(ins, outs, d), tokens |-> {leg.token : leg \in substance}]

\* A leg under one percent of the largest is the cost of transacting.
Substance(legs, largest, d) ==
  {leg \in legs : EodValue(leg, d) = Null \/ 100 * EodValue(leg, d) >= largest}

ResolveSubstance(substance, d) ==
  SidesOf(substance, {leg \in substance : leg.changed > 0}, {leg \in substance : leg.changed < 0}, d)

\* Of two legs or more.
ResolveSwapValue(legs, d) ==
  IF Cardinality(legs) < 2 THEN NoSwap
  ELSE ResolveSubstance(Substance(legs, Max({0} \cup {EodValue(leg, d) : leg \in legs}), d), d)

SwapOf(flow, resolved) ==
  [place |-> flow.place, hash |-> flow.hash, changed |-> flow.changed,
   value |-> resolved.value, tokens |-> resolved.tokens]

ResolvedAt(pass, flow, d) == ResolveSwapValue(IndexSwapLegs(pass, SwapKeyForHash(flow.hash)), d)

\* Mutant: each side at its own closing price.
ValueSwapsAtClose(pass, entry, t, d) ==
  {SwapOf(flow, [value |-> Price[d][t] * Magnitude(flow.changed), tokens |-> {t}]) :
     flow \in {f \in entry.flows : ResolvedAt(pass, f, d).value # Null}}

\* The swaps one token takes part in on a day, each with the figure both sides share.
ValueSwapsOfDay(pass, entry, t, d) ==
  {s \in {SwapOf(flow, ResolvedAt(pass, flow, d)) : flow \in entry.flows} :
     s.value # Null /\ t \in s.tokens}

---------------------------------------------------------------------------
(* Profit and loss. *)

\* open: positions, oldest first.  left: what of the day's withdrawal has no rate yet.
\* short: what was withdrawn when no position was left.  swaps: what swaps were booked at.
EmptyBook == [open |-> <<>>, left |-> 0, bought |-> 0, spent |-> 0, proceeds |-> 0,
              profit |-> 0, loss |-> 0, short |-> 0, expense |-> 0, swaps |-> {}]

OpenPosition(book, amount, value) ==
  IF amount = 0 THEN book
  ELSE [book EXCEPT !.open = Append(@, [initial |-> amount, remaining |-> amount, value |-> value]),
                    !.bought = @ + value]

\* Mutant: as a part of what remains.
CostOfRemaining(position, part) == (position.value * part) \div position.remaining

\* The part of a position's value that goes with part of its amount.
CostOf(position, part) == (position.value * part) \div position.initial

\* What the open positions hold, and what that cost.
RemainingOf(book) == SumFunction([n \in DOMAIN book.open |-> book.open[n].remaining])
CostBasis(book) ==
  SumFunction([n \in DOMAIN book.open |-> CostOf(book.open[n], book.open[n].remaining)])

Least(a, b) == IF a <= b THEN a ELSE b

\* Positions give what they have, the oldest first, until the amount is found.
FoundIn(book, amount, rate) ==
  LET from(acc, position, part, cost) ==
        [found |-> acc.found + part,
         open |-> IF part = position.remaining THEN acc.open
                  ELSE Append(acc.open, [position EXCEPT !.remaining = @ - part]),
         cost |-> acc.cost + cost,
         profit |-> acc.profit + Positive(part * rate - cost),
         loss |-> acc.loss + Positive(cost - part * rate)]
      take(acc, position, part) == from(acc, position, part, CostOf(position, part))
      gives(acc, position) == take(acc, position, Least(amount - acc.found, position.remaining))
      after[n \in 0 .. Len(book.open)] ==
        IF n = 0 THEN [found |-> 0, open |-> <<>>, cost |-> 0, profit |-> 0, loss |-> 0]
        ELSE gives(after[n - 1], book.open[n])
  IN after[Len(book.open)]

Booked(book, amount, rate, r) ==
  [book EXCEPT !.open = r.open, !.left = @ - amount, !.spent = @ + r.cost,
               !.proceeds = @ + r.found * rate, !.profit = @ + r.profit,
               !.loss = @ + r.loss, !.short = @ + amount - r.found]

Realize(book, amount, rate) == Booked(book, amount, rate, FoundIn(book, amount, rate))

\* What each of some flows does to the book, as they were visited.
InTurn(Do(_, _), book, flows) ==
  LET visited == InOrder(flows)
      after[k \in 0 .. Len(visited)] == IF k = 0 THEN book ELSE Do(after[k - 1], visited[k])
  IN after[Len(visited)]

SwapIn(book, swap) ==
  [OpenPosition(book, swap.changed, swap.value) EXCEPT
     !.swaps = @ \cup {[key |-> SwapKeyForHash(swap.hash), side |-> "in", value |-> swap.value]}]

SwapsIn(book, swaps) == InTurn(SwapIn, book, swaps)

SoldAs(swap, before, book) ==
  [book EXCEPT !.swaps = @ \cup {[key |-> SwapKeyForHash(swap.hash), side |-> "out",
                                  value |-> book.proceeds - before]}]

\* At the rate of the whole swap, for what of it the owner has not priced.
SwapOut(book, swap) ==
  LET amount == Least(-swap.changed, book.left)
  IN IF amount <= 0 THEN book
     ELSE SoldAs(swap, book.proceeds, Realize(book, amount, swap.value \div (-swap.changed)))
SwapsOut(book, swaps) == InTurn(SwapOut, book, swaps)

\* Mutant: less what swaps moved in either direction.
PlainDepositOfRest(entry, swaps) ==
  Positive(entry.deposit - SumFunction([s \in swaps |-> Magnitude(s.changed)]))

\* What arrived without a swap behind it.
PlainDeposit(entry, swaps) ==
  Positive(entry.deposit - SumFunction([s \in swaps |-> Positive(s.changed)]))

\* What the owner entered for the deed behind a hash.
PriceOf(prices, hash) ==
  LET n == SwapKeyForHash(hash)[1] IN IF n = 0 THEN NoPrice ELSE prices[n]

\* What arrives, swaps before the rest, which opens at the day's close.
Plain(book, amount, close) == OpenPosition(book, amount, amount * close)
Arrive(book, entry, swaps, close) ==
  Plain(SwapsIn(book, {s \in swaps : s.changed > 0}),
        PlainDeposit(entry, swaps) + entry.received, close)

Due(book, entry) == [book EXCEPT !.left = entry.withdrawal, !.expense = @ + entry.expense]

\* What leaves: at the owner's price, as a swap, at the day's close.
PricedByOwner(entry, prices) ==
  {f \in entry.flows : f.changed < 0 /\ PriceOf(prices, f.hash) # NoPrice}
LeaveByOwner(book, owners, prices) ==
  InTurn(LAMBDA b, f : Realize(b, -f.changed, PriceOf(prices, f.hash)), book, owners)
LeaveAsSwap(book, owners, swaps) ==
  SwapsOut(book, {s \in swaps : s.changed < 0 /\ ~\E f \in owners : f.hash = s.hash})
LeaveAtClose(book, close) == IF book.left > 0 THEN Realize(book, book.left, close) ELSE book
Leave(book, owners, prices, swaps, close) ==
  LeaveAtClose(LeaveAsSwap(LeaveByOwner(book, owners, prices), owners, swaps), close)

BookEntry(book, entry, swaps, prices, close) ==
  Leave(Due(Arrive(book, entry, swaps, close), entry), PricedByOwner(entry, prices), prices, swaps, close)

BookDay(pass, prices, book, t, d) ==
  LET booked(entry) == BookEntry(book, entry, ValueSwapsOfDay(pass, entry, t, d), prices, Price[d][t])
  IN booked(Entry(pass[t], d))

CalculateProfitLoss(pass, prices, t, until) ==
  LET after[d \in 0 .. until] == IF d = 0 THEN EmptyBook ELSE BookDay(pass, prices, after[d - 1], t, d)
  IN after[until]

\* The report of the rows and prices there are after a step.
Show ==
  \E rs \in {rows'}, prices \in {priced'} : \E pass \in {[t \in Token |-> Pass(rs, t)]} :
    books' = [t \in Token |-> CalculateProfitLoss(pass, prices, t, LastDay)]

---------------------------------------------------------------------------
(* What happens to the accounts, and what the owner does. *)

Init ==
  /\ deeds \in Scenario
  /\ rows = [a \in Accounts |-> [t \in Token |-> <<>>]]
  /\ stake = [d \in 1 .. LastDay |-> 0]
  /\ day = 1
  /\ done = <<>>
  /\ priced = [n \in DOMAIN deeds |-> NoPrice]
  /\ books = [t \in Token |-> EmptyBook]

Held(a, t) ==
  LET real == {n \in DOMAIN rows[a][t] : rows[a][t][n].real}
  IN IF real = {} THEN 0 ELSE rows[a][t][Max(real)].balance

RewardsOf(happened) == SumFunction([n \in DOMAIN happened |-> happened[n].reward])

\* The n-th deed's key for a side of it, and the row an import stores of a move.
KeyOf(m, n) == <<n, IF m.token \in Confidential THEN "address" ELSE m.part>>

RowOf(deed, m, n) ==
  [account |-> m.account, token |-> m.token, balance |-> Held(m.account, m.token) + m.amount,
   hash |-> <<KeyOf(m, n), IF m.token \notin Confidential THEN ""
                           ELSE IF m.amount > 0 THEN "in" ELSE "out">>,
   day |-> day, at |-> 10 * n + m.after,
   peer |-> IF m.peer = Address THEN <<n, "address">> ELSE m.peer,
   usd |-> IF deed.usd = 0 THEN Null ELSE deed.usd,
   real |-> TRUE, changed |-> 0, class |-> "moved"]

Happen(deed) ==
  LET staked == {m \in deed.moves : m.peer \in StakingPool}
      held == stake[day] + deed.reward - SumFunction([m \in staked |-> m.amount])
      of(a, t) == {m \in deed.moves : m.account = a /\ m.token = t}
  IN /\ \A m \in deed.moves : Held(m.account, m.token) + m.amount >= 0
     /\ held >= 0
     /\ rows' = [a \in Accounts |-> [t \in Token |->
          IF of(a, t) = {} THEN rows[a][t]
          ELSE Append(rows[a][t], RowOf(deed, CHOOSE m \in of(a, t) : TRUE, Len(done) + 1))]]
     /\ done' = Append(done, deed)
     /\ stake' = [stake EXCEPT ![day] = held]
     /\ UNCHANGED <<deeds, day, priced>>

\* The server samples a token's balance at a block; what it reports may be wrong.
Observe(a, t, shown) ==
  /\ rows[a][t] # <<>>
  /\ \A b \in Accounts, u \in Token : \A r \in Range(rows[b][u]) : r.real
  /\ rows' = [rows EXCEPT ![a][t] = Append(@, [account |-> a, token |-> t, balance |-> shown,
       hash |-> <<<<0, "block">>, "">>, day |-> day, at |-> 0, peer |-> Nobody, usd |-> Null,
       real |-> FALSE, changed |-> 0, class |-> "moved"])]
  /\ UNCHANGED <<deeds, day, done, priced, stake>>

\* The owner enters the price a transaction was made at.
EnterPrice(n, price) ==
  /\ \A m \in DOMAIN done : priced[m] = NoPrice
  /\ priced' = [priced EXCEPT ![n] = price]
  /\ UNCHANGED <<deeds, rows, day, done, stake>>

NextDay ==
  /\ day < LastDay /\ Len(done) < Len(deeds)
  /\ day' = day + 1
  /\ stake' = [stake EXCEPT ![day + 1] = stake[day]]
  /\ UNCHANGED <<deeds, rows, done, priced>>

Next ==
  \/ Len(done) < Len(deeds) /\ \E deed \in deeds[Len(done) + 1] : Happen(deed) /\ Show
  \/ \E a \in Accounts, t \in Sampled, shown \in {0, 2} : Observe(a, t, shown) /\ Show
  \/ \E n \in DOMAIN done, price \in OwnerPrice : EnterPrice(n, price) /\ Show
  \/ NextDay /\ Show

Spec == Init /\ [][Next]_vars

---------------------------------------------------------------------------
(* Properties. *)

\* The open positions of a token are what the accounts and pools hold of it: no movement
\* is booked twice or not at all, whatever the samples between them say.  Two things stay
\* in the books and are held no more: what was spent as an expense, which realizes
\* nothing, and what a position could not cover.
HoldingsMatch ==
  \A t \in Token :
    LET book == books[t]
    IN RemainingOf(book)
       = SumFunction([a \in Accounts |-> Held(a, t)]) + (IF t = Near THEN stake[day] - RewardsOf(done) ELSE 0)
         + book.expense + book.short

\* Every value paid for a position is either in what remains of it or was set against
\* what it was realized for, and profit less loss is what realizations brought beyond it.
BooksBalance ==
  \A t \in Token :
    LET book == books[t]
    IN /\ book.bought = book.spent + CostBasis(book)
       /\ book.profit - book.loss = book.proceeds - book.spent

\* "should not happen: withdrawn amount larger than available positions": only staking
\* rewards taken out of a pool, which never open a position, make it happen.
ShortOnlyForRewards ==
  \A t \in Token :
    books[t].short <= (IF t = Near THEN RewardsOf(done) ELSE 0)

\* Who booked a swap on a side, and at what.
SwapKeys == UNION {{s.key : s \in books[t].swaps} : t \in Token}
Legs(key, side) ==
  UNION {{[token |-> t, value |-> s.value] : s \in {x \in books[t].swaps :
            x.key = key /\ x.side = side}} : t \in Token}

\* What one token was sold for is what the other cost, in whichever token's books one
\* looks, also when a swap is valued by a mark, a stablecoin or the source.
SwapValueShared ==
  \A key \in SwapKeys : \A i \in Legs(key, "in"), o \in Legs(key, "out") :
    /\ Cardinality(Legs(key, "in")) = 1 /\ Cardinality(Legs(key, "out")) = 1
    /\ books[o.token].short = 0
    => i.value = o.value
=============================================================================

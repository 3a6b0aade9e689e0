----------------------------- MODULE BooksProofs -----------------------------
(***************************************************************************)
(* Proofs about the year report's books (YearReport), for every list of      *)
(* accounts, set of tokens, prices, and scenario of deeds, of any length.    *)
(*                                                                         *)
(* What CalculateProfitLoss does to a book is shown first, for any rows:    *)
(* Realize takes an amount out of the open positions (Gone), OpenPosition   *)
(* brings one in (Came), a day's entry is both in turn (Entered), and a day *)
(* comes to what its rows change outside of the pools (Adds), since the     *)
(* rows of each hash are visited exactly once.  So by induction over the    *)
(* days a book tells what the rows changed (Tells, ReportTells).            *)
(*                                                                         *)
(* Then the rows: Stored says that each is of a move of some deed that      *)
(* happened, and that successive balances differ by what was moved.  It is  *)
(* inductive, with what the pools were given (StakeTold), and the books     *)
(* tell of the rows after every step (BooksInv).  The four properties       *)
(* follow: sums over rows, grouped by account, are balances.  The portfolio *)
(* (Portfolio) only watches, so they hold beside it too.                    *)
(***************************************************************************)
EXTENDS Portfolio, SumFacts, SequenceTheorems, NaturalsInduction

\* What holds of 0 and of n when it holds of n - 1 holds of all.
LEMMA StepByStep ==
  ASSUME NEW N \in Nat, NEW T, 0 \in T, \A n \in 1 .. N : n - 1 \in T => n \in T
  PROVE  \A n \in 0 .. N : n \in T
<1>. DEFINE S == {n \in 0 .. N : n \notin T}
            R == {ss \in Nat \X Nat : ss[1] < ss[2]}
<1>1. SUFFICES ASSUME S # {} PROVE FALSE
  OBVIOUS
<1>2. IsWellFoundedOn(R, Nat)
  BY NatLessThanWellFounded DEF OpToRel
<1>3. PICK n \in S : \A m \in S : ~ (<<m, n>> \in R)
  <2>1. S \subseteq Nat
    OBVIOUS
  <2>. HIDE DEF S, R
  <2>. QED  BY <1>1, <1>2, <2>1, WFMin
<1>4. n \in 1 .. N
  BY <1>3
<1>5. n - 1 \in T
  <2>1. n - 1 \in 0 .. N /\ <<n - 1, n>> \in R
    BY <1>4
  <2>. QED  BY <1>3, <2>1
<1>. QED  BY <1>3, <1>4, <1>5

\* Of some flows in distinct places, how many were visited before one.
RankIn(F, f) == Cardinality({g \in F : Before(g.place, f.place)})
Placed(F) ==
  /\ IsFiniteSet(F)
  /\ \A f \in F : f.place \in Int \X Int
  /\ \A f, g \in F : f.place = g.place => f = g

\* A flow's rank among a day's is below their number, and grows in the order of the visits.
LEMMA RankFacts ==
  ASSUME NEW F, Placed(F), NEW f \in F, NEW g \in F
  PROVE  /\ RankIn(F, f) \in 0 .. Cardinality(F) - 1
         /\ Before(f.place, g.place) => RankIn(F, f) < RankIn(F, g)
<1>. DEFINE E(x) == {h \in F : Before(h.place, x.place)}
<1>1. \A x \in F : x.place \in Int \X Int
  BY DEF Placed
<1>2. \A x \in F : E(x) \in SUBSET F /\ x \notin E(x)
  BY <1>1 DEF Before
<1>3. IsFiniteSet(F) /\ IsFiniteSet(E(f)) /\ IsFiniteSet(E(g))
  BY <1>2, FS_Subset DEF Placed
<1>4. Cardinality(E(f)) \in Nat /\ Cardinality(F) \in Nat /\ Cardinality(E(g)) \in Nat
  BY <1>3, FS_CardinalityType
<1>5. Cardinality(E(f)) <= Cardinality(F) /\ Cardinality(E(f)) # Cardinality(F)
  BY <1>2, <1>3, FS_Subset
<1>6. ASSUME Before(f.place, g.place) PROVE Cardinality(E(f)) < Cardinality(E(g))
  <2>1. E(f) \in SUBSET E(g)
    BY <1>1, <1>6 DEF Before
  <2>2. f \in E(g) /\ f \notin E(f)
    BY <1>2, <1>6
  <2>3. Cardinality(E(f)) <= Cardinality(E(g)) /\ (Cardinality(E(f)) = Cardinality(E(g)) => E(f) = E(g))
    <3>. HIDE DEF E
    <3>. QED  BY <1>3, <2>1, FS_Subset
  <2>4. Cardinality(E(f)) # Cardinality(E(g))
    <3>. HIDE DEF E
    <3>. QED  BY <2>2, <2>3
  <2>. QED  BY <2>3, <2>4, <1>4
<1>7. RankIn(F, f) = Cardinality(E(f)) /\ RankIn(F, g) = Cardinality(E(g))
  BY DEF RankIn
<1>. HIDE DEF E
<1>. QED  BY <1>4, <1>5, <1>6, <1>7

\* InOrder lists them all, each once.
LEMMA InOrderLists ==
  ASSUME NEW F, Placed(F)
  PROVE  /\ Cardinality(F) \in Nat
         /\ InOrder(F) \in Bijection(1 .. Cardinality(F), F)
         /\ InOrder(F) \in Seq(F) /\ Len(InOrder(F)) = Cardinality(F)
<1>. DEFINE n == Cardinality(F)
            r == [f \in F |-> RankIn(F, f) + 1]
<1>1. n \in Nat /\ IsFiniteSet(F)
  BY FS_CardinalityType DEF Placed
<1>2. \A f \in F : RankIn(F, f) \in 0 .. n - 1
  BY RankFacts
<1>3. r \in [F -> 1 .. n]
  BY <1>1, <1>2
<1>4. ASSUME NEW f \in F, NEW g \in F, f # g PROVE RankIn(F, f) # RankIn(F, g)
  <2>1. Before(f.place, g.place) \/ Before(g.place, f.place)
    BY <1>4 DEF Placed, Before
  <2>. QED  BY <2>1, <1>2, RankFacts
<1>5. r \in Injection(F, 1 .. n)
  BY <1>2, <1>3, <1>4 DEF Injection, IsInjective
<1>6. r \in Surjection(F, 1 .. n)
  <2>1. IsFiniteSet(1 .. n) /\ Cardinality(1 .. n) = n
    BY <1>1, FS_Interval
  <2>2. Cardinality(F) = n
    OBVIOUS
  <2>. HIDE DEF r, n
  <2>. QED  BY <1>5, <2>1, <2>2, FS_Injection
<1>7. \A k \in 1 .. n : \E f \in F : RankIn(F, f) = k - 1
  <2>. SUFFICES ASSUME NEW k \in 1 .. n PROVE \E f \in F : RankIn(F, f) = k - 1
    OBVIOUS
  <2>1. \E f \in F : r[f] = k
    <3>. HIDE DEF r, n
    <3>. QED  BY <1>6 DEF Surjection
  <2>2. PICK f \in F : RankIn(F, f) + 1 = k
    BY <2>1
  <2>. HIDE DEF n
  <2>. QED  BY <1>1, <1>2, <2>2
<1>. DEFINE o == [k \in 1 .. n |-> CHOOSE f \in F : RankIn(F, f) = k - 1]
<1>8. InOrder(F) = o
  BY DEF InOrder, RankIn
<1>9. \A k \in 1 .. n : o[k] \in F /\ RankIn(F, o[k]) = k - 1
  BY <1>7
<1>10. \A f \in F : o[RankIn(F, f) + 1] = f
  <2>. SUFFICES ASSUME NEW f \in F PROVE o[RankIn(F, f) + 1] = f
    OBVIOUS
  <2>1. RankIn(F, f) + 1 \in 1 .. n /\ (RankIn(F, f) + 1) - 1 = RankIn(F, f)
    BY <1>1, <1>2
  <2>2. o[RankIn(F, f) + 1] \in F /\ RankIn(F, o[RankIn(F, f) + 1]) = RankIn(F, f)
    <3>. HIDE DEF o
    <3>. QED  BY <1>9, <2>1
  <2>. HIDE DEF o
  <2>. QED  BY <1>4, <2>2
<1>11. o \in [1 .. n -> F] /\ \A j, k \in 1 .. n : o[j] = o[k] => j = k
  <2>1. o \in [1 .. n -> F]
    BY <1>9
  <2>. HIDE DEF o
  <2>. QED  BY <1>9, <2>1
<1>12. o \in Bijection(1 .. n, F)
  <2>1. \A f \in F : RankIn(F, f) + 1 \in 1 .. n
    BY <1>1, <1>2
  <2>. HIDE DEF o
  <2>. QED  BY <1>10, <1>11, <2>1 DEF Bijection, Injection, Surjection, IsInjective
<1>13. o \in Seq(F) /\ Len(o) = n
  <2>. HIDE DEF n
  <2>. QED  BY <1>1, <1>11
<1>. HIDE DEF o
<1>. QED  BY <1>1, <1>8, <1>12, <1>13

\* A sum of the first numbers of some, one at a time.
LEMMA SumOfFirst ==
  ASSUME NEW N \in Nat, NEW w, \A n \in 1 .. N : w[n] \in Int
  PROVE  /\ SumFunctionOnSet(w, 1 .. 0) = 0
         /\ \A n \in 0 .. N : SumFunctionOnSet(w, 1 .. n) \in Int
         /\ \A n \in 1 .. N : SumFunctionOnSet(w, 1 .. n) = SumFunctionOnSet(w, 1 .. n - 1) + w[n]
<1>1. SumFunctionOnSet(w, 1 .. 0) = 0
  <2>1. 1 .. 0 = {}
    OBVIOUS
  <2>. QED  BY <2>1, SumEmpty
<1>2. \A n \in 0 .. N : IsFiniteSet(1 .. n) /\ \A k \in 1 .. n : w[k] \in Int
  BY FS_Interval
<1>3. \A n \in 0 .. N : SumFunctionOnSet(w, 1 .. n) \in Int
  BY <1>2, SumSplit
<1>4. ASSUME NEW n \in 1 .. N
      PROVE  SumFunctionOnSet(w, 1 .. n) = SumFunctionOnSet(w, 1 .. n - 1) + w[n]
  <2>1. PICK D : D = 1 .. n
    OBVIOUS
  <2>2. n \in D /\ D \ {n} = 1 .. n - 1 /\ n \in 0 .. N /\ n - 1 \in 0 .. N
    BY <2>1
  <2>3. IsFiniteSet(D) /\ \A k \in D : w[k] \in Int
    BY <1>2, <2>1, <2>2
  <2>4. SumFunctionOnSet(w, D) = w[n] + SumFunctionOnSet(w, D \ {n})
    BY <2>2, <2>3, SumSplit
  <2>5. SumFunctionOnSet(w, 1 .. n - 1) \in Int /\ w[n] \in Int
    BY <1>3, <2>2
  <2>6. SumFunctionOnSet(w, D \ {n}) = SumFunctionOnSet(w, 1 .. n - 1) /\ SumFunctionOnSet(w, 1 .. n) = SumFunctionOnSet(w, D)
    BY <2>1, <2>2, Zenon
  <2>. QED  BY ONLY <2>4, <2>5, <2>6
<1>. QED  BY <1>1, <1>3, <1>4

\* A sum over a sequence that grows.
LEMMA SumAppended ==
  ASSUME NEW S, NEW s \in Seq(S), NEW x \in S, NEW w, NEW v,
         \A n \in 1 .. Len(s) : w[n] \in Int /\ v[n] = w[n],
         v[Len(s) + 1] \in Int
  PROVE  SumFunctionOnSet(v, DOMAIN Append(s, x)) = SumFunctionOnSet(w, DOMAIN s) + v[Len(s) + 1]
<1>1. DOMAIN s = 1 .. Len(s) /\ Len(s) \in Nat /\ DOMAIN Append(s, x) = 1 .. Len(s) + 1
  OBVIOUS
<1>2. (1 .. Len(s) + 1) \ {Len(s) + 1} = 1 .. Len(s) /\ Len(s) + 1 \in 1 .. Len(s) + 1
  BY <1>1
<1>3. IsFiniteSet(1 .. Len(s) + 1) /\ IsFiniteSet(1 .. Len(s))
  BY <1>1, FS_Interval
<1>4. \A n \in 1 .. Len(s) + 1 : v[n] \in Int
  BY <1>1
<1>5. SumFunctionOnSet(v, 1 .. Len(s) + 1) = v[Len(s) + 1] + SumFunctionOnSet(v, 1 .. Len(s))
  <2>1. PICK D : D = 1 .. Len(s) + 1
    OBVIOUS
  <2>2. SumFunctionOnSet(v, D) = v[Len(s) + 1] + SumFunctionOnSet(v, D \ {Len(s) + 1})
    BY <1>2, <1>3, <1>4, <2>1, SumSplit
  <2>. QED  BY <1>2, <2>1, <2>2
<1>6. SumFunctionOnSet(w, 1 .. Len(s)) = SumFunctionOnSet(v, 1 .. Len(s))
  BY <1>3, SumSame
<1>7. SumFunctionOnSet(w, 1 .. Len(s)) \in Int
  BY <1>3, SumSplit
<1>. QED  BY <1>1, <1>5, <1>6, <1>7

Position == [initial : Nat \ {0}, remaining : Nat \ {0}, value : Int]
IsBook(b) ==
  /\ b = [open |-> b.open, left |-> b.left, bought |-> b.bought, spent |-> b.spent,
          proceeds |-> b.proceeds, profit |-> b.profit, loss |-> b.loss, short |-> b.short,
          expense |-> b.expense, swaps |-> b.swaps]
  /\ b.open \in Seq(Position)
  /\ b.left \in Int /\ b.bought \in Int /\ b.spent \in Int /\ b.proceeds \in Int
  /\ b.profit \in Int /\ b.loss \in Int /\ b.short \in Int /\ b.expense \in Int

\* A position's value is a whole one for each unit of it.
Whole(p) == \E r \in Int : p.value = r * p.initial

\* Dividing a multiple gives back what was multiplied.
LEMMA DivideWhole ==
  ASSUME NEW i \in Nat \ {0}, NEW x \in Int
  PROVE  (x * i) \div i = x
OBVIOUS

\* A position bought at a whole value for each unit gives its parts at that value.
LEMMA CostOfWhole ==
  ASSUME NEW p \in Position, NEW part \in Int
  PROVE  /\ CostOf(p, part) \in Int
         /\ \A r \in Int : p.value = r * p.initial => CostOf(p, part) = r * part
<1>1. p.initial \in Nat \ {0} /\ p.value \in Int
  BY DEF Position
<1>2. CostOf(p, part) \in Int
  <2>1. p.value * part \in Int
    BY <1>1
  <2>. QED  BY <1>1, <2>1 DEF CostOf
<1>3. ASSUME NEW r \in Int, p.value = r * p.initial PROVE CostOf(p, part) = r * part
  <2>1. (r * p.initial) * part = (r * part) * p.initial
    BY <1>1
  <2>2. r * part \in Int
    OBVIOUS
  <2>. QED  BY <1>1, <1>3, <2>1, <2>2, DivideWhole DEF CostOf
<1>. QED  BY <1>2, <1>3

Gives(acc, position, amount, rate) ==
  LET part == Least(amount - acc.found, position.remaining)
      cost == CostOf(position, part)
  IN [found |-> acc.found + part,
      open |-> IF part = position.remaining THEN acc.open
               ELSE Append(acc.open, [position EXCEPT !.remaining = @ - part]),
      cost |-> acc.cost + cost,
      profit |-> acc.profit + Positive(part * rate - cost),
      loss |-> acc.loss + Positive(cost - part * rate)]
NothingFound == [found |-> 0, open |-> <<>>, cost |-> 0, profit |-> 0, loss |-> 0]
Gave(after, open, amount, rate) ==
  /\ after[0] = NothingFound
  /\ \A n \in 1 .. Len(open) : after[n] = Gives(after[n - 1], open[n], amount, rate)

\* FoundIn goes through the open positions one after the other.
LEMMA FoundInSteps ==
  ASSUME NEW b, b.open \in Seq(Position), NEW amount, NEW rate
  PROVE  \E after : Gave(after, b.open, amount, rate) /\ FoundIn(b, amount, rate) = after[Len(b.open)]
<1>. DEFINE N == Len(b.open)
            step(g, n) == IF n = 0 THEN NothingFound ELSE Gives(g[n - 1], b.open[n], amount, rate)
            Is(g, m) == g = [n \in 0 .. m |-> step(g, n)]
<1>0. N \in Nat
  OBVIOUS
<1>1. FoundIn(b, amount, rate) = (CHOOSE g : Is(g, N))[N]
  BY DEF FoundIn, Gives, NothingFound
<1>2. \E g : Is(g, N)
  <2>. DEFINE T == {m \in 0 .. N : \E g : Is(g, m)}
  <2>1. 0 \in T
    <3>1. Is([n \in 0 .. 0 |-> NothingFound], 0)
      OBVIOUS
    <3>. HIDE DEF Is
    <3>. QED  BY <1>0, <3>1
  <2>2. ASSUME NEW m \in 1 .. N, m - 1 \in T PROVE m \in T
    <3>1. PICK g : Is(g, m - 1)
      BY <2>2
    <3>. DEFINE h == [n \in 0 .. m |-> IF n = m THEN Gives(g[m - 1], b.open[m], amount, rate) ELSE g[n]]
    <3>2. \A n \in 0 .. m - 1 : g[n] = step(g, n)
      BY <3>1
    <3>3. \A n \in 0 .. m : h[n] = step(h, n)
      <4>. SUFFICES ASSUME NEW n \in 0 .. m PROVE h[n] = step(h, n)
        OBVIOUS
      <4>1. CASE n = m
        BY <4>1, <2>2
      <4>2. CASE n # m
        <5>1. n \in 0 .. m - 1 /\ h[n] = g[n] /\ (n # 0 => h[n - 1] = g[n - 1])
          BY <4>2
        <5>. HIDE DEF h
        <5>. QED  BY <3>2, <5>1
      <4>. QED  BY <4>1, <4>2
    <3>4. h = [n \in 0 .. m |-> h[n]]
      OBVIOUS
    <3>5. Is(h, m)
      <4>. HIDE DEF h
      <4>. QED  BY <3>3, <3>4
    <3>. HIDE DEF Is, h
    <3>. QED  BY <3>5
  <2>3. \A m \in 0 .. N : m \in T
    <3>. HIDE DEF T, N
    <3>. QED  BY <1>0, <2>1, <2>2, StepByStep
  <2>. HIDE DEF Is
  <2>. QED  BY <1>0, <2>3
<1>3. PICK g : g = CHOOSE h : Is(h, N)
  OBVIOUS
<1>4. Is(g, N)
  <2>. HIDE DEF Is
  <2>. QED  BY <1>2, <1>3
<1>5. g[0] = step(g, 0) /\ \A n \in 1 .. N : g[n] = step(g, n)
  <2>1. \A n \in 0 .. N : g[n] = step(g, n)
    BY <1>4
  <2>. HIDE DEF step, N
  <2>. QED  BY <2>1, <1>0
<1>6. Gave(g, b.open, amount, rate)
  BY <1>0, <1>5 DEF Gave
<1>. HIDE DEF Is
<1>. QED  BY <1>1, <1>3, <1>6

Wholes(b) == \A n \in DOMAIN b.open : Whole(b.open[n])

\* What the fields of a position are.
LEMMA PositionTyped ==
  ASSUME NEW p \in Position
  PROVE  p.remaining \in Nat \ {0} /\ p.initial \in Nat \ {0} /\ p.value \in Int
         /\ CostOf(p, p.remaining) \in Int
<1>1. p.remaining \in Nat \ {0} /\ p.initial \in Nat \ {0} /\ p.value \in Int
  BY DEF Position
<1>. QED  BY <1>1, CostOfWhole

\* What open positions hold and cost are numbers; another position adds its own.
LEMMA OpenTyped ==
  ASSUME NEW b, b.open \in Seq(Position)
  PROVE  RemainingOf(b) \in Nat /\ CostBasis(b) \in Int
<1>. DEFINE w == [n \in DOMAIN b.open |-> b.open[n].remaining]
            v == [n \in DOMAIN b.open |-> CostOf(b.open[n], b.open[n].remaining)]
<1>1. IsFiniteSet(DOMAIN b.open)
  BY FS_Interval
<1>0. \A n \in DOMAIN b.open : b.open[n] \in Position
  OBVIOUS
<1>2. \A n \in DOMAIN b.open : w[n] \in Nat
  BY <1>0, PositionTyped
<1>3. \A n \in DOMAIN b.open : v[n] \in Int
  BY <1>0, PositionTyped
<1>4. RemainingOf(b) = SumFunctionOnSet(w, DOMAIN b.open) /\ CostBasis(b) = SumFunctionOnSet(v, DOMAIN b.open)
  BY DEF RemainingOf, CostBasis, SumFunction
<1>. HIDE DEF w, v
<1>. QED  BY <1>1, <1>2, <1>3, <1>4, SumNat, SumSplit

\* What the open positions hold and cost, when one is appended.
LEMMA OpenAppended ==
  ASSUME NEW b, NEW c, NEW p \in Position, b.open \in Seq(Position), c.open = Append(b.open, p)
  PROVE  /\ c.open \in Seq(Position)
         /\ RemainingOf(c) = RemainingOf(b) + p.remaining
         /\ CostBasis(c) = CostBasis(b) + CostOf(p, p.remaining)
         /\ Wholes(b) /\ Whole(p) => Wholes(c)
<1>. DEFINE s == b.open
            t == Append(s, p)
            w == [n \in DOMAIN s |-> s[n].remaining]
            v == [n \in DOMAIN s |-> CostOf(s[n], s[n].remaining)]
            ww == [n \in DOMAIN t |-> t[n].remaining]
            vv == [n \in DOMAIN t |-> CostOf(t[n], t[n].remaining)]
<1>1. t \in Seq(Position) /\ Len(t) = Len(s) + 1 /\ t[Len(s) + 1] = p
      /\ (\A n \in 1 .. Len(s) : t[n] = s[n] /\ s[n] \in Position)
      /\ DOMAIN t = 1 .. Len(s) + 1 /\ DOMAIN s = 1 .. Len(s) /\ Len(s) \in Nat
  OBVIOUS
<1>0. \A n \in 1 .. Len(s) : n \in DOMAIN s /\ n \in DOMAIN t
  BY <1>1
<1>2. \A n \in 1 .. Len(s) : w[n] \in Int /\ ww[n] = w[n]
  <2>. SUFFICES ASSUME NEW n \in 1 .. Len(s) PROVE w[n] \in Int /\ ww[n] = w[n]
    OBVIOUS
  <2>1. w[n] = s[n].remaining /\ ww[n] = t[n].remaining /\ t[n] = s[n]
    BY <1>0, <1>1
  <2>2. s[n].remaining \in Nat
    BY <1>1, PositionTyped
  <2>. HIDE DEF w, ww, s, t
  <2>. QED  BY <2>1, <2>2
<1>3. \A n \in 1 .. Len(s) : v[n] \in Int /\ vv[n] = v[n]
  <2>. SUFFICES ASSUME NEW n \in 1 .. Len(s) PROVE v[n] \in Int /\ vv[n] = v[n]
    OBVIOUS
  <2>1. v[n] = CostOf(s[n], s[n].remaining) /\ vv[n] = CostOf(t[n], t[n].remaining) /\ t[n] = s[n]
    BY <1>0, <1>1
  <2>2. CostOf(s[n], s[n].remaining) \in Int
    BY <1>1, PositionTyped
  <2>. HIDE DEF v, vv, s, t
  <2>. QED  BY <2>1, <2>2
<1>4. ww[Len(s) + 1] = p.remaining /\ vv[Len(s) + 1] = CostOf(p, p.remaining)
  BY <1>1
<1>5. p.remaining \in Int /\ CostOf(p, p.remaining) \in Int
  BY CostOfWhole DEF Position
<1>6. /\ RemainingOf(b) = SumFunctionOnSet(w, DOMAIN s) /\ CostBasis(b) = SumFunctionOnSet(v, DOMAIN s)
      /\ RemainingOf(c) = SumFunctionOnSet(ww, DOMAIN t) /\ CostBasis(c) = SumFunctionOnSet(vv, DOMAIN t)
  BY DEF RemainingOf, CostBasis, SumFunction
<1>7. Wholes(b) /\ Whole(p) => Wholes(c)
  BY <1>1 DEF Wholes
<1>8. s \in Seq(Position)
  OBVIOUS
<1>. HIDE DEF s, w, v, ww, vv
<1>9. SumFunctionOnSet(ww, DOMAIN t) = SumFunctionOnSet(w, DOMAIN s) + ww[Len(s) + 1]
  BY <1>2, <1>4, <1>5, <1>8, SumAppended
<1>10. SumFunctionOnSet(vv, DOMAIN t) = SumFunctionOnSet(v, DOMAIN s) + vv[Len(s) + 1]
  BY <1>3, <1>4, <1>5, <1>8, SumAppended
<1>. QED  BY <1>1, <1>4, <1>6, <1>7, <1>9, <1>10 DEF s

\* Half of a difference.
LEMMA PositivesDiffer ==
  ASSUME NEW x \in Int
  PROVE  /\ Positive(x) \in Nat /\ Positive(-x) \in Nat /\ Positive(x) - Positive(-x) = x
         /\ \A y \in Int : Positive(x - y) - Positive(y - x) = x - y
                           /\ Positive(x - y) \in Nat /\ Positive(y - x) \in Nat
BY DEF Positive

\* One position gives what is wanted of it.
IsFound(acc) ==
  /\ acc = [found |-> acc.found, open |-> acc.open, cost |-> acc.cost, profit |-> acc.profit, loss |-> acc.loss]
  /\ acc.found \in Nat /\ acc.open \in Seq(Position)
  /\ acc.cost \in Int /\ acc.profit \in Int /\ acc.loss \in Int

\* One position gives what it has or what is missing: nothing is found that was not held, the
\* gain is what the rate brings beyond the cost, and the cost leaves the basis.
LEMMA GivesFacts ==
  ASSUME NEW acc, IsFound(acc), NEW p \in Position, NEW amount \in Nat, NEW rate \in Int,
         acc.found <= amount, NEW r, r = Gives(acc, p, amount, rate)
  PROVE  /\ IsFound(r)
         /\ r.found = Least(amount, acc.found + p.remaining)
         /\ r.found + RemainingOf(r) = acc.found + RemainingOf(acc) + p.remaining
         /\ r.profit - r.loss - (r.found * rate - r.cost)
            = acc.profit - acc.loss - (acc.found * rate - acc.cost)
         /\ Wholes(acc) /\ Whole(p) =>
              /\ Wholes(r)
              /\ r.cost + CostBasis(r) = acc.cost + CostBasis(acc) + CostOf(p, p.remaining)
<1>. DEFINE part == Least(amount - acc.found, p.remaining)
            cost == CostOf(p, part)
            rest == [p EXCEPT !.remaining = @ - part]
<1>1. /\ r = [found |-> acc.found + part,
              open |-> IF part = p.remaining THEN acc.open ELSE Append(acc.open, rest),
              cost |-> acc.cost + cost,
              profit |-> acc.profit + Positive(part * rate - cost),
              loss |-> acc.loss + Positive(cost - part * rate)]
  BY DEF Gives
<1>2. p.remaining \in Nat \ {0} /\ p.initial \in Nat \ {0} /\ p.value \in Int
  BY DEF Position
<1>3. acc.found \in Nat /\ acc.open \in Seq(Position) /\ acc.cost \in Int /\ acc.profit \in Int /\ acc.loss \in Int
  BY DEF IsFound
<1>17. acc.found \in Int /\ acc.cost \in Int /\ acc.profit \in Int /\ acc.loss \in Int
  BY <1>3
<1>4. part \in Nat /\ part <= p.remaining /\ acc.found + part = Least(amount, acc.found + p.remaining)
  BY ONLY <1>2, <1>3, amount \in Int, acc.found <= amount DEF Least
<1>5. cost \in Int
  <2>. HIDE DEF part
  <2>. QED  BY <1>4, CostOfWhole
<1>6. part # p.remaining => rest \in Position /\ rest.remaining = p.remaining - part
        /\ (Whole(p) => Whole(rest)) /\ CostOf(rest, p.remaining - part) = CostOf(p, p.remaining - part)
  <2>. HIDE DEF part
  <2>. QED  BY <1>2, <1>4 DEF Position, Whole, CostOf
<1>7. part * rate \in Int
  <2>. HIDE DEF part
  <2>. QED  BY <1>4
<1>. HIDE DEF part, cost, rest
<1>8. /\ Positive(part * rate - cost) \in Nat /\ Positive(cost - part * rate) \in Nat
      /\ Positive(part * rate - cost) - Positive(cost - part * rate) = part * rate - cost
  BY <1>5, <1>7, PositivesDiffer
<1>16. PICK gain \in Nat, drop \in Nat, c \in Int :
         c = cost /\ gain = Positive(part * rate - cost) /\ drop = Positive(cost - part * rate)
  BY <1>5, <1>8
<1>9. (acc.found + part) * rate = acc.found * rate + part * rate /\ acc.found * rate \in Int
  BY <1>3, <1>4
<1>10. RemainingOf(acc) \in Nat /\ CostBasis(acc) \in Int
  BY <1>3, OpenTyped
<1>11. Whole(p) => CostOf(p, part) + CostOf(p, p.remaining - part) = CostOf(p, p.remaining)
  <2>. SUFFICES ASSUME NEW x \in Int, p.value = x * p.initial
                PROVE  CostOf(p, part) + CostOf(p, p.remaining - part) = CostOf(p, p.remaining)
    BY DEF Whole
  <2>1. part \in Int /\ p.remaining - part \in Int /\ p.remaining \in Int
    BY <1>2, <1>4
  <2>2. CostOf(p, part) = x * part
    BY <2>1, CostOfWhole
  <2>3. CostOf(p, p.remaining - part) = x * (p.remaining - part)
    BY <2>1, CostOfWhole
  <2>4. CostOf(p, p.remaining) = x * p.remaining
    BY <2>1, CostOfWhole
  <2>. QED  BY <2>1, <2>2, <2>3, <2>4
<1>12. r.found = acc.found + part /\ r.cost = acc.cost + cost
       /\ r.profit = acc.profit + Positive(part * rate - cost)
       /\ r.loss = acc.loss + Positive(cost - part * rate)
       /\ r.open = IF part = p.remaining THEN acc.open ELSE Append(acc.open, rest)
  BY <1>1
<1>13. r.profit - r.loss - (r.found * rate - r.cost) = acc.profit - acc.loss - (acc.found * rate - acc.cost)
  <2>1. PICK a \in Int, b \in Int : a = part * rate /\ b = acc.found * rate
    BY <1>7, <1>9
  <2>2. r.found * rate = b + a
    BY <1>9, <1>12, <2>1
  <2>3. gain - drop = a - c
    BY <1>8, <1>16, <2>1
  <2>4. r.cost = acc.cost + c /\ r.profit = acc.profit + gain /\ r.loss = acc.loss + drop
    BY <1>16, <1>12
  <2>5. r.profit - r.loss - ((b + a) - r.cost) = acc.profit - acc.loss - (b - acc.cost)
    BY ONLY <1>17, <2>3, <2>4, a \in Int, b \in Int, gain \in Nat, drop \in Nat, c \in Int
  <2>. QED  BY ONLY <2>1, <2>2, <2>5, Zenon
<1>14. CASE part = p.remaining
  <2>1. r.open = acc.open
    BY <1>12, <1>14
  <2>2. RemainingOf(r) = RemainingOf(acc) /\ CostBasis(r) = CostBasis(acc) /\ (Wholes(acc) => Wholes(r))
    BY <2>1 DEF RemainingOf, CostBasis, Wholes
  <2>3. IsFound(r)
    <3>1. r.found \in Nat /\ r.cost \in Int /\ r.profit \in Int /\ r.loss \in Int
      <4>1. r.cost = acc.cost + c /\ r.profit = acc.profit + gain /\ r.loss = acc.loss + drop
        BY <1>16, <1>12
      <4>2. r.found \in Nat
        BY <1>3, <1>4, <1>12
      <4>. QED  BY ONLY <1>17, <4>1, <4>2, gain \in Nat, drop \in Nat, c \in Int
    <3>2. r = [found |-> r.found, open |-> r.open, cost |-> r.cost, profit |-> r.profit, loss |-> r.loss]
      BY <1>1, <1>12
    <3>. QED  BY <1>3, <2>1, <3>1, <3>2 DEF IsFound
  <2>4. r.found + RemainingOf(r) = acc.found + RemainingOf(acc) + p.remaining
    BY <1>2, <1>3, <1>10, <1>12, <1>14, <2>2
  <2>5. r.cost + CostBasis(r) = acc.cost + CostBasis(acc) + CostOf(p, p.remaining)
    <3>1. cost = CostOf(p, p.remaining)
      BY <1>14 DEF cost
    <3>. QED  BY <1>3, <1>5, <1>10, <1>12, <2>2, <3>1
  <2>. QED  BY <1>4, <1>12, <1>13, <2>2, <2>3, <2>4, <2>5
<1>15. CASE part # p.remaining
  <2>1. r.open = Append(acc.open, rest) /\ rest \in Position
    BY <1>6, <1>12, <1>15
  <2>2. /\ RemainingOf(r) = RemainingOf(acc) + rest.remaining /\ r.open \in Seq(Position)
        /\ CostBasis(r) = CostBasis(acc) + CostOf(rest, rest.remaining)
        /\ Wholes(acc) /\ Whole(rest) => Wholes(r)
    BY <1>3, <2>1, OpenAppended
  <2>3. IsFound(r)
    <3>1. r.found \in Nat /\ r.cost \in Int /\ r.profit \in Int /\ r.loss \in Int
      <4>1. r.cost = acc.cost + c /\ r.profit = acc.profit + gain /\ r.loss = acc.loss + drop
        BY <1>16, <1>12
      <4>2. r.found \in Nat
        BY <1>3, <1>4, <1>12
      <4>. QED  BY ONLY <1>17, <4>1, <4>2, gain \in Nat, drop \in Nat, c \in Int
    <3>2. r = [found |-> r.found, open |-> r.open, cost |-> r.cost, profit |-> r.profit, loss |-> r.loss]
      BY <1>1, <1>12
    <3>. QED  BY <1>3, <2>2, <3>1, <3>2 DEF IsFound
  <2>4. CostOf(rest, rest.remaining) = CostOf(p, p.remaining - part) /\ rest.remaining = p.remaining - part
    BY <1>6, <1>15
  <2>5. CostOf(p, p.remaining - part) \in Int
    BY <1>2, <1>4, CostOfWhole
  <2>6. r.found + RemainingOf(r) = acc.found + RemainingOf(acc) + p.remaining
    BY ONLY <1>2, <1>3, <1>4, <1>10, <1>12, <2>2, <2>4
  <2>7. ASSUME Wholes(acc), Whole(p)
        PROVE  Wholes(r) /\ r.cost + CostBasis(r) = acc.cost + CostBasis(acc) + CostOf(p, p.remaining)
    BY ONLY <2>7, <1>3, <1>5, <1>6, <1>10, <1>11, <1>12, <1>15, <2>2, <2>4, <2>5 DEF cost
  <2>. QED  BY <1>4, <1>12, <1>13, <2>3, <2>6, <2>7
<1>. QED  BY <1>14, <1>15

\* What positions give until the amount is found.
LEMMA FoundFacts ==
  ASSUME NEW b, b.open \in Seq(Position), NEW amount \in Nat, NEW rate \in Int,
         NEW r, r = FoundIn(b, amount, rate)
  PROVE  /\ IsFound(r)
         /\ r.found = Least(amount, RemainingOf(b))
         /\ r.found + RemainingOf(r) = RemainingOf(b)
         /\ r.profit - r.loss = r.found * rate - r.cost
         /\ Wholes(b) => Wholes(r) /\ r.cost + CostBasis(r) = CostBasis(b)
<1>. DEFINE s == b.open
            N == Len(s)
            w == [n \in DOMAIN s |-> s[n].remaining]
            v == [n \in DOMAIN s |-> CostOf(s[n], s[n].remaining)]
            W(n) == SumFunctionOnSet(w, 1 .. n)
            V(n) == SumFunctionOnSet(v, 1 .. n)
<1>1. PICK after : Gave(after, b.open, amount, rate) /\ r = after[N]
  BY FoundInSteps
<1>2. N \in Nat /\ DOMAIN s = 1 .. N /\ \A n \in 1 .. N : s[n] \in Position
  OBVIOUS
<1>3. \A n \in 1 .. N : w[n] = s[n].remaining /\ v[n] = CostOf(s[n], s[n].remaining)
                        /\ w[n] \in Nat /\ v[n] \in Int
  BY <1>2, PositionTyped
<1>4. RemainingOf(b) = W(N) /\ CostBasis(b) = V(N)
  BY <1>2 DEF RemainingOf, CostBasis, SumFunction
<1>. HIDE DEF w, v
<1>20. \A n \in 1 .. N : w[n] \in Int /\ v[n] \in Int
  BY <1>3
<1>5. W(0) = 0 /\ V(0) = 0
  BY <1>2, <1>20, SumOfFirst
<1>21. \A n \in 0 .. N : W(n) \in Nat
  <2>. SUFFICES ASSUME NEW n \in 0 .. N PROVE W(n) \in Nat
    OBVIOUS
  <2>1. IsFiniteSet(1 .. n)
    BY FS_Interval
  <2>2. \A k \in 1 .. n : k \in 1 .. N
    BY <1>2
  <2>. QED  BY <1>3, <2>1, <2>2, SumNat
<1>6. ASSUME NEW n \in 1 .. N
      PROVE  /\ W(n) = W(n - 1) + s[n].remaining /\ W(n - 1) \in Nat
             /\ V(n) = V(n - 1) + CostOf(s[n], s[n].remaining) /\ V(n - 1) \in Int
  <2>1. W(n) = W(n - 1) + w[n] /\ V(n) = V(n - 1) + v[n]
    BY <1>2, <1>20, SumOfFirst
  <2>2. n - 1 \in 0 .. N
    BY <1>2
  <2>3. V(n - 1) \in Int
    BY <1>2, <1>20, <2>2, SumOfFirst
  <2>. HIDE DEF W, V
  <2>. QED  BY <1>3, <1>21, <2>1, <2>2, <2>3
<1>. DEFINE P(n) ==
       /\ IsFound(after[n])
       /\ after[n].found = Least(amount, W(n))
       /\ after[n].found + RemainingOf(after[n]) = W(n)
       /\ after[n].profit - after[n].loss - (after[n].found * rate - after[n].cost) = 0
       /\ Wholes(b) => Wholes(after[n]) /\ after[n].cost + CostBasis(after[n]) = V(n)
<1>7. P(0)
  <2>1. after[0] = NothingFound
    BY <1>1 DEF Gave
  <2>2. IsFound(NothingFound)
    BY DEF IsFound, NothingFound
  <2>3. RemainingOf(NothingFound) = 0 /\ CostBasis(NothingFound) = 0 /\ Wholes(NothingFound)
    <3>1. NothingFound.open = <<>> /\ DOMAIN <<>> = {}
      BY DEF NothingFound
    <3>. QED  BY <3>1, SumEmpty DEF RemainingOf, CostBasis, SumFunction, Wholes
  <2>4. Least(amount, 0) = 0
    BY DEF Least
  <2>. QED  BY <1>5, <2>1, <2>2, <2>3, <2>4 DEF NothingFound
<1>8. ASSUME NEW n \in 1 .. N, P(n - 1) PROVE P(n)
  <2>1. after[n] = Gives(after[n - 1], s[n], amount, rate) /\ s[n] \in Position
    BY <1>1, <1>2 DEF Gave
  <2>2. PICK acc, p, x : acc = after[n - 1] /\ p = s[n] /\ x = after[n]
    OBVIOUS
  <2>3. IsFound(acc) /\ p \in Position /\ x = Gives(acc, p, amount, rate)
    BY <1>8, <2>1, <2>2
  <2>4. acc.found = Least(amount, W(n - 1)) /\ acc.found + RemainingOf(acc) = W(n - 1)
        /\ acc.profit - acc.loss - (acc.found * rate - acc.cost) = 0
        /\ (Wholes(b) => Wholes(acc) /\ acc.cost + CostBasis(acc) = V(n - 1))
    BY <1>8, <2>2
  <2>5. acc.found <= amount
    <3>1. W(n - 1) \in Nat
      BY <1>6
    <3>. HIDE DEF W
    <3>. QED  BY <2>4, <3>1 DEF Least
  <2>6. /\ IsFound(x)
        /\ x.found = Least(amount, acc.found + p.remaining)
        /\ x.found + RemainingOf(x) = acc.found + RemainingOf(acc) + p.remaining
        /\ x.profit - x.loss - (x.found * rate - x.cost) = acc.profit - acc.loss - (acc.found * rate - acc.cost)
        /\ Wholes(acc) /\ Whole(p) =>
             Wholes(x) /\ x.cost + CostBasis(x) = acc.cost + CostBasis(acc) + CostOf(p, p.remaining)
    BY <2>3, <2>5, GivesFacts
  <2>7. W(n) = W(n - 1) + p.remaining /\ V(n) = V(n - 1) + CostOf(p, p.remaining) /\ W(n - 1) \in Nat
    BY <1>6, <2>2
  <2>8. p.remaining \in Nat
    BY <2>3, PositionTyped
  <2>9. x.found = Least(amount, W(n))
    BY <2>4, <2>6, <2>7, <2>8 DEF Least
  <2>10. Wholes(b) => Whole(p)
    BY <1>2, <2>2 DEF Wholes
  <2>11. x.found + RemainingOf(x) = W(n)
    BY <2>4, <2>6, <2>7
  <2>12. x.profit - x.loss - (x.found * rate - x.cost) = 0
    BY <2>4, <2>6, Zenon
  <2>13. Wholes(b) => Wholes(x) /\ x.cost + CostBasis(x) = V(n)
    BY <2>4, <2>6, <2>7, <2>10
  <2>. QED  BY <2>2, <2>6, <2>9, <2>11, <2>12, <2>13
<1>9. \A n \in 0 .. N : P(n)
  <2>. DEFINE T == {n \in 0 .. N : P(n)}
  <2>. HIDE DEF P
  <2>1. 0 \in T
    BY <1>2, <1>7
  <2>2. \A n \in 1 .. N : n - 1 \in T => n \in T
    BY <1>2, <1>8
  <2>. HIDE DEF T, N
  <2>3. \A n \in 0 .. N : n \in T
    BY <1>2, <2>1, <2>2, StepByStep
  <2>. QED  BY <2>3 DEF T
<1>10. P(N)
  <2>. HIDE DEF P
  <2>. QED  BY <1>2, <1>9
<1>11. r.found \in Nat /\ r.cost \in Int /\ r.profit \in Int /\ r.loss \in Int
  BY <1>1, <1>10 DEF IsFound
<1>12. r.found * rate \in Int
  BY <1>11
<1>13. r.profit - r.loss = r.found * rate - r.cost
  <2>1. PICK m \in Int : m = r.found * rate
    BY <1>12
  <2>2. r.profit - r.loss - (m - r.cost) = 0
    BY <1>1, <1>10, <2>1
  <2>3. r.profit - r.loss = m - r.cost
    BY <1>11, <2>2
  <2>. QED  BY <2>1, <2>3
<1>. QED  BY <1>1, <1>4, <1>10, <1>13

\* What a book says in three numbers: what it holds more than it owes, what profit and loss
\* fall short of explaining, what payments it does not account for.
Net(b) == RemainingOf(b) - b.short
Gain(b) == b.profit - b.loss - (b.proceeds - b.spent)
Paid(b) == b.bought - b.spent - CostBasis(b)

\* What a book's balances are.
LEMMA NumbersTyped ==
  ASSUME NEW b, IsBook(b)
  PROVE  RemainingOf(b) \in Nat /\ CostBasis(b) \in Int /\ Net(b) \in Int /\ Gain(b) \in Int /\ Paid(b) \in Int
<1>1. RemainingOf(b) \in Nat /\ CostBasis(b) \in Int
  BY OpenTyped DEF IsBook
<1>2. b.bought \in Int /\ b.spent \in Int /\ b.proceeds \in Int /\ b.profit \in Int /\ b.loss \in Int /\ b.short \in Int
  BY DEF IsBook
<1>. QED  BY <1>1, <1>2 DEF Net, Gain, Paid

\* c is b after an amount left it.
Gone(b, c, amount) ==
  /\ IsBook(c)
  /\ c.left = b.left - amount /\ c.expense = b.expense
  /\ Net(c) = Net(b) - amount
  /\ RemainingOf(c) <= RemainingOf(b)
  /\ c.short >= b.short /\ (c.short = b.short \/ RemainingOf(c) = 0)
  /\ Gain(c) = Gain(b)
  /\ Wholes(b) => Wholes(c) /\ Paid(c) = Paid(b)

\* Realizing an amount takes it out of the book, at the rate for what was found.
LEMMA RealizeFacts ==
  ASSUME NEW b, IsBook(b), NEW amount \in Nat, NEW rate \in Int, NEW c, c = Realize(b, amount, rate)
  PROVE  /\ Gone(b, c, amount)
         /\ c.swaps = b.swaps
         /\ c.proceeds \in Int /\ (c.short = b.short => c.proceeds = b.proceeds + amount * rate)
<1>1. PICK r : r = FoundIn(b, amount, rate)
  OBVIOUS
<1>2. /\ IsFound(r) /\ r.found = Least(amount, RemainingOf(b))
      /\ r.found + RemainingOf(r) = RemainingOf(b)
      /\ r.profit - r.loss = r.found * rate - r.cost
      /\ Wholes(b) => Wholes(r) /\ r.cost + CostBasis(r) = CostBasis(b)
  BY <1>1, FoundFacts DEF IsBook
<1>3. c = [b EXCEPT !.open = r.open, !.left = @ - amount, !.spent = @ + r.cost,
                    !.proceeds = @ + r.found * rate, !.profit = @ + r.profit,
                    !.loss = @ + r.loss, !.short = @ + amount - r.found]
  BY <1>1 DEF Realize, Booked
<1>4. c = [open |-> r.open, left |-> b.left - amount, bought |-> b.bought, spent |-> b.spent + r.cost,
           proceeds |-> b.proceeds + r.found * rate, profit |-> b.profit + r.profit,
           loss |-> b.loss + r.loss, short |-> b.short + amount - r.found,
           expense |-> b.expense, swaps |-> b.swaps]
  BY ONLY IsBook(b), <1>3 DEF IsBook
<1>5. b.left \in Int /\ b.bought \in Int /\ b.spent \in Int /\ b.proceeds \in Int
      /\ b.profit \in Int /\ b.loss \in Int /\ b.short \in Int /\ b.expense \in Int
  BY DEF IsBook
<1>6. r.found \in Nat /\ r.cost \in Int /\ r.profit \in Int /\ r.loss \in Int
  BY <1>2 DEF IsFound
<1>18. r.open \in Seq(Position)
  BY <1>2 DEF IsFound
<1>7. RemainingOf(b) \in Nat /\ CostBasis(b) \in Int /\ RemainingOf(r) \in Nat /\ CostBasis(r) \in Int
  BY <1>18, NumbersTyped, OpenTyped
<1>8. c.open = r.open /\ RemainingOf(c) = RemainingOf(r) /\ CostBasis(c) = CostBasis(r) /\ (Wholes(c) <=> Wholes(r))
  BY <1>4 DEF RemainingOf, CostBasis, Wholes
<1>9. PICK brought \in Int : brought = r.found * rate
  BY <1>6
<1>10. /\ c.left = b.left - amount /\ c.bought = b.bought /\ c.spent = b.spent + r.cost
       /\ c.proceeds = b.proceeds + brought /\ c.profit = b.profit + r.profit
       /\ c.loss = b.loss + r.loss /\ c.short = b.short + amount - r.found
       /\ c.expense = b.expense /\ c.swaps = b.swaps
  BY <1>4, <1>9
<1>11. IsBook(c)
  <2>1. c.left \in Int /\ c.bought \in Int /\ c.spent \in Int /\ c.proceeds \in Int
        /\ c.profit \in Int /\ c.loss \in Int /\ c.short \in Int /\ c.expense \in Int
    BY <1>5, <1>6, <1>10
  <2>2. c = [open |-> c.open, left |-> c.left, bought |-> c.bought, spent |-> c.spent,
             proceeds |-> c.proceeds, profit |-> c.profit, loss |-> c.loss, short |-> c.short,
             expense |-> c.expense, swaps |-> c.swaps]
    BY <1>4
  <2>. QED  BY <1>8, <1>18, <2>1, <2>2 DEF IsBook
<1>12. Net(c) = Net(b) - amount
  BY <1>2, <1>5, <1>6, <1>7, <1>8, <1>10 DEF Net
<1>13. RemainingOf(c) <= RemainingOf(b)
  BY <1>2, <1>6, <1>7, <1>8
<1>19. RemainingOf(c) = RemainingOf(b) - r.found /\ r.found = Least(amount, RemainingOf(b))
  BY <1>2, <1>6, <1>7, <1>8
<1>14. c.short >= b.short /\ (c.short = b.short \/ RemainingOf(c) = 0) /\ (c.short = b.short => r.found = amount)
  BY <1>5, <1>6, <1>7, <1>10, <1>19 DEF Least
<1>15. Gain(c) = Gain(b)
  <2>1. r.profit - r.loss = brought - r.cost
    BY <1>2, <1>9
  <2>. QED  BY <1>5, <1>6, <1>10, <2>1 DEF Gain
<1>16. Wholes(b) => Wholes(c) /\ Paid(c) = Paid(b)
  BY <1>2, <1>5, <1>6, <1>7, <1>8, <1>10 DEF Paid
<1>17. Gone(b, c, amount)
  BY <1>10, <1>11, <1>12, <1>13, <1>14, <1>15, <1>16 DEF Gone
<1>. QED  BY <1>5, <1>9, <1>10, <1>14, <1>17

\* Nothing leaves a book that stays as it is.
LEMMA GoneNothing ==
  ASSUME NEW b, IsBook(b)
  PROVE  Gone(b, b, 0)
<1>1. Net(b) \in Int /\ Gain(b) \in Int /\ RemainingOf(b) \in Nat
  BY NumbersTyped
<1>2. b.left \in Int /\ b.short \in Int /\ b.proceeds \in Int
  BY DEF IsBook
<1>. QED  BY ONLY IsBook(b), <1>1, <1>2 DEF Gone

\* What leaves in two steps leaves as one amount.
LEMMA GoneTwice ==
  ASSUME NEW b, NEW c, NEW d, IsBook(b), NEW x \in Nat, NEW y \in Nat, Gone(b, c, x), Gone(c, d, y)
  PROVE  Gone(b, d, x + y)
<1>1. IsBook(c) /\ IsBook(d)
  BY DEF Gone
<1>2. b.left \in Int /\ c.left \in Int /\ b.short \in Int /\ c.short \in Int /\ d.short \in Int
  BY <1>1 DEF IsBook
<1>3. /\ RemainingOf(b) \in Nat /\ RemainingOf(c) \in Nat /\ RemainingOf(d) \in Nat
      /\ Net(b) \in Int /\ Net(c) \in Int
  BY <1>1, NumbersTyped
<1>. QED  BY <1>1, <1>2, <1>3 DEF Gone

\* What some visits add, in the order they are made or not.
LEMMA InOrderSum ==
  ASSUME NEW F, Placed(F), NEW v, \A f \in F : v[f] \in Int, NEW w,
         \A k \in 1 .. Cardinality(F) : w[k] = v[InOrder(F)[k]]
  PROVE  SumFunctionOnSet(w, 1 .. Cardinality(F)) = SumFunctionOnSet(v, F)
<1>1. Cardinality(F) \in Nat /\ InOrder(F) \in Bijection(1 .. Cardinality(F), F)
  BY InOrderLists
<1>2. IsFiniteSet(1 .. Cardinality(F))
  BY <1>1, FS_Interval
<1>3. \A k \in 1 .. Cardinality(F) : InOrder(F)[k] \in F
  BY <1>1 DEF Bijection, Injection
<1>4. \A k \in 1 .. Cardinality(F) : w[k] \in Int /\ v[InOrder(F)[k]] = w[k]
  BY <1>3
<1>. QED  BY <1>1, <1>2, <1>4, SumRenamed

\* What was paid is accounted for in c as it is in b.
KeepsPaid(b, c) == Wholes(b) => Wholes(c) /\ Paid(c) = Paid(b)

\* c is b after an amount came in.
Came(b, c, amount) ==
  /\ IsBook(c)
  /\ c.left = b.left /\ c.expense = b.expense /\ c.short = b.short
  /\ RemainingOf(c) = RemainingOf(b) + amount
  /\ Gain(c) = Gain(b)

\* Opening a position brings its amount in, and what was paid for it is in what it costs.
LEMMA OpenPositionFacts ==
  ASSUME NEW b, IsBook(b), NEW amount \in Nat, NEW value \in Int, NEW c, c = OpenPosition(b, amount, value)
  PROVE  /\ Came(b, c, amount)
         /\ \A r \in Int : value = r * amount => KeepsPaid(b, c)
         /\ c.swaps = b.swaps
<1>1. RemainingOf(b) \in Nat /\ CostBasis(b) \in Int /\ b.bought \in Int /\ b.spent \in Int /\ b.short \in Int
  BY NumbersTyped DEF IsBook
<1>2. CASE amount = 0
  <2>1. c = b
    BY <1>2 DEF OpenPosition
  <2>. QED  BY <1>1, <1>2, <2>1 DEF Came, KeepsPaid
<1>3. CASE amount # 0
  <2>1. PICK p : p = [initial |-> amount, remaining |-> amount, value |-> value]
    OBVIOUS
  <2>2. p \in Position /\ p.remaining = amount /\ p.initial = amount /\ p.value = value
    BY <1>3, <2>1 DEF Position
  <2>3. c = [b EXCEPT !.open = Append(@, p), !.bought = @ + value]
    BY <1>3, <2>1 DEF OpenPosition
  <2>4. c = [open |-> Append(b.open, p), left |-> b.left, bought |-> b.bought + value, spent |-> b.spent,
             proceeds |-> b.proceeds, profit |-> b.profit, loss |-> b.loss, short |-> b.short,
             expense |-> b.expense, swaps |-> b.swaps]
    BY <2>3 DEF IsBook
  <2>5. b.open \in Seq(Position) /\ c.open = Append(b.open, p)
    BY <2>4 DEF IsBook
  <2>6. /\ c.open \in Seq(Position)
        /\ RemainingOf(c) = RemainingOf(b) + p.remaining
        /\ CostBasis(c) = CostBasis(b) + CostOf(p, p.remaining)
        /\ Wholes(b) /\ Whole(p) => Wholes(c)
    BY <2>2, <2>5, OpenAppended
  <2>7. c.bought = b.bought + value /\ c.bought \in Int /\ c.spent = b.spent
    BY <1>1, <2>4
  <2>8. IsBook(c)
    <3>1. c.left = b.left /\ c.spent = b.spent /\ c.proceeds = b.proceeds /\ c.profit = b.profit
          /\ c.loss = b.loss /\ c.short = b.short /\ c.expense = b.expense
      BY <2>4
    <3>2. c = [open |-> c.open, left |-> c.left, bought |-> c.bought, spent |-> c.spent,
               proceeds |-> c.proceeds, profit |-> c.profit, loss |-> c.loss, short |-> c.short,
               expense |-> c.expense, swaps |-> c.swaps]
      BY <2>4
    <3>. QED  BY <2>6, <2>7, <3>1, <3>2 DEF IsBook
  <2>9. Gain(c) = Gain(b)
    BY <2>4 DEF Gain
  <2>10. ASSUME NEW r \in Int, value = r * amount, Wholes(b) PROVE Wholes(c) /\ Paid(c) = Paid(b)
    <3>1. p.value = r * p.initial
      BY <2>2, <2>10
    <3>2. CostOf(p, p.remaining) = value
      <4>1. p.remaining \in Int
        BY <2>2
      <4>2. CostOf(p, p.remaining) = r * p.remaining
        BY <2>2, <3>1, <4>1, CostOfWhole
      <4>. QED  BY <2>2, <2>10, <4>2
    <3>3. Whole(p)
      BY <3>1 DEF Whole
    <3>4. CostBasis(c) = CostBasis(b) + value
      BY <2>6, <3>2
    <3>. QED  BY ONLY <1>1, <2>6, <2>7, <2>10, <3>3, <3>4 DEF Paid
  <2>11. c.left = b.left /\ c.expense = b.expense /\ c.short = b.short /\ c.swaps = b.swaps
    BY <2>4
  <2>12. RemainingOf(c) = RemainingOf(b) + amount
    BY <2>2, <2>6
  <2>. QED  BY <2>8, <2>9, <2>10, <2>11, <2>12 DEF Came, KeepsPaid
<1>. QED  BY <1>2, <1>3

\* What comes in in two steps comes in as one amount.
LEMMA CameTwice ==
  ASSUME NEW b, NEW c, NEW d, IsBook(b), NEW x \in Nat, NEW y \in Nat, Came(b, c, x), Came(c, d, y)
  PROVE  Came(b, d, x + y)
<1>1. RemainingOf(b) \in Nat /\ RemainingOf(c) \in Nat
  BY NumbersTyped DEF Came
<1>. QED  BY <1>1 DEF Came

\* Another note among a book's swaps changes nothing else.
LEMMA NotedFacts ==
  ASSUME NEW b, IsBook(b), NEW n, NEW c, c = [b EXCEPT !.swaps = @ \cup {n}]
  PROVE  /\ IsBook(c) /\ c.swaps = b.swaps \cup {n}
         /\ c.left = b.left /\ c.expense = b.expense /\ c.short = b.short /\ c.proceeds = b.proceeds
         /\ RemainingOf(c) = RemainingOf(b) /\ Net(c) = Net(b) /\ Gain(c) = Gain(b)
         /\ (Wholes(c) <=> Wholes(b)) /\ Paid(c) = Paid(b)
<1>1. c = [open |-> b.open, left |-> b.left, bought |-> b.bought, spent |-> b.spent,
           proceeds |-> b.proceeds, profit |-> b.profit, loss |-> b.loss, short |-> b.short,
           expense |-> b.expense, swaps |-> b.swaps \cup {n}]
  BY DEF IsBook
<1>2. /\ c.open = b.open /\ c.left = b.left /\ c.bought = b.bought /\ c.spent = b.spent
      /\ c.proceeds = b.proceeds /\ c.profit = b.profit /\ c.loss = b.loss /\ c.short = b.short
      /\ c.expense = b.expense /\ c.swaps = b.swaps \cup {n}
  BY <1>1
<1>3. IsBook(c)
  <2>1. c = [open |-> c.open, left |-> c.left, bought |-> c.bought, spent |-> c.spent,
             proceeds |-> c.proceeds, profit |-> c.profit, loss |-> c.loss, short |-> c.short,
             expense |-> c.expense, swaps |-> c.swaps]
    BY <1>1
  <2>. QED  BY <1>2, <2>1 DEF IsBook
<1>. QED  BY <1>2, <1>3 DEF RemainingOf, CostBasis, Wholes, Net, Gain, Paid

\* What swaps bring in, one after the other.
LEMMA SwapInTurns ==
  ASSUME NEW b, NEW F, Placed(F)
  PROVE  \E after :
           /\ after[0] = b
           /\ \A k \in 1 .. Cardinality(F) : after[k] = SwapIn(after[k - 1], InOrder(F)[k])
           /\ SwapsIn(b, F) = after[Cardinality(F)]
<1>. DEFINE o == InOrder(F)
            N == Len(o)
            step(g, k) == IF k = 0 THEN b ELSE SwapIn(g[k - 1], o[k])
            Is(g, m) == g = [k \in 0 .. m |-> step(g, k)]
<1>0. N = Cardinality(F) /\ N \in Nat
  BY InOrderLists
<1>1. SwapsIn(b, F) = (CHOOSE g : Is(g, N))[N]
  BY DEF InTurn, SwapsIn
<1>. HIDE DEF N, o
<1>2. \E g : Is(g, N)
  <2>. DEFINE T == {m \in 0 .. N : \E g : Is(g, m)}
  <2>1. 0 \in T
    <3>1. Is([k \in 0 .. 0 |-> b], 0)
      OBVIOUS
    <3>. HIDE DEF Is
    <3>. QED  BY <1>0, <3>1
  <2>2. ASSUME NEW m \in 1 .. N, m - 1 \in T PROVE m \in T
    <3>1. PICK g : Is(g, m - 1)
      BY <2>2
    <3>. DEFINE h == [k \in 0 .. m |-> IF k = m THEN step(g, m) ELSE g[k]]
    <3>2. \A k \in 0 .. m - 1 : g[k] = step(g, k)
      BY <3>1
    <3>3. \A k \in 0 .. m : h[k] = step(h, k)
      <4>. SUFFICES ASSUME NEW k \in 0 .. m PROVE h[k] = step(h, k)
        OBVIOUS
      <4>1. CASE k = m
        BY <4>1, <2>2
      <4>2. CASE k # m
        <5>1. k \in 0 .. m - 1 /\ h[k] = g[k] /\ (k # 0 => h[k - 1] = g[k - 1])
          BY <4>2
        <5>. HIDE DEF h
        <5>. QED  BY <3>2, <5>1
      <4>. QED  BY <4>1, <4>2
    <3>4. h = [k \in 0 .. m |-> h[k]]
      OBVIOUS
    <3>5. Is(h, m)
      <4>. HIDE DEF h
      <4>. QED  BY <3>3, <3>4
    <3>. HIDE DEF Is, h
    <3>. QED  BY <3>5
  <2>3. \A m \in 0 .. N : m \in T
    <3>. HIDE DEF T
    <3>. QED  BY <1>0, <2>1, <2>2, StepByStep
  <2>. HIDE DEF Is
  <2>. QED  BY <1>0, <2>3
<1>3. PICK g : g = CHOOSE h : Is(h, N)
  OBVIOUS
<1>4. Is(g, N)
  <2>. HIDE DEF Is
  <2>. QED  BY <1>2, <1>3
<1>5. g[0] = step(g, 0) /\ \A k \in 1 .. N : g[k] = step(g, k)
  <2>1. \A k \in 0 .. N : g[k] = step(g, k)
    BY <1>4
  <2>. HIDE DEF step
  <2>. QED  BY <2>1, <1>0
<1>. HIDE DEF Is
<1>6. g[0] = b /\ \A k \in 1 .. N : g[k] = SwapIn(g[k - 1], o[k])
  BY <1>5
<1>. QED  BY <1>0, <1>1, <1>3, <1>6 DEF o

\* What swaps take, one after the other.
LEMMA SwapOutTurns ==
  ASSUME NEW b, NEW F, Placed(F)
  PROVE  \E after :
           /\ after[0] = b
           /\ \A k \in 1 .. Cardinality(F) : after[k] = SwapOut(after[k - 1], InOrder(F)[k])
           /\ SwapsOut(b, F) = after[Cardinality(F)]
<1>. DEFINE o == InOrder(F)
            N == Len(o)
            step(g, k) == IF k = 0 THEN b ELSE SwapOut(g[k - 1], o[k])
            Is(g, m) == g = [k \in 0 .. m |-> step(g, k)]
<1>0. N = Cardinality(F) /\ N \in Nat
  BY InOrderLists
<1>1. SwapsOut(b, F) = (CHOOSE g : Is(g, N))[N]
  BY DEF InTurn, SwapsOut
<1>. HIDE DEF N, o
<1>2. \E g : Is(g, N)
  <2>. DEFINE T == {m \in 0 .. N : \E g : Is(g, m)}
  <2>1. 0 \in T
    <3>1. Is([k \in 0 .. 0 |-> b], 0)
      OBVIOUS
    <3>. HIDE DEF Is
    <3>. QED  BY <1>0, <3>1
  <2>2. ASSUME NEW m \in 1 .. N, m - 1 \in T PROVE m \in T
    <3>1. PICK g : Is(g, m - 1)
      BY <2>2
    <3>. DEFINE h == [k \in 0 .. m |-> IF k = m THEN step(g, m) ELSE g[k]]
    <3>2. \A k \in 0 .. m - 1 : g[k] = step(g, k)
      BY <3>1
    <3>3. \A k \in 0 .. m : h[k] = step(h, k)
      <4>. SUFFICES ASSUME NEW k \in 0 .. m PROVE h[k] = step(h, k)
        OBVIOUS
      <4>1. CASE k = m
        BY <4>1, <2>2
      <4>2. CASE k # m
        <5>1. k \in 0 .. m - 1 /\ h[k] = g[k] /\ (k # 0 => h[k - 1] = g[k - 1])
          BY <4>2
        <5>. HIDE DEF h
        <5>. QED  BY <3>2, <5>1
      <4>. QED  BY <4>1, <4>2
    <3>4. h = [k \in 0 .. m |-> h[k]]
      OBVIOUS
    <3>5. Is(h, m)
      <4>. HIDE DEF h
      <4>. QED  BY <3>3, <3>4
    <3>. HIDE DEF Is, h
    <3>. QED  BY <3>5
  <2>3. \A m \in 0 .. N : m \in T
    <3>. HIDE DEF T
    <3>. QED  BY <1>0, <2>1, <2>2, StepByStep
  <2>. HIDE DEF Is
  <2>. QED  BY <1>0, <2>3
<1>3. PICK g : g = CHOOSE h : Is(h, N)
  OBVIOUS
<1>4. Is(g, N)
  <2>. HIDE DEF Is
  <2>. QED  BY <1>2, <1>3
<1>5. g[0] = step(g, 0) /\ \A k \in 1 .. N : g[k] = step(g, k)
  <2>1. \A k \in 0 .. N : g[k] = step(g, k)
    BY <1>4
  <2>. HIDE DEF step
  <2>. QED  BY <2>1, <1>0
<1>. HIDE DEF Is
<1>6. g[0] = b /\ \A k \in 1 .. N : g[k] = SwapOut(g[k - 1], o[k])
  BY <1>5
<1>. QED  BY <1>0, <1>1, <1>3, <1>6 DEF o

\* What leaves at the owner's prices, one flow after the other.
LEMMA OwnerTurns ==
  ASSUME NEW b, NEW F, Placed(F), NEW prices
  PROVE  \E after :
           /\ after[0] = b
           /\ \A k \in 1 .. Cardinality(F) : after[k] = Realize(after[k - 1], -InOrder(F)[k].changed, PriceOf(prices, InOrder(F)[k].hash))
           /\ LeaveByOwner(b, F, prices) = after[Cardinality(F)]
<1>. DEFINE o == InOrder(F)
            N == Len(o)
            step(g, k) == IF k = 0 THEN b ELSE Realize(g[k - 1], -o[k].changed, PriceOf(prices, o[k].hash))
            Is(g, m) == g = [k \in 0 .. m |-> step(g, k)]
<1>0. N = Cardinality(F) /\ N \in Nat
  BY InOrderLists
<1>1. LeaveByOwner(b, F, prices) = (CHOOSE g : Is(g, N))[N]
  BY DEF InTurn, LeaveByOwner
<1>. HIDE DEF N, o
<1>2. \E g : Is(g, N)
  <2>. DEFINE T == {m \in 0 .. N : \E g : Is(g, m)}
  <2>1. 0 \in T
    <3>1. Is([k \in 0 .. 0 |-> b], 0)
      OBVIOUS
    <3>. HIDE DEF Is
    <3>. QED  BY <1>0, <3>1
  <2>2. ASSUME NEW m \in 1 .. N, m - 1 \in T PROVE m \in T
    <3>1. PICK g : Is(g, m - 1)
      BY <2>2
    <3>. DEFINE h == [k \in 0 .. m |-> IF k = m THEN step(g, m) ELSE g[k]]
    <3>2. \A k \in 0 .. m - 1 : g[k] = step(g, k)
      BY <3>1
    <3>3. \A k \in 0 .. m : h[k] = step(h, k)
      <4>. SUFFICES ASSUME NEW k \in 0 .. m PROVE h[k] = step(h, k)
        OBVIOUS
      <4>1. CASE k = m
        BY <4>1, <2>2
      <4>2. CASE k # m
        <5>1. k \in 0 .. m - 1 /\ h[k] = g[k] /\ (k # 0 => h[k - 1] = g[k - 1])
          BY <4>2
        <5>. HIDE DEF h
        <5>. QED  BY <3>2, <5>1
      <4>. QED  BY <4>1, <4>2
    <3>4. h = [k \in 0 .. m |-> h[k]]
      OBVIOUS
    <3>5. Is(h, m)
      <4>. HIDE DEF h
      <4>. QED  BY <3>3, <3>4
    <3>. HIDE DEF Is, h
    <3>. QED  BY <3>5
  <2>3. \A m \in 0 .. N : m \in T
    <3>. HIDE DEF T
    <3>. QED  BY <1>0, <2>1, <2>2, StepByStep
  <2>. HIDE DEF Is
  <2>. QED  BY <1>0, <2>3
<1>3. PICK g : g = CHOOSE h : Is(h, N)
  OBVIOUS
<1>4. Is(g, N)
  <2>. HIDE DEF Is
  <2>. QED  BY <1>2, <1>3
<1>5. g[0] = step(g, 0) /\ \A k \in 1 .. N : g[k] = step(g, k)
  <2>1. \A k \in 0 .. N : g[k] = step(g, k)
    BY <1>4
  <2>. HIDE DEF step
  <2>. QED  BY <2>1, <1>0
<1>. HIDE DEF Is
<1>6. g[0] = b /\ \A k \in 1 .. N : g[k] = Realize(g[k - 1], -o[k].changed, PriceOf(prices, o[k].hash))
  BY <1>5
<1>. QED  BY <1>0, <1>1, <1>3, <1>6 DEF o

\* Each of some swaps is worth a whole value for each unit.
WholeSwap(s) == \E r \in Int : s.value = r * s.changed
WholeSwaps(F) == \A s \in F : WholeSwap(s)
NoteIn(s) == [key |-> SwapKeyForHash(s.hash), side |-> "in", value |-> s.value]

\* The side of a swap that arrives opens a position at the figure it notes.
LEMMA SwapInFacts ==
  ASSUME NEW b, IsBook(b), NEW s, s.changed \in Nat, s.value \in Int, NEW c, c = SwapIn(b, s)
  PROVE  /\ Came(b, c, s.changed) /\ (WholeSwap(s) => KeepsPaid(b, c))
         /\ c.swaps = b.swaps \cup {NoteIn(s)}
<1>1. PICK d : d = OpenPosition(b, s.changed, s.value)
  OBVIOUS
<1>2. Came(b, d, s.changed) /\ (WholeSwap(s) => KeepsPaid(b, d)) /\ d.swaps = b.swaps
  <2>1. PICK x, y : x = s.changed /\ y = s.value
    OBVIOUS
  <2>2. /\ Came(b, d, x) /\ d.swaps = b.swaps
        /\ \A r \in Int : y = r * x => KeepsPaid(b, d)
    <3>1. x \in Nat /\ y \in Int /\ d = OpenPosition(b, x, y)
      BY <1>1, <2>1
    <3>. QED  BY ONLY IsBook(b), <3>1, OpenPositionFacts
  <2>. QED  BY <2>1, <2>2 DEF WholeSwap
<1>3. c = [d EXCEPT !.swaps = @ \cup {NoteIn(s)}]
  BY <1>1 DEF SwapIn, NoteIn
<1>4. IsBook(d)
  BY <1>2 DEF Came
<1>5. /\ IsBook(c) /\ c.swaps = d.swaps \cup {NoteIn(s)}
      /\ c.left = d.left /\ c.expense = d.expense /\ c.short = d.short
      /\ RemainingOf(c) = RemainingOf(d) /\ Gain(c) = Gain(d)
      /\ (Wholes(c) <=> Wholes(d)) /\ Paid(c) = Paid(d)
  BY <1>3, <1>4, NotedFacts
<1>. QED  BY <1>2, <1>5 DEF Came, KeepsPaid

\* All swaps of a day that arrive bring in what they moved.
LEMMA SwapsInFacts ==
  ASSUME NEW b, IsBook(b), NEW F, Placed(F), \A s \in F : s.changed \in Nat /\ s.value \in Int,
         NEW v, \A s \in F : v[s] = s.changed, NEW c, c = SwapsIn(b, F)
  PROVE  /\ Came(b, c, SumFunctionOnSet(v, F)) /\ (WholeSwaps(F) => KeepsPaid(b, c))
         /\ \A n \in c.swaps : n \in b.swaps \/ \E s \in F : n = NoteIn(s)
<1>. DEFINE N == Cardinality(F)
            o == InOrder(F)
            w == [k \in 1 .. N |-> o[k].changed]
            W(k) == SumFunctionOnSet(w, 1 .. k)
<1>1. PICK after : /\ after[0] = b
                   /\ \A k \in 1 .. N : after[k] = SwapIn(after[k - 1], o[k])
                   /\ c = after[N]
  BY SwapInTurns
<1>2. N \in Nat /\ \A k \in 1 .. N : o[k] \in F
  BY InOrderLists DEF Bijection, Injection
<1>3. \A k \in 1 .. N : w[k] \in Nat /\ w[k] = o[k].changed /\ w[k] = v[o[k]]
  BY <1>2
<1>4. W(N) = SumFunctionOnSet(v, F)
  <2>1. \A f \in F : v[f] \in Int
    OBVIOUS
  <2>. HIDE DEF w
  <2>. QED  BY <1>3, <2>1, InOrderSum
<1>. HIDE DEF w, o, N
<1>5. W(0) = 0 /\ \A k \in 1 .. N : W(k) = W(k - 1) + w[k] /\ W(k - 1) \in Nat
  <2>1. W(0) = 0 /\ \A k \in 1 .. N : W(k) = W(k - 1) + w[k]
    <3>1. \A k \in 1 .. N : w[k] \in Int
      BY <1>3
    <3>. QED  BY <1>2, <3>1, SumOfFirst
  <2>2. ASSUME NEW k \in 1 .. N PROVE W(k - 1) \in Nat
    <3>1. IsFiniteSet(1 .. k - 1) /\ \A j \in 1 .. k - 1 : j \in 1 .. N
      BY <1>2, FS_Interval
    <3>. QED  BY <1>3, <3>1, SumNat
  <2>. QED  BY <2>1, <2>2
<1>. HIDE DEF W
<1>. DEFINE P(k) == /\ Came(b, after[k], W(k)) /\ (WholeSwaps(F) => KeepsPaid(b, after[k]))
                    /\ \A n \in after[k].swaps : n \in b.swaps \/ \E s \in F : n = NoteIn(s)
            T == {k \in 0 .. N : P(k)}
<1>6. 0 \in T
  <2>1. RemainingOf(b) + 0 = RemainingOf(b)
    BY NumbersTyped
  <2>. QED  BY <1>1, <1>2, <1>5, <2>1 DEF Came, KeepsPaid, IsBook
<1>7. ASSUME NEW k \in 1 .. N, k - 1 \in T PROVE k \in T
  <2>1. PICK x, y, s : x = after[k - 1] /\ y = after[k] /\ s = o[k]
    OBVIOUS
  <2>2. /\ Came(b, x, W(k - 1)) /\ (WholeSwaps(F) => KeepsPaid(b, x)) /\ IsBook(x) /\ s \in F /\ y = SwapIn(x, s)
        /\ \A n \in x.swaps : n \in b.swaps \/ \E q \in F : n = NoteIn(q)
    BY <1>1, <1>2, <1>7, <2>1 DEF Came
  <2>3. s.changed \in Nat /\ s.value \in Int /\ w[k] = s.changed
    BY <1>3, <2>1, <2>2
  <2>4. /\ Came(x, y, s.changed) /\ (WholeSwap(s) => KeepsPaid(x, y))
        /\ y.swaps = x.swaps \cup {NoteIn(s)}
    BY <2>2, <2>3, SwapInFacts
  <2>5. Came(b, y, W(k))
    <3>1. W(k - 1) \in Nat /\ W(k) = W(k - 1) + s.changed
      BY <1>5, <2>3
    <3>. QED  BY <2>2, <2>3, <2>4, <3>1, CameTwice
  <2>6. WholeSwaps(F) => KeepsPaid(b, y)
    BY <2>2, <2>4 DEF WholeSwaps, KeepsPaid
  <2>7. k \in 0 .. N
    BY <1>2
  <2>. QED  BY <2>1, <2>2, <2>4, <2>5, <2>6, <2>7
<1>8. \A k \in 0 .. N : k \in T
  <2>. HIDE DEF T
  <2>. QED  BY <1>2, <1>6, <1>7, StepByStep
<1>9. P(N)
  <2>. HIDE DEF P
  <2>. QED  BY <1>2, <1>8
<1>. QED  BY <1>1, <1>4, <1>9

\* A note of what was sold, and for how much when it was there.
NoteOut(n, s, b, c) ==
  /\ n.key = SwapKeyForHash(s.hash) /\ n.side = "out" /\ s.changed < 0
  /\ c.short = b.short => n.value = (-s.changed) * (s.value \div (-s.changed))

\* The side of a swap that leaves takes out what it moved, if so much is left of the day's
\* withdrawal.
LEMMA SwapOutFacts ==
  ASSUME NEW b, IsBook(b), NEW s, s.changed \in Int, s.changed < 0, -s.changed <= b.left,
         s.value \in Int, NEW c, c = SwapOut(b, s)
  PROVE  /\ Gone(b, c, -s.changed)
         /\ \A n \in c.swaps : n \in b.swaps \/ NoteOut(n, s, b, c)
<1>1. PICK amount \in Nat \ {0} : amount = -s.changed
  OBVIOUS
<1>2. b.left \in Int /\ Least(-s.changed, b.left) = amount /\ ~(amount <= 0)
  BY ONLY IsBook(b), -s.changed <= b.left, <1>1 DEF IsBook, Least
<1>3. PICK rate \in Int : rate = s.value \div (-s.changed)
  <2>1. s.value \div amount \in Int
    OBVIOUS
  <2>. QED  BY <1>1, <2>1
<1>4. PICK d : d = Realize(b, amount, rate)
  OBVIOUS
<1>5. c = SoldAs(s, b.proceeds, d)
  BY <1>2, <1>3, <1>4 DEF SwapOut
<1>6. /\ Gone(b, d, amount) /\ d.swaps = b.swaps
      /\ d.proceeds \in Int /\ (d.short = b.short => d.proceeds = b.proceeds + amount * rate)
  BY <1>3, <1>4, RealizeFacts
<1>7. PICK n : n = [key |-> SwapKeyForHash(s.hash), side |-> "out", value |-> d.proceeds - b.proceeds]
  OBVIOUS
<1>8. c = [d EXCEPT !.swaps = @ \cup {n}]
  BY <1>5, <1>7 DEF SoldAs
<1>9. IsBook(d)
  BY <1>6 DEF Gone
<1>10. /\ IsBook(c) /\ c.swaps = d.swaps \cup {n}
       /\ c.left = d.left /\ c.expense = d.expense /\ c.short = d.short
       /\ RemainingOf(c) = RemainingOf(d) /\ Net(c) = Net(d) /\ Gain(c) = Gain(d)
       /\ (Wholes(c) <=> Wholes(d)) /\ Paid(c) = Paid(d)
  BY <1>8, <1>9, NotedFacts
<1>11. Gone(b, c, -s.changed)
  BY <1>1, <1>6, <1>10 DEF Gone
<1>12. ASSUME c.short = b.short PROVE n.value = (-s.changed) * (s.value \div (-s.changed))
  <2>1. b.proceeds \in Int
    BY DEF IsBook
  <2>2. PICK m \in Int : m = amount * rate
    OBVIOUS
  <2>3. d.proceeds - b.proceeds = m
    BY <1>6, <1>10, <1>12, <2>1, <2>2
  <2>4. n.value = m
    BY <1>7, <2>3
  <2>. QED  BY <1>1, <1>3, <2>2, <2>4
<1>13. n.key = SwapKeyForHash(s.hash) /\ n.side = "out"
  BY <1>7
<1>. QED  BY <1>6, <1>10, <1>11, <1>12, <1>13 DEF NoteOut

\* In every step the shortfall only grows, so a note made while there was none at the end is
\* whole.
LEMMA SwapsOutFacts ==
  ASSUME NEW b, IsBook(b), NEW F, Placed(F),
         \A s \in F : s.changed \in Int /\ s.changed < 0 /\ s.value \in Int,
         NEW v, \A s \in F : v[s] = -s.changed, SumFunctionOnSet(v, F) <= b.left,
         NEW c, c = SwapsOut(b, F)
  PROVE  /\ Gone(b, c, SumFunctionOnSet(v, F))
         /\ \A n \in c.swaps : n \in b.swaps \/ \E s \in F : NoteOut(n, s, b, c)
<1>. DEFINE N == Cardinality(F)
            o == InOrder(F)
            w == [k \in 1 .. N |-> -(o[k].changed)]
            W(k) == SumFunctionOnSet(w, 1 .. k)
<1>1. PICK after : /\ after[0] = b
                   /\ \A k \in 1 .. N : after[k] = SwapOut(after[k - 1], o[k])
                   /\ c = after[N]
  BY SwapOutTurns
<1>2. N \in Nat /\ \A k \in 1 .. N : o[k] \in F
  BY InOrderLists DEF Bijection, Injection
<1>3. \A k \in 1 .. N : w[k] \in Nat /\ w[k] = -(o[k].changed) /\ w[k] = v[o[k]]
  BY <1>2
<1>4. W(N) = SumFunctionOnSet(v, F)
  <2>1. \A f \in F : v[f] \in Int
    OBVIOUS
  <2>. HIDE DEF w
  <2>. QED  BY <1>3, <2>1, InOrderSum
<1>. HIDE DEF w, o, N
<1>5. W(0) = 0 /\ \A k \in 1 .. N : W(k) = W(k - 1) + w[k] /\ W(k - 1) \in Nat /\ W(k) <= W(N)
  <2>1. W(0) = 0 /\ \A k \in 1 .. N : W(k) = W(k - 1) + w[k]
    <3>1. \A k \in 1 .. N : w[k] \in Int
      BY <1>3
    <3>. QED  BY <1>2, <3>1, SumOfFirst
  <2>2. ASSUME NEW k \in 0 .. N PROVE W(k) \in Nat /\ W(k) <= W(N)
    <3>1. IsFiniteSet(1 .. k) /\ IsFiniteSet(1 .. N) /\ (\A j \in 1 .. k : j \in 1 .. N) /\ 1 .. k \in SUBSET (1 .. N)
      BY <1>2, FS_Interval
    <3>2. IsFiniteSet((1 .. N) \ (1 .. k))
      BY <3>1, FS_Subset
    <3>3. W(N) = W(k) + SumFunctionOnSet(w, (1 .. N) \ (1 .. k))
      <4>1. PICK S, U : S = 1 .. N /\ U = 1 .. k
        OBVIOUS
      <4>2. U \in SUBSET S /\ IsFiniteSet(S) /\ \A j \in S : w[j] \in Int
        BY <1>3, <3>1, <4>1
      <4>3. SumFunctionOnSet(w, S) = SumFunctionOnSet(w, U) + SumFunctionOnSet(w, S \ U)
        BY <4>2, SumParts
      <4>. QED  BY <4>1, <4>3
    <3>4. SumFunctionOnSet(w, (1 .. N) \ (1 .. k)) \in Nat /\ W(k) \in Nat
      BY <1>3, <3>1, <3>2, SumNat
    <3>. HIDE DEF W
    <3>. QED  BY <3>3, <3>4
  <2>3. \A k \in 1 .. N : k - 1 \in 0 .. N /\ k \in 0 .. N
    BY <1>2
  <2>. HIDE DEF W
  <2>. QED  BY <2>1, <2>2, <2>3
<1>. HIDE DEF W
<1>. DEFINE P(k) == /\ Gone(b, after[k], W(k))
                    /\ \A n \in after[k].swaps : n \in b.swaps \/ \E s \in F : NoteOut(n, s, b, after[k])
            T == {k \in 0 .. N : P(k)}
<1>6. 0 \in T
  BY <1>1, <1>2, <1>5, GoneNothing
<1>7. ASSUME NEW k \in 1 .. N, k - 1 \in T PROVE k \in T
  <2>1. PICK x, y, s : x = after[k - 1] /\ y = after[k] /\ s = o[k]
    OBVIOUS
  <2>2. /\ Gone(b, x, W(k - 1)) /\ IsBook(x) /\ s \in F /\ y = SwapOut(x, s)
        /\ \A n \in x.swaps : n \in b.swaps \/ \E q \in F : NoteOut(n, q, b, x)
    BY <1>1, <1>2, <1>7, <2>1 DEF Gone
  <2>3. s.changed \in Int /\ s.changed < 0 /\ s.value \in Int /\ w[k] = -s.changed
    BY <1>3, <2>1, <2>2
  <2>4. -s.changed <= x.left
    <3>1. x.left = b.left - W(k - 1) /\ b.left \in Int
      BY <2>2 DEF Gone, IsBook
    <3>2. W(k - 1) \in Nat /\ W(k) = W(k - 1) + w[k] /\ W(k) <= W(N) /\ W(N) <= b.left
      BY <1>4, <1>5
    <3>3. W(N) \in Nat
      <4>1. IsFiniteSet(1 .. N)
        BY <1>2, FS_Interval
      <4>. QED  BY <1>3, <4>1, SumNat DEF W
    <3>. QED  BY <2>3, <3>1, <3>2, <3>3
  <2>5. /\ Gone(x, y, -s.changed)
        /\ \A n \in y.swaps : n \in x.swaps \/ NoteOut(n, s, x, y)
    BY <2>2, <2>3, <2>4, SwapOutFacts
  <2>6. Gone(b, y, W(k))
    <3>1. -s.changed \in Nat /\ W(k - 1) \in Nat /\ W(k) = W(k - 1) + (-s.changed)
      BY <1>5, <2>3
    <3>. QED  BY <2>2, <2>5, <3>1, GoneTwice
  <2>7. y.short = b.short => x.short = b.short /\ y.short = x.short
    <3>1. b.short \in Int /\ x.short \in Int /\ y.short \in Int
      BY <2>2, <2>5 DEF Gone, IsBook
    <3>2. x.short >= b.short /\ y.short >= x.short
      BY <2>2, <2>5 DEF Gone
    <3>. QED  BY <3>1, <3>2
  <2>8. \A n \in y.swaps : n \in b.swaps \/ \E q \in F : NoteOut(n, q, b, y)
    BY <2>2, <2>5, <2>7 DEF NoteOut
  <2>9. k \in 0 .. N
    BY <1>2
  <2>. QED  BY <2>1, <2>6, <2>8, <2>9
<1>8. \A k \in 0 .. N : k \in T
  <2>. HIDE DEF T
  <2>. QED  BY <1>2, <1>6, <1>7, StepByStep
<1>9. P(N)
  <2>. HIDE DEF P
  <2>. QED  BY <1>2, <1>8
<1>. QED  BY <1>1, <1>4, <1>9

\* The owner's prices are numbers.
LEMMA OwnerFacts ==
  ASSUME NEW b, IsBook(b), NEW F, Placed(F), NEW prices,
         \A f \in F : f.changed \in Int /\ f.changed < 0 /\ PriceOf(prices, f.hash) \in Int,
         NEW v, \A f \in F : v[f] = -f.changed, NEW c, c = LeaveByOwner(b, F, prices)
  PROVE  Gone(b, c, SumFunctionOnSet(v, F)) /\ c.swaps = b.swaps
<1>. DEFINE N == Cardinality(F)
            o == InOrder(F)
            w == [k \in 1 .. N |-> -(o[k].changed)]
            W(k) == SumFunctionOnSet(w, 1 .. k)
<1>1. PICK after : /\ after[0] = b
                   /\ \A k \in 1 .. N : after[k] = Realize(after[k - 1], -(o[k].changed), PriceOf(prices, o[k].hash))
                   /\ c = after[N]
  BY OwnerTurns
<1>2. N \in Nat /\ \A k \in 1 .. N : o[k] \in F
  BY InOrderLists DEF Bijection, Injection
<1>3. \A k \in 1 .. N : w[k] \in Nat /\ w[k] = -(o[k].changed) /\ w[k] = v[o[k]]
  BY <1>2
<1>4. W(N) = SumFunctionOnSet(v, F)
  <2>1. \A f \in F : v[f] \in Int
    OBVIOUS
  <2>. HIDE DEF w
  <2>. QED  BY <1>3, <2>1, InOrderSum
<1>. HIDE DEF w, o, N
<1>5. W(0) = 0 /\ \A k \in 1 .. N : W(k) = W(k - 1) + w[k] /\ W(k - 1) \in Nat
  <2>1. W(0) = 0 /\ \A k \in 1 .. N : W(k) = W(k - 1) + w[k]
    <3>1. \A k \in 1 .. N : w[k] \in Int
      BY <1>3
    <3>. QED  BY <1>2, <3>1, SumOfFirst
  <2>2. ASSUME NEW k \in 1 .. N PROVE W(k - 1) \in Nat
    <3>1. IsFiniteSet(1 .. k - 1) /\ \A j \in 1 .. k - 1 : j \in 1 .. N
      BY <1>2, FS_Interval
    <3>. QED  BY <1>3, <3>1, SumNat
  <2>. QED  BY <2>1, <2>2
<1>. HIDE DEF W
<1>. DEFINE P(k) == Gone(b, after[k], W(k)) /\ after[k].swaps = b.swaps
            T == {k \in 0 .. N : P(k)}
<1>6. 0 \in T
  BY <1>1, <1>2, <1>5, GoneNothing
<1>7. ASSUME NEW k \in 1 .. N, k - 1 \in T PROVE k \in T
  <2>1. PICK x, y, f, rate : x = after[k - 1] /\ y = after[k] /\ f = o[k] /\ rate = PriceOf(prices, f.hash)
    OBVIOUS
  <2>2. /\ Gone(b, x, W(k - 1)) /\ IsBook(x) /\ f \in F /\ rate \in Int /\ x.swaps = b.swaps
        /\ y = Realize(x, w[k], rate) /\ w[k] \in Nat
    BY <1>1, <1>2, <1>3, <1>7, <2>1 DEF Gone
  <2>3. Gone(x, y, w[k]) /\ y.swaps = x.swaps
    BY <2>2, RealizeFacts
  <2>4. Gone(b, y, W(k))
    BY <1>5, <2>2, <2>3, GoneTwice
  <2>5. k \in 0 .. N
    BY <1>2
  <2>. QED  BY <2>1, <2>2, <2>3, <2>4, <2>5
<1>8. \A k \in 0 .. N : k \in T
  <2>. HIDE DEF T
  <2>. QED  BY <1>2, <1>6, <1>7, StepByStep
<1>9. P(N)
  <2>. HIDE DEF P
  <2>. QED  BY <1>2, <1>8
<1>. QED  BY <1>1, <1>4, <1>9

\* An entry adds up, and a day's swaps are some of its flows.
IsEntry(e) ==
  /\ Placed(e.flows) /\ \A f \in e.flows : f.changed \in Int
  /\ e.deposit = SumFunction([f \in e.flows |-> Positive(f.changed)])
  /\ e.withdrawal = SumFunction([f \in e.flows |-> Positive(-f.changed)])
  /\ e.received \in Nat /\ e.expense \in Nat
SwapsAmong(S, flows) ==
  /\ \A s \in S : s.value \in Int /\ \E f \in flows : s.place = f.place /\ s.hash = f.hash /\ s.changed = f.changed
  /\ \A s, q \in S : s.place = q.place => s = q

\* Each swap with its flow.
Matches(g, S, flows) ==
  /\ g \in [S -> flows]
  /\ \A s \in S : g[s].place = s.place /\ g[s].hash = s.hash /\ g[s].changed = s.changed
  /\ \A s, q \in S : g[s] = g[q] => s = q

\* Swaps come from flows, and are visited as these are.
LEMMA SwapsPlaced ==
  ASSUME NEW e, IsEntry(e), NEW S, SwapsAmong(S, e.flows)
  PROVE  /\ Placed(S)
         /\ \E g : Matches(g, S, e.flows)
<1>. DEFINE g == [s \in S |-> CHOOSE f \in e.flows : s.place = f.place /\ s.hash = f.hash /\ s.changed = f.changed]
<1>1. \A s \in S : g[s] \in e.flows /\ g[s].place = s.place /\ g[s].hash = s.hash /\ g[s].changed = s.changed
  BY DEF SwapsAmong
<1>2. g \in [S -> e.flows]
  BY <1>1
<1>. HIDE DEF g
<1>3. \A s, q \in S : g[s] = g[q] => s = q
  BY <1>1 DEF SwapsAmong
<1>4. g \in Injection(S, e.flows)
  BY <1>2, <1>3 DEF Injection, IsInjective
<1>5. IsFiniteSet(S)
  BY <1>4, FS_Injection DEF IsEntry, Placed
<1>6. \A s \in S : s.place \in Int \X Int
  BY <1>1 DEF IsEntry, Placed
<1>7. Placed(S)
  BY <1>5, <1>6 DEF Placed, SwapsAmong
<1>8. Matches(g, S, e.flows)
  BY <1>1, <1>2, <1>3 DEF Matches
<1>. QED  BY <1>7, <1>8

\* Some of the flows that are visited in order are too.
LEMMA PlacedSubset ==
  ASSUME NEW F, Placed(F), NEW G \in SUBSET F
  PROVE  Placed(G)
BY FS_Subset DEF Placed

\* What came in, swaps and the rest.
LEMMA ArriveFacts ==
  ASSUME NEW b, IsBook(b), NEW e, IsEntry(e), NEW S, SwapsAmong(S, e.flows), NEW close \in Int,
         NEW c, c = Arrive(b, e, S, close)
  PROVE  /\ e.deposit \in Nat
         /\ Came(b, c, e.deposit + e.received)
         /\ WholeSwaps(S) => KeepsPaid(b, c)
         /\ \A n \in c.swaps : n \in b.swaps \/ \E s \in S : n = NoteIn(s)
<1>. DEFINE In == {s \in S : s.changed > 0}
            v == [s \in S |-> Positive(s.changed)]
            u == [f \in e.flows |-> Positive(f.changed)]
<1>1. Placed(S) /\ IsFiniteSet(S) /\ IsFiniteSet(e.flows)
  BY SwapsPlaced DEF IsEntry, Placed
<1>25. PICK g : Matches(g, S, e.flows)
  BY SwapsPlaced
<1>2. /\ g \in [S -> e.flows]
      /\ \A s \in S : g[s] \in e.flows /\ g[s].hash = s.hash /\ g[s].changed = s.changed
      /\ \A s, q \in S : g[s] = g[q] => s = q
  BY <1>25 DEF Matches
<1>3. \A f \in e.flows : f.changed \in Int /\ u[f] = Positive(f.changed) /\ u[f] \in Nat
  BY DEF IsEntry, Positive
<1>4. \A s \in S : s.changed \in Int /\ v[s] = u[g[s]] /\ v[s] = Positive(s.changed) /\ v[s] \in Nat
  BY <1>2, <1>3
<1>5. e.deposit = SumFunctionOnSet(u, e.flows)
  BY DEF IsEntry, SumFunction
<1>6. SumFunction(v) = SumFunctionOnSet(v, S)
  BY DEF SumFunction
<1>7. PlainDeposit(e, S) = Positive(e.deposit - SumFunctionOnSet(v, S))
  BY <1>6 DEF PlainDeposit
<1>. HIDE DEF u, v
<1>8. SumFunctionOnSet(v, S) \in Nat /\ SumFunctionOnSet(v, S) <= e.deposit /\ e.deposit \in Nat
  <2>1. SumFunctionOnSet(v, S) \in Nat /\ SumFunctionOnSet(v, S) <= SumFunctionOnSet(u, e.flows)
    BY <1>1, <1>2, <1>3, <1>4, SumInjected
  <2>2. SumFunctionOnSet(u, e.flows) \in Nat
    BY <1>1, <1>3, SumNat
  <2>. QED  BY <1>5, <2>1, <2>2
<1>9. PICK plain \in Nat : plain = PlainDeposit(e, S) /\ plain = e.deposit - SumFunctionOnSet(v, S)
  BY <1>7, <1>8 DEF Positive
<1>10. In \in SUBSET S /\ (\A s \in In : v[s] = s.changed) /\ \A s \in S \ In : v[s] = 0
  BY <1>4 DEF Positive
<1>11. SumFunctionOnSet(v, In) = SumFunctionOnSet(v, S)
  <2>. HIDE DEF In
  <2>1. SumFunctionOnSet(v, S) = SumFunctionOnSet(v, In) + SumFunctionOnSet(v, S \ In)
    BY <1>1, <1>4, <1>10, SumParts
  <2>2. IsFiniteSet(S \ In) /\ IsFiniteSet(In)
    BY <1>1, <1>10, FS_Subset
  <2>3. SumFunctionOnSet(v, S \ In) = 0
    BY <1>10, <2>2, SumZero
  <2>4. SumFunctionOnSet(v, In) \in Nat
    BY <1>4, <1>10, <2>2, SumNat
  <2>. QED  BY <2>1, <2>3, <2>4
<1>12. PICK d : d = SwapsIn(b, In)
  OBVIOUS
<1>13. \A s \in In : s.changed \in Nat /\ s.value \in Int
  BY <1>4 DEF SwapsAmong
<1>14. Placed(In)
  <2>. HIDE DEF In
  <2>. QED  BY <1>1, <1>10, PlacedSubset
<1>15. c = OpenPosition(d, plain + e.received, (plain + e.received) * close)
  BY <1>9, <1>12 DEF Arrive, Plain
<1>. HIDE DEF In
<1>16. /\ Came(b, d, SumFunctionOnSet(v, In)) /\ (WholeSwaps(In) => KeepsPaid(b, d))
       /\ \A n \in d.swaps : n \in b.swaps \/ \E s \in In : n = NoteIn(s)
  BY <1>10, <1>12, <1>13, <1>14, SwapsInFacts
<1>17. PICK amount \in Nat : amount = plain + e.received
  BY DEF IsEntry
<1>18. PICK worth \in Int : worth = amount * close /\ worth = close * amount
  OBVIOUS
<1>19. IsBook(d)
  BY <1>16 DEF Came
<1>20. c = OpenPosition(d, amount, worth)
  BY <1>15, <1>17, <1>18
<1>21. Came(d, c, amount) /\ c.swaps = d.swaps /\ \A r \in Int : worth = r * amount => KeepsPaid(d, c)
  BY ONLY <1>19, <1>20, OpenPositionFacts
<1>22. Came(b, c, SumFunctionOnSet(v, S) + amount)
  <2>1. PICK x \in Nat : x = SumFunctionOnSet(v, S)
    BY <1>8
  <2>2. Came(b, d, x)
    BY <1>11, <1>16, <2>1
  <2>. QED  BY <1>21, <2>1, <2>2, CameTwice
<1>23. SumFunctionOnSet(v, S) + amount = e.deposit + e.received
  BY <1>8, <1>9, <1>17 DEF IsEntry
<1>24. WholeSwaps(S) => KeepsPaid(b, c)
  <2>1. KeepsPaid(d, c)
    BY <1>18, <1>21
  <2>2. WholeSwaps(S) => WholeSwaps(In)
    BY <1>10 DEF WholeSwaps
  <2>. QED  BY <1>16, <2>1, <2>2 DEF KeepsPaid
<1>. QED  BY <1>8, <1>10, <1>16, <1>21, <1>22, <1>23, <1>24

\* What left, all of it.
LEMMA LeaveFacts ==
  ASSUME NEW b, IsBook(b), NEW e, IsEntry(e), b.left = e.withdrawal, NEW S, SwapsAmong(S, e.flows),
         NEW prices, \A f \in e.flows : PriceOf(prices, f.hash) \in Int, NEW close \in Int,
         NEW c, c = Leave(b, PricedByOwner(e, prices), prices, S, close)
  PROVE  /\ e.withdrawal \in Nat
         /\ Gone(b, c, e.withdrawal)
         /\ \A n \in c.swaps : n \in b.swaps \/ \E s \in S : NoteOut(n, s, b, c)
<1>. DEFINE O == PricedByOwner(e, prices)
            Rest == e.flows \ O
            Out == {s \in S : s.changed < 0 /\ ~\E f \in O : f.hash = s.hash}
            u == [f \in e.flows |-> Positive(-f.changed)]
            v == [s \in Out |-> -s.changed]
<1>1. Placed(S) /\ Placed(e.flows) /\ IsFiniteSet(S) /\ IsFiniteSet(e.flows)
  BY SwapsPlaced DEF IsEntry, Placed
<1>25. PICK g : Matches(g, S, e.flows)
  BY SwapsPlaced
<1>2. /\ g \in [S -> e.flows]
      /\ \A s \in S : g[s] \in e.flows /\ g[s].hash = s.hash /\ g[s].changed = s.changed
      /\ \A s, q \in S : g[s] = g[q] => s = q
  BY <1>25 DEF Matches
<1>3. \A f \in e.flows : f.changed \in Int /\ u[f] = Positive(-f.changed) /\ u[f] \in Nat
                         /\ (f.changed < 0 => u[f] = -f.changed)
  BY DEF IsEntry, Positive
<1>4. O \in SUBSET e.flows /\ \A f \in O : f.changed < 0 /\ u[f] = -f.changed /\ f.changed \in Int
  BY <1>3 DEF PricedByOwner
<1>5. Out \in SUBSET S /\ \A s \in Out : s.changed \in Int /\ s.changed < 0 /\ s.value \in Int /\ v[s] = -s.changed
  BY <1>2, <1>3 DEF SwapsAmong
<1>6. \A s \in Out : g[s] \in Rest /\ v[s] = u[g[s]]
  BY <1>2, <1>3, <1>5
<1>7. e.withdrawal = SumFunctionOnSet(u, e.flows)
  BY DEF IsEntry, SumFunction
<1>8. /\ IsFiniteSet(O) /\ IsFiniteSet(Rest) /\ IsFiniteSet(Out) /\ Placed(O) /\ Placed(Out)
  <2>. HIDE DEF O, Out
  <2>. QED  BY <1>1, <1>4, <1>5, FS_Subset, PlacedSubset
<1>9. c = LeaveAtClose(SwapsOut(LeaveByOwner(b, O, prices), Out), close)
  BY DEF Leave, LeaveAsSwap
<1>. HIDE DEF O, Rest, Out, u, v
<1>10. PICK o \in Nat, r \in Nat, x \in Nat :
          /\ o = SumFunctionOnSet(u, O) /\ r = SumFunctionOnSet(u, Rest) /\ x = SumFunctionOnSet(v, Out)
          /\ e.withdrawal = o + r /\ x <= r
  <2>1. SumFunctionOnSet(u, O) \in Nat
    BY <1>3, <1>4, <1>8, SumNat
  <2>2. SumFunctionOnSet(u, Rest) \in Nat
    BY <1>3, <1>8, SumNat DEF Rest
  <2>3. e.withdrawal = SumFunctionOnSet(u, O) + SumFunctionOnSet(u, Rest)
    BY <1>1, <1>3, <1>4, <1>7, SumParts DEF Rest
  <2>4. SumFunctionOnSet(v, Out) \in Nat /\ SumFunctionOnSet(v, Out) <= SumFunctionOnSet(u, Rest)
    <3>. DEFINE h == [s \in Out |-> g[s]]
    <3>1. h \in [Out -> Rest] /\ \A s \in Out : h[s] = g[s]
      BY <1>6
    <3>2. (\A s, q \in Out : h[s] = h[q] => s = q) /\ (\A s \in Out : v[s] = u[h[s]])
      BY <1>2, <1>5, <1>6, <3>1
    <3>3. \A f \in Rest : u[f] \in Nat
      BY <1>3 DEF Rest
    <3>. HIDE DEF h
    <3>. QED  BY <1>8, <3>1, <3>2, <3>3, SumInjected
  <2>. QED  BY <2>1, <2>2, <2>3, <2>4
<1>11. PICK d : d = LeaveByOwner(b, O, prices)
  OBVIOUS
<1>12. Gone(b, d, o) /\ d.swaps = b.swaps
  <2>1. \A f \in O : f.changed \in Int /\ f.changed < 0 /\ PriceOf(prices, f.hash) \in Int /\ u[f] = -f.changed
    BY <1>4
  <2>. QED  BY <1>8, <1>10, <1>11, <2>1, OwnerFacts
<1>13. d.left = r /\ IsBook(d)
  BY <1>10, <1>12 DEF Gone
<1>14. PICK f : f = SwapsOut(d, Out)
  OBVIOUS
<1>15. /\ Gone(d, f, x)
       /\ \A n \in f.swaps : n \in d.swaps \/ \E s \in Out : NoteOut(n, s, d, f)
  <2>1. SumFunctionOnSet(v, Out) <= d.left
    BY <1>10, <1>13
  <2>. QED  BY <1>5, <1>8, <1>10, <1>13, <1>14, <2>1, SwapsOutFacts
<1>16. PICK y \in Nat : y = r - x /\ f.left = y /\ IsBook(f)
  BY <1>10, <1>13, <1>15 DEF Gone
<1>17. c = LeaveAtClose(f, close)
  BY <1>9, <1>11, <1>14
<1>18. Gone(f, c, y) /\ c.swaps = f.swaps
  <2>1. CASE y = 0
    <3>1. c = f
      BY <1>16, <1>17, <2>1 DEF LeaveAtClose
    <3>. QED  BY <1>16, <2>1, <3>1, GoneNothing
  <2>2. CASE y # 0
    <3>1. c = Realize(f, y, close)
      BY <1>16, <1>17, <2>2 DEF LeaveAtClose
    <3>. QED  BY <1>16, <3>1, RealizeFacts
  <2>. QED  BY <2>1, <2>2
<1>19. Gone(b, f, o + x)
  BY <1>12, <1>15, GoneTwice
<1>20. Gone(b, c, (o + x) + y)
  <2>1. o + x \in Nat
    OBVIOUS
  <2>. QED  BY <1>18, <1>19, <2>1, GoneTwice
<1>21. (o + x) + y = e.withdrawal
  BY <1>10, <1>16
<1>22. c.short = b.short => f.short = d.short
  <2>1. d.short >= b.short /\ f.short >= d.short /\ c.short >= f.short
    BY <1>12, <1>15, <1>18 DEF Gone
  <2>2. b.short \in Int /\ d.short \in Int /\ f.short \in Int /\ c.short \in Int
    BY <1>13, <1>16, <1>18 DEF Gone, IsBook
  <2>. QED  BY <2>1, <2>2
<1>23. \A n \in c.swaps : n \in b.swaps \/ \E s \in S : NoteOut(n, s, b, c)
  BY <1>5, <1>12, <1>15, <1>18, <1>22 DEF NoteOut
<1>24. e.withdrawal \in Nat
  BY <1>10
<1>. QED  BY <1>20, <1>21, <1>23, <1>24

\* A day's entry in a book.
Entered(b, c, e) ==
  /\ IsBook(c)
  /\ Net(c) = Net(b) + e.deposit + e.received - e.withdrawal
  /\ c.expense = b.expense + e.expense
  /\ c.short >= b.short /\ (c.short = b.short \/ RemainingOf(c) = 0)
  /\ Gain(c) = Gain(b)

\* A day's entry comes into the book and leaves it in full, swaps, owner's prices and all, and
\* the swaps' notes are at their figures.
LEMMA BookEntryFacts ==
  ASSUME NEW b, IsBook(b), NEW e, IsEntry(e), NEW S, SwapsAmong(S, e.flows),
         NEW prices, \A f \in e.flows : PriceOf(prices, f.hash) \in Int, NEW close \in Int,
         NEW c, c = BookEntry(b, e, S, prices, close)
  PROVE  /\ Entered(b, c, e) /\ e.deposit \in Nat /\ e.withdrawal \in Nat
         /\ WholeSwaps(S) => KeepsPaid(b, c)
         /\ \A n \in c.swaps : n \in b.swaps \/ \E s \in S : n = NoteIn(s) \/ NoteOut(n, s, b, c)
<1>1. PICK d : d = Arrive(b, e, S, close)
  OBVIOUS
<1>2. /\ e.deposit \in Nat
      /\ Came(b, d, e.deposit + e.received)
      /\ WholeSwaps(S) => KeepsPaid(b, d)
      /\ \A n \in d.swaps : n \in b.swaps \/ \E s \in S : n = NoteIn(s)
  BY <1>1, ArriveFacts
<1>3. IsBook(d)
  BY <1>2 DEF Came
<1>4. PICK f : f = Due(d, e)
  OBVIOUS
<1>5. f = [open |-> d.open, left |-> e.withdrawal, bought |-> d.bought, spent |-> d.spent,
           proceeds |-> d.proceeds, profit |-> d.profit, loss |-> d.loss, short |-> d.short,
           expense |-> d.expense + e.expense, swaps |-> d.swaps]
  BY <1>3, <1>4 DEF Due, IsBook
<1>6. /\ f.open = d.open /\ f.left = e.withdrawal /\ f.bought = d.bought /\ f.spent = d.spent
      /\ f.proceeds = d.proceeds /\ f.profit = d.profit /\ f.loss = d.loss /\ f.short = d.short
      /\ f.expense = d.expense + e.expense /\ f.swaps = d.swaps
  BY <1>5
<1>7. e.withdrawal \in Nat
  <2>1. \A x \in e.flows : [y \in e.flows |-> Positive(-y.changed)][x] \in Nat
    BY DEF IsEntry, Positive
  <2>2. IsFiniteSet(e.flows) /\ e.withdrawal = SumFunctionOnSet([y \in e.flows |-> Positive(-y.changed)], e.flows)
    BY DEF IsEntry, Placed, SumFunction
  <2>. QED  BY <2>1, <2>2, SumNat
<1>8. IsBook(f) /\ RemainingOf(f) = RemainingOf(d) /\ Gain(f) = Gain(d) /\ Paid(f) = Paid(d)
      /\ (Wholes(f) <=> Wholes(d))
  <2>1. f = [open |-> f.open, left |-> f.left, bought |-> f.bought, spent |-> f.spent,
             proceeds |-> f.proceeds, profit |-> f.profit, loss |-> f.loss, short |-> f.short,
             expense |-> f.expense, swaps |-> f.swaps]
    BY <1>5
  <2>2. d.expense + e.expense \in Int /\ e.withdrawal \in Int
    <3>1. d.expense \in Int
      BY <1>3 DEF IsBook
    <3>2. e.expense \in Nat
      BY DEF IsEntry
    <3>. QED  BY <1>7, <3>1, <3>2
  <2>3. IsBook(f)
    BY <1>3, <1>6, <2>1, <2>2 DEF IsBook
  <2>. QED  BY <1>6, <2>3 DEF RemainingOf, CostBasis, Gain, Paid, Wholes
<1>9. c = Leave(f, PricedByOwner(e, prices), prices, S, close)
  BY <1>1, <1>4 DEF BookEntry
<1>10. /\ Gone(f, c, e.withdrawal)
       /\ \A n \in c.swaps : n \in f.swaps \/ \E s \in S : NoteOut(n, s, f, c)
  BY <1>6, <1>8, <1>9, LeaveFacts
<1>11. f.short = b.short /\ RemainingOf(f) = RemainingOf(b) + (e.deposit + e.received) /\ Gain(f) = Gain(b)
       /\ f.expense = b.expense + e.expense
  BY <1>2, <1>6, <1>8 DEF Came
<1>12. Net(c) = Net(b) + e.deposit + e.received - e.withdrawal
  <2>1. RemainingOf(b) \in Nat /\ b.short \in Int /\ e.received \in Nat
    BY NumbersTyped DEF IsBook, IsEntry
  <2>2. Net(f) = Net(b) + e.deposit + e.received
    BY <1>2, <1>11, <2>1 DEF Net
  <2>3. Net(b) \in Int /\ Net(c) = Net(f) - e.withdrawal
    BY <1>10, NumbersTyped DEF Gone
  <2>. QED  BY <1>2, <1>7, <2>1, <2>2, <2>3
<1>13. Entered(b, c, e)
  BY <1>10, <1>11, <1>12 DEF Entered, Gone
<1>14. WholeSwaps(S) => KeepsPaid(b, c)
  BY <1>2, <1>8, <1>10 DEF Gone, KeepsPaid
<1>. QED  BY <1>2, <1>6, <1>7, <1>10, <1>11, <1>13, <1>14 DEF NoteOut

\* One token's rows, classified.
IsPass(pass) ==
  /\ IsFiniteSet(DOMAIN pass) /\ DOMAIN pass \subseteq Int \X Int
  /\ \A p \in DOMAIN pass :
       /\ pass[p].changed \in Int /\ pass[p].day \in Int /\ pass[p].usd \in Int
       /\ pass[p].class \in {"moved", "received", "expense"}
       /\ pass[p].class = "received" => pass[p].changed > 0 /\ pass[p].peer \notin StakingPool
       /\ pass[p].class = "expense" => pass[p].changed < 0 /\ pass[p].peer \notin StakingPool
  /\ \A p, q \in DOMAIN pass : pass[p].hash = pass[q].hash =>
       pass[p].day = pass[q].day /\ (pass[p].peer \in StakingPool <=> pass[q].peer \in StakingPool)

\* Of some places one is visited first.
LEMMA LeastPlace ==
  ASSUME NEW G, IsFiniteSet(G), G \subseteq Int \X Int, G # {}
  PROVE  \E p \in G : \A q \in G : ~Before(q, p)
<1>. DEFINE Has(s) == s = {} \/ \E p \in s : \A q \in s : ~Before(q, p)
            T == {s \in SUBSET G : Has(s)}
<1>1. {} \in T
  OBVIOUS
<1>2. ASSUME NEW s \in SUBSET G, NEW x \in s, s \ {x} \in T PROVE s \in T
  <2>1. CASE s \ {x} = {}
    <3>1. s = {x}
      BY <2>1
    <3>2. ~Before(x, x)
      BY <3>1 DEF Before
    <3>. QED  BY <3>1, <3>2
  <2>2. CASE s \ {x} # {}
    <3>1. PICK p \in s \ {x} : \A q \in s \ {x} : ~Before(q, p)
      BY <1>2, <2>2
    <3>2. CASE Before(x, p)
      <4>1. \A q \in s : ~Before(q, x)
        BY <3>1, <3>2 DEF Before
      <4>. QED  BY <4>1
    <3>3. CASE ~Before(x, p)
      <4>1. \A q \in s : ~Before(q, p)
        BY <3>1, <3>3
      <4>. QED  BY <3>1, <4>1
    <3>. QED  BY <3>2, <3>3
  <2>. QED  BY <2>1, <2>2
<1>3. \A s \in SUBSET G : s \in T
  <2>. HIDE DEF T
  <2>. QED  BY <1>1, <1>2, OneByOne
<1>. QED  BY <1>3

\* Of a hash's rows one is visited, and its day's are the rows of the day.
LEMMA VisitedFacts ==
  ASSUME NEW pass, IsPass(pass), NEW d \in Int
  PROVE  /\ \A p \in Visited(pass, d) : p \in DOMAIN pass /\ pass[p].day = d
         /\ \A p, q \in Visited(pass, d) : pass[p].hash = pass[q].hash => p = q
         /\ \A p \in DOMAIN pass : pass[p].day = d => \E q \in Visited(pass, d) : pass[q].hash = pass[p].hash
<1>1. \A p \in Visited(pass, d) : p \in DOMAIN pass /\ pass[p].day = d
                                  /\ \A q \in DOMAIN pass : pass[q].hash = pass[p].hash => ~Before(q, p)
  BY DEF IsPass, Visited, Together
<1>2. ASSUME NEW p \in Visited(pass, d), NEW q \in Visited(pass, d), pass[p].hash = pass[q].hash
      PROVE  p = q
  <2>1. ~Before(p, q) /\ ~Before(q, p) /\ p \in Int \X Int /\ q \in Int \X Int
    BY <1>1, <1>2 DEF IsPass
  <2>. QED  BY <2>1 DEF Before
<1>3. ASSUME NEW p \in DOMAIN pass, pass[p].day = d
      PROVE  \E q \in Visited(pass, d) : pass[q].hash = pass[p].hash
  <2>. DEFINE G == Together(pass, p)
  <2>1. p \in G /\ G \in SUBSET DOMAIN pass /\ \A q \in G : pass[q].hash = pass[p].hash
    BY DEF Together
  <2>2. IsFiniteSet(G) /\ G \subseteq Int \X Int
    <3>. HIDE DEF G
    <3>. QED  BY <2>1, FS_Subset DEF IsPass
  <2>3. PICK q \in G : \A x \in G : ~Before(x, q)
    <3>. HIDE DEF G
    <3>. QED  BY <2>1, <2>2, LeastPlace
  <2>4. \A x \in Together(pass, q) : x \in G /\ pass[x].day = d
    BY <1>3, <2>1 DEF IsPass, Together
  <2>5. q \in DOMAIN pass /\ pass[q].day = d /\ pass[q].hash = pass[p].hash
    BY <1>3, <2>1 DEF IsPass
  <2>6. q \in Visited(pass, d)
    BY <2>3, <2>4, <2>5 DEF Visited
  <2>. QED  BY <2>5, <2>6
<1>. QED  BY <1>1, <1>2, <1>3

\* A total as a sum over all rows.
Part(pass, class) == [p \in DOMAIN pass |-> IF pass[p].class = class THEN pass[p].changed ELSE 0]

\* A class's total is a sum over all rows, those of other classes counting nothing.
LEMMA TotalIs ==
  ASSUME NEW pass, IsPass(pass), NEW class, NEW P \in SUBSET DOMAIN pass
  PROVE  Total(pass, class, P) = SumFunctionOnSet(Part(pass, class), P)
<1>. DEFINE Q == {q \in P : pass[q].class = class}
            w == [p \in Q |-> pass[p].changed]
            v == Part(pass, class)
<1>1. Total(pass, class, P) = SumFunctionOnSet(w, Q)
  BY DEF Total, SumFunction
<1>2. Q \in SUBSET P /\ \A q \in Q : w[q] = v[q] /\ w[q] \in Int
  BY DEF Part, IsPass
<1>3. \A q \in P \ Q : v[q] = 0
  BY DEF Part
<1>4. \A p \in P : v[p] \in Int
  BY DEF Part, IsPass
<1>5. IsFiniteSet(P) /\ IsFiniteSet(Q) /\ IsFiniteSet(P \ Q)
  <2>1. IsFiniteSet(P)
    BY FS_Subset DEF IsPass
  <2>. QED  BY <1>2, <2>1, FS_Subset
<1>. HIDE DEF Q, w, v
<1>6. SumFunctionOnSet(w, Q) = SumFunctionOnSet(v, Q)
  BY <1>2, <1>5, SumSame
<1>7. SumFunctionOnSet(v, P) = SumFunctionOnSet(v, Q) + SumFunctionOnSet(v, P \ Q)
  BY <1>2, <1>4, <1>5, SumParts
<1>8. SumFunctionOnSet(v, P \ Q) = 0
  BY <1>3, <1>5, SumZero
<1>9. SumFunctionOnSet(v, Q) \in Int
  BY <1>2, <1>4, <1>5, SumSplit
<1>. QED  BY <1>1, <1>6, <1>7, <1>8, <1>9 DEF v

\* What a day's rows change, moves to and from pools aside.
RowsOfDay(pass, d) == {p \in DOMAIN pass : pass[p].day = d}
OutsidePools(pass, d) == {p \in RowsOfDay(pass, d) : pass[p].peer \notin StakingPool}
ChangeOf(pass) == [p \in DOMAIN pass |-> pass[p].changed]

\* The flows of a day come to what its movements outside of the pools come to: the rows of one
\* hash are summed once, at the first of them.
LEMMA FlowsFacts ==
  ASSUME NEW pass, IsPass(pass), NEW d \in Int, NEW V, V = {p \in Visited(pass, d) : pass[p].peer \notin StakingPool},
         NEW F, F = FlowsOf(pass, V), NEW c, \A f \in F : c[f] = f.changed
  PROVE  /\ Placed(F) /\ \A f \in F : f.changed \in Int
         /\ SumFunctionOnSet(c, F) = SumFunctionOnSet(Part(pass, "moved"), OutsidePools(pass, d))
<1>. DEFINE m == Part(pass, "moved")
            G == {FlowAt(pass, p) : p \in V}
            O == OutsidePools(pass, d)
            x == [p \in V |-> FlowAt(pass, p).changed]
            q == [p \in O |-> CHOOSE r \in V : pass[r].hash = pass[p].hash]
            at == [p \in V |-> FlowAt(pass, p)]
            y == [f \in G |-> f.changed]
            group == [r \in V |-> Together(pass, r)]
<1>1. /\ V \subseteq DOMAIN pass /\ IsFiniteSet(V)
      /\ \A p \in V : pass[p].day = d /\ pass[p].peer \notin StakingPool
      /\ \A p, r \in V : pass[p].hash = pass[r].hash => p = r
  <2>1. V \in SUBSET DOMAIN pass /\ (\A p \in V : pass[p].day = d /\ pass[p].peer \notin StakingPool)
        /\ \A p, r \in V : pass[p].hash = pass[r].hash => p = r
    BY VisitedFacts
  <2>2. IsFiniteSet(V)
    BY <2>1, FS_Subset DEF IsPass
  <2>. QED  BY <2>1, <2>2
<1>2. /\ O \in SUBSET DOMAIN pass /\ IsFiniteSet(O)
      /\ \A p \in O : pass[p].day = d /\ pass[p].peer \notin StakingPool
      /\ \A p \in DOMAIN pass : pass[p].day = d /\ pass[p].peer \notin StakingPool => p \in O
  <2>1. O \in SUBSET DOMAIN pass
    BY DEF OutsidePools, RowsOfDay
  <2>2. IsFiniteSet(O)
    BY <2>1, FS_Subset DEF IsPass
  <2>. QED  BY <2>1, <2>2 DEF OutsidePools, RowsOfDay
<1>3. \A p \in O : \E r \in V : pass[r].hash = pass[p].hash
  <2>. SUFFICES ASSUME NEW p \in O PROVE \E r \in V : pass[r].hash = pass[p].hash
    OBVIOUS
  <2>1. PICK r \in Visited(pass, d) : pass[r].hash = pass[p].hash
    BY <1>2, VisitedFacts
  <2>2. r \in DOMAIN pass
    BY VisitedFacts
  <2>3. pass[r].peer \notin StakingPool
    BY <1>2, <2>1, <2>2 DEF IsPass
  <2>. QED  BY <2>1, <2>3
<1>4. \A p \in O : q[p] \in V /\ pass[q[p]].hash = pass[p].hash
  BY <1>3
<1>5. \A p \in DOMAIN pass : m[p] \in Int
  BY DEF Part, IsPass
<1>6. ASSUME NEW r \in V
      PROVE  /\ \A p : p \in group[r] <=> p \in O /\ q[p] = r
             /\ group[r] = Together(pass, r) /\ Together(pass, r) \in SUBSET DOMAIN pass
  <2>1. ASSUME NEW p \in Together(pass, r) PROVE p \in O /\ q[p] = r
    <3>1. p \in DOMAIN pass /\ pass[p].hash = pass[r].hash
      BY <2>1 DEF Together
    <3>2. r \in DOMAIN pass /\ pass[r].day = d /\ pass[r].peer \notin StakingPool
      BY <1>1
    <3>3. pass[p].day = d /\ pass[p].peer \notin StakingPool
      BY <3>1, <3>2 DEF IsPass
    <3>4. p \in O
      BY <1>2, <3>1, <3>3
    <3>5. q[p] \in V /\ pass[q[p]].hash = pass[r].hash
      BY <1>4, <3>1, <3>4
    <3>. HIDE DEF q
    <3>. QED  BY <1>1, <3>4, <3>5
  <2>2. ASSUME NEW p \in O, q[p] = r PROVE p \in Together(pass, r)
    <3>1. pass[r].hash = pass[p].hash /\ p \in DOMAIN pass
      BY <1>2, <1>4, <2>2
    <3>. QED  BY <3>1 DEF Together
  <2>3. Together(pass, r) \in SUBSET DOMAIN pass
    BY DEF Together
  <2>4. group[r] = Together(pass, r)
    OBVIOUS
  <2>. HIDE DEF q, group
  <2>. QED  BY <2>1, <2>2, <2>3, <2>4
<1>7. \A r \in V : x[r] = SumFunctionOnSet(m, group[r]) /\ x[r] \in Int
  <2>. SUFFICES ASSUME NEW r \in V
                PROVE  x[r] = SumFunctionOnSet(m, group[r]) /\ x[r] \in Int
    OBVIOUS
  <2>1. x[r] = Total(pass, "moved", Together(pass, r))
    BY DEF FlowAt
  <2>2. PICK P \in SUBSET DOMAIN pass : P = Together(pass, r)
    BY <1>6
  <2>3. Total(pass, "moved", P) = SumFunctionOnSet(m, P)
    BY TotalIs
  <2>4. IsFiniteSet(P)
    BY FS_Subset DEF IsPass
  <2>5. SumFunctionOnSet(m, P) \in Int
    BY <1>5, <2>4, SumSplit
  <2>. HIDE DEF m, x, q, group
  <2>. QED  BY <1>6, <2>1, <2>2, <2>3, <2>5
<1>8. SumFunctionOnSet(m, O) = SumFunctionOnSet(x, V)
  <2>1. (\A p \in O : q[p] \in V) /\ \A p \in O : m[p] \in Int
    BY <1>2, <1>4, <1>5
  <2>2. \A r \in V : \A p : p \in group[r] <=> p \in O /\ q[p] = r
    BY <1>6
  <2>3. (\A r \in V : x[r] = SumFunctionOnSet(m, group[r])) /\ \A p \in O : m[p] \in Int
    BY <1>7, <2>1
  <2>. HIDE DEF m, q, x, O, group
  <2>4. Grouped(O, V, q, group)
    BY <1>1, <1>2, <2>1, <2>2 DEF Grouped
  <2>. QED  BY <2>3, <2>4, SumGroups
<1>9. \A p \in V : at[p].place = p /\ at[p].changed = x[p] /\ at[p] \in G
  BY DEF FlowAt
<1>10. \A f \in G : f.place \in V /\ f = at[f.place]
  <2>. SUFFICES ASSUME NEW f \in G PROVE f.place \in V /\ f = at[f.place]
    OBVIOUS
  <2>1. PICK p \in V : f = at[p]
    OBVIOUS
  <2>. HIDE DEF G, at
  <2>. QED  BY <1>9, <2>1
<1>11. at \in Bijection(V, G)
  <2>1. at \in [V -> G]
    OBVIOUS
  <2>2. \A p, r \in V : at[p] = at[r] => p = r
    <3>. HIDE DEF at
    <3>. QED  BY <1>9
  <2>. HIDE DEF at, G
  <2>. QED  BY <1>10, <2>1, <2>2 DEF Bijection, Injection, Surjection, IsInjective
<1>12. SumFunctionOnSet(x, V) = SumFunctionOnSet(y, G)
  <2>1. \A p \in V : x[p] \in Int /\ y[at[p]] = x[p]
    <3>1. \A p \in V : y[at[p]] = at[p].changed
      BY <1>9
    <3>. HIDE DEF x, y, at
    <3>. QED  BY <1>7, <1>9, <3>1
  <2>. HIDE DEF x, y, at, G
  <2>. QED  BY <1>1, <1>11, <2>1, SumRenamed
<1>13. F \in SUBSET G /\ (\A f \in F : y[f] = c[f]) /\ \A f \in G \ F : y[f] = 0
  BY DEF FlowsOf
<1>14. \A f \in G : y[f] = f.changed /\ f.changed \in Int
  <2>1. \A f \in G : y[f] = f.changed
    OBVIOUS
  <2>2. \A f \in G : f.changed \in Int
    <3>. SUFFICES ASSUME NEW f \in G PROVE f.changed \in Int
      OBVIOUS
    <3>1. PICK p \in V : f = at[p]
      OBVIOUS
    <3>. HIDE DEF x, at, G, y
    <3>. QED  BY <1>7, <1>9, <3>1
  <2>. QED  BY <2>1, <2>2
<1>15. IsFiniteSet(G) /\ IsFiniteSet(F) /\ IsFiniteSet(G \ F)
  <2>1. IsFiniteSet(G)
    <3>. HIDE DEF G, at
    <3>. QED  BY <1>1, <1>11, FS_Surjection DEF Bijection
  <2>. HIDE DEF G
  <2>. QED  BY <1>13, <2>1, FS_Subset
<1>16. Placed(F)
  <2>1. \A f \in F : f.place \in Int \X Int
    <3>. HIDE DEF G, at
    <3>. QED  BY <1>1, <1>10, <1>13 DEF IsPass
  <2>2. \A f, g \in F : f.place = g.place => f = g
    <3>. HIDE DEF G, at
    <3>. QED  BY <1>10, <1>13
  <2>. QED  BY <1>15, <2>1, <2>2 DEF Placed
<1>17. SumFunctionOnSet(y, G) = SumFunctionOnSet(c, F)
  <2>. HIDE DEF G, y
  <2>1. SumFunctionOnSet(y, G) = SumFunctionOnSet(y, F) + SumFunctionOnSet(y, G \ F)
    BY <1>13, <1>14, <1>15, SumParts
  <2>2. SumFunctionOnSet(y, G \ F) = 0
    BY <1>13, <1>15, SumZero
  <2>3. \A f \in F : y[f] \in Int /\ y[f] = c[f]
    BY <1>13, <1>14
  <2>4. SumFunctionOnSet(y, F) = SumFunctionOnSet(c, F) /\ SumFunctionOnSet(y, F) \in Int
    BY <1>15, <2>3, SumSame, SumSplit
  <2>. QED  BY <2>1, <2>2, <2>4
<1>18. \A f \in F : f.changed \in Int
  <2>. HIDE DEF G
  <2>. QED  BY <1>13, <1>14
<1>. QED  BY <1>8, <1>12, <1>16, <1>17, <1>18

\* What a day's entry comes to.
LEMMA EntryFacts ==
  ASSUME NEW pass, IsPass(pass), NEW d \in Int, NEW e, e = Entry(pass, d)
  PROVE  /\ IsEntry(e) /\ e.deposit \in Nat /\ e.withdrawal \in Nat
         /\ e.flows = FlowsOf(pass, {p \in Visited(pass, d) : pass[p].peer \notin StakingPool})
         /\ e.deposit + e.received - e.withdrawal - e.expense
            = SumFunctionOnSet(ChangeOf(pass), OutsidePools(pass, d))
<1>. DEFINE V == {p \in Visited(pass, d) : pass[p].peer \notin StakingPool}
            F == FlowsOf(pass, V)
            U == UNION {Together(pass, p) : p \in Visited(pass, d)}
            R == RowsOfDay(pass, d)
            O == OutsidePools(pass, d)
            c == [f \in F |-> f.changed]
            in == [f \in F |-> Positive(f.changed)]
            out == [f \in F |-> Positive(-f.changed)]
            m == Part(pass, "moved")
            r == Part(pass, "received")
            x == Part(pass, "expense")
<1>1. /\ e.flows = F
      /\ e.deposit = SumFunctionOnSet(in, F) /\ e.withdrawal = SumFunctionOnSet(out, F)
      /\ e.received = Total(pass, "received", U) /\ e.expense = -Total(pass, "expense", U)
  BY DEF Entry, EntryVisiting, EntryOf, SumFunction
<1>2. U = R
  <2>1. ASSUME NEW p \in U PROVE p \in R
    <3>1. PICK q \in Visited(pass, d) : p \in Together(pass, q)
      OBVIOUS
    <3>2. q \in DOMAIN pass /\ pass[q].day = d /\ p \in DOMAIN pass /\ pass[p].hash = pass[q].hash
      BY <3>1, VisitedFacts DEF Together
    <3>. QED  BY <3>2 DEF RowsOfDay, IsPass
  <2>2. ASSUME NEW p \in R PROVE p \in U
    <3>1. p \in DOMAIN pass /\ pass[p].day = d
      BY DEF RowsOfDay
    <3>2. PICK q \in Visited(pass, d) : pass[q].hash = pass[p].hash
      BY <3>1, VisitedFacts
    <3>3. p \in Together(pass, q)
      BY <3>1, <3>2 DEF Together
    <3>. QED  BY <3>3
  <2>. HIDE DEF U, R
  <2>. QED  BY <2>1, <2>2
<1>3. /\ Placed(F) /\ \A f \in F : f.changed \in Int
      /\ SumFunctionOnSet(c, F) = SumFunctionOnSet(m, O)
  <2>1. \A f \in F : c[f] = f.changed
    OBVIOUS
  <2>2. PICK VV, FF : VV = V /\ FF = F
    OBVIOUS
  <2>3. VV = {p \in Visited(pass, d) : pass[p].peer \notin StakingPool} /\ FF = FlowsOf(pass, VV)
    BY <2>2
  <2>4. \A f \in FF : c[f] = f.changed
    BY <2>1, <2>2
  <2>. HIDE DEF V, F, c
  <2>5. /\ Placed(FF) /\ \A f \in FF : f.changed \in Int
        /\ SumFunctionOnSet(c, FF) = SumFunctionOnSet(m, O)
    BY <2>3, <2>4, FlowsFacts
  <2>. QED  BY <2>2, <2>5
<1>4. /\ R \in SUBSET DOMAIN pass /\ O \in SUBSET R /\ IsFiniteSet(R) /\ IsFiniteSet(O) /\ IsFiniteSet(R \ O)
      /\ \A p \in R \ O : pass[p].peer \in StakingPool
  <2>1. R \in SUBSET DOMAIN pass /\ O \in SUBSET R /\ \A p \in R \ O : pass[p].peer \in StakingPool
    BY DEF RowsOfDay, OutsidePools
  <2>2. IsFiniteSet(R)
    BY <2>1, FS_Subset DEF IsPass
  <2>. QED  BY <2>1, <2>2, FS_Subset
<1>5. \A p \in DOMAIN pass : /\ m[p] \in Int /\ r[p] \in Nat /\ -x[p] \in Nat /\ x[p] \in Int
                             /\ ChangeOf(pass)[p] = m[p] + (r[p] + x[p])
                             /\ (pass[p].peer \in StakingPool => r[p] = 0 /\ x[p] = 0)
  <2>. SUFFICES ASSUME NEW p \in DOMAIN pass
                PROVE  /\ m[p] \in Int /\ r[p] \in Nat /\ -x[p] \in Nat /\ x[p] \in Int
                       /\ ChangeOf(pass)[p] = m[p] + (r[p] + x[p])
                       /\ (pass[p].peer \in StakingPool => r[p] = 0 /\ x[p] = 0)
    OBVIOUS
  <2>1. /\ pass[p].changed \in Int /\ pass[p].class \in {"moved", "received", "expense"}
        /\ pass[p].class = "received" => pass[p].changed > 0 /\ pass[p].peer \notin StakingPool
        /\ pass[p].class = "expense" => pass[p].changed < 0 /\ pass[p].peer \notin StakingPool
    BY DEF IsPass
  <2>2. /\ m[p] = IF pass[p].class = "moved" THEN pass[p].changed ELSE 0
        /\ r[p] = IF pass[p].class = "received" THEN pass[p].changed ELSE 0
        /\ x[p] = IF pass[p].class = "expense" THEN pass[p].changed ELSE 0
        /\ ChangeOf(pass)[p] = pass[p].changed
    BY DEF Part, ChangeOf
  <2>. HIDE DEF m, r, x
  <2>. QED  BY <2>1, <2>2
<1>6. e.received = SumFunctionOnSet(r, R) /\ e.expense = -SumFunctionOnSet(x, R)
  <2>1. Total(pass, "received", R) = SumFunctionOnSet(r, R) /\ Total(pass, "expense", R) = SumFunctionOnSet(x, R)
    BY <1>4, TotalIs
  <2>. HIDE DEF U, R, r, x
  <2>. QED  BY <1>1, <1>2, <2>1
<1>. HIDE DEF m, r, x, R, O, F, c, in, out
<1>7. SumFunctionOnSet(r, R) = SumFunctionOnSet(r, O) /\ SumFunctionOnSet(x, R) = SumFunctionOnSet(x, O)
      /\ SumFunctionOnSet(r, O) \in Nat /\ SumFunctionOnSet(x, O) \in Int /\ -SumFunctionOnSet(x, O) \in Nat
  <2>1. (\A p \in R : r[p] \in Int /\ x[p] \in Int) /\ \A p \in R \ O : r[p] = 0 /\ x[p] = 0
    BY <1>4, <1>5
  <2>2. SumFunctionOnSet(r, R) = SumFunctionOnSet(r, O) + SumFunctionOnSet(r, R \ O)
    BY <1>4, <2>1, SumParts
  <2>3. SumFunctionOnSet(x, R) = SumFunctionOnSet(x, O) + SumFunctionOnSet(x, R \ O)
    BY <1>4, <2>1, SumParts
  <2>4. SumFunctionOnSet(r, R \ O) = 0 /\ SumFunctionOnSet(x, R \ O) = 0
    BY <1>4, <2>1, SumZero
  <2>5. SumFunctionOnSet(r, O) \in Nat
    BY <1>4, <1>5, SumNat
  <2>6. SumFunctionOnSet(x, O) \in Int
    BY <1>4, <1>5, SumSplit
  <2>7. SumFunctionOnSet(x, O) <= 0
    <3>. DEFINE z == [p \in O |-> 0]
    <3>1. \A p \in O : x[p] \in Int /\ z[p] \in Int /\ x[p] <= z[p]
      BY <1>4, <1>5
    <3>2. SumFunctionOnSet(z, O) = 0
      BY <1>4, SumZero
    <3>. HIDE DEF z
    <3>3. SumFunctionOnSet(x, O) <= SumFunctionOnSet(z, O)
      BY <1>4, <3>1, SumMore
    <3>. QED  BY <3>2, <3>3
  <2>. QED  BY <2>2, <2>3, <2>4, <2>5, <2>6, <2>7
<1>8. \A f \in F : in[f] \in Nat /\ out[f] \in Nat /\ c[f] = in[f] - out[f] /\ c[f] \in Int
  <2>. SUFFICES ASSUME NEW f \in F PROVE in[f] \in Nat /\ out[f] \in Nat /\ c[f] = in[f] - out[f] /\ c[f] \in Int
    OBVIOUS
  <2>1. f.changed \in Int /\ c[f] = f.changed /\ in[f] = Positive(f.changed) /\ out[f] = Positive(-f.changed)
    BY <1>3 DEF c, in, out
  <2>. QED  BY <2>1, PositivesDiffer
<1>9. IsFiniteSet(F)
  BY <1>3 DEF Placed
<1>10. SumFunctionOnSet(c, F) = e.deposit - e.withdrawal /\ e.deposit \in Nat /\ e.withdrawal \in Nat
  <2>1. SumFunctionOnSet(c, F) = SumFunctionOnSet(in, F) - SumFunctionOnSet(out, F)
    BY <1>8, <1>9, SumMinus
  <2>2. SumFunctionOnSet(in, F) \in Nat /\ SumFunctionOnSet(out, F) \in Nat
    BY <1>8, <1>9, SumNat
  <2>. QED  BY <1>1, <2>1, <2>2
<1>11. SumFunctionOnSet(ChangeOf(pass), O)
       = SumFunctionOnSet(m, O) + (SumFunctionOnSet(r, O) + SumFunctionOnSet(x, O))
  <2>. DEFINE y == [p \in O |-> r[p] + x[p]]
  <2>1. \A p \in O : m[p] \in Int /\ y[p] \in Int /\ r[p] \in Int /\ x[p] \in Int
                     /\ y[p] = r[p] + x[p] /\ ChangeOf(pass)[p] = m[p] + y[p]
    BY <1>4, <1>5
  <2>. HIDE DEF y
  <2>2. SumFunctionOnSet(ChangeOf(pass), O) = SumFunctionOnSet(m, O) + SumFunctionOnSet(y, O)
    BY <1>4, <2>1, SumPlus
  <2>3. SumFunctionOnSet(y, O) = SumFunctionOnSet(r, O) + SumFunctionOnSet(x, O)
    BY <1>4, <2>1, SumPlus
  <2>. QED  BY <2>2, <2>3
<1>12. IsEntry(e)
  <2>1. e.deposit = SumFunction([f \in e.flows |-> Positive(f.changed)])
        /\ e.withdrawal = SumFunction([f \in e.flows |-> Positive(-f.changed)])
    BY <1>1 DEF SumFunction, in, out
  <2>2. e.received \in Nat /\ e.expense \in Nat
    BY <1>6, <1>7
  <2>. QED  BY <1>1, <1>3, <2>1, <2>2 DEF IsEntry
<1>13. e.deposit + e.received - e.withdrawal - e.expense = SumFunctionOnSet(ChangeOf(pass), O)
  <2>1. SumFunctionOnSet(m, O) = e.deposit - e.withdrawal
    BY <1>3, <1>10
  <2>. QED  BY <1>6, <1>7, <1>10, <1>11, <2>1
<1>. QED  BY <1>1, <1>10, <1>12, <1>13 DEF F, O

\* A whole number of n.
Multiple(n, v) == v \in Int /\ \E r \in Int : v = r * n

\* What has no remainder is a multiple.
LEMMA MultipleOfRest ==
  ASSUME NEW n \in Nat \ {0}, NEW v \in Int, v % n = 0
  PROVE  Multiple(n, v)
<1>1. v = n * (v \div n) + (v % n) /\ v \div n \in Int
  OBVIOUS
<1>2. PICK r \in Int : r = v \div n
  BY <1>1
<1>3. v = r * n
  BY <1>1, <1>2
<1>. QED  BY <1>3 DEF Multiple

\* The sum of two multiples is one.
LEMMA MultiplePlus ==
  ASSUME NEW n \in Nat \ {0}, NEW v, Multiple(n, v), NEW u, Multiple(n, u)
  PROVE  Multiple(n, v + u)
<1>1. PICK r \in Int, q \in Int : v = r * n /\ u = q * n /\ v \in Int /\ u \in Int
  BY DEF Multiple
<1>2. PICK s \in Int : s = r + q
  OBVIOUS
<1>3. v + u = s * n /\ v + u \in Int
  BY <1>1, <1>2
<1>. QED  BY <1>3 DEF Multiple

\* A multiple's multiples are multiples.
LEMMA MultipleTimes ==
  ASSUME NEW n \in Nat \ {0}, NEW v, Multiple(n, v), NEW m \in Int
  PROVE  Multiple(n, m * v)
<1>1. PICK r \in Int : v = r * n /\ v \in Int
  BY DEF Multiple
<1>2. PICK q \in Int : q = m * r
  OBVIOUS
<1>3. m * v = q * n /\ m * v \in Int
  BY <1>1, <1>2
<1>. QED  BY <1>3 DEF Multiple

\* So is a sum of such.
LEMMA SumMultiple ==
  ASSUME NEW w, NEW S, IsFiniteSet(S), NEW n \in Nat \ {0}, \A x \in S : Multiple(n, w[x])
  PROVE  Multiple(n, SumFunctionOnSet(w, S))
<1>. DEFINE T == {s \in SUBSET S : Multiple(n, SumFunctionOnSet(w, s))}
<1>1. {} \in T
  <2>1. 0 = 0 * n
    OBVIOUS
  <2>. QED  BY <2>1, SumEmpty DEF Multiple
<1>2. ASSUME NEW s \in SUBSET S, NEW x \in s, s \ {x} \in T PROVE s \in T
  <2>1. IsFiniteSet(s) /\ \A y \in s : w[y] \in Int
    BY FS_Subset DEF Multiple
  <2>2. SumFunctionOnSet(w, s) = w[x] + SumFunctionOnSet(w, s \ {x})
    BY <2>1, SumSplit
  <2>3. Multiple(n, w[x]) /\ Multiple(n, SumFunctionOnSet(w, s \ {x}))
    BY <1>2
  <2>. QED  BY <2>2, <2>3, MultiplePlus
<1>3. \A s \in SUBSET S : s \in T
  <2>1. \A s \in SUBSET S : \A x \in s : s \ {x} \in T => s \in T
    BY <1>2
  <2>. HIDE DEF T
  <2>. QED  BY <1>1, <2>1, OneByOne
<1>. QED  BY <1>3

\* What a transaction may be valued at.
Valued(n, v) == v = Null \/ Multiple(n, v)
IsLegs(legs, n) ==
  /\ IsFiniteSet(legs)
  /\ \A leg \in legs : leg.token \in Token /\ leg.changed \in Int /\ Valued(n, leg.usd)
Priced(d, n) == \A t \in Token : Price[d][t] \in Nat /\ Multiple(n, Price[d][t])

\* A leg's value at the close is on the scale.
LEMMA EodValued ==
  ASSUME NEW n \in Nat \ {0}, NEW d, Priced(d, n), NEW legs, IsLegs(legs, n), NEW leg \in legs
  PROVE  /\ EodValue(leg, d) \in Int
         /\ EodValue(leg, d) # Null => Multiple(n, EodValue(leg, d))
<1>1. leg.token \in Token /\ leg.changed \in Int
  BY DEF IsLegs
<1>2. PICK m \in Int, p \in Int : m = Magnitude(leg.changed) /\ p = Price[d][leg.token] /\ Multiple(n, p)
  BY <1>1 DEF Magnitude, Priced
<1>3. Multiple(n, m * p)
  BY <1>2, MultipleTimes
<1>4. EodValue(leg, d) = Null \/ EodValue(leg, d) = m * p
  BY <1>2 DEF EodValue
<1>. QED  BY <1>3, <1>4 DEF Multiple, Null

\* A figure is a whole value for each unit, whichever sum it is.
LEMMA SwapFigureValued ==
  ASSUME NEW n \in Nat \ {0}, NEW d, Priced(d, n), NEW ins, IsLegs(ins, n), NEW outs, IsLegs(outs, n)
  PROVE  Valued(n, SwapFigure(ins, outs, d))
<1>. DEFINE worth(side) == SumFunction([leg \in side |-> EodValue(leg, d)])
            mark(side) == SumFunction([leg \in side |-> leg.usd])
            stable(side) == {leg \in side : leg.token \in Stable /\ EodValue(leg, d) # Null}
            marked(side) == \A leg \in side : leg.usd > 0
            priceable(side) == \A leg \in side : EodValue(leg, d) # Null
<1>1. ASSUME NEW side, IsLegs(side, n), marked(side) PROVE Multiple(n, mark(side))
  <2>. DEFINE w == [leg \in side |-> leg.usd]
  <2>1. \A leg \in side : w[leg] = leg.usd
    OBVIOUS
  <2>2. \A leg \in side : Multiple(n, w[leg])
    BY <1>1, <2>1 DEF IsLegs, Valued, Null
  <2>3. mark(side) = SumFunctionOnSet(w, side)
    BY DEF SumFunction
  <2>. HIDE DEF w, mark
  <2>. QED  BY <1>1, <2>2, <2>3, SumMultiple DEF IsLegs
<1>2. ASSUME NEW side, IsLegs(side, n), priceable(side) PROVE Multiple(n, worth(side))
  <2>. DEFINE w == [leg \in side |-> EodValue(leg, d)]
  <2>1. \A leg \in side : w[leg] = EodValue(leg, d)
    OBVIOUS
  <2>2. \A leg \in side : Multiple(n, w[leg])
    BY <1>2, <2>1, EodValued
  <2>3. worth(side) = SumFunctionOnSet(w, side)
    BY DEF SumFunction
  <2>. HIDE DEF w, worth
  <2>. QED  BY <1>2, <2>2, <2>3, SumMultiple DEF IsLegs
<1>3. ASSUME NEW side, IsLegs(side, n) PROVE IsLegs(stable(side), n) /\ priceable(stable(side))
  <2>1. stable(side) \in SUBSET side /\ priceable(stable(side))
    OBVIOUS
  <2>2. IsFiniteSet(stable(side))
    <3>. HIDE DEF stable
    <3>. QED  BY <1>3, <2>1, FS_Subset DEF IsLegs
  <2>. QED  BY <1>3, <2>1, <2>2 DEF IsLegs
<1>4. \/ SwapFigure(ins, outs, d) = mark(ins) /\ marked(ins)
      \/ SwapFigure(ins, outs, d) = mark(outs) /\ marked(outs)
      \/ SwapFigure(ins, outs, d) = worth(stable(ins))
      \/ SwapFigure(ins, outs, d) = worth(stable(outs))
      \/ SwapFigure(ins, outs, d) = worth(ins) /\ priceable(ins)
      \/ SwapFigure(ins, outs, d) = worth(outs) /\ priceable(outs)
      \/ SwapFigure(ins, outs, d) = Null
  BY DEF SwapFigure
<1>. HIDE DEF worth, mark, stable, marked, priceable
<1>. QED  BY <1>1, <1>2, <1>3, <1>4 DEF Valued

\* Whatever a swap is valued by, its figure is on the scale.
LEMMA SwapValued ==
  ASSUME NEW n \in Nat \ {0}, NEW d, Priced(d, n), NEW legs, IsLegs(legs, n)
  PROVE  Valued(n, ResolveSwapValue(legs, d).value)
<1>1. Valued(n, NoSwap.value)
  BY DEF NoSwap, Valued
<1>2. PICK largest : largest = Max({0} \cup {EodValue(leg, d) : leg \in legs})
  OBVIOUS
<1>3. PICK s \in SUBSET legs : s = Substance(legs, largest, d)
  BY DEF Substance
<1>4. ASSUME NEW u \in SUBSET s PROVE IsLegs(u, n)
  BY <1>3, FS_Subset DEF IsLegs
<1>5. PICK ins \in SUBSET s, outs \in SUBSET s :
         ins = {leg \in s : leg.changed > 0} /\ outs = {leg \in s : leg.changed < 0}
  OBVIOUS
<1>6. Valued(n, SwapFigure(ins, outs, d))
  BY <1>4, <1>5, SwapFigureValued
<1>7. ResolveSubstance(s, d) = SidesOf(s, ins, outs, d)
  BY <1>5 DEF ResolveSubstance
<1>8. SidesOf(s, ins, outs, d) = NoSwap \/ SidesOf(s, ins, outs, d).value = SwapFigure(ins, outs, d)
  BY DEF SidesOf
<1>9. Valued(n, ResolveSubstance(s, d).value)
  BY <1>1, <1>6, <1>7, <1>8
<1>10. ResolveSwapValue(legs, d) = NoSwap \/ ResolveSwapValue(legs, d) = ResolveSubstance(s, d)
  BY <1>2, <1>3 DEF ResolveSwapValue
<1>. QED  BY <1>1, <1>9, <1>10

\* The numbers a value is whole for.
Scales == {n \in Nat \ {0} : n = 1 \/ n <= Units}
Passes(P) ==
  \A t \in Token : /\ IsPass(P[t])
                   /\ \A p \in DOMAIN P[t] : \A n \in Scales : Valued(n, P[t][p].usd)

\* The prices of every day are on the scale.
LEMMA PricesScaled ==
  ASSUME NEW d \in 1 .. LastDay, NEW n \in Scales
  PROVE  Priced(d, n)
<1>. SUFFICES ASSUME NEW t \in Token PROVE Price[d][t] \in Nat /\ Multiple(n, Price[d][t])
  BY DEF Priced
<1>1. PICK p \in Nat : p = Price[d][t]
  BY TokenAssumption
<1>2. CASE n = 1
  <2>1. p = p * 1
    OBVIOUS
  <2>. QED  BY <1>1, <1>2, <2>1 DEF Multiple
<1>3. CASE n # 1
  <2>1. n \in 1 .. Units /\ n \in Nat \ {0}
    BY <1>3, ScaleAssumption DEF Scales
  <2>2. Price[d][t] % n = 0
    BY <2>1, ScaleAssumption
  <2>. QED  BY <1>1, <2>1, <2>2, MultipleOfRest
<1>. QED  BY <1>2, <1>3

\* What the index collects under a key are legs on the scale.
LEMMA LegsTyped ==
  ASSUME NEW P, Passes(P), NEW key, NEW n \in Scales
  PROVE  IsLegs(IndexSwapLegs(P, key), n)
<1>. DEFINE legRows(t) == {p \in DOMAIN P[t] : SwapKeyForHash(P[t][p].hash) = key /\ P[t][p].changed # 0}
            sum(t) == SumFunction([p \in legRows(t) |-> P[t][p].changed])
            marks(t) == SumFunction([p \in legRows(t) |-> P[t][p].usd])
            leg(t) == [token |-> t, changed |-> sum(t),
                       usd |-> IF \E p \in legRows(t) : P[t][p].usd = Null THEN Null ELSE marks(t)]
            U == {u \in Token : legRows(u) # {}}
            L == {leg(t) : t \in U}
<1>1. IndexSwapLegs(P, key) = L
  BY DEF IndexSwapLegs
<1>2. ASSUME NEW t \in Token PROVE IsFiniteSet(legRows(t)) /\ legRows(t) \in SUBSET DOMAIN P[t]
  <2>1. legRows(t) \in SUBSET DOMAIN P[t]
    OBVIOUS
  <2>. HIDE DEF legRows
  <2>. QED  BY <2>1, FS_Subset DEF Passes, IsPass
<1>3. ASSUME NEW t \in Token PROVE sum(t) \in Int
  <2>. DEFINE w == [p \in legRows(t) |-> P[t][p].changed]
  <2>1. \A p \in legRows(t) : w[p] \in Int
    BY <1>2 DEF Passes, IsPass
  <2>2. sum(t) = SumFunctionOnSet(w, legRows(t))
    BY DEF SumFunction
  <2>. HIDE DEF w, legRows, sum
  <2>. QED  BY <1>2, <2>1, <2>2, SumSplit
<1>4. ASSUME NEW t \in Token, ~\E p \in legRows(t) : P[t][p].usd = Null PROVE Multiple(n, marks(t))
  <2>. DEFINE w == [p \in legRows(t) |-> P[t][p].usd]
  <2>1. \A p \in legRows(t) : w[p] = P[t][p].usd
    OBVIOUS
  <2>2. marks(t) = SumFunctionOnSet(w, legRows(t))
    BY DEF SumFunction
  <2>. HIDE DEF w, legRows, marks
  <2>3. \A p \in legRows(t) : Multiple(n, w[p])
    BY <1>2, <1>4, <2>1 DEF Passes, Valued
  <2>. QED  BY <1>2, <2>3, <2>2, SumMultiple DEF Scales
<1>5. \A t \in Token : leg(t).token \in Token /\ leg(t).changed \in Int /\ Valued(n, leg(t).usd)
  <2>. SUFFICES ASSUME NEW t \in Token
                PROVE  leg(t).token \in Token /\ leg(t).changed \in Int /\ Valued(n, leg(t).usd)
    OBVIOUS
  <2>1. leg(t).token = t /\ leg(t).changed = sum(t)
        /\ leg(t).usd = IF \E p \in legRows(t) : P[t][p].usd = Null THEN Null ELSE marks(t)
    OBVIOUS
  <2>. HIDE DEF leg, legRows, sum, marks
  <2>. QED  BY <1>3, <1>4, <2>1 DEF Valued
<1>6. IsFiniteSet(U)
  <2>1. U \in SUBSET Token
    OBVIOUS
  <2>. HIDE DEF U
  <2>. QED  BY <2>1, TokenAssumption, FS_Subset
<1>7. IsFiniteSet(L)
  <2>. DEFINE g == [t \in U |-> leg(t)]
  <2>. HIDE DEF leg, U
  <2>1. g \in Surjection(U, L)
    BY DEF Surjection
  <2>. HIDE DEF g, L
  <2>. QED  BY <1>6, <2>1, FS_Surjection
<1>8. \A l \in L : \E t \in Token : l = leg(t)
  OBVIOUS
<1>. HIDE DEF leg, L
<1>. QED  BY <1>1, <1>5, <1>7, <1>8 DEF IsLegs

\* The figure of a key on a day.
FigureOf(P, key, d) == ResolveSwapValue(IndexSwapLegs(P, key), d).value

\* A day's swaps are some of its flows, each at the figure of its key, and where an amount is
\* within the scale its unit is worth a whole value.
LEMMA SwapsOfDayFacts ==
  ASSUME NEW P, Passes(P), NEW e, IsEntry(e), NEW t, NEW d \in 1 .. LastDay,
         NEW S, S = ValueSwapsOfDay(P, e, t, d)
  PROVE  /\ SwapsAmong(S, e.flows)
         /\ \A s \in S : s.value = FigureOf(P, SwapKeyForHash(s.hash), d)
         /\ \A s \in S : Magnitude(s.changed) \in Scales => WholeSwap(s)
<1>. DEFINE at(f) == SwapOf(f, ResolvedAt(P, f, d))
<1>1. \A s \in S : s.value # Null /\ \E f \in e.flows : s = at(f)
  BY DEF ValueSwapsOfDay
<1>2. \A f \in e.flows : /\ at(f).place = f.place /\ at(f).hash = f.hash /\ at(f).changed = f.changed
                         /\ at(f).value = FigureOf(P, SwapKeyForHash(f.hash), d)
  BY DEF SwapOf, ResolvedAt, FigureOf
<1>. HIDE DEF at
<1>3. ASSUME NEW key, NEW n \in Scales PROVE Valued(n, FigureOf(P, key, d))
  <2>1. Priced(d, n) /\ IsLegs(IndexSwapLegs(P, key), n) /\ n \in Nat \ {0}
    BY PricesScaled, LegsTyped DEF Scales
  <2>. QED  BY <2>1, SwapValued DEF FigureOf
<1>4. \A s \in S : /\ s.value = FigureOf(P, SwapKeyForHash(s.hash), d)
                   /\ \E f \in e.flows : s.place = f.place /\ s.hash = f.hash /\ s.changed = f.changed
  BY <1>1, <1>2
<1>5. 1 \in Scales
  BY DEF Scales
<1>6. \A s \in S : s.value \in Int
  BY <1>1, <1>3, <1>4, <1>5 DEF Valued, Multiple
<1>7. \A s, q \in S : s.place = q.place => s = q
  BY <1>1, <1>2 DEF IsEntry, Placed
<1>8. ASSUME NEW s \in S, Magnitude(s.changed) \in Scales PROVE WholeSwap(s)
  <2>1. PICK n \in Nat \ {0} : n = Magnitude(s.changed) /\ n \in Scales
    BY <1>8 DEF Scales
  <2>2. Multiple(n, s.value)
    BY <1>1, <1>3, <1>4, <2>1 DEF Valued
  <2>3. PICK r \in Int : s.value = r * n
    BY <2>2 DEF Multiple
  <2>4. s.changed \in Int
    BY <1>4 DEF IsEntry
  <2>5. CASE s.changed >= 0
    <3>1. n = s.changed
      BY <2>1, <2>4, <2>5 DEF Magnitude
    <3>. QED  BY <2>3, <3>1 DEF WholeSwap
  <2>6. CASE s.changed < 0
    <3>1. n = -s.changed
      BY <2>1, <2>4, <2>6 DEF Magnitude
    <3>2. PICK c \in Int, q \in Int : c = s.changed /\ q = -r
      BY <2>4
    <3>3. r * n = q * c
      BY <2>1, <3>1, <3>2
    <3>. QED  BY <2>3, <3>2, <3>3 DEF WholeSwap
  <2>. QED  BY <2>4, <2>5, <2>6
<1>. QED  BY <1>4, <1>6, <1>7, <1>8 DEF SwapsAmong

\* No flow moves more than values are scaled for.
Bounded(P) ==
  \A t \in Token : \A p \in DOMAIN P[t] : Magnitude(Total(P[t], "moved", Together(P[t], p))) <= Units
\* The prices the owner entered for what the rows are of.
PricesKnown(P, prices) == \A t \in Token : \A p \in DOMAIN P[t] : PriceOf(prices, P[t][p].hash) \in Int

\* A note of a day, at the figure of its key, unless what was sold was not there.
NoteOn(P, t, n, d, b, c) ==
  \E p \in DOMAIN P[t] :
    /\ P[t][p].day = d /\ SwapKeyForHash(P[t][p].hash) = n.key
    /\ \/ n.side = "in" /\ n.value = FigureOf(P, n.key, d)
       \/ n.side = "out" /\ (c.short = b.short => n.value = FigureOf(P, n.key, d))

\* What an entry comes to is what a day's rows change.
Adds(e, pass, d) ==
  /\ e.deposit \in Nat /\ e.received \in Nat /\ e.withdrawal \in Nat /\ e.expense \in Nat
  /\ e.deposit + e.received - e.withdrawal - e.expense = SumFunctionOnSet(ChangeOf(pass), OutsidePools(pass, d))

\* A flow comes from rows of the day, and moves what these move.
LEMMA FlowRows ==
  ASSUME NEW pass, IsPass(pass), NEW d \in Int, NEW f,
         f \in FlowsOf(pass, {p \in Visited(pass, d) : pass[p].peer \notin StakingPool})
  PROVE  \E p \in DOMAIN pass : /\ pass[p].day = d /\ f.hash = pass[p].hash /\ f.changed # 0
                                /\ f.changed = Total(pass, "moved", Together(pass, p))
<1>1. PICK p \in Visited(pass, d) : f = FlowAt(pass, p) /\ f.changed # 0
  BY DEF FlowsOf
<1>2. p \in DOMAIN pass /\ pass[p].day = d
  BY VisitedFacts
<1>. QED  BY <1>1, <1>2 DEF FlowAt

\* Booking a day changes the book by what the day's rows change.
LEMMA DayFacts ==
  ASSUME NEW P, Passes(P), NEW prices, PricesKnown(P, prices), NEW t \in Token, NEW d \in 1 .. LastDay,
         NEW b, IsBook(b), NEW c, c = BookDay(P, prices, b, t, d)
  PROVE  /\ \E e : Entered(b, c, e) /\ Adds(e, P[t], d)
         /\ Bounded(P) => KeepsPaid(b, c) /\ \A n \in c.swaps : n \in b.swaps \/ NoteOn(P, t, n, d, b, c)
<1>1. PICK e : e = Entry(P[t], d)
  OBVIOUS
<1>2. IsPass(P[t]) /\ d \in Int
  BY TokenAssumption DEF Passes
<1>3. /\ IsEntry(e) /\ e.deposit \in Nat /\ e.withdrawal \in Nat
      /\ e.flows = FlowsOf(P[t], {p \in Visited(P[t], d) : P[t][p].peer \notin StakingPool})
      /\ e.deposit + e.received - e.withdrawal - e.expense
         = SumFunctionOnSet(ChangeOf(P[t]), OutsidePools(P[t], d))
  BY <1>1, <1>2, EntryFacts
<1>4. \A f \in e.flows : \E p \in DOMAIN P[t] :
         /\ P[t][p].day = d /\ f.hash = P[t][p].hash /\ f.changed # 0
         /\ f.changed = Total(P[t], "moved", Together(P[t], p))
  BY <1>2, <1>3, FlowRows
<1>5. PICK S : S = ValueSwapsOfDay(P, e, t, d)
  OBVIOUS
<1>6. /\ SwapsAmong(S, e.flows)
      /\ \A s \in S : s.value = FigureOf(P, SwapKeyForHash(s.hash), d)
      /\ \A s \in S : Magnitude(s.changed) \in Scales => WholeSwap(s)
  BY <1>3, <1>5, SwapsOfDayFacts
<1>7. PICK close \in Int : close = Price[d][t]
  BY TokenAssumption
<1>8. c = BookEntry(b, e, S, prices, close)
  BY <1>1, <1>5, <1>7 DEF BookDay
<1>9. \A f \in e.flows : PriceOf(prices, f.hash) \in Int
  BY <1>4 DEF PricesKnown
<1>10. /\ Entered(b, c, e) /\ e.deposit \in Nat /\ e.withdrawal \in Nat
       /\ WholeSwaps(S) => KeepsPaid(b, c)
       /\ \A n \in c.swaps : n \in b.swaps \/ \E s \in S : n = NoteIn(s) \/ NoteOut(n, s, b, c)
  BY <1>3, <1>6, <1>8, <1>9, BookEntryFacts
<1>11. Adds(e, P[t], d)
  BY <1>3 DEF Adds, IsEntry
<1>12. \A s \in S : \E p \in DOMAIN P[t] :
         /\ P[t][p].day = d /\ s.hash = P[t][p].hash /\ s.changed # 0 /\ s.changed \in Int
         /\ s.changed = Total(P[t], "moved", Together(P[t], p))
  BY <1>3, <1>4, <1>6 DEF SwapsAmong, IsEntry
<1>13. ASSUME Bounded(P) PROVE WholeSwaps(S)
  <2>. SUFFICES ASSUME NEW s \in S PROVE WholeSwap(s)
    BY DEF WholeSwaps
  <2>1. s.changed \in Int /\ s.changed # 0 /\ Magnitude(s.changed) <= Units
    BY <1>12, <1>13 DEF Bounded
  <2>2. Magnitude(s.changed) \in Scales
    BY <2>1, ScaleAssumption DEF Scales, Magnitude
  <2>. QED  BY <1>6, <2>2
<1>14. ASSUME Bounded(P), NEW n \in c.swaps, n \notin b.swaps PROVE NoteOn(P, t, n, d, b, c)
  <2>1. PICK s \in S : n = NoteIn(s) \/ NoteOut(n, s, b, c)
    BY <1>10, <1>14
  <2>2. PICK p \in DOMAIN P[t] : P[t][p].day = d /\ s.hash = P[t][p].hash /\ s.changed # 0 /\ s.changed \in Int
    BY <1>12
  <2>3. s.value = FigureOf(P, SwapKeyForHash(s.hash), d)
    BY <1>6
  <2>4. CASE n = NoteIn(s)
    BY <2>2, <2>3, <2>4 DEF NoteOn, NoteIn
  <2>5. CASE NoteOut(n, s, b, c)
    <3>1. n.key = SwapKeyForHash(s.hash) /\ n.side = "out" /\ s.changed < 0
          /\ (c.short = b.short => n.value = (-s.changed) * (s.value \div (-s.changed)))
      BY <2>5 DEF NoteOut
    <3>2. (-s.changed) * (s.value \div (-s.changed)) = s.value
      <4>1. PICK r \in Int : s.value = r * s.changed
        BY <1>13, <1>14 DEF WholeSwaps, WholeSwap
      <4>2. PICK i \in Nat \ {0}, x \in Int : i = -s.changed /\ x = -r
        BY <2>2, <3>1
      <4>3. s.value = x * i
        BY <2>2, <4>1, <4>2
      <4>4. s.value \div i = x
        BY <4>2, <4>3, DivideWhole
      <4>. QED  BY <4>2, <4>3, <4>4
    <3>. QED  BY <2>2, <2>3, <3>1, <3>2 DEF NoteOn
  <2>. QED  BY <2>1, <2>4, <2>5
<1>. QED  BY <1>10, <1>11, <1>13, <1>14

\* One day after the other.
LEMMA ReportTurns ==
  ASSUME NEW P, NEW prices, NEW t, NEW until \in Nat
  PROVE  \E after :
           /\ after[0] = EmptyBook
           /\ \A k \in 1 .. until : after[k] = BookDay(P, prices, after[k - 1], t, k)
           /\ CalculateProfitLoss(P, prices, t, until) = after[until]
<1>. DEFINE N == until
            step(g, k) == IF k = 0 THEN EmptyBook ELSE BookDay(P, prices, g[k - 1], t, k)
            Is(g, m) == g = [k \in 0 .. m |-> step(g, k)]
<1>0. N \in Nat
  OBVIOUS
<1>1. CalculateProfitLoss(P, prices, t, until) = (CHOOSE g : Is(g, N))[N]
  BY DEF CalculateProfitLoss
<1>. HIDE DEF N
<1>2. \E g : Is(g, N)
  <2>. DEFINE T == {m \in 0 .. N : \E g : Is(g, m)}
  <2>1. 0 \in T
    <3>1. Is([k \in 0 .. 0 |-> EmptyBook], 0)
      OBVIOUS
    <3>. HIDE DEF Is
    <3>. QED  BY <1>0, <3>1
  <2>2. ASSUME NEW m \in 1 .. N, m - 1 \in T PROVE m \in T
    <3>1. PICK g : Is(g, m - 1)
      BY <2>2
    <3>. DEFINE h == [k \in 0 .. m |-> IF k = m THEN step(g, m) ELSE g[k]]
    <3>2. \A k \in 0 .. m - 1 : g[k] = step(g, k)
      BY <3>1
    <3>3. \A k \in 0 .. m : h[k] = step(h, k)
      <4>. SUFFICES ASSUME NEW k \in 0 .. m PROVE h[k] = step(h, k)
        OBVIOUS
      <4>1. CASE k = m
        BY <4>1, <2>2
      <4>2. CASE k # m
        <5>1. k \in 0 .. m - 1 /\ h[k] = g[k] /\ (k # 0 => h[k - 1] = g[k - 1])
          BY <4>2
        <5>. HIDE DEF h
        <5>. QED  BY <3>2, <5>1
      <4>. QED  BY <4>1, <4>2
    <3>4. h = [k \in 0 .. m |-> h[k]]
      OBVIOUS
    <3>5. Is(h, m)
      <4>. HIDE DEF h
      <4>. QED  BY <3>3, <3>4
    <3>. HIDE DEF Is, h
    <3>. QED  BY <3>5
  <2>3. \A m \in 0 .. N : m \in T
    <3>. HIDE DEF T
    <3>. QED  BY <1>0, <2>1, <2>2, StepByStep
  <2>. HIDE DEF Is
  <2>. QED  BY <1>0, <2>3
<1>3. PICK g : g = CHOOSE h : Is(h, N)
  OBVIOUS
<1>4. Is(g, N)
  <2>. HIDE DEF Is
  <2>. QED  BY <1>2, <1>3
<1>5. g[0] = step(g, 0) /\ \A k \in 1 .. N : g[k] = step(g, k)
  <2>1. \A k \in 0 .. N : g[k] = step(g, k)
    BY <1>4
  <2>. HIDE DEF step
  <2>. QED  BY <2>1, <1>0
<1>. HIDE DEF Is
<1>6. g[0] = EmptyBook /\ \A k \in 1 .. N : g[k] = BookDay(P, prices, g[k - 1], t, k)
  BY <1>5
<1>. QED  BY <1>1, <1>3, <1>6 DEF N


\* What a token's rows changed until a day, moves to and from pools aside.
OutsideUntil(pass, d) == {p \in DOMAIN pass : pass[p].day \in 1 .. d /\ pass[p].peer \notin StakingPool}
ChangedUntil(pass, d) == SumFunctionOnSet(ChangeOf(pass), OutsideUntil(pass, d))

\* What changed until a day is what changed until the day before and on it.
LEMMA ChangedOneMore ==
  ASSUME NEW pass, IsPass(pass), NEW d \in Nat \ {0}
  PROVE  /\ ChangedUntil(pass, 0) = 0
         /\ ChangedUntil(pass, d - 1) \in Int
         /\ ChangedUntil(pass, d)
            = ChangedUntil(pass, d - 1) + SumFunctionOnSet(ChangeOf(pass), OutsidePools(pass, d))
         /\ SumFunctionOnSet(ChangeOf(pass), OutsidePools(pass, d)) \in Int
<1>. DEFINE U == OutsideUntil(pass, d)
            V == OutsideUntil(pass, d - 1)
            O == OutsidePools(pass, d)
            w == ChangeOf(pass)
<1>1. \A p \in DOMAIN pass : w[p] \in Int /\ pass[p].day \in Int
  BY DEF ChangeOf, IsPass
<1>2. U \in SUBSET DOMAIN pass /\ V \in SUBSET U /\ U \ V = O
  BY <1>1 DEF OutsideUntil, OutsidePools, RowsOfDay
<1>3. IsFiniteSet(U) /\ IsFiniteSet(V) /\ IsFiniteSet(U \ V)
  <2>. HIDE DEF U, V
  <2>1. IsFiniteSet(U)
    BY <1>2, FS_Subset DEF IsPass
  <2>. QED  BY <1>2, <2>1, FS_Subset
<1>4. OutsideUntil(pass, 0) = {}
  BY <1>1 DEF OutsideUntil
<1>5. ChangedUntil(pass, 0) = 0
  BY <1>4, SumEmpty DEF ChangedUntil
<1>. HIDE DEF U, V, O, w
<1>6. \A p \in U : w[p] \in Int
  BY <1>1, <1>2
<1>7. SumFunctionOnSet(w, U) = SumFunctionOnSet(w, V) + SumFunctionOnSet(w, U \ V)
  BY <1>2, <1>3, <1>6, SumParts
<1>8. SumFunctionOnSet(w, V) \in Int /\ SumFunctionOnSet(w, U \ V) \in Int
  BY <1>2, <1>3, <1>6, SumSplit
<1>. QED  BY <1>2, <1>5, <1>7, <1>8 DEF ChangedUntil, U, V, O, w

\* A note of some day until now.
NoteTrue(P, t, n, d, b) ==
  \E p \in DOMAIN P[t] :
    /\ P[t][p].day \in 1 .. d /\ SwapKeyForHash(P[t][p].hash) = n.key
    /\ \/ n.side = "in" /\ n.value = FigureOf(P, n.key, P[t][p].day)
       \/ n.side = "out" /\ (b.short = 0 => n.value = FigureOf(P, n.key, P[t][p].day))

\* A book that tells what the rows until a day changed.  What it owes is no more than what
\* the rows were ever short of.
Tells(b, P, t, d) ==
  /\ IsBook(b) /\ b.short \in Nat /\ b.expense \in Nat /\ Gain(b) = 0
  /\ Net(b) = b.expense + ChangedUntil(P[t], d)
  /\ \A most \in Nat : (\A k \in 1 .. d : -ChangedUntil(P[t], k) <= most) => b.short <= most
  /\ Bounded(P) => Wholes(b) /\ Paid(b) = 0 /\ \A n \in b.swaps : NoteTrue(P, t, n, d, b)

\* An empty book tells of no day.
LEMMA NothingTold ==
  ASSUME NEW P, Passes(P), NEW t \in Token
  PROVE  Tells(EmptyBook, P, t, 0)
<1>1. EmptyBook.open = <<>> /\ EmptyBook.swaps = {} /\ EmptyBook.short = 0 /\ EmptyBook.expense = 0
      /\ EmptyBook.profit = 0 /\ EmptyBook.loss = 0 /\ EmptyBook.proceeds = 0 /\ EmptyBook.spent = 0
      /\ EmptyBook.bought = 0 /\ EmptyBook.left = 0
  BY DEF EmptyBook
<1>2. IsBook(EmptyBook)
  <2>1. EmptyBook.open \in Seq(Position)
    BY <1>1
  <2>. QED  BY <1>1, <2>1 DEF IsBook, EmptyBook
<1>3. RemainingOf(EmptyBook) = 0 /\ CostBasis(EmptyBook) = 0
  <2>1. DOMAIN EmptyBook.open = {}
    BY <1>1
  <2>2. IsFiniteSet({})
    BY FS_EmptySet
  <2>3. DOMAIN [n \in DOMAIN EmptyBook.open |-> EmptyBook.open[n].remaining] = {}
        /\ DOMAIN [n \in DOMAIN EmptyBook.open |-> CostOf(EmptyBook.open[n], EmptyBook.open[n].remaining)] = {}
    BY <2>1
  <2>. QED  BY <2>3, SumEmpty DEF RemainingOf, CostBasis, SumFunction
<1>4. ChangedUntil(P[t], 0) = 0
  <2>1. IsPass(P[t]) /\ 1 \in Nat \ {0}
    BY DEF Passes
  <2>. QED  BY <2>1, ChangedOneMore
<1>5. Wholes(EmptyBook)
  BY <1>1 DEF Wholes
<1>. QED  BY <1>1, <1>2, <1>3, <1>4, <1>5 DEF Tells, Net, Gain, Paid

\* A book that tells of all days before one tells of it after it is booked.  It lacks something
\* only where it has nothing open, and then no more than the rows lacked that day.
LEMMA OneDayTold ==
  ASSUME NEW P, Passes(P), NEW prices, PricesKnown(P, prices), NEW t \in Token, NEW d \in 1 .. LastDay,
         NEW b, Tells(b, P, t, d - 1), NEW c, c = BookDay(P, prices, b, t, d)
  PROVE  Tells(c, P, t, d)
<1>1. IsBook(b)
  BY DEF Tells
<1>2. PICK e : Entered(b, c, e) /\ Adds(e, P[t], d)
  BY <1>1, DayFacts
<1>3. Bounded(P) => KeepsPaid(b, c) /\ \A n \in c.swaps : n \in b.swaps \/ NoteOn(P, t, n, d, b, c)
  BY <1>1, DayFacts
<1>4. d \in Nat \ {0} /\ d - 1 \in Nat /\ IsPass(P[t])
  BY TokenAssumption DEF Passes
<1>5. PICK x \in Int, y \in Int, z \in Int :
         /\ x = ChangedUntil(P[t], d - 1) /\ y = SumFunctionOnSet(ChangeOf(P[t]), OutsidePools(P[t], d))
         /\ z = ChangedUntil(P[t], d) /\ z = x + y
  BY <1>4, ChangedOneMore
<1>6. IsBook(c) /\ c.short \in Int /\ c.expense \in Int /\ b.short \in Nat /\ b.expense \in Nat
      /\ RemainingOf(c) \in Nat /\ Net(b) \in Int /\ Net(c) \in Int
  BY <1>1, <1>2, NumbersTyped DEF Entered, IsBook, Tells
<1>7. c.short \in Nat /\ c.expense \in Nat /\ Gain(c) = 0
  BY <1>2, <1>6 DEF Entered, Adds, Tells
<1>8. Net(c) = c.expense + z
  BY <1>2, <1>5, <1>6 DEF Entered, Adds, Tells
<1>9. ASSUME NEW most \in Nat, \A k \in 1 .. d : -ChangedUntil(P[t], k) <= most PROVE c.short <= most
  <2>1. b.short <= most
    <3>1. \A k \in 1 .. d - 1 : k \in 1 .. d
      BY <1>4
    <3>. QED  BY <1>9, <3>1 DEF Tells
  <2>2. CASE c.short = b.short
    BY <2>1, <2>2
  <2>3. CASE RemainingOf(c) = 0
    <3>1. d \in 1 .. d
      BY <1>4
    <3>2. -z <= most
      BY <1>5, <1>9, <3>1
    <3>. QED  BY <1>6, <1>7, <1>8, <2>3, <3>2 DEF Net
  <2>. QED  BY <1>2, <2>2, <2>3 DEF Entered
<1>10. ASSUME Bounded(P) PROVE Wholes(c) /\ Paid(c) = 0
  BY <1>3, <1>10 DEF KeepsPaid, Tells
<1>11. c.short = 0 => b.short = 0 /\ c.short = b.short
  BY <1>2, <1>6 DEF Entered
<1>12. ASSUME Bounded(P), NEW n \in c.swaps PROVE NoteTrue(P, t, n, d, c)
  <2>1. CASE n \in b.swaps
    <3>1. NoteTrue(P, t, n, d - 1, b)
      BY <1>12, <2>1 DEF Tells
    <3>2. \A k \in 1 .. d - 1 : k \in 1 .. d
      BY <1>4
    <3>. QED  BY <1>11, <3>1, <3>2 DEF NoteTrue
  <2>2. CASE NoteOn(P, t, n, d, b, c)
    <3>1. d \in 1 .. d
      BY <1>4
    <3>. QED  BY <1>11, <2>2, <3>1 DEF NoteOn, NoteTrue
  <2>. QED  BY <1>3, <1>12, <2>1, <2>2
<1>. QED  BY <1>5, <1>6, <1>7, <1>8, <1>9, <1>10, <1>12 DEF Tells

\* CalculateProfitLoss tells what the rows of a token changed until a day.
LEMMA ReportTells ==
  ASSUME NEW P, Passes(P), NEW prices, PricesKnown(P, prices), NEW t \in Token,
         NEW until \in 0 .. LastDay
  PROVE  Tells(CalculateProfitLoss(P, prices, t, until), P, t, until)
<1>1. PICK after :
        /\ after[0] = EmptyBook
        /\ \A k \in 1 .. until : after[k] = BookDay(P, prices, after[k - 1], t, k)
        /\ CalculateProfitLoss(P, prices, t, until) = after[until]
  BY ReportTurns
<1>. DEFINE T == {k \in 0 .. until : Tells(after[k], P, t, k)}
<1>2. 0 \in T
  BY <1>1, NothingTold
<1>3. ASSUME NEW k \in 1 .. until, k - 1 \in T PROVE k \in T
  <2>1. k \in 1 .. LastDay /\ k \in 0 .. until
    BY TokenAssumption
  <2>2. Tells(after[k - 1], P, t, k - 1) /\ after[k] = BookDay(P, prices, after[k - 1], t, k)
    BY <1>1, <1>3
  <2>. QED  BY <2>1, <2>2, OneDayTold
<1>4. until \in Nat
  BY TokenAssumption
<1>5. until \in T
  <2>1. until \in 0 .. until
    BY <1>4
  <2>. HIDE DEF T
  <2>. QED  BY <1>2, <1>3, <1>4, <2>1, StepByStep
<1>. QED  BY <1>1, <1>5

\* s is a sequence.
Listed(s) == \E S : s \in Seq(S)

\* What is known of every sequence.
LEMMA ListedFacts ==
  ASSUME NEW s, Listed(s)
  PROVE  Len(s) \in Nat /\ DOMAIN s = 1 .. Len(s)
BY DEF Listed

\* What is known of a sequence to which something is appended.
LEMMA AppendedFacts ==
  ASSUME NEW s, Listed(s), NEW x, NEW r, r = Append(s, x)
  PROVE  /\ Listed(r) /\ Len(r) = Len(s) + 1 /\ DOMAIN r = 1 .. Len(s) + 1
         /\ r[Len(s) + 1] = x /\ \A k \in 1 .. Len(s) : r[k] = s[k]
<1>1. PICK S : s \in Seq(S)
  BY DEF Listed
<1>2. PICK U : U = S \cup {x}
  OBVIOUS
<1>3. S \subseteq U /\ x \in U
  BY <1>2
<1>4. s \in Seq(U)
  BY <1>1, <1>3
<1>5. r \in Seq(U) /\ Len(r) = Len(s) + 1 /\ r[Len(s) + 1] = x /\ \A k \in 1 .. Len(s) : r[k] = s[k]
  BY <1>3, <1>4
<1>6. DOMAIN r = 1 .. Len(r)
  BY <1>5
<1>. QED  BY <1>5, <1>6 DEF Listed

\* The greatest of some numbers.
LEMMA GreatestFacts ==
  ASSUME NEW N \in Nat, NEW S \in SUBSET (1 .. N), S # {}
  PROVE  Max(S) \in S /\ \A k \in S : k <= Max(S)
<1>. DEFINE T == {n \in 0 .. N : \A R \in SUBSET (1 .. n) : R # {} => \E x \in R : \A y \in R : x >= y}
<1>1. 0 \in T
  <2>1. \A R \in SUBSET (1 .. 0) : R = {}
    OBVIOUS
  <2>2. 0 \in 0 .. N
    OBVIOUS
  <2>. QED  BY <2>1, <2>2
<1>2. ASSUME NEW n \in 1 .. N, n - 1 \in T PROVE n \in T
  <2>. SUFFICES ASSUME NEW R \in SUBSET (1 .. n), R # {} PROVE \E x \in R : \A y \in R : x >= y
    OBVIOUS
  <2>1. CASE n \in R
    BY <2>1
  <2>2. CASE n \notin R
    <3>1. R \in SUBSET (1 .. n - 1)
      BY <2>2
    <3>. QED  BY <1>2, <3>1
  <2>. QED  BY <2>1, <2>2
<1>3. N \in T
  <2>1. N \in 0 .. N
    OBVIOUS
  <2>. HIDE DEF T
  <2>. QED  BY <1>1, <1>2, <2>1, StepByStep
<1>4. \E x \in S : \A y \in S : x >= y
  BY <1>3
<1>5. Max(S) \in S /\ \A y \in S : Max(S) >= y
  BY <1>4 DEF Max
<1>. QED  BY <1>5

\* The balance of the last real row among the first k.
LastBalance(s, k) ==
  LET real == {m \in 1 .. k : s[m].real} IN IF real = {} THEN 0 ELSE s[Max(real)].balance

\* Real rows do not have negative balances.
Balanced(s) ==
  \A k \in DOMAIN s : s[k].real \in BOOLEAN /\ s[k].balance \in Int /\ (s[k].real => s[k].balance >= 0)

\* Each row's change is the difference of two successive balances, samples skipped.
LEMMA LastBalanceFacts ==
  ASSUME NEW s, Listed(s), Balanced(s)
  PROVE  /\ LastBalance(s, 0) = 0
         /\ \A k \in 0 .. Len(s) : LastBalance(s, k) \in Nat
         /\ \A k \in 1 .. Len(s) :
              /\ LastBalance(s, k) = IF s[k].real THEN s[k].balance ELSE LastBalance(s, k - 1)
              /\ Changed(s, k) \in Int
              /\ Changed(s, k) = LastBalance(s, k) - LastBalance(s, k - 1)
<1>. DEFINE R(k) == {m \in 1 .. k : s[m].real}
<1>1. Len(s) \in Nat /\ DOMAIN s = 1 .. Len(s)
  BY ListedFacts
<1>2. LastBalance(s, 0) = 0
  <2>1. R(0) = {}
    OBVIOUS
  <2>. QED  BY <2>1 DEF LastBalance
<1>3. ASSUME NEW k \in 0 .. Len(s) PROVE LastBalance(s, k) \in Nat
  <2>1. CASE R(k) = {}
    BY <2>1 DEF LastBalance
  <2>2. CASE R(k) # {}
    <3>1. R(k) \in SUBSET (1 .. k) /\ k \in Nat
      BY <1>1
    <3>2. Max(R(k)) \in R(k)
      <4>. HIDE DEF R
      <4>. QED  BY <2>2, <3>1, GreatestFacts
    <3>3. Max(R(k)) \in DOMAIN s /\ s[Max(R(k))].real
      BY <1>1, <3>2
    <3>. QED  BY <2>2, <3>3 DEF LastBalance, Balanced
  <2>. QED  BY <2>1, <2>2
<1>4. ASSUME NEW k \in 1 .. Len(s)
      PROVE  LastBalance(s, k) = IF s[k].real THEN s[k].balance ELSE LastBalance(s, k - 1)
  <2>1. CASE s[k].real
    <3>1. k \in R(k) /\ R(k) \in SUBSET (1 .. k) /\ k \in Nat
      BY <1>1, <2>1
    <3>2. Max(R(k)) \in R(k) /\ \A m \in R(k) : m <= Max(R(k))
      <4>. HIDE DEF R
      <4>. QED  BY <3>1, GreatestFacts
    <3>3. Max(R(k)) = k
      <4>1. \A m \in R(k) : m <= k /\ m \in Nat
        BY <3>1
      <4>. HIDE DEF R
      <4>. QED  BY <3>1, <3>2, <4>1
    <3>. QED  BY <2>1, <3>1, <3>3 DEF LastBalance
  <2>2. CASE ~s[k].real
    <3>1. R(k) = R(k - 1)
      BY <1>1, <2>2
    <3>. QED  BY <2>2, <3>1 DEF LastBalance
  <2>. QED  BY <2>1, <2>2
<1>5. ASSUME NEW k \in 1 .. Len(s)
      PROVE  Changed(s, k) \in Int /\ Changed(s, k) = LastBalance(s, k) - LastBalance(s, k - 1)
  <2>1. k - 1 \in 0 .. Len(s) /\ k \in 0 .. Len(s)
    BY <1>1
  <2>2. LastBalance(s, k) \in Nat /\ LastBalance(s, k - 1) \in Nat
    BY <1>3, <2>1
  <2>3. Changed(s, k) = IF ~s[k].real THEN 0 ELSE s[k].balance - LastBalance(s, k - 1)
    BY DEF Changed, LastBalance
  <2>. QED  BY <1>4, <2>2, <2>3
<1>. QED  BY <1>2, <1>3, <1>4, <1>5

\* What the first k rows changed is the balance they end with.
LEMMA ChangesAddUp ==
  ASSUME NEW s, Listed(s), Balanced(s), NEW w, \A k \in 1 .. Len(s) : w[k] = Changed(s, k)
  PROVE  \A k \in 0 .. Len(s) : SumFunctionOnSet(w, 1 .. k) = LastBalance(s, k)
<1>. DEFINE T == {k \in 0 .. Len(s) : SumFunctionOnSet(w, 1 .. k) = LastBalance(s, k)}
<1>1. Len(s) \in Nat
  BY ListedFacts
<1>2. \A k \in 1 .. Len(s) : w[k] \in Int /\ w[k] = LastBalance(s, k) - LastBalance(s, k - 1)
  BY LastBalanceFacts
<1>3. /\ SumFunctionOnSet(w, 1 .. 0) = 0
      /\ \A n \in 0 .. Len(s) : SumFunctionOnSet(w, 1 .. n) \in Int
      /\ \A n \in 1 .. Len(s) : SumFunctionOnSet(w, 1 .. n) = SumFunctionOnSet(w, 1 .. n - 1) + w[n]
  BY <1>1, <1>2, SumOfFirst
<1>4. 0 \in T
  BY <1>1, <1>3, LastBalanceFacts
<1>5. ASSUME NEW k \in 1 .. Len(s), k - 1 \in T PROVE k \in T
  <2>1. k - 1 \in 0 .. Len(s) /\ k \in 0 .. Len(s)
    BY <1>1
  <2>2. LastBalance(s, k) \in Nat /\ LastBalance(s, k - 1) \in Nat
    BY <2>1, LastBalanceFacts
  <2>. QED  BY <1>2, <1>3, <1>5, <2>1, <2>2
<1>. HIDE DEF T
<1>6. \A k \in 0 .. Len(s) : k \in T
  BY <1>1, <1>4, <1>5, StepByStep
<1>. QED  BY <1>6 DEF T

\* The rows until a day are the first few.
LEMMA FirstFew ==
  ASSUME NEW s, Listed(s), \A k \in DOMAIN s : s[k].day \in Nat \ {0},
         \A j, k \in DOMAIN s : j < k => s[j].day <= s[k].day, NEW d \in Nat
  PROVE  \E k \in 0 .. Len(s) : {n \in DOMAIN s : s[n].day \in 1 .. d} = 1 .. k
<1>. DEFINE D == {n \in DOMAIN s : s[n].day \in 1 .. d}
<1>1. Len(s) \in Nat /\ DOMAIN s = 1 .. Len(s)
  BY ListedFacts
<1>2. CASE D = {}
  <2>1. 1 .. 0 = {} /\ 0 \in 0 .. Len(s)
    BY <1>1
  <2>. QED  BY <1>2, <2>1
<1>3. CASE D # {}
  <2>1. D \in SUBSET (1 .. Len(s))
    BY <1>1
  <2>2. Max(D) \in D /\ \A k \in D : k <= Max(D)
    <3>. HIDE DEF D
    <3>. QED  BY <1>1, <1>3, <2>1, GreatestFacts
  <2>3. PICK k \in 1 .. Len(s) : k = Max(D) /\ s[k].day \in 1 .. d
    BY <1>1, <2>2
  <2>4. ASSUME NEW n \in 1 .. k PROVE n \in D
    <3>1. n \in DOMAIN s /\ k \in DOMAIN s /\ (n = k \/ n < k)
      BY <1>1, <2>3
    <3>2. s[n].day <= s[k].day /\ s[n].day \in Nat \ {0} /\ s[k].day \in Nat
      BY <2>3, <3>1
    <3>. QED  BY <2>3, <3>1, <3>2
  <2>5. \A n \in D : n \in 1 .. k
    BY <1>1, <2>2, <2>3
  <2>6. D = 1 .. k
    <3>. HIDE DEF D
    <3>. QED  BY <2>4, <2>5
  <2>7. k \in 0 .. Len(s)
    BY <1>1, <2>3
  <2>. QED  BY <2>6, <2>7
<1>. QED  BY <1>2, <1>3

AllDeeds == UNION {UNION {s[n] : n \in DOMAIN s} : s \in Scenario}
Magnitudes(deed, t) == SumFunction([m \in {x \in deed.moves : x.token = t} |-> Magnitude(m.amount)])

\* What is assumed of each deed that may happen.
LEMMA DeedFacts ==
  ASSUME NEW deed \in AllDeeds
  PROVE  /\ Possible(deed)
         /\ \A n \in 1 .. Units : deed.usd % n = 0
         /\ \A t \in Token : Magnitudes(deed, t) <= Units
<1>0. PICK s \in Scenario : \E n \in DOMAIN s : deed \in s[n]
  BY DEF AllDeeds
<1>1. PICK n \in DOMAIN s : deed \in s[n]
  BY <1>0
<1>2. Possible(deed)
  BY <1>1, ScenarioAssumption
<1>3. \A k \in 1 .. Units : deed.usd % k = 0
  BY <1>1, ScaleAssumption
<1>4. \A t \in Token : Magnitudes(deed, t) <= Units
  BY <1>1, ScaleAssumption DEF Magnitudes
<1>. QED  BY <1>2, <1>3, <1>4

IsRow(r) ==
  r = [account |-> r.account, token |-> r.token, balance |-> r.balance, hash |-> r.hash,
       day |-> r.day, at |-> r.at, peer |-> r.peer, usd |-> r.usd, real |-> r.real,
       changed |-> r.changed, class |-> r.class]

\* A row that stores a move of the n-th deed, and one of the server's sampling.
PeerOf(m, n) == IF m.peer = Address THEN <<n, "address">> ELSE m.peer
HashOf(m, n) ==
  <<KeyOf(m, n), IF m.token \notin Confidential THEN "" ELSE IF m.amount > 0 THEN "in" ELSE "out">>
Stores(r, m, n, deed) ==
  /\ m.account = r.account /\ m.token = r.token
  /\ r.hash = HashOf(m, n) /\ r.peer = PeerOf(m, n)
  /\ r.usd = IF deed.usd = 0 THEN Null ELSE deed.usd
SampleHash == <<<<0, "block">>, "">>
IsSample(r) == r.hash = SampleHash /\ r.peer = Nobody /\ r.usd = Null

\* Every real row stores a move of a deed that happened and changed the balance by its amount;
\* an account's rows of a token are in order, and store a deed once.
RowsOf(s, a, t, happened, today) ==
  /\ Listed(s)
  /\ \A k \in DOMAIN s :
       /\ IsRow(s[k]) /\ s[k].account = a /\ s[k].token = t
       /\ s[k].balance \in Int /\ s[k].day \in 1 .. today /\ s[k].real \in BOOLEAN
       /\ s[k].real => /\ s[k].balance >= 0
                       /\ \E n \in DOMAIN happened : \E m \in happened[n].moves :
                            Stores(s[k], m, n, happened[n]) /\ Changed(s, k) = m.amount
       /\ ~s[k].real => IsSample(s[k])
  /\ \A j, k \in DOMAIN s : j < k => s[j].day <= s[k].day
  /\ \A j, k \in DOMAIN s : s[j].real /\ s[k].real /\ s[j].hash[1][1] = s[k].hash[1][1] => j = k
\* What a deed did, it did on one day.
OneDay(rs) ==
  \A a, b \in Accounts, t, u \in Token : \A j \in DOMAIN rs[a][t], k \in DOMAIN rs[b][u] :
    rs[a][t][j].hash[1][1] = rs[b][u][k].hash[1][1] => rs[a][t][j].day = rs[b][u][k].day
Stored(rs, happened, today) ==
  /\ today \in Nat
  /\ Listed(happened) /\ \A n \in DOMAIN happened : happened[n] \in AllDeeds
  /\ rs = [a \in Accounts |-> [t \in Token |-> rs[a][t]]]
  /\ \A a \in Accounts, t \in Token : RowsOf(rs[a][t], a, t, happened, today)
  /\ OneDay(rs)

\* The settings number the accounts.
LEMMA AccountFacts ==
  /\ DOMAIN Account = 1 .. Len(Account) /\ Len(Account) \in Nat /\ IsFiniteSet(DOMAIN Account)
  /\ Account \in Bijection(DOMAIN Account, Accounts) /\ IsFiniteSet(Accounts)
<1>1. DOMAIN Account = 1 .. Len(Account) /\ Len(Account) \in Nat
  BY AccountAssumption
<1>2. IsFiniteSet(DOMAIN Account)
  BY <1>1, FS_Interval
<1>3. Account \in [DOMAIN Account -> Accounts]
  BY AccountAssumption
<1>4. \A a \in Accounts : \E n \in DOMAIN Account : Account[n] = a
  BY DEF Accounts, Range
<1>5. \A m, n \in DOMAIN Account : Account[m] = Account[n] => m = n
  BY AccountAssumption
<1>6. Account \in Bijection(DOMAIN Account, Accounts)
  BY <1>3, <1>4, <1>5 DEF Bijection, Injection, Surjection, IsInjective
<1>7. IsFiniteSet(Accounts)
  BY <1>2, <1>6, FS_Surjection DEF Bijection
<1>. QED  BY <1>1, <1>2, <1>6, <1>7

\* An account's rows are a sequence with balances of which no real one is negative.
LEMMA RowsBalanced ==
  ASSUME NEW s, NEW a, NEW t, NEW happened, NEW today, RowsOf(s, a, t, happened, today)
  PROVE  Listed(s) /\ Balanced(s) /\ DOMAIN s = 1 .. Len(s) /\ Len(s) \in Nat
BY ListedFacts DEF RowsOf, Balanced

\* The row at a place.
At(rs, t, p) == rs[Account[p[1]]][t][p[2]]

\* A place is the number of an account and of one of its rows.
LEMMA PlaceFacts ==
  ASSUME NEW rs, NEW t, NEW p
  PROVE  p \in Places(rs, t) <=> /\ p = <<p[1], p[2]>> /\ p[1] \in DOMAIN Account
                                 /\ p[2] \in DOMAIN rs[Account[p[1]]][t]
<1>1. ASSUME p \in Places(rs, t)
      PROVE  p = <<p[1], p[2]>> /\ p[1] \in DOMAIN Account /\ p[2] \in DOMAIN rs[Account[p[1]]][t]
  <2>1. PICK n \in DOMAIN Account : p \in {n} \X DOMAIN rs[Account[n]][t]
    BY <1>1 DEF Places
  <2>2. PICK k \in DOMAIN rs[Account[n]][t] : p = <<n, k>>
    BY <2>1
  <2>. QED  BY <2>2
<1>2. ASSUME p = <<p[1], p[2]>>, p[1] \in DOMAIN Account, p[2] \in DOMAIN rs[Account[p[1]]][t]
      PROVE  p \in Places(rs, t)
  <2>1. PICK n, k : n \in DOMAIN Account /\ n = p[1] /\ k = p[2] /\ k \in DOMAIN rs[Account[n]][t] /\ p = <<n, k>>
    BY <1>2
  <2>2. p \in {n} \X DOMAIN rs[Account[n]][t]
    BY <2>1
  <2>. QED  BY <2>1, <2>2 DEF Places
<1>. QED  BY <1>1, <1>2

\* There are finitely many places.
LEMMA PlacesFinite ==
  ASSUME NEW rs, NEW happened, NEW today, Stored(rs, happened, today), NEW t \in Token
  PROVE  IsFiniteSet(Places(rs, t)) /\ Places(rs, t) \subseteq Int \X Int
<1>. DEFINE box(n) == {n} \X DOMAIN rs[Account[n]][t]
            B == {box(n) : n \in DOMAIN Account}
            g == [n \in DOMAIN Account |-> box(n)]
<1>1. ASSUME NEW n \in DOMAIN Account
      PROVE  /\ IsFiniteSet(box(n)) /\ DOMAIN rs[Account[n]][t] \subseteq Int
  <2>1. Account[n] \in Accounts
    BY AccountFacts DEF Bijection, Injection
  <2>2. RowsOf(rs[Account[n]][t], Account[n], t, happened, today)
    BY <2>1 DEF Stored
  <2>3. DOMAIN rs[Account[n]][t] = 1 .. Len(rs[Account[n]][t]) /\ Len(rs[Account[n]][t]) \in Nat
    BY <2>2, RowsBalanced
  <2>4. IsFiniteSet(DOMAIN rs[Account[n]][t])
    <3>1. PICK m \in Nat : m = Len(rs[Account[n]][t]) /\ DOMAIN rs[Account[n]][t] = 1 .. m
      BY <2>3
    <3>2. IsFiniteSet(1 .. m)
      BY FS_Interval
    <3>. QED  BY <3>1, <3>2
  <2>5. IsFiniteSet({n})
    BY FS_Singleton
  <2>. QED  BY <2>3, <2>4, <2>5, FS_Product
<1>2. IsFiniteSet(B)
  <2>. HIDE DEF box
  <2>1. g \in Surjection(DOMAIN Account, B)
    BY DEF Surjection
  <2>. HIDE DEF g, B
  <2>. QED  BY <2>1, AccountFacts, FS_Surjection
<1>3. \A b \in B : IsFiniteSet(b)
  <2>. HIDE DEF box
  <2>. QED  BY <1>1
<1>4. Places(rs, t) = UNION B
  BY DEF Places
<1>5. IsFiniteSet(Places(rs, t))
  <2>. HIDE DEF B
  <2>. QED  BY <1>2, <1>3, <1>4, FS_UNION
<1>6. \A p \in Places(rs, t) : p \in Int \X Int
  <2>. SUFFICES ASSUME NEW p \in Places(rs, t) PROVE p \in Int \X Int
    OBVIOUS
  <2>1. p = <<p[1], p[2]>> /\ p[1] \in DOMAIN Account /\ p[2] \in DOMAIN rs[Account[p[1]]][t]
    BY PlaceFacts
  <2>2. p[1] \in Int
    BY <2>1, AccountFacts
  <2>3. p[2] \in Int
    BY <1>1, <2>1
  <2>. QED  BY <2>1, <2>2, <2>3
<1>. QED  BY <1>5, <1>6

\* What a pass has at a place comes from the row stored there: the report changes the class and
\* the change, nothing else.
LEMMA PassAt ==
  ASSUME NEW rs, NEW happened, NEW today, Stored(rs, happened, today), NEW t \in Token,
         NEW p \in Places(rs, t), NEW a, a = Account[p[1]], NEW s, s = rs[a][t], NEW k, k = p[2]
  PROVE  /\ a \in Accounts /\ k \in DOMAIN s /\ k \in 1 .. Len(s) /\ RowsOf(s, a, t, happened, today)
         /\ Changed(s, k) \in Int /\ (~s[k].real => Changed(s, k) = 0)
         /\ Pass(rs, t)[p].changed = Changed(s, k)
         /\ Pass(rs, t)[p].day = s[k].day /\ Pass(rs, t)[p].hash = s[k].hash
         /\ Pass(rs, t)[p].peer = s[k].peer /\ Pass(rs, t)[p].usd = s[k].usd
         /\ Pass(rs, t)[p].class \in {"moved", "received", "expense"}
         /\ Pass(rs, t)[p].class = "received" => Changed(s, k) > 0 /\ s[k].peer \notin StakingPool
         /\ Pass(rs, t)[p].class = "expense" => Changed(s, k) < 0 /\ s[k].peer \notin StakingPool
<1>1. a \in Accounts /\ k \in DOMAIN s
  <2>1. p[1] \in DOMAIN Account /\ p[2] \in DOMAIN rs[Account[p[1]]][t]
    BY PlaceFacts
  <2>. QED  BY <2>1, AccountFacts DEF Bijection, Injection
<1>2. RowsOf(s, a, t, happened, today)
  BY <1>1 DEF Stored
<1>3. k \in 1 .. Len(s) /\ Listed(s) /\ Balanced(s)
  BY <1>1, <1>2, RowsBalanced
<1>4. Changed(s, k) \in Int
  BY ONLY <1>3, LastBalanceFacts
<1>5. ~s[k].real => Changed(s, k) = 0
  BY ONLY <1>1 DEF Changed
<1>6. IsRow(s[k])
  BY ONLY <1>1, <1>2 DEF RowsOf
<1>7. PICK r : r = DeriveChangedBalance(s, k)
  OBVIOUS
<1>8. PICK x : x = s[k]
  BY ONLY <1>1
<1>9. r = [account |-> x.account, token |-> x.token, balance |-> x.balance, hash |-> x.hash,
       day |-> x.day, at |-> x.at, peer |-> x.peer, usd |-> x.usd, real |-> x.real,
       changed |-> Changed(s, k), class |-> x.class]
  BY ONLY <1>6, <1>7, <1>8 DEF DeriveChangedBalance, IsRow
<1>10. Pass(rs, t)[p] = [r EXCEPT !.class = Class(rs, r)]
  BY <1>7 DEF Pass
<1>11. PICK c : c = Class(rs, r)
  OBVIOUS
<1>12. Pass(rs, t)[p] = [account |-> x.account, token |-> x.token, balance |-> x.balance, hash |-> x.hash,
       day |-> x.day, at |-> x.at, peer |-> x.peer, usd |-> x.usd, real |-> x.real,
       changed |-> Changed(s, k), class |-> c]
  BY <1>9, <1>10, <1>11
<1>13. /\ c \in {"moved", "received", "expense"}
       /\ c = "received" => r.changed > 0 /\ r.peer \notin StakingPool
       /\ c = "expense" => r.changed < 0 /\ r.peer \notin StakingPool
  BY <1>11 DEF Class
<1>14. r.changed = Changed(s, k) /\ r.peer = x.peer
  BY <1>9
<1>15. PICK row : row = Pass(rs, t)[p]
  OBVIOUS
<1>16. /\ row.changed = Changed(s, k) /\ row.day = x.day /\ row.hash = x.hash /\ row.peer = x.peer
       /\ row.usd = x.usd /\ row.class = c
  BY <1>12, <1>15
<1>. QED  BY <1>1, <1>2, <1>3, <1>4, <1>5, <1>8, <1>13, <1>14, <1>15, <1>16

\* A row's hash begins with its deed, and its counterparty is a pool if the move's is.
LEMMA HashFacts ==
  ASSUME NEW m, NEW n \in Nat
  PROVE  /\ HashOf(m, n)[1] = KeyOf(m, n) /\ HashOf(m, n)[1][1] = n
         /\ PeerOf(m, n) \in StakingPool <=> m.peer \in StakingPool
<1>1. HashOf(m, n)[1] = KeyOf(m, n) /\ KeyOf(m, n)[1] = n
  BY DEF HashOf, KeyOf
<1>2. <<n, "address">> \in Nat \X {"address"}
  OBVIOUS
<1>3. <<n, "address">> \notin StakingPool /\ Address \notin StakingPool
  BY <1>2, ScenarioAssumption
<1>. QED  BY <1>1, <1>3 DEF PeerOf

\* Behind a row there is a move of a deed, or a sample.
OfMove(r, happened, n, m, changed) ==
  /\ r.real /\ n \in DOMAIN happened /\ n \in Nat \ {0} /\ r.hash[1][1] = n
  /\ happened[n] \in AllDeeds /\ m \in happened[n].moves
  /\ Stores(r, m, n, happened[n]) /\ changed = m.amount
IsBehind(r, happened, changed) ==
  \/ \E n, m : OfMove(r, happened, n, m, changed)
  \/ ~r.real /\ IsSample(r) /\ r.hash[1][1] = 0 /\ r.peer \notin StakingPool

\* Behind every row is a move or a sample.
LEMMA RowFacts ==
  ASSUME NEW rs, NEW happened, NEW today, Stored(rs, happened, today), NEW a \in Accounts, NEW t \in Token,
         NEW k \in DOMAIN rs[a][t]
  PROVE  IsBehind(rs[a][t][k], happened, Changed(rs[a][t], k))
<1>. DEFINE r == rs[a][t][k]
<1>0. SampleHash[1][1] = 0
  <2>1. SampleHash[1] = <<0, "block">>
    BY DEF SampleHash
  <2>. QED  BY <2>1
<1>1. RowsOf(rs[a][t], a, t, happened, today)
  BY DEF Stored
<1>2. DOMAIN happened = 1 .. Len(happened) /\ Len(happened) \in Nat
  BY ListedFacts DEF Stored
<1>3. CASE r.real
  <2>1. PICK n \in DOMAIN happened : \E m \in happened[n].moves :
             Stores(r, m, n, happened[n]) /\ Changed(rs[a][t], k) = m.amount
    BY <1>1, <1>3 DEF RowsOf
  <2>2. PICK m \in happened[n].moves : Stores(r, m, n, happened[n]) /\ Changed(rs[a][t], k) = m.amount
    BY <2>1
  <2>3. n \in Nat \ {0} /\ happened[n] \in AllDeeds
    BY <1>2 DEF Stored
  <2>4. r.hash[1][1] = n
    BY <2>2, <2>3, HashFacts DEF Stores
  <2>. QED  BY <1>3, <2>2, <2>3, <2>4 DEF OfMove, IsBehind
<1>4. CASE ~r.real
  <2>1. IsSample(r)
    BY <1>1, <1>4 DEF RowsOf
  <2>2. r.peer \notin StakingPool /\ r.hash[1][1] = 0
    BY <1>0, <2>1, ScenarioAssumption DEF IsSample
  <2>. QED  BY <1>4, <2>1, <2>2 DEF IsBehind
<1>. QED  BY <1>3, <1>4

\* Of the rows of one hash, all or none are with a pool.
LEMMA PoolsTogether ==
  ASSUME NEW happened, NEW r, NEW q, NEW n, NEW m, NEW o, NEW x, NEW y,
         OfMove(r, happened, n, m, x), OfMove(q, happened, n, o, y),
         r.token = q.token, r.hash = q.hash
  PROVE  r.peer \in StakingPool <=> q.peer \in StakingPool
<1>1. n \in Nat /\ Possible(happened[n]) /\ m \in happened[n].moves /\ o \in happened[n].moves
  BY DeedFacts DEF OfMove
<1>2. (r.peer \in StakingPool <=> m.peer \in StakingPool) /\ (q.peer \in StakingPool <=> o.peer \in StakingPool)
  BY <1>1, HashFacts DEF OfMove, Stores
<1>3. m.token = r.token /\ o.token = q.token /\ HashOf(m, n)[1] = HashOf(o, n)[1]
  BY DEF OfMove, Stores
<1>4. CASE r.token \in Confidential
  <2>1. m.token # Near /\ o.token # Near
    BY <1>3, <1>4, ScenarioAssumption
  <2>2. m.peer \notin StakingPool /\ o.peer \notin StakingPool
    BY <1>1, <2>1 DEF Possible
  <2>. QED  BY <1>2, <2>2
<1>5. CASE r.token \notin Confidential
  <2>1. <<n, m.part>> = <<n, o.part>>
    BY <1>1, <1>3, <1>5, HashFacts DEF KeyOf
  <2>2. m.part = o.part /\ m.token = o.token
    BY <1>3, <2>1
  <2>3. m.peer \in StakingPool <=> o.peer \in StakingPool
    BY <1>1, <2>2 DEF Possible
  <2>. QED  BY <1>2, <2>3
<1>. QED  BY <1>4, <1>5

\* Rows of one deed are of one day.
LEMMA OneDayAt ==
  ASSUME NEW rs, OneDay(rs), NEW a \in Accounts, NEW b \in Accounts, NEW t \in Token, NEW u \in Token,
         NEW j \in DOMAIN rs[a][t], NEW k \in DOMAIN rs[b][u],
         rs[a][t][j].hash[1][1] = rs[b][u][k].hash[1][1]
  PROVE  rs[a][t][j].day = rs[b][u][k].day
BY DEF OneDay

\* The rows of a token make a pass.
LEMMA PassIs ==
  ASSUME NEW rs, NEW happened, NEW today, Stored(rs, happened, today), NEW t \in Token
  PROVE  IsPass(Pass(rs, t)) /\ DOMAIN Pass(rs, t) = Places(rs, t)
<1>. DEFINE pass == Pass(rs, t)
<1>1. DOMAIN pass = Places(rs, t)
  BY DEF Pass
<1>2. IsFiniteSet(DOMAIN pass) /\ DOMAIN pass \subseteq Int \X Int
  BY <1>1, PlacesFinite
<1>3. ASSUME NEW p \in DOMAIN pass
      PROVE  /\ pass[p].changed \in Int /\ pass[p].day \in Int /\ pass[p].usd \in Int
             /\ pass[p].class \in {"moved", "received", "expense"}
             /\ pass[p].class = "received" => pass[p].changed > 0 /\ pass[p].peer \notin StakingPool
             /\ pass[p].class = "expense" => pass[p].changed < 0 /\ pass[p].peer \notin StakingPool
  <2>1. p \in Places(rs, t)
    BY <1>1
  <2>2. PICK a, s, k : a = Account[p[1]] /\ s = rs[a][t] /\ k = p[2]
    OBVIOUS
  <2>3. /\ a \in Accounts /\ k \in DOMAIN s /\ RowsOf(s, a, t, happened, today)
        /\ Changed(s, k) \in Int
        /\ pass[p].changed = Changed(s, k) /\ pass[p].day = s[k].day
        /\ pass[p].peer = s[k].peer /\ pass[p].usd = s[k].usd
        /\ pass[p].class \in {"moved", "received", "expense"}
        /\ pass[p].class = "received" => Changed(s, k) > 0 /\ s[k].peer \notin StakingPool
        /\ pass[p].class = "expense" => Changed(s, k) < 0 /\ s[k].peer \notin StakingPool
    BY <2>1, <2>2, PassAt
  <2>4. s[k].day \in Int
    BY <2>3 DEF RowsOf
  <2>5. s[k].usd \in Int
    <3>1. CASE \E n, m : OfMove(s[k], happened, n, m, Changed(s, k))
      <4>1. PICK n, m : OfMove(s[k], happened, n, m, Changed(s, k))
        BY <3>1
      <4>2. Possible(happened[n])
        BY <4>1, DeedFacts DEF OfMove
      <4>. QED  BY <4>1, <4>2 DEF OfMove, Stores, Possible, Null
    <3>2. CASE IsSample(s[k])
      BY ONLY <3>2 DEF IsSample, Null
    <3>3. IsBehind(s[k], happened, Changed(s, k))
      BY <2>2, <2>3, RowFacts
    <3>. QED  BY <3>1, <3>2, <3>3 DEF IsBehind
  <2>. HIDE DEF pass
  <2>. QED  BY <2>3, <2>4, <2>5
<1>4. ASSUME NEW p \in DOMAIN pass, NEW q \in DOMAIN pass, pass[p].hash = pass[q].hash
      PROVE  pass[p].day = pass[q].day /\ (pass[p].peer \in StakingPool <=> pass[q].peer \in StakingPool)
  <2>1. p \in Places(rs, t) /\ q \in Places(rs, t)
    BY <1>1
  <2>2. PICK a, s, k, b, u, j : /\ a = Account[p[1]] /\ s = rs[a][t] /\ k = p[2]
                                /\ b = Account[q[1]] /\ u = rs[b][t] /\ j = q[2]
    OBVIOUS
  <2>3. /\ a \in Accounts /\ k \in DOMAIN s /\ RowsOf(s, a, t, happened, today)
        /\ pass[p].day = s[k].day /\ pass[p].peer = s[k].peer /\ pass[p].hash = s[k].hash
    BY <2>1, <2>2, PassAt
  <2>4. /\ b \in Accounts /\ j \in DOMAIN u /\ RowsOf(u, b, t, happened, today)
        /\ pass[q].day = u[j].day /\ pass[q].peer = u[j].peer /\ pass[q].hash = u[j].hash
    BY <2>1, <2>2, PassAt
  <2>5. s[k].hash = u[j].hash
    BY <1>4, <2>3, <2>4
  <2>6. s[k].day = u[j].day
    <3>1. OneDay(rs) /\ s[k].hash[1][1] = u[j].hash[1][1]
      BY ONLY <2>5, Stored(rs, happened, today) DEF Stored
    <3>2. rs[a][t][k].hash[1][1] = rs[b][t][j].hash[1][1] /\ k \in DOMAIN rs[a][t] /\ j \in DOMAIN rs[b][t]
      BY <2>2, <2>3, <2>4, <3>1
    <3>3. rs[a][t][k].day = rs[b][t][j].day
      BY <2>3, <2>4, <3>1, <3>2, OneDayAt
    <3>. QED  BY <2>2, <3>3
  <2>7. IsBehind(s[k], happened, Changed(s, k))
    BY <2>2, <2>3, RowFacts
  <2>8. IsBehind(u[j], happened, Changed(u, j))
    BY <2>2, <2>4, RowFacts
  <2>9. s[k].token = u[j].token
    BY <2>3, <2>4 DEF RowsOf
  <2>10. s[k].peer \in StakingPool <=> u[j].peer \in StakingPool
    <3>1. CASE \E n, m : OfMove(s[k], happened, n, m, Changed(s, k))
      <4>1. PICK n, m : OfMove(s[k], happened, n, m, Changed(s, k))
        BY <3>1
      <4>2. n # 0 /\ u[j].hash[1][1] = n
        BY <2>5, <4>1 DEF OfMove
      <4>3. PICK n2, o : OfMove(u[j], happened, n2, o, Changed(u, j))
        BY <2>8, <4>2 DEF IsBehind
      <4>4. n2 = n
        BY <4>2, <4>3 DEF OfMove
      <4>. QED  BY <2>5, <2>9, <4>1, <4>3, <4>4, PoolsTogether
    <3>2. CASE s[k].hash[1][1] = 0 /\ s[k].peer \notin StakingPool
      <4>1. ~\E n, m : OfMove(u[j], happened, n, m, Changed(u, j))
        BY <2>5, <3>2 DEF OfMove
      <4>. QED  BY <2>8, <3>2, <4>1 DEF IsBehind
    <3>. QED  BY <2>7, <3>1, <3>2 DEF IsBehind
  <2>. HIDE DEF pass
  <2>. QED  BY <2>3, <2>4, <2>6, <2>10
<1>. HIDE DEF pass
<1>5. IsPass(pass)
  BY <1>2, <1>3, <1>4 DEF IsPass
<1>. QED  BY <1>1, <1>5 DEF pass

ReportOf(rs) == [t \in Token |-> Pass(rs, t)]

\* Nothing is known of a transaction but its marks, which are scaled as prices are.
LEMMA PassesAre ==
  ASSUME NEW rs, NEW happened, NEW today, Stored(rs, happened, today)
  PROVE  Passes(ReportOf(rs))
<1>. SUFFICES ASSUME NEW t \in Token, NEW p \in DOMAIN Pass(rs, t), NEW n \in Scales
              PROVE  Valued(n, Pass(rs, t)[p].usd)
  BY PassIs DEF Passes, ReportOf
<1>1. PICK a, s, k : a = Account[p[1]] /\ s = rs[a][t] /\ k = p[2]
  OBVIOUS
<1>2. p \in Places(rs, t)
  BY PassIs
<1>3. a \in Accounts /\ k \in DOMAIN s /\ Pass(rs, t)[p].usd = s[k].usd
  BY <1>1, <1>2, PassAt
<1>4. IsBehind(s[k], happened, Changed(s, k))
  BY <1>1, <1>3, RowFacts
<1>5. CASE IsSample(s[k])
  BY <1>3, <1>5 DEF IsSample, Valued
<1>6. CASE \E j, m : OfMove(s[k], happened, j, m, Changed(s, k))
  <2>1. PICK j, m : OfMove(s[k], happened, j, m, Changed(s, k))
    BY <1>6
  <2>2. PICK deed \in AllDeeds : deed = happened[j]
    BY <2>1 DEF OfMove
  <2>3. s[k].usd = IF deed.usd = 0 THEN Null ELSE deed.usd
    BY <2>1, <2>2 DEF OfMove, Stores
  <2>4. deed.usd \in Nat /\ \A i \in 1 .. Units : deed.usd % i = 0
    BY DeedFacts DEF Possible
  <2>5. Multiple(n, deed.usd)
    <3>1. CASE n = 1
      <4>1. deed.usd = deed.usd * 1
        BY <2>4
      <4>. QED  BY <2>4, <3>1, <4>1 DEF Multiple
    <3>2. CASE n # 1
      <4>1. n \in 1 .. Units /\ n \in Nat \ {0}
        BY <3>2, ScaleAssumption DEF Scales
      <4>2. deed.usd % n = 0
        BY <2>4, <4>1
      <4>. QED  BY <2>4, <4>1, <4>2, MultipleOfRest
    <3>. QED  BY <3>1, <3>2
  <2>. QED  BY <1>3, <2>3, <2>5 DEF Valued
<1>. QED  BY <1>4, <1>5, <1>6 DEF IsBehind

\* The price of every deed that happened is known, if only as none.
LEMMA PricesAreKnown ==
  ASSUME NEW rs, NEW happened, NEW today, Stored(rs, happened, today),
         NEW prices, \A n \in DOMAIN happened : prices[n] \in Nat
  PROVE  PricesKnown(ReportOf(rs), prices)
<1>. SUFFICES ASSUME NEW t \in Token, NEW p \in DOMAIN Pass(rs, t)
              PROVE  PriceOf(prices, Pass(rs, t)[p].hash) \in Int
  BY DEF PricesKnown, ReportOf
<1>1. PICK a, s, k : a = Account[p[1]] /\ s = rs[a][t] /\ k = p[2]
  OBVIOUS
<1>2. p \in Places(rs, t)
  BY PassIs
<1>3. a \in Accounts /\ k \in DOMAIN s /\ Pass(rs, t)[p].hash = s[k].hash
  BY <1>1, <1>2, PassAt
<1>4. IsBehind(s[k], happened, Changed(s, k))
  BY <1>1, <1>3, RowFacts
<1>5. s[k].hash[1][1] = 0 \/ s[k].hash[1][1] \in DOMAIN happened
  BY <1>4 DEF IsBehind, OfMove
<1>. QED  BY <1>3, <1>5 DEF PriceOf, SwapKeyForHash, NoPrice

\* Each row of a flow stores another move of its deed, so a flow moves no more than the deed.
LEMMA FlowsBounded ==
  ASSUME NEW rs, NEW happened, NEW today, Stored(rs, happened, today)
  PROVE  Bounded(ReportOf(rs))
<1>. SUFFICES ASSUME NEW t \in Token, NEW p \in DOMAIN Pass(rs, t)
              PROVE  Magnitude(Total(Pass(rs, t), "moved", Together(Pass(rs, t), p))) <= Units
  BY DEF Bounded, ReportOf
<1>1. PICK pass : pass = Pass(rs, t)
  OBVIOUS
<1>2. IsPass(pass) /\ DOMAIN pass = Places(rs, t) /\ p \in DOMAIN pass
  BY <1>1, PassIs
<1>3. PICK G \in SUBSET DOMAIN pass : G = Together(pass, p) /\ \A q \in G : pass[q].hash = pass[p].hash
  <2>1. Together(pass, p) \in SUBSET DOMAIN pass /\ \A q \in Together(pass, p) : pass[q].hash = pass[p].hash
    BY DEF Together
  <2>. QED  BY <2>1
<1>4. IsFiniteSet(G) /\ p \in G
  BY <1>2, <1>3, FS_Subset DEF IsPass, Together
<1>. DEFINE w == Part(pass, "moved")
            v == [q \in G |-> Magnitude(pass[q].changed)]
<1>5. Total(pass, "moved", G) = SumFunctionOnSet(w, G)
  BY <1>2, TotalIs
<1>6. \A q \in G : pass[q].changed \in Int /\ v[q] = Magnitude(pass[q].changed) /\ v[q] \in Nat
                   /\ w[q] \in Int /\ w[q] <= v[q] /\ -v[q] <= w[q]
  <2>. SUFFICES ASSUME NEW q \in G
                PROVE  pass[q].changed \in Int /\ v[q] = Magnitude(pass[q].changed) /\ v[q] \in Nat
                       /\ w[q] \in Int /\ w[q] <= v[q] /\ -v[q] <= w[q]
    OBVIOUS
  <2>1. pass[q].changed \in Int /\ v[q] = Magnitude(pass[q].changed)
    BY <1>2 DEF IsPass
  <2>2. w[q] = pass[q].changed \/ w[q] = 0
    BY DEF Part
  <2>. HIDE DEF w, v
  <2>. QED  BY <2>1, <2>2 DEF Magnitude
<1>. HIDE DEF w, v
<1>7. /\ SumFunctionOnSet(w, G) \in Int /\ SumFunctionOnSet(v, G) \in Int
      /\ SumFunctionOnSet(w, G) <= SumFunctionOnSet(v, G)
      /\ -SumFunctionOnSet(v, G) <= SumFunctionOnSet(w, G)
  <2>1. \A q \in G : w[q] \in Int /\ v[q] \in Int /\ w[q] <= v[q] /\ -v[q] <= w[q]
    BY <1>6
  <2>. QED  BY <1>4, <2>1, SumBetween
<1>8. \A q \in G : /\ Account[q[1]] \in Accounts /\ q[2] \in DOMAIN rs[Account[q[1]]][t]
                   /\ RowsOf(rs[Account[q[1]]][t], Account[q[1]], t, happened, today)
                   /\ pass[q].changed = Changed(rs[Account[q[1]]][t], q[2])
                   /\ pass[q].hash = At(rs, t, q).hash
                   /\ IsBehind(At(rs, t, q), happened, pass[q].changed)
  <2>. SUFFICES ASSUME NEW q \in G
                PROVE  /\ Account[q[1]] \in Accounts /\ q[2] \in DOMAIN rs[Account[q[1]]][t]
                       /\ RowsOf(rs[Account[q[1]]][t], Account[q[1]], t, happened, today)
                       /\ pass[q].changed = Changed(rs[Account[q[1]]][t], q[2])
                       /\ pass[q].hash = At(rs, t, q).hash
                       /\ IsBehind(At(rs, t, q), happened, pass[q].changed)
    OBVIOUS
  <2>1. q \in Places(rs, t)
    BY <1>2
  <2>2. PICK a, s, k : a = Account[q[1]] /\ s = rs[a][t] /\ k = q[2]
    OBVIOUS
  <2>3. /\ a \in Accounts /\ k \in DOMAIN s /\ RowsOf(s, a, t, happened, today)
        /\ pass[q].changed = Changed(s, k) /\ pass[q].hash = s[k].hash
    BY <1>1, <2>1, <2>2, PassAt
  <2>4. IsBehind(s[k], happened, Changed(s, k))
    BY <2>2, <2>3, RowFacts
  <2>. QED  BY <2>2, <2>3, <2>4 DEF At
<1>9. PICK n : n = pass[p].hash[1][1]
  OBVIOUS
<1>10. \A q \in G : At(rs, t, q).hash[1][1] = n
  BY <1>3, <1>8, <1>9
<1>11. CASE n = 0
  <2>1. \A q \in G : v[q] = 0
    <3>. SUFFICES ASSUME NEW q \in G PROVE v[q] = 0
      OBVIOUS
    <3>1. ~At(rs, t, q).real
      BY ONLY <1>8, <1>10, <1>11 DEF IsBehind, OfMove
    <3>2. pass[q].changed = 0
      BY <1>8, <3>1, Zenon DEF Changed, At
    <3>. QED  BY <1>6, <3>2 DEF Magnitude
  <2>2. SumFunctionOnSet(v, G) = 0
    BY <1>4, <2>1, SumZero
  <2>3. SumFunctionOnSet(w, G) = 0
    BY <1>7, <2>2
  <2>. QED  BY <1>1, <1>3, <1>5, <2>3, ScaleAssumption DEF Magnitude
<1>12. CASE n # 0
  <2>1. \A q \in G : \E m : OfMove(At(rs, t, q), happened, n, m, pass[q].changed)
    BY <1>8, <1>10, <1>12 DEF IsBehind, OfMove
  <2>2. PICK deed : deed = happened[n]
    OBVIOUS
  <2>. DEFINE M == {x \in deed.moves : x.token = t}
              y == [m \in M |-> Magnitude(m.amount)]
              g == [q \in G |-> CHOOSE m : OfMove(At(rs, t, q), happened, n, m, pass[q].changed)]
  <2>3. \A q \in G : OfMove(At(rs, t, q), happened, n, g[q], pass[q].changed)
    BY <2>1
  <2>4. deed \in AllDeeds
    BY <1>4, <2>2, <2>3 DEF OfMove
  <2>5. IsFiniteSet(M) /\ (\A m \in M : m.amount \in Int /\ y[m] = Magnitude(m.amount) /\ y[m] \in Nat)
        /\ SumFunctionOnSet(y, M) <= Units
    <3>1. Possible(deed) /\ Magnitudes(deed, t) <= Units
      BY <2>4, DeedFacts
    <3>2. IsFiniteSet(deed.moves) /\ M \in SUBSET deed.moves
      BY <3>1 DEF Possible
    <3>3. IsFiniteSet(M)
      <4>. HIDE DEF M
      <4>. QED  BY <3>2, FS_Subset
    <3>4. Magnitudes(deed, t) = SumFunctionOnSet(y, M)
      BY DEF Magnitudes, SumFunction
    <3>5. \A m \in M : m.amount \in Int /\ y[m] = Magnitude(m.amount)
      BY ONLY <3>1 DEF Possible
    <3>. HIDE DEF M, y
    <3>. QED  BY <3>1, <3>3, <3>4, <3>5 DEF Magnitude
  <2>. HIDE DEF y
  <2>6. \A q \in G : At(rs, t, q).token = t /\ At(rs, t, q).account = Account[q[1]]
    BY <1>8 DEF RowsOf, At
  <2>7. \A q \in G : g[q] \in M /\ g[q].account = Account[q[1]] /\ g[q].amount = pass[q].changed
    <3>. SUFFICES ASSUME NEW q \in G
                  PROVE  g[q] \in M /\ g[q].account = Account[q[1]] /\ g[q].amount = pass[q].changed
      OBVIOUS
    <3>. HIDE DEF g
    <3>. QED  BY <2>2, <2>3, <2>6 DEF OfMove, Stores
  <2>8. g \in [G -> M]
    BY <2>7
  <2>9. \A q \in G : q \in Places(rs, t) /\ q = <<q[1], q[2]>> /\ q[1] \in DOMAIN Account
    BY <1>2, PlaceFacts
  <2>10. \A q, r \in G : g[q] = g[r] => q = r
    <3>. SUFFICES ASSUME NEW q \in G, NEW r \in G, g[q] = g[r] PROVE q = r
      OBVIOUS
    <3>. HIDE DEF g, M
    <3>1. Account[q[1]] = Account[r[1]]
      BY <2>7
    <3>2. q[1] = r[1]
      BY <2>9, <3>1, AccountAssumption
    <3>3. PICK s, j, k : s = rs[Account[q[1]]][t] /\ j = q[2] /\ k = r[2]
      OBVIOUS
    <3>4. /\ RowsOf(s, Account[q[1]], t, happened, today) /\ j \in DOMAIN s /\ k \in DOMAIN s
          /\ s[j] = At(rs, t, q) /\ s[k] = At(rs, t, r)
      BY <1>8, <3>2, <3>3 DEF At
    <3>5. s[j].real /\ s[k].real /\ s[j].hash[1][1] = s[k].hash[1][1]
      BY <1>10, <2>3, <3>4 DEF OfMove
    <3>6. j = k
      BY <3>4, <3>5 DEF RowsOf
    <3>. QED  BY <2>9, <3>2, <3>3, <3>6
  <2>11. \A q \in G : v[q] = y[g[q]]
    BY ONLY <1>6, <2>5, <2>7
  <2>. HIDE DEF g, M
  <2>12. SumFunctionOnSet(v, G) \in Nat /\ SumFunctionOnSet(v, G) <= SumFunctionOnSet(y, M)
    BY <1>4, <2>5, <2>8, <2>10, <2>11, SumInjected
  <2>13. SumFunctionOnSet(y, M) \in Nat /\ Units \in Nat
    BY <2>5, SumNat, ScaleAssumption
  <2>14. Magnitude(SumFunctionOnSet(w, G)) <= Units
    BY <1>7, <2>5, <2>12, <2>13 DEF Magnitude
  <2>. QED  BY <1>1, <1>3, <1>5, <2>14
<1>. QED  BY <1>11, <1>12

RowsUntil(pass, d) == {p \in DOMAIN pass : pass[p].day \in 1 .. d}
InPoolsUntil(pass, d) == {p \in DOMAIN pass : pass[p].day \in 1 .. d /\ pass[p].peer \in StakingPool}
StakedUntil(pass, d) == SumFunctionOnSet(ChangeOf(pass), InPoolsUntil(pass, d))
HeldOf(s) == LastBalance(s, Len(s))
HeldInAll(rs, t) == SumFunctionOnSet([a \in Accounts |-> HeldOf(rs[a][t])], Accounts)

\* What an account's rows of a token changed until a day is what it held at the end of the day.
LEMMA AccountUntil ==
  ASSUME NEW rs, NEW happened, NEW today, Stored(rs, happened, today), NEW t \in Token, NEW d \in Nat,
         NEW pass, pass = Pass(rs, t), NEW n \in DOMAIN Account,
         NEW G, G = {p \in RowsUntil(pass, d) : p[1] = n}
  PROVE  /\ SumFunctionOnSet(ChangeOf(pass), G) \in Nat
         /\ today <= d => SumFunctionOnSet(ChangeOf(pass), G) = HeldOf(rs[Account[n]][t])
<1>1. PICK a, s : a = Account[n] /\ s = rs[a][t]
  OBVIOUS
<1>2. a \in Accounts
  BY <1>1, AccountFacts DEF Bijection, Injection
<1>3. RowsOf(s, a, t, happened, today) /\ today \in Nat
  BY <1>1, <1>2 DEF Stored
<1>4. Listed(s) /\ Balanced(s) /\ DOMAIN s = 1 .. Len(s) /\ Len(s) \in Nat
  BY <1>3, RowsBalanced
<1>5. /\ \A k \in DOMAIN s : s[k].day \in Nat \ {0} /\ s[k].day <= today
      /\ \A j, k \in DOMAIN s : j < k => s[j].day <= s[k].day
  BY <1>3 DEF RowsOf
<1>6. PICK k \in 0 .. Len(s) : {j \in DOMAIN s : s[j].day \in 1 .. d} = 1 .. k
  BY <1>4, <1>5, FirstFew
<1>7. DOMAIN pass = Places(rs, t)
  BY PassIs
<1>. DEFINE w == [j \in 1 .. Len(s) |-> Changed(s, j)]
            g == [j \in 1 .. k |-> <<n, j>>]
            c == ChangeOf(pass)
<1>8. \A j \in 1 .. k : j \in DOMAIN s /\ s[j].day \in 1 .. d
  BY <1>6
<1>9. ASSUME NEW p \in Places(rs, t), p[1] = n
      PROVE  p = <<n, p[2]>> /\ p[2] \in DOMAIN s /\ pass[p].day = s[p[2]].day /\ c[p] = Changed(s, p[2])
  <2>1. p = <<n, p[2]>> /\ p[2] \in DOMAIN s
    BY <1>1, <1>9, PlaceFacts
  <2>2. PICK j : j = p[2]
    OBVIOUS
  <2>3. pass[p].day = s[j].day /\ pass[p].changed = Changed(s, j)
    BY <1>1, <1>9, <2>2, PassAt
  <2>4. c[p] = pass[p].changed
    BY <1>7 DEF ChangeOf
  <2>. QED  BY <2>1, <2>2, <2>3, <2>4
<1>10. ASSUME NEW j \in 1 .. k PROVE g[j] \in G /\ c[g[j]] = Changed(s, j)
  <2>1. g[j] = <<n, j>> /\ g[j][1] = n /\ g[j][2] = j
    OBVIOUS
  <2>2. g[j] \in Places(rs, t)
    BY <1>1, <1>8, <2>1, PlaceFacts
  <2>3. pass[g[j]].day = s[j].day /\ c[g[j]] = Changed(s, j)
    BY <1>9, <2>1, <2>2
  <2>. HIDE DEF g, c
  <2>. QED  BY <1>7, <1>8, <2>1, <2>2, <2>3 DEF RowsUntil
<1>11. ASSUME NEW p \in G PROVE \E j \in 1 .. k : p = g[j]
  <2>1. p \in Places(rs, t) /\ p[1] = n /\ pass[p].day \in 1 .. d
    BY <1>7 DEF RowsUntil
  <2>2. p = <<n, p[2]>> /\ p[2] \in DOMAIN s /\ pass[p].day = s[p[2]].day
    BY <1>9, <2>1
  <2>3. p[2] \in 1 .. k
    BY <1>6, <2>1, <2>2
  <2>. QED  BY <2>2, <2>3
<1>12. g \in Bijection(1 .. k, G)
  <2>1. g \in [1 .. k -> G]
    BY <1>10
  <2>2. \A i, j \in 1 .. k : g[i] = g[j] => i = j
    OBVIOUS
  <2>. HIDE DEF g
  <2>. QED  BY <1>11, <2>1, <2>2 DEF Bijection, Injection, Surjection, IsInjective
<1>13. \A j \in 1 .. k : w[j] \in Int /\ c[g[j]] = w[j]
  <2>1. \A j \in 1 .. k : j \in 1 .. Len(s) /\ w[j] = Changed(s, j)
    BY <1>4, <1>6
  <2>2. \A j \in 1 .. Len(s) : Changed(s, j) \in Int
    BY <1>4, LastBalanceFacts
  <2>. HIDE DEF g, c, w
  <2>. QED  BY <1>10, <2>1, <2>2
<1>14. IsFiniteSet(1 .. k)
  BY ONLY FS_Interval, <1>6
<1>15. SumFunctionOnSet(w, 1 .. k) = SumFunctionOnSet(c, G)
  <2>. HIDE DEF g, w, c
  <2>1. PICK D : D = 1 .. k
    OBVIOUS
  <2>2. g \in Bijection(D, G) /\ IsFiniteSet(D) /\ \A j \in D : w[j] \in Int /\ c[g[j]] = w[j]
    BY <1>12, <1>13, <1>14, <2>1
  <2>3. SumFunctionOnSet(w, D) = SumFunctionOnSet(c, G)
    BY <2>2, SumRenamed
  <2>. QED  BY <2>1, <2>3
<1>16. SumFunctionOnSet(w, 1 .. k) = LastBalance(s, k)
  <2>1. \A j \in 1 .. Len(s) : w[j] = Changed(s, j)
    OBVIOUS
  <2>. HIDE DEF w
  <2>. QED  BY <1>4, <2>1, ChangesAddUp
<1>17. LastBalance(s, k) \in Nat
  BY <1>4, LastBalanceFacts
<1>18. ASSUME today <= d PROVE k = Len(s)
  <2>1. ASSUME NEW j \in 1 .. Len(s) PROVE j \in 1 .. k
    <3>1. j \in DOMAIN s /\ s[j].day \in 1 .. d
      BY <1>3, <1>4, <1>5, <1>18
    <3>. QED  BY <1>6, <3>1
  <2>2. Len(s) # 0 => Len(s) \in 1 .. k
    BY <1>4, <2>1
  <2>3. k \in 0 .. Len(s)
    BY <1>6
  <2>4. PICK m \in Nat : m = Len(s)
    BY <1>4, Zenon
  <2>5. (m # 0 => m \in 1 .. k) /\ k \in 0 .. m
    BY <2>2, <2>3, <2>4
  <2>6. k = m
    BY ONLY <2>5, m \in Nat
  <2>. QED  BY <2>4, <2>6
<1>. HIDE DEF w, g
<1>. QED  BY <1>1, <1>15, <1>16, <1>17, <1>18 DEF HeldOf

\* What the rows of a token changed until a day, pools included, is what all accounts held at
\* its end; today's is what they hold.
LEMMA BalancesUntil ==
  ASSUME NEW rs, NEW happened, NEW today, Stored(rs, happened, today), NEW t \in Token, NEW d \in Nat,
         NEW pass, pass = Pass(rs, t)
  PROVE  /\ ChangedUntil(pass, d) \in Int /\ StakedUntil(pass, d) \in Int
         /\ ChangedUntil(pass, d) + StakedUntil(pass, d) \in Nat
         /\ today <= d => ChangedUntil(pass, d) + StakedUntil(pass, d) = HeldInAll(rs, t)
<1>. DEFINE U == RowsUntil(pass, d)
            I == InPoolsUntil(pass, d)
            O == OutsideUntil(pass, d)
            K == DOMAIN Account
            c == ChangeOf(pass)
            q == [p \in U |-> p[1]]
            group == [n \in K |-> {p \in U : p[1] = n}]
            v == [n \in K |-> SumFunctionOnSet(c, group[n])]
            h == [n \in K |-> HeldOf(rs[Account[n]][t])]
            z == [a \in Accounts |-> HeldOf(rs[a][t])]
<1>1. IsPass(pass) /\ DOMAIN pass = Places(rs, t)
  BY PassIs
<1>2. U \in SUBSET DOMAIN pass /\ O \in SUBSET U /\ U \ O = I
  BY DEF RowsUntil, OutsideUntil, InPoolsUntil
<1>3. IsFiniteSet(U) /\ IsFiniteSet(O) /\ IsFiniteSet(I)
  <2>. HIDE DEF U, O, I
  <2>1. IsFiniteSet(U)
    BY <1>1, <1>2, FS_Subset DEF IsPass
  <2>2. IsFiniteSet(U \ O) /\ IsFiniteSet(O)
    BY <1>2, <2>1, FS_Subset
  <2>. QED  BY <1>2, <2>1, <2>2
<1>4. \A p \in U : c[p] \in Int
  BY <1>1 DEF ChangeOf, IsPass, RowsUntil
<1>5. SumFunctionOnSet(c, U) = SumFunctionOnSet(c, O) + SumFunctionOnSet(c, I)
      /\ SumFunctionOnSet(c, O) \in Int /\ SumFunctionOnSet(c, I) \in Int
  <2>. HIDE DEF U, O, I, c
  <2>1. (\A p \in O : c[p] \in Int) /\ (\A p \in I : c[p] \in Int)
    BY <1>2, <1>4
  <2>2. SumFunctionOnSet(c, U) = SumFunctionOnSet(c, O) + SumFunctionOnSet(c, U \ O)
    BY <1>2, <1>3, <1>4, SumParts
  <2>. QED  BY <1>2, <1>3, <2>1, <2>2, SumSplit
<1>6. \A p \in U : p[1] \in K
  BY <1>1, PlaceFacts DEF RowsUntil
<1>7. Grouped(U, K, q, group)
  <2>1. IsFiniteSet(K)
    BY AccountFacts
  <2>. HIDE DEF U
  <2>. QED  BY <1>3, <1>6, <2>1 DEF Grouped
<1>8. \A n \in K : /\ v[n] = SumFunctionOnSet(c, group[n]) /\ v[n] \in Nat
                   /\ today <= d => v[n] = h[n]
  <2>. SUFFICES ASSUME NEW n \in K
                PROVE  v[n] = SumFunctionOnSet(c, group[n]) /\ v[n] \in Nat /\ (today <= d => v[n] = h[n])
    OBVIOUS
  <2>1. v[n] = SumFunctionOnSet(c, group[n]) /\ h[n] = HeldOf(rs[Account[n]][t])
    OBVIOUS
  <2>2. PICK G : G = {p \in RowsUntil(pass, d) : p[1] = n}
    OBVIOUS
  <2>3. group[n] = G
    BY <2>2
  <2>. HIDE DEF v, h, group, U, K
  <2>4. /\ SumFunctionOnSet(ChangeOf(pass), G) \in Nat
        /\ today <= d => SumFunctionOnSet(ChangeOf(pass), G) = HeldOf(rs[Account[n]][t])
    BY <2>2, AccountUntil DEF K
  <2>. QED  BY <2>1, <2>3, <2>4
<1>9. SumFunctionOnSet(c, U) = SumFunctionOnSet(v, K)
  <2>1. \A n \in K : v[n] = SumFunctionOnSet(c, group[n])
    BY <1>8
  <2>. HIDE DEF U, K, c, q, group, v
  <2>. QED  BY <1>4, <1>7, <2>1, SumGroups
<1>10. IsFiniteSet(K)
  BY AccountFacts
<1>11. SumFunctionOnSet(v, K) \in Nat
  <2>. HIDE DEF v, K, h
  <2>. QED  BY <1>8, <1>10, SumNat
<1>12. ASSUME today <= d PROVE SumFunctionOnSet(v, K) = HeldInAll(rs, t)
  <2>1. \A n \in K : v[n] \in Int /\ z[Account[n]] = v[n]
    <3>1. \A n \in K : z[Account[n]] = h[n]
      BY AccountFacts DEF Bijection, Injection
    <3>. SUFFICES ASSUME NEW n \in K PROVE v[n] \in Int /\ z[Account[n]] = v[n]
      OBVIOUS
    <3>. HIDE DEF v, K, h, z
    <3>2. v[n] \in Nat /\ v[n] = h[n]
      BY <1>8, <1>12
    <3>3. z[Account[n]] = h[n]
      BY <3>1
    <3>. QED  BY <3>2, <3>3
  <2>2. Account \in Bijection(K, Accounts)
    BY AccountFacts
  <2>3. HeldInAll(rs, t) = SumFunctionOnSet(z, Accounts)
    BY DEF HeldInAll
  <2>. HIDE DEF v, K, z
  <2>. QED  BY <1>10, <2>1, <2>2, <2>3, SumRenamed
<1>. HIDE DEF v, K, c, U, O, I
<1>. QED  BY <1>5, <1>9, <1>11, <1>12 DEF ChangedUntil, StakedUntil, O, I, c

\* More happened.
Continues(later, happened) ==
  Listed(later) /\ DOMAIN happened \subseteq DOMAIN later /\ \A n \in DOMAIN happened : later[n] = happened[n]

\* Rows stay rows when more happens.
LEMMA RowsOfLater ==
  ASSUME NEW s, NEW a, NEW t, NEW happened, NEW today \in Int, RowsOf(s, a, t, happened, today),
         NEW later, Continues(later, happened), NEW then \in Int, today <= then
  PROVE  RowsOf(s, a, t, later, then)
<1>1. \A k \in DOMAIN s : s[k].day \in 1 .. then
  <2>. SUFFICES ASSUME NEW k \in DOMAIN s PROVE s[k].day \in 1 .. then
    OBVIOUS
  <2>1. s[k].day \in 1 .. today
    BY DEF RowsOf
  <2>. QED  BY <2>1
<1>2. ASSUME NEW k \in DOMAIN s, s[k].real
      PROVE  \E n \in DOMAIN later : \E m \in later[n].moves : Stores(s[k], m, n, later[n]) /\ Changed(s, k) = m.amount
  <2>1. PICK n \in DOMAIN happened : \E m \in happened[n].moves :
               Stores(s[k], m, n, happened[n]) /\ Changed(s, k) = m.amount
    BY <1>2 DEF RowsOf
  <2>2. n \in DOMAIN later /\ later[n] = happened[n]
    BY DEF Continues
  <2>. QED  BY <2>1, <2>2
<1>. QED  BY <1>1, <1>2 DEF RowsOf

\* What a balance was does not change when a row is appended.
LEMMA BeforeAppended ==
  ASSUME NEW s, Listed(s), NEW r, NEW u, u = Append(s, r)
  PROVE  /\ \A k \in 0 .. Len(s) : LastBalance(u, k) = LastBalance(s, k)
         /\ \A k \in 1 .. Len(s) : Changed(u, k) = Changed(s, k)
         /\ Changed(u, Len(s) + 1) = IF r.real THEN r.balance - HeldOf(s) ELSE 0
<1>1. /\ Len(s) \in Nat /\ u[Len(s) + 1] = r
      /\ \A k \in 1 .. Len(s) : u[k] = s[k]
  BY ListedFacts, AppendedFacts
<1>2. ASSUME NEW k \in 0 .. Len(s) PROVE LastBalance(u, k) = LastBalance(s, k)
  <2>. DEFINE R == {m \in 1 .. k : s[m].real}
              V == {m \in 1 .. k : u[m].real}
  <2>1. \A m \in 1 .. k : u[m] = s[m]
    BY <1>1
  <2>2. R = V
    BY <2>1
  <2>3. k \in Nat /\ R \in SUBSET (1 .. k)
    BY <1>1
  <2>4. R # {} => Max(R) \in R
    <3>. HIDE DEF R
    <3>. QED  BY <2>3, GreatestFacts
  <2>5. R # {} => u[Max(R)] = s[Max(R)]
    BY <2>1, <2>4
  <2>6. LastBalance(s, k) = (IF R = {} THEN 0 ELSE s[Max(R)].balance)
        /\ LastBalance(u, k) = (IF V = {} THEN 0 ELSE u[Max(V)].balance)
    BY DEF LastBalance
  <2>. HIDE DEF R, V
  <2>. QED  BY <2>2, <2>5, <2>6
<1>3. \A k : /\ Changed(s, k) = IF ~s[k].real THEN 0 ELSE s[k].balance - LastBalance(s, k - 1)
             /\ Changed(u, k) = IF ~u[k].real THEN 0 ELSE u[k].balance - LastBalance(u, k - 1)
  BY DEF Changed, LastBalance
<1>4. ASSUME NEW k \in 1 .. Len(s) PROVE Changed(u, k) = Changed(s, k)
  <2>1. k - 1 \in 0 .. Len(s)
    BY <1>1
  <2>2. LastBalance(u, k - 1) = LastBalance(s, k - 1) /\ u[k] = s[k]
    BY <1>1, <1>2, <2>1
  <2>. QED  BY <1>3, <2>2
<1>5. Changed(u, Len(s) + 1) = IF r.real THEN r.balance - HeldOf(s) ELSE 0
  <2>1. PICK n \in Nat : n = Len(s)
    BY <1>1
  <2>2. (n + 1) - 1 = n /\ n \in 0 .. n
    OBVIOUS
  <2>3. LastBalance(u, n) = HeldOf(s)
    BY <1>2, <2>1, <2>2 DEF HeldOf
  <2>4. Changed(u, n + 1) = IF ~u[n + 1].real THEN 0 ELSE u[n + 1].balance - LastBalance(u, (n + 1) - 1)
    BY <1>3
  <2>5. u[n + 1] = r
    BY <1>1, <2>1
  <2>. QED  BY <2>1, <2>2, <2>3, <2>4, <2>5
<1>. QED  BY <1>2, <1>4, <1>5

\* A row that may be appended to an account's rows of a token.
Appendable(r, s, a, t, happened, today) ==
  /\ IsRow(r) /\ r.account = a /\ r.token = t /\ r.balance \in Int /\ r.day = today /\ r.real \in BOOLEAN
  /\ r.real => /\ r.balance >= 0
               /\ \E n \in DOMAIN happened : \E m \in happened[n].moves :
                    Stores(r, m, n, happened[n]) /\ r.balance - HeldOf(s) = m.amount
               /\ \A k \in DOMAIN s : s[k].real => s[k].hash[1][1] # r.hash[1][1]
  /\ ~r.real => IsSample(r)

\* The same of a sequence whose length has a name.
LEMMA OneAppended ==
  ASSUME NEW s, Listed(s), NEW r, NEW u, u = Append(s, r), NEW n \in Nat, n = Len(s)
  PROVE  /\ Listed(u) /\ DOMAIN u = 1 .. n + 1 /\ u[n + 1] = r /\ Len(u) = n + 1
         /\ \A k \in 1 .. n : u[k] = s[k]
<1>1. Listed(u)
  BY AppendedFacts
<1>2. Len(u) = Len(s) + 1
  BY AppendedFacts
<1>3. DOMAIN u = 1 .. Len(s) + 1
  BY AppendedFacts
<1>4. u[Len(s) + 1] = r
  BY AppendedFacts
<1>5. \A k \in 1 .. Len(s) : u[k] = s[k]
  BY AppendedFacts
<1>6. Len(u) = n + 1 /\ DOMAIN u = 1 .. n + 1 /\ u[n + 1] = r
  BY <1>2, <1>3, <1>4
<1>7. \A k \in 1 .. n : u[k] = s[k]
  BY <1>5
<1>. QED  BY <1>1, <1>6, <1>7

\* Rows with one appended that fits are rows.
LEMMA RowsOfAppended ==
  ASSUME NEW s, NEW a, NEW t, NEW happened, NEW today \in Nat \ {0}, RowsOf(s, a, t, happened, today),
         NEW r, Appendable(r, s, a, t, happened, today), NEW u, u = Append(s, r)
  PROVE  RowsOf(u, a, t, happened, today)
<1>1. PICK n \in Nat : n = Len(s)
  BY RowsBalanced
<1>2. Listed(s) /\ DOMAIN s = 1 .. n
  BY <1>1, RowsBalanced
<1>3. /\ Listed(u) /\ DOMAIN u = 1 .. n + 1 /\ u[n + 1] = r
      /\ \A k \in 1 .. n : u[k] = s[k]
  <2>1. Listed(u) /\ DOMAIN u = 1 .. n + 1
    BY <1>1, <1>2, OneAppended
  <2>2. u[n + 1] = r
    BY <1>1, <1>2, OneAppended
  <2>3. \A k \in 1 .. n : u[k] = s[k]
    BY <1>1, <1>2, OneAppended
  <2>. QED  BY <2>1, <2>2, <2>3
<1>4. (\A k \in 1 .. n : Changed(u, k) = Changed(s, k))
      /\ Changed(u, n + 1) = (IF r.real THEN r.balance - HeldOf(s) ELSE 0)
  BY <1>1, <1>2, BeforeAppended
<1>5. \A k \in DOMAIN u : k \in 1 .. n \/ k = n + 1
  BY <1>3
<1>6. \A k \in 1 .. n : k \in DOMAIN s
  BY <1>2
<1>7. ASSUME NEW k \in DOMAIN u
      PROVE  /\ IsRow(u[k]) /\ u[k].account = a /\ u[k].token = t
             /\ u[k].balance \in Int /\ u[k].day \in 1 .. today /\ u[k].real \in BOOLEAN
             /\ u[k].real => /\ u[k].balance >= 0
                             /\ \E i \in DOMAIN happened : \E m \in happened[i].moves :
                                  Stores(u[k], m, i, happened[i]) /\ Changed(u, k) = m.amount
             /\ ~u[k].real => IsSample(u[k])
  <2>1. CASE k \in 1 .. n
    <3>1. u[k] = s[k] /\ Changed(u, k) = Changed(s, k) /\ k \in DOMAIN s
      BY <1>3, <1>4, <1>6, <2>1
    <3>. QED  BY <3>1 DEF RowsOf
  <2>2. CASE k = n + 1
    <3>1. u[k] = r /\ (r.real => Changed(u, k) = r.balance - HeldOf(s))
      BY <1>3, <1>4, <2>2
    <3>2. today \in 1 .. today
      OBVIOUS
    <3>. QED  BY <3>1, <3>2 DEF Appendable
  <2>. QED  BY <1>5, <2>1, <2>2
<1>8. ASSUME NEW j \in DOMAIN u, NEW k \in DOMAIN u, j < k PROVE u[j].day <= u[k].day
  <2>1. j \in 1 .. n
    BY <1>3, <1>8
  <2>2. u[j] = s[j] /\ j \in DOMAIN s /\ s[j].day \in 1 .. today
    BY <1>3, <1>6, <2>1 DEF RowsOf
  <2>3. CASE k \in 1 .. n
    <3>1. u[k] = s[k] /\ k \in DOMAIN s
      BY <1>3, <1>6, <2>3
    <3>. QED  BY <1>8, <2>2, <3>1 DEF RowsOf
  <2>4. CASE k = n + 1
    <3>1. u[k].day = today
      BY <1>3, <2>4 DEF Appendable
    <3>. QED  BY <2>2, <3>1
  <2>. QED  BY <1>5, <2>3, <2>4
<1>9. ASSUME NEW j \in DOMAIN u, NEW k \in DOMAIN u, u[j].real, u[k].real, u[j].hash[1][1] = u[k].hash[1][1]
      PROVE  j = k
  <2>1. CASE j \in 1 .. n /\ k \in 1 .. n
    <3>1. u[k] = s[k] /\ u[j] = s[j] /\ k \in DOMAIN s /\ j \in DOMAIN s
      BY <1>3, <1>6, <2>1
    <3>. QED  BY <1>9, <3>1 DEF RowsOf
  <2>2. CASE j \in 1 .. n /\ k = n + 1
    <3>1. u[k] = r /\ u[j] = s[j] /\ j \in DOMAIN s
      BY <1>3, <1>6, <2>2
    <3>. QED  BY <1>9, <3>1 DEF Appendable
  <2>3. CASE j = n + 1 /\ k \in 1 .. n
    <3>1. u[j] = r /\ u[k] = s[k] /\ k \in DOMAIN s
      BY <1>3, <1>6, <2>3
    <3>. QED  BY <1>9, <3>1 DEF Appendable
  <2>. QED  BY <1>5, <2>1, <2>2, <2>3
<1>. QED  BY <1>3, <1>7, <1>8, <1>9 DEF RowsOf

\* Some rows are appended, all of today and of one deed or sampling.
GrowsBy(rs, new, later, today, x) ==
  /\ new = [a \in Accounts |-> [t \in Token |-> new[a][t]]]
  /\ \A a \in Accounts, t \in Token :
       \/ new[a][t] = rs[a][t]
       \/ \E r : /\ new[a][t] = Append(rs[a][t], r) /\ r.hash[1][1] = x
                 /\ Appendable(r, rs[a][t], a, t, later, today)
  /\ \A a \in Accounts, t \in Token : \A k \in DOMAIN rs[a][t] : rs[a][t][k].hash[1][1] # x

\* What is in some rows and not in others, which they continue.
IsNew(s, u, k, today, x) ==
  /\ DOMAIN s = 1 .. Len(s) /\ Len(s) \in Nat /\ k = Len(s) + 1
  /\ u[k].day = today /\ u[k].hash[1][1] = x
IsOld(s, u, k) == k \in DOMAIN u /\ u[k] = s[k] /\ Changed(u, k) = Changed(s, k)

\* An account's rows of a token keep their places; at most one is new.
LEMMA GrownAt ==
  ASSUME NEW rs, NEW happened, NEW today, Stored(rs, happened, today), NEW new, NEW later, NEW x,
         GrowsBy(rs, new, later, today, x), NEW a \in Accounts, NEW t \in Token,
         NEW s, s = rs[a][t], NEW u, u = new[a][t]
  PROVE  /\ \A k \in DOMAIN s : IsOld(s, u, k)
         /\ \A k \in DOMAIN u : k \notin DOMAIN s => IsNew(s, u, k, today, x)
<1>1. RowsOf(s, a, t, happened, today)
  BY DEF Stored
<1>2. Listed(s)
  BY <1>1, RowsBalanced
<1>3. PICK n \in Nat : n = Len(s)
  BY <1>1, RowsBalanced
<1>4. DOMAIN s = 1 .. n
  BY <1>1, <1>3, RowsBalanced
<1>5. CASE u = s
  BY <1>5 DEF IsOld
<1>6. ASSUME NEW r, u = Append(s, r), r.hash[1][1] = x, Appendable(r, s, a, t, later, today)
      PROVE  /\ \A k \in DOMAIN s : IsOld(s, u, k)
             /\ \A k \in DOMAIN u : k \notin DOMAIN s => IsNew(s, u, k, today, x)
  <2>1. DOMAIN u = 1 .. n + 1
    BY <1>2, <1>3, <1>6, OneAppended
  <2>2. u[n + 1] = r
    BY <1>2, <1>3, <1>6, OneAppended
  <2>3. \A k \in 1 .. n : u[k] = s[k]
    BY <1>2, <1>3, <1>6, OneAppended
  <2>4. \A k \in 1 .. Len(s) : Changed(u, k) = Changed(s, k)
    <3>1. u = Append(s, r)
      BY <1>6
    <3>. QED  BY ONLY <1>2, <3>1, BeforeAppended
  <2>5. \A k \in 1 .. n : k \in 1 .. n + 1
    OBVIOUS
  <2>6. \A k \in DOMAIN s : IsOld(s, u, k)
    BY <1>3, <1>4, <2>1, <2>3, <2>4, <2>5 DEF IsOld
  <2>7. ASSUME NEW k \in DOMAIN u, k \notin DOMAIN s PROVE IsNew(s, u, k, today, x)
    <3>1. k = n + 1
      BY <1>4, <2>1, <2>7
    <3>2. u[k].day = today /\ u[k].hash[1][1] = x
      BY <1>6, <2>2, <3>1 DEF Appendable
    <3>3. Len(s) \in Nat /\ k = Len(s) + 1 /\ DOMAIN s = 1 .. Len(s)
      BY <1>3, <1>4, <3>1
    <3>. QED  BY <3>2, <3>3 DEF IsNew
  <2>. QED  BY <2>6, <2>7
<1>7. u = s \/ \E r : u = Append(s, r) /\ r.hash[1][1] = x /\ Appendable(r, s, a, t, later, today)
  BY DEF GrowsBy
<1>. QED  BY <1>5, <1>6, <1>7

\* Rows to which those of one deed or sampling are appended are stored rows.
LEMMA StoredGrown ==
  ASSUME NEW rs, NEW happened, NEW today \in Nat \ {0}, Stored(rs, happened, today), NEW new, NEW later, NEW x,
         Continues(later, happened), \A n \in DOMAIN later : later[n] \in AllDeeds,
         GrowsBy(rs, new, later, today, x)
  PROVE  Stored(new, later, today)
<1>1. ASSUME NEW a \in Accounts, NEW t \in Token PROVE RowsOf(new[a][t], a, t, later, today)
  <2>1. PICK s, u : s = rs[a][t] /\ u = new[a][t]
    OBVIOUS
  <2>2. RowsOf(s, a, t, happened, today)
    BY <2>1 DEF Stored
  <2>3. RowsOf(s, a, t, later, today)
    BY <2>2, RowsOfLater
  <2>4. ASSUME NEW r, u = Append(s, r), Appendable(r, s, a, t, later, today)
        PROVE  RowsOf(u, a, t, later, today)
    BY <2>3, <2>4, RowsOfAppended
  <2>5. u = s \/ \E r : u = Append(s, r) /\ Appendable(r, s, a, t, later, today)
    BY <2>1 DEF GrowsBy
  <2>. QED  BY <2>1, <2>3, <2>4, <2>5
<1>2. OneDay(new)
  <2>. SUFFICES ASSUME NEW a \in Accounts, NEW b \in Accounts, NEW t \in Token, NEW v \in Token,
                       NEW j \in DOMAIN new[a][t], NEW k \in DOMAIN new[b][v],
                       new[a][t][j].hash[1][1] = new[b][v][k].hash[1][1]
                PROVE  new[a][t][j].day = new[b][v][k].day
    BY DEF OneDay
  <2>1. /\ j \in DOMAIN rs[a][t] => IsOld(rs[a][t], new[a][t], j)
        /\ j \notin DOMAIN rs[a][t] => IsNew(rs[a][t], new[a][t], j, today, x)
    BY GrownAt
  <2>2. /\ k \in DOMAIN rs[b][v] => IsOld(rs[b][v], new[b][v], k)
        /\ k \notin DOMAIN rs[b][v] => IsNew(rs[b][v], new[b][v], k, today, x)
    BY GrownAt
  <2>3. /\ j \in DOMAIN rs[a][t] => rs[a][t][j].hash[1][1] # x
        /\ k \in DOMAIN rs[b][v] => rs[b][v][k].hash[1][1] # x
    BY DEF GrowsBy
  <2>4. CASE j \in DOMAIN rs[a][t] /\ k \in DOMAIN rs[b][v]
    <3>1. new[a][t][j] = rs[a][t][j] /\ new[b][v][k] = rs[b][v][k]
      BY <2>1, <2>2, <2>4 DEF IsOld
    <3>2. OneDay(rs)
      BY DEF Stored
    <3>. QED  BY <2>4, <3>1, <3>2, OneDayAt
  <2>5. CASE j \notin DOMAIN rs[a][t] /\ k \notin DOMAIN rs[b][v]
    BY <2>1, <2>2, <2>5 DEF IsNew
  <2>6. CASE j \in DOMAIN rs[a][t] /\ k \notin DOMAIN rs[b][v]
    BY <2>1, <2>2, <2>3, <2>6 DEF IsNew, IsOld
  <2>7. CASE j \notin DOMAIN rs[a][t] /\ k \in DOMAIN rs[b][v]
    BY <2>1, <2>2, <2>3, <2>7 DEF IsNew, IsOld
  <2>. QED  BY <2>4, <2>5, <2>6, <2>7
<1>3. new = [a \in Accounts |-> [t \in Token |-> new[a][t]]]
  BY DEF GrowsBy
<1>. QED  BY <1>1, <1>2, <1>3 DEF Stored, Continues

\* The new places of a token whose rows name a pool.
NewIn(rs, new, t) ==
  {p \in Places(new, t) : p \notin Places(rs, t) /\ At(new, t, p).peer \in StakingPool}

\* New rows change what was given to pools as of their day, by what they move.
LEMMA StakedGrown ==
  ASSUME NEW rs, NEW happened, NEW today \in Nat \ {0}, Stored(rs, happened, today), NEW new, NEW later, NEW x,
         Stored(new, later, today), GrowsBy(rs, new, later, today, x),
         NEW t \in Token, NEW d \in Nat, NEW old, old = Pass(rs, t), NEW pass, pass = Pass(new, t)
  PROVE  /\ d < today => StakedUntil(pass, d) = StakedUntil(old, d)
         /\ today <= d => StakedUntil(pass, d)
                          = StakedUntil(old, d) + SumFunctionOnSet(ChangeOf(pass), NewIn(rs, new, t))
<1>. DEFINE I == InPoolsUntil(old, d)
            J == InPoolsUntil(pass, d)
            N == NewIn(rs, new, t)
            c == ChangeOf(old)
            e == ChangeOf(pass)
<1>1. IsPass(old) /\ DOMAIN old = Places(rs, t) /\ IsPass(pass) /\ DOMAIN pass = Places(new, t)
  BY PassIs
<1>2. ASSUME NEW p \in Places(rs, t)
      PROVE  /\ p \in Places(new, t) /\ pass[p].day = old[p].day /\ pass[p].peer = old[p].peer
             /\ c[p] \in Int /\ e[p] = c[p]
  <2>1. PICK a, k, s, u : a = Account[p[1]] /\ k = p[2] /\ s = rs[a][t] /\ u = new[a][t]
    OBVIOUS
  <2>2. p = <<p[1], p[2]>> /\ p[1] \in DOMAIN Account /\ k \in DOMAIN s
    BY <2>1, PlaceFacts
  <2>3. a \in Accounts
    BY <2>1, <2>2, AccountFacts DEF Bijection, Injection
  <2>4. IsOld(s, u, k)
    BY <2>1, <2>2, <2>3, GrownAt
  <2>5. p \in Places(new, t)
    BY <2>1, <2>2, <2>4, PlaceFacts DEF IsOld
  <2>6. /\ old[p].changed = Changed(s, k) /\ old[p].day = s[k].day /\ old[p].peer = s[k].peer
        /\ Changed(s, k) \in Int
    BY <2>1, PassAt
  <2>7. pass[p].changed = Changed(u, k) /\ pass[p].day = u[k].day /\ pass[p].peer = u[k].peer
    BY <2>1, <2>5, PassAt
  <2>8. c[p] = old[p].changed /\ e[p] = pass[p].changed
    BY <1>1, <2>5 DEF ChangeOf
  <2>. HIDE DEF c, e
  <2>. QED  BY <2>4, <2>5, <2>6, <2>7, <2>8 DEF IsOld
<1>3. ASSUME NEW p \in Places(new, t), p \notin Places(rs, t)
      PROVE  pass[p].day = today /\ pass[p].peer = At(new, t, p).peer /\ e[p] \in Int
  <2>1. PICK a, k, s, u : a = Account[p[1]] /\ k = p[2] /\ s = rs[a][t] /\ u = new[a][t]
    OBVIOUS
  <2>2. p = <<p[1], p[2]>> /\ p[1] \in DOMAIN Account /\ k \in DOMAIN u
    BY <2>1, PlaceFacts
  <2>3. a \in Accounts
    BY <2>1, <2>2, AccountFacts DEF Bijection, Injection
  <2>4. k \notin DOMAIN s
    BY <1>3, <2>1, <2>2, PlaceFacts
  <2>5. IsNew(s, u, k, today, x)
    BY <2>1, <2>2, <2>3, <2>4, GrownAt
  <2>6. /\ pass[p].changed = Changed(u, k) /\ pass[p].day = u[k].day /\ pass[p].peer = u[k].peer
        /\ Changed(u, k) \in Int
    BY <2>1, PassAt
  <2>7. e[p] = pass[p].changed
    BY <1>1 DEF ChangeOf
  <2>8. At(new, t, p) = u[k]
    BY <2>1 DEF At
  <2>. HIDE DEF e
  <2>. QED  BY <2>5, <2>6, <2>7, <2>8 DEF IsNew
<1>4. I \subseteq J
  <2>. SUFFICES ASSUME NEW p \in I PROVE p \in J
    OBVIOUS
  <2>1. p \in Places(rs, t) /\ old[p].day \in 1 .. d /\ old[p].peer \in StakingPool
    BY <1>1 DEF InPoolsUntil
  <2>. QED  BY <1>1, <1>2, <2>1 DEF InPoolsUntil
<1>5. J \subseteq I \cup N
  <2>. SUFFICES ASSUME NEW p \in J PROVE p \in I \/ p \in N
    OBVIOUS
  <2>1. p \in Places(new, t) /\ pass[p].day \in 1 .. d /\ pass[p].peer \in StakingPool
    BY <1>1 DEF InPoolsUntil
  <2>2. CASE p \in Places(rs, t)
    BY <1>1, <1>2, <2>1, <2>2 DEF InPoolsUntil
  <2>3. CASE p \notin Places(rs, t)
    BY <1>3, <2>1, <2>3 DEF NewIn
  <2>. QED  BY <2>2, <2>3
<1>6. I \cap N = {}
  BY <1>1 DEF InPoolsUntil, NewIn
<1>7. \A p \in N : pass[p].day = today /\ e[p] \in Int /\ p \in DOMAIN pass /\ pass[p].peer \in StakingPool
  <2>. HIDE DEF e
  <2>. QED  BY <1>1, <1>3 DEF NewIn
<1>8. \A p \in I : c[p] \in Int /\ e[p] = c[p]
  <2>. HIDE DEF c, e
  <2>. QED  BY <1>1, <1>2 DEF InPoolsUntil
<1>9. IsFiniteSet(I) /\ IsFiniteSet(N)
  <2>1. I \subseteq DOMAIN old /\ N \subseteq DOMAIN pass
    BY <1>1 DEF InPoolsUntil, NewIn
  <2>2. IsFiniteSet(DOMAIN old) /\ IsFiniteSet(DOMAIN pass)
    BY <1>1 DEF IsPass
  <2>. HIDE DEF I, N
  <2>. QED  BY <2>1, <2>2, FS_Subset
<1>10. SumFunctionOnSet(e, I) = SumFunctionOnSet(c, I)
  <2>. HIDE DEF c, e, I
  <2>. QED  BY <1>8, <1>9, SumSame
<1>11. ASSUME d < today PROVE J = I
  <2>1. \A p \in N : p \notin J
    <3>. SUFFICES ASSUME NEW p \in N, p \in J PROVE FALSE
      OBVIOUS
    <3>1. pass[p].day = today /\ pass[p].day \in 1 .. d
      BY <1>7 DEF InPoolsUntil
    <3>. QED  BY <1>11, <3>1
  <2>. HIDE DEF I, J, N
  <2>. QED  BY <1>4, <1>5, <2>1
<1>12. ASSUME today <= d PROVE J = I \cup N
  <2>1. \A p \in N : p \in J
    <3>. SUFFICES ASSUME NEW p \in N PROVE p \in J
      OBVIOUS
    <3>1. pass[p].day = today /\ p \in DOMAIN pass /\ pass[p].peer \in StakingPool
      BY <1>7
    <3>2. today \in 1 .. d
      BY <1>12
    <3>. QED  BY <3>1, <3>2 DEF InPoolsUntil
  <2>. HIDE DEF I, J, N
  <2>. QED  BY <1>4, <1>5, <2>1
<1>13. SumFunctionOnSet(e, I \cup N) = SumFunctionOnSet(e, I) + SumFunctionOnSet(e, N)
  <2>1. \A p \in I \cup N : e[p] \in Int
    <3>. HIDE DEF c, e, I, N
    <3>. QED  BY <1>7, <1>8
  <2>. HIDE DEF e, I, N
  <2>. QED  BY <1>6, <1>9, <2>1, SumUnion
<1>14. StakedUntil(pass, d) = SumFunctionOnSet(e, J) /\ StakedUntil(old, d) = SumFunctionOnSet(c, I)
  BY DEF StakedUntil
<1>. HIDE DEF I, J, c, e
<1>. QED  BY <1>10, <1>11, <1>12, <1>13, <1>14 DEF e

\* What an account holds is its last real balance.
LEMMA HeldIs ==
  ASSUME Stored(rows, done, day), NEW a \in Accounts, NEW t \in Token
  PROVE  Held(a, t) = HeldOf(rows[a][t]) /\ Held(a, t) \in Nat
<1>1. PICK s : s = rows[a][t]
  OBVIOUS
<1>2. RowsOf(s, a, t, done, day)
  BY <1>1 DEF Stored
<1>3. Listed(s) /\ Balanced(s) /\ DOMAIN s = 1 .. Len(s) /\ Len(s) \in Nat
  BY <1>2, RowsBalanced
<1>4. Held(a, t) = LastBalance(s, Len(s))
  BY <1>1, <1>3 DEF Held, LastBalance
<1>5. Len(s) \in 0 .. Len(s)
  BY <1>3
<1>6. LastBalance(s, Len(s)) \in Nat
  BY <1>3, <1>5, LastBalanceFacts
<1>. QED  BY <1>1, <1>4, <1>6 DEF HeldOf

\* What a deed does to an account's rows of a token.
MovesOf(deed, a, t) == {m \in deed.moves : m.account = a /\ m.token = t}
Staked(deed) == {m \in deed.moves : m.peer \in StakingPool}
RowFor(deed, a, t, n) == RowOf(deed, CHOOSE m \in MovesOf(deed, a, t) : TRUE, n)

\* A deed moves a token of an account once.
LEMMA OneMove ==
  ASSUME NEW deed \in AllDeeds, NEW a, NEW t, NEW m \in MovesOf(deed, a, t)
  PROVE  /\ MovesOf(deed, a, t) = {m} /\ (CHOOSE x \in MovesOf(deed, a, t) : TRUE) = m
         /\ m \in deed.moves /\ m.account = a /\ m.token = t /\ m.account \in Accounts /\ m.token \in Token
         /\ m.amount \in Int
<1>1. Possible(deed)
  BY DeedFacts
<1>2. \A x \in MovesOf(deed, a, t) : x = m
  BY <1>1 DEF MovesOf, Possible
<1>3. m \in deed.moves /\ m.account = a /\ m.token = t
  BY ONLY m \in MovesOf(deed, a, t) DEF MovesOf
<1>. QED  BY ONLY <1>1, <1>2, <1>3 DEF Possible

\* The deed of a row's hash has happened, or is none for a sample.
LEMMA HashOfDeed ==
  ASSUME NEW happened, NEW today, NEW rs, Stored(rs, happened, today), NEW a \in Accounts, NEW t \in Token,
         NEW k \in DOMAIN rs[a][t]
  PROVE  /\ rs[a][t][k].hash[1][1] \in 0 .. Len(happened) /\ rs[a][t][k].real \in BOOLEAN
         /\ rs[a][t][k].real => rs[a][t][k].hash[1][1] # 0
         /\ ~rs[a][t][k].real => rs[a][t][k].hash[1][1] = 0
<1>1. PICK r : r = rs[a][t][k]
  OBVIOUS
<1>2. IsBehind(r, happened, Changed(rs[a][t], k))
  BY <1>1, RowFacts
<1>3. DOMAIN happened = 1 .. Len(happened) /\ Len(happened) \in Nat
  BY ListedFacts DEF Stored
<1>4. r.real \in BOOLEAN
  BY <1>1 DEF Stored, RowsOf
<1>5. ASSUME NEW n, NEW m, OfMove(r, happened, n, m, Changed(rs[a][t], k))
      PROVE  r.real /\ r.hash[1][1] \in 1 .. Len(happened)
  BY <1>3, <1>5 DEF OfMove
<1>6. CASE ~r.real /\ r.hash[1][1] = 0
  <2>1. 0 \in 0 .. Len(happened)
    BY <1>3
  <2>2. r.hash[1][1] \in 0 .. Len(happened)
    BY ONLY <1>6, <2>1
  <2>. QED  BY <1>1, <1>4, <1>6, <2>2
<1>7. CASE r.real /\ r.hash[1][1] \in 1 .. Len(happened)
  <2>1. r.hash[1][1] \in 0 .. Len(happened) /\ r.hash[1][1] # 0
    BY <1>3, <1>7
  <2>. QED  BY <1>1, <1>4, <1>7, <2>1
<1>. QED  BY <1>2, <1>5, <1>6, <1>7 DEF IsBehind

RowWith(deed, m, hash, at, peer, usd) ==
  [account |-> m.account, token |-> m.token, balance |-> Held(m.account, m.token) + m.amount,
   hash |-> hash, day |-> day, at |-> at, peer |-> peer, usd |-> usd, real |-> TRUE,
   changed |-> 0, class |-> "moved"]

\* An imported row by its parts.
LEMMA RowIs ==
  ASSUME NEW deed, NEW m, NEW n
  PROVE  RowOf(deed, m, n) = RowWith(deed, m, HashOf(m, n), 10 * n + m.after, PeerOf(m, n),
                                     IF deed.usd = 0 THEN Null ELSE deed.usd)
BY Zenon DEF RowOf, RowWith, HashOf, PeerOf
Made(r, m, hash, peer, usd) ==
  /\ r.account = m.account /\ r.token = m.token /\ r.balance = Held(m.account, m.token) + m.amount
  /\ r.hash = hash /\ r.day = day /\ r.peer = peer /\ r.usd = usd /\ r.real = TRUE
  /\ IsRow(r)

\* The fields of an imported row.
LEMMA RowWithIs ==
  ASSUME NEW deed, NEW m, NEW hash, NEW at, NEW peer, NEW usd
  PROVE  Made(RowWith(deed, m, hash, at, peer, usd), m, hash, peer, usd)
BY DEF RowWith, IsRow, Made

\* No balance falls below zero.
Affords(deed) == \A m \in deed.moves : Held(m.account, m.token) + m.amount >= 0
Fits(r, m, s, a, t, later, n) ==
  /\ Appendable(r, s, a, t, later, day) /\ r.hash[1][1] = n /\ r.real
  /\ r.balance - HeldOf(s) = m.amount
  /\ r.peer \in StakingPool <=> m.peer \in StakingPool

\* The row an import stores of a deed's move fits the account's rows.
LEMMA NewRow ==
  ASSUME Stored(rows, done, day), day \in Nat \ {0}, NEW deed \in AllDeeds, NEW n, n = Len(done) + 1,
         NEW later, Listed(later), n \in DOMAIN later, later[n] = deed,
         Affords(deed),
         NEW a \in Accounts, NEW t \in Token, NEW m \in MovesOf(deed, a, t),
         NEW r, r = RowFor(deed, a, t, n)
  PROVE  Fits(r, m, rows[a][t], a, t, later, n)
<1>1. r = RowOf(deed, m, n) /\ m \in deed.moves /\ m.account = a /\ m.token = t /\ m.amount \in Int
  BY OneMove DEF RowFor
<1>2. n \in Nat \ {0}
  BY ListedFacts DEF Stored
<1>3. Held(a, t) = HeldOf(rows[a][t]) /\ Held(a, t) \in Nat
  BY HeldIs
<1>4. PICK h \in Nat : h = Held(a, t)
  BY <1>3
<1>5. PICK x \in Int : x = m.amount
  BY <1>1
<1>6. h + x >= 0
  BY <1>1, <1>4, <1>5 DEF Affords
<1>7. /\ r.account = a /\ r.token = t /\ r.balance = h + x /\ r.hash = HashOf(m, n) /\ r.day = day
      /\ r.peer = PeerOf(m, n) /\ r.usd = (IF deed.usd = 0 THEN Null ELSE deed.usd) /\ r.real = TRUE
      /\ IsRow(r)
  <2>1. PICK hash, at, peer, usd :
          /\ hash = HashOf(m, n) /\ at = 10 * n + m.after /\ peer = PeerOf(m, n)
          /\ usd = IF deed.usd = 0 THEN Null ELSE deed.usd
    OBVIOUS
  <2>2. r = RowWith(deed, m, hash, at, peer, usd)
    BY <1>1, <2>1, RowIs
  <2>3. Made(r, m, hash, peer, usd)
    BY <2>2, RowWithIs, Zenon
  <2>. QED  BY <1>1, <1>4, <1>5, <2>1, <2>3 DEF Made
<1>9. Stores(r, m, n, deed)
  BY <1>1, <1>7 DEF Stores
<1>10. h + x >= 0 /\ (h + x) - h = x /\ h + x \in Int
  BY <1>6
<1>11. r.balance - HeldOf(rows[a][t]) = m.amount /\ r.balance >= 0 /\ r.balance \in Int
  BY <1>3, <1>4, <1>5, <1>7, <1>10
<1>12. r.hash[1][1] = n /\ (r.peer \in StakingPool <=> m.peer \in StakingPool)
  BY <1>2, <1>7, HashFacts
<1>13. \E i \in DOMAIN later : \E y \in later[i].moves :
          Stores(r, y, i, later[i]) /\ r.balance - HeldOf(rows[a][t]) = y.amount
  BY <1>1, <1>9, <1>11
<1>14. ASSUME NEW k \in DOMAIN rows[a][t] PROVE rows[a][t][k].hash[1][1] # n
  <2>1. rows[a][t][k].hash[1][1] \in 0 .. Len(done)
    BY HashOfDeed
  <2>2. Len(done) \in Nat
    BY ListedFacts DEF Stored
  <2>. QED  BY <2>1, <2>2
<1>15. r.real /\ r.real \in BOOLEAN
  BY <1>7
<1>. QED  BY <1>7, <1>11, <1>12, <1>13, <1>14, <1>15 DEF Appendable, Fits

\* The rows after a deed.
RowsAfter(deed, n) ==
  [a \in Accounts |-> [t \in Token |->
     IF MovesOf(deed, a, t) = {} THEN rows[a][t] ELSE Append(rows[a][t], RowFor(deed, a, t, n))]]

\* A deed appends its rows and nothing else.
LEMMA DeedGrows ==
  ASSUME Stored(rows, done, day), day \in Nat \ {0}, NEW deed \in AllDeeds, NEW n, n = Len(done) + 1,
         NEW later, later = Append(done, deed),
         Affords(deed),
         NEW new, new = RowsAfter(deed, n)
  PROVE  /\ Continues(later, done) /\ \A k \in DOMAIN later : later[k] \in AllDeeds
         /\ GrowsBy(rows, new, later, day, n)
<1>1. Listed(done) /\ DOMAIN done = 1 .. Len(done) /\ Len(done) \in Nat /\ \A k \in DOMAIN done : done[k] \in AllDeeds
  BY ListedFacts DEF Stored
<1>2. PICK l \in Nat : l = Len(done)
  BY <1>1, Zenon
<1>3. Listed(later) /\ DOMAIN later = 1 .. l + 1
  BY <1>1, <1>2, OneAppended
<1>4. later[l + 1] = deed
  BY <1>1, <1>2, OneAppended
<1>5. \A k \in 1 .. l : later[k] = done[k]
  BY <1>1, <1>2, OneAppended
<1>6. Continues(later, done)
  <2>1. 1 .. l \subseteq 1 .. l + 1
    OBVIOUS
  <2>. QED  BY <1>1, <1>2, <1>3, <1>5, <2>1 DEF Continues
<1>7. \A k \in DOMAIN later : later[k] \in AllDeeds
  <2>1. \A k \in 1 .. l + 1 : k \in 1 .. l \/ k = l + 1
    OBVIOUS
  <2>. QED  BY <1>1, <1>2, <1>3, <1>4, <1>5, <2>1
<1>8. n \in DOMAIN later /\ later[n] = deed
  <2>1. n = l + 1 /\ l + 1 \in 1 .. l + 1
    BY <1>2
  <2>. QED  BY <1>3, <1>4, <2>1
<1>9. new = [a \in Accounts |-> [t \in Token |-> new[a][t]]]
  BY DEF RowsAfter
<1>10. ASSUME NEW a \in Accounts, NEW t \in Token
       PROVE  \/ new[a][t] = rows[a][t]
              \/ \E r : /\ new[a][t] = Append(rows[a][t], r) /\ r.hash[1][1] = n
                        /\ Appendable(r, rows[a][t], a, t, later, day)
  <2>1. CASE MovesOf(deed, a, t) = {}
    BY <2>1 DEF RowsAfter
  <2>2. CASE MovesOf(deed, a, t) # {}
    <3>1. PICK m : m \in MovesOf(deed, a, t)
      BY <2>2
    <3>2. PICK r : r = RowFor(deed, a, t, n)
      OBVIOUS
    <3>3. Fits(r, m, rows[a][t], a, t, later, n)
      BY <1>3, <1>8, <3>1, <3>2, NewRow
    <3>4. new[a][t] = Append(rows[a][t], r)
      BY <2>2, <3>2 DEF RowsAfter
    <3>. QED  BY <3>3, <3>4 DEF Fits
  <2>. QED  BY <2>1, <2>2
<1>11. \A a \in Accounts, t \in Token : \A k \in DOMAIN rows[a][t] : rows[a][t][k].hash[1][1] # n
  <2>. SUFFICES ASSUME NEW a \in Accounts, NEW t \in Token, NEW k \in DOMAIN rows[a][t]
                PROVE  rows[a][t][k].hash[1][1] # n
    OBVIOUS
  <2>1. rows[a][t][k].hash[1][1] \in 0 .. Len(done)
    BY HashOfDeed
  <2>. QED  BY <1>1, <2>1
<1>12. GrowsBy(rows, new, later, day, n)
  BY <1>9, <1>10, <1>11 DEF GrowsBy
<1>. QED  BY <1>6, <1>7, <1>12

\* A deed that happens.
Happens(deed, n, later, new) ==
  /\ Stored(rows, done, day) /\ day \in Nat \ {0} /\ deed \in AllDeeds /\ n = Len(done) + 1
  /\ later = Append(done, deed) /\ Affords(deed) /\ new = RowsAfter(deed, n)

\* After a deed the rows are stored rows of all that happened.
LEMMA HappensFacts ==
  ASSUME NEW deed, NEW n, NEW later, NEW new, Happens(deed, n, later, new)
  PROVE  /\ Stored(new, later, day) /\ GrowsBy(rows, new, later, day, n) /\ Continues(later, done)
         /\ Listed(later) /\ n \in DOMAIN later /\ later[n] = deed
<1>1. /\ Continues(later, done) /\ \A k \in DOMAIN later : later[k] \in AllDeeds
      /\ GrowsBy(rows, new, later, day, n)
  BY DeedGrows DEF Happens
<1>2. Stored(rows, done, day) /\ day \in Nat \ {0}
  BY DEF Happens
<1>3. Stored(new, later, day)
  BY <1>1, <1>2, StoredGrown
<1>4. PICK l \in Nat : l = Len(done)
  BY ListedFacts DEF Happens, Stored
<1>5. Listed(done) /\ later = Append(done, deed) /\ n = l + 1
  BY <1>4 DEF Happens, Stored
<1>6. Listed(later) /\ DOMAIN later = 1 .. l + 1
  BY <1>4, <1>5, OneAppended
<1>7. later[l + 1] = deed
  BY <1>4, <1>5, OneAppended
<1>8. l + 1 \in 1 .. l + 1
  OBVIOUS
<1>. QED  BY <1>1, <1>3, <1>5, <1>6, <1>7, <1>8

\* The move a new place stores.
MoveAt(deed, p) == CHOOSE m \in MovesOf(deed, Account[p[1]], Near) : TRUE
PlacedAt(deed, new, p) ==
  /\ p = <<p[1], Len(rows[Account[p[1]]][Near]) + 1>> /\ p[1] \in DOMAIN Account
  /\ MoveAt(deed, p) \in Staked(deed) /\ MoveAt(deed, p).account = Account[p[1]]
  /\ MoveAt(deed, p).token = Near /\ MoveAt(deed, p).amount \in Int
  /\ ChangeOf(Pass(new, Near))[p] = MoveAt(deed, p).amount

\* Each new place with a pool stores one of the deed's moves to or from it.
LEMMA NewPlace ==
  ASSUME NEW deed, NEW n, NEW later, NEW new, Happens(deed, n, later, new), NEW p \in NewIn(rows, new, Near)
  PROVE  PlacedAt(deed, new, p)
<1>1. PICK a, s, u, k : a = Account[p[1]] /\ s = rows[a][Near] /\ u = new[a][Near] /\ k = p[2]
  OBVIOUS
<1>2. p \in Places(new, Near) /\ p \notin Places(rows, Near) /\ u[k].peer \in StakingPool
  BY <1>1 DEF NewIn, At
<1>3. p = <<p[1], p[2]>> /\ p[1] \in DOMAIN Account /\ k \in DOMAIN u
  BY <1>1, <1>2, PlaceFacts
<1>4. a \in Accounts /\ Near \in Token
  BY <1>1, <1>3, AccountFacts, TokenAssumption DEF Bijection, Injection
<1>5. k \notin DOMAIN s
  BY <1>1, <1>2, <1>3, PlaceFacts
<1>6. Stored(rows, done, day) /\ GrowsBy(rows, new, later, day, n) /\ Stored(new, later, day)
  BY HappensFacts DEF Happens
<1>7. IsNew(s, u, k, day, n)
  BY <1>1, <1>3, <1>4, <1>5, <1>6, GrownAt
<1>8. k = Len(s) + 1
  BY <1>7 DEF IsNew
<1>9. MovesOf(deed, a, Near) # {}
  <2>1. u # s
    BY <1>3, <1>5
  <2>. QED  BY <1>1, <1>4, <2>1 DEF Happens, RowsAfter
<1>10. PICK m : m \in MovesOf(deed, a, Near)
  BY <1>9
<1>11. PICK r : r = RowFor(deed, a, Near, n)
  BY ONLY <1>10
<1>12. u = Append(s, r)
  BY <1>1, <1>4, <1>9, <1>11 DEF Happens, RowsAfter
<1>13. /\ day \in Nat \ {0} /\ deed \in AllDeeds /\ n = Len(done) + 1 /\ Affords(deed)
       /\ Listed(later) /\ n \in DOMAIN later /\ later[n] = deed
  BY HappensFacts DEF Happens
<1>14. Fits(r, m, s, a, Near, later, n)
  BY <1>1, <1>4, <1>6, <1>10, <1>11, <1>13, NewRow
<1>15. Listed(s) /\ Len(s) \in Nat
  <2>1. RowsOf(s, a, Near, done, day)
    BY <1>1, <1>4, <1>6 DEF Stored
  <2>. QED  BY <2>1, RowsBalanced
<1>16. u[k] = r
  <2>1. PICK l \in Nat : l = Len(s)
    BY <1>15
  <2>2. u[l + 1] = r
    BY <1>12, <1>15, <2>1, OneAppended
  <2>. QED  BY <1>8, <2>1, <2>2
<1>17. Changed(u, k) = r.balance - HeldOf(s)
  <2>1. Changed(u, Len(s) + 1) = IF r.real THEN r.balance - HeldOf(s) ELSE 0
    BY ONLY <1>12, <1>15, BeforeAppended
  <2>. QED  BY <1>8, <1>14, <2>1 DEF Fits
<1>18. Changed(u, k) = m.amount
  BY <1>14, <1>17 DEF Fits
<1>19. MoveAt(deed, p) = m /\ m \in deed.moves /\ m.account = a /\ m.token = Near /\ m.amount \in Int
  BY <1>1, <1>10, <1>13, OneMove DEF MoveAt
<1>20. m \in Staked(deed)
  BY <1>2, <1>14, <1>16, <1>19 DEF Fits, Staked
<1>21. ChangeOf(Pass(new, Near))[p] = m.amount
  <2>1. PICK pass : pass = Pass(new, Near)
    OBVIOUS
  <2>2. pass[p].changed = Changed(u, k)
    BY <1>1, <1>2, <1>4, <1>6, <2>1, PassAt
  <2>3. DOMAIN pass = Places(new, Near)
    BY <1>4, <1>6, <2>1, PassIs
  <2>4. ChangeOf(pass)[p] = pass[p].changed
    BY <1>2, <2>3 DEF ChangeOf
  <2>. QED  BY <1>18, <2>1, <2>2, <2>4
<1>. QED  BY <1>1, <1>3, <1>8, <1>19, <1>20, <1>21 DEF PlacedAt

\* Each move to or from a pool has its new place.
LEMMA PlaceOfMove ==
  ASSUME NEW deed, NEW n, NEW later, NEW new, Happens(deed, n, later, new), NEW m \in Staked(deed)
  PROVE  m.token = Near /\ m.amount \in Int /\ \E p \in NewIn(rows, new, Near) : Account[p[1]] = m.account
<1>1. deed \in AllDeeds /\ m \in deed.moves /\ m.peer \in StakingPool
  BY DEF Happens, Staked
<1>2. m.token = Near /\ m.account \in Accounts /\ m.amount \in Int /\ Near \in Token
  BY <1>1, DeedFacts, TokenAssumption DEF Possible
<1>3. PICK a, i : a = m.account /\ i \in DOMAIN Account /\ Account[i] = a
  BY <1>2 DEF Accounts, Range
<1>4. m \in MovesOf(deed, a, Near)
  BY <1>1, <1>2, <1>3 DEF MovesOf
<1>5. PICK s, u, r : s = rows[a][Near] /\ u = new[a][Near] /\ r = RowFor(deed, a, Near, n)
  OBVIOUS
<1>6. u = Append(s, r)
  BY <1>2, <1>3, <1>4, <1>5 DEF Happens, RowsAfter
<1>7. /\ Stored(rows, done, day) /\ day \in Nat \ {0} /\ deed \in AllDeeds /\ n = Len(done) + 1 /\ Affords(deed)
      /\ Listed(later) /\ n \in DOMAIN later /\ later[n] = deed
  BY HappensFacts DEF Happens
<1>8. Fits(r, m, s, a, Near, later, n)
  BY <1>2, <1>3, <1>4, <1>5, <1>7, NewRow
<1>9. RowsOf(s, a, Near, done, day)
  BY <1>2, <1>3, <1>5, <1>7 DEF Stored
<1>10. PICK l \in Nat : l = Len(s)
  BY <1>9, RowsBalanced
<1>11. Listed(s) /\ DOMAIN s = 1 .. l
  BY <1>9, <1>10, RowsBalanced
<1>12. DOMAIN u = 1 .. l + 1
  BY <1>6, <1>10, <1>11, OneAppended
<1>13. u[l + 1] = r
  BY <1>6, <1>10, <1>11, OneAppended
<1>14. PICK p : p = <<i, l + 1>>
  OBVIOUS
<1>15. p = <<p[1], p[2]>> /\ p[1] = i /\ p[2] = l + 1
  BY <1>14
<1>16. l + 1 \in 1 .. l + 1 /\ l + 1 \notin 1 .. l
  OBVIOUS
<1>17. p \in Places(new, Near)
  BY <1>3, <1>5, <1>12, <1>15, <1>16, PlaceFacts
<1>18. p \notin Places(rows, Near)
  BY <1>3, <1>5, <1>11, <1>15, <1>16, PlaceFacts
<1>19. At(new, Near, p).peer \in StakingPool
  BY <1>1, <1>3, <1>5, <1>8, <1>13, <1>15 DEF At, Fits
<1>20. p \in NewIn(rows, new, Near) /\ Account[p[1]] = m.account
  BY <1>3, <1>15, <1>17, <1>18, <1>19 DEF NewIn
<1>. QED  BY <1>2, <1>20

\* What a deed gives to the pools and takes from them is in the new rows.
LEMMA StakedAdded ==
  ASSUME NEW deed, NEW n, NEW later, NEW new, Happens(deed, n, later, new)
  PROVE  SumFunctionOnSet(ChangeOf(Pass(new, Near)), NewIn(rows, new, Near))
         = SumFunction([m \in Staked(deed) |-> m.amount])
<1>. DEFINE N == NewIn(rows, new, Near)
            S == Staked(deed)
            f == [p \in N |-> MoveAt(deed, p)]
            w == ChangeOf(Pass(new, Near))
            v == [m \in S |-> m.amount]
<1>1. \A p \in N : PlacedAt(deed, new, p)
  BY NewPlace
<1>2. \A p \in N : f[p] \in S /\ f[p].account = Account[p[1]] /\ f[p].token = Near
                   /\ w[p] \in Int /\ v[f[p]] = w[p]
                   /\ p = <<p[1], Len(rows[Account[p[1]]][Near]) + 1>> /\ p[1] \in DOMAIN Account
  <2>. SUFFICES ASSUME NEW p \in N
                PROVE  /\ f[p] \in S /\ f[p].account = Account[p[1]] /\ f[p].token = Near
                       /\ w[p] \in Int /\ v[f[p]] = w[p]
                       /\ p = <<p[1], Len(rows[Account[p[1]]][Near]) + 1>> /\ p[1] \in DOMAIN Account
    OBVIOUS
  <2>1. f[p] = MoveAt(deed, p)
    OBVIOUS
  <2>2. \A m \in S : v[m] = m.amount
    OBVIOUS
  <2>. HIDE DEF f, w, v, N, S
  <2>3. PlacedAt(deed, new, p)
    BY <1>1
  <2>4. f[p] \in S /\ w[p] = f[p].amount /\ w[p] \in Int
    BY <2>1, <2>3 DEF PlacedAt, S, w
  <2>. QED  BY <2>1, <2>2, <2>3, <2>4 DEF PlacedAt
<1>3. \A m \in S : m.token = Near /\ \E p \in N : Account[p[1]] = m.account
  BY PlaceOfMove
<1>4. \A x, y \in S : x.token = y.token /\ x.account = y.account => x = y
  <2>1. Possible(deed)
    BY DeedFacts DEF Happens
  <2>. QED  BY <2>1 DEF Possible, Staked
<1>5. IsFiniteSet(N)
  <2>1. Stored(new, later, day) /\ Near \in Token
    BY HappensFacts, TokenAssumption
  <2>2. IsFiniteSet(Places(new, Near))
    BY <2>1, PlacesFinite
  <2>3. N \subseteq Places(new, Near)
    BY DEF NewIn
  <2>. HIDE DEF N
  <2>. QED  BY <2>2, <2>3, FS_Subset
<1>6. f \in Bijection(N, S)
  <2>0. DOMAIN f = N /\ f = [p \in N |-> f[p]]
    OBVIOUS
  <2>. HIDE DEF f, N, S, w, v
  <2>1. f \in [N -> S]
    BY <1>2, <2>0
  <2>2. ASSUME NEW p \in N, NEW q \in N, f[p] = f[q] PROVE p = q
    <3>1. Account[p[1]] = Account[q[1]] /\ p[1] \in DOMAIN Account /\ q[1] \in DOMAIN Account
      BY <1>2, <2>2
    <3>2. p[1] = q[1]
      BY <3>1, AccountAssumption
    <3>3. p = <<p[1], Len(rows[Account[p[1]]][Near]) + 1>> /\ q = <<q[1], Len(rows[Account[q[1]]][Near]) + 1>>
      BY <1>2
    <3>. QED  BY <3>2, <3>3
  <2>3. \A m \in S : \E p \in N : f[p] = m
    <3>. SUFFICES ASSUME NEW m \in S PROVE \E p \in N : f[p] = m
      OBVIOUS
    <3>1. PICK p \in N : Account[p[1]] = m.account
      BY <1>3
    <3>2. f[p] \in S /\ f[p].account = m.account /\ f[p].token = m.token
      BY <1>2, <1>3, <3>1
    <3>. QED  BY <1>4, <3>2
  <2>. QED  BY <2>1, <2>2, <2>3 DEF Bijection, Injection, Surjection, IsInjective
<1>7. \A p \in N : w[p] \in Int /\ v[f[p]] = w[p]
  BY <1>2
<1>8. DOMAIN v = S
  OBVIOUS
<1>. HIDE DEF f, N, S, w, v
<1>9. SumFunctionOnSet(w, N) = SumFunctionOnSet(v, S)
  BY <1>5, <1>6, <1>7, SumRenamed
<1>. QED  BY <1>8, <1>9 DEF SumFunction, w, v, N, S

Rest == [a \in Accounts |-> [t \in Token |-> <<>>]]

\* No rows are the stored rows of nothing.
LEMMA NothingStored ==
  ASSUME NEW today \in Nat
  PROVE  Stored(Rest, <<>>, today)
<1>1. Listed(<<>>) /\ DOMAIN <<>> = {}
  <2>1. <<>> \in Seq({})
    OBVIOUS
  <2>. QED  BY <2>1 DEF Listed
<1>2. ASSUME NEW a \in Accounts, NEW t \in Token PROVE Rest[a][t] = <<>>
  BY DEF Rest
<1>3. ASSUME NEW a \in Accounts, NEW t \in Token PROVE RowsOf(Rest[a][t], a, t, <<>>, today)
  BY <1>1, <1>2 DEF RowsOf
<1>4. OneDay(Rest)
  BY <1>1, <1>2 DEF OneDay
<1>5. Rest = [a \in Accounts |-> [t \in Token |-> Rest[a][t]]]
  BY DEF Rest
<1>. QED  BY <1>1, <1>3, <1>4, <1>5 DEF Stored

\* On a later day the rows are the same.
LEMMA StoredLater ==
  ASSUME NEW rs, NEW happened, NEW today, Stored(rs, happened, today), NEW then \in Nat, today <= then
  PROVE  Stored(rs, happened, then)
<1>1. today \in Int /\ then \in Int /\ Continues(happened, happened)
  BY DEF Stored, Continues
<1>2. ASSUME NEW a \in Accounts, NEW t \in Token PROVE RowsOf(rs[a][t], a, t, happened, then)
  <2>1. RowsOf(rs[a][t], a, t, happened, today)
    BY DEF Stored
  <2>. QED  BY <1>1, <2>1, RowsOfLater
<1>. QED  BY <1>2 DEF Stored

\* After today nothing more was given to the pools.
LEMMA UntilLater ==
  ASSUME NEW rs, NEW happened, NEW today, Stored(rs, happened, today), NEW then \in Nat, today <= then,
         NEW t \in Token, NEW pass, pass = Pass(rs, t)
  PROVE  StakedUntil(pass, then) = StakedUntil(pass, today)
<1>1. today \in Nat /\ DOMAIN pass = Places(rs, t)
  BY PassIs DEF Stored
<1>2. ASSUME NEW p \in DOMAIN pass PROVE pass[p].day \in 1 .. today /\ pass[p].day \in 1 .. then
  <2>1. PICK a, s, k : a = Account[p[1]] /\ s = rs[a][t] /\ k = p[2]
    OBVIOUS
  <2>2. k \in DOMAIN s /\ RowsOf(s, a, t, happened, today) /\ pass[p].day = s[k].day
    BY <1>1, <2>1, PassAt
  <2>3. s[k].day \in 1 .. today
    BY <2>2 DEF RowsOf
  <2>. QED  BY <1>1, <2>2, <2>3
<1>3. InPoolsUntil(pass, then) = InPoolsUntil(pass, today)
  BY <1>2 DEF InPoolsUntil
<1>. QED  BY <1>3 DEF StakedUntil

\* What the server samples.
SampleOf(a, t, shown) ==
  [account |-> a, token |-> t, balance |-> shown,
   hash |-> SampleHash, day |-> day, at |-> 0, peer |-> Nobody, usd |-> Null,
   real |-> FALSE, changed |-> 0, class |-> "moved"]

\* A sample fits the rows of its account.
LEMMA SampleFits ==
  ASSUME NEW a, NEW t, NEW shown \in Int, NEW s, NEW happened, NEW r, r = SampleOf(a, t, shown)
  PROVE  Appendable(r, s, a, t, happened, day) /\ r.hash[1][1] = 0 /\ r.peer = Nobody
<1>1. PICK h : h = SampleHash
  OBVIOUS
<1>2. h[1][1] = 0
  <2>1. SampleHash[1] = <<0, "block">>
    BY DEF SampleHash
  <2>. QED  BY <1>1, <2>1
<1>3. r = [account |-> a, token |-> t, balance |-> shown,
           hash |-> h, day |-> day, at |-> 0, peer |-> Nobody, usd |-> Null,
           real |-> FALSE, changed |-> 0, class |-> "moved"]
  BY <1>1 DEF SampleOf
<1>4. /\ r.account = a /\ r.token = t /\ r.balance = shown /\ r.day = day /\ r.real = FALSE
      /\ r.hash = h /\ r.peer = Nobody /\ r.usd = Null
  BY <1>3
<1>5. IsRow(r)
  BY <1>3 DEF IsRow
<1>6. IsSample(r)
  BY <1>1, <1>4 DEF IsSample
<1>. QED  BY <1>2, <1>4, <1>5, <1>6 DEF Appendable

\* One row is appended.
OneRow(new, a, t, r) ==
  /\ new = [b \in Accounts |-> [u \in Token |-> new[b][u]]]
  /\ \A b \in Accounts, u \in Token :
       /\ b = a /\ u = t => new[b][u] = Append(rows[b][u], r)
       /\ ~(b = a /\ u = t) => new[b][u] = rows[b][u]

\* Observe changes one account's rows of one token.
LEMMA OneRowAdded ==
  ASSUME Stored(rows, done, day), NEW a \in Accounts, NEW t \in Token, NEW r
  PROVE  OneRow([rows EXCEPT ![a][t] = Append(@, r)], a, t, r)
<1>1. PICK new : new = [rows EXCEPT ![a][t] = Append(@, r)]
  OBVIOUS
<1>2. rows = [b \in Accounts |-> [u \in Token |-> rows[b][u]]]
  BY DEF Stored
<1>3. ASSUME NEW b \in Accounts, NEW u \in Token
      PROVE  new[b][u] = IF b = a /\ u = t THEN Append(rows[b][u], r) ELSE rows[b][u]
  <2>1. DOMAIN rows = Accounts /\ DOMAIN rows[a] = Token
    BY <1>2
  <2>. QED  BY <1>1, <2>1
<1>4. new = [b \in Accounts |-> [u \in Token |-> new[b][u]]]
  <2>1. \A b \in Accounts : rows[b] = [u \in Token |-> rows[b][u]]
    BY <1>2
  <2>2. new = [b \in Accounts |-> IF b = a THEN [rows[a] EXCEPT ![t] = Append(@, r)] ELSE rows[b]]
    BY <1>1, <1>2
  <2>3. \A b \in Accounts : new[b] = [u \in Token |-> new[b][u]]
    BY <2>1, <2>2
  <2>. QED  BY <2>2, <2>3
<1>5. \A b \in Accounts, u \in Token :
        /\ b = a /\ u = t => new[b][u] = Append(rows[b][u], r)
        /\ ~(b = a /\ u = t) => new[b][u] = rows[b][u]
  BY ONLY <1>3
<1>6. OneRow(new, a, t, r)
  BY ONLY <1>4, <1>5 DEF OneRow
<1>. QED  BY ONLY <1>1, <1>6

\* A sample is appended to stored rows, and gives nothing to a pool.
LEMMA SampleGrows ==
  ASSUME Stored(rows, done, day), day \in Nat \ {0}, NEW a \in Accounts, NEW t \in Token, NEW shown \in Int,
         \A b \in Accounts, u \in Token : \A k \in DOMAIN rows[b][u] : rows[b][u][k].real,
         NEW new, OneRow(new, a, t, SampleOf(a, t, shown))
  PROVE  /\ Stored(new, done, day) /\ GrowsBy(rows, new, done, day, 0)
         /\ NewIn(rows, new, Near) = {}
<1>1. PICK r : r = SampleOf(a, t, shown)
  OBVIOUS
<1>2. OneRow(new, a, t, r)
  BY <1>1
<1>3. ASSUME NEW b \in Accounts, NEW u \in Token
      PROVE  /\ b = a /\ u = t => new[b][u] = Append(rows[b][u], r)
             /\ ~(b = a /\ u = t) => new[b][u] = rows[b][u]
  BY <1>2 DEF OneRow
<1>4. new = [b \in Accounts |-> [u \in Token |-> new[b][u]]]
  BY <1>2 DEF OneRow
<1>5. /\ r.hash[1][1] = 0 /\ r.peer = Nobody
      /\ \A s, b, u : b = a /\ u = t => Appendable(r, s, b, u, done, day)
  BY <1>1, SampleFits
<1>6. \A b \in Accounts, u \in Token : \A k \in DOMAIN rows[b][u] : rows[b][u][k].hash[1][1] # 0
  BY HashOfDeed
<1>7. GrowsBy(rows, new, done, day, 0)
  <2>1. ASSUME NEW b \in Accounts, NEW u \in Token
        PROVE  \/ new[b][u] = rows[b][u]
               \/ \E x : /\ new[b][u] = Append(rows[b][u], x) /\ x.hash[1][1] = 0
                         /\ Appendable(x, rows[b][u], b, u, done, day)
    <3>1. CASE b = a /\ u = t
      <4>1. new[b][u] = Append(rows[b][u], r)
        BY <1>3, <3>1
      <4>2. r.hash[1][1] = 0 /\ Appendable(r, rows[b][u], b, u, done, day)
        BY <1>5, <3>1
      <4>. QED  BY <4>1, <4>2
    <3>2. CASE ~(b = a /\ u = t)
      BY <1>3, <3>2
    <3>. QED  BY <3>1, <3>2
  <2>. QED  BY <1>4, <1>6, <2>1 DEF GrowsBy
<1>8. Continues(done, done) /\ \A k \in DOMAIN done : done[k] \in AllDeeds
  BY DEF Stored, Continues
<1>9. Stored(new, done, day)
  BY <1>7, <1>8, StoredGrown
<1>10. ASSUME NEW p \in NewIn(rows, new, Near) PROVE FALSE
  <2>1. PICK b, k : b = Account[p[1]] /\ k = p[2]
    OBVIOUS
  <2>2. p \in Places(new, Near) /\ p \notin Places(rows, Near) /\ new[b][Near][k].peer \in StakingPool
    BY <2>1 DEF NewIn, At
  <2>3. p = <<p[1], p[2]>> /\ p[1] \in DOMAIN Account /\ k \in DOMAIN new[b][Near]
    BY ONLY <2>1, <2>2, PlaceFacts
  <2>4. b \in Accounts /\ Near \in Token
    BY <2>1, <2>3, AccountFacts, TokenAssumption DEF Bijection, Injection
  <2>5. k \notin DOMAIN rows[b][Near]
    BY <2>1, <2>2, <2>3, PlaceFacts
  <2>6. b = a /\ Near = t /\ new[b][Near] = Append(rows[b][Near], r)
    <3>1. new[b][Near] # rows[b][Near]
      BY <2>3, <2>5
    <3>. QED  BY <1>3, <2>4, <3>1
  <2>7. PICK s, u : s = rows[b][Near] /\ u = new[b][Near]
    OBVIOUS
  <2>8. RowsOf(s, b, Near, done, day)
    BY <2>4, <2>7 DEF Stored
  <2>9. PICK l \in Nat : l = Len(s)
    BY <2>8, RowsBalanced
  <2>10. Listed(s) /\ DOMAIN s = 1 .. l /\ u = Append(s, r)
    BY <2>6, <2>7, <2>8, <2>9, RowsBalanced
  <2>11. DOMAIN u = 1 .. l + 1
    BY <2>9, <2>10, OneAppended
  <2>12. u[l + 1] = r
    BY <2>9, <2>10, OneAppended
  <2>13. k = l + 1
    BY <2>3, <2>5, <2>7, <2>10, <2>11
  <2>. QED  BY <1>5, <2>2, <2>7, <2>12, <2>13, ScenarioAssumption
<1>. QED  BY <1>7, <1>9, <1>10

\* A deed adds its reward.
LEMMA RewardsAppended ==
  ASSUME Stored(rows, done, day), NEW deed \in AllDeeds, NEW later, later = Append(done, deed)
  PROVE  RewardsOf(done) \in Nat /\ RewardsOf(later) = RewardsOf(done) + deed.reward /\ deed.reward \in Nat
<1>1. PICK l \in Nat : l = Len(done)
  BY ListedFacts DEF Stored
<1>2. Listed(done) /\ DOMAIN done = 1 .. l
  BY <1>1, ListedFacts DEF Stored
<1>3. DOMAIN later = 1 .. l + 1
  BY <1>1, <1>2, OneAppended
<1>4. later[l + 1] = deed
  BY <1>1, <1>2, OneAppended
<1>5. \A k \in 1 .. l : later[k] = done[k]
  BY <1>1, <1>2, OneAppended
<1>6. \A x \in AllDeeds : x.reward \in Nat
  BY DeedFacts DEF Possible
<1>7. \A k \in 1 .. l : done[k] \in AllDeeds
  BY <1>2 DEF Stored
<1>. DEFINE v == [k \in 1 .. l |-> done[k].reward]
            w == [k \in 1 .. l + 1 |-> later[k].reward]
<1>8. RewardsOf(done) = SumFunctionOnSet(v, 1 .. l) /\ RewardsOf(later) = SumFunctionOnSet(w, 1 .. l + 1)
  BY <1>2, <1>3 DEF RewardsOf, SumFunction
<1>9. /\ \A k \in 1 .. l : v[k] \in Nat /\ w[k] = v[k]
      /\ w[l + 1] = deed.reward /\ deed.reward \in Nat
  <2>1. \A k \in 1 .. l : k \in 1 .. l + 1
    OBVIOUS
  <2>2. l + 1 \in 1 .. l + 1
    OBVIOUS
  <2>. QED  BY <1>4, <1>5, <1>6, <1>7, <2>1, <2>2
<1>. HIDE DEF v, w
<1>10. PICK D, E : D = 1 .. l /\ E = 1 .. l + 1
  OBVIOUS
<1>11. IsFiniteSet(D) /\ IsFiniteSet(E) /\ l + 1 \in E /\ E \ {l + 1} = D
  <2>1. l \in Int /\ 1 \in Int /\ l + 1 \in Int
    OBVIOUS
  <2>2. IsFiniteSet(1 .. l) /\ IsFiniteSet(1 .. (l + 1))
    BY <2>1, FS_Interval
  <2>3. l + 1 \in E
    BY <1>10
  <2>4. E \ {l + 1} = D
    BY <1>10
  <2>. QED  BY <1>10, <2>2, <2>3, <2>4
<1>12. \A k \in E : k \in D \/ k = l + 1
  BY <1>10
<1>13. (\A k \in E : w[k] \in Int) /\ (\A k \in D : v[k] \in Nat /\ v[k] \in Int /\ w[k] \in Int /\ v[k] = w[k])
  BY <1>9, <1>10, <1>12
<1>14. SumFunctionOnSet(w, E) = w[l + 1] + SumFunctionOnSet(w, D)
  BY <1>11, <1>13, SumSplit
<1>15. SumFunctionOnSet(v, D) = SumFunctionOnSet(w, D) /\ SumFunctionOnSet(v, D) \in Nat
  BY <1>11, <1>13, SumSame, SumNat
<1>. QED  BY <1>8, <1>9, <1>10, <1>14, <1>15

\* What the pools hold, less what they paid, is what was given to them until a day.
StakeTold ==
  /\ stake \in [1 .. LastDay -> Nat]
  /\ \A d \in 1 .. day : stake[d] + StakedUntil(Pass(rows, Near), d) <= RewardsOf(done)
  /\ stake[day] + StakedUntil(Pass(rows, Near), day) = RewardsOf(done)
BooksTold == \A t \in Token : Tells(books[t], ReportOf(rows), t, LastDay)

BooksInv ==
  /\ deeds \in Scenario /\ Len(done) <= Len(deeds) /\ day \in 1 .. LastDay
  /\ priced \in [DOMAIN deeds -> Nat]
  /\ Stored(rows, done, day)
  /\ StakeTold
  /\ BooksTold

\* The report of stored rows tells what they changed.
LEMMA ShowTells ==
  ASSUME NEW rs, NEW happened, NEW today, Stored(rs, happened, today),
         NEW prices, \A n \in DOMAIN happened : prices[n] \in Nat, NEW t \in Token
  PROVE  Tells(CalculateProfitLoss(ReportOf(rs), prices, t, LastDay), ReportOf(rs), t, LastDay)
<1>1. Passes(ReportOf(rs)) /\ PricesKnown(ReportOf(rs), prices)
  BY PassesAre, PricesAreKnown
<1>2. LastDay \in 0 .. LastDay
  BY TokenAssumption
<1>. QED  BY <1>1, <1>2, ReportTells

\* Whatever step showed the report, the books tell what the rows after it changed.
LEMMA ShownTells ==
  ASSUME NEW happened, NEW today, Stored(rows', happened, today), \A n \in DOMAIN happened : priced'[n] \in Nat, Show
  PROVE  BooksTold'
<1>1. \A t \in Token : books'[t] = CalculateProfitLoss(ReportOf(rows'), priced', t, LastDay)
  BY DEF Show, ReportOf
<1>2. \A t \in Token : Tells(books'[t], ReportOf(rows'), t, LastDay)
  BY <1>1, ShowTells
<1>. QED  BY <1>2 DEF BooksTold

\* No rows changed nothing.
LEMMA NothingYet ==
  ASSUME NEW t \in Token, NEW d \in Nat, NEW pass, pass = Pass(Rest, t)
  PROVE  ChangedUntil(pass, d) = 0 /\ StakedUntil(pass, d) = 0
<1>1. Places(Rest, t) = {}
  <2>. SUFFICES ASSUME NEW p \in Places(Rest, t) PROVE FALSE
    OBVIOUS
  <2>1. p[1] \in DOMAIN Account /\ p[2] \in DOMAIN Rest[Account[p[1]]][t]
    BY PlaceFacts
  <2>2. Account[p[1]] \in Accounts
    BY <2>1, AccountFacts DEF Bijection, Injection
  <2>3. Rest[Account[p[1]]][t] = <<>>
    BY <2>2 DEF Rest
  <2>. QED  BY <2>1, <2>3
<1>2. DOMAIN pass = {}
  BY <1>1, NothingStored, PassIs
<1>3. OutsideUntil(pass, d) = {} /\ InPoolsUntil(pass, d) = {}
  BY <1>2 DEF OutsideUntil, InPoolsUntil
<1>. QED  BY <1>3, SumEmpty DEF ChangedUntil, StakedUntil

\* Empty books tell of no rows.
LEMMA NothingTells ==
  ASSUME NEW t \in Token
  PROVE  Tells(EmptyBook, ReportOf(Rest), t, LastDay)
<1>1. PICK P, b : P = ReportOf(Rest) /\ b = EmptyBook
  OBVIOUS
<1>2. Stored(Rest, <<>>, 0)
  BY NothingStored
<1>3. Tells(b, P, t, 0)
  BY <1>1, <1>2, PassesAre, NothingTold
<1>4. P[t] = Pass(Rest, t) /\ LastDay \in Nat
  BY <1>1, TokenAssumption DEF ReportOf
<1>5. ChangedUntil(P[t], 0) = 0 /\ ChangedUntil(P[t], LastDay) = 0
  BY <1>4, NothingYet
<1>6. b.short \in Nat /\ b.short <= 0 /\ b.swaps = {}
  <2>1. b.short = 0 /\ b.swaps = {}
    BY <1>1 DEF EmptyBook
  <2>. QED  BY <2>1
<1>7. Net(b) = b.expense + ChangedUntil(P[t], LastDay)
  BY <1>3, <1>5 DEF Tells
<1>8. \A most \in Nat : b.short <= most
  BY <1>6
<1>9. Tells(b, P, t, LastDay)
  BY <1>3, <1>6, <1>7, <1>8 DEF Tells
<1>. QED  BY <1>1, <1>9

\* The invariant holds initially.
LEMMA InitTells ==
  ASSUME Init
  PROVE  BooksInv
<1>1. deeds \in Scenario /\ DOMAIN deeds = 1 .. Len(deeds) /\ Len(deeds) \in Nat
  BY ScenarioAssumption DEF Init
<1>2. rows = Rest /\ done = <<>> /\ day = 1 /\ day \in 1 .. LastDay
  BY TokenAssumption DEF Init, Rest
<1>3. Stored(rows, done, day)
  BY <1>2, NothingStored
<1>4. priced \in [DOMAIN deeds -> Nat]
  BY DEF Init, NoPrice
<1>5. RewardsOf(done) = 0
  <2>1. DOMAIN [n \in DOMAIN done |-> done[n].reward] = {}
    BY <1>2
  <2>. QED  BY <2>1, SumEmpty DEF RewardsOf, SumFunction
<1>6. StakeTold
  <2>1. stake \in [1 .. LastDay -> Nat] /\ \A d \in 1 .. LastDay : stake[d] = 0
    BY DEF Init
  <2>2. Near \in Token
    BY TokenAssumption
  <2>3. \A d \in Nat : StakedUntil(Pass(rows, Near), d) = 0
    BY <1>2, <2>2, NothingYet
  <2>4. \A d \in 1 .. day : d \in Nat /\ d \in 1 .. LastDay
    BY <1>2
  <2>. QED  BY <1>2, <1>5, <2>1, <2>3, <2>4 DEF StakeTold
<1>7. BooksTold
  <2>1. \A t \in Token : books[t] = EmptyBook
    BY DEF Init
  <2>. QED  BY <1>2, <2>1, NothingTells DEF BooksTold
<1>8. Len(done) <= Len(deeds)
  BY <1>1, <1>2
<1>. QED  BY <1>1, <1>2, <1>3, <1>4, <1>6, <1>7, <1>8 DEF BooksInv

\* Every deed of the scenario is one of those assumed possible.
LEMMA DeedPossible ==
  ASSUME deeds \in Scenario, NEW n \in DOMAIN deeds, NEW deed \in deeds[n]
  PROVE  deed \in AllDeeds
<1>1. deed \in UNION {deeds[k] : k \in DOMAIN deeds}
  OBVIOUS
<1>. QED  BY <1>1 DEF AllDeeds

\* What Happen does.
LEMMA HappenIs ==
  ASSUME BooksInv, Len(done) < Len(deeds), NEW deed \in deeds[Len(done) + 1], Happen(deed)
  PROVE  /\ Happens(deed, Len(done) + 1, done', rows')
         /\ stake' = [stake EXCEPT ![day] = stake[day] + deed.reward - SumFunction([m \in Staked(deed) |-> m.amount])]
         /\ stake[day] + deed.reward - SumFunction([m \in Staked(deed) |-> m.amount]) >= 0
         /\ UNCHANGED <<deeds, day, priced>>
<1>1. Stored(rows, done, day) /\ day \in Nat \ {0} /\ deeds \in Scenario
  BY TokenAssumption DEF BooksInv
<1>2. Len(done) + 1 \in DOMAIN deeds
  <2>1. DOMAIN deeds = 1 .. Len(deeds) /\ Len(deeds) \in Nat
    BY <1>1, ScenarioAssumption
  <2>2. Len(done) \in Nat
    BY <1>1, ListedFacts DEF Stored
  <2>. QED  BY <2>1, <2>2
<1>3. deed \in AllDeeds
  BY <1>1, <1>2, DeedPossible
<1>4. rows' = RowsAfter(deed, Len(done) + 1)
  BY DEF Happen, RowsAfter, RowFor, MovesOf
<1>5. Affords(deed) /\ done' = Append(done, deed) /\ UNCHANGED <<deeds, day, priced>>
  BY DEF Happen, Affords
<1>6. /\ stake' = [stake EXCEPT ![day] = stake[day] + deed.reward - SumFunction([m \in Staked(deed) |-> m.amount])]
      /\ stake[day] + deed.reward - SumFunction([m \in Staked(deed) |-> m.amount]) >= 0
  BY DEF Happen, Staked
<1>. QED  BY <1>1, <1>3, <1>4, <1>5, <1>6 DEF Happens

\* A deed preserves the invariant.
LEMMA HappenTells ==
  ASSUME BooksInv, Len(done) < Len(deeds), NEW deed \in deeds[Len(done) + 1], Happen(deed), Show
  PROVE  BooksInv'
<1>1. PICK n, later, new : n = Len(done) + 1 /\ later = done' /\ new = rows'
  OBVIOUS
<1>. DEFINE added == SumFunction([m \in Staked(deed) |-> m.amount])
<1>2. /\ Happens(deed, n, later, new) /\ UNCHANGED <<deeds, day, priced>>
      /\ stake' = [stake EXCEPT ![day] = stake[day] + deed.reward - added]
      /\ stake[day] + deed.reward - added >= 0
  BY <1>1, HappenIs
<1>3. /\ Stored(rows, done, day) /\ day \in Nat \ {0} /\ deed \in AllDeeds /\ later = Append(done, deed)
      /\ day \in 1 .. LastDay /\ deeds \in Scenario /\ priced \in [DOMAIN deeds -> Nat]
  BY <1>2, TokenAssumption DEF Happens, BooksInv
<1>4. Stored(new, later, day) /\ GrowsBy(rows, new, later, day, n)
  BY <1>2, HappensFacts
<1>5. DOMAIN later = 1 .. Len(later) /\ Len(later) \in Nat /\ Len(later) <= Len(deeds)
  <2>1. PICK l \in Nat : l = Len(done)
    BY <1>3, ListedFacts DEF Stored
  <2>2. Listed(done)
    BY <1>3 DEF Stored
  <2>3. Len(later) = l + 1
    BY <1>3, <2>1, <2>2, OneAppended
  <2>4. DOMAIN later = 1 .. l + 1
    BY <1>3, <2>1, <2>2, OneAppended
  <2>5. Len(deeds) \in Nat
    BY <1>3, ScenarioAssumption
  <2>. QED  BY <2>1, <2>3, <2>4, <2>5
<1>6. \A k \in DOMAIN done' : priced'[k] \in Nat
  <2>1. DOMAIN deeds = 1 .. Len(deeds) /\ Len(deeds) \in Nat
    BY <1>3, ScenarioAssumption
  <2>2. \A k \in DOMAIN later : k \in DOMAIN deeds
    BY <1>5, <2>1
  <2>. QED  BY <1>1, <1>2, <1>3, <2>2
<1>7. BooksTold'
  BY <1>1, <1>4, <1>6, ShownTells
<1>8. /\ RewardsOf(done) \in Nat /\ deed.reward \in Nat /\ RewardsOf(later) = RewardsOf(done) + deed.reward
  BY <1>3, RewardsAppended
<1>9. StakeTold'
  <2>1. PICK old, pass : old = Pass(rows, Near) /\ pass = Pass(new, Near)
    OBVIOUS
  <2>2. /\ \A d \in 1 .. day : d < day => StakedUntil(pass, d) = StakedUntil(old, d)
        /\ StakedUntil(pass, day) = StakedUntil(old, day) + added
    <3>1. Near \in Token
      BY TokenAssumption
    <3>2. SumFunctionOnSet(ChangeOf(pass), NewIn(rows, new, Near)) = added
      BY <1>2, <2>1, StakedAdded
    <3>3. \A d \in 1 .. day : d \in Nat
      OBVIOUS
    <3>. HIDE DEF added
    <3>4. \A d \in 1 .. day : d < day => StakedUntil(pass, d) = StakedUntil(old, d)
      BY <1>3, <1>4, <2>1, <3>1, <3>3, StakedGrown
    <3>5. StakedUntil(pass, day) = StakedUntil(old, day) + SumFunctionOnSet(ChangeOf(pass), NewIn(rows, new, Near))
      BY <1>3, <1>4, <2>1, <3>1, StakedGrown
    <3>. QED  BY <3>2, <3>4, <3>5
  <2>3. \A d \in 1 .. day : StakedUntil(pass, d) \in Int /\ StakedUntil(old, d) \in Int
    <3>. SUFFICES ASSUME NEW d \in 1 .. day PROVE StakedUntil(pass, d) \in Int /\ StakedUntil(old, d) \in Int
      OBVIOUS
    <3>1. d \in Nat /\ Near \in Token
      BY TokenAssumption
    <3>. QED  BY <1>3, <1>4, <2>1, <3>1, BalancesUntil
  <2>4. /\ stake \in [1 .. LastDay -> Nat]
        /\ \A d \in 1 .. day : stake[d] + StakedUntil(old, d) <= RewardsOf(done)
        /\ stake[day] + StakedUntil(old, day) = RewardsOf(done)
    BY <2>1 DEF BooksInv, StakeTold
  <2>5. day \in 1 .. day
    BY <1>3
  <2>6. added \in Int
    <3>1. Near \in Token
      BY TokenAssumption
    <3>2. StakedUntil(pass, day) \in Int /\ StakedUntil(old, day) \in Int
      BY <2>3, <2>5
    <3>3. Possible(deed)
      BY <1>3, DeedFacts
    <3>4. IsFiniteSet(deed.moves) /\ Staked(deed) \subseteq deed.moves /\ \A m \in deed.moves : m.amount \in Int
      BY <3>3 DEF Possible, Staked
    <3>5. IsFiniteSet(Staked(deed))
      BY <3>4, FS_Subset
    <3>6. PICK w : w = [m \in Staked(deed) |-> m.amount]
      OBVIOUS
    <3>7. DOMAIN w = Staked(deed) /\ \A m \in Staked(deed) : w[m] \in Int
      BY <3>4, <3>6
    <3>8. SumFunctionOnSet(w, Staked(deed)) \in Int
      BY <3>5, <3>7, SumSplit
    <3>. QED  BY <3>6, <3>7, <3>8 DEF SumFunction
  <2>. HIDE DEF added
  <2>7. stake[day] \in Nat
    BY <1>3, <2>4
  <2>8. PICK held \in Nat : held = stake[day] + deed.reward - added
    BY <1>2, <1>8, <2>6, <2>7
  <2>9. stake' = [stake EXCEPT ![day] = held]
    BY <1>2, <2>8
  <2>10. stake' \in [1 .. LastDay -> Nat]
    BY <2>4, <2>9
  <2>11. stake'[day] = held /\ \A d \in 1 .. LastDay : d # day => stake'[d] = stake[d]
    BY <1>3, <2>4, <2>9
  <2>12. held + StakedUntil(pass, day) = RewardsOf(later)
    <3>1. PICK x \in Int, y \in Int, z \in Int : x = StakedUntil(old, day) /\ y = added /\ z = stake[day]
      BY <2>3, <2>5, <2>6, <2>7
    <3>2. PICK i \in Int, j \in Int : i = RewardsOf(done) /\ j = deed.reward
      BY <1>8
    <3>3. /\ held = z + j - y /\ z + x = i /\ RewardsOf(later) = i + j
          /\ StakedUntil(pass, day) = x + y
      BY <1>8, <2>2, <2>4, <2>8, <3>1, <3>2
    <3>. QED  BY <3>3
  <2>13. ASSUME NEW d \in 1 .. day PROVE stake'[d] + StakedUntil(pass, d) <= RewardsOf(later)
    <3>1. CASE d = day
      BY <1>8, <2>11, <2>12, <3>1
    <3>2. CASE d # day
      <4>1. d < day /\ d \in 1 .. LastDay
        <5>1. day \in Nat /\ LastDay \in Nat /\ day <= LastDay
          BY <1>3, TokenAssumption
        <5>. QED  BY <3>2, <5>1
      <4>2. stake'[d] = stake[d] /\ stake[d] \in Nat
        BY <2>4, <2>11, <3>2, <4>1
      <4>3. StakedUntil(pass, d) = StakedUntil(old, d) /\ StakedUntil(old, d) \in Int
        BY <2>2, <2>3, <4>1
      <4>4. stake[d] + StakedUntil(old, d) <= RewardsOf(done)
        BY <2>4
      <4>. QED  BY <1>8, <4>2, <4>3, <4>4
    <3>. QED  BY <3>1, <3>2
  <2>. QED  BY <1>1, <1>2, <2>1, <2>10, <2>11, <2>12, <2>13 DEF StakeTold
<1>. HIDE DEF added
<1>. QED  BY <1>1, <1>2, <1>3, <1>4, <1>5, <1>7, <1>9 DEF BooksInv

\* A sample preserves the invariant: books, holdings and pools stay as they were.
LEMMA ObserveTells ==
  ASSUME BooksInv, NEW a \in Accounts, NEW t \in Sampled, NEW shown \in {0, 2}, Observe(a, t, shown), Show
  PROVE  BooksInv'
<1>1. PICK new : new = rows'
  OBVIOUS
<1>2. /\ Stored(rows, done, day) /\ day \in Nat \ {0} /\ t \in Token /\ shown \in Int
      /\ deeds \in Scenario /\ priced \in [DOMAIN deeds -> Nat] /\ Len(done) <= Len(deeds)
  BY TokenAssumption DEF BooksInv
<1>3. UNCHANGED <<deeds, day, done, priced, stake>>
  BY Zenon DEF Observe
<1>4. OneRow(new, a, t, SampleOf(a, t, shown))
  <2>1. rows' = [rows EXCEPT ![a][t] = Append(@, SampleOf(a, t, shown))]
    BY Zenon DEF Observe, SampleOf, SampleHash
  <2>. QED  BY <1>1, <1>2, <2>1, OneRowAdded
<1>5. ASSUME NEW b \in Accounts, NEW u \in Token, NEW k \in DOMAIN rows[b][u] PROVE rows[b][u][k].real
  <2>1. rows[b][u][k] \in Range(rows[b][u])
    BY DEF Range
  <2>. QED  BY <2>1, Zenon DEF Observe
<1>6. Stored(new, done, day) /\ GrowsBy(rows, new, done, day, 0) /\ NewIn(rows, new, Near) = {}
  BY <1>2, <1>4, <1>5, SampleGrows
<1>7. \A k \in DOMAIN done' : priced'[k] \in Nat
  <2>1. DOMAIN deeds = 1 .. Len(deeds) /\ Len(deeds) \in Nat
    BY <1>2, ScenarioAssumption
  <2>2. DOMAIN done = 1 .. Len(done) /\ Len(done) \in Nat
    BY <1>2, ListedFacts DEF Stored
  <2>3. \A k \in DOMAIN done : k \in DOMAIN deeds
    BY <1>2, <2>1, <2>2
  <2>. QED  BY <1>2, <1>3, <2>3
<1>8. BooksTold'
  BY <1>1, <1>3, <1>6, <1>7, ShownTells
<1>9. StakeTold'
  <2>1. PICK old, pass : old = Pass(rows, Near) /\ pass = Pass(new, Near)
    OBVIOUS
  <2>2. Near \in Token
    BY TokenAssumption
  <2>3. ASSUME NEW d \in 1 .. day PROVE StakedUntil(pass, d) = StakedUntil(old, d)
    <3>1. d \in Nat
      OBVIOUS
    <3>2. d < day => StakedUntil(pass, d) = StakedUntil(old, d)
      BY <1>2, <1>6, <2>1, <2>2, <3>1, StakedGrown
    <3>3. StakedUntil(pass, day) = StakedUntil(old, day) + SumFunctionOnSet(ChangeOf(pass), {})
      <4>1. StakedUntil(pass, day) = StakedUntil(old, day) + SumFunctionOnSet(ChangeOf(pass), NewIn(rows, new, Near))
        <5>1. PICK x : x = 0
          OBVIOUS
        <5>2. day \in Nat \ {0} /\ Stored(rows, done, day) /\ Stored(new, done, day) /\ GrowsBy(rows, new, done, day, x)
          BY <1>2, <1>6, <5>1
        <5>3. day <= day /\ day \in Nat
          BY <1>2
        <5>. QED  BY <5>2, <5>3, <2>1, <2>2, StakedGrown
      <4>. QED  BY <1>6, <4>1
    <3>4. SumFunctionOnSet(ChangeOf(pass), {}) = 0
      BY SumEmpty
    <3>5. StakedUntil(old, d) \in Int
      BY <1>2, <2>1, <2>2, <3>1, BalancesUntil
    <3>6. d < day \/ d = day
      BY <1>2
    <3>. QED  BY <3>2, <3>3, <3>4, <3>5, <3>6
  <2>4. day \in 1 .. day
    BY <1>2
  <2>5. StakeTold
    BY DEF BooksInv
  <2>. QED  BY <1>1, <1>3, <2>1, <2>3, <2>4, <2>5 DEF StakeTold
<1>. QED  BY <1>1, <1>2, <1>3, <1>6, <1>8, <1>9 DEF BooksInv

\* A price the owner enters preserves the invariant: it changes values, not amounts.
LEMMA EnterPriceTells ==
  ASSUME BooksInv, NEW n \in DOMAIN done, NEW price \in OwnerPrice, EnterPrice(n, price), Show
  PROVE  BooksInv'
<1>1. UNCHANGED <<deeds, rows, day, done, stake>> /\ priced' = [priced EXCEPT ![n] = price]
  BY DEF EnterPrice
<1>2. price \in Nat
  BY TokenAssumption
<1>3. /\ Stored(rows, done, day) /\ deeds \in Scenario /\ priced \in [DOMAIN deeds -> Nat]
      /\ Len(done) <= Len(deeds) /\ StakeTold
  BY DEF BooksInv
<1>4. priced' \in [DOMAIN deeds -> Nat]
  BY <1>1, <1>2, <1>3
<1>5. \A k \in DOMAIN done' : priced'[k] \in Nat
  <2>1. DOMAIN deeds = 1 .. Len(deeds) /\ Len(deeds) \in Nat
    BY <1>3, ScenarioAssumption
  <2>2. DOMAIN done = 1 .. Len(done) /\ Len(done) \in Nat
    BY <1>3, ListedFacts DEF Stored
  <2>3. \A k \in DOMAIN done : k \in DOMAIN deeds
    BY <1>3, <2>1, <2>2
  <2>. QED  BY <1>1, <1>4, <2>3
<1>6. Stored(rows', done', day)
  BY <1>1, <1>3
<1>7. BooksTold'
  BY <1>5, <1>6, ShownTells
<1>8. StakeTold'
  BY <1>1, <1>3 DEF StakeTold
<1>. QED  BY <1>1, <1>3, <1>4, <1>7, <1>8 DEF BooksInv

\* The next day preserves the invariant.
LEMMA NextDayTells ==
  ASSUME BooksInv, NextDay, Show
  PROVE  BooksInv'
<1>1. /\ UNCHANGED <<deeds, rows, done, priced>> /\ day' = day + 1 /\ day < LastDay
      /\ stake' = [stake EXCEPT ![day + 1] = stake[day]]
  BY DEF NextDay
<1>2. /\ Stored(rows, done, day) /\ deeds \in Scenario /\ priced \in [DOMAIN deeds -> Nat]
      /\ Len(done) <= Len(deeds) /\ StakeTold /\ day \in 1 .. LastDay
  BY DEF BooksInv
<1>3. day \in Nat /\ day + 1 \in Nat /\ day + 1 \in 1 .. LastDay /\ day <= day + 1 /\ day + 1 # day
  BY <1>1, <1>2, TokenAssumption
<1>4. Stored(rows, done, day + 1)
  BY <1>2, <1>3, StoredLater
<1>5. \A k \in DOMAIN done' : priced'[k] \in Nat
  <2>1. DOMAIN deeds = 1 .. Len(deeds) /\ Len(deeds) \in Nat
    BY <1>2, ScenarioAssumption
  <2>2. DOMAIN done = 1 .. Len(done) /\ Len(done) \in Nat
    BY <1>2, ListedFacts DEF Stored
  <2>3. \A k \in DOMAIN done : k \in DOMAIN deeds
    BY <1>2, <2>1, <2>2
  <2>. QED  BY <1>1, <1>2, <2>3
<1>6. BooksTold'
  <2>1. Stored(rows', done', day')
    BY <1>1, <1>4
  <2>. QED  BY <1>5, <2>1, ShownTells
<1>7. StakeTold'
  <2>1. PICK pass : pass = Pass(rows, Near)
    OBVIOUS
  <2>2. Near \in Token
    BY TokenAssumption
  <2>3. StakedUntil(pass, day + 1) = StakedUntil(pass, day) /\ StakedUntil(pass, day) \in Int
    <3>1. StakedUntil(pass, day + 1) = StakedUntil(pass, day)
      BY <1>2, <1>3, <2>1, <2>2, UntilLater
    <3>2. StakedUntil(pass, day) \in Int
      BY <1>2, <1>3, <2>1, <2>2, BalancesUntil
    <3>. QED  BY <3>1, <3>2
  <2>4. /\ stake \in [1 .. LastDay -> Nat]
        /\ \A d \in 1 .. day : stake[d] + StakedUntil(pass, d) <= RewardsOf(done)
        /\ stake[day] + StakedUntil(pass, day) = RewardsOf(done)
    BY <1>2, <2>1 DEF StakeTold
  <2>5. stake' \in [1 .. LastDay -> Nat] /\ stake'[day + 1] = stake[day]
        /\ \A d \in 1 .. LastDay : d # day + 1 => stake'[d] = stake[d]
    BY <1>1, <1>2, <1>3, <2>4
  <2>6. stake'[day + 1] + StakedUntil(pass, day + 1) = RewardsOf(done)
    BY <2>3, <2>4, <2>5
  <2>7. ASSUME NEW d \in 1 .. day + 1 PROVE stake'[d] + StakedUntil(pass, d) <= RewardsOf(done)
    <3>1. CASE d = day + 1
      <4>1. stake[day] \in Nat /\ RewardsOf(done) \in Int
        BY <1>2, <2>3, <2>4
      <4>. QED  BY <2>6, <3>1, <4>1
    <3>2. CASE d # day + 1
      <4>1. d \in 1 .. day /\ d \in 1 .. LastDay
        <5>1. day \in Nat /\ LastDay \in Nat /\ day <= LastDay
          BY <1>2, TokenAssumption
        <5>. QED  BY <3>2, <5>1
      <4>. QED  BY <2>4, <2>5, <3>2, <4>1
    <3>. QED  BY <3>1, <3>2
  <2>. QED  BY <1>1, <2>1, <2>5, <2>6, <2>7 DEF StakeTold
<1>. QED  BY <1>1, <1>2, <1>3, <1>4, <1>6, <1>7 DEF BooksInv

\* Every step preserves the invariant.
LEMMA StepTells ==
  ASSUME BooksInv, [Next]_vars
  PROVE  BooksInv'
<1>1. ASSUME Len(done) < Len(deeds), NEW deed \in deeds[Len(done) + 1], Happen(deed), Show PROVE BooksInv'
  BY <1>1, HappenTells
<1>2. ASSUME NEW a \in Accounts, NEW t \in Sampled, NEW shown \in {0, 2}, Observe(a, t, shown), Show PROVE BooksInv'
  BY <1>2, ObserveTells
<1>3. ASSUME NEW n \in DOMAIN done, NEW price \in OwnerPrice, EnterPrice(n, price), Show PROVE BooksInv'
  BY <1>3, EnterPriceTells
<1>4. ASSUME NextDay, Show PROVE BooksInv'
  BY <1>4, NextDayTells
<1>5. CASE UNCHANGED vars
  BY <1>5 DEF vars, BooksInv, StakeTold, BooksTold
<1>. QED  BY <1>1, <1>2, <1>3, <1>4, <1>5 DEF Next

\* The inductive invariant of the books: the rows are stored rows of what happened (yearreportdata.js:
\* derived anew from the storage), the pools hold what was given to them and the rewards, and each
\* book tells what the rows changed.
THEOREM BooksInvariant == Spec => []BooksInv
<1>1. Init => BooksInv
  BY InitTells
<1>2. BooksInv /\ [Next]_vars => BooksInv'
  BY StepTells
<1>. QED  BY <1>1, <1>2, PTL DEF Spec

\* Only NEAR goes to pools.
LEMMA NoPoolElsewhere ==
  ASSUME NEW rs, NEW happened, NEW today, Stored(rs, happened, today), NEW t \in Token, t # Near, NEW d \in Nat
  PROVE  StakedUntil(Pass(rs, t), d) = 0
<1>1. PICK pass : pass = Pass(rs, t)
  OBVIOUS
<1>2. DOMAIN pass = Places(rs, t)
  BY <1>1, PassIs
<1>3. ASSUME NEW p \in Places(rs, t) PROVE pass[p].peer \notin StakingPool
  <2>1. PICK a, s, k : a = Account[p[1]] /\ s = rs[a][t] /\ k = p[2]
    OBVIOUS
  <2>2. a \in Accounts /\ k \in DOMAIN s /\ RowsOf(s, a, t, happened, today) /\ pass[p].peer = s[k].peer
    BY ONLY <1>1, <2>1, Stored(rs, happened, today), PassAt
  <2>3. PICK r : r = s[k]
    OBVIOUS
  <2>4. IsBehind(r, happened, Changed(s, k)) /\ r.token = t
    BY <2>1, <2>2, <2>3, RowFacts, Zenon DEF RowsOf
  <2>5. ASSUME NEW n, NEW m, OfMove(r, happened, n, m, Changed(s, k)) PROVE r.peer \notin StakingPool
    <3>1. /\ n \in Nat /\ happened[n] \in AllDeeds /\ m \in happened[n].moves
          /\ r.peer = PeerOf(m, n) /\ m.token = t
      BY <2>4, <2>5 DEF OfMove, Stores
    <3>2. m.peer \notin StakingPool
      BY <3>1, DeedFacts DEF Possible
    <3>. QED  BY <3>1, <3>2, HashFacts
  <2>. QED  BY <2>2, <2>3, <2>4, <2>5 DEF IsBehind
<1>4. InPoolsUntil(pass, d) = {}
  BY <1>2, <1>3 DEF InPoolsUntil
<1>. QED  BY <1>1, <1>4, SumEmpty DEF StakedUntil

\* What was paid to an owner who stakes is all that a book can lack.
MayLack(t) == IF t = Near THEN RewardsOf(done) ELSE 0

\* Until no day the pools were given less than they hold less the rewards.
LEMMA RewardsTyped ==
  ASSUME BooksInv
  PROVE  RewardsOf(done) \in Nat /\ \A d \in 1 .. LastDay : StakedUntil(Pass(rows, Near), d) <= RewardsOf(done)
<1>1. /\ Stored(rows, done, day) /\ day \in Nat /\ day \in 1 .. LastDay /\ day \in 1 .. day
      /\ Near \in Token /\ LastDay \in Nat
  BY TokenAssumption DEF BooksInv
<1>2. PICK pass : pass = Pass(rows, Near)
  OBVIOUS
<1>3. /\ stake \in [1 .. LastDay -> Nat]
      /\ \A d \in 1 .. day : stake[d] + StakedUntil(pass, d) <= RewardsOf(done)
      /\ stake[day] + StakedUntil(pass, day) = RewardsOf(done)
  BY <1>2 DEF BooksInv, StakeTold
<1>4. ASSUME NEW d \in 1 .. LastDay PROVE StakedUntil(pass, d) \in Int
  <2>1. d \in Nat
    BY <1>1
  <2>. QED  BY <1>1, <1>2, <2>1, BalancesUntil
<1>5. \A n \in DOMAIN done : done[n].reward \in Nat
  <2>1. \A n \in DOMAIN done : done[n] \in AllDeeds
    BY <1>1 DEF Stored
  <2>. QED  BY <2>1, DeedFacts DEF Possible
<1>6. RewardsOf(done) \in Nat
  <2>1. PICK w : w = [n \in DOMAIN done |-> done[n].reward]
    OBVIOUS
  <2>2. DOMAIN w = DOMAIN done /\ \A n \in DOMAIN done : w[n] \in Nat
    BY <1>5, <2>1
  <2>3. PICK l \in Nat : l = Len(done) /\ DOMAIN done = 1 .. l
    BY <1>1, ListedFacts DEF Stored
  <2>4. IsFiniteSet(1 .. l)
    BY FS_Interval
  <2>5. IsFiniteSet(DOMAIN done)
    BY <2>3, <2>4
  <2>6. SumFunctionOnSet(w, DOMAIN done) \in Nat
    BY <2>2, <2>5, SumNat
  <2>. QED  BY <2>1, <2>2, <2>6 DEF RewardsOf, SumFunction
<1>7. ASSUME NEW d \in 1 .. LastDay, d <= day PROVE StakedUntil(pass, d) <= RewardsOf(done)
  <2>1. d \in 1 .. day
    BY <1>1, <1>7
  <2>2. stake[d] \in Nat /\ stake[d] + StakedUntil(pass, d) <= RewardsOf(done) /\ StakedUntil(pass, d) \in Int
    BY <1>3, <1>4, <2>1
  <2>. QED  BY <1>6, <2>2
<1>8. ASSUME NEW d \in 1 .. LastDay, day <= d PROVE StakedUntil(pass, d) <= RewardsOf(done)
  <2>1. d \in Nat
    BY <1>1
  <2>2. StakedUntil(pass, d) = StakedUntil(pass, day)
    BY <1>1, <1>2, <1>8, <2>1, UntilLater
  <2>3. day <= day
    BY <1>1
  <2>. QED  BY <1>1, <1>7, <2>2, <2>3
<1>9. \A d \in 1 .. LastDay : d <= day \/ day <= d
  BY <1>1
<1>. QED  BY <1>2, <1>6, <1>7, <1>8, <1>9

\* For every scenario, at every step: what the open positions of a token hold is what the accounts
\* and pools hold of it, with expenses and what a position could not cover (calculateProfitLoss and
\* processAccount over all rows and hashes).
THEOREM HoldingsAlwaysMatch == Spec => []HoldingsMatch
<1>1. BooksInv => HoldingsMatch
  <2>. SUFFICES ASSUME BooksInv, NEW t \in Token
                PROVE  RemainingOf(books[t])
                       = SumFunction([a \in Accounts |-> Held(a, t)])
                         + (IF t = Near THEN stake[day] - RewardsOf(done) ELSE 0)
                         + books[t].expense + books[t].short
    BY DEF HoldingsMatch
  <2>1. /\ Stored(rows, done, day) /\ day \in Nat /\ day <= LastDay /\ day \in 1 .. LastDay /\ LastDay \in Nat
    BY TokenAssumption DEF BooksInv
  <2>2. PICK b, pass : b = books[t] /\ pass = Pass(rows, t)
    OBVIOUS
  <2>3. /\ IsBook(b) /\ b.short \in Nat /\ b.expense \in Nat
        /\ RemainingOf(b) - b.short = b.expense + ChangedUntil(pass, LastDay)
    BY <2>2 DEF BooksInv, BooksTold, Tells, ReportOf, Net
  <2>4. RemainingOf(b) \in Int
    BY <2>3, NumbersTyped
  <2>5. /\ ChangedUntil(pass, LastDay) \in Int /\ StakedUntil(pass, LastDay) \in Int
        /\ ChangedUntil(pass, LastDay) + StakedUntil(pass, LastDay) = HeldInAll(rows, t)
    BY <2>1, <2>2, BalancesUntil
  <2>6. HeldInAll(rows, t) = SumFunction([a \in Accounts |-> Held(a, t)])
    <3>1. PICK w, v : w = [a \in Accounts |-> HeldOf(rows[a][t])] /\ v = [a \in Accounts |-> Held(a, t)]
      OBVIOUS
    <3>2. \A a \in Accounts : w[a] = v[a]
      BY <2>1, <3>1, HeldIs
    <3>3. w = v /\ DOMAIN v = Accounts
      BY <3>1, <3>2
    <3>. QED  BY <3>1, <3>3 DEF HeldInAll, SumFunction
  <2>7. PICK held, pool, paid : held = SumFunction([a \in Accounts |-> Held(a, t)]) /\ pool = stake[day]
                                /\ paid = RewardsOf(done)
    OBVIOUS
  <2>8. pool \in Int /\ paid \in Int
    BY <2>1, <2>7, RewardsTyped DEF BooksInv, StakeTold
  <2>9. StakedUntil(pass, LastDay) = IF t = Near THEN paid - pool ELSE 0
    <3>1. CASE t = Near
      <4>1. StakedUntil(pass, LastDay) = StakedUntil(pass, day)
        BY <2>1, <2>2, UntilLater
      <4>2. pool + StakedUntil(pass, day) = paid
        BY <2>2, <2>7, <3>1 DEF BooksInv, StakeTold
      <4>. QED  BY <2>5, <2>8, <3>1, <4>1, <4>2
    <3>2. CASE t # Near
      BY <2>1, <2>2, <3>2, NoPoolElsewhere
    <3>. QED  BY <3>1, <3>2
  <2>10. held = ChangedUntil(pass, LastDay) + StakedUntil(pass, LastDay)
    BY <2>5, <2>6, <2>7
  <2>11. PICK c \in Int, s \in Int, o \in Int, e \in Int, h \in Int :
           /\ c = ChangedUntil(pass, LastDay) /\ s = StakedUntil(pass, LastDay)
           /\ o = RemainingOf(b) /\ e = b.expense /\ h = b.short
    BY <2>3, <2>4, <2>5
  <2>12. o - h = e + c /\ held = c + s /\ s = IF t = Near THEN paid - pool ELSE 0
    BY <2>3, <2>9, <2>10, <2>11
  <2>13. o = held + (IF t = Near THEN pool - paid ELSE 0) + e + h
    <3>1. CASE t = Near
      BY <2>8, <2>12, <3>1
    <3>2. CASE t # Near
      BY <2>12, <3>2
    <3>. QED  BY <3>1, <3>2
  <2>. QED  BY <2>2, <2>7, <2>11, <2>13
<1>. QED  BY <1>1, BooksInvariant, PTL

\* For every scenario, at every step: a withdrawal larger than the open positions ("should not happen",
\* calculateProfitLoss) happens only to NEAR, and by no more than the staking rewards.
THEOREM NeverShortButForRewards == Spec => []ShortOnlyForRewards
<1>1. BooksInv => ShortOnlyForRewards
  <2>. SUFFICES ASSUME BooksInv, NEW t \in Token
                PROVE  books[t].short <= MayLack(t)
    BY DEF ShortOnlyForRewards, MayLack
  <2>1. Stored(rows, done, day) /\ LastDay \in Nat
    BY TokenAssumption DEF BooksInv
  <2>2. PICK b, pass : b = books[t] /\ pass = Pass(rows, t)
    OBVIOUS
  <2>3. \A most \in Nat : (\A k \in 1 .. LastDay : -ChangedUntil(pass, k) <= most) => b.short <= most
    BY <2>2 DEF BooksInv, BooksTold, Tells, ReportOf
  <2>4. MayLack(t) \in Nat
    BY RewardsTyped DEF MayLack
  <2>5. ASSUME NEW k \in 1 .. LastDay PROVE -ChangedUntil(pass, k) <= MayLack(t)
    <3>1. k \in Nat
      OBVIOUS
    <3>2. /\ ChangedUntil(pass, k) \in Int /\ StakedUntil(pass, k) \in Int
          /\ ChangedUntil(pass, k) + StakedUntil(pass, k) \in Nat
      BY <2>1, <2>2, <3>1, BalancesUntil
    <3>3. StakedUntil(pass, k) <= MayLack(t)
      <4>1. CASE t = Near
        BY <2>2, <4>1, RewardsTyped DEF MayLack
      <4>2. CASE t # Near
        BY <2>1, <2>2, <3>1, <4>2, NoPoolElsewhere DEF MayLack
      <4>. QED  BY <4>1, <4>2
    <3>. QED  BY <2>4, <3>2, <3>3
  <2>. QED  BY <2>2, <2>3, <2>4, <2>5
<1>. QED  BY <1>1, BooksInvariant, PTL

\* For every scenario, at every step: what was paid for positions is spent or in what is open, and
\* profit less loss is proceeds less what was spent (calculateProfitLoss, its positions' conversion
\* of parts).
THEOREM BooksAlwaysBalance == Spec => []BooksBalance
<1>1. BooksInv => BooksBalance
  <2>. SUFFICES ASSUME BooksInv, NEW t \in Token
                PROVE  /\ books[t].bought = books[t].spent + CostBasis(books[t])
                       /\ books[t].profit - books[t].loss = books[t].proceeds - books[t].spent
    BY DEF BooksBalance
  <2>1. PICK b : b = books[t]
    OBVIOUS
  <2>2. Bounded(ReportOf(rows))
    BY FlowsBounded DEF BooksInv
  <2>3. IsBook(b) /\ Gain(b) = 0 /\ Wholes(b) /\ Paid(b) = 0
    BY <2>1, <2>2 DEF BooksInv, BooksTold, Tells
  <2>4. /\ b.bought \in Int /\ b.spent \in Int /\ b.profit \in Int /\ b.loss \in Int /\ b.proceeds \in Int
        /\ CostBasis(b) \in Int
    BY <2>3, NumbersTyped DEF IsBook
  <2>5. b.bought - b.spent - CostBasis(b) = 0 /\ b.profit - b.loss - (b.proceeds - b.spent) = 0
    BY <2>3 DEF Gain, Paid
  <2>6. PICK bought \in Int, spent \in Int, basis \in Int :
          bought = b.bought /\ spent = b.spent /\ basis = CostBasis(b)
    BY <2>4
  <2>7. PICK profit \in Int, loss \in Int, proceeds \in Int :
          profit = b.profit /\ loss = b.loss /\ proceeds = b.proceeds
    BY <2>4
  <2>8. bought - spent - basis = 0 /\ profit - loss - (proceeds - spent) = 0
    BY <2>5, <2>6, <2>7
  <2>9. bought = spent + basis /\ profit - loss = proceeds - spent
    BY <2>8
  <2>. QED  BY <2>1, <2>6, <2>7, <2>9
<1>. QED  BY <1>1, BooksInvariant, PTL

\* Where a note of a swap comes from.
LEMMA NoteFacts ==
  ASSUME BooksInv, NEW t \in Token, NEW n \in books[t].swaps
  PROVE  \E p \in Places(rows, t) :
           /\ SwapKeyForHash(At(rows, t, p).hash) = n.key
           /\ n.side = "in" \/ books[t].short = 0
              => n.value = FigureOf(ReportOf(rows), n.key, At(rows, t, p).day)
<1>1. Stored(rows, done, day)
  BY DEF BooksInv
<1>2. PICK P, pass, b : P = ReportOf(rows) /\ pass = Pass(rows, t) /\ b = books[t]
  OBVIOUS
<1>3. P[t] = pass /\ DOMAIN pass = Places(rows, t)
  BY <1>1, <1>2, PassIs DEF ReportOf
<1>4. NoteTrue(P, t, n, LastDay, b)
  BY <1>1, <1>2, FlowsBounded DEF BooksInv, BooksTold, Tells
<1>5. PICK p \in DOMAIN pass :
        /\ SwapKeyForHash(pass[p].hash) = n.key
        /\ \/ n.side = "in" /\ n.value = FigureOf(P, n.key, pass[p].day)
           \/ n.side = "out" /\ (b.short = 0 => n.value = FigureOf(P, n.key, pass[p].day))
  BY <1>3, <1>4 DEF NoteTrue
<1>6. PICK a, s, k : a = Account[p[1]] /\ s = rows[a][t] /\ k = p[2]
  OBVIOUS
<1>7. p \in Places(rows, t)
  BY <1>3
<1>8. pass[p].day = s[k].day /\ pass[p].hash = s[k].hash
  BY <1>1, <1>2, <1>6, <1>7, PassAt
<1>9. At(rows, t, p) = s[k]
  BY <1>6 DEF At
<1>10. n.side = "in" \/ b.short = 0 => n.value = FigureOf(P, n.key, pass[p].day)
  BY <1>5
<1>. QED  BY <1>2, <1>5, <1>7, <1>8, <1>9, <1>10

\* Places of one swap key are of one day.
LEMMA PlacesOneDay ==
  ASSUME BooksInv, NEW t \in Token, NEW u \in Token, NEW p \in Places(rows, t), NEW q \in Places(rows, u),
         SwapKeyForHash(At(rows, t, p).hash) = SwapKeyForHash(At(rows, u, q).hash)
  PROVE  At(rows, t, p).day = At(rows, u, q).day
<1>1. PICK a, j, b, k : a = Account[p[1]] /\ j = p[2] /\ b = Account[q[1]] /\ k = q[2]
  OBVIOUS
<1>2. OneDay(rows)
  BY DEF BooksInv, Stored
<1>3. a \in Accounts /\ b \in Accounts /\ j \in DOMAIN rows[a][t] /\ k \in DOMAIN rows[b][u]
  BY <1>1, PlaceFacts, AccountFacts DEF Bijection, Injection
<1>4. At(rows, t, p) = rows[a][t][j] /\ At(rows, u, q) = rows[b][u][k]
  BY <1>1 DEF At
<1>5. rows[a][t][j].hash[1] = rows[b][u][k].hash[1]
  BY <1>4 DEF SwapKeyForHash
<1>6. rows[a][t][j].hash[1][1] = rows[b][u][k].hash[1][1]
  BY <1>5
<1>. QED  BY <1>2, <1>3, <1>4, <1>6, OneDayAt

\* For every scenario, at every step: what one token of a swap was sold for is what the other was
\* bought for (swap-legs.js, and valueSwapsOfDay in both passes).
THEOREM SwapsShareTheirValue == Spec => []SwapValueShared
<1>1. BooksInv => SwapValueShared
  <2>. SUFFICES ASSUME BooksInv, NEW key, NEW i \in Legs(key, "in"), NEW o \in Legs(key, "out"), books[o.token].short = 0
                PROVE  i.value = o.value
    BY DEF SwapValueShared
  <2>1. PICK t \in Token : i \in {[token |-> t, value |-> s.value] : s \in {x \in books[t].swaps :
                                    x.key = key /\ x.side = "in"}}
    BY DEF Legs
  <2>2. PICK u \in Token : o \in {[token |-> u, value |-> s.value] : s \in {x \in books[u].swaps :
                                    x.key = key /\ x.side = "out"}}
    BY DEF Legs
  <2>3. PICK n \in books[t].swaps : n.key = key /\ n.side = "in" /\ i.value = n.value
    BY <2>1
  <2>4. PICK m \in books[u].swaps : m.key = key /\ m.side = "out" /\ o.value = m.value /\ o.token = u
    BY <2>2
  <2>5. PICK p \in Places(rows, t) :
          /\ SwapKeyForHash(At(rows, t, p).hash) = key
          /\ n.value = FigureOf(ReportOf(rows), key, At(rows, t, p).day)
    BY <2>3, NoteFacts
  <2>6. PICK q \in Places(rows, u) :
          /\ SwapKeyForHash(At(rows, u, q).hash) = key
          /\ m.value = FigureOf(ReportOf(rows), key, At(rows, u, q).day)
    BY <2>4, NoteFacts
  <2>7. At(rows, t, p).day = At(rows, u, q).day
    BY <2>5, <2>6, PlacesOneDay
  <2>. QED  BY <2>3, <2>4, <2>5, <2>6, <2>7
<1>. QED  BY <1>1, BooksInvariant, PTL

\* What the portfolio page shows is worked out beside the books and changes nothing of them:
\* with it, they are still books of the year report, and all of the above holds of them.
THEOREM PortfolioKeepsBooks ==
  PortfolioSpec => Spec /\ [](HoldingsMatch /\ BooksBalance /\ ShortOnlyForRewards /\ SwapValueShared)
<1>1. PortfolioInit => Init
  BY DEF PortfolioInit
<1>2. [PortfolioNext]_<<vars, view>> => [Next]_vars
  BY DEF PortfolioNext
<1>3. PortfolioSpec => Spec
  BY <1>1, <1>2, PTL DEF PortfolioSpec, Spec
<1>. QED  BY <1>3, HoldingsAlwaysMatch, BooksAlwaysBalance, NeverShortButForRewards, SwapsShareTheirValue, PTL
=============================================================================

------------------------------ MODULE SumFacts ------------------------------
(* Facts about the community modules' SumFunctionOnSet: sums of integers over  *)
(* finite sets.                                                               *)
EXTENDS Integers, FiniteSets, Functions, FiniteSetTheorems, TLAPS

\* Among the subsets of a finite set, some have none below them.
LEMMA NothingLess ==
  ASSUME NEW H, IsFiniteSet(H), NEW T, T \subseteq SUBSET H, T # {}
  PROVE  \E U \in T : \A V \in T : V \subseteq U => V = U
<1>1. T \subseteq FiniteSubsetsOf(H)
  BY FS_FiniteSubsetsOfFinite
<1>2. PICK U \in T : \A V \in T : ~ (<<V, U>> \in StrictSubsetOrdering(H))
  BY <1>1, FS_StrictSubsetOrderingWellFounded, WFMin
<1>3. \A V \in T : V \subseteq U => V = U
  BY <1>2 DEF StrictSubsetOrdering
<1>. QED  BY <1>3
---------------------------------------------------------------------------
(* Sums over finite sets.  The library's sum is chosen among the functions on the subsets *)
(* that add one element at a time; there is one, and the order does not matter.           *)

OneOf(s) == CHOOSE x \in s : TRUE

\* g[s] is the sum of w over s, for every subset s of H.
Sums(w, H, g) ==
  g = [s \in SUBSET H |-> IF s = {} THEN 0 ELSE w[OneOf(s)] + g[s \ {OneOf(s)}]]

\* What is left of a set without the element that is taken.
LEMMA OneTaken ==
  ASSUME NEW s, s # {}
  PROVE  OneOf(s) \in s /\ s \ {OneOf(s)} \subseteq s /\ s \ {OneOf(s)} # s
BY DEF OneOf

\* Sums of the same elements agree where both are defined.
LEMMA SumsAgree ==
  ASSUME NEW H, IsFiniteSet(H), NEW w, NEW U \in SUBSET H, NEW V \in SUBSET H, NEW g, NEW h,
         Sums(w, U, g), Sums(w, V, h)
  PROVE  \A s \in (SUBSET U) \cap (SUBSET V) : g[s] = h[s]
<1>. DEFINE T == {s \in (SUBSET U) \cap (SUBSET V) : g[s] # h[s]}
<1>1. SUFFICES ASSUME T # {} PROVE FALSE
  OBVIOUS
<1>2. PICK s \in T : \A t \in T : t \subseteq s => t = s
  <2>1. T \subseteq SUBSET H
    OBVIOUS
  <2>. HIDE DEF T
  <2>. QED  BY <1>1, <2>1, NothingLess
<1>3. \A t \in (SUBSET U) \cap (SUBSET V) :
        /\ g[t] = IF t = {} THEN 0 ELSE w[OneOf(t)] + g[t \ {OneOf(t)}]
        /\ h[t] = IF t = {} THEN 0 ELSE w[OneOf(t)] + h[t \ {OneOf(t)}]
  BY DEF Sums
<1>4. s # {}
  BY <1>2, <1>3
<1>5. g[s \ {OneOf(s)}] = h[s \ {OneOf(s)}]
  BY <1>2, <1>4, OneTaken
<1>. QED  BY <1>2, <1>3, <1>4, <1>5

\* There is a sum.
LEMMA SumsExist ==
  ASSUME NEW H, IsFiniteSet(H), NEW w
  PROVE  \E g : Sums(w, H, g)
<1>. DEFINE T == {U \in SUBSET H : ~\E g : Sums(w, U, g)}
<1>1. SUFFICES ASSUME T # {} PROVE FALSE
  OBVIOUS
<1>2. PICK U \in T : \A t \in T : t \subseteq U => t = U
  <2>1. T \subseteq SUBSET H
    OBVIOUS
  <2>. HIDE DEF T
  <2>. QED  BY <1>1, <2>1, NothingLess
<1>. DEFINE G(t) == CHOOSE g : Sums(w, t, g)
            Rest(t) == t \ {OneOf(t)}
            F == [s \in SUBSET U |-> IF s = {} THEN 0 ELSE w[OneOf(s)] + G(Rest(s))[Rest(s)]]
<1>3. \A t \in SUBSET U : t # U => Sums(w, t, G(t))
  BY <1>2
<1>4. ASSUME NEW s \in SUBSET U, s # {} PROVE F[Rest(s)] = G(Rest(s))[Rest(s)]
  <2>1. PICK t : t = Rest(s)
    OBVIOUS
  <2>2. t \in SUBSET U /\ t # U
    BY <1>4, <2>1, OneTaken
  <2>3. Sums(w, t, G(t))
    BY <1>3, <2>2
  <2>4. G(t)[t] = IF t = {} THEN 0 ELSE w[OneOf(t)] + G(t)[Rest(t)]
    <3>. HIDE DEF G
    <3>. QED  BY <2>3 DEF Sums
  <2>5. ASSUME t # {} PROVE G(t)[Rest(t)] = G(Rest(t))[Rest(t)]
    <3>1. PICK r : r = Rest(t)
      OBVIOUS
    <3>2. r \in SUBSET U /\ r # U /\ r \subseteq t
      BY <2>2, <2>5, <3>1, OneTaken
    <3>3. Sums(w, r, G(r))
      BY <1>3, <3>2
    <3>4. r \in (SUBSET t) \cap (SUBSET r) /\ t \in SUBSET H /\ r \in SUBSET H
      BY <1>2, <2>2, <3>2
    <3>. HIDE DEF G
    <3>5. G(t)[r] = G(r)[r]
      BY <2>3, <3>3, <3>4, SumsAgree
    <3>. QED  BY <3>1, <3>5
  <2>6. F[t] = IF t = {} THEN 0 ELSE w[OneOf(t)] + G(Rest(t))[Rest(t)]
    BY <2>2
  <2>7. F[t] = G(t)[t]
    <3>. HIDE DEF F, G, Rest
    <3>. QED  BY <2>4, <2>5, <2>6
  <2>. QED  BY <2>1, <2>7
<1>5. F = [s \in SUBSET U |-> IF s = {} THEN 0 ELSE w[OneOf(s)] + F[Rest(s)]]
  <2>1. ASSUME NEW s \in SUBSET U
        PROVE  F[s] = IF s = {} THEN 0 ELSE w[OneOf(s)] + F[Rest(s)]
    <3>1. F[s] = IF s = {} THEN 0 ELSE w[OneOf(s)] + G(Rest(s))[Rest(s)]
      OBVIOUS
    <3>. HIDE DEF F, G, Rest
    <3>. QED  BY <1>4, <3>1
  <2>2. F = [s \in SUBSET U |-> F[s]]
    OBVIOUS
  <2>. HIDE DEF F
  <2>. QED  BY <2>1, <2>2
<1>6. Sums(w, U, F)
  BY <1>5 DEF Sums
<1>. QED  BY <1>2, <1>6

\* A sum of integers is one, and any element may be taken first.
LEMMA SumsFacts ==
  ASSUME NEW H, IsFiniteSet(H), NEW w, \A x \in H : w[x] \in Int, NEW g, Sums(w, H, g)
  PROVE  /\ \A s \in SUBSET H : g[s] \in Int
         /\ g[{}] = 0
         /\ \A S \in SUBSET H : \A x \in S : g[S] = w[x] + g[S \ {x}]
<1>0. g[{}] = 0
  BY DEF Sums
<1>1. ASSUME NEW s \in SUBSET H, s # {} PROVE g[s] = w[OneOf(s)] + g[s \ {OneOf(s)}]
  BY <1>1 DEF Sums
<1>. DEFINE IsInt(x) == x \in Int
            Fails(t) == \E x \in t : g[t] # w[x] + g[t \ {x}]
<1>2. IsInt(g[{}])
  BY <1>0
<1>3. ASSUME NEW s \in SUBSET H, s # {}, IsInt(g[s \ {OneOf(s)}]) PROVE IsInt(g[s])
  <2>1. OneOf(s) \in H
    BY <1>3, OneTaken
  <2>2. w[OneOf(s)] \in Int
    BY <2>1
  <2>. QED  BY <1>1, <1>3, <2>2
<1>4. \A s \in SUBSET H : IsInt(g[s])
  <2>. HIDE DEF IsInt
  <2>. DEFINE T == {t \in SUBSET H : ~IsInt(g[t])}
  <2>1. SUFFICES ASSUME T # {} PROVE FALSE
    OBVIOUS
  <2>2. PICK t \in T : \A u \in T : u \subseteq t => u = t
    <3>1. T \subseteq SUBSET H
      OBVIOUS
    <3>. HIDE DEF T
    <3>. QED  BY <2>1, <3>1, NothingLess
  <2>3. t \in SUBSET H /\ t # {}
    BY <1>2, <2>2
  <2>4. IsInt(g[t \ {OneOf(t)}])
    BY <2>2, <2>3, OneTaken
  <2>. QED  BY <1>3, <2>2, <2>3, <2>4
<1>5. ASSUME NEW t \in SUBSET H, \A u \in SUBSET H : u \subseteq t /\ u # t => ~Fails(u)
      PROVE  ~Fails(t)
  <2>. SUFFICES ASSUME NEW x \in t PROVE g[t] = w[x] + g[t \ {x}]
    OBVIOUS
  <2>1. PICK y : y = OneOf(t)
    OBVIOUS
  <2>2. y \in t /\ g[t] = w[y] + g[t \ {y}]
    BY <1>1, <2>1, OneTaken
  <2>3. CASE y = x
    BY <2>2, <2>3
  <2>4. CASE y # x
    <3>1. g[t \ {y}] = w[x] + g[(t \ {y}) \ {x}]
      <4>1. t \ {y} \in SUBSET H /\ t \ {y} # t /\ x \in t \ {y}
        BY <2>2, <2>4
      <4>. QED  BY <1>5, <4>1
    <3>2. g[t \ {x}] = w[y] + g[(t \ {x}) \ {y}]
      <4>1. t \ {x} \in SUBSET H /\ t \ {x} # t /\ y \in t \ {x}
        BY <2>2, <2>4
      <4>. QED  BY <1>5, <4>1
    <3>3. PICK r : r = (t \ {x}) \ {y}
      OBVIOUS
    <3>4. (t \ {y}) \ {x} = r /\ r \in SUBSET H
      BY <3>3
    <3>5. w[x] \in Int /\ w[y] \in Int
      BY <2>2
    <3>6. IsInt(g[r])
      BY <1>4, <3>4
    <3>7. g[t \ {y}] = w[x] + g[r] /\ g[t \ {x}] = w[y] + g[r]
      BY <3>1, <3>2, <3>3, <3>4
    <3>. QED  BY <2>2, <3>5, <3>6, <3>7
  <2>. QED  BY <2>3, <2>4
<1>6. \A s \in SUBSET H : ~Fails(s)
  <2>. HIDE DEF Fails
  <2>. DEFINE T == {t \in SUBSET H : Fails(t)}
  <2>1. SUFFICES ASSUME T # {} PROVE FALSE
    OBVIOUS
  <2>2. PICK t \in T : \A u \in T : u \subseteq t => u = t
    <3>1. T \subseteq SUBSET H
      OBVIOUS
    <3>. HIDE DEF T
    <3>. QED  BY <2>1, <3>1, NothingLess
  <2>. QED  BY <1>5, <2>2
<1>. QED  BY <1>0, <1>4, <1>6

\* A sum of what is not negative is not negative.
LEMMA SumsNotNegative ==
  ASSUME NEW H, IsFiniteSet(H), NEW w, \A x \in H : w[x] \in Int, NEW g, Sums(w, H, g), \A x \in H : w[x] >= 0
  PROVE  \A s \in SUBSET H : g[s] >= 0
<1>. DEFINE Fits(x) == x >= 0
<1>1. Fits(g[{}])
  BY SumsFacts
<1>2. ASSUME NEW s \in SUBSET H, NEW x \in s, Fits(g[s \ {x}]) PROVE Fits(g[s])
  <2>1. g[s] = w[x] + g[s \ {x}]
    BY SumsFacts
  <2>2. w[x] \in Int /\ w[x] >= 0
    OBVIOUS
  <2>3. g[s \ {x}] \in Int
    BY SumsFacts
  <2>. QED  BY <1>2, <2>1, <2>2, <2>3
<1>. HIDE DEF Fits
<1>. DEFINE T == {t \in SUBSET H : ~Fits(g[t])}
<1>3. SUFFICES ASSUME T # {} PROVE FALSE
  BY DEF Fits
<1>4. PICK t \in T : \A u \in T : u \subseteq t => u = t
  <2>1. T \subseteq SUBSET H
    OBVIOUS
  <2>. HIDE DEF T
  <2>. QED  BY <1>3, <2>1, NothingLess
<1>5. PICK x : x \in t
  BY <1>1, <1>4
<1>6. Fits(g[t \ {x}])
  BY <1>4, <1>5
<1>. QED  BY <1>2, <1>4, <1>5, <1>6


\* Induction: what holds of the empty set and of a set when it holds of it without one
\* element holds of every set.
LEMMA OneByOne ==
  ASSUME NEW H, IsFiniteSet(H), NEW T, {} \in T,
         \A s \in SUBSET H : \A x \in s : s \ {x} \in T => s \in T
  PROVE  \A s \in SUBSET H : s \in T
<1>. DEFINE N == {s \in SUBSET H : s \notin T}
<1>1. SUFFICES ASSUME N # {} PROVE FALSE
  OBVIOUS
<1>2. PICK s \in N : \A u \in N : u \subseteq s => u = s
  <2>1. N \subseteq SUBSET H
    OBVIOUS
  <2>. HIDE DEF N
  <2>. QED  BY <1>1, <2>1, NothingLess
<1>3. PICK x : x \in s
  BY <1>2
<1>4. s \ {x} \in T
  BY <1>2, <1>3
<1>. QED  BY <1>2, <1>3, <1>4

\* The library's sum is one of these.
LEMMA SumIsOne ==
  ASSUME NEW w, NEW S, IsFiniteSet(S)
  PROVE  \E g : Sums(w, S, g) /\ SumFunctionOnSet(w, S) = g[S]
<1>. DEFINE Adds(g) == g = [s \in SUBSET S |->
                              IF s = {} THEN 0
                              ELSE LET x == CHOOSE x \in s : TRUE IN w[x] + g[s \ {x}]]
<1>1. \A g : Sums(w, S, g) <=> Adds(g)
  BY DEF Sums, OneOf
<1>2. \E g : Adds(g)
  <2>. HIDE DEF Adds
  <2>. QED  BY <1>1, SumsExist
<1>3. SumFunctionOnSet(w, S) = (CHOOSE g : Adds(g))[S]
  BY DEF SumFunctionOnSet, FoldFunctionOnSet, MapThenFoldSet
<1>4. Adds(CHOOSE g : Adds(g))
  <2>. HIDE DEF Adds
  <2>. QED  BY <1>2
<1>. HIDE DEF Adds
<1>. QED  BY <1>1, <1>3, <1>4

\* Nothing adds up to nothing.
LEMMA SumEmpty ==
  ASSUME NEW w
  PROVE  SumFunctionOnSet(w, {}) = 0
<1>1. PICK g : Sums(w, {}, g) /\ SumFunctionOnSet(w, {}) = g[{}]
  BY SumIsOne, FS_EmptySet
<1>. QED  BY <1>1 DEF Sums

\* A sum of integers is an integer; any element may be added last.
LEMMA SumSplit ==
  ASSUME NEW w, NEW S, IsFiniteSet(S), \A x \in S : w[x] \in Int
  PROVE  /\ SumFunctionOnSet(w, S) \in Int
         /\ \A x \in S : SumFunctionOnSet(w, S) = w[x] + SumFunctionOnSet(w, S \ {x})
<1>1. PICK g : Sums(w, S, g) /\ SumFunctionOnSet(w, S) = g[S]
  BY SumIsOne
<1>2. /\ \A s \in SUBSET S : g[s] \in Int
      /\ \A s \in SUBSET S : \A x \in s : g[s] = w[x] + g[s \ {x}]
  <2>1. Sums(w, S, g)
    BY <1>1
  <2>. QED  BY ONLY <2>1, SumsFacts, IsFiniteSet(S), \A x \in S : w[x] \in Int
<1>3. ASSUME NEW x \in S PROVE SumFunctionOnSet(w, S \ {x}) = g[S \ {x}]
  <2>1. PICK r : r = S \ {x}
    OBVIOUS
  <2>2. IsFiniteSet(r)
    BY <2>1, FS_Subset
  <2>3. PICK h : Sums(w, r, h) /\ SumFunctionOnSet(w, r) = h[r]
    BY <2>2, SumIsOne
  <2>4. r \in SUBSET S /\ S \in SUBSET S /\ r \in (SUBSET S) \cap (SUBSET r)
    BY <2>1
  <2>5. g[r] = h[r]
    BY <1>1, <2>3, <2>4, SumsAgree
  <2>. QED  BY <2>1, <2>3, <2>5
<1>4. S \in SUBSET S
  OBVIOUS
<1>. QED  BY <1>1, <1>2, <1>3, <1>4

\* The sum of what is the same on both sides.
LEMMA SumSame ==
  ASSUME NEW w, NEW v, NEW S, IsFiniteSet(S), \A x \in S : w[x] \in Int /\ w[x] = v[x]
  PROVE  SumFunctionOnSet(w, S) = SumFunctionOnSet(v, S)
<1>. DEFINE T == {s \in SUBSET S : SumFunctionOnSet(w, s) = SumFunctionOnSet(v, s)}
<1>1. {} \in T
  BY SumEmpty
<1>2. ASSUME NEW s \in SUBSET S, NEW x \in s, s \ {x} \in T PROVE s \in T
  <2>1. IsFiniteSet(s) /\ \A y \in s : w[y] \in Int /\ v[y] \in Int
    BY FS_Subset
  <2>2. SumFunctionOnSet(w, s) = w[x] + SumFunctionOnSet(w, s \ {x})
    BY <2>1, SumSplit
  <2>3. SumFunctionOnSet(v, s) = v[x] + SumFunctionOnSet(v, s \ {x})
    BY <2>1, SumSplit
  <2>. QED  BY <1>2, <2>2, <2>3
<1>3. \A s \in SUBSET S : s \in T
  <2>. HIDE DEF T
  <2>. QED  BY <1>1, <1>2, OneByOne
<1>. QED  BY <1>3

\* The sum over two sets that have nothing in common.
LEMMA SumUnion ==
  ASSUME NEW w, NEW S, NEW U, IsFiniteSet(S), IsFiniteSet(U), S \cap U = {},
         \A x \in S \cup U : w[x] \in Int
  PROVE  SumFunctionOnSet(w, S \cup U) = SumFunctionOnSet(w, S) + SumFunctionOnSet(w, U)
<1>. DEFINE T == {s \in SUBSET S :
                    SumFunctionOnSet(w, s \cup U) = SumFunctionOnSet(w, s) + SumFunctionOnSet(w, U)}
<1>0. SumFunctionOnSet(w, U) \in Int
  BY SumSplit
<1>1. {} \in T
  BY <1>0, SumEmpty
<1>2. ASSUME NEW s \in SUBSET S, NEW x \in s, s \ {x} \in T PROVE s \in T
  <2>1. IsFiniteSet(s) /\ IsFiniteSet(s \cup U) /\ IsFiniteSet(s \ {x})
    <3>1. IsFiniteSet(s)
      BY FS_Subset
    <3>. QED  BY <3>1, FS_Union, FS_RemoveElement
  <2>2. (s \cup U) \ {x} = (s \ {x}) \cup U
    OBVIOUS
  <2>3. SumFunctionOnSet(w, s \cup U) = w[x] + SumFunctionOnSet(w, (s \ {x}) \cup U)
    BY <2>1, <2>2, SumSplit
  <2>4. SumFunctionOnSet(w, s) = w[x] + SumFunctionOnSet(w, s \ {x})
    BY <2>1, SumSplit
  <2>5. SumFunctionOnSet(w, s \ {x}) \in Int /\ w[x] \in Int
    BY <2>1, SumSplit
  <2>. QED  BY <1>0, <1>2, <2>3, <2>4, <2>5
<1>3. \A s \in SUBSET S : s \in T
  <2>. HIDE DEF T
  <2>. QED  BY <1>1, <1>2, OneByOne
<1>. QED  BY <1>3

\* A set and a part of it.
LEMMA SumParts ==
  ASSUME NEW w, NEW S, NEW U \in SUBSET S, IsFiniteSet(S), \A x \in S : w[x] \in Int
  PROVE  SumFunctionOnSet(w, S) = SumFunctionOnSet(w, U) + SumFunctionOnSet(w, S \ U)
<1>1. IsFiniteSet(U) /\ IsFiniteSet(S \ U) /\ U \cap (S \ U) = {}
  BY FS_Subset
<1>2. U \cup (S \ U) = S
  OBVIOUS
<1>. QED  BY <1>1, <1>2, SumUnion

\* The sum of sums.
LEMMA SumPlus ==
  ASSUME NEW w, NEW u, NEW v, NEW S, IsFiniteSet(S),
         \A x \in S : u[x] \in Int /\ v[x] \in Int /\ w[x] = u[x] + v[x]
  PROVE  SumFunctionOnSet(w, S) = SumFunctionOnSet(u, S) + SumFunctionOnSet(v, S)
<1>. DEFINE T == {s \in SUBSET S :
                    SumFunctionOnSet(w, s) = SumFunctionOnSet(u, s) + SumFunctionOnSet(v, s)}
<1>1. {} \in T
  BY SumEmpty
<1>2. ASSUME NEW s \in SUBSET S, NEW x \in s, s \ {x} \in T PROVE s \in T
  <2>1. IsFiniteSet(s) /\ IsFiniteSet(s \ {x}) /\ \A y \in s : w[y] \in Int
    BY FS_Subset
  <2>2. /\ SumFunctionOnSet(w, s) = w[x] + SumFunctionOnSet(w, s \ {x})
        /\ SumFunctionOnSet(u, s) = u[x] + SumFunctionOnSet(u, s \ {x})
        /\ SumFunctionOnSet(v, s) = v[x] + SumFunctionOnSet(v, s \ {x})
    BY <2>1, SumSplit
  <2>3. SumFunctionOnSet(u, s \ {x}) \in Int /\ SumFunctionOnSet(v, s \ {x}) \in Int
    BY <2>1, SumSplit
  <2>. QED  BY <1>2, <2>2, <2>3
<1>3. \A s \in SUBSET S : s \in T
  <2>. HIDE DEF T
  <2>. QED  BY <1>1, <1>2, OneByOne
<1>. QED  BY <1>3

\* The sum of differences.
LEMMA SumMinus ==
  ASSUME NEW w, NEW u, NEW v, NEW S, IsFiniteSet(S),
         \A x \in S : u[x] \in Int /\ v[x] \in Int /\ w[x] = u[x] - v[x]
  PROVE  SumFunctionOnSet(w, S) = SumFunctionOnSet(u, S) - SumFunctionOnSet(v, S)
<1>1. SumFunctionOnSet(u, S) = SumFunctionOnSet(w, S) + SumFunctionOnSet(v, S)
  BY SumPlus
<1>2. SumFunctionOnSet(w, S) \in Int /\ SumFunctionOnSet(v, S) \in Int
  BY SumSplit
<1>. QED  BY <1>1, <1>2

\* A sum of zeros.
LEMMA SumZero ==
  ASSUME NEW w, NEW S, IsFiniteSet(S), \A x \in S : w[x] = 0
  PROVE  SumFunctionOnSet(w, S) = 0
<1>. DEFINE T == {s \in SUBSET S : SumFunctionOnSet(w, s) = 0}
<1>1. {} \in T
  BY SumEmpty
<1>2. ASSUME NEW s \in SUBSET S, NEW x \in s, s \ {x} \in T PROVE s \in T
  <2>1. IsFiniteSet(s)
    BY FS_Subset
  <2>2. SumFunctionOnSet(w, s) = w[x] + SumFunctionOnSet(w, s \ {x})
    BY <2>1, SumSplit
  <2>. QED  BY <1>2, <2>2
<1>3. \A s \in SUBSET S : s \in T
  <2>. HIDE DEF T
  <2>. QED  BY <1>1, <1>2, OneByOne
<1>. QED  BY <1>3

\* A sum of what is not negative is not negative.
LEMMA SumNat ==
  ASSUME NEW w, NEW S, IsFiniteSet(S), \A x \in S : w[x] \in Nat
  PROVE  SumFunctionOnSet(w, S) \in Nat
<1>1. PICK g : Sums(w, S, g) /\ SumFunctionOnSet(w, S) = g[S]
  BY SumIsOne
<1>. QED  BY <1>1, SumsFacts, SumsNotNegative

\* A sum of more is more.
LEMMA SumMore ==
  ASSUME NEW w, NEW v, NEW S, IsFiniteSet(S),
         \A x \in S : w[x] \in Int /\ v[x] \in Int /\ w[x] <= v[x]
  PROVE  SumFunctionOnSet(w, S) <= SumFunctionOnSet(v, S)
<1>. DEFINE u == [x \in S |-> v[x] - w[x]]
<1>1. SumFunctionOnSet(u, S) = SumFunctionOnSet(v, S) - SumFunctionOnSet(w, S)
  BY SumMinus
<1>2. SumFunctionOnSet(u, S) \in Nat
  BY SumNat
<1>3. SumFunctionOnSet(v, S) \in Int /\ SumFunctionOnSet(w, S) \in Int
  BY SumSplit
<1>. QED  BY <1>1, <1>2, <1>3

\* Renaming what is summed.
LEMMA SumRenamed ==
  ASSUME NEW S, IsFiniteSet(S), NEW U, NEW f \in Bijection(S, U), NEW w, NEW v,
         \A x \in S : w[x] \in Int /\ v[f[x]] = w[x]
  PROVE  SumFunctionOnSet(w, S) = SumFunctionOnSet(v, U)
<1>. DEFINE Of(s) == {f[x] : x \in s}
            T == {s \in SUBSET S : SumFunctionOnSet(w, s) = SumFunctionOnSet(v, Of(s))}
<1>0. f \in [S -> U] /\ Of(S) = U /\ \A x, y \in S : f[x] = f[y] => x = y
  BY DEF Bijection, Injection, Surjection, IsInjective
<1>1. {} \in T
  <2>1. Of({}) = {}
    OBVIOUS
  <2>. QED  BY <2>1, SumEmpty
<1>2. ASSUME NEW s \in SUBSET S, NEW x \in s, s \ {x} \in T PROVE s \in T
  <2>1. IsFiniteSet(s) /\ \A y \in s : w[y] \in Int
    BY FS_Subset
  <2>2. SumFunctionOnSet(w, s) = w[x] + SumFunctionOnSet(w, s \ {x})
    BY <2>1, SumSplit
  <2>3. IsFiniteSet(Of(s)) /\ \A y \in Of(s) : v[y] \in Int
    <3>1. [y \in s |-> f[y]] \in Surjection(s, Of(s))
      BY DEF Surjection
    <3>2. IsFiniteSet(Of(s))
      <4>. HIDE DEF Of
      <4>. QED  BY <2>1, <3>1, FS_Surjection
    <3>. QED  BY <3>2
  <2>4. f[x] \in Of(s) /\ Of(s) \ {f[x]} = Of(s \ {x})
    BY <1>0
  <2>5. SumFunctionOnSet(v, Of(s)) = v[f[x]] + SumFunctionOnSet(v, Of(s) \ {f[x]})
    <3>. HIDE DEF Of
    <3>. QED  BY <2>3, <2>4, SumSplit
  <2>. QED  BY <1>2, <2>2, <2>4, <2>5
<1>3. \A s \in SUBSET S : s \in T
  <2>. HIDE DEF T
  <2>. QED  BY <1>1, <1>2, OneByOne
<1>. QED  BY <1>0, <1>3

\* Summed group by group.
Grouped(S, K, q, group) ==
  /\ IsFiniteSet(S) /\ IsFiniteSet(K)
  /\ \A x \in S : q[x] \in K
  /\ \A k \in K : \A x : x \in group[k] <=> x \in S /\ q[x] = k

\* The sum over groups of the groups' sums is the sum over all elements.
LEMMA SumGroups ==
  ASSUME NEW S, NEW K, NEW q, NEW group, Grouped(S, K, q, group),
         NEW w, \A x \in S : w[x] \in Int, NEW v, \A k \in K : v[k] = SumFunctionOnSet(w, group[k])
  PROVE  SumFunctionOnSet(w, S) = SumFunctionOnSet(v, K)
<1>. DEFINE Of(ks) == {x \in S : q[x] \in ks}
            T == {ks \in SUBSET K : SumFunctionOnSet(w, Of(ks)) = SumFunctionOnSet(v, ks)}
<1>0. \A U \in SUBSET S : IsFiniteSet(U) /\ SumFunctionOnSet(w, U) \in Int
  BY FS_Subset, SumSplit DEF Grouped
<1>9. \A k \in K : group[k] \in SUBSET S
  BY DEF Grouped
<1>1. {} \in T
  <2>1. Of({}) = {}
    OBVIOUS
  <2>. QED  BY <2>1, SumEmpty
<1>2. ASSUME NEW ks \in SUBSET K, NEW k \in ks, ks \ {k} \in T PROVE ks \in T
  <2>1. IsFiniteSet(ks) /\ \A j \in ks : v[j] \in Int
    BY <1>0, <1>9, FS_Subset DEF Grouped
  <2>2. SumFunctionOnSet(v, ks) = v[k] + SumFunctionOnSet(v, ks \ {k})
    BY <2>1, SumSplit
  <2>3. PICK A, B : A = Of(ks \ {k}) /\ B = group[k]
    OBVIOUS
  <2>4. Of(ks) = A \cup B /\ A \cap B = {} /\ A \in SUBSET S /\ B \in SUBSET S
    BY <2>3 DEF Grouped
  <2>5. SumFunctionOnSet(w, A \cup B) = SumFunctionOnSet(w, A) + SumFunctionOnSet(w, B)
    BY <1>0, <2>4, SumUnion
  <2>6. SumFunctionOnSet(w, A) \in Int /\ SumFunctionOnSet(w, B) \in Int
    BY <1>0, <2>4
  <2>7. SumFunctionOnSet(w, A) = SumFunctionOnSet(v, ks \ {k})
    BY <1>2, <2>3
  <2>8. SumFunctionOnSet(w, B) = v[k]
    BY <2>3
  <2>9. SumFunctionOnSet(w, Of(ks)) = SumFunctionOnSet(v, ks)
    <3>1. SumFunctionOnSet(w, Of(ks)) = SumFunctionOnSet(w, A \cup B)
      BY <2>4
    <3>. HIDE DEF Of
    <3>. QED  BY <2>2, <2>5, <2>6, <2>7, <2>8, <3>1
  <2>. QED  BY <2>9
<1>3. \A ks \in SUBSET K : ks \in T
  <2>1. IsFiniteSet(K)
    BY DEF Grouped
  <2>. HIDE DEF T
  <2>. QED  BY <1>1, <1>2, <2>1, OneByOne
<1>4. Of(K) = S
  BY DEF Grouped
<1>. QED  BY <1>3, <1>4

\* What is summed again among more.
LEMMA SumInjected ==
  ASSUME NEW S, IsFiniteSet(S), NEW U, IsFiniteSet(U), NEW g \in [S -> U],
         \A x, y \in S : g[x] = g[y] => x = y, NEW w, NEW v,
         \A x \in S : w[x] = v[g[x]], \A u \in U : v[u] \in Nat
  PROVE  SumFunctionOnSet(w, S) \in Nat /\ SumFunctionOnSet(w, S) <= SumFunctionOnSet(v, U)
<1>1. PICK R : R = {g[x] : x \in S}
  OBVIOUS
<1>2. R \in SUBSET U /\ IsFiniteSet(R) /\ IsFiniteSet(U \ R)
  BY <1>1, FS_Subset
<1>3. g \in Bijection(S, R)
  BY <1>1 DEF Bijection, Injection, Surjection, IsInjective
<1>4. \A x \in S : w[x] \in Nat
  OBVIOUS
<1>5. SumFunctionOnSet(w, S) = SumFunctionOnSet(v, R)
  BY <1>3, <1>4, SumRenamed
<1>6. SumFunctionOnSet(v, U) = SumFunctionOnSet(v, R) + SumFunctionOnSet(v, U \ R)
  BY <1>2, SumParts
<1>7. SumFunctionOnSet(v, R) \in Nat /\ SumFunctionOnSet(v, U \ R) \in Nat
  BY <1>2, SumNat
<1>. QED  BY <1>5, <1>6, <1>7


\* A sum is between those of its bounds.
LEMMA SumBetween ==
  ASSUME NEW w, NEW v, NEW S, IsFiniteSet(S),
         \A x \in S : w[x] \in Int /\ v[x] \in Int /\ w[x] <= v[x] /\ -v[x] <= w[x]
  PROVE  /\ SumFunctionOnSet(w, S) \in Int /\ SumFunctionOnSet(v, S) \in Int
         /\ SumFunctionOnSet(w, S) <= SumFunctionOnSet(v, S)
         /\ -SumFunctionOnSet(v, S) <= SumFunctionOnSet(w, S)
<1>. DEFINE u == [x \in S |-> v[x] + w[x]]
<1>1. \A x \in S : u[x] \in Nat /\ u[x] = v[x] + w[x]
  OBVIOUS
<1>. HIDE DEF u
<1>2. SumFunctionOnSet(w, S) \in Int /\ SumFunctionOnSet(v, S) \in Int
  BY SumSplit
<1>3. SumFunctionOnSet(w, S) <= SumFunctionOnSet(v, S)
  BY SumMore
<1>4. SumFunctionOnSet(u, S) \in Nat
  BY <1>1, SumNat
<1>5. SumFunctionOnSet(u, S) = SumFunctionOnSet(v, S) + SumFunctionOnSet(w, S)
  <2>1. \A x \in S : v[x] \in Int /\ w[x] \in Int /\ u[x] = v[x] + w[x]
    BY <1>1
  <2>. QED  BY <2>1, SumPlus
<1>. QED  BY <1>2, <1>3, <1>4, <1>5
=============================================================================

------------------------- MODULE AccountFilesProofs -------------------------
(***************************************************************************)
(* Proofs about the files of an account.                                    *)
(*                                                                         *)
(* FilesInOrder is the inductive invariant.  It says of every call what it   *)
(* has read and can only be as new as the feed (CallOK) and, of a call that  *)
(* nobody changed a file under, that what it wrote so far is still there     *)
(* (Alone).  A step of one call leaves the others as they are or notes them  *)
(* as late (CallGoesOn), so each action is a lemma about its own call and    *)
(* the files it writes.  Typed adds what keeps rows and entries apart, and   *)
(* PoolsTrue that the entries of a pool are those of real samples, without a *)
(* gap but for the samples that the conversion skips: what is worked out for *)
(* an entry is then bounded by what the pool paid since the one before it.   *)
(***************************************************************************)
EXTENDS AccountFiles, SumFacts, WellFoundedInduction

---------------------------------------------------------------------------
(* The least, the greatest, the first and the last. *)

\* A set of natural numbers has a least one.
LEMMA LeastNatural ==
  ASSUME NEW S \in SUBSET Nat, S # {}
  PROVE  /\ \E x \in S : \A y \in S : x <= y
         /\ Min(S) \in S /\ \A y \in S : Min(S) <= y
<1>. DEFINE R == {ss \in Nat \X Nat : ss[1] < ss[2]}
<1>1. IsWellFoundedOn(R, Nat)
  BY NatLessThanWellFounded DEF OpToRel
<1>2. \A x, y \in S : y < x => <<y, x>> \in R
  OBVIOUS
<1>. HIDE DEF R
<1>3. PICK x \in S : \A y \in S : ~ (<<y, x>> \in R)
  BY <1>1, WFMin
<1>4. ASSUME NEW y \in S PROVE x <= y
  <2>1. ~(y < x)
    BY <1>2, <1>3
  <2>. QED  BY <2>1
<1>. QED  BY <1>4 DEF Min

\* Some records have a first and a last one.
LEMMA RecordsFacts ==
  ASSUME NEW S \in SUBSET History, S # {}
  PROVE  /\ FirstOf(S) \in S /\ \A s \in S : FirstOf(S).nth <= s.nth
         /\ LastOf(S) \in S /\ \A s \in S : LastOf(S).nth >= s.nth
         /\ \A x \in S : (\A s \in S : x.nth >= s.nth) => x = LastOf(S)
<1>. DEFINE Has(U) == \E x \in U : \A y \in U : x.nth >= y.nth
            T == {U \in SUBSET History : U # {} /\ ~Has(U)}
<1>0. \A r \in History : r.block \in Nat /\ r.nth \in Nat
  BY HistoryAssumption
<1>1. \E x \in S : \A s \in S : x.nth <= s.nth
  <2>. DEFINE N == {s.nth : s \in S}
  <2>1. N \in SUBSET Nat /\ N # {}
    BY <1>0
  <2>2. PICK n \in N : \A m \in N : n <= m
    BY <2>1, LeastNatural
  <2>. QED  BY <2>2
<1>2. Has(S)
  <2>1. SUFFICES ASSUME T # {} PROVE FALSE
    OBVIOUS
  <2>2. PICK U \in T : \A V \in T : V \subseteq U => V = U
    <3>1. T \subseteq SUBSET History
      OBVIOUS
    <3>. HIDE DEF T
    <3>. QED  BY <2>1, <3>1, HistoryAssumption, NothingLess
  <2>3. PICK x : x \in U
    BY <2>2
  <2>4. CASE U = {x}
    BY <1>0, <2>2, <2>3, <2>4
  <2>5. CASE U # {x}
    <3>1. U \ {x} # {} /\ U \ {x} # U /\ U \ {x} \subseteq U /\ U \ {x} \in SUBSET History
      BY <2>2, <2>3, <2>5
    <3>2. Has(U \ {x})
      BY <2>2, <3>1
    <3>3. PICK m \in U \ {x} : \A y \in U \ {x} : m.nth >= y.nth
      BY <3>2
    <3>4. m.nth \in Nat /\ x.nth \in Nat /\ \A y \in U : y.nth \in Nat
      BY <1>0, <2>2, <2>3
    <3>5. Has(U)
      <4>1. CASE m.nth >= x.nth
        BY <3>3, <3>4, <4>1
      <4>2. CASE ~(m.nth >= x.nth)
        <5>1. \A y \in U : x.nth >= y.nth
          BY <3>3, <3>4, <4>2
        <5>. QED  BY <2>3, <5>1
      <4>. QED  BY <4>1, <4>2
    <3>. QED  BY <2>2, <3>5
  <2>. QED  BY <2>4, <2>5
<1>3. FirstOf(S) \in S /\ \A s \in S : FirstOf(S).nth <= s.nth
  BY <1>1 DEF FirstOf
<1>4. LastOf(S) \in S /\ \A s \in S : LastOf(S).nth >= s.nth
  BY <1>2 DEF LastOf
<1>5. ASSUME NEW x \in S, \A s \in S : x.nth >= s.nth PROVE x = LastOf(S)
  <2>1. x.nth = LastOf(S).nth
    BY <1>0, <1>4, <1>5
  <2>. QED  BY <1>4, <2>1, HistoryAssumption
<1>. QED  BY <1>3, <1>4, <1>5

\* So have the blocks of records.
LEMMA BlocksFacts ==
  ASSUME NEW B, B \subseteq BlocksOf(History), B # {}
  PROVE  /\ B \subseteq Nat
         /\ Min(B) \in B /\ \A b \in B : Min(B) <= b
         /\ Max(B) \in B /\ \A b \in B : Max(B) >= b
<1>1. B \subseteq Nat
  BY HistoryAssumption DEF BlocksOf
<1>2. Min(B) \in B /\ \A b \in B : Min(B) <= b
  BY <1>1, LeastNatural
<1>. DEFINE S == {r \in History : r.block \in B}
<1>3. S \in SUBSET History /\ S # {}
  BY DEF BlocksOf
<1>4. PICK x \in S : \A s \in S : x.nth >= s.nth
  BY <1>3, RecordsFacts
<1>5. \A s \in S : x.block >= s.block
  <2>. SUFFICES ASSUME NEW s \in S PROVE x.block >= s.block
    OBVIOUS
  <2>1. x.nth \in Nat /\ s.nth \in Nat /\ x.block \in Nat /\ s.block \in Nat /\ x.nth >= s.nth
    BY <1>4, HistoryAssumption
  <2>2. x.block < s.block => x.nth < s.nth
    BY HistoryAssumption
  <2>. QED  BY <2>1, <2>2
<1>6. \A b \in B : x.block >= b
  BY <1>5 DEF BlocksOf
<1>7. Max(B) \in B /\ \A b \in B : Max(B) >= b
  BY <1>6 DEF Max
<1>. QED  BY <1>1, <1>2, <1>7

---------------------------------------------------------------------------
(* The rows of an answer, and what a merge makes of them. *)

Tokens == {r.token : r \in History}

EntryFields == {"block", "place", "tx", "balance", "deposit", "withdrawal", "earnings"}
HasBlock(e) == DOMAIN e = EntryFields /\ e.place \in Nat

\* Entries of a file: they have their places in the blocks, of which none has entries without end.
EntriesOK(E) ==
  /\ \A e \in E : HasBlock(e)
  /\ \E n \in Nat : \A e \in E : e.place <= n

\* What BooksSay says of each file.
NearSays(R, rows) ==
  \A r \in R : r.token = Near =>
    \E n \in rows :
      /\ n.hash = HashAt(R, r.block)
      /\ n.balance = LastOf({s \in Of(R, Near) : HashAt(R, s.block) = n.hash}).after

FtSays(R, rows) ==
  \A r \in R : r.token \notin {Near} \cup Pool =>
    \E n \in rows : n.hash = HashAt(R, r.block) /\ n.token = r.token /\ n.block >= r.block

PoolSays(R, p, entries) ==
  LET new == StakingEntries(R, p) IN
  {e.block : e \in {e \in entries : Covered(new, e.block)}} = BlocksOf(new)

\* An answer's row of a NEAR move has the balance after the last block of its transaction.
LEMMA NearRowsSay ==
  ASSUME NEW R \in SUBSET History, NEW old
  PROVE  NearSays(R, MergeTransactions(old, NearRows(R)))
<1>. DEFINE N == Of(R, Near)
<1>. SUFFICES ASSUME NEW r \in R, r.token = Near
              PROVE  \E n \in NearRows(R) :
                       /\ n.hash = HashAt(R, r.block)
                       /\ n.balance = LastOf({s \in N : HashAt(R, s.block) = n.hash}).after
  BY DEF NearSays, MergeTransactions
<1>. DEFINE h == HashAt(R, r.block)
            B == {b \in BlocksOf(N) : HashAt(R, b) = h}
<1>1. r \in N /\ r.block \in BlocksOf(N) /\ N \in SUBSET History
  BY DEF Of, BlocksOf
<1>2. B \subseteq BlocksOf(History) /\ r.block \in B
  BY <1>1 DEF BlocksOf
<1>3. /\ B \subseteq Nat
      /\ Min(B) \in B /\ \A b \in B : Min(B) <= b
      /\ Max(B) \in B /\ \A b \in B : Max(B) >= b
  BY <1>2, BlocksFacts
<1>. DEFINE first == Min(B)
            last == LastBlockOf(R, h)
<1>4. last = Max(B)
  BY DEF LastBlockOf
<1>5. NearRow(R, first) \in NearRows(R)
  <2>1. \A d \in BlocksOf(N) : d < first => HashAt(R, d) # HashAt(R, first)
    <3>. SUFFICES ASSUME NEW d \in BlocksOf(N), d < first, HashAt(R, d) = HashAt(R, first)
                  PROVE  FALSE
      OBVIOUS
    <3>1. d \in B
      BY <1>3
    <3>. QED  BY <1>3, <3>1
  <2>. QED  BY <1>3, <2>1 DEF NearRows
<1>6. NearRow(R, first).hash = h
  BY <1>3 DEF NearRow
<1>7. NearRow(R, first).balance = LastOf(At(N, last)).after
  BY <1>6 DEF NearRow
<1>8. LastOf(At(N, last)) = LastOf({s \in N : HashAt(R, s.block) = h})
  <2>. DEFINE A == At(N, last)
              S == {s \in N : HashAt(R, s.block) = h}
  <2>1. A \in SUBSET History /\ A # {} /\ A \subseteq S /\ S \in SUBSET History
    BY <1>1, <1>3, <1>4 DEF At, BlocksOf
  <2>2. LastOf(A) \in A /\ \A s \in A : LastOf(A).nth >= s.nth
    BY <2>1, RecordsFacts
  <2>3. ASSUME NEW s \in S PROVE LastOf(A).nth >= s.nth
    <3>1. s.block \in B /\ s \in History /\ LastOf(A) \in History /\ LastOf(A).block = last
      BY <2>1, <2>2 DEF At, BlocksOf
    <3>2. s.block <= last /\ s.block \in Nat /\ last \in Nat
      BY <1>3, <1>4, <3>1
    <3>3. CASE s.block = last
      BY <2>2, <3>3 DEF At
    <3>4. CASE s.block # last
      <4>1. s.block < LastOf(A).block
        BY <3>1, <3>2, <3>4
      <4>2. s.nth < LastOf(A).nth /\ s.nth \in Nat /\ LastOf(A).nth \in Nat
        BY <3>1, <4>1, HistoryAssumption
      <4>. QED  BY <4>2
    <3>. QED  BY <3>3, <3>4
  <2>. HIDE DEF A, S
  <2>4. S # {} /\ LastOf(A) \in S
    BY <2>1, <2>2
  <2>5. LastOf(A) = LastOf(S)
    BY <2>1, <2>3, <2>4, RecordsFacts
  <2>. QED  BY <2>5 DEF A, S
<1>. QED  BY <1>5, <1>6, <1>7, <1>8

\* Every key of an answer's token rows has a best one.
LEMMA BestRow ==
  ASSUME NEW R \in SUBSET History, NEW r \in R, r.token \notin {Near} \cup Pool
  PROVE  \E x \in R : /\ FtRow(R, x) \in FtRows(R) /\ Best(FtRows(R), FtRow(R, x))
                      /\ HashAt(R, x.block) = HashAt(R, r.block) /\ x.token = r.token
                      /\ x.block >= r.block
<1>. DEFINE S == {s \in R : s.token = r.token /\ HashAt(R, s.block) = HashAt(R, r.block)}
            B == BlocksOf(S)
<1>1. S \in SUBSET History /\ r \in S /\ B \subseteq BlocksOf(History) /\ r.block \in B
  BY DEF BlocksOf
<1>2. B \subseteq Nat /\ Max(B) \in B /\ \A b \in B : Max(B) >= b
  BY <1>1, BlocksFacts
<1>. DEFINE L == {s \in S : s.block = Max(B)}
            x == FirstOf(L)
<1>3. L \in SUBSET History /\ L # {}
  BY <1>1, <1>2 DEF BlocksOf
<1>4. x \in L /\ \A s \in L : x.nth <= s.nth
  BY <1>3, RecordsFacts
<1>. HIDE DEF x
<1>5. x \in S /\ x.block = Max(B)
  BY <1>4
<1>6. FtRow(R, x) \in FtRows(R)
  BY <1>5 DEF FtRows
<1>7. Best(FtRows(R), FtRow(R, x))
  <2>. SUFFICES ASSUME NEW s \in R, s.token \notin {Near} \cup Pool,
                       SameKey(FtRow(R, x), FtRow(R, s))
                PROVE  \/ s.block < x.block
                       \/ s.block = x.block /\ s.nth >= x.nth
    BY DEF Best, FtRows, FtRow
  <2>1. s \in S
    BY <1>5 DEF SameKey, FtRow
  <2>2. s.block \in B
    BY <2>1 DEF BlocksOf
  <2>3. s.block \in Nat /\ x.block \in Nat /\ x.block >= s.block
    BY <1>2, <1>5, <2>2
  <2>4. CASE s.block = x.block
    <3>1. s \in L
      BY <1>5, <2>1, <2>4
    <3>2. x.nth <= s.nth /\ x.nth \in Nat /\ s.nth \in Nat
      BY <1>3, <1>4, <3>1, HistoryAssumption
    <3>. QED  BY <2>4, <3>2
  <2>5. CASE s.block # x.block
    BY <2>3, <2>5
  <2>. QED  BY <2>4, <2>5
<1>8. x.block >= r.block
  BY <1>1, <1>2, <1>5
<1>. QED  BY <1>5, <1>6, <1>7, <1>8

\* Rows of the file, and those a page reads with them: by number of block, and of a token
\* of the history or of a derived one.
DerivedToken(t) == \E a \in Asset : t = <<"confidential", a>>
FtTyped(rows) == \A r \in rows : r.token \in Tokens /\ r.block \in Nat
FtReadTyped(rows) == \A r \in rows : (r.token \in Tokens \/ DerivedToken(r.token)) /\ r.block \in Nat

\* A derived token is none of the history.
LEMMA TokensFacts == \A t \in Tokens : ~DerivedToken(t)
BY HistoryAssumption DEF Tokens, DerivedToken

\* Rows of an answer have its tokens.
LEMMA FtRowsFacts ==
  ASSUME NEW R \in SUBSET History
  PROVE  FtTyped(FtRows(R))
BY HistoryAssumption DEF FtTyped, FtRows, FtRow, Tokens

\* A merge makes no row up.
LEMMA MergeFtFacts ==
  ASSUME NEW old, NEW new
  PROVE  MergeFtTransactions(old, new) \subseteq old \cup new
BY DEF MergeFtTransactions

\* What is read has derived rows, what is written has none.
LEMMA ReadTyped ==
  ASSUME FtTyped(ft)
  PROVE  FtReadTyped(AllFt)
<1>1. \A r \in DerivedRows(stored) : DerivedToken(r.token) /\ r.block \in Nat
  BY DEF DerivedRows, DerivedToken, Movements
<1>. QED  BY <1>1 DEF AllFt, FtTyped, FtReadTyped

\* No derived row is written.
LEMMA WrittenTyped ==
  ASSUME NEW old, FtReadTyped(old), NEW R \in SUBSET History
  PROVE  FtTyped(Persisted(MergeFtTransactions(old, FtRows(R))))
<1>1. \A r \in MergeFtTransactions(old, FtRows(R)) :
        (r.token \in Tokens \/ DerivedToken(r.token)) /\ r.block \in Nat
  BY MergeFtFacts, FtRowsFacts DEF FtReadTyped, FtTyped
<1>. QED  BY <1>1 DEF Persisted, FtTyped, DerivedToken

\* The file has a row of every key of the answer, as new as that.
LEMMA FtRowsSay ==
  ASSUME NEW old, FtReadTyped(old), NEW R \in SUBSET History
  PROVE  FtSays(R, Persisted(MergeFtTransactions(old, FtRows(R))))
<1>. DEFINE best == {n \in FtRows(R) : Best(FtRows(R), n)}
            merged == MergeFtTransactions(old, FtRows(R))
<1>. SUFFICES ASSUME NEW r \in R, r.token \notin {Near} \cup Pool
              PROVE  \E n \in Persisted(merged) :
                       n.hash = HashAt(R, r.block) /\ n.token = r.token /\ n.block >= r.block
  BY DEF FtSays
<1>1. PICK x \in R : /\ FtRow(R, x) \in FtRows(R) /\ Best(FtRows(R), FtRow(R, x))
                     /\ HashAt(R, x.block) = HashAt(R, r.block) /\ x.token = r.token
                     /\ x.block >= r.block
  BY BestRow
<1>2. PICK n : n = FtRow(R, x)
  OBVIOUS
<1>3. /\ n \in best /\ n.hash = HashAt(R, r.block) /\ n.token = r.token /\ n.block >= r.block
      /\ n.block \in Nat /\ r.block \in Nat /\ r.token \in Tokens
  BY <1>1, <1>2, HistoryAssumption DEF FtRow, Tokens
<1>4. \A m : m.token = r.token /\ m \in merged => m \in Persisted(merged)
  BY <1>3, TokensFacts DEF Persisted, DerivedToken
<1>5. CASE \A o \in old : SameKey(n, o) => n.block > o.block
  <2>1. n \in merged
    BY <1>3, <1>5 DEF MergeFtTransactions
  <2>. QED  BY <1>3, <1>4, <2>1
<1>6. ASSUME NEW o \in old, SameKey(n, o), ~(n.block > o.block)
      PROVE  /\ o \in merged
             /\ o.hash = HashAt(R, r.block) /\ o.token = r.token /\ o.block >= r.block
  <2>1. o.block \in Nat /\ n.block <= o.block
    BY <1>3, <1>6 DEF FtReadTyped
  <2>2. o.hash = HashAt(R, r.block) /\ o.token = r.token /\ o.block >= r.block
    BY <1>3, <1>6, <2>1 DEF SameKey
  <2>3. ASSUME NEW s \in best, SameKey(o, s) PROVE s.block <= o.block
    <3>1. SameKey(s, n) /\ SameKey(n, s) /\ n \in FtRows(R) /\ s \in FtRows(R) /\ s.block \in Nat
      BY <1>3, <1>6, <2>3, FtRowsFacts DEF SameKey, FtTyped
    <3>2. n.block < s.block \/ n.block = s.block
      BY <2>3, <3>1 DEF Best
    <3>3. s.block < n.block \/ s.block = n.block
      BY <1>3, <3>1 DEF Best
    <3>. QED  BY <1>3, <2>1, <3>1, <3>2, <3>3
  <2>. QED  BY <2>2, <2>3 DEF MergeFtTransactions
<1>. QED  BY <1>4, <1>5, <1>6

\* Some natural numbers below another have a greatest one.
LEMMA GreatestBelow ==
  ASSUME NEW S \in SUBSET Nat, S # {}, NEW n \in Nat, \A x \in S : x <= n
  PROVE  Max(S) \in S /\ \A y \in S : Max(S) >= y
<1>. DEFINE D == {n - x : x \in S}
<1>1. D \in SUBSET Nat /\ D # {}
  <2>1. \A x \in S : x \in Nat /\ x <= n /\ n - x \in Nat
    OBVIOUS
  <2>. QED  BY <2>1
<1>2. PICK d \in D : \A c \in D : d <= c
  <2>. HIDE DEF D
  <2>. QED  BY <1>1, LeastNatural
<1>3. PICK x \in S : d = n - x
  BY <1>2
<1>4. ASSUME NEW y \in S PROVE x >= y
  <2>1. n - y \in D
    OBVIOUS
  <2>2. n - x <= n - y
    BY <1>2, <1>3, <2>1
  <2>. QED  BY <2>2
<1>. QED  BY <1>4 DEF Max

\* Working out the earnings of an entry leaves it where it is.
LEMMA RecomputedFacts ==
  ASSUME NEW E, NEW e, HasBlock(e)
  PROVE  /\ HasBlock(Recomputed(E, e))
         /\ Recomputed(E, e).block = e.block /\ Recomputed(E, e).place = e.place
         /\ Recomputed(E, e).tx = e.tx /\ Recomputed(E, e).balance = e.balance
<1>. DEFINE Same(f) == /\ DOMAIN f = EntryFields /\ f.block = e.block /\ f.place = e.place
                       /\ f.tx = e.tx /\ f.balance = e.balance
<1>1. DOMAIN e = EntryFields
  BY DEF HasBlock
<1>2. PICK f : f = Recomputed(E, e)
  OBVIOUS
<1>3. \/ \E d, n : f = [e EXCEPT !.deposit = d, !.earnings = n]
      \/ \E d, w, n : f = [e EXCEPT !.deposit = d, !.withdrawal = w, !.earnings = n]
      \/ \E n : f = [e EXCEPT !.earnings = n]
  BY <1>2 DEF Recomputed
<1>4. ASSUME NEW d, NEW n, f = [e EXCEPT !.deposit = d, !.earnings = n]
      PROVE  Same(f)
  BY <1>1, <1>4 DEF EntryFields
<1>5. ASSUME NEW d, NEW w, NEW n, f = [e EXCEPT !.deposit = d, !.withdrawal = w, !.earnings = n]
      PROVE  Same(f)
  BY <1>1, <1>5 DEF EntryFields
<1>6. ASSUME NEW n, f = [e EXCEPT !.earnings = n]
      PROVE  Same(f)
  BY <1>1, <1>6 DEF EntryFields
<1>7. Same(f)
  <2>. HIDE DEF Same
  <2>. QED  BY <1>3, <1>4, <1>5, <1>6
<1>. QED  BY <1>2, <1>7 DEF HasBlock

\* So it leaves the entries of a file where they are.
LEMMA AllRecomputedFacts ==
  ASSUME NEW E, EntriesOK(E)
  PROVE  LET F == RecomputeStakingEarnings(E) IN
         EntriesOK(F) /\ BlocksOf(F) = BlocksOf(E)
<1>1. PICK F : F = RecomputeStakingEarnings(E)
  OBVIOUS
<1>2. F = {Recomputed(E, e) : e \in E}
  BY <1>1 DEF RecomputeStakingEarnings
<1>3. \A e \in E : /\ HasBlock(Recomputed(E, e))
                   /\ Recomputed(E, e).block = e.block /\ Recomputed(E, e).place = e.place
  BY RecomputedFacts DEF EntriesOK
<1>4. \A f \in F : HasBlock(f) /\ \E e \in E : f.block = e.block /\ f.place = e.place
  BY <1>2, <1>3
<1>5. \A e \in E : \E f \in F : f.block = e.block
  BY <1>2, <1>3
<1>6. PICK n \in Nat : \A e \in E : e.place <= n
  BY DEF EntriesOK
<1>7. \A f \in F : f.place <= n
  BY <1>4, <1>6
<1>8. EntriesOK(F)
  BY <1>4, <1>7 DEF EntriesOK
<1>9. BlocksOf(F) = BlocksOf(E)
  BY <1>4, <1>5 DEF BlocksOf
<1>. QED  BY <1>1, <1>8, <1>9

\* The entries of an answer are of its blocks.
LEMMA NewEntriesFacts ==
  ASSUME NEW R \in SUBSET History, NEW p
  PROVE  /\ EntriesOK(StakingEntries(R, p))
         /\ \A e \in StakingEntries(R, p) : e.block \in BlocksOf(History)
<1>1. ASSUME NEW e \in StakingEntries(R, p)
      PROVE  HasBlock(e) /\ e.place <= 0 /\ e.block \in BlocksOf(History)
  <2>1. PICK b \in BlocksOf(Of(R, p)) : e = StakingEntry(R, p, b)
    BY DEF StakingEntries
  <2>2. HasBlock(e) /\ e.block = b /\ e.place = 0
    BY <2>1 DEF StakingEntry, HasBlock, EntryFields
  <2>3. b \in BlocksOf(History)
    BY DEF BlocksOf, Of
  <2>. QED  BY <2>2, <2>3
<1>. QED  BY <1>1 DEF EntriesOK

\* One entry in another place.
LEMMA PlacedFacts ==
  ASSUME NEW e, HasBlock(e), NEW n \in Nat
  PROVE  LET f == [e EXCEPT !.place = n] IN
         /\ HasBlock(f) /\ f.place = n
         /\ f.block = e.block /\ f.tx = e.tx /\ f.balance = e.balance
         /\ f.deposit = e.deposit /\ f.withdrawal = e.withdrawal
<1>1. DOMAIN e = EntryFields
  BY DEF HasBlock
<1>2. PICK f : f = [e EXCEPT !.place = n]
  OBVIOUS
<1>3. DOMAIN f = EntryFields /\ f.place = n
  BY <1>1, <1>2 DEF EntryFields
<1>4. f.block = e.block /\ f.tx = e.tx /\ f.balance = e.balance
  BY <1>1, <1>2 DEF EntryFields
<1>5. f.deposit = e.deposit /\ f.withdrawal = e.withdrawal
  BY <1>1, <1>2 DEF EntryFields
<1>. QED  BY <1>2, <1>3, <1>4, <1>5 DEF HasBlock

\* Every block keeps its last entry, in the first place.
LEMMA LastPerBlockFacts ==
  ASSUME NEW E, EntriesOK(E)
  PROVE  LET F == LastPerBlock(E) IN
         /\ EntriesOK(F) /\ BlocksOf(F) = BlocksOf(E)
         /\ \A f \in F : \E e \in E : /\ f = [e EXCEPT !.place = 0] /\ f.block = e.block
                                      /\ \A g \in E : g.block = e.block => g.place <= e.place
<1>. DEFINE last == {e \in E : \A f \in E : f.block = e.block => f.place <= e.place}
<1>1. PICK F : F = LastPerBlock(E)
  OBVIOUS
<1>2. F = {[e EXCEPT !.place = 0] : e \in last}
  BY <1>1 DEF LastPerBlock
<1>3. ASSUME NEW e \in E
      PROVE  /\ HasBlock([e EXCEPT !.place = 0]) /\ [e EXCEPT !.place = 0].place = 0
             /\ [e EXCEPT !.place = 0].block = e.block
  BY PlacedFacts DEF EntriesOK
<1>4. \A f \in F : HasBlock(f) /\ f.place = 0
  BY <1>2, <1>3
<1>5. ASSUME NEW f \in F PROVE \E e \in last : f = [e EXCEPT !.place = 0] /\ f.block = e.block
  <2>1. PICK e \in last : f = [e EXCEPT !.place = 0]
    BY <1>2
  <2>2. f.block = e.block
    BY <1>3, <2>1
  <2>. QED  BY <2>1, <2>2
<1>6. ASSUME NEW e \in E PROVE \E f \in F : f.block = e.block
  <2>. DEFINE N == {g.place : g \in {g \in E : g.block = e.block}}
  <2>1. PICK n \in Nat : \A g \in E : g.place <= n
    BY DEF EntriesOK
  <2>2. N \in SUBSET Nat /\ N # {} /\ \A m \in N : m <= n
    BY <2>1 DEF EntriesOK, HasBlock
  <2>3. Max(N) \in N /\ \A m \in N : Max(N) >= m
    <3>. HIDE DEF N
    <3>. QED  BY <2>2, GreatestBelow
  <2>4. PICK g \in E : g.block = e.block /\ g.place = Max(N)
    BY <2>3
  <2>5. \A h \in E : h.block = e.block => Max(N) >= h.place
    BY <2>3
  <2>6. \A h \in E : h.place \in Nat
    BY DEF EntriesOK, HasBlock
  <2>. HIDE DEF N
  <2>7. g \in last
    BY <2>4, <2>5, <2>6
  <2>. HIDE DEF last
  <2>8. [g EXCEPT !.place = 0] \in F
    BY <1>2, <2>7
  <2>. QED  BY <1>3, <2>4, <2>8
<1>7. EntriesOK(F)
  BY <1>4 DEF EntriesOK
<1>8. BlocksOf(F) = BlocksOf(E)
  BY <1>5, <1>6 DEF BlocksOf
<1>. QED  BY <1>1, <1>5, <1>7, <1>8

\* What is kept and what is new, together.
LEMMA BothOK ==
  ASSUME NEW D, NEW E, EntriesOK(D), EntriesOK(E)
  PROVE  EntriesOK(D \cup E)
<1>1. PICK m \in Nat : \A e \in D : e.place <= m
  BY DEF EntriesOK
<1>2. PICK n \in Nat : \A e \in E : e.place <= n
  BY DEF EntriesOK
<1>3. \A e \in D \cup E : HasBlock(e) /\ e.place \in Nat
  BY DEF EntriesOK, HasBlock
<1>4. \A e \in D \cup E : e.place <= m + n
  BY <1>1, <1>2, <1>3
<1>. QED  BY <1>3, <1>4 DEF EntriesOK

\* What is kept of the entries of a file is, too.
LEMMA SomeOK ==
  ASSUME NEW E, EntriesOK(E), NEW D \in SUBSET E
  PROVE  EntriesOK(D)
BY DEF EntriesOK

\* The entries that an answer is merged with.
MergedWith(old, new) == LastPerBlock(Outside(old, new)) \cup new

\* An answer's entries are of blocks that it covers, the others are not.
LEMMA MergedWithFacts ==
  ASSUME NEW R \in SUBSET History, NEW p, NEW old, EntriesOK(old)
  PROVE  LET new == StakingEntries(R, p) IN
         /\ EntriesOK(Outside(old, new)) /\ EntriesOK(MergedWith(old, new))
         /\ MergeStakingEntries(old, new) = RecomputeStakingEarnings(MergedWith(old, new))
         /\ \A e \in new : Covered(new, e.block)
         /\ \A e \in LastPerBlock(Outside(old, new)) : ~Covered(new, e.block)
<1>1. PICK new : new = StakingEntries(R, p)
  OBVIOUS
<1>2. EntriesOK(new) /\ BlocksOf(new) \subseteq BlocksOf(History)
  BY <1>1, NewEntriesFacts DEF BlocksOf
<1>3. PICK out : out = Outside(old, new)
  OBVIOUS
<1>4. out \in SUBSET old /\ \A e \in out : ~Covered(new, e.block)
  BY <1>3 DEF Outside
<1>5. EntriesOK(out)
  BY <1>4, SomeOK
<1>6. PICK F : F = LastPerBlock(out)
  OBVIOUS
<1>7. EntriesOK(F) /\ BlocksOf(F) = BlocksOf(out)
  BY <1>5, <1>6, LastPerBlockFacts
<1>8. \A e \in F : ~Covered(new, e.block)
  <2>. SUFFICES ASSUME NEW e \in F PROVE ~Covered(new, e.block)
    OBVIOUS
  <2>0. e.block \in BlocksOf(F)
    BY DEF BlocksOf
  <2>1. PICK f \in out : f.block = e.block
    BY <1>7, <2>0 DEF BlocksOf
  <2>2. ~Covered(new, f.block)
    BY <1>4
  <2>. QED  BY <2>1, <2>2
<1>9. \A e \in new : Covered(new, e.block)
  <2>. SUFFICES ASSUME NEW e \in new PROVE Covered(new, e.block)
    OBVIOUS
  <2>1. e.block \in BlocksOf(new)
    BY DEF BlocksOf
  <2>. QED  BY <1>2, <2>1, BlocksFacts DEF Covered
<1>10. EntriesOK(F \cup new)
  BY <1>2, <1>7, BothOK
<1>11. MergedWith(old, new) = F \cup new
  BY <1>3, <1>6 DEF MergedWith
<1>12. MergeStakingEntries(old, new) = RecomputeStakingEarnings(F \cup new)
  BY <1>3, <1>6 DEF MergeStakingEntries
<1>. QED  BY <1>1, <1>3, <1>5, <1>6, <1>8, <1>9, <1>10, <1>11, <1>12

\* A merge of a pool's entries leaves, of the blocks that the answer covers, its own.
LEMMA EntriesSay ==
  ASSUME NEW R \in SUBSET History, NEW p, NEW old, EntriesOK(old)
  PROVE  LET entries == MergeStakingEntries(old, StakingEntries(R, p)) IN
         PoolSays(R, p, entries) /\ EntriesOK(entries)
<1>1. PICK new : new = StakingEntries(R, p)
  OBVIOUS
<1>2. PICK E : E = MergedWith(old, new)
  OBVIOUS
<1>3. PICK entries : entries = MergeStakingEntries(old, new)
  OBVIOUS
<1>4. /\ EntriesOK(E) /\ entries = RecomputeStakingEarnings(E)
      /\ \A e \in new : Covered(new, e.block)
      /\ \A e \in LastPerBlock(Outside(old, new)) : ~Covered(new, e.block)
  BY <1>1, <1>2, <1>3, MergedWithFacts
<1>5. EntriesOK(entries) /\ BlocksOf(entries) = BlocksOf(E)
  BY <1>4, AllRecomputedFacts
<1>6. \A e \in E : e \in new \/ ~Covered(new, e.block)
  BY <1>2, <1>4 DEF MergedWith
<1>7. \A e \in new : e \in E
  BY <1>2 DEF MergedWith
<1>8. {e.block : e \in {e \in entries : Covered(new, e.block)}}
        = {b \in BlocksOf(entries) : Covered(new, b)}
  BY DEF BlocksOf
<1>9. {b \in BlocksOf(E) : Covered(new, b)} = BlocksOf(new)
  BY <1>4, <1>6, <1>7 DEF BlocksOf
<1>10. PoolSays(R, p, entries)
  BY <1>1, <1>5, <1>8, <1>9 DEF PoolSays
<1>. QED  BY <1>1, <1>3, <1>5, <1>10

\* The merge of two devices' files of a pool has the blocks of both.
LEMMA MergePoolFacts ==
  ASSUME NEW ours, NEW theirs, EntriesOK(ours), EntriesOK(theirs)
  PROVE  LET E == MergePoolFiles(ours, theirs) IN
         /\ EntriesOK(E) /\ BlocksOf(E) = BlocksOf(ours) \cup BlocksOf(theirs)
         /\ \A f \in theirs : PlaceAmong(ours, f) \in Nat
<1>1. PICK m \in Nat : \A e \in ours : e.place <= m
  BY DEF EntriesOK
<1>2. PICK n \in Nat : \A f \in theirs : f.place <= n
  BY DEF EntriesOK
<1>3. \A e \in ours \cup theirs : HasBlock(e) /\ e.place \in Nat
  BY DEF EntriesOK, HasBlock
<1>4. ASSUME NEW f \in theirs
      PROVE  PlaceAmong(ours, f) \in Nat /\ PlaceAmong(ours, f) <= m + 1 + n
  <2>. DEFINE same == {e \in ours : SameEntry(e, f)}
              block == {e \in ours : e.block = f.block}
              N == {e.place : e \in block}
  <2>1. CASE same # {}
    <3>1. PICK e : e = CHOOSE s \in same : TRUE
      OBVIOUS
    <3>2. e \in ours
      BY <2>1, <3>1
    <3>3. PlaceAmong(ours, f) = e.place
      BY <2>1, <3>1 DEF PlaceAmong
    <3>. QED  BY <1>1, <1>3, <3>2, <3>3
  <2>2. CASE same = {} /\ block # {}
    <3>1. N \in SUBSET Nat /\ N # {} /\ \A x \in N : x <= m
      BY <1>1, <1>3, <2>2
    <3>2. Max(N) \in N
      <4>. HIDE DEF N
      <4>. QED  BY <3>1, GreatestBelow
    <3>3. Max(N) \in Nat /\ Max(N) <= m
      <4>. HIDE DEF N
      <4>. QED  BY <3>1, <3>2
    <3>4. PlaceAmong(ours, f) = Max(N) + 1 + f.place
      BY <2>2 DEF PlaceAmong
    <3>5. f.place \in Nat /\ f.place <= n
      BY <1>2, <1>3
    <3>. HIDE DEF N
    <3>. QED  BY <3>3, <3>4, <3>5
  <2>3. CASE same = {} /\ block = {}
    <3>1. PlaceAmong(ours, f) = f.place
      BY <2>3 DEF PlaceAmong
    <3>. QED  BY <1>2, <1>3, <3>1
  <2>. QED  BY <2>1, <2>2, <2>3
<1>5. PICK E : E = MergePoolFiles(ours, theirs)
  OBVIOUS
<1>6. \A f \in theirs : /\ HasBlock([f EXCEPT !.place = PlaceAmong(ours, f)])
                        /\ [f EXCEPT !.place = PlaceAmong(ours, f)].block = f.block
                        /\ [f EXCEPT !.place = PlaceAmong(ours, f)].place = PlaceAmong(ours, f)
  BY <1>3, <1>4, PlacedFacts
<1>7. ASSUME NEW e \in E
      PROVE  /\ HasBlock(e) /\ e.place <= m + 1 + n
             /\ e.block \in BlocksOf(ours) \cup BlocksOf(theirs)
  <2>1. CASE e \in ours
    BY <1>1, <1>3, <2>1 DEF BlocksOf
  <2>2. CASE e \notin ours
    <3>1. PICK f \in theirs : e = [f EXCEPT !.place = PlaceAmong(ours, f)]
      BY <1>5, <2>2 DEF MergePoolFiles
    <3>2. HasBlock(e) /\ e.block = f.block /\ e.place = PlaceAmong(ours, f)
      BY <1>6, <3>1
    <3>. QED  BY <1>4, <3>2 DEF BlocksOf
  <2>. QED  BY <2>1, <2>2
<1>8. ASSUME NEW e \in ours \cup theirs PROVE e.block \in BlocksOf(E)
  <2>1. ASSUME NEW f \in theirs PROVE f.block \in BlocksOf(E)
    <3>1. [f EXCEPT !.place = PlaceAmong(ours, f)] \in E
      BY <1>5 DEF MergePoolFiles
    <3>. QED  BY <1>6, <3>1 DEF BlocksOf
  <2>2. CASE e \in ours /\ \A f \in theirs : ~SameEntry(e, f)
    BY <1>5, <2>2 DEF MergePoolFiles, BlocksOf
  <2>. QED  BY <2>1, <2>2 DEF SameEntry
<1>9. EntriesOK(E)
  BY <1>7 DEF EntriesOK
<1>10. BlocksOf(E) = BlocksOf(ours) \cup BlocksOf(theirs)
  BY <1>7, <1>8 DEF BlocksOf
<1>. QED  BY <1>4, <1>5, <1>9, <1>10

---------------------------------------------------------------------------
(* Histories, and the pages of one. *)

\* What h has is in g, and as settled there.
Within(h, g) == \A i \in Items(h) : i \in Items(g) /\ (h[i] = "SUCCESS" => g[i] = "SUCCESS")

\* What was read of an earlier feed is of a later one.
LEMMA WithinTransitive ==
  ASSUME NEW f, NEW g, NEW h, Within(f, g), Within(g, h)
  PROVE  Within(f, h)
BY DEF Within

\* The empty history.
LEMMA NoItemsFacts == IsHistory(NoItems) /\ Items(NoItems) = {} /\ \A h : Within(NoItems, h)
BY DEF IsHistory, NoItems, Items, Within

\* A merge of histories has the items of both, the fresher copy where both have one.
LEMMA MergeFacts ==
  ASSUME NEW old, NEW new
  PROVE  LET h == MergeHistory(old, new) IN
         /\ Items(h) = Items(old) \cup Items(new)
         /\ \A i \in Items(new) : h[i] = new[i]
         /\ \A i \in Items(old) : i \notin Items(new) => h[i] = old[i]
         /\ IsHistory(old) /\ IsHistory(new) => IsHistory(h)
         /\ \A g : Within(old, g) /\ Within(new, g) => Within(h, g)
<1>1. PICK h : h = MergeHistory(old, new)
  OBVIOUS
<1>2. /\ Items(h) = Items(old) \cup Items(new)
      /\ \A i \in Items(new) : h[i] = new[i]
      /\ \A i \in Items(old) : i \notin Items(new) => h[i] = old[i]
  BY <1>1 DEF MergeHistory, Items
<1>3. IsHistory(old) /\ IsHistory(new) => IsHistory(h)
  BY <1>2 DEF IsHistory, Items
<1>4. \A g : Within(old, g) /\ Within(new, g) => Within(h, g)
  BY <1>2 DEF Within
<1>. QED  BY <1>1, <1>2, <1>3, <1>4

\* What is older than a cursor is the beginning of the feed.
LEMMA OlderThan ==
  ASSUME NEW n \in Nat, NEW cursor \in Nat
  PROVE  \E m \in Nat :
           /\ m <= n
           /\ (IF cursor = 0 THEN 1 .. n ELSE {i \in 1 .. n : i < cursor}) = 1 .. m
           /\ \A i \in 1 .. n : (cursor = 0 \/ i < cursor) <=> i <= m
<1>. DEFINE S == IF cursor = 0 THEN 1 .. n ELSE {i \in 1 .. n : i < cursor}
<1>1. PICK m : m = IF cursor = 0 \/ cursor > n THEN n ELSE cursor - 1
  OBVIOUS
<1>2. m \in Nat /\ m <= n
  BY <1>1
<1>3. \A i \in 1 .. n : (cursor = 0 \/ i < cursor) <=> i <= m
  BY <1>1
<1>4. S = 1 .. m
  <2>1. \A i : i \in S <=> i \in 1 .. n /\ (cursor = 0 \/ i < cursor)
    OBVIOUS
  <2>. HIDE DEF S
  <2>2. \A i : i \in S <=> i \in 1 .. m
    BY <1>2, <1>3, <2>1
  <2>. QED  BY <2>2
<1>. QED  BY <1>2, <1>3, <1>4

\* A page is the newest of what is older than its cursor, and all of it when it is not full.
LEMMA PageFacts ==
  ASSUME NEW n \in Nat, NEW cursor \in Nat
  PROVE  LET page == PageBefore(1 .. n, cursor) IN
         /\ page \subseteq 1 .. n
         /\ cursor # 0 => \A i \in page : i < cursor
         /\ page # {} =>
              /\ Min(page) \in page
              /\ \A i \in 1 .. n : (cursor = 0 \/ i < cursor) /\ i >= Min(page) => i \in page
         /\ Cardinality(page) # PageLimit =>
              \A i \in 1 .. n : cursor = 0 \/ i < cursor => i \in page
<1>1. PICK m \in Nat :
        /\ m <= n
        /\ (IF cursor = 0 THEN 1 .. n ELSE {i \in 1 .. n : i < cursor}) = 1 .. m
        /\ \A i \in 1 .. n : (cursor = 0 \/ i < cursor) <=> i <= m
  BY OlderThan
<1>2. PICK page : page = PageBefore(1 .. n, cursor)
  OBVIOUS
<1>3. page = {i \in 1 .. m : Cardinality({j \in 1 .. m : j > i}) < PageLimit}
  BY <1>1, <1>2 DEF PageBefore, NewestOf
<1>4. ASSUME NEW i \in 1 .. m PROVE Cardinality({j \in 1 .. m : j > i}) = m - i
  <2>1. {j \in 1 .. m : j > i} = (i + 1) .. m
    BY <1>1
  <2>2. i + 1 \in Int /\ m \in Int /\ i \in Int /\ i <= m
    BY <1>1
  <2>3. Cardinality((i + 1) .. m) = IF i + 1 > m THEN 0 ELSE m - (i + 1) + 1
    BY <2>2, FS_Interval
  <2>4. PICK k : k = Cardinality({j \in 1 .. m : j > i})
    OBVIOUS
  <2>5. k = IF i + 1 > m THEN 0 ELSE m - (i + 1) + 1
    BY <2>1, <2>3, <2>4
  <2>6. k = m - i
    BY <2>2, <2>5
  <2>. QED  BY <2>4, <2>6
<1>5. page = {i \in 1 .. m : m - i < PageLimit}
  BY <1>3, <1>4
<1>6. PageLimit \in Nat /\ PageLimit > 0
  BY BoundAssumption
<1>7. PICK low \in Nat : low >= 1 /\ low <= m + 1 /\ page = low .. m
                       /\ (low = 1 \/ m - low + 1 = PageLimit)
  <2>1. CASE m < PageLimit
    <3>1. page = 1 .. m
      BY <1>1, <1>5, <1>6, <2>1
    <3>. QED  BY <3>1
  <2>2. CASE ~(m < PageLimit)
    <3>1. m - PageLimit + 1 \in Nat /\ m - PageLimit + 1 >= 1 /\ m - PageLimit + 1 <= m + 1
      BY <1>6, <2>2
    <3>2. ASSUME NEW i PROVE i \in page <=> i \in (m - PageLimit + 1) .. m
      BY <1>5, <1>6, <2>2
    <3>3. page = (m - PageLimit + 1) .. m
      BY <3>2
    <3>4. m - (m - PageLimit + 1) + 1 = PageLimit
      BY <1>6
    <3>. QED  BY <3>1, <3>3, <3>4
  <2>. QED  BY <2>1, <2>2
<1>8. Cardinality(page) # PageLimit => low = 1
  <2>1. Cardinality(low .. m) = IF low > m THEN 0 ELSE m - low + 1
    BY FS_Interval
  <2>. QED  BY <1>6, <1>7, <2>1
<1>9. page # {} => low <= m /\ Min(page) = low
  <2>. SUFFICES ASSUME page # {} PROVE low <= m /\ Min(page) = low
    OBVIOUS
  <2>1. low <= m /\ low \in page /\ \A i \in page : low <= i
    BY <1>7
  <2>2. page \in SUBSET Nat
    BY <1>7
  <2>3. Min(page) \in page /\ \A i \in page : Min(page) <= i
    BY <2>1, <2>2, LeastNatural
  <2>4. Min(page) \in Nat
    BY <2>2, <2>3
  <2>5. Min(page) <= low /\ low <= Min(page)
    BY <2>1, <2>3
  <2>. QED  BY <2>1, <2>4, <2>5
<1>10. cursor # 0 => \A i \in page : i < cursor
  BY <1>1, <1>7
<1>11. page \subseteq 1 .. n
  BY <1>1, <1>7
<1>12. page # {} =>
         /\ Min(page) \in page
         /\ \A i \in 1 .. n : (cursor = 0 \/ i < cursor) /\ i >= Min(page) => i \in page
  BY <1>1, <1>7, <1>9
<1>13. Cardinality(page) # PageLimit => \A i \in 1 .. n : cursor = 0 \/ i < cursor => i \in page
  BY <1>1, <1>7, <1>8
<1>. QED  BY <1>2, <1>10, <1>11, <1>12, <1>13

---------------------------------------------------------------------------
(* The invariant. *)

Fields == {"op", "step", "got", "near", "ft", "pools", "staking", "items", "base", "cursor", "page",
           "asked", "cut", "actual", "verdict"}

\* Walked(f, i): item i of the feed as it was when the walk began has been read.
Walked(f, i) == i \in Items(f.items) /\ (f.asked[i] = "SUCCESS" => f.items[i] = "SUCCESS")

\* Of a call, whatever others do.
CallOK(f) ==
  /\ DOMAIN f = Fields
  /\ f.got \in SUBSET History
  /\ IsHistory(f.items) /\ Within(f.items, feed)
  /\ IsHistory(f.base) /\ Within(f.base, feed)
  /\ Within(f.asked, feed)
  /\ f.cursor \in Nat
  /\ f.step = "request" => f.items = NoItems /\ f.cursor = 0
  /\ f.step \in {"write near", "write ft"} => FtReadTyped(f.ft)
  /\ f.step \in {"pool", "write pool"} => f.pools \subseteq PoolsIn(f.got)
  /\ f.step = "write pool" => \A s \in f.staking : s[1] \in f.pools /\ EntriesOK(s[2])
  /\ f.step = "check" => f.actual = [a \in Asset |-> BalanceOf(f.asked, a)]
  /\ ~f.cut /\ f.step = "walk" /\ f.cursor # 0 =>
       \A i \in Items(f.asked) : i >= f.cursor => Walked(f, i)
  /\ ~f.cut /\ f.step \in {"merge", "write items"} => \A i \in Items(f.asked) : Walked(f, i)

\* Of a call that nobody else changed a file under: what it has written so far is there, and
\* what it has read of the feed is no older than the store.
Alone(f) ==
  /\ f.step \in {"convert", "near", "ft", "write near", "write ft", "pool", "write pool"} =>
       records = f.got
  /\ f.step \in {"write ft", "pool", "write pool"} => NearSays(f.got, near)
  /\ f.step \in {"pool", "write pool"} =>
       /\ FtSays(f.got, ft)
       /\ \A p \in PoolsIn(f.got) \ f.pools : PoolSays(f.got, p, pools[p])
  /\ f.step \in {"walk", "merge", "write items"} =>
       \A i \in Items(stored) \cap Items(f.items) : stored[i] = "SUCCESS" => f.items[i] = "SUCCESS"
  /\ f.step = "write items" => f.base = stored

FilesOK ==
  /\ served \in SUBSET History /\ records \in SUBSET History
  /\ IsHistory(feed) /\ \E n \in 0 .. MaxItem : Items(feed) = 1 .. n
  /\ IsHistory(stored) /\ Within(stored, feed)
  /\ FtTyped(ft)
  /\ pools = [p \in Pool |-> pools[p]]
  /\ \A p \in Pool : EntriesOK(pools[p])

FilesInOrder ==
  /\ FilesOK
  /\ call = [c \in Caller |-> call[c]]
  /\ \A c \in Caller : CallOK(call[c]) /\ (c \notin late => Alone(call[c]))

---------------------------------------------------------------------------
(* The steps. *)

\* A call that is not there disturbs nothing.
LEMMA NoCallOK == CallOK(NoCall) /\ Alone(NoCall) /\ Alone(NoCall)' /\ NoCall.step = "idle"
<1>1. DOMAIN NoCall = Fields
  BY DEF NoCall, Fields
<1>2. /\ NoCall.got = {} /\ NoCall.items = NoItems /\ NoCall.base = NoItems
      /\ NoCall.asked = NoItems /\ NoCall.cursor = 0 /\ NoCall.step = "idle"
  BY DEF NoCall
<1>. QED  BY <1>1, <1>2, NoItemsFacts DEF CallOK, Alone

\* All is in order at the start.
LEMMA InitInOrder == Init => FilesInOrder
<1>. SUFFICES ASSUME Init PROVE FilesInOrder
  OBVIOUS
<1>1. Items(NoItems) = 1 .. 0 /\ 0 \in 0 .. MaxItem
  BY NoItemsFacts, BoundAssumption
<1>2. FilesOK
  <2>1. EntriesOK({})
    BY DEF EntriesOK
  <2>. QED  BY <1>1, <2>1, NoItemsFacts DEF Init, FilesOK, FtTyped
<1>3. call = [c \in Caller |-> call[c]] /\ \A c \in Caller : call[c] = NoCall
  BY DEF Init
<1>. QED  BY <1>2, <1>3, NoCallOK DEF FilesInOrder

\* What a call is, when others change the files under it or not.
LEMMA OthersGoOn ==
  ASSUME NEW c \in Caller, NEW d \in Caller, d # c, NEW g, call[d] = g,
         CallOK(g), d \notin late => Alone(g), UNCHANGED feed,
         \/ UNCHANGED files /\ late \ {c} \subseteq late'
         \/ Changed(c)
  PROVE  CallOK(g)' /\ (d \notin late' => Alone(g)')
<1>1. CallOK(g)'
  BY DEF CallOK
<1>2. ASSUME d \notin late' PROVE Alone(g)'
  <2>1. CASE UNCHANGED files /\ late \ {c} \subseteq late'
    BY <1>2, <2>1 DEF Alone, files
  <2>2. CASE Changed(c)
    <3>1. g.step = "idle"
      BY <1>2, <2>2 DEF Changed, Busy, At_
    <3>. QED  BY <3>1 DEF Alone
  <2>. QED  BY <2>1, <2>2
<1>. QED  BY <1>1, <1>2

\* A call takes a step: of the others only those that are at work under a change of the files
\* are disturbed, and they are noted.
LEMMA CallGoesOn ==
  ASSUME FilesInOrder, NEW c \in Caller, NEW f, Goto(c, f),
         UNCHANGED feed, FilesOK', CallOK(f), c \notin late' => Alone(f)',
         \/ UNCHANGED files /\ late \ {c} \subseteq late'
         \/ Changed(c)
  PROVE  FilesInOrder'
<1>1. call' = [d \in Caller |-> call'[d]] /\ call'[c] = f
      /\ \A d \in Caller : d # c => call'[d] = call[d]
  BY DEF FilesInOrder, Goto
<1>2. ASSUME NEW d \in Caller
      PROVE  \E g : call'[d] = g /\ CallOK(g)' /\ (d \notin late' => Alone(g)')
  <2>1. CASE d = c
    <3>1. CallOK(f)'
      BY DEF CallOK
    <3>. QED  BY <1>1, <2>1, <3>1
  <2>2. CASE d # c
    <3>1. PICK g : g = call[d]
      OBVIOUS
    <3>2. CallOK(g) /\ (d \notin late => Alone(g)) /\ call'[d] = g
      BY <1>1, <2>2, <3>1 DEF FilesInOrder
    <3>3. CallOK(g)' /\ (d \notin late' => Alone(g)')
      BY <2>2, <3>1, <3>2, OthersGoOn
    <3>. QED  BY <3>2, <3>3
  <2>. QED  BY <2>1, <2>2
<1>. QED  BY <1>1, <1>2 DEF FilesInOrder

\* The same, when it writes nothing.
LEMMA CallReads ==
  ASSUME FilesInOrder, NEW c \in Caller, NEW f, Goto(c, f),
         UNCHANGED <<hostVars, files>>, late \ {c} \subseteq late',
         CallOK(f), c \notin late' => Alone(f)
  PROVE  FilesInOrder'
<1>1. FilesOK'
  BY DEF FilesInOrder, FilesOK, hostVars, files
<1>2. c \notin late' => Alone(f)'
  BY DEF Alone, files
<1>. QED  BY <1>1, <1>2, CallGoesOn DEF hostVars

\* A call ends.
LEMMA CallEnds ==
  ASSUME FilesInOrder, NEW c \in Caller, End(c),
         UNCHANGED feed, FilesOK',
         \/ UNCHANGED files /\ late \ {c} \subseteq late'
         \/ Changed(c)
  PROVE  FilesInOrder'
<1>1. PICK f : f = NoCall
  OBVIOUS
<1>2. Goto(c, f) /\ CallOK(f) /\ Alone(f)'
  BY <1>1, NoCallOK DEF End
<1>. QED  BY <1>2, CallGoesOn

\* A call ends that wrote nothing in this step.
LEMMA CallEndsReading ==
  ASSUME FilesInOrder, NEW c \in Caller, End(c), UNCHANGED <<hostVars, files, late>>
  PROVE  FilesInOrder'
<1>1. FilesOK'
  BY DEF FilesInOrder, FilesOK, hostVars, files
<1>. QED  BY <1>1, CallEnds DEF hostVars

\* What the call of c is.
LEMMA CallIs ==
  ASSUME FilesInOrder, NEW c \in Caller
  PROVE  \E g : call[c] = g /\ CallOK(g) /\ DOMAIN g = Fields /\ (c \notin late => Alone(g))
BY DEF FilesInOrder, CallOK

\* A press of a button: whatever was changed before is of no concern to it.
LEMMA PressInOrder ==
  ASSUME FilesInOrder, NEW c \in Caller, NEW op, Press(c, op, "request")
  PROVE  FilesInOrder'
<1>1. PICK g : g = NoCall
  OBVIOUS
<1>2. DOMAIN g = Fields /\ g.items = NoItems /\ g.cursor = 0 /\ CallOK(g)
  BY <1>1, NoCallOK DEF NoCall, Fields
<1>3. PICK f : f = [g EXCEPT !.op = op, !.step = "request"]
  OBVIOUS
<1>4. /\ DOMAIN f = Fields /\ f.step = "request" /\ f.got = g.got /\ f.items = g.items
      /\ f.base = g.base /\ f.asked = g.asked /\ f.cursor = g.cursor
  BY <1>2, <1>3 DEF Fields
<1>5. CallOK(f) /\ Alone(f)
  BY <1>2, <1>4 DEF CallOK, Alone
<1>6. Goto(c, f) /\ late' = late \ {c} /\ UNCHANGED <<hostVars, files>>
  BY <1>1, <1>3 DEF Press
<1>. QED  BY <1>5, <1>6, CallReads

\* The answer is of records of the history.
LEMMA AnsweredInOrder ==
  ASSUME FilesInOrder, NEW c \in Caller, Answered(c)
  PROVE  FilesInOrder'
<1>1. PICK g : call[c] = g /\ CallOK(g) /\ DOMAIN g = Fields
  BY CallIs
<1>2. PICK f : f = [g EXCEPT !.step = "records", !.got = Answer]
  OBVIOUS
<1>3. Goto(c, f) \/ End(c)
  BY <1>1, <1>2 DEF Answered
<1>4. Answer \in SUBSET History
  BY DEF Answer, FilesInOrder, FilesOK
<1>5. /\ DOMAIN f = Fields /\ f.step = "records" /\ f.got = Answer /\ f.items = g.items
      /\ f.base = g.base /\ f.asked = g.asked /\ f.cursor = g.cursor
  BY <1>1, <1>2 DEF Fields
<1>6. CallOK(f) /\ Alone(f)
  BY <1>1, <1>4, <1>5 DEF CallOK, Alone
<1>7. UNCHANGED <<hostVars, files, late>>
  BY DEF Answered
<1>8. CASE Goto(c, f)
  BY <1>6, <1>7, <1>8, CallReads
<1>9. CASE End(c)
  BY <1>7, <1>9, CallEndsReading
<1>. QED  BY <1>3, <1>8, <1>9

\* The records are those of the answer from here on, for a call that runs alone.
LEMMA WriteRecordsInOrder ==
  ASSUME FilesInOrder, NEW c \in Caller, WriteRecords(c)
  PROVE  FilesInOrder'
<1>1. PICK g : call[c] = g /\ CallOK(g) /\ DOMAIN g = Fields
  BY CallIs
<1>2. PICK f : f = [g EXCEPT !.step = "convert"]
  OBVIOUS
<1>3. /\ Goto(c, f) /\ records' = g.got /\ Changed(c)
      /\ UNCHANGED <<hostVars, near, ft, pools, stored>>
  BY <1>1, <1>2 DEF WriteRecords
<1>4. /\ DOMAIN f = Fields /\ f.step = "convert" /\ f.got = g.got /\ f.items = g.items
      /\ f.base = g.base /\ f.asked = g.asked /\ f.cursor = g.cursor
  BY <1>1, <1>2 DEF Fields
<1>5. CallOK(f)
  BY <1>1, <1>4 DEF CallOK
<1>6. Alone(f)'
  BY <1>3, <1>4 DEF Alone
<1>7. FilesOK'
  BY <1>1, <1>3 DEF FilesInOrder, FilesOK, CallOK, hostVars
<1>. QED  BY <1>3, <1>5, <1>6, <1>7, CallGoesOn DEF hostVars

\* The conversion succeeds or ends the import.
LEMMA ConvertInOrder ==
  ASSUME FilesInOrder, NEW c \in Caller, Convert(c)
  PROVE  FilesInOrder'
<1>1. PICK g : call[c] = g /\ CallOK(g) /\ DOMAIN g = Fields /\ (c \notin late => Alone(g))
  BY CallIs
<1>2. PICK f : f = [g EXCEPT !.step = "near"]
  OBVIOUS
<1>3. (Goto(c, f) \/ End(c)) /\ g.step = "convert" /\ UNCHANGED <<hostVars, files, late>>
  BY <1>1, <1>2 DEF Convert, At_
<1>4. /\ DOMAIN f = Fields /\ f.step = "near" /\ f.got = g.got /\ f.items = g.items
      /\ f.base = g.base /\ f.asked = g.asked /\ f.cursor = g.cursor
  BY <1>1, <1>2 DEF Fields
<1>5. CallOK(f)
  BY <1>1, <1>4 DEF CallOK
<1>6. c \notin late' => Alone(f)
  BY <1>1, <1>3, <1>4 DEF Alone
<1>7. CASE Goto(c, f)
  BY <1>3, <1>5, <1>6, <1>7, CallReads
<1>8. CASE End(c)
  BY <1>3, <1>8, CallEndsReading
<1>. QED  BY <1>3, <1>7, <1>8

\* The NEAR rows are read.
LEMMA ReadNearInOrder ==
  ASSUME FilesInOrder, NEW c \in Caller, ReadNear(c)
  PROVE  FilesInOrder'
<1>1. PICK g : call[c] = g /\ CallOK(g) /\ DOMAIN g = Fields /\ (c \notin late => Alone(g))
  BY CallIs
<1>2. PICK f : f = [g EXCEPT !.step = "ft", !.near = near]
  OBVIOUS
<1>3. Goto(c, f) /\ g.step = "near" /\ UNCHANGED <<hostVars, files, late>>
  BY <1>1, <1>2 DEF ReadNear, At_
<1>4. /\ DOMAIN f = Fields /\ f.step = "ft" /\ f.got = g.got /\ f.items = g.items
      /\ f.base = g.base /\ f.asked = g.asked /\ f.cursor = g.cursor
  BY <1>1, <1>2 DEF Fields
<1>5. CallOK(f)
  BY <1>1, <1>4 DEF CallOK
<1>6. c \notin late' => Alone(f)
  BY <1>1, <1>3, <1>4 DEF Alone
<1>. QED  BY <1>3, <1>5, <1>6, CallReads

\* The token rows are read, the derived ones with them.
LEMMA ReadFtInOrder ==
  ASSUME FilesInOrder, NEW c \in Caller, ReadFt(c)
  PROVE  FilesInOrder'
<1>1. PICK g : call[c] = g /\ CallOK(g) /\ DOMAIN g = Fields /\ (c \notin late => Alone(g))
  BY CallIs
<1>2. PICK f : f = [g EXCEPT !.step = "write near", !.ft = AllFt]
  OBVIOUS
<1>3. Goto(c, f) /\ g.step = "ft" /\ UNCHANGED <<hostVars, files, late>>
  BY <1>1, <1>2 DEF ReadFt, At_
<1>4. /\ DOMAIN f = Fields /\ f.step = "write near" /\ f.got = g.got /\ f.items = g.items
      /\ f.base = g.base /\ f.asked = g.asked /\ f.cursor = g.cursor /\ f.ft = AllFt
  BY <1>1, <1>2 DEF Fields
<1>5. FtReadTyped(AllFt)
  BY ReadTyped DEF FilesInOrder, FilesOK
<1>6. CallOK(f)
  BY <1>1, <1>4, <1>5 DEF CallOK
<1>7. c \notin late' => Alone(f)
  BY <1>1, <1>3, <1>4 DEF Alone
<1>. QED  BY <1>3, <1>6, <1>7, CallReads

\* The NEAR rows say what the answer does.
LEMMA WriteNearInOrder ==
  ASSUME FilesInOrder, NEW c \in Caller, WriteNear(c)
  PROVE  FilesInOrder'
<1>1. PICK g : call[c] = g /\ CallOK(g) /\ DOMAIN g = Fields /\ (c \notin late => Alone(g))
  BY CallIs
<1>2. PICK f : f = [g EXCEPT !.step = "write ft"]
  OBVIOUS
<1>3. /\ Goto(c, f) /\ g.step = "write near" /\ Changed(c)
      /\ near' = MergeTransactions(g.near, NearRows(g.got))
      /\ UNCHANGED <<hostVars, records, ft, pools, stored>>
  BY <1>1, <1>2 DEF WriteNear, At_
<1>4. /\ DOMAIN f = Fields /\ f.step = "write ft" /\ f.got = g.got /\ f.items = g.items
      /\ f.base = g.base /\ f.asked = g.asked /\ f.cursor = g.cursor /\ f.ft = g.ft
  BY <1>1, <1>2 DEF Fields
<1>5. CallOK(f)
  BY <1>1, <1>3, <1>4 DEF CallOK
<1>6. c \notin late' => Alone(f)'
  <2>. SUFFICES ASSUME c \notin late' PROVE Alone(f)'
    OBVIOUS
  <2>1. Alone(g)
    BY <1>1, <1>3 DEF Changed
  <2>2. PICK n : n = MergeTransactions(g.near, NearRows(g.got))
    OBVIOUS
  <2>3. NearSays(g.got, n)
    BY <1>1, <2>2, NearRowsSay DEF CallOK
  <2>4. near' = n
    BY <1>3, <2>2
  <2>5. NearSays(f.got, near)'
    BY <1>4, <2>3, <2>4
  <2>. QED  BY <1>3, <1>4, <2>1, <2>5 DEF Alone
<1>7. FilesOK'
  BY <1>3 DEF FilesInOrder, FilesOK, hostVars
<1>. QED  BY <1>3, <1>5, <1>6, <1>7, CallGoesOn DEF hostVars

\* The token rows say what the answer does; no pool is done yet.
LEMMA WriteFtInOrder ==
  ASSUME FilesInOrder, NEW c \in Caller, WriteFt(c)
  PROVE  FilesInOrder'
<1>1. PICK g : call[c] = g /\ CallOK(g) /\ DOMAIN g = Fields /\ (c \notin late => Alone(g))
  BY CallIs
<1>2. PICK P : P = PoolsIn(g.got)
  OBVIOUS
<1>3. PICK f : f = [g EXCEPT !.step = "pool", !.pools = P]
  OBVIOUS
<1>4. PICK rows : rows = Persisted(MergeFtTransactions(g.ft, FtRows(g.got)))
  OBVIOUS
<1>5. /\ Goto(c, f) \/ End(c)
      /\ g.step = "write ft" /\ Changed(c) /\ ft' = rows
      /\ UNCHANGED <<hostVars, records, near, pools, stored>>
  BY <1>1, <1>2, <1>3, <1>4 DEF WriteFt, At_, NextPool
<1>6. FtTyped(rows) /\ FtSays(g.got, rows)
  BY <1>1, <1>4, <1>5, WrittenTyped, FtRowsSay DEF CallOK
<1>7. FilesOK'
  BY <1>5, <1>6 DEF FilesInOrder, FilesOK, hostVars
<1>8. CASE Goto(c, f)
  <2>1. /\ DOMAIN f = Fields /\ f.step = "pool" /\ f.got = g.got /\ f.items = g.items
        /\ f.base = g.base /\ f.asked = g.asked /\ f.cursor = g.cursor /\ f.pools = P
    BY <1>1, <1>3 DEF Fields
  <2>2. CallOK(f)
    BY <1>1, <1>2, <2>1 DEF CallOK
  <2>3. c \notin late' => Alone(f)'
    <3>. SUFFICES ASSUME c \notin late' PROVE Alone(f)'
      OBVIOUS
    <3>1. Alone(g)
      BY <1>1, <1>5 DEF Changed
    <3>2. FtSays(f.got, ft)'
      BY <1>5, <1>6, <2>1
    <3>3. PoolsIn(f.got) \ f.pools = {}
      BY <1>2, <2>1
    <3>. QED  BY <1>5, <2>1, <3>1, <3>2, <3>3 DEF Alone
  <2>. QED  BY <1>5, <1>7, <1>8, <2>2, <2>3, CallGoesOn DEF hostVars
<1>9. CASE End(c)
  BY <1>5, <1>7, <1>9, CallEnds DEF hostVars
<1>. QED  BY <1>5, <1>8, <1>9

\* The entries of one of the pools that are left are read.
LEMMA ReadPoolInOrder ==
  ASSUME FilesInOrder, NEW c \in Caller, ReadPool(c)
  PROVE  FilesInOrder'
<1>1. PICK g : call[c] = g /\ CallOK(g) /\ DOMAIN g = Fields /\ (c \notin late => Alone(g))
  BY CallIs
<1>2. PICK p \in g.pools :
        Goto(c, [g EXCEPT !.step = "write pool", !.staking = {<<p, pools[p]>>}])
  BY <1>1 DEF ReadPool
<1>3. PICK entries : entries = pools[p]
  OBVIOUS
<1>4. PICK f : f = [g EXCEPT !.step = "write pool", !.staking = {<<p, entries>>}]
  OBVIOUS
<1>5. Goto(c, f) /\ g.step = "pool" /\ UNCHANGED <<hostVars, files, late>>
  BY <1>1, <1>2, <1>3, <1>4 DEF ReadPool, At_
<1>6. /\ DOMAIN f = Fields /\ f.step = "write pool" /\ f.got = g.got /\ f.items = g.items
      /\ f.base = g.base /\ f.asked = g.asked /\ f.cursor = g.cursor /\ f.pools = g.pools
      /\ f.staking = {<<p, entries>>}
  BY <1>1, <1>4 DEF Fields
<1>7. g.pools \subseteq PoolsIn(g.got)
  BY <1>1, <1>5 DEF CallOK
<1>8. EntriesOK(entries)
  BY <1>3, <1>7 DEF FilesInOrder, FilesOK, PoolsIn
<1>9. CallOK(f)
  <2>1. ASSUME NEW s \in f.staking PROVE s[1] \in f.pools /\ EntriesOK(s[2])
    <3>1. s = <<p, entries>>
      BY <1>6
    <3>2. s[1] = p /\ s[2] = entries
      BY <3>1
    <3>3. p \in f.pools
      BY <1>6
    <3>. QED  BY <1>8, <3>2, <3>3
  <2>. QED  BY <1>1, <1>6, <1>7, <2>1 DEF CallOK
<1>10. c \notin late' => Alone(f)
  BY <1>1, <1>5, <1>6 DEF Alone
<1>. QED  BY <1>5, <1>9, <1>10, CallReads

\* One more pool is as the answer says, and the others stay.
LEMMA WritePoolInOrder ==
  ASSUME FilesInOrder, NEW c \in Caller, WritePool(c)
  PROVE  FilesInOrder'
<1>1. PICK g : call[c] = g /\ CallOK(g) /\ DOMAIN g = Fields /\ (c \notin late => Alone(g))
  BY CallIs
<1>2. PICK s \in g.staking :
        /\ pools' = [pools EXCEPT ![s[1]] = MergeStakingEntries(s[2], StakingEntries(g.got, s[1]))]
        /\ NextPool(c, g.pools \ {s[1]})
  BY <1>1 DEF WritePool
<1>3. PICK p : p = s[1]
  OBVIOUS
<1>4. PICK entries : entries = MergeStakingEntries(s[2], StakingEntries(g.got, p))
  OBVIOUS
<1>5. PICK f : f = [g EXCEPT !.step = "pool", !.pools = g.pools \ {p}]
  OBVIOUS
<1>6. /\ Goto(c, f) \/ End(c)
      /\ g.step = "write pool" /\ Changed(c) /\ pools' = [pools EXCEPT ![p] = entries]
      /\ UNCHANGED <<hostVars, records, near, ft, stored>>
  BY <1>1, <1>2, <1>3, <1>4, <1>5 DEF WritePool, At_, NextPool
<1>7. /\ g.got \in SUBSET History /\ g.pools \subseteq PoolsIn(g.got) /\ p \in g.pools
      /\ EntriesOK(s[2])
  BY <1>1, <1>2, <1>3, <1>6 DEF CallOK
<1>8. PoolSays(g.got, p, entries) /\ EntriesOK(entries)
  BY <1>4, <1>7, EntriesSay
<1>9. /\ p \in Pool /\ pools' = [q \in Pool |-> pools'[q]] /\ pools'[p] = entries
      /\ \A q \in Pool : q # p => pools'[q] = pools[q]
  BY <1>6, <1>7 DEF FilesInOrder, FilesOK, PoolsIn
<1>10. FilesOK'
  <2>1. \A q \in Pool : EntriesOK(pools'[q])
    BY <1>8, <1>9 DEF FilesInOrder, FilesOK
  <2>. QED  BY <1>6, <1>9, <2>1 DEF FilesInOrder, FilesOK, hostVars
<1>11. CASE Goto(c, f)
  <2>1. /\ DOMAIN f = Fields /\ f.step = "pool" /\ f.got = g.got /\ f.items = g.items
        /\ f.base = g.base /\ f.asked = g.asked /\ f.cursor = g.cursor
        /\ f.pools = g.pools \ {p}
    BY <1>1, <1>5 DEF Fields
  <2>2. CallOK(f)
    BY <1>1, <1>7, <2>1 DEF CallOK
  <2>3. c \notin late' => Alone(f)'
    <3>. SUFFICES ASSUME c \notin late' PROVE Alone(f)'
      OBVIOUS
    <3>1. Alone(g)
      BY <1>1, <1>6 DEF Changed
    <3>2. ASSUME NEW q \in PoolsIn(f.got) \ f.pools PROVE PoolSays(f.got, q, pools'[q])
      <4>1. q \in Pool /\ q \in PoolsIn(g.got)
        BY <2>1 DEF PoolsIn
      <4>2. CASE q = p
        BY <1>8, <1>9, <2>1, <4>2
      <4>3. CASE q # p
        BY <1>6, <1>9, <2>1, <3>1, <4>1, <4>3 DEF Alone
      <4>. QED  BY <4>2, <4>3
    <3>3. NearSays(f.got, near)' /\ FtSays(f.got, ft)' /\ records' = f.got
      BY <1>6, <2>1, <3>1 DEF Alone
    <3>. QED  BY <2>1, <3>2, <3>3 DEF Alone
  <2>. QED  BY <1>6, <1>10, <1>11, <2>2, <2>3, CallGoesOn DEF hostVars
<1>12. CASE End(c)
  BY <1>6, <1>10, <1>12, CallEnds DEF hostVars
<1>. QED  BY <1>6, <1>11, <1>12

\* The walk begins with nothing read, and the feed as it is now is what is asked for.
LEMMA OpenSessionInOrder ==
  ASSUME FilesInOrder, NEW c \in Caller, OpenSession(c)
  PROVE  FilesInOrder'
<1>1. PICK g : call[c] = g /\ CallOK(g) /\ DOMAIN g = Fields /\ (c \notin late => Alone(g))
  BY CallIs
<1>2. PICK f : f = [g EXCEPT !.step = "walk", !.asked = feed]
  OBVIOUS
<1>3. (Goto(c, f) \/ End(c)) /\ g.step = "request" /\ UNCHANGED <<hostVars, files, late>>
  BY <1>1, <1>2 DEF OpenSession, At_
<1>4. /\ DOMAIN f = Fields /\ f.step = "walk" /\ f.got = g.got /\ f.items = g.items
      /\ f.base = g.base /\ f.asked = feed /\ f.cursor = g.cursor
  BY <1>1, <1>2 DEF Fields
<1>5. f.items = NoItems /\ f.cursor = 0
  BY <1>1, <1>3, <1>4 DEF CallOK
<1>6. CallOK(f)
  BY <1>1, <1>4, <1>5 DEF CallOK, Within
<1>7. Alone(f)
  BY <1>4, <1>5, NoItemsFacts DEF Alone
<1>8. CASE Goto(c, f)
  BY <1>3, <1>6, <1>7, <1>8, CallReads
<1>9. CASE End(c)
  BY <1>3, <1>9, CallEndsReading
<1>. QED  BY <1>3, <1>8, <1>9

\* What a walk has after a page: what it had, and the page as the feed has it.
After(f, page) == [i \in Items(f.items) \cup page |-> IF i \in page THEN feed[i] ELSE f.items[i]]

\* What a page adds is as the feed has it.
LEMMA AfterFacts ==
  ASSUME FilesInOrder, NEW g, CallOK(g), NEW page, page \subseteq Items(feed),
         NEW h, h = After(g, page)
  PROVE  /\ IsHistory(h) /\ Within(h, feed)
         /\ Items(h) = Items(g.items) \cup page
         /\ \A i \in page : h[i] = feed[i]
         /\ \A i \in Items(g.items) : i \notin page => h[i] = g.items[i]
<1>1. /\ Items(h) = Items(g.items) \cup page
      /\ \A i \in page : h[i] = feed[i]
      /\ \A i \in Items(g.items) : i \notin page => h[i] = g.items[i]
  BY DEF After, Items
<1>2. Within(h, feed)
  BY <1>1 DEF CallOK, Within
<1>3. IsHistory(h)
  BY <1>1 DEF CallOK, IsHistory, FilesInOrder, FilesOK, Items
<1>. QED  BY <1>1, <1>2, <1>3

\* Nothing that is stored is newer than the page.
LEMMA AfterAlone ==
  ASSUME FilesInOrder, NEW g, CallOK(g), Alone(g), g.step = "walk",
         NEW page, page \subseteq Items(feed),
         NEW f, f.items = After(g, page), f.step \in {"walk", "merge"}
  PROVE  Alone(f)
<1>1. PICK h : h = f.items
  OBVIOUS
<1>2. ASSUME NEW i \in Items(stored) \cap Items(h), stored[i] = "SUCCESS" PROVE h[i] = "SUCCESS"
  <2>1. CASE i \in page
    BY <1>1, <1>2, <2>1, AfterFacts DEF FilesInOrder, FilesOK, Within
  <2>2. CASE i \notin page
    BY <1>1, <1>2, <2>2, AfterFacts DEF Alone
  <2>. QED  BY <2>1, <2>2
<1>. QED  BY <1>1, <1>2 DEF Alone

\* The walk goes on at a cursor, or is over.
LEMMA HostAnswersInOrder ==
  ASSUME FilesInOrder, NEW c \in Caller, HostAnswers(c)
  PROVE  FilesInOrder'
<1>1. PICK g : call[c] = g /\ CallOK(g) /\ DOMAIN g = Fields /\ (c \notin late => Alone(g))
  BY CallIs
<1>2. PICK page : page = PageBefore(Items(feed), g.cursor)
  OBVIOUS
<1>3. g.step = "walk" /\ UNCHANGED <<hostVars, files, late>>
  BY <1>1 DEF HostAnswers, At_
<1>4. PICK cursor : /\ Page(c, page, cursor)
                    /\ cursor = 0 \/ (page # {} /\ cursor = Min(page))
  BY <1>1, <1>2 DEF HostAnswers, CursorOf
<1>5. PICK n \in Nat : Items(feed) = 1 .. n
  BY DEF FilesInOrder, FilesOK
<1>6. g.cursor \in Nat
  BY <1>1 DEF CallOK
<1>7. /\ page \subseteq 1 .. n
      /\ g.cursor # 0 => \A i \in page : i < g.cursor
      /\ page # {} =>
           /\ Min(page) \in page
           /\ \A i \in 1 .. n : (g.cursor = 0 \/ i < g.cursor) /\ i >= Min(page) => i \in page
      /\ Cardinality(page) # PageLimit =>
           \A i \in 1 .. n : g.cursor = 0 \/ i < g.cursor => i \in page
  BY <1>2, <1>5, <1>6, PageFacts
<1>8. cursor \in Nat
  <2>1. CASE cursor = 0
    BY <2>1
  <2>2. CASE page # {} /\ cursor = Min(page)
    <3>1. cursor \in 1 .. n
      BY <1>7, <2>2
    <3>. QED  BY <3>1
  <2>. QED  BY <1>4, <2>1, <2>2
<1>9. PICK h : h = After(g, page)
  OBVIOUS
<1>10. /\ IsHistory(h) /\ Within(h, feed)
       /\ Items(h) = Items(g.items) \cup page
       /\ \A i \in page : h[i] = feed[i]
       /\ \A i \in Items(g.items) : i \notin page => h[i] = g.items[i]
  <2>1. page \subseteq Items(feed)
    BY <1>5, <1>7
  <2>. QED  BY <1>1, <1>9, <2>1, AfterFacts
<1>11. PICK f : f = [g EXCEPT !.items = h, !.cursor = cursor, !.page = g.page + 1]
  OBVIOUS
<1>12. /\ DOMAIN f = Fields /\ f.step = g.step /\ f.got = g.got /\ f.items = h
       /\ f.base = g.base /\ f.asked = g.asked /\ f.cursor = cursor /\ f.cut = g.cut
  BY <1>1, <1>11 DEF Fields
<1>13. PICK e : e = [f EXCEPT !.step = "merge", !.cursor = 0]
  OBVIOUS
<1>14. /\ DOMAIN e = Fields /\ e.step = "merge" /\ e.got = g.got /\ e.items = h
       /\ e.base = g.base /\ e.asked = g.asked /\ e.cursor = 0 /\ e.cut = g.cut
  BY <1>12, <1>13 DEF Fields
<1>15. \/ End(c)
       \/ cursor # 0 /\ Goto(c, f)
       \/ Cardinality(page) # PageLimit /\ Goto(c, e)
  BY <1>1, <1>4, <1>9, <1>11, <1>13 DEF Page, After
<1>16. \A i \in Items(g.asked) : i \in 1 .. n /\ (g.asked[i] = "SUCCESS" => feed[i] = "SUCCESS")
  BY <1>1, <1>5 DEF CallOK, Within
<1>17. ASSUME NEW i \in Items(g.asked), i \in page \/ Walked(g, i)
       PROVE  i \in Items(h) /\ (g.asked[i] = "SUCCESS" => h[i] = "SUCCESS")
  <2>1. CASE i \in page
    BY <1>10, <1>16, <2>1
  <2>2. CASE i \notin page
    BY <1>10, <1>17, <2>2 DEF Walked
  <2>. QED  BY <2>1, <2>2
<1>18. CASE End(c)
  BY <1>3, <1>18, CallEndsReading
<1>19. CASE cursor # 0 /\ Goto(c, f)
  <2>1. ASSUME ~f.cut, NEW i \in Items(f.asked), i >= f.cursor PROVE Walked(f, i)
    <3>1. i \in 1 .. n /\ i \in Items(g.asked) /\ i >= Min(page) /\ page # {}
      BY <1>4, <1>12, <1>16, <1>19, <2>1
    <3>2. CASE g.cursor = 0 \/ i < g.cursor
      BY <1>7, <1>12, <1>17, <3>1, <3>2 DEF Walked
    <3>3. CASE ~(g.cursor = 0 \/ i < g.cursor)
      <4>1. i >= g.cursor /\ g.cursor # 0
        BY <1>6, <3>1, <3>3
      <4>2. Walked(g, i)
        BY <1>1, <1>3, <1>12, <2>1, <3>1, <4>1 DEF CallOK
      <4>. QED  BY <1>12, <1>17, <3>1, <4>2 DEF Walked
    <3>. QED  BY <3>2, <3>3
  <2>2. CallOK(f)
    BY <1>1, <1>3, <1>8, <1>10, <1>12, <2>1 DEF CallOK
  <2>3. c \notin late' => Alone(f)
    BY <1>1, <1>3, <1>5, <1>7, <1>9, <1>12, AfterAlone
  <2>. QED  BY <1>3, <1>19, <2>2, <2>3, CallReads
<1>20. CASE Cardinality(page) # PageLimit /\ Goto(c, e)
  <2>1. ASSUME ~e.cut, NEW i \in Items(e.asked) PROVE Walked(e, i)
    <3>1. i \in 1 .. n /\ i \in Items(g.asked)
      BY <1>14, <1>16, <2>1
    <3>2. CASE g.cursor = 0 \/ i < g.cursor
      BY <1>7, <1>14, <1>17, <1>20, <3>1, <3>2 DEF Walked
    <3>3. CASE ~(g.cursor = 0 \/ i < g.cursor)
      <4>1. i >= g.cursor /\ g.cursor # 0
        BY <1>6, <3>1, <3>3
      <4>2. Walked(g, i)
        BY <1>1, <1>3, <1>14, <2>1, <3>1, <4>1 DEF CallOK
      <4>. QED  BY <1>14, <1>17, <3>1, <4>2 DEF Walked
    <3>. QED  BY <3>2, <3>3
  <2>2. IsHistory(e.items) /\ Within(e.items, feed) /\ e.cursor \in Nat
    BY <1>10, <1>14
  <2>3. /\ e.got \in SUBSET History /\ IsHistory(e.base) /\ Within(e.base, feed)
        /\ Within(e.asked, feed)
    BY <1>1, <1>14 DEF CallOK
  <2>4. CallOK(e)
    BY <1>14, <2>1, <2>2, <2>3 DEF CallOK
  <2>5. c \notin late' => Alone(e)
    BY <1>1, <1>3, <1>5, <1>7, <1>9, <1>14, AfterAlone
  <2>. QED  BY <1>3, <1>20, <2>4, <2>5, CallReads
<1>. QED  BY <1>15, <1>18, <1>19, <1>20

\* A page that is cut short ends the walk, and nothing is said of its being complete.
LEMMA HostCutsShortInOrder ==
  ASSUME FilesInOrder, NEW c \in Caller, HostCutsShort(c)
  PROVE  FilesInOrder'
<1>1. PICK g : call[c] = g /\ CallOK(g) /\ DOMAIN g = Fields /\ (c \notin late => Alone(g))
  BY CallIs
<1>2. PICK page : page = PageBefore(Items(feed), g.cursor)
  OBVIOUS
<1>3. g.step = "walk" /\ UNCHANGED <<hostVars, files, late>>
  BY <1>1 DEF HostCutsShort, At_
<1>4. PICK i \in page :
        Goto(c, [g EXCEPT !.step = "merge", !.cursor = 0, !.page = g.page + 1, !.cut = TRUE,
                 !.items = After(g, {j \in page : j > i})])
  BY <1>1, <1>2 DEF HostCutsShort, After
<1>5. page \subseteq Items(feed)
  BY <1>2 DEF PageBefore, NewestOf
<1>6. PICK kept : kept = {j \in page : j > i}
  OBVIOUS
<1>7. PICK h : h = After(g, kept)
  OBVIOUS
<1>8. kept \subseteq Items(feed) /\ IsHistory(h) /\ Within(h, feed)
  BY <1>1, <1>5, <1>6, <1>7, AfterFacts
<1>9. PICK f : f = [g EXCEPT !.step = "merge", !.cursor = 0, !.page = g.page + 1, !.cut = TRUE,
                    !.items = h]
  OBVIOUS
<1>10. Goto(c, f)
  BY <1>4, <1>6, <1>7, <1>9
<1>11. /\ DOMAIN f = Fields /\ f.step = "merge" /\ f.got = g.got /\ f.items = h
       /\ f.base = g.base /\ f.asked = g.asked /\ f.cursor = 0 /\ f.cut = TRUE
  BY <1>1, <1>9 DEF Fields
<1>12. CallOK(f)
  <2>1. IsHistory(f.items) /\ Within(f.items, feed) /\ f.cursor \in Nat
    BY <1>8, <1>11
  <2>2. /\ f.got \in SUBSET History /\ IsHistory(f.base) /\ Within(f.base, feed)
        /\ Within(f.asked, feed)
    BY <1>1, <1>11 DEF CallOK
  <2>. QED  BY <1>11, <2>1, <2>2 DEF CallOK
<1>13. c \notin late' => Alone(f)
  BY <1>1, <1>3, <1>7, <1>8, <1>11, AfterAlone
<1>. QED  BY <1>3, <1>10, <1>12, <1>13, CallReads

\* The stored history is read for the merge.
LEMMA ReadItemsInOrder ==
  ASSUME FilesInOrder, NEW c \in Caller, ReadItems(c)
  PROVE  FilesInOrder'
<1>1. PICK g : call[c] = g /\ CallOK(g) /\ DOMAIN g = Fields /\ (c \notin late => Alone(g))
  BY CallIs
<1>2. PICK f : f = [g EXCEPT !.step = "write items", !.base = stored]
  OBVIOUS
<1>3. Goto(c, f) /\ g.step = "merge" /\ UNCHANGED <<hostVars, files, late>>
  BY <1>1, <1>2 DEF ReadItems, At_
<1>4. /\ DOMAIN f = Fields /\ f.step = "write items" /\ f.got = g.got /\ f.items = g.items
      /\ f.base = stored /\ f.asked = g.asked /\ f.cursor = g.cursor /\ f.cut = g.cut
  BY <1>1, <1>2 DEF Fields
<1>5. CallOK(f)
  <2>1. ASSUME ~f.cut, NEW i \in Items(f.asked) PROVE Walked(f, i)
    BY <1>1, <1>3, <1>4, <2>1 DEF CallOK, Walked
  <2>. QED  BY <1>1, <1>4, <2>1 DEF CallOK, FilesInOrder, FilesOK
<1>6. c \notin late' => Alone(f)
  BY <1>1, <1>3, <1>4 DEF Alone
<1>. QED  BY <1>3, <1>5, <1>6, CallReads

\* The merged history is still one of the feed.
LEMMA WriteItemsInOrder ==
  ASSUME FilesInOrder, NEW c \in Caller, WriteItems(c)
  PROVE  FilesInOrder'
<1>1. PICK g : call[c] = g /\ CallOK(g) /\ DOMAIN g = Fields
  BY CallIs
<1>2. PICK f : f = [g EXCEPT !.step = "balances", !.base = NoItems]
  OBVIOUS
<1>3. PICK h : h = MergeHistory(g.base, g.items)
  OBVIOUS
<1>4. Goto(c, f) /\ Changed(c) /\ stored' = h /\ UNCHANGED <<hostVars, records, near, ft, pools>>
  BY <1>1, <1>2, <1>3 DEF WriteItems
<1>5. /\ DOMAIN f = Fields /\ f.step = "balances" /\ f.got = g.got /\ f.items = g.items
      /\ f.base = NoItems /\ f.asked = g.asked /\ f.cursor = g.cursor
  BY <1>1, <1>2 DEF Fields
<1>6. CallOK(f) /\ Alone(f)'
  BY <1>1, <1>5, NoItemsFacts DEF CallOK, Alone
<1>7. IsHistory(h) /\ Within(h, feed)
  BY <1>1, <1>3, MergeFacts DEF CallOK
<1>8. FilesOK'
  BY <1>4, <1>7 DEF FilesInOrder, FilesOK, hostVars
<1>. QED  BY <1>4, <1>6, <1>8, CallGoesOn DEF hostVars

\* The balances are those of the feed at that time.
LEMMA FetchBalancesInOrder ==
  ASSUME FilesInOrder, NEW c \in Caller, FetchBalances(c)
  PROVE  FilesInOrder'
<1>1. PICK g : call[c] = g /\ CallOK(g) /\ DOMAIN g = Fields
  BY CallIs
<1>2. PICK b : b = [a \in Asset |-> BalanceOf(feed, a)]
  OBVIOUS
<1>3. PICK f : f = [g EXCEPT !.step = "check", !.asked = feed, !.actual = b]
  OBVIOUS
<1>4. Goto(c, f) /\ UNCHANGED <<hostVars, files, late>>
  BY <1>1, <1>2, <1>3 DEF FetchBalances
<1>5. /\ DOMAIN f = Fields /\ f.step = "check" /\ f.got = g.got /\ f.items = g.items
      /\ f.base = g.base /\ f.asked = feed /\ f.cursor = g.cursor /\ f.actual = b
  BY <1>1, <1>3 DEF Fields
<1>6. CallOK(f) /\ Alone(f)
  BY <1>1, <1>2, <1>5 DEF CallOK, Alone, Within
<1>. QED  BY <1>4, <1>6, CallReads

\* A fetch ends.
LEMMA CheckInOrder ==
  ASSUME FilesInOrder, NEW c \in Caller, HostFails(c) \/ Check(c)
  PROVE  FilesInOrder'
BY CallEndsReading DEF HostFails, Check

\* The history of the host grows and settles: what was read of it is still so.
LEMMA FeedGrows ==
  ASSUME FilesInOrder, NEW h, feed' = h, IsHistory(h), NEW n \in 0 .. MaxItem, Items(h) = 1 .. n,
         Within(feed, h), UNCHANGED <<served, files, call, late>>
  PROVE  FilesInOrder'
<1>1. \A g : Within(g, feed) => Within(g, h)
  BY WithinTransitive
<1>2. ASSUME NEW c \in Caller
      PROVE  CallOK(call[c])' /\ (c \notin late => Alone(call[c]))'
  <2>1. PICK g : call[c] = g /\ CallOK(g) /\ (c \notin late => Alone(g))
    BY CallIs
  <2>2. Within(g.items, feed)' /\ Within(g.base, feed)' /\ Within(g.asked, feed)'
    BY <1>1, <2>1 DEF CallOK
  <2>3. CallOK(g)'
    BY <2>1, <2>2 DEF CallOK
  <2>4. (c \notin late => Alone(g))'
    BY <2>1 DEF Alone, files
  <2>5. call'[c] = g
    BY <2>1
  <2>. QED  BY <2>3, <2>4, <2>5
<1>3. FilesOK'
  BY <1>1 DEF FilesInOrder, FilesOK, files
<1>. QED  BY <1>2, <1>3 DEF FilesInOrder

\* A quote is one item more.
LEMMA QuoteInOrder ==
  ASSUME FilesInOrder, Quote
  PROVE  FilesInOrder'
<1>1. PICK n \in 0 .. MaxItem : Items(feed) = 1 .. n
  BY DEF FilesInOrder, FilesOK
<1>2. Cardinality(Items(feed)) = n
  <2>1. Cardinality(1 .. n) = IF 1 > n THEN 0 ELSE n - 1 + 1
    BY FS_Interval
  <2>. QED  BY <1>1, <2>1
<1>3. PICK s \in Status :
        feed' = [j \in Items(feed) \cup {n + 1} |-> IF j = n + 1 THEN s ELSE feed[j]]
  BY <1>2 DEF Quote
<1>4. n + 1 \in Item /\ UNCHANGED <<served, files, call, late>>
  BY <1>2 DEF Quote
<1>5. PICK h : h = [j \in Items(feed) \cup {n + 1} |-> IF j = n + 1 THEN s ELSE feed[j]]
  OBVIOUS
<1>6. Items(h) = Items(feed) \cup {n + 1} /\ \A i \in Items(feed) : h[i] = feed[i]
  BY <1>1, <1>5 DEF Items
<1>7. IsHistory(h)
  BY <1>1, <1>4, <1>5 DEF IsHistory, Items, FilesInOrder, FilesOK
<1>8. Items(h) = 1 .. (n + 1) /\ n + 1 \in 0 .. MaxItem
  BY <1>1, <1>4, <1>6, BoundAssumption DEF Item
<1>9. Within(feed, h)
  BY <1>6 DEF Within
<1>. QED  BY <1>3, <1>4, <1>5, <1>7, <1>8, <1>9, FeedGrows

\* An item settles, and none unsettles.
LEMMA SettleInOrder ==
  ASSUME FilesInOrder, Settle
  PROVE  FilesInOrder'
<1>1. PICK i \in Items(feed) : feed' = [feed EXCEPT ![i] = "SUCCESS"]
  BY DEF Settle
<1>2. PICK n \in 0 .. MaxItem : Items(feed) = 1 .. n
  BY DEF FilesInOrder, FilesOK
<1>3. PICK h : h = [feed EXCEPT ![i] = "SUCCESS"]
  OBVIOUS
<1>4. Items(h) = Items(feed) /\ IsHistory(h) /\ Within(feed, h)
  BY <1>3 DEF Items, IsHistory, Within, Status, FilesInOrder, FilesOK
<1>5. feed' = h /\ UNCHANGED <<served, files, call, late>>
  BY <1>1, <1>3 DEF Settle
<1>. QED  BY <1>2, <1>4, <1>5, FeedGrows

\* The accounting server changes its answers, or nothing happens.
LEMMA HostsInOrder ==
  ASSUME FilesInOrder, Index \/ Repair \/ UNCHANGED vars
  PROVE  FilesInOrder'
<1>1. served' \in SUBSET History /\ UNCHANGED <<feed, files, call, late>>
  <2>1. CASE UNCHANGED vars
    BY <2>1 DEF vars, hostVars, FilesInOrder, FilesOK
  <2>2. CASE Index \/ Repair
    BY <2>2, HistoryAssumption DEF Index, Repair, FilesInOrder, FilesOK
  <2>. QED  BY <2>1, <2>2
<1>2. FilesOK'
  BY <1>1 DEF FilesInOrder, FilesOK, files
<1>3. ASSUME NEW c \in Caller
      PROVE  CallOK(call[c])' /\ (c \notin late => Alone(call[c]))'
  BY <1>1 DEF FilesInOrder, CallOK, Alone, files
<1>. QED  BY <1>1, <1>2, <1>3 DEF FilesInOrder

\* What an earlier fetch has stored is of the feed.
LEMMA EarlierFacts ==
  ASSUME FilesInOrder, NEW h \in EarlierHistories
  PROVE  IsHistory(h) /\ Within(h, feed)
<1>1. PICK m \in 0 .. MaxItem : Items(feed) = 1 .. m
  BY DEF FilesInOrder, FilesOK
<1>2. Cardinality(Items(feed)) = m
  <2>1. Cardinality(1 .. m) = IF 1 > m THEN 0 ELSE m - 1 + 1
    BY FS_Interval
  <2>. QED  BY <1>1, <2>1
<1>3. PICK n \in 0 .. m : /\ h \in [1 .. n -> Status]
                          /\ \A i \in 1 .. n : h[i] = "SUCCESS" => feed[i] = "SUCCESS"
  BY <1>2 DEF EarlierHistories
<1>4. DOMAIN h = 1 .. n /\ \A i \in 1 .. n : h[i] \in Status
  BY <1>3
<1>5. 1 .. n \subseteq 1 .. m /\ 1 .. n \subseteq Item
  BY <1>1, <1>3, BoundAssumption DEF Item
<1>. QED  BY <1>1, <1>3, <1>4, <1>5 DEF IsHistory, Within, Items

\* A sync of the files of another device, whose answer and history are given.
Merges(R, h, m) ==
  /\ R \in Served /\ h \in EarlierHistories
  /\ \/ m = MergeFiles(OurFiles, FilesOf(R, h))
     \/ m = MergeFiles(FilesOf(R, h), OurFiles)
  /\ records' = records \cup R
  /\ near' = m.near /\ ft' = m.ft /\ pools' = m.pools /\ stored' = m.stored

\* Every sync is one.
LEMMA SyncFacts ==
  ASSUME SyncArrives
  PROVE  /\ \E R, h, m : Merges(R, h, m)
         /\ late' = late \cup Busy /\ Spend("sync") /\ UNCHANGED <<hostVars, call>>
<1>1. PICK R \in Served, h \in EarlierHistories :
        /\ records' = records \cup R
        /\ \E m \in {MergeFiles(OurFiles, FilesOf(R, h)), MergeFiles(FilesOf(R, h), OurFiles)} :
             near' = m.near /\ ft' = m.ft /\ pools' = m.pools /\ stored' = m.stored
  BY DEF SyncArrives
<1>2. PICK m \in {MergeFiles(OurFiles, FilesOf(R, h)), MergeFiles(FilesOf(R, h), OurFiles)} :
        near' = m.near /\ ft' = m.ft /\ pools' = m.pools /\ stored' = m.stored
  BY <1>1
<1>3. Merges(R, h, m)
  BY <1>1, <1>2 DEF Merges
<1>. QED  BY <1>3 DEF SyncArrives

\* The four files, each of them merged one way or the other.
LEMMA MergesFacts ==
  ASSUME NEW R, NEW h, NEW m, Merges(R, h, m)
  PROVE  LET best == {r \in FtRows(R) : Best(FtRows(R), r)}
             theirs(p) == RecomputeStakingEarnings(StakingEntries(R, p))
         IN
         /\ near' \in {MergeTransactions(near, NearRows(R)), MergeTransactions(NearRows(R), near)}
         /\ ft' \in {MergeFtFiles(ft, best), MergeFtFiles(best, ft)}
         /\ pools' = [p \in Pool |-> pools'[p]]
         /\ \A p \in Pool :
              pools'[p] \in {MergePoolFiles(pools[p], theirs(p)), MergePoolFiles(theirs(p), pools[p])}
         /\ stored' \in {MergeHistory(stored, h), MergeHistory(h, stored)}
BY DEF Merges, MergeFiles, OurFiles, FilesOf

\* A sync: rows of both devices, of blocks and tokens as they were, and items of the feed.
LEMMA SyncArrivesInOrder ==
  ASSUME FilesInOrder, SyncArrives
  PROVE  FilesInOrder'
<1>1. PICK R, h, m : Merges(R, h, m)
  BY SyncFacts
<1>2. R \in SUBSET History /\ records' = records \cup R /\ h \in EarlierHistories
  BY <1>1, HistoryAssumption DEF Merges
<1>3. late' = late \cup Busy /\ UNCHANGED <<hostVars, call>>
  BY SyncFacts
<1>4. FtTyped(ft')
  <2>1. ft' \subseteq ft \cup FtRows(R)
    BY <1>1, MergesFacts DEF MergeFtFiles
  <2>. QED  BY <1>2, <2>1, FtRowsFacts DEF FtTyped, FilesInOrder, FilesOK
<1>5. ASSUME NEW p \in Pool PROVE EntriesOK(pools'[p])
  <2>1. PICK ours, theirs : ours = pools[p] /\ theirs = RecomputeStakingEarnings(StakingEntries(R, p))
    OBVIOUS
  <2>2. pools'[p] = MergePoolFiles(ours, theirs) \/ pools'[p] = MergePoolFiles(theirs, ours)
    BY <1>1, <2>1, MergesFacts
  <2>3. EntriesOK(ours)
    BY <2>1 DEF FilesInOrder, FilesOK
  <2>4. EntriesOK(theirs)
    BY <1>2, <2>1, NewEntriesFacts, AllRecomputedFacts
  <2>. QED  BY <2>2, <2>3, <2>4, MergePoolFacts
<1>6. IsHistory(stored') /\ Within(stored', feed)
  <2>1. IsHistory(h) /\ Within(h, feed)
    BY <1>2, EarlierFacts
  <2>2. IsHistory(stored) /\ Within(stored, feed)
    BY DEF FilesInOrder, FilesOK
  <2>3. stored' = MergeHistory(stored, h) \/ stored' = MergeHistory(h, stored)
    BY <1>1, MergesFacts
  <2>. QED  BY <2>1, <2>2, <2>3, MergeFacts
<1>7. FilesOK'
  <2>1. pools' = [p \in Pool |-> pools'[p]]
    BY <1>1, MergesFacts
  <2>. QED  BY <1>2, <1>3, <1>4, <1>5, <1>6, <2>1 DEF FilesInOrder, FilesOK, hostVars
<1>8. ASSUME NEW c \in Caller
      PROVE  CallOK(call[c])' /\ (c \notin late => Alone(call[c]))'
  <2>1. PICK g : call[c] = g /\ CallOK(g)
    BY CallIs
  <2>2. CallOK(g)' /\ call'[c] = g
    BY <1>3, <2>1 DEF CallOK, hostVars
  <2>3. (c \notin late => Alone(g))'
    BY <1>3, <2>1 DEF Busy, At_, Alone
  <2>. QED  BY <2>2, <2>3
<1>. QED  BY <1>3, <1>7, <1>8 DEF FilesInOrder

\* All work is given up.
LEMMA PageClosesInOrder ==
  ASSUME FilesInOrder, PageCloses
  PROVE  FilesInOrder'
<1>1. call' = [c \in Caller |-> NoCall] /\ UNCHANGED <<hostVars, files, late>>
  BY DEF PageCloses
<1>2. FilesOK'
  BY <1>1 DEF FilesInOrder, FilesOK, hostVars, files
<1>3. PICK g : g = NoCall
  OBVIOUS
<1>4. CallOK(g)' /\ Alone(g)'
  <2>1. CallOK(g) /\ Alone(g)'
    BY <1>3, NoCallOK
  <2>. QED  BY <1>1, <2>1 DEF CallOK, hostVars
<1>5. call' = [c \in Caller |-> call'[c]] /\ \A c \in Caller : call'[c] = g
  BY <1>1, <1>3
<1>. QED  BY <1>2, <1>4, <1>5 DEF FilesInOrder

\* Every step keeps the files in order.
LEMMA StepInOrder == FilesInOrder /\ [Next]_vars => FilesInOrder'
<1>. SUFFICES ASSUME FilesInOrder, [Next]_vars PROVE FilesInOrder'
  OBVIOUS
<1>1. CASE UNCHANGED vars
  BY <1>1, HostsInOrder
<1>2. ASSUME NEW c \in Caller,
             \/ PressImport(c) \/ Answered(c) \/ WriteRecords(c)
             \/ Convert(c) \/ ReadNear(c) \/ ReadFt(c) \/ WriteNear(c) \/ WriteFt(c)
             \/ ReadPool(c) \/ WritePool(c)
      PROVE  FilesInOrder'
  BY <1>2, PressInOrder, AnsweredInOrder, WriteRecordsInOrder, ConvertInOrder, ReadNearInOrder,
     ReadFtInOrder, WriteNearInOrder, WriteFtInOrder, ReadPoolInOrder, WritePoolInOrder
     DEF PressImport
<1>3. ASSUME NEW c \in Caller,
             \/ PressFetch(c) \/ OpenSession(c) \/ HostAnswers(c) \/ HostCutsShort(c)
             \/ HostFails(c) \/ ReadItems(c) \/ WriteItems(c) \/ FetchBalances(c) \/ Check(c)
      PROVE  FilesInOrder'
  BY <1>3, PressInOrder, OpenSessionInOrder, HostAnswersInOrder, HostCutsShortInOrder,
     CheckInOrder, ReadItemsInOrder, WriteItemsInOrder, FetchBalancesInOrder
     DEF PressFetch
<1>4. CASE Index \/ Repair \/ Quote \/ Settle \/ SyncArrives \/ PageCloses
  BY <1>4, HostsInOrder, QuoteInOrder, SettleInOrder, SyncArrivesInOrder, PageClosesInOrder
<1>. QED  BY <1>1, <1>2, <1>3, <1>4 DEF Next

\* The files are always in order.
LEMMA AlwaysInOrder == Spec => []FilesInOrder
<1>. QED  BY InitInOrder, StepInOrder, PTL DEF Spec

---------------------------------------------------------------------------
(* The properties. *)

\* In whatever order imports, fetches, syncs and failures come, the confidential rows that
\* pages read are those of the history as it is stored, none of them out of the file.
THEOREM DerivedStaysOut == Spec => []DerivedOnce
<1>1. FilesInOrder => DerivedOnce
  <2>. SUFFICES ASSUME FilesInOrder, NEW r \in AllFt, r.token \notin {x.token : x \in History}
                PROVE  r \notin ft /\ r \in DerivedRows(stored)
    BY DEF DerivedOnce
  <2>1. r \notin ft
    BY DEF FilesInOrder, FilesOK, FtTyped, Tokens
  <2>. QED  BY <2>1 DEF AllFt
<1>. QED  BY <1>1, AlwaysInOrder, PTL

\* A fetch that ran short, or raced another, takes no item from the stored history and
\* unsettles none, unless somebody else changed the file during it.  A sync takes none away.
THEOREM HistoryIsKept == Spec => HistoryKept
<1>1. ASSUME FilesInOrder, [Next]_vars, NEW i \in Items(stored)
      PROVE  \/ /\ i \in Items(stored')
                /\ stored[i] = "SUCCESS" => stored'[i] = "SUCCESS" \/ SyncArrives
             \/ \E c \in late : WriteItems(c)
  <2>1. UNCHANGED stored \/ SyncArrives \/ \E c \in Caller : WriteItems(c)
    BY <1>1 DEF Next, vars, files, hostVars, PressImport, PressFetch, Press, Answered, WriteRecords,
       Convert, ReadNear, ReadFt, WriteNear, WriteFt, ReadPool, WritePool, OpenSession,
       HostAnswers, HostCutsShort, HostFails, ReadItems, FetchBalances, Check,
       Index, Repair, Quote, Settle, PageCloses
  <2>2. ASSUME NEW c \in Caller \ late, WriteItems(c)
        PROVE  i \in Items(stored') /\ (stored[i] = "SUCCESS" => stored'[i] = "SUCCESS")
    <3>1. PICK g : call[c] = g /\ CallOK(g) /\ Alone(g)
      BY <1>1, CallIs
    <3>2. g.step = "write items" /\ stored' = MergeHistory(g.base, g.items)
      BY <2>2, <3>1 DEF WriteItems, At_
    <3>3. /\ g.base = stored
          /\ i \in Items(g.items) => (stored[i] = "SUCCESS" => g.items[i] = "SUCCESS")
      BY <3>1, <3>2 DEF Alone
    <3>4. PICK h : h = MergeHistory(stored, g.items)
      OBVIOUS
    <3>5. /\ Items(h) = Items(stored) \cup Items(g.items)
          /\ \A j \in Items(g.items) : h[j] = g.items[j]
          /\ \A j \in Items(stored) : j \notin Items(g.items) => h[j] = stored[j]
      BY <3>4, MergeFacts
    <3>6. i \in Items(h) /\ (stored[i] = "SUCCESS" => h[i] = "SUCCESS")
      BY <3>3, <3>5
    <3>7. stored' = h
      BY <3>2, <3>3, <3>4
    <3>. QED  BY <3>6, <3>7
  <2>3. CASE UNCHANGED stored
    BY <2>3
  <2>4. CASE SyncArrives
    <3>1. PICK R, h, m : Merges(R, h, m)
      BY <2>4, SyncFacts
    <3>2. stored' = MergeHistory(stored, h) \/ stored' = MergeHistory(h, stored)
      BY <3>1, MergesFacts
    <3>3. i \in Items(stored')
      BY <3>2, MergeFacts
    <3>. QED  BY <2>4, <3>3
  <2>. QED  BY <2>1, <2>2, <2>3, <2>4
<1>2. ASSUME FilesInOrder, [Next]_vars
      PROVE  [\A i \in Items(stored) :
                \/ /\ i \in Items(stored')
                   /\ stored[i] = "SUCCESS" => stored'[i] = "SUCCESS" \/ SyncArrives
                \/ \E c \in late : WriteItems(c)]_vars
  BY <1>1, <1>2
<1>. QED  BY <1>2, AlwaysInOrder, PTL DEF Spec, HistoryKept

\* A walk over a host that leaves nothing out stores all that the feed had when it began,
\* whatever arrives or settles during it and wherever its pages are cut.
THEOREM WalksAreComplete == Spec => WalkIsComplete
<1>1. ASSUME FilesInOrder, NEW c \in Caller, WriteItems(c), ~call[c].cut,
             NEW i \in Items(call[c].asked)
      PROVE  /\ i \in Items(stored')
             /\ call[c].asked[i] = "SUCCESS" => stored'[i] = "SUCCESS"
  <2>1. PICK g : call[c] = g /\ CallOK(g)
    BY <1>1, CallIs
  <2>2. g.step = "write items" /\ stored' = MergeHistory(g.base, g.items)
    BY <1>1, <2>1 DEF WriteItems, At_
  <2>3. Walked(g, i)
    BY <1>1, <2>1, <2>2 DEF CallOK
  <2>4. PICK h : h = MergeHistory(g.base, g.items)
    OBVIOUS
  <2>5. Items(h) = Items(g.base) \cup Items(g.items) /\ \A j \in Items(g.items) : h[j] = g.items[j]
    BY <2>4, MergeFacts
  <2>6. i \in Items(h) /\ (g.asked[i] = "SUCCESS" => h[i] = "SUCCESS")
    BY <2>3, <2>5 DEF Walked
  <2>. QED  BY <2>1, <2>2, <2>4, <2>6
<1>2. ASSUME FilesInOrder
      PROVE  [\A c \in Caller : WriteItems(c) /\ ~call[c].cut =>
                \A i \in Items(call[c].asked) :
                  /\ i \in Items(stored')
                  /\ call[c].asked[i] = "SUCCESS" => stored'[i] = "SUCCESS"]_vars
  BY <1>1, <1>2
<1>. QED  BY <1>2, AlwaysInOrder, PTL DEF Spec, WalkIsComplete

\* What never moved adds up to nothing.
LEMMA NothingMoved ==
  ASSUME NEW h, NEW a, a \notin Moved(h)
  PROVE  BalanceOf(h, a) = 0
<1>1. PICK S : S = {m \in Movements(h) : m.asset = a}
  OBVIOUS
<1>2. S = {}
  BY <1>1 DEF Moved
<1>3. BalanceOf(h, a) = MapThenSumSet(LAMBDA m : m.delta, S)
  BY <1>1 DEF BalanceOf
<1>. DEFINE Adds(g) == g = [s \in SUBSET S |->
                              IF s = {} THEN 0
                              ELSE LET x == CHOOSE x \in s : TRUE IN x.delta + g[s \ {x}]]
<1>4. Adds([s \in SUBSET S |-> 0])
  BY <1>2
<1>5. Adds(CHOOSE g : Adds(g))
  BY <1>4
<1>6. MapThenSumSet(LAMBDA m : m.delta, S) = (CHOOSE g : Adds(g))[S]
  BY DEF MapThenSumSet, MapThenFoldSet
<1>7. (CHOOSE g : Adds(g))[S] = 0
  BY <1>2, <1>5
<1>. QED  BY <1>3, <1>6, <1>7

\* When the page says that the balances match, then what the store lacks of the history as
\* the balances were read adds up to nothing.
THEOREM HolesShow == Spec => HolesAreNoticed
<1>1. ASSUME FilesInOrder, NEW c \in Caller, Check(c), Says(c) = {}, NEW a \in Asset
      PROVE  BalanceOf(call[c].asked, a) = BalanceOf(stored, a)
  <2>1. PICK g : call[c] = g /\ CallOK(g)
    BY <1>1, CallIs
  <2>2. g.step = "check"
    BY <1>1, <2>1 DEF Check, At_
  <2>3. g.actual[a] = BalanceOf(g.asked, a)
    BY <2>1, <2>2 DEF CallOK
  <2>4. Mismatches(stored, g.actual) = {}
    BY <1>1, <2>1 DEF Says
  <2>5. CASE a \in Moved(stored)
    BY <2>1, <2>3, <2>4, <2>5 DEF Mismatches
  <2>6. CASE a \notin Moved(stored)
    <3>1. BalanceOf(stored, a) = 0
      BY <2>6, NothingMoved
    <3>. QED  BY <2>1, <2>3, <2>4, <3>1 DEF Mismatches
  <2>. QED  BY <2>5, <2>6
<1>2. ASSUME FilesInOrder
      PROVE  [\A c \in Caller : Check(c) /\ Says(c) = {} =>
                \A a \in Asset : BalanceOf(call[c].asked, a) = BalanceOf(stored, a)]_vars
  BY <1>1, <1>2
<1>. QED  BY <1>2, AlwaysInOrder, PTL DEF Spec, HolesAreNoticed

\* An import that runs alone to its end leaves the books as the answer says, whatever
\* failed, was interrupted or overlapped before, and whatever a sync brought back.
THEOREM ImportsRepair == Spec => ImportRepairs
<1>1. ASSUME FilesInOrder, NEW c \in Caller, Finishes(c), c \notin late, NEW R, R = call[c].got
      PROVE  BooksSay(R)'
  <2>1. PICK g : call[c] = g /\ CallOK(g) /\ Alone(g) /\ g.got = R
    BY <1>1, CallIs
  <2>2. NoCall.step # "pool" /\ call'[c] = NoCall /\ (WriteFt(c) \/ WritePool(c))
    BY <1>1, NoCallOK DEF Finishes
  <2>3. R \in SUBSET History
    BY <2>1 DEF CallOK
  <2>4. ASSUME NEW P, NextPool(c, P) PROVE P = {}
    <3>. SUFFICES ASSUME P # {} PROVE FALSE
      OBVIOUS
    <3>1. PICK f : f = [g EXCEPT !.step = "pool", !.pools = P]
      OBVIOUS
    <3>2. call' = [call EXCEPT ![c] = f]
      BY <2>1, <2>4, <3>1 DEF NextPool, Goto
    <3>3. call'[c] = f
      BY <1>1, <3>2 DEF FilesInOrder
    <3>4. f.step = "pool"
      BY <2>1, <3>1 DEF CallOK, Fields
    <3>. QED  BY <2>2, <3>3, <3>4
  <2>5. CASE WriteFt(c)
    <3>1. g.step = "write ft"
      BY <2>1, <2>5 DEF WriteFt, At_
    <3>2. PICK rows : rows = Persisted(MergeFtTransactions(g.ft, FtRows(R)))
      OBVIOUS
    <3>3. ft' = rows /\ UNCHANGED <<records, near, pools>> /\ NextPool(c, PoolsIn(R))
      BY <2>1, <2>5, <3>2 DEF WriteFt
    <3>4. FtSays(R, rows)
      BY <2>1, <2>3, <3>1, <3>2, FtRowsSay DEF CallOK
    <3>5. PoolsIn(R) = {}
      BY <2>4, <3>3
    <3>6. records = R /\ NearSays(R, near)
      BY <2>1, <3>1 DEF Alone
    <3>7. records' = R /\ NearSays(R, near)' /\ FtSays(R, ft)'
      BY <3>3, <3>4, <3>6
    <3>. QED  BY <3>5, <3>7 DEF BooksSay, NearSays, FtSays
  <2>6. CASE WritePool(c)
    <3>1. g.step = "write pool" /\ UNCHANGED <<records, near, ft>>
      BY <2>1, <2>6 DEF WritePool, At_
    <3>2. PICK s \in g.staking :
            /\ pools' = [pools EXCEPT ![s[1]] = MergeStakingEntries(s[2], StakingEntries(R, s[1]))]
            /\ NextPool(c, g.pools \ {s[1]})
      BY <2>1, <2>6 DEF WritePool
    <3>3. PICK p : p = s[1]
      OBVIOUS
    <3>4. PICK entries : entries = MergeStakingEntries(s[2], StakingEntries(R, p))
      OBVIOUS
    <3>5. p \in g.pools /\ g.pools \subseteq PoolsIn(R) /\ EntriesOK(s[2])
      BY <2>1, <3>1, <3>2, <3>3 DEF CallOK
    <3>6. PoolSays(R, p, entries)
      BY <2>3, <3>4, <3>5, EntriesSay
    <3>7. g.pools \ {p} = {}
      BY <2>4, <3>2, <3>3
    <3>8. pools' = [pools EXCEPT ![p] = entries]
      BY <3>2, <3>3, <3>4
    <3>9. records = R /\ NearSays(R, near) /\ FtSays(R, ft)
          /\ \A q \in PoolsIn(R) \ g.pools : PoolSays(R, q, pools[q])
      BY <2>1, <3>1 DEF Alone
    <3>10. ASSUME NEW q \in PoolsIn(R) PROVE PoolSays(R, q, pools'[q])
      <4>1. q \in Pool
        BY DEF PoolsIn
      <4>2. CASE q = p
        BY <1>1, <3>6, <3>8, <4>1, <4>2 DEF FilesInOrder, FilesOK
      <4>3. CASE q # p
        BY <1>1, <3>7, <3>8, <3>9, <4>1, <4>3 DEF FilesInOrder, FilesOK
      <4>. QED  BY <4>2, <4>3
    <3>11. records' = R /\ NearSays(R, near)' /\ FtSays(R, ft)'
      BY <3>1, <3>9
    <3>. QED  BY <3>10, <3>11 DEF BooksSay, NearSays, FtSays, PoolSays
  <2>. QED  BY <2>2, <2>5, <2>6
<1>2. ASSUME FilesInOrder
      PROVE  [\A c \in Caller, R \in {call[c].got : c \in Caller} :
                c \notin late /\ R = call[c].got /\ Finishes(c) => BooksSay(R)']_vars
  BY <1>1, <1>2
<1>. QED  BY <1>2, AlwaysInOrder, PTL DEF Spec, ImportRepairs

---------------------------------------------------------------------------
(* One row of a key, one entry of a transaction or a block. *)

OnePerHash(rows) == \A r, s \in rows : r.hash = s.hash => r = s
OnePerKey(rows) == \A r, s \in rows : SameKey(r, s) => r = s
OnePerBlock(entries) == \A e, f \in entries : e.block = f.block => e = f

\* What the file of a pool keeps: no other entry of the same transaction or sample in a block,
\* and no two in one place.
EntryOnce(entries) ==
  \A e, f \in entries : SameEntry(e, f) \/ (e.block = f.block /\ e.place = f.place) => e = f

\* A merge of the NEAR rows of two files keeps one for a hash.
LEMMA MergeNearOnce ==
  ASSUME NEW old, NEW new, OnePerHash(old), OnePerHash(new)
  PROVE  OnePerHash(MergeTransactions(old, new))
BY DEF OnePerHash, MergeTransactions

\* A merge of the token rows of two files keeps one for a key.
LEMMA MergeFtFilesOnce ==
  ASSUME NEW ours, NEW theirs, OnePerKey(ours), OnePerKey(theirs)
  PROVE  OnePerKey(MergeFtFiles(ours, theirs))
BY DEF OnePerKey, MergeFtFiles, SameKey

\* An answer has one row for a hash, and a merge keeps it so.
LEMMA NearRowsOnce ==
  ASSUME NEW R \in SUBSET History
  PROVE  /\ OnePerHash(NearRows(R))
         /\ \A old : OnePerHash(old) => OnePerHash(MergeTransactions(old, NearRows(R)))
<1>1. OnePerHash(NearRows(R))
  <2>. SUFFICES ASSUME NEW r \in NearRows(R), NEW s \in NearRows(R), r.hash = s.hash PROVE r = s
    BY DEF OnePerHash
  <2>. DEFINE B == BlocksOf(Of(R, Near))
  <2>1. PICK b \in B : r = NearRow(R, b) /\ \A d \in B : d < b => HashAt(R, d) # HashAt(R, b)
    BY DEF NearRows
  <2>2. PICK c \in B : s = NearRow(R, c) /\ \A d \in B : d < c => HashAt(R, d) # HashAt(R, c)
    BY DEF NearRows
  <2>3. HashAt(R, b) = HashAt(R, c)
    BY <2>1, <2>2 DEF NearRow
  <2>4. b \in Nat /\ c \in Nat
    BY HistoryAssumption DEF BlocksOf, Of
  <2>5. ~(b < c) /\ ~(c < b)
    BY <2>1, <2>2, <2>3
  <2>6. b = c
    BY <2>4, <2>5
  <2>. QED  BY <2>1, <2>2, <2>6
<1>. QED  BY <1>1, MergeNearOnce

\* Of the rows of a key, one is best.
LEMMA BestOnce ==
  ASSUME NEW R \in SUBSET History, NEW r \in FtRows(R), NEW s \in FtRows(R),
         Best(FtRows(R), r), Best(FtRows(R), s), SameKey(r, s)
  PROVE  r = s
<1>1. PICK x \in R : r = FtRow(R, x)
  BY DEF FtRows
<1>2. PICK y \in R : s = FtRow(R, y)
  BY DEF FtRows
<1>3. r.nth = x.nth /\ s.nth = y.nth /\ r.block = x.block /\ s.block = y.block
  BY <1>1, <1>2 DEF FtRow
<1>4. r.nth \in Nat /\ s.nth \in Nat /\ r.block \in Nat /\ s.block \in Nat
  BY <1>3, HistoryAssumption
<1>5. SameKey(s, r)
  BY DEF SameKey
<1>6. s.block < r.block \/ (s.block = r.block /\ s.nth >= r.nth)
  BY DEF Best
<1>7. r.block < s.block \/ (r.block = s.block /\ r.nth >= s.nth)
  BY <1>5 DEF Best
<1>8. r.nth = s.nth
  BY <1>4, <1>6, <1>7
<1>9. x = y
  BY <1>3, <1>8, HistoryAssumption
<1>. QED  BY <1>1, <1>2, <1>9

\* A merge of token rows keeps one for a key, among those that are written.
LEMMA MergeFtOnce ==
  ASSUME NEW old, NEW new, OnePerKey(Persisted(old)), FtReadTyped(old), FtTyped(new),
         \A r, s \in new : Best(new, r) /\ Best(new, s) /\ SameKey(r, s) => r = s
  PROVE  OnePerKey(Persisted(MergeFtTransactions(old, new)))
<1>. DEFINE best == {r \in new : Best(new, r)}
            kept == {r \in old : \A s \in best : SameKey(r, s) => s.block <= r.block}
            added == {r \in best : \A s \in old : SameKey(r, s) => r.block > s.block}
<1>. SUFFICES ASSUME NEW r \in Persisted(MergeFtTransactions(old, new)),
                     NEW s \in Persisted(MergeFtTransactions(old, new)), SameKey(r, s)
              PROVE  r = s
  BY DEF OnePerKey
<1>1. r \in kept \cup added /\ s \in kept \cup added
  BY DEF Persisted, MergeFtTransactions
<1>2. SameKey(s, r)
  BY DEF SameKey
<1>3. CASE r \in kept /\ s \in kept
  BY <1>3 DEF OnePerKey, Persisted
<1>4. CASE r \in added /\ s \in added
  BY <1>4
<1>5. ASSUME NEW x \in kept, NEW y \in added, SameKey(x, y), SameKey(y, x) PROVE FALSE
  <2>1. y.block <= x.block /\ y.block > x.block
    BY <1>5
  <2>2. x.block \in Nat /\ y.block \in Nat
    BY DEF FtReadTyped, FtTyped
  <2>. QED  BY <2>1, <2>2
<1>. QED  BY <1>1, <1>2, <1>3, <1>4, <1>5

\* The same of the rows of an answer, and of their best alone.
LEMMA FtRowsOnce ==
  ASSUME NEW R \in SUBSET History
  PROVE  /\ OnePerKey({r \in FtRows(R) : Best(FtRows(R), r)})
         /\ \A old : OnePerKey(Persisted(old)) /\ FtReadTyped(old) =>
              OnePerKey(Persisted(MergeFtTransactions(old, FtRows(R))))
<1>1. FtTyped(FtRows(R))
  BY FtRowsFacts
<1>2. \A r, s \in FtRows(R) : Best(FtRows(R), r) /\ Best(FtRows(R), s) /\ SameKey(r, s) => r = s
  BY BestOnce
<1>3. OnePerKey({r \in FtRows(R) : Best(FtRows(R), r)})
  BY <1>2 DEF OnePerKey
<1>. QED  BY <1>1, <1>2, <1>3, MergeFtOnce

\* Tokens of the file are those of no pool.
PlainTokens(rows) == \A r \in rows : r.token \notin {Near} \cup Pool

\* A merge keeps the tokens of the file to those of no pool.
LEMMA FtRowsPlain ==
  ASSUME NEW R
  PROVE  /\ PlainTokens(FtRows(R))
         /\ \A old : PlainTokens(Persisted(old)) =>
              PlainTokens(Persisted(MergeFtTransactions(old, FtRows(R))))
<1>1. PlainTokens(FtRows(R))
  BY DEF PlainTokens, FtRows, FtRow
<1>. QED  BY <1>1, MergeFtFacts DEF PlainTokens, Persisted

\* Working out the earnings keeps entries apart.
LEMMA RecomputedOnce ==
  ASSUME NEW E, EntriesOK(E)
  PROVE  /\ OnePerBlock(E) => OnePerBlock(RecomputeStakingEarnings(E))
         /\ EntryOnce(E) => EntryOnce(RecomputeStakingEarnings(E))
<1>1. \A e \in E : /\ Recomputed(E, e).block = e.block /\ Recomputed(E, e).place = e.place
                   /\ Recomputed(E, e).tx = e.tx
  BY RecomputedFacts DEF EntriesOK
<1>2. ASSUME OnePerBlock(E), NEW e \in E, NEW f \in E, Recomputed(E, e).block = Recomputed(E, f).block
      PROVE  e = f
  <2>1. e.block = f.block
    BY <1>1, <1>2
  <2>. QED  BY <1>2, <2>1 DEF OnePerBlock
<1>3. ASSUME EntryOnce(E), NEW e \in E, NEW f \in E,
             \/ SameEntry(Recomputed(E, e), Recomputed(E, f))
             \/ /\ Recomputed(E, e).block = Recomputed(E, f).block
                /\ Recomputed(E, e).place = Recomputed(E, f).place
      PROVE  e = f
  <2>1. SameEntry(e, f) \/ (e.block = f.block /\ e.place = f.place)
    BY <1>1, <1>3 DEF SameEntry
  <2>. QED  BY <1>3, <2>1 DEF EntryOnce
<1>4. OnePerBlock(E) => OnePerBlock(RecomputeStakingEarnings(E))
  BY <1>2 DEF OnePerBlock, RecomputeStakingEarnings
<1>5. EntryOnce(E) => EntryOnce(RecomputeStakingEarnings(E))
  BY <1>3 DEF EntryOnce, RecomputeStakingEarnings
<1>. QED  BY <1>4, <1>5

\* An answer has one entry for a block of a pool, and so has what it is merged with.
LEMMA EntriesOnce ==
  ASSUME NEW R \in SUBSET History, NEW p
  PROVE  /\ OnePerBlock(StakingEntries(R, p))
         /\ \A old : EntryOnce(old) /\ EntriesOK(old) =>
              OnePerBlock(MergeStakingEntries(old, StakingEntries(R, p)))
<1>1. PICK new : new = StakingEntries(R, p)
  OBVIOUS
<1>2. OnePerBlock(new)
  <2>. SUFFICES ASSUME NEW e \in new, NEW f \in new, e.block = f.block PROVE e = f
    BY DEF OnePerBlock
  <2>1. PICK b : e = StakingEntry(R, p, b)
    BY <1>1 DEF StakingEntries
  <2>2. PICK c : f = StakingEntry(R, p, c)
    BY <1>1 DEF StakingEntries
  <2>3. e.block = b /\ f.block = c
    BY <2>1, <2>2 DEF StakingEntry
  <2>. QED  BY <2>1, <2>2, <2>3
<1>3. ASSUME NEW old, EntryOnce(old), EntriesOK(old)
      PROVE  OnePerBlock(MergeStakingEntries(old, new))
  <2>1. PICK out, last, E : /\ out = Outside(old, new) /\ last = LastPerBlock(out)
                            /\ E = MergedWith(old, new)
    OBVIOUS
  <2>2. /\ EntriesOK(out) /\ EntriesOK(E)
        /\ MergeStakingEntries(old, new) = RecomputeStakingEarnings(E)
        /\ \A e \in new : Covered(new, e.block)
        /\ \A e \in last : ~Covered(new, e.block)
    BY <1>1, <1>3, <2>1, MergedWithFacts
  <2>3. \A f \in last : \E e \in out : /\ f = [e EXCEPT !.place = 0] /\ f.block = e.block
                                       /\ \A g \in out : g.block = e.block => g.place <= e.place
    BY <2>1, <2>2, LastPerBlockFacts
  <2>4. ASSUME NEW x \in last, NEW y \in last, x.block = y.block PROVE x = y
    <3>1. PICK e \in out : /\ x = [e EXCEPT !.place = 0] /\ x.block = e.block
                           /\ \A g \in out : g.block = e.block => g.place <= e.place
      BY <2>3
    <3>2. PICK f \in out : /\ y = [f EXCEPT !.place = 0] /\ y.block = f.block
                           /\ \A g \in out : g.block = f.block => g.place <= f.place
      BY <2>3
    <3>3. e.place \in Nat /\ f.place \in Nat /\ e.place <= f.place /\ f.place <= e.place
      BY <2>2, <2>4, <3>1, <3>2 DEF EntriesOK, HasBlock
    <3>4. e.place = f.place /\ e.block = f.block /\ e \in old /\ f \in old
      BY <2>1, <2>4, <3>1, <3>2, <3>3 DEF Outside
    <3>5. e = f
      BY <1>3, <3>4 DEF EntryOnce
    <3>. QED  BY <3>1, <3>2, <3>5
  <2>5. OnePerBlock(E)
    <3>. SUFFICES ASSUME NEW x \in E, NEW y \in E, x.block = y.block PROVE x = y
      BY DEF OnePerBlock
    <3>1. (x \in last \/ x \in new) /\ (y \in last \/ y \in new)
      BY <2>1 DEF MergedWith
    <3>2. CASE x \in last /\ y \in last
      BY <2>4, <3>2
    <3>3. CASE x \in new /\ y \in new
      BY <1>2, <3>3 DEF OnePerBlock
    <3>4. ~(x \in new /\ y \in last) /\ ~(y \in new /\ x \in last)
      BY <2>2
    <3>. QED  BY <3>1, <3>2, <3>3, <3>4
  <2>. QED  BY <2>2, <2>5, RecomputedOnce
<1>. QED  BY <1>1, <1>2, <1>3

\* One entry for a block is one for what the file keeps apart.
LEMMA BlockOnce == \A E : OnePerBlock(E) => EntryOnce(E)
BY DEF OnePerBlock, EntryOnce, SameEntry

\* Where an entry comes to among ours of its block: where the same one was, or behind all.
LEMMA PlaceFacts ==
  ASSUME NEW ours, EntriesOK(ours), NEW f, f.place \in Nat
  PROVE  \/ \E e \in ours : SameEntry(e, f) /\ PlaceAmong(ours, f) = e.place
         \/ /\ \A e \in ours : ~SameEntry(e, f)
            /\ \E n \in Nat : /\ \A e \in ours : e.block = f.block => e.place < n
                              /\ PlaceAmong(ours, f) = n + f.place
                              /\ n = IF {e \in ours : e.block = f.block} = {} THEN 0
                                     ELSE Max({g.place : g \in {e \in ours : e.block = f.block}}) + 1
<1>. DEFINE same == {e \in ours : SameEntry(e, f)}
            block == {e \in ours : e.block = f.block}
            N == {e.place : e \in block}
<1>1. CASE same # {}
  <2>1. PICK e : e = CHOOSE s \in same : TRUE
    OBVIOUS
  <2>2. e \in ours /\ SameEntry(e, f)
    BY <1>1, <2>1
  <2>3. PlaceAmong(ours, f) = e.place
    BY <1>1, <2>1 DEF PlaceAmong
  <2>. QED  BY <2>2, <2>3
<1>2. CASE same = {} /\ block # {}
  <2>1. PICK n \in Nat : \A e \in ours : e.place <= n
    BY DEF EntriesOK
  <2>2. N \in SUBSET Nat /\ N # {} /\ \A x \in N : x <= n
    BY <1>2, <2>1 DEF EntriesOK, HasBlock
  <2>3. Max(N) \in N /\ \A x \in N : Max(N) >= x
    <3>. HIDE DEF N
    <3>. QED  BY <2>2, GreatestBelow
  <2>4. PICK m : m = Max(N)
    OBVIOUS
  <2>5. m \in Nat
    <3>. HIDE DEF N
    <3>. QED  BY <2>2, <2>3, <2>4
  <2>6. PlaceAmong(ours, f) = m + 1 + f.place
    BY <1>2, <2>4 DEF PlaceAmong
  <2>7. \A e \in ours : e.block = f.block => e.place < m + 1
    <3>. SUFFICES ASSUME NEW e \in ours, e.block = f.block PROVE e.place < m + 1
      OBVIOUS
    <3>1. e.place \in Nat
      BY DEF EntriesOK, HasBlock
    <3>2. e.place \in N
      OBVIOUS
    <3>3. m >= e.place
      BY <2>3, <2>4, <3>2
    <3>. QED  BY <2>5, <3>1, <3>3
  <2>8. m + 1 \in Nat /\ PlaceAmong(ours, f) = (m + 1) + f.place
    BY <2>5, <2>6
  <2>9. \A e \in ours : ~SameEntry(e, f)
    BY <1>2
  <2>. QED  BY <1>2, <2>4, <2>7, <2>8, <2>9
<1>3. CASE same = {} /\ block = {}
  <2>1. PlaceAmong(ours, f) = f.place
    BY <1>3 DEF PlaceAmong
  <2>2. \A e \in ours : ~SameEntry(e, f) /\ e.block # f.block
    BY <1>3
  <2>3. PlaceAmong(ours, f) = 0 + f.place
    BY <2>1
  <2>4. \A e \in ours : e.block = f.block => e.place < 0
    BY <2>2
  <2>. QED  BY <1>3, <2>2, <2>3, <2>4
<1>. QED  BY <1>1, <1>2, <1>3

\* The merge of two devices' files of a pool keeps entries apart.
LEMMA MergePoolOnce ==
  ASSUME NEW ours, NEW theirs, EntriesOK(ours), EntriesOK(theirs), EntryOnce(ours), EntryOnce(theirs)
  PROVE  EntryOnce(MergePoolFiles(ours, theirs))
<1>. DEFINE kept == {e \in ours : \A f \in theirs : ~SameEntry(e, f)}
            put(f) == [f EXCEPT !.place = PlaceAmong(ours, f)]
            After_(f) == IF {e \in ours : e.block = f.block} = {} THEN 0
                         ELSE Max({g.place : g \in {e \in ours : e.block = f.block}}) + 1
<1>1. PICK E : E = MergePoolFiles(ours, theirs)
  OBVIOUS
<1>2. \A x \in E : x \in kept \/ \E f \in theirs : x = put(f)
  BY <1>1 DEF MergePoolFiles
<1>3. \A e \in ours \cup theirs : HasBlock(e) /\ e.place \in Nat
  BY DEF EntriesOK, HasBlock
<1>4. \A f \in theirs : /\ put(f).block = f.block /\ put(f).tx = f.tx
                        /\ put(f).place = PlaceAmong(ours, f)
  BY <1>3, MergePoolFacts, PlacedFacts
<1>5. \A f \in theirs :
        \/ \E e \in ours : SameEntry(e, f) /\ PlaceAmong(ours, f) = e.place
        \/ /\ \A e \in ours : ~SameEntry(e, f)
           /\ After_(f) \in Nat /\ PlaceAmong(ours, f) = After_(f) + f.place
           /\ \A e \in ours : e.block = f.block => e.place < After_(f)
  BY <1>3, PlaceFacts
<1>6. \A f, g \in theirs : f.block = g.block => After_(f) = After_(g)
  OBVIOUS
<1>. HIDE DEF put, After_
<1>7. ASSUME NEW e \in kept, NEW f \in theirs PROVE ~SameEntry(e, put(f))
  BY <1>4, <1>7 DEF SameEntry
<1>8. ASSUME NEW e \in kept, NEW f \in theirs, e.block = f.block, e.place = PlaceAmong(ours, f)
      PROVE  FALSE
  <2>1. ASSUME NEW g \in ours, SameEntry(g, f), PlaceAmong(ours, f) = g.place PROVE FALSE
    <3>1. g = e
      BY <1>8, <2>1 DEF SameEntry, EntryOnce
    <3>. QED  BY <1>8, <2>1, <3>1
  <2>2. ASSUME After_(f) \in Nat, PlaceAmong(ours, f) = After_(f) + f.place,
               \A g \in ours : g.block = f.block => g.place < After_(f)
        PROVE  FALSE
    <3>1. e.place < After_(f) /\ e.place \in Nat /\ f.place \in Nat
      BY <1>3, <1>8, <2>2
    <3>. QED  BY <1>8, <2>2, <3>1
  <2>. QED  BY <1>5, <2>1, <2>2
<1>9. ASSUME NEW f \in theirs, NEW g \in theirs, f.block = g.block,
             PlaceAmong(ours, f) = PlaceAmong(ours, g)
      PROVE  f = g
  <2>1. PICK a, b, n : a = After_(f) /\ b = After_(g) /\ n = PlaceAmong(ours, f)
    OBVIOUS
  <2>2. a = b /\ f.place \in Nat /\ g.place \in Nat
    BY <1>3, <1>6, <1>9, <2>1
  <2>3. \/ \E e \in ours : SameEntry(e, f) /\ n = e.place
        \/ a \in Nat /\ n = a + f.place /\ \A e \in ours : e.block = f.block => e.place < a
    BY <1>5, <2>1
  <2>4. \/ \E e \in ours : SameEntry(e, g) /\ n = e.place
        \/ a \in Nat /\ n = a + g.place /\ \A e \in ours : e.block = f.block => e.place < a
    BY <1>5, <1>9, <2>1, <2>2
  <2>5. ASSUME NEW e \in ours, SameEntry(e, f), n = e.place,
               NEW h \in ours, SameEntry(h, g), n = h.place
        PROVE  f = g
    <3>1. e = h
      BY <1>9, <2>5 DEF SameEntry, EntryOnce
    <3>2. SameEntry(f, g)
      BY <2>5, <3>1 DEF SameEntry
    <3>. QED  BY <3>2 DEF EntryOnce
  <2>6. ASSUME a \in Nat, n = a + f.place, n = a + g.place PROVE f = g
    <3>1. f.place = g.place
      BY <2>2, <2>6
    <3>. QED  BY <1>9, <3>1 DEF EntryOnce
  <2>7. ASSUME NEW e \in ours, e.block = f.block, n = e.place, a \in Nat,
               \/ n = a + f.place
               \/ n = a + g.place,
               \A x \in ours : x.block = f.block => x.place < a
        PROVE  FALSE
    <3>1. e.place < a /\ e.place \in Nat
      BY <1>3, <2>7
    <3>. QED  BY <2>2, <2>7, <3>1
  <2>. QED  BY <1>9, <2>3, <2>4, <2>5, <2>6, <2>7 DEF SameEntry
<1>10. ASSUME NEW x \in E, NEW y \in E,
              SameEntry(x, y) \/ (x.block = y.block /\ x.place = y.place)
       PROVE  x = y
  <2>1. CASE x \in kept /\ y \in kept
    BY <1>10, <2>1 DEF EntryOnce
  <2>2. ASSUME NEW e \in kept, NEW f \in theirs,
               \/ SameEntry(e, put(f)) \/ SameEntry(put(f), e)
               \/ e.block = put(f).block /\ e.place = put(f).place
        PROVE  FALSE
    <3>1. SameEntry(put(f), e) => SameEntry(e, put(f))
      BY DEF SameEntry
    <3>2. e.block = f.block /\ e.place = PlaceAmong(ours, f)
      BY <1>4, <1>7, <2>2, <3>1
    <3>. QED  BY <1>8, <3>2
  <2>3. ASSUME NEW f \in theirs, NEW g \in theirs,
               \/ SameEntry(put(f), put(g))
               \/ put(f).block = put(g).block /\ put(f).place = put(g).place
        PROVE  f = g
    <3>1. CASE SameEntry(put(f), put(g))
      <4>1. SameEntry(f, g)
        BY <1>4, <3>1 DEF SameEntry
      <4>. QED  BY <4>1 DEF EntryOnce
    <3>2. CASE put(f).block = put(g).block /\ put(f).place = put(g).place
      BY <1>4, <1>9, <3>2
    <3>. QED  BY <2>3, <3>1, <3>2
  <2>4. CASE x \in kept /\ y \notin kept
    <3>1. PICK f \in theirs : y = put(f)
      BY <1>2, <2>4
    <3>. QED  BY <1>10, <2>2, <2>4, <3>1
  <2>5. CASE x \notin kept /\ y \in kept
    <3>1. PICK f \in theirs : x = put(f)
      BY <1>2, <2>5
    <3>2. \/ SameEntry(put(f), y) \/ (y.block = put(f).block /\ y.place = put(f).place)
      BY <1>10, <3>1
    <3>. QED  BY <2>2, <2>5, <3>2
  <2>6. CASE x \notin kept /\ y \notin kept
    <3>1. PICK f \in theirs : x = put(f)
      BY <1>2, <2>6
    <3>2. PICK g \in theirs : y = put(g)
      BY <1>2, <2>6
    <3>. QED  BY <1>10, <2>3, <3>1, <3>2
  <2>. QED  BY <2>1, <2>4, <2>5, <2>6
<1>. QED  BY <1>1, <1>10 DEF EntryOnce

Steps == {"idle", "request", "records", "convert", "near", "ft", "write near", "write ft",
          "pool", "write pool", "walk", "merge", "write items", "balances", "check"}

FilesTyped ==
  /\ served \in Served /\ repaired \in BOOLEAN
  /\ OnePerHash(near)
  /\ OnePerKey(ft) /\ PlainTokens(ft)
  /\ \A p \in Pool : EntryOnce(pools[p])
  /\ late \subseteq Caller
  /\ \A k \in DOMAIN budget : budget[k] \in Nat

\* What a call has read is like what it will write.
CallTyped(f) ==
  /\ f.step \in Steps
  /\ f.cursor \in 0 .. MaxItem /\ f.page \in 0 .. MaxPages
  /\ f.step \in {"request", "walk"} => f.page < MaxPages
  /\ f.step \in {"ft", "write near"} => OnePerHash(f.near)
  /\ f.step \in {"write near", "write ft"} =>
       OnePerKey(Persisted(f.ft)) /\ PlainTokens(Persisted(f.ft))
  /\ f.step = "write pool" => \A s \in f.staking : EntryOnce(s[2])

Typed == FilesInOrder /\ FilesTyped /\ \A c \in Caller : CallTyped(call[c])

\* A call that is not there is typed.
LEMMA NoCallTyped == CallTyped(NoCall)
BY BoundAssumption DEF NoCall, CallTyped, Steps

\* All is typed at the start.
LEMMA InitTyped == Init => Typed
<1>. SUFFICES ASSUME Init PROVE Typed
  OBVIOUS
<1>1. FilesTyped
  BY HistoryAssumption, BoundAssumption DEF Init, FilesTyped, OnePerHash, OnePerKey, EntryOnce, PlainTokens
<1>2. \A c \in Caller : call[c] = NoCall
  BY DEF Init
<1>. QED  BY <1>1, <1>2, NoCallTyped, InitInOrder DEF Typed

\* What is kept of what a read gives.
LEMMA ReadOnce ==
  ASSUME OnePerKey(ft), PlainTokens(ft)
  PROVE  OnePerKey(Persisted(AllFt)) /\ PlainTokens(Persisted(AllFt))
<1>1. Persisted(AllFt) \subseteq ft
  <2>1. \A r \in DerivedRows(stored) : \E a \in Asset : r.token = <<"confidential", a>>
    BY DEF DerivedRows, Movements
  <2>. QED  BY <2>1 DEF Persisted, AllFt
<1>. QED  BY <1>1 DEF OnePerKey, PlainTokens

\* What is spent was there.
LEMMA SpendTyped ==
  ASSUME \A k \in DOMAIN budget : budget[k] \in Nat, NEW j, Spend(j)
  PROVE  \A k \in DOMAIN budget' : budget'[k] \in Nat
BY DEF Spend

\* The steps of an import: what it writes later is what it has read.
LEMMA ImportTyped ==
  ASSUME Typed, NEW c \in Caller,
         \/ PressImport(c) \/ PressFetch(c) \/ Answered(c) \/ WriteRecords(c) \/ Convert(c)
         \/ ReadNear(c) \/ ReadFt(c) \/ WriteNear(c) \/ WriteFt(c)
  PROVE  \E f : Goto(c, f) /\ CallTyped(f)
<1>1. PICK g : call[c] = g /\ CallOK(g) /\ DOMAIN g = Fields /\ CallTyped(g)
  BY CallIs DEF Typed
<1>2. CASE PressImport(c) \/ PressFetch(c)
  <2>1. PICK op : Press(c, op, "request")
    BY <1>2 DEF PressImport, PressFetch
  <2>2. PICK h : h = NoCall
    OBVIOUS
  <2>3. PICK f : f = [h EXCEPT !.op = op, !.step = "request"]
    OBVIOUS
  <2>4. DOMAIN h = Fields /\ h.cursor = 0 /\ h.page = 0
    BY <2>2 DEF NoCall, Fields
  <2>5. f.step = "request" /\ f.cursor = 0 /\ f.page = 0
    BY <2>3, <2>4 DEF Fields
  <2>6. CallTyped(f)
    BY <2>5, BoundAssumption DEF CallTyped, Steps
  <2>. QED  BY <2>1, <2>2, <2>3, <2>6 DEF Press
<1>3. CASE End(c)
  BY <1>3, NoCallTyped DEF End
<1>4. CASE Answered(c) /\ ~End(c)
  <2>1. PICK f : f = [g EXCEPT !.step = "records", !.got = Answer]
    OBVIOUS
  <2>2. f.step = "records" /\ f.cursor = g.cursor /\ f.page = g.page
    BY <1>1, <2>1 DEF Fields
  <2>3. Goto(c, f) /\ CallTyped(f)
    BY <1>1, <1>4, <2>1, <2>2 DEF Answered, CallTyped, Steps
  <2>. QED  BY <2>3
<1>5. ASSUME NEW step \in {"convert", "near"}, Goto(c, [g EXCEPT !.step = step])
      PROVE  \E f : Goto(c, f) /\ CallTyped(f)
  <2>1. PICK f : f = [g EXCEPT !.step = step]
    OBVIOUS
  <2>2. f.step = step /\ f.cursor = g.cursor /\ f.page = g.page
    BY <1>1, <2>1 DEF Fields
  <2>3. Goto(c, f) /\ CallTyped(f)
    BY <1>1, <1>5, <2>1, <2>2 DEF CallTyped, Steps
  <2>. QED  BY <2>3
<1>6. CASE WriteRecords(c) \/ (Convert(c) /\ ~End(c))
  BY <1>1, <1>5, <1>6 DEF WriteRecords, Convert
<1>7. CASE ReadNear(c)
  <2>1. PICK f : f = [g EXCEPT !.step = "ft", !.near = near]
    OBVIOUS
  <2>2. f.step = "ft" /\ f.cursor = g.cursor /\ f.page = g.page /\ f.near = near
    BY <1>1, <2>1 DEF Fields
  <2>3. Goto(c, f) /\ CallTyped(f)
    BY <1>1, <1>7, <2>1, <2>2 DEF ReadNear, CallTyped, Steps, Typed, FilesTyped
  <2>. QED  BY <2>3
<1>8. CASE ReadFt(c)
  <2>1. PICK f : f = [g EXCEPT !.step = "write near", !.ft = AllFt]
    OBVIOUS
  <2>2. /\ f.step = "write near" /\ f.cursor = g.cursor /\ f.page = g.page /\ f.ft = AllFt
        /\ f.near = g.near
    BY <1>1, <2>1 DEF Fields
  <2>3. OnePerHash(g.near)
    BY <1>1, <1>8 DEF ReadFt, At_, CallTyped
  <2>4. OnePerKey(Persisted(f.ft)) /\ PlainTokens(Persisted(f.ft))
    BY <2>2, ReadOnce DEF Typed, FilesTyped
  <2>5. Goto(c, f) /\ CallTyped(f)
    BY <1>1, <1>8, <2>1, <2>2, <2>3, <2>4 DEF ReadFt, CallTyped, Steps
  <2>. QED  BY <2>5
<1>9. CASE WriteNear(c)
  <2>1. PICK f : f = [g EXCEPT !.step = "write ft"]
    OBVIOUS
  <2>2. f.step = "write ft" /\ f.cursor = g.cursor /\ f.page = g.page /\ f.ft = g.ft
    BY <1>1, <2>1 DEF Fields
  <2>3. OnePerKey(Persisted(g.ft)) /\ PlainTokens(Persisted(g.ft))
    BY <1>1, <1>9 DEF WriteNear, At_, CallTyped
  <2>4. Goto(c, f) /\ CallTyped(f)
    BY <1>1, <1>9, <2>1, <2>2, <2>3 DEF WriteNear, CallTyped, Steps
  <2>. QED  BY <2>4
<1>10. CASE WriteFt(c) /\ ~End(c)
  <2>1. PICK f : f = [g EXCEPT !.step = "pool", !.pools = PoolsIn(g.got)]
    OBVIOUS
  <2>2. f.step = "pool" /\ f.cursor = g.cursor /\ f.page = g.page
    BY <1>1, <2>1 DEF Fields
  <2>3. Goto(c, f) /\ CallTyped(f)
    BY <1>1, <1>10, <2>1, <2>2 DEF WriteFt, NextPool, CallTyped, Steps
  <2>. QED  BY <2>3
<1>. QED  BY <1>2, <1>3, <1>4, <1>6, <1>7, <1>8, <1>9, <1>10

\* A pool's entries are read as the file has them, and the next pool is taken.
LEMMA PoolTyped ==
  ASSUME Typed, NEW c \in Caller, ReadPool(c) \/ WritePool(c)
  PROVE  \E f : Goto(c, f) /\ CallTyped(f)
<1>1. PICK g : call[c] = g /\ CallOK(g) /\ DOMAIN g = Fields /\ CallTyped(g)
  BY CallIs DEF Typed
<1>2. CASE ReadPool(c)
  <2>1. PICK p \in g.pools :
          Goto(c, [g EXCEPT !.step = "write pool", !.staking = {<<p, pools[p]>>}])
    BY <1>1, <1>2 DEF ReadPool
  <2>2. p \in Pool
    BY <1>1, <1>2 DEF ReadPool, At_, CallOK, PoolsIn
  <2>3. PICK entries : entries = pools[p]
    OBVIOUS
  <2>4. EntryOnce(entries)
    BY <2>2, <2>3 DEF Typed, FilesTyped
  <2>5. PICK f : f = [g EXCEPT !.step = "write pool", !.staking = {<<p, entries>>}]
    OBVIOUS
  <2>6. f.step = "write pool" /\ f.cursor = g.cursor /\ f.page = g.page /\ f.staking = {<<p, entries>>}
    BY <1>1, <2>5 DEF Fields
  <2>7. ASSUME NEW s \in f.staking PROVE EntryOnce(s[2])
    <3>1. s = <<p, entries>>
      BY <2>6
    <3>2. s[2] = entries
      BY <3>1
    <3>. QED  BY <2>4, <3>2
  <2>8. Goto(c, f) /\ CallTyped(f)
    BY <1>1, <2>1, <2>3, <2>5, <2>6, <2>7 DEF CallTyped, Steps
  <2>. QED  BY <2>8
<1>3. CASE WritePool(c)
  <2>1. PICK P : NextPool(c, P)
    BY <1>3 DEF WritePool
  <2>2. PICK f : f = [g EXCEPT !.step = "pool", !.pools = P]
    OBVIOUS
  <2>3. f.step = "pool" /\ f.cursor = g.cursor /\ f.page = g.page
    BY <1>1, <2>2 DEF Fields
  <2>4. CallTyped(f)
    BY <1>1, <2>3 DEF CallTyped, Steps
  <2>5. Goto(c, f) \/ Goto(c, NoCall)
    BY <1>1, <2>1, <2>2 DEF NextPool, End
  <2>. QED  BY <2>4, <2>5, NoCallTyped
<1>. QED  BY <1>2, <1>3

\* The fetch stays within its pages.
LEMMA FetchTyped ==
  ASSUME Typed, NEW c \in Caller,
         \/ OpenSession(c) \/ HostAnswers(c) \/ HostCutsShort(c) \/ HostFails(c)
         \/ ReadItems(c) \/ WriteItems(c) \/ FetchBalances(c) \/ Check(c)
  PROVE  \E f : Goto(c, f) /\ CallTyped(f)
<1>1. PICK g : call[c] = g /\ CallOK(g) /\ DOMAIN g = Fields /\ CallTyped(g)
  BY CallIs DEF Typed
<1>2. CASE End(c)
  BY <1>2, NoCallTyped DEF End
<1>3. CASE OpenSession(c) /\ ~End(c)
  <2>1. PICK f : f = [g EXCEPT !.step = "walk", !.asked = feed]
    OBVIOUS
  <2>2. f.step = "walk" /\ f.cursor = g.cursor /\ f.page = g.page
    BY <1>1, <2>1 DEF Fields
  <2>3. Goto(c, f) /\ CallTyped(f)
    BY <1>1, <1>3, <2>1, <2>2 DEF OpenSession, At_, CallTyped, Steps
  <2>. QED  BY <2>3
<1>4. CASE HostAnswers(c) /\ ~End(c)
  <2>1. PICK page : page = PageBefore(Items(feed), g.cursor)
    OBVIOUS
  <2>2. PICK cursor : Page(c, page, cursor) /\ (cursor = 0 \/ (page # {} /\ cursor = Min(page)))
    BY <1>1, <1>4, <2>1 DEF HostAnswers, CursorOf
  <2>3. PICK n \in 0 .. MaxItem : Items(feed) = 1 .. n
    BY DEF Typed, FilesInOrder, FilesOK
  <2>4. cursor \in 0 .. MaxItem
    <3>1. CASE cursor = 0
      BY <3>1, BoundAssumption
    <3>2. CASE page # {} /\ cursor = Min(page)
      <4>1. g.cursor \in Nat
        BY <1>1 DEF CallOK
      <4>2. n \in Nat
        BY BoundAssumption
      <4>3. page \subseteq 1 .. n /\ Min(page) \in page
        BY <2>1, <2>3, <3>2, <4>1, <4>2, PageFacts
      <4>4. cursor \in 1 .. n
        BY <3>2, <4>3
      <4>. QED  BY <4>4, BoundAssumption
    <3>. QED  BY <2>2, <3>1, <3>2
  <2>5. g.step = "walk" /\ g.page \in 0 .. MaxPages /\ g.page < MaxPages
    BY <1>1, <1>4 DEF HostAnswers, At_, CallTyped
  <2>6. PICK h : h = After(g, page)
    OBVIOUS
  <2>7. PICK f : f = [g EXCEPT !.items = h, !.cursor = cursor, !.page = g.page + 1]
    OBVIOUS
  <2>8. DOMAIN f = Fields /\ f.step = "walk" /\ f.cursor = cursor /\ f.page = g.page + 1
    BY <1>1, <2>5, <2>7 DEF Fields
  <2>9. PICK e : e = [f EXCEPT !.step = "merge", !.cursor = 0]
    OBVIOUS
  <2>10. e.step = "merge" /\ e.cursor = 0 /\ e.page = g.page + 1
    BY <2>8, <2>9 DEF Fields
  <2>11. (g.page + 1 < MaxPages /\ Goto(c, f)) \/ Goto(c, e)
    BY <1>1, <1>4, <2>2, <2>6, <2>7, <2>9 DEF Page, After
  <2>12. g.page + 1 \in 0 .. MaxPages
    BY <2>5, BoundAssumption
  <2>13. g.page + 1 < MaxPages => CallTyped(f)
    BY <2>4, <2>8, <2>12 DEF CallTyped, Steps
  <2>14. CallTyped(e)
    BY <2>10, <2>12, BoundAssumption DEF CallTyped, Steps
  <2>. QED  BY <2>11, <2>13, <2>14
<1>5. CASE HostCutsShort(c)
  <2>1. g.step = "walk" /\ g.page \in 0 .. MaxPages /\ g.page < MaxPages
    BY <1>1, <1>5 DEF HostCutsShort, At_, CallTyped
  <2>2. PICK kept : Goto(c, [g EXCEPT !.step = "merge", !.cursor = 0, !.page = g.page + 1, !.cut = TRUE,
                             !.items = After(g, kept)])
    BY <1>1, <1>5 DEF HostCutsShort, After
  <2>3. PICK h : h = After(g, kept)
    OBVIOUS
  <2>4. PICK f : f = [g EXCEPT !.step = "merge", !.cursor = 0, !.page = g.page + 1, !.cut = TRUE,
                      !.items = h]
    OBVIOUS
  <2>5. f.step = "merge" /\ f.cursor = 0 /\ f.page = g.page + 1
    BY <1>1, <2>4 DEF Fields
  <2>6. g.page + 1 \in 0 .. MaxPages
    BY <2>1, BoundAssumption
  <2>7. Goto(c, f) /\ CallTyped(f)
    BY <2>2, <2>3, <2>4, <2>5, <2>6, BoundAssumption DEF CallTyped, Steps
  <2>. QED  BY <2>7
<1>6. CASE ReadItems(c)
  <2>1. PICK f : f = [g EXCEPT !.step = "write items", !.base = stored]
    OBVIOUS
  <2>2. f.step = "write items" /\ f.cursor = g.cursor /\ f.page = g.page
    BY <1>1, <2>1 DEF Fields
  <2>3. Goto(c, f) /\ CallTyped(f)
    BY <1>1, <1>6, <2>1, <2>2 DEF ReadItems, CallTyped, Steps
  <2>. QED  BY <2>3
<1>7. CASE WriteItems(c)
  <2>1. PICK f : f = [g EXCEPT !.step = "balances", !.base = NoItems]
    OBVIOUS
  <2>2. f.step = "balances" /\ f.cursor = g.cursor /\ f.page = g.page
    BY <1>1, <2>1 DEF Fields
  <2>3. Goto(c, f) /\ CallTyped(f)
    BY <1>1, <1>7, <2>1, <2>2 DEF WriteItems, CallTyped, Steps
  <2>. QED  BY <2>3
<1>8. CASE FetchBalances(c)
  <2>1. PICK b : b = [a \in Asset |-> BalanceOf(feed, a)]
    OBVIOUS
  <2>2. PICK f : f = [g EXCEPT !.step = "check", !.asked = feed, !.actual = b]
    OBVIOUS
  <2>3. f.step = "check" /\ f.cursor = g.cursor /\ f.page = g.page
    BY <1>1, <2>2 DEF Fields
  <2>4. Goto(c, f) /\ CallTyped(f)
    BY <1>1, <1>8, <2>1, <2>2, <2>3 DEF FetchBalances, CallTyped, Steps
  <2>. QED  BY <2>4
<1>9. CASE HostFails(c) \/ Check(c)
  BY <1>2, <1>9 DEF HostFails, Check
<1>. QED  BY <1>2, <1>3, <1>4, <1>5, <1>6, <1>7, <1>8, <1>9

\* The NEAR rows that are written are one for a hash.
LEMMA WriteNearTyped ==
  ASSUME Typed, NEW c \in Caller, WriteNear(c)
  PROVE  FilesTyped'
<1>1. PICK g : call[c] = g /\ CallOK(g) /\ CallTyped(g)
  BY CallIs DEF Typed
<1>2. PICK rows : rows = MergeTransactions(g.near, NearRows(g.got))
  OBVIOUS
<1>3. g.step = "write near" /\ g.got \in SUBSET History
  BY <1>1 DEF WriteNear, At_, CallOK
<1>4. OnePerHash(rows)
  BY <1>1, <1>2, <1>3, NearRowsOnce DEF CallTyped
<1>5. near' = rows /\ Changed(c) /\ UNCHANGED <<hostVars, records, ft, pools, stored, budget>>
  BY <1>1, <1>2 DEF WriteNear
<1>. QED  BY <1>4, <1>5 DEF Typed, FilesTyped, Changed, Busy, hostVars

\* The token rows that are written are one for a key.
LEMMA WriteFtTyped ==
  ASSUME Typed, NEW c \in Caller, WriteFt(c)
  PROVE  FilesTyped'
<1>1. PICK g : call[c] = g /\ CallOK(g) /\ CallTyped(g)
  BY CallIs DEF Typed
<1>2. PICK rows : rows = Persisted(MergeFtTransactions(g.ft, FtRows(g.got)))
  OBVIOUS
<1>3. g.step = "write ft" /\ g.got \in SUBSET History /\ FtReadTyped(g.ft)
  BY <1>1 DEF WriteFt, At_, CallOK
<1>4. OnePerKey(rows) /\ PlainTokens(rows)
  BY <1>1, <1>2, <1>3, FtRowsOnce, FtRowsPlain DEF CallTyped
<1>5. ft' = rows /\ Changed(c) /\ UNCHANGED <<hostVars, records, near, pools, stored, budget>>
  BY <1>1, <1>2 DEF WriteFt
<1>. QED  BY <1>4, <1>5 DEF Typed, FilesTyped, Changed, Busy, hostVars

\* The entries that an import writes are one for a block.
LEMMA WritePoolTyped ==
  ASSUME Typed, NEW c \in Caller, WritePool(c)
  PROVE  FilesTyped'
<1>1. PICK g : call[c] = g /\ CallOK(g) /\ CallTyped(g)
  BY CallIs DEF Typed
<1>2. PICK s \in g.staking :
        pools' = [pools EXCEPT ![s[1]] = MergeStakingEntries(s[2], StakingEntries(g.got, s[1]))]
  BY <1>1 DEF WritePool
<1>3. PICK entries : entries = MergeStakingEntries(s[2], StakingEntries(g.got, s[1]))
  OBVIOUS
<1>4. g.step = "write pool" /\ Changed(c) /\ UNCHANGED <<hostVars, records, near, ft, stored, budget>>
  BY <1>1 DEF WritePool, At_
<1>5. g.got \in SUBSET History /\ EntryOnce(s[2]) /\ EntriesOK(s[2])
  BY <1>1, <1>4 DEF CallOK, CallTyped
<1>6. EntryOnce(entries)
  BY <1>3, <1>5, EntriesOnce, BlockOnce
<1>7. PICK p : p = s[1]
  OBVIOUS
<1>8. pools' = [pools EXCEPT ![p] = entries]
  BY <1>2, <1>3, <1>7
<1>9. ASSUME NEW q \in Pool PROVE EntryOnce(pools'[q])
  <2>1. CASE q = p
    BY <1>6, <1>8, <2>1 DEF Typed, FilesInOrder, FilesOK
  <2>2. CASE q # p
    BY <1>8, <2>2 DEF Typed, FilesInOrder, FilesOK, FilesTyped
  <2>. QED  BY <2>1, <2>2
<1>. QED  BY <1>4, <1>9 DEF Typed, FilesTyped, Changed, Busy, hostVars

\* The files of two devices, merged, still keep rows and entries apart.
LEMMA SyncTyped ==
  ASSUME Typed, SyncArrives
  PROVE  FilesTyped'
<1>1. PICK R, h, m : Merges(R, h, m)
  BY SyncFacts
<1>2. R \in SUBSET History
  BY <1>1, HistoryAssumption DEF Merges
<1>3. late' = late \cup Busy /\ UNCHANGED hostVars /\ Spend("sync")
  BY SyncFacts
<1>4. OnePerHash(near')
  <2>1. OnePerHash(NearRows(R)) /\ OnePerHash(near)
    BY <1>2, NearRowsOnce DEF Typed, FilesTyped
  <2>2. near' = MergeTransactions(near, NearRows(R)) \/ near' = MergeTransactions(NearRows(R), near)
    BY <1>1, MergesFacts
  <2>. QED  BY <2>1, <2>2, MergeNearOnce
<1>5. OnePerKey(ft') /\ PlainTokens(ft')
  <2>1. PICK best : best = {r \in FtRows(R) : Best(FtRows(R), r)}
    OBVIOUS
  <2>2. OnePerKey(ft) /\ PlainTokens(ft)
    BY DEF Typed, FilesTyped
  <2>3. OnePerKey(best)
    BY <1>2, <2>1, FtRowsOnce
  <2>4. PlainTokens(best)
    BY <2>1, FtRowsPlain DEF PlainTokens
  <2>5. ft' = MergeFtFiles(ft, best) \/ ft' = MergeFtFiles(best, ft)
    BY <1>1, <2>1, MergesFacts
  <2>6. OnePerKey(ft')
    BY <2>2, <2>3, <2>5, MergeFtFilesOnce
  <2>7. ft' \subseteq ft \cup best
    BY <2>5 DEF MergeFtFiles
  <2>. QED  BY <2>2, <2>4, <2>6, <2>7 DEF PlainTokens
<1>6. ASSUME NEW p \in Pool PROVE EntryOnce(pools'[p])
  <2>1. PICK ours, new, theirs : /\ ours = pools[p] /\ new = StakingEntries(R, p)
                                 /\ theirs = RecomputeStakingEarnings(new)
    OBVIOUS
  <2>2. pools'[p] = MergePoolFiles(ours, theirs) \/ pools'[p] = MergePoolFiles(theirs, ours)
    BY <1>1, <2>1, MergesFacts
  <2>3. EntriesOK(ours) /\ EntryOnce(ours)
    BY <2>1 DEF Typed, FilesTyped, FilesInOrder, FilesOK
  <2>4. EntriesOK(new) /\ OnePerBlock(new)
    BY <1>2, <2>1, NewEntriesFacts, EntriesOnce
  <2>5. EntriesOK(theirs) /\ EntryOnce(theirs)
    BY <2>1, <2>4, AllRecomputedFacts, RecomputedOnce, BlockOnce
  <2>. QED  BY <2>2, <2>3, <2>5, MergePoolOnce
<1>7. late' \subseteq Caller
  BY <1>3 DEF Typed, FilesTyped, Busy
<1>8. served' \in Served /\ repaired' \in BOOLEAN
  BY <1>3 DEF Typed, FilesTyped, hostVars
<1>9. \A k \in DOMAIN budget' : budget'[k] \in Nat
  BY <1>3, SpendTyped DEF Typed, FilesTyped
<1>. QED  BY <1>4, <1>5, <1>6, <1>7, <1>8, <1>9 DEF FilesTyped

\* Steps that leave the three files alone.
LEMMA OthersTyped ==
  ASSUME Typed, UNCHANGED <<near, ft, pools>>,
         served' \in Served, repaired' \in BOOLEAN, late' \subseteq Caller,
         UNCHANGED budget \/ \E k : Spend(k)
  PROVE  FilesTyped'
<1>1. \A k \in DOMAIN budget' : budget'[k] \in Nat
  BY SpendTyped DEF Typed, FilesTyped
<1>. QED  BY <1>1 DEF Typed, FilesTyped

\* Every step keeps the files typed.
LEMMA FilesStepTyped ==
  ASSUME Typed, [Next]_vars
  PROVE  FilesTyped'
<1>1. served \in Served /\ repaired \in BOOLEAN /\ late \subseteq Caller
  BY DEF Typed, FilesTyped
<1>2. ASSUME NEW c \in Caller,
             \/ PressImport(c) \/ PressFetch(c) \/ Answered(c) \/ WriteRecords(c) \/ Convert(c)
             \/ ReadNear(c) \/ ReadFt(c) \/ ReadPool(c)
             \/ OpenSession(c) \/ HostAnswers(c) \/ HostCutsShort(c) \/ HostFails(c)
             \/ ReadItems(c) \/ WriteItems(c) \/ FetchBalances(c) \/ Check(c)
      PROVE  FilesTyped'
  <2>1. UNCHANGED <<near, ft, pools, served, repaired>>
    BY <1>2 DEF PressImport, PressFetch, Press, Answered, WriteRecords, Convert, ReadNear, ReadFt,
       ReadPool, OpenSession, HostAnswers, HostCutsShort, HostFails, ReadItems, WriteItems,
       FetchBalances, Check, files, hostVars
  <2>2. UNCHANGED late \/ late' = late \ {c} \/ Changed(c)
    BY <1>2 DEF PressImport, PressFetch, Press, Answered, WriteRecords, Convert, ReadNear, ReadFt,
       ReadPool, OpenSession, HostAnswers, HostCutsShort, HostFails, ReadItems, WriteItems,
       FetchBalances, Check
  <2>3. UNCHANGED budget \/ \E k : Spend(k)
    BY <1>2 DEF PressImport, PressFetch, Press, Answered, WriteRecords, Convert, ReadNear, ReadFt,
       ReadPool, OpenSession, HostAnswers, HostCutsShort, HostFails, ReadItems, WriteItems,
       FetchBalances, Check
  <2>4. late' \subseteq Caller
    BY <1>1, <2>2 DEF Changed, Busy
  <2>. QED  BY <1>1, <2>1, <2>3, <2>4, OthersTyped
<1>3. ASSUME NEW c \in Caller, WriteNear(c) \/ WriteFt(c) \/ WritePool(c)
      PROVE  FilesTyped'
  BY <1>3, WriteNearTyped, WriteFtTyped, WritePoolTyped
<1>4. CASE Index \/ Repair \/ Quote \/ Settle \/ PageCloses \/ UNCHANGED vars
  <2>1. UNCHANGED <<near, ft, pools, late>>
    BY <1>4 DEF Index, Repair, Quote, Settle, PageCloses, vars, files
  <2>2. served' \in Served /\ repaired' \in BOOLEAN
    BY <1>1, <1>4 DEF Index, Repair, Quote, Settle, PageCloses, vars, hostVars
  <2>3. UNCHANGED budget \/ \E k : Spend(k)
    BY <1>4 DEF Index, Repair, Quote, Settle, PageCloses, vars
  <2>. QED  BY <1>1, <2>1, <2>2, <2>3, OthersTyped
<1>5. CASE SyncArrives
  BY <1>5, SyncTyped
<1>. QED  BY <1>2, <1>3, <1>4, <1>5 DEF Next

\* Every step keeps the calls typed.
LEMMA CallsStepTyped ==
  ASSUME Typed, [Next]_vars, NEW d \in Caller
  PROVE  CallTyped(call'[d])
<1>1. CallTyped(call[d])
  BY DEF Typed
<1>2. ASSUME NEW c \in Caller, \E f : Goto(c, f) /\ CallTyped(f)
      PROVE  CallTyped(call'[d])
  <2>1. PICK f : Goto(c, f) /\ CallTyped(f)
    BY <1>2
  <2>2. call' = [call EXCEPT ![c] = f]
    BY <2>1 DEF Goto
  <2>3. call'[d] = IF d = c THEN f ELSE call[d]
    BY <2>2 DEF Typed, FilesInOrder
  <2>. QED  BY <1>1, <2>1, <2>3
<1>3. CASE UNCHANGED call
  BY <1>1, <1>3
<1>4. CASE PageCloses
  BY <1>4, NoCallTyped DEF PageCloses
<1>5. ASSUME NEW c \in Caller,
             \/ PressImport(c) \/ PressFetch(c) \/ Answered(c) \/ WriteRecords(c) \/ Convert(c)
             \/ ReadNear(c) \/ ReadFt(c) \/ WriteNear(c) \/ WriteFt(c) \/ ReadPool(c) \/ WritePool(c)
             \/ OpenSession(c) \/ HostAnswers(c) \/ HostCutsShort(c) \/ HostFails(c)
             \/ ReadItems(c) \/ WriteItems(c) \/ FetchBalances(c) \/ Check(c)
      PROVE  CallTyped(call'[d])
  BY <1>2, <1>5, ImportTyped, PoolTyped, FetchTyped
<1>6. CASE Index \/ Repair \/ Quote \/ Settle \/ SyncArrives \/ UNCHANGED vars
  BY <1>3, <1>6 DEF Index, Repair, Quote, Settle, SyncArrives, vars
<1>. QED  BY <1>4, <1>5, <1>6 DEF Next

\* What makes rows and entries unique stays.
LEMMA TypedStays == Typed /\ [Next]_vars => Typed'
<1>. SUFFICES ASSUME Typed, [Next]_vars PROVE Typed'
  OBVIOUS
<1>1. FilesInOrder'
  BY StepInOrder DEF Typed
<1>. QED  BY <1>1, FilesStepTyped, CallsStepTyped DEF Typed

\* The files keep one row of a transaction, one of a transaction and token and one entry of a
\* pool for a transaction or a sample in a block, in a place of its own, however imports,
\* fetches and syncs interleave and whichever side of a sync is the remote's.
THEOREM RowsStayUnique == Spec => []TypeOK
<1>1. Typed => TypeOK
  <2>. SUFFICES ASSUME Typed PROVE TypeOK
    OBVIOUS
  <2>1. ASSUME NEW c \in Caller
        PROVE  /\ call[c].step \in Steps /\ IsHistory(call[c].items)
               /\ call[c].cursor \in 0 .. MaxItem /\ call[c].page \in 0 .. MaxPages
    BY DEF Typed, CallTyped, FilesInOrder, CallOK
  <2>. QED  BY <2>1 DEF Typed, FilesTyped, FilesInOrder, FilesOK, TypeOK, OnePerHash, OnePerKey,
               EntryOnce, PlainTokens, Steps
<1>. QED  BY <1>1, TypedStays, InitTyped, PTL DEF Spec

---------------------------------------------------------------------------
(* The entries of the pools, and what an answer says of them. *)

\* An entry of a pool that a real sample stands behind.
EntryTrue(p, e) ==
  /\ DOMAIN e = EntryFields
  /\ e.block \in BlocksOf(Of(History, p))
  /\ e.block \notin Bad =>
       /\ e.balance = Principal[p][e.block] + Reward[p][e.block]
       /\ e.tx = NoTx => \E R \in Served :
            /\ e.block \in BlocksOf(Of(R, p)) /\ TxAt(R, e.block) = NoTx
            /\ e.deposit = SentTo(R, p, e.block, -1) /\ e.withdrawal = SentTo(R, p, e.block, 1)

\* Some entries are as the server once had them, and no sample is missing among them that is
\* not of a transaction with an earlier one.
PoolTrue(p, E) ==
  /\ \A e \in E : EntryTrue(p, e)
  /\ \A e \in E, b \in RealBlocks(p) : b <= e.block => b \in BlocksOf(E) \cup Split[p]

IsAnswer(R) == \E S \in Served : R = S \/ R = {r \in S : r.block \notin Bad}

\* Of a call: what it was answered, and the entries it has read and will write back.
CallTrue(f) ==
  /\ IsAnswer(f.got)
  /\ f.step = "write pool" => \A s \in f.staking : PoolTrue(s[1], s[2])

PoolsTrue ==
  /\ \A p \in Pool : PoolTrue(p, pools[p])
  /\ \A c \in Caller : CallTrue(call[c])

---------------------------------------------------------------------------

\* What an account sends a pool or gets from it in a block is no less than nothing.
LEMMA SentToFacts ==
  ASSUME NEW R \in SUBSET History, \A r \in History : r.amount \in Int, NEW p, NEW b,
         NEW sign \in {-1, 1}
  PROVE  SentTo(R, p, b, sign) \in Nat
<1>. DEFINE S == {r \in At(R, b) : /\ r.token # p /\ r.peer = p /\ sign * r.amount > 0
                                   /\ sign = 1 => r.memo # "staking_reward"}
            w == [r \in S |-> sign * r.amount]
            Adds(g) == g = [s \in SUBSET S |->
                              IF s = {} THEN 0
                              ELSE LET x == CHOOSE x \in s : TRUE IN sign * x.amount + g[s \ {x}]]
<1>1. S \subseteq History /\ IsFiniteSet(S)
  <2>1. S \subseteq History
    BY DEF At
  <2>. HIDE DEF S
  <2>. QED  BY <2>1, HistoryAssumption, FS_Subset
<1>2. \A g : Sums(w, S, g) <=> Adds(g)
  <2>. SUFFICES ASSUME NEW g PROVE Sums(w, S, g) <=> Adds(g)
    OBVIOUS
  <2>. HIDE DEF S
  <2>1. \A s \in SUBSET S : s # {} => w[OneOf(s)] = sign * OneOf(s).amount
    BY OneTaken
  <2>2. [s \in SUBSET S |-> IF s = {} THEN 0 ELSE w[OneOf(s)] + g[s \ {OneOf(s)}]]
        = [s \in SUBSET S |-> IF s = {} THEN 0 ELSE sign * OneOf(s).amount + g[s \ {OneOf(s)}]]
    <3>. HIDE DEF w
    <3>. QED  BY <2>1
  <2>. QED  BY <2>2 DEF Sums, OneOf
<1>3. \E g : Adds(g)
  <2>. HIDE DEF S, w, Adds
  <2>. QED  BY <1>1, <1>2, SumsExist
<1>4. Adds(CHOOSE g : Adds(g))
  BY <1>3
<1>5. SentTo(R, p, b, sign) = (CHOOSE g : Adds(g))[S]
  BY DEF SentTo, MapThenSumSet, MapThenFoldSet
<1>6. \A x \in S : w[x] \in Int /\ w[x] >= 0
  <2>. SUFFICES ASSUME NEW x \in S PROVE w[x] \in Int /\ w[x] >= 0
    OBVIOUS
  <2>1. w[x] = sign * x.amount /\ sign * x.amount > 0 /\ x.amount \in Int
    BY <1>1
  <2>. QED  BY <2>1
<1>7. PICK g : g = CHOOSE h : Adds(h)
  OBVIOUS
<1>8. Sums(w, S, g) /\ SentTo(R, p, b, sign) = g[S]
  BY <1>2, <1>4, <1>5, <1>7
<1>9. g[S] \in Int /\ g[S] >= 0
  <2>. HIDE DEF S, w
  <2>. QED  BY <1>1, <1>6, <1>8, SumsFacts, SumsNotNegative
<1>. QED  BY <1>8, <1>9

\* An answer, at a block of real samples, says what the server had.
LEMMA AnswerFacts ==
  ASSUME NEW R, IsAnswer(R)
  PROVE  /\ R \in SUBSET History
         /\ \E S \in Served : /\ R \subseteq S
                              /\ \A r \in S : r.block \notin Bad => r \in R
                              /\ \A b : b \notin Bad \/ b \in BlocksOf(R) => At(R, b) = At(S, b)
<1>1. PICK S \in Served : R = S \/ R = {r \in S : r.block \notin Bad}
  BY DEF IsAnswer
<1>2. S \in SUBSET History
  BY HistoryAssumption
<1>3. R \subseteq S /\ \A r \in S : r.block \notin Bad => r \in R
  BY <1>1
<1>4. ASSUME NEW b, b \notin Bad \/ b \in BlocksOf(R) PROVE At(R, b) = At(S, b)
  <2>1. CASE R = S
    BY <2>1
  <2>2. CASE R # S
    <3>1. b \notin Bad
      BY <1>1, <1>4, <2>2 DEF BlocksOf
    <3>. QED  BY <1>3, <3>1 DEF At
  <2>. QED  BY <2>1, <2>2
<1>. QED  BY <1>2, <1>3, <1>4

\* What is at a block is all that a transaction of the block and the moves are read from.
LEMMA SameAt ==
  ASSUME NEW R, NEW S, NEW b, At(R, b) = At(S, b)
  PROVE  /\ TxAt(R, b) = TxAt(S, b)
         /\ \A p, sign : SentTo(R, p, b, sign) = SentTo(S, p, b, sign)
         /\ \A p : b \in BlocksOf(Of(R, p)) => b \in BlocksOf(Of(S, p))
<1>1. TxAt(R, b) = TxAt(S, b)
  BY DEF TxAt
<1>2. \A p, sign : SentTo(R, p, b, sign) = SentTo(S, p, b, sign)
  BY DEF SentTo
<1>3. ASSUME NEW p, b \in BlocksOf(Of(R, p)) PROVE b \in BlocksOf(Of(S, p))
  BY <1>3 DEF BlocksOf, Of, At
<1>. QED  BY <1>1, <1>2, <1>3

\* The entries of an answer are true, and there is one for every real sample that is not split.
LEMMA NewTrue ==
  ASSUME ServerIsTruthful, NEW R, IsAnswer(R), NEW p \in Pool
  PROVE  PoolTrue(p, StakingEntries(R, p))
<1>. DEFINE new == StakingEntries(R, p)
<1>1. R \in SUBSET History
  BY AnswerFacts
<1>2. PICK S \in Served : /\ R \subseteq S
                          /\ \A r \in S : r.block \notin Bad => r \in R
                          /\ \A b : b \notin Bad \/ b \in BlocksOf(R) => At(R, b) = At(S, b)
  BY AnswerFacts
<1>3. ASSUME NEW e \in new PROVE EntryTrue(p, e)
  <2>1. PICK b \in BlocksOf(Of(R, p)) : e = StakingEntry(R, p, b)
    BY DEF StakingEntries
  <2>2. /\ DOMAIN e = EntryFields /\ e.block = b /\ e.tx = TxAt(R, b)
        /\ e.balance = LastOf(At(Of(R, p), b)).after
        /\ e.deposit = SentTo(R, p, b, -1) /\ e.withdrawal = SentTo(R, p, b, 1)
    BY <2>1 DEF StakingEntry, EntryFields
  <2>3. b \in BlocksOf(Of(History, p))
    BY <1>1 DEF BlocksOf, Of
  <2>4. ASSUME b \notin Bad
        PROVE  e.balance = Principal[p][b] + Reward[p][b]
    <3>1. At(Of(R, p), b) # {} /\ At(Of(R, p), b) \in SUBSET History
      BY <1>1 DEF At, Of, BlocksOf
    <3>2. PICK r : r = LastOf(At(Of(R, p), b)) /\ r \in At(Of(R, p), b)
      BY <3>1, RecordsFacts
    <3>3. r \in Of(History, p) /\ r.block = b
      BY <1>1, <3>2 DEF At, Of
    <3>. QED  BY <2>2, <2>4, <3>2, <3>3 DEF ServerIsTruthful
  <2>5. ASSUME b \notin Bad
        PROVE  /\ b \in BlocksOf(Of(S, p)) /\ e.tx = TxAt(S, b)
               /\ e.deposit = SentTo(S, p, b, -1) /\ e.withdrawal = SentTo(S, p, b, 1)
    <3>1. At(R, b) = At(S, b)
      BY <1>2, <2>5
    <3>. QED  BY <2>2, <3>1, SameAt
  <2>. QED  BY <2>2, <2>3, <2>4, <2>5 DEF EntryTrue
<1>4. ASSUME NEW e \in new, NEW b \in RealBlocks(p), b <= e.block
      PROVE  b \in BlocksOf(new) \cup Split[p]
  <2>1. PICK c \in BlocksOf(Of(R, p)) : e = StakingEntry(R, p, c)
    BY DEF StakingEntries
  <2>2. PICK r \in R : r.token = p /\ r.block = c
    BY <2>1 DEF BlocksOf, Of
  <2>3. PICK s \in History : s.token = p /\ s.block = b /\ b \notin Bad
    BY DEF RealBlocks, BlocksOf, Of
  <2>4. b \in BlocksOf(Of(R, p))
    <3>1. CASE b = c
      BY <2>1, <3>1
    <3>2. CASE b # c
      <4>1. e.block = c
        BY <2>1 DEF StakingEntry
      <4>2. s.block < r.block
        <5>1. s.block \in Nat /\ r.block \in Nat
          BY <1>1, HistoryAssumption
        <5>. QED  BY <1>4, <2>2, <2>3, <3>2, <4>1, <5>1
      <4>3. s \in S
        BY <1>2, <2>2, <4>2 DEF ServerIsTruthful
      <4>. QED  BY <1>2, <2>3, <4>3 DEF BlocksOf, Of
    <3>. QED  BY <3>1, <3>2
  <2>5. ASSUME NEW d \in BlocksOf(Of(R, p)), d < b, TxAt(R, b) # NoTx, TxAt(R, d) = TxAt(R, b)
        PROVE  b \in Split[p]
    <3>1. d \in BlocksOf(R) /\ b \in BlocksOf(R)
      BY <2>4 DEF BlocksOf, Of
    <3>2. At(R, d) = At(S, d) /\ At(R, b) = At(S, b)
      BY <1>2, <3>1
    <3>3. /\ d \in BlocksOf(Of(S, p))
          /\ TxAt(S, b) # NoTx /\ TxAt(S, d) = TxAt(S, b)
      BY <2>5, <3>2, SameAt
    <3>. QED  BY <2>5, <3>3 DEF Split
  <2>6. CASE \A d \in BlocksOf(Of(R, p)) : d < b => TxAt(R, b) = NoTx \/ TxAt(R, d) # TxAt(R, b)
    <3>1. StakingEntry(R, p, b) \in new
      BY <2>4, <2>6 DEF StakingEntries
    <3>2. StakingEntry(R, p, b).block = b
      BY DEF StakingEntry
    <3>. HIDE DEF new
    <3>. QED  BY <3>1, <3>2 DEF BlocksOf
  <2>. QED  BY <2>5, <2>6
<1>. HIDE DEF new
<1>5. PoolTrue(p, new)
  BY <1>3, <1>4 DEF PoolTrue
<1>. QED  BY <1>5 DEF new

\* Working out the earnings leaves an entry true.
LEMMA RecomputedTrue ==
  ASSUME ServerIsTruthful, NEW p, NEW E, NEW e,
         EntryTrue(p, e)
  PROVE  /\ EntryTrue(p, Recomputed(E, e))
         /\ Recomputed(E, e).block = e.block
<1>1. DOMAIN e = EntryFields
  BY DEF EntryTrue
<1>2. PICK f : f = Recomputed(E, e)
  OBVIOUS
<1>3. \/ e.tx # NoTx /\ \E d, w, n : f = [e EXCEPT !.deposit = d, !.withdrawal = w, !.earnings = n]
      \/ e.tx # NoTx /\ \E d, n : f = [e EXCEPT !.deposit = d, !.earnings = n]
      \/ e.tx = NoTx /\ \E n : f = [e EXCEPT !.deposit = e.deposit, !.earnings = n]
      \/ e.tx = NoTx /\ \E n : f = [e EXCEPT !.earnings = n]
      \/ /\ e.tx = NoTx /\ ~(e.deposit + e.withdrawal > 0)
         /\ \E n : f = [e EXCEPT !.deposit = 0, !.withdrawal = 0, !.earnings = n]
  BY <1>2 DEF Recomputed
<1>4. /\ DOMAIN f = EntryFields /\ f.block = e.block /\ f.tx = e.tx /\ f.balance = e.balance
      /\ \/ e.tx # NoTx
         \/ f.deposit = e.deposit /\ f.withdrawal = e.withdrawal
         \/ ~(e.deposit + e.withdrawal > 0) /\ f.deposit = 0 /\ f.withdrawal = 0
  <2>1. ASSUME NEW d, NEW w, NEW n, f = [e EXCEPT !.deposit = d, !.withdrawal = w, !.earnings = n]
        PROVE  /\ DOMAIN f = EntryFields /\ f.block = e.block /\ f.tx = e.tx
               /\ f.balance = e.balance /\ f.deposit = d /\ f.withdrawal = w
    BY <1>1, <2>1 DEF EntryFields
  <2>2. ASSUME NEW d, NEW n, f = [e EXCEPT !.deposit = d, !.earnings = n]
        PROVE  /\ DOMAIN f = EntryFields /\ f.block = e.block /\ f.tx = e.tx
               /\ f.balance = e.balance /\ f.deposit = d /\ f.withdrawal = e.withdrawal
    BY <1>1, <2>2 DEF EntryFields
  <2>3. ASSUME NEW n, f = [e EXCEPT !.earnings = n]
        PROVE  /\ DOMAIN f = EntryFields /\ f.block = e.block /\ f.tx = e.tx
               /\ f.balance = e.balance /\ f.deposit = e.deposit /\ f.withdrawal = e.withdrawal
    BY <1>1, <2>3 DEF EntryFields
  <2>. DEFINE Same == /\ DOMAIN f = EntryFields /\ f.block = e.block /\ f.tx = e.tx
                      /\ f.balance = e.balance
              Kept == f.deposit = e.deposit /\ f.withdrawal = e.withdrawal
  <2>4. ASSUME e.tx # NoTx, NEW d, NEW w, NEW n, f = [e EXCEPT !.deposit = d, !.withdrawal = w, !.earnings = n]
        PROVE  Same
    BY <2>1, <2>4
  <2>5. ASSUME e.tx # NoTx, NEW d, NEW n, f = [e EXCEPT !.deposit = d, !.earnings = n]
        PROVE  Same
    BY <2>2, <2>5
  <2>6. ASSUME NEW n, f = [e EXCEPT !.deposit = e.deposit, !.earnings = n]
        PROVE  Same /\ Kept
    <3>1. PICK d : d = e.deposit
      OBVIOUS
    <3>2. f = [e EXCEPT !.deposit = d, !.earnings = n]
      BY <2>6, <3>1
    <3>. QED  BY <2>2, <3>1, <3>2
  <2>7. ASSUME NEW n, f = [e EXCEPT !.earnings = n]
        PROVE  Same /\ Kept
    BY <2>3, <2>7
  <2>8. ASSUME NEW n, f = [e EXCEPT !.deposit = 0, !.withdrawal = 0, !.earnings = n]
        PROVE  Same /\ f.deposit = 0 /\ f.withdrawal = 0
    BY <2>1, <2>8
  <2>. HIDE DEF Same, Kept
  <2>9. \/ Same /\ e.tx # NoTx
        \/ Same /\ Kept
        \/ Same /\ ~(e.deposit + e.withdrawal > 0) /\ f.deposit = 0 /\ f.withdrawal = 0
    BY <1>3, <2>4, <2>5, <2>6, <2>7, <2>8
  <2>. QED  BY <2>9 DEF Same, Kept
<1>5. ASSUME e.block \notin Bad, e.tx = NoTx
      PROVE  f.deposit = e.deposit /\ f.withdrawal = e.withdrawal
  <2>1. PICK R \in Served : /\ e.deposit = SentTo(R, p, e.block, -1)
                            /\ e.withdrawal = SentTo(R, p, e.block, 1)
    BY <1>5 DEF EntryTrue
  <2>2. R \in SUBSET History
    BY HistoryAssumption
  <2>3. \A r \in History : r.amount \in Int
    BY DEF ServerIsTruthful
  <2>4. PICK b : b = e.block
    OBVIOUS
  <2>5. SentTo(R, p, b, -1) \in Nat /\ SentTo(R, p, b, 1) \in Nat
    BY <2>2, <2>3, SentToFacts
  <2>6. e.deposit \in Nat /\ e.withdrawal \in Nat
    BY <2>1, <2>4, <2>5
  <2>. QED  BY <1>4, <1>5, <2>6
<1>6. EntryTrue(p, f)
  BY <1>4, <1>5 DEF EntryTrue
<1>. QED  BY <1>2, <1>4, <1>6

\* So does another place in the block.
LEMMA PlacedTrue ==
  ASSUME NEW p, NEW e, EntryTrue(p, e), HasBlock(e), NEW n \in Nat
  PROVE  EntryTrue(p, [e EXCEPT !.place = n])
<1>1. PICK f : f = [e EXCEPT !.place = n]
  OBVIOUS
<1>2. /\ HasBlock(f) /\ f.block = e.block /\ f.tx = e.tx /\ f.balance = e.balance
      /\ f.deposit = e.deposit /\ f.withdrawal = e.withdrawal
  BY <1>1, PlacedFacts
<1>3. EntryTrue(p, f)
  BY <1>2 DEF EntryTrue, HasBlock
<1>. QED  BY <1>1, <1>3

\* Of all of them.
LEMMA AllRecomputedTrue ==
  ASSUME ServerIsTruthful, NEW p, NEW E, PoolTrue(p, E)
  PROVE  /\ PoolTrue(p, RecomputeStakingEarnings(E))
         /\ BlocksOf(RecomputeStakingEarnings(E)) = BlocksOf(E)
<1>. DEFINE F == RecomputeStakingEarnings(E)
<1>1. \A e \in E : /\ EntryTrue(p, Recomputed(E, e))
                   /\ Recomputed(E, e).block = e.block
  BY RecomputedTrue DEF PoolTrue
<1>2. F = {Recomputed(E, e) : e \in E}
  BY DEF RecomputeStakingEarnings
<1>3. BlocksOf(F) = BlocksOf(E)
  <2>. HIDE DEF F
  <2>. QED  BY <1>1, <1>2 DEF BlocksOf
<1>. HIDE DEF F
<1>4. PoolTrue(p, F)
  <2>1. ASSUME NEW f \in F, NEW b \in RealBlocks(p), b <= f.block
        PROVE  b \in BlocksOf(F) \cup Split[p]
    <3>1. PICK e \in E : f.block = e.block
      BY <1>1, <1>2
    <3>. QED  BY <1>3, <2>1, <3>1 DEF PoolTrue
  <2>. QED  BY <1>1, <1>2, <2>1 DEF PoolTrue
<1>. QED  BY <1>3, <1>4 DEF F

\* Entries of an answer, and of others the last ones of the blocks that it does not cover.
LEMMA MergedTrue ==
  ASSUME ServerIsTruthful, NEW p \in Pool, NEW R, IsAnswer(R),
         NEW old, EntriesOK(old), PoolTrue(p, old)
  PROVE  PoolTrue(p, MergeStakingEntries(old, StakingEntries(R, p)))
<1>0. R \in SUBSET History
  BY AnswerFacts
<1>1. PICK new : new = StakingEntries(R, p)
  OBVIOUS
<1>2. PoolTrue(p, new)
  BY <1>1, NewTrue
<1>3. BlocksOf(new) \subseteq BlocksOf(History)
  BY <1>0, <1>1, NewEntriesFacts DEF BlocksOf
<1>4. PICK out, last, E : /\ out = Outside(old, new) /\ last = LastPerBlock(out)
                          /\ E = MergedWith(old, new)
  OBVIOUS
<1>5. EntriesOK(out) /\ MergeStakingEntries(old, new) = RecomputeStakingEarnings(E)
  BY <1>0, <1>1, <1>4, MergedWithFacts
<1>6. /\ BlocksOf(last) = BlocksOf(out)
      /\ \A f \in last : \E e \in out : f = [e EXCEPT !.place = 0] /\ f.block = e.block
  BY <1>4, <1>5, LastPerBlockFacts
<1>7. BlocksOf(E) = BlocksOf(out) \cup BlocksOf(new)
  BY <1>4, <1>6 DEF MergedWith, BlocksOf
<1>8. \A e \in out : e \in old
  BY <1>4 DEF Outside
<1>9. ASSUME NEW b \in RealBlocks(p), Covered(new, b)
      PROVE  b \in BlocksOf(E) \cup Split[p]
  <2>1. BlocksOf(new) # {}
    BY <1>9 DEF Covered, BlocksOf
  <2>2. Max(BlocksOf(new)) \in BlocksOf(new) /\ b <= Max(BlocksOf(new))
    BY <1>3, <1>9, <2>1, BlocksFacts DEF Covered
  <2>3. PICK g \in new : b <= g.block
    BY <2>2 DEF BlocksOf
  <2>. QED  BY <1>2, <1>7, <2>3 DEF PoolTrue
<1>10. ASSUME NEW b \in RealBlocks(p), NEW e \in old, b <= e.block
       PROVE  b \in BlocksOf(E) \cup Split[p]
  <2>1. CASE Covered(new, b)
    BY <1>9, <2>1
  <2>2. CASE ~Covered(new, b) /\ b \in BlocksOf(old)
    <3>1. PICK f \in old : f.block = b
      BY <2>2 DEF BlocksOf
    <3>2. f \in out
      BY <1>4, <2>2, <3>1 DEF Outside
    <3>. QED  BY <1>7, <3>1, <3>2 DEF BlocksOf
  <2>. QED  BY <1>10, <2>1, <2>2 DEF PoolTrue
<1>11. ASSUME NEW e \in E, NEW b \in RealBlocks(p), b <= e.block
       PROVE  b \in BlocksOf(E) \cup Split[p]
  <2>1. CASE e \in new
    BY <1>2, <1>7, <1>11, <2>1 DEF PoolTrue
  <2>2. CASE e \in last
    <3>1. PICK f \in out : f.block = e.block
      BY <1>6, <2>2
    <3>. QED  BY <1>8, <1>10, <1>11, <3>1
  <2>. QED  BY <1>4, <2>1, <2>2 DEF MergedWith
<1>12. ASSUME NEW e \in E PROVE EntryTrue(p, e)
  <2>1. CASE e \in new
    BY <1>2, <2>1 DEF PoolTrue
  <2>2. CASE e \in last
    <3>1. PICK f \in out : e = [f EXCEPT !.place = 0]
      BY <1>6, <2>2
    <3>2. EntryTrue(p, f) /\ HasBlock(f)
      BY <1>8, <3>1 DEF PoolTrue, EntriesOK
    <3>. QED  BY <3>1, <3>2, PlacedTrue
  <2>. QED  BY <1>4, <2>1, <2>2 DEF MergedWith
<1>13. PoolTrue(p, E)
  BY <1>11, <1>12 DEF PoolTrue
<1>. QED  BY <1>1, <1>5, <1>13, AllRecomputedTrue

\* A merge of the files of two devices leaves true entries.
LEMMA SyncedTrue ==
  ASSUME NEW p \in Pool, NEW ours, NEW theirs, EntriesOK(ours), EntriesOK(theirs),
         PoolTrue(p, ours), PoolTrue(p, theirs)
  PROVE  PoolTrue(p, MergePoolFiles(ours, theirs))
<1>1. PICK E : E = MergePoolFiles(ours, theirs)
  OBVIOUS
<1>2. /\ BlocksOf(E) = BlocksOf(ours) \cup BlocksOf(theirs)
      /\ \A f \in theirs : PlaceAmong(ours, f) \in Nat
  BY <1>1, MergePoolFacts
<1>3. ASSUME NEW e \in E PROVE EntryTrue(p, e)
  <2>1. CASE e \in ours
    BY <2>1 DEF PoolTrue
  <2>2. CASE e \notin ours
    <3>1. PICK f \in theirs : e = [f EXCEPT !.place = PlaceAmong(ours, f)]
      BY <1>1, <2>2 DEF MergePoolFiles
    <3>2. EntryTrue(p, f) /\ HasBlock(f) /\ PlaceAmong(ours, f) \in Nat
      BY <1>2 DEF PoolTrue, EntriesOK
    <3>. QED  BY <3>1, <3>2, PlacedTrue
  <2>. QED  BY <2>1, <2>2
<1>4. ASSUME NEW e \in E, NEW b \in RealBlocks(p), b <= e.block
      PROVE  b \in BlocksOf(E) \cup Split[p]
  <2>1. PICK f \in ours \cup theirs : f.block = e.block
    <3>1. e.block \in BlocksOf(E)
      BY DEF BlocksOf
    <3>. QED  BY <1>2, <3>1 DEF BlocksOf
  <2>2. b <= f.block
    BY <1>4, <2>1
  <2>3. b \in BlocksOf(ours) \cup BlocksOf(theirs) \cup Split[p]
    BY <2>2 DEF PoolTrue
  <2>. QED  BY <1>2, <2>3
<1>. QED  BY <1>1, <1>3, <1>4 DEF PoolTrue

\* Nothing is true.
LEMMA NoEntriesTrue == \A p : PoolTrue(p, {})
BY DEF PoolTrue

\* A call that is not there carries nothing.
LEMMA NoCallTrue == IsAnswer(NoCall.got) /\ NoCall.step # "write pool"
<1>1. NoCall.got = {} /\ NoCall.step = "idle"
  BY DEF NoCall
<1>. QED  BY <1>1, HistoryAssumption DEF IsAnswer

---------------------------------------------------------------------------
(* Every step keeps them true. *)

\* Of a step of a call: it ends, or its answer stays and it has read no pool.
Keeps(c) ==
  \E f : /\ Goto(c, f)
         /\ f = NoCall \/ (f.got = call[c].got /\ f.step # "write pool")

\* The steps that read neither an answer nor a pool.
LEMMA MostKeep ==
  ASSUME Typed, NEW c \in Caller,
         \/ PressImport(c) \/ PressFetch(c) \/ WriteRecords(c) \/ Convert(c)
         \/ ReadNear(c) \/ ReadFt(c) \/ WriteNear(c) \/ WriteFt(c) \/ WritePool(c)
         \/ OpenSession(c) \/ HostAnswers(c) \/ HostCutsShort(c) \/ HostFails(c)
         \/ ReadItems(c) \/ WriteItems(c) \/ FetchBalances(c) \/ Check(c)
  PROVE  \/ Keeps(c)
         \/ \E op : Press(c, op, "request")
<1>1. PICK g : call[c] = g /\ DOMAIN g = Fields
  BY CallIs DEF Typed
<1>2. CASE End(c)
  BY <1>2 DEF End, Keeps
<1>3. CASE WriteRecords(c) /\ ~End(c)
  <2>1. PICK f : f = [g EXCEPT !.step = "convert"]
    OBVIOUS
  <2>2. f.step = "convert" /\ f.got = g.got
    BY <1>1, <2>1 DEF Fields
  <2>3. Goto(c, f)
    BY <1>1, <1>3, <2>1 DEF WriteRecords, End
  <2>. QED  BY <1>1, <2>2, <2>3 DEF Keeps
<1>4. CASE Convert(c) /\ ~End(c)
  <2>1. PICK f : f = [g EXCEPT !.step = "near"]
    OBVIOUS
  <2>2. f.step = "near" /\ f.got = g.got
    BY <1>1, <2>1 DEF Fields
  <2>3. Goto(c, f)
    BY <1>1, <1>4, <2>1 DEF Convert, End
  <2>. QED  BY <1>1, <2>2, <2>3 DEF Keeps
<1>5. CASE ReadNear(c) /\ ~End(c)
  <2>1. PICK n : n = near
    OBVIOUS
  <2>2. PICK f : f = [g EXCEPT !.step = "ft", !.near = n]
    OBVIOUS
  <2>3. f.step = "ft" /\ f.got = g.got
    BY <1>1, <2>2 DEF Fields
  <2>4. Goto(c, f)
    BY <1>1, <1>5, <2>1, <2>2 DEF ReadNear, End
  <2>. QED  BY <1>1, <2>3, <2>4 DEF Keeps
<1>6. CASE ReadFt(c) /\ ~End(c)
  <2>1. PICK n : n = AllFt
    OBVIOUS
  <2>2. PICK f : f = [g EXCEPT !.step = "write near", !.ft = n]
    OBVIOUS
  <2>3. f.step = "write near" /\ f.got = g.got
    BY <1>1, <2>2 DEF Fields
  <2>4. Goto(c, f)
    BY <1>1, <1>6, <2>1, <2>2 DEF ReadFt, End
  <2>. QED  BY <1>1, <2>3, <2>4 DEF Keeps
<1>7. CASE WriteNear(c) /\ ~End(c)
  <2>1. PICK f : f = [g EXCEPT !.step = "write ft"]
    OBVIOUS
  <2>2. f.step = "write ft" /\ f.got = g.got
    BY <1>1, <2>1 DEF Fields
  <2>3. Goto(c, f)
    BY <1>1, <1>7, <2>1 DEF WriteNear, End
  <2>. QED  BY <1>1, <2>2, <2>3 DEF Keeps
<1>8. CASE OpenSession(c) /\ ~End(c)
  <2>1. PICK n : n = feed
    OBVIOUS
  <2>2. PICK f : f = [g EXCEPT !.step = "walk", !.asked = n]
    OBVIOUS
  <2>3. f.step = "walk" /\ f.got = g.got
    BY <1>1, <2>2 DEF Fields
  <2>4. Goto(c, f)
    BY <1>1, <1>8, <2>1, <2>2 DEF OpenSession, End
  <2>. QED  BY <1>1, <2>3, <2>4 DEF Keeps
<1>9. CASE ReadItems(c) /\ ~End(c)
  <2>1. PICK n : n = stored
    OBVIOUS
  <2>2. PICK f : f = [g EXCEPT !.step = "write items", !.base = n]
    OBVIOUS
  <2>3. f.step = "write items" /\ f.got = g.got
    BY <1>1, <2>2 DEF Fields
  <2>4. Goto(c, f)
    BY <1>1, <1>9, <2>1, <2>2 DEF ReadItems, End
  <2>. QED  BY <1>1, <2>3, <2>4 DEF Keeps
<1>10. CASE WriteItems(c) /\ ~End(c)
  <2>1. PICK n : n = NoItems
    OBVIOUS
  <2>2. PICK f : f = [g EXCEPT !.step = "balances", !.base = n]
    OBVIOUS
  <2>3. f.step = "balances" /\ f.got = g.got
    BY <1>1, <2>2 DEF Fields
  <2>4. Goto(c, f)
    BY <1>1, <1>10, <2>1, <2>2 DEF WriteItems, End
  <2>. QED  BY <1>1, <2>3, <2>4 DEF Keeps
<1>11. CASE FetchBalances(c) /\ ~End(c)
  <2>1. PICK n : n = feed
    OBVIOUS
  <2>2. PICK m : m = [a \in Asset |-> BalanceOf(feed, a)]
    OBVIOUS
  <2>3. PICK f : f = [g EXCEPT !.step = "check", !.asked = n, !.actual = m]
    OBVIOUS
  <2>4. f.step = "check" /\ f.got = g.got
    BY <1>1, <2>3 DEF Fields
  <2>5. Goto(c, f)
    BY <1>1, <1>11, <2>1, <2>2, <2>3 DEF FetchBalances, End
  <2>. QED  BY <1>1, <2>4, <2>5 DEF Keeps
<1>12. CASE (WriteFt(c) \/ WritePool(c)) /\ ~End(c)
  <2>1. PICK P : NextPool(c, P)
    BY <1>12 DEF WriteFt, WritePool
  <2>2. PICK f : f = [g EXCEPT !.step = "pool", !.pools = P]
    OBVIOUS
  <2>3. f.step = "pool" /\ f.got = g.got
    BY <1>1, <2>2 DEF Fields
  <2>4. Goto(c, f)
    BY <1>1, <1>12, <2>1, <2>2 DEF NextPool
  <2>. QED  BY <1>1, <2>3, <2>4 DEF Keeps
<1>13. CASE HostAnswers(c) /\ ~End(c)
  <2>1. PICK page, cursor : Page(c, page, cursor)
    BY <1>13 DEF HostAnswers
  <2>2. g.step = "walk"
    BY <1>1, <1>13 DEF HostAnswers, At_
  <2>3. PICK h : h = After(g, page)
    OBVIOUS
  <2>4. PICK n : n = g.page + 1
    OBVIOUS
  <2>5. PICK f : f = [g EXCEPT !.items = h, !.cursor = cursor, !.page = n]
    OBVIOUS
  <2>6. DOMAIN f = Fields /\ f.step = "walk" /\ f.got = g.got
    BY <1>1, <2>2, <2>5 DEF Fields
  <2>7. PICK e : e = [f EXCEPT !.step = "merge", !.cursor = 0]
    OBVIOUS
  <2>8. e.step = "merge" /\ e.got = g.got
    BY <2>6, <2>7 DEF Fields
  <2>9. Goto(c, f) \/ Goto(c, e)
    BY <1>1, <1>13, <2>1, <2>3, <2>4, <2>5, <2>7 DEF Page, After
  <2>. QED  BY <1>1, <2>6, <2>8, <2>9 DEF Keeps
<1>14. CASE HostCutsShort(c)
  <2>1. PICK kept : Goto(c, [g EXCEPT !.step = "merge", !.cursor = 0, !.page = g.page + 1, !.cut = TRUE,
                             !.items = After(g, kept)])
    BY <1>1, <1>14 DEF HostCutsShort, After
  <2>2. PICK h : h = After(g, kept)
    OBVIOUS
  <2>3. PICK n : n = g.page + 1
    OBVIOUS
  <2>4. PICK f : f = [g EXCEPT !.step = "merge", !.cursor = 0, !.page = n, !.cut = TRUE, !.items = h]
    OBVIOUS
  <2>5. f.step = "merge" /\ f.got = g.got
    BY <1>1, <2>4 DEF Fields
  <2>6. Goto(c, f)
    BY <2>1, <2>2, <2>3, <2>4
  <2>. QED  BY <1>1, <2>5, <2>6 DEF Keeps
<1>15. CASE PressImport(c) \/ PressFetch(c)
  BY <1>15 DEF PressImport, PressFetch
<1>16. CASE HostFails(c) \/ Check(c)
  BY <1>2, <1>16 DEF HostFails, Check
<1>. QED  BY <1>2, <1>3, <1>4, <1>5, <1>6, <1>7, <1>8, <1>9, <1>10, <1>11, <1>12, <1>13, <1>14, <1>15, <1>16

\* A step of one call keeps the other calls true.
LEMMA CallsStayTrue ==
  ASSUME ServerIsTruthful, Typed, PoolsTrue, [Next]_vars,
         NEW d \in Caller
  PROVE  CallTrue(call'[d])
<1>1. CallTrue(call[d])
  BY DEF PoolsTrue
<1>2. ASSUME NEW c \in Caller, NEW f, Goto(c, f), CallTrue(f)
      PROVE  CallTrue(call'[d])
  <2>1. call' = [call EXCEPT ![c] = f]
    BY <1>2 DEF Goto
  <2>2. call'[d] = IF d = c THEN f ELSE call[d]
    BY <2>1 DEF Typed, FilesInOrder
  <2>. QED  BY <1>1, <1>2, <2>2
<1>3. CallTrue(NoCall)
  BY NoCallTrue DEF CallTrue
<1>4. ASSUME NEW c \in Caller, Keeps(c)
      PROVE  CallTrue(call'[d])
  <2>1. PICK f : Goto(c, f) /\ (f = NoCall \/ (f.got = call[c].got /\ f.step # "write pool"))
    BY <1>4 DEF Keeps
  <2>2. CallTrue(f)
    BY <1>3, <2>1 DEF PoolsTrue, CallTrue
  <2>. QED  BY <1>2, <2>1, <2>2
<1>5. ASSUME NEW c \in Caller, NEW op, Press(c, op, "request")
      PROVE  CallTrue(call'[d])
  <2>1. PICK h : h = NoCall
    OBVIOUS
  <2>2. PICK f : f = [h EXCEPT !.op = op, !.step = "request"]
    OBVIOUS
  <2>3. DOMAIN h = Fields
    BY <2>1 DEF NoCall, Fields
  <2>4. f.step = "request" /\ f.got = h.got
    BY <2>2, <2>3 DEF Fields
  <2>5. CallTrue(f)
    BY <1>3, <2>1, <2>4 DEF CallTrue
  <2>6. Goto(c, f)
    BY <1>5, <2>1, <2>2 DEF Press
  <2>. QED  BY <1>2, <2>5, <2>6
<1>6. ASSUME NEW c \in Caller, Answered(c)
      PROVE  CallTrue(call'[d])
  <2>1. PICK g : call[c] = g /\ DOMAIN g = Fields
    BY CallIs DEF Typed
  <2>2. PICK R : R = Answer
    OBVIOUS
  <2>3. IsAnswer(R)
    <3>1. served \in Served /\ repaired \in BOOLEAN
      BY DEF Typed, FilesTyped
    <3>2. CASE repaired
      <4>1. R = {r \in served : r.block \notin Bad}
        BY <2>2, <3>2 DEF Answer
      <4>. QED  BY <3>1, <4>1 DEF IsAnswer
    <3>3. CASE ~repaired
      <4>1. R = served
        BY <2>2, <3>3 DEF Answer
      <4>. QED  BY <3>1, <4>1 DEF IsAnswer
    <3>. QED  BY <3>2, <3>3
  <2>4. PICK f : f = [g EXCEPT !.step = "records", !.got = R]
    OBVIOUS
  <2>5. f.step = "records" /\ f.got = R
    BY <2>1, <2>4 DEF Fields
  <2>6. CallTrue(f)
    BY <2>3, <2>5 DEF CallTrue
  <2>7. Goto(c, f) \/ Goto(c, NoCall)
    BY <1>6, <2>1, <2>2, <2>4 DEF Answered, End
  <2>. QED  BY <1>2, <1>3, <2>6, <2>7
<1>7. ASSUME NEW c \in Caller, ReadPool(c)
      PROVE  CallTrue(call'[d])
  <2>1. PICK g : call[c] = g /\ CallOK(g) /\ DOMAIN g = Fields
    BY CallIs DEF Typed
  <2>2. PICK p \in g.pools :
          Goto(c, [g EXCEPT !.step = "write pool", !.staking = {<<p, pools[p]>>}])
    BY <1>7, <2>1 DEF ReadPool
  <2>3. p \in Pool
    BY <1>7, <2>1 DEF ReadPool, At_, CallOK, PoolsIn
  <2>4. PICK entries : entries = pools[p]
    OBVIOUS
  <2>5. PoolTrue(p, entries)
    BY <2>3, <2>4 DEF PoolsTrue
  <2>6. PICK f : f = [g EXCEPT !.step = "write pool", !.staking = {<<p, entries>>}]
    OBVIOUS
  <2>7. f.staking = {<<p, entries>>} /\ f.got = g.got
    BY <2>1, <2>6 DEF Fields
  <2>8. ASSUME NEW s \in f.staking PROVE PoolTrue(s[1], s[2])
    <3>1. s = <<p, entries>>
      BY <2>7
    <3>2. s[1] = p /\ s[2] = entries
      BY <3>1
    <3>. QED  BY <2>5, <3>2
  <2>9. CallTrue(f)
    BY <2>1, <2>7, <2>8 DEF CallTrue, PoolsTrue
  <2>10. Goto(c, f)
    BY <2>2, <2>4, <2>6
  <2>. QED  BY <1>2, <2>9, <2>10
<1>8. CASE PageCloses
  BY <1>3, <1>8 DEF PageCloses
<1>9. CASE Index \/ Repair \/ Quote \/ Settle \/ SyncArrives \/ UNCHANGED vars
  BY <1>1, <1>9 DEF Index, Repair, Quote, Settle, SyncArrives, vars
<1>10. ASSUME NEW c \in Caller,
              \/ PressImport(c) \/ PressFetch(c) \/ WriteRecords(c) \/ Convert(c)
              \/ ReadNear(c) \/ ReadFt(c) \/ WriteNear(c) \/ WriteFt(c) \/ WritePool(c)
              \/ OpenSession(c) \/ HostAnswers(c) \/ HostCutsShort(c) \/ HostFails(c)
              \/ ReadItems(c) \/ WriteItems(c) \/ FetchBalances(c) \/ Check(c)
       PROVE  CallTrue(call'[d])
  BY <1>4, <1>5, <1>10, MostKeep
<1>. QED  BY <1>6, <1>7, <1>8, <1>9, <1>10 DEF Next

\* What is written to the file of a pool is true, from an import or a sync.
LEMMA FilesStayTrue ==
  ASSUME ServerIsTruthful, Typed, PoolsTrue, [Next]_vars,
         NEW q \in Pool
  PROVE  PoolTrue(q, pools'[q])
<1>1. PoolTrue(q, pools[q])
  BY DEF PoolsTrue
<1>2. ASSUME NEW c \in Caller, WritePool(c) PROVE PoolTrue(q, pools'[q])
  <2>1. PICK g : call[c] = g /\ CallOK(g) /\ CallTrue(g)
    BY CallIs DEF Typed, PoolsTrue
  <2>2. PICK s \in g.staking :
          pools' = [pools EXCEPT ![s[1]] = MergeStakingEntries(s[2], StakingEntries(g.got, s[1]))]
    BY <1>2, <2>1 DEF WritePool
  <2>3. g.step = "write pool"
    BY <1>2, <2>1 DEF WritePool, At_
  <2>4. PICK p, old : p = s[1] /\ old = s[2]
    OBVIOUS
  <2>5. p \in Pool
    BY <2>1, <2>2, <2>3, <2>4 DEF CallOK, PoolsIn
  <2>6. IsAnswer(g.got) /\ PoolTrue(p, old) /\ EntriesOK(old)
    BY <2>1, <2>2, <2>3, <2>4 DEF CallTrue, CallOK
  <2>7. PICK R : R = g.got
    OBVIOUS
  <2>8. PoolTrue(p, MergeStakingEntries(old, StakingEntries(R, p)))
    BY <2>5, <2>6, <2>7, MergedTrue
  <2>9. PICK E : E = MergeStakingEntries(old, StakingEntries(R, p))
    OBVIOUS
  <2>10. pools' = [pools EXCEPT ![p] = E]
    BY <2>2, <2>4, <2>7, <2>9
  <2>11. pools'[q] = IF q = p THEN E ELSE pools[q]
    BY <2>10 DEF Typed, FilesInOrder, FilesOK
  <2>. QED  BY <1>1, <2>8, <2>9, <2>11
<1>3. CASE SyncArrives
  <2>1. PICK R, h, m : Merges(R, h, m)
    BY <1>3, SyncFacts
  <2>2. R \in Served /\ R \in SUBSET History /\ IsAnswer(R)
    BY <2>1, HistoryAssumption DEF Merges, IsAnswer
  <2>3. PICK ours, new, theirs : /\ ours = pools[q] /\ new = StakingEntries(R, q)
                                 /\ theirs = RecomputeStakingEarnings(new)
    OBVIOUS
  <2>4. pools'[q] = MergePoolFiles(ours, theirs) \/ pools'[q] = MergePoolFiles(theirs, ours)
    BY <2>1, <2>3, MergesFacts
  <2>5. EntriesOK(ours) /\ PoolTrue(q, ours)
    BY <1>1, <2>3 DEF Typed, FilesInOrder, FilesOK
  <2>6. EntriesOK(new) /\ PoolTrue(q, new)
    BY <2>2, <2>3, NewEntriesFacts, NewTrue
  <2>7. EntriesOK(theirs) /\ PoolTrue(q, theirs)
    BY <2>3, <2>6, AllRecomputedFacts, AllRecomputedTrue
  <2>. QED  BY <2>4, <2>5, <2>7, SyncedTrue
<1>4. CASE UNCHANGED pools
  BY <1>1, <1>4
<1>5. ASSUME NEW c \in Caller,
             \/ PressImport(c) \/ PressFetch(c) \/ Answered(c) \/ WriteRecords(c) \/ Convert(c)
             \/ ReadNear(c) \/ ReadFt(c) \/ WriteNear(c) \/ WriteFt(c) \/ ReadPool(c)
             \/ OpenSession(c) \/ HostAnswers(c) \/ HostCutsShort(c) \/ HostFails(c)
             \/ ReadItems(c) \/ WriteItems(c) \/ FetchBalances(c) \/ Check(c)
      PROVE  UNCHANGED pools
  BY <1>5 DEF PressImport, PressFetch, Press, Answered, WriteRecords, Convert, ReadNear, ReadFt,
     WriteNear, WriteFt, ReadPool, OpenSession, HostAnswers, HostCutsShort, HostFails, ReadItems,
     WriteItems, FetchBalances, Check, files
<1>6. CASE Index \/ Repair \/ Quote \/ Settle \/ PageCloses \/ UNCHANGED vars
  BY <1>4, <1>6 DEF Index, Repair, Quote, Settle, PageCloses, vars, files
<1>. QED  BY <1>2, <1>3, <1>4, <1>5, <1>6 DEF Next

\* So the files are true at all times.
LEMMA AlwaysTrue ==
  ASSUME ServerIsTruthful
  PROVE  Spec => [](Typed /\ PoolsTrue)
<1>1. Init => Typed /\ PoolsTrue
  <2>. SUFFICES ASSUME Init PROVE Typed /\ PoolsTrue
    OBVIOUS
  <2>1. CallTrue(NoCall)
    BY NoCallTrue DEF CallTrue
  <2>2. \A p \in Pool : PoolTrue(p, pools[p])
    BY NoEntriesTrue DEF Init
  <2>3. \A c \in Caller : CallTrue(call[c])
    BY <2>1 DEF Init
  <2>. QED  BY <2>2, <2>3, InitTyped DEF PoolsTrue
<1>2. Typed /\ PoolsTrue /\ [Next]_vars => Typed' /\ PoolsTrue'
  <2>. SUFFICES ASSUME Typed, PoolsTrue, [Next]_vars
                PROVE  Typed' /\ PoolsTrue'
    OBVIOUS
  <2>1. Typed'
    BY TypedStays
  <2>. QED  BY <2>1, CallsStayTrue, FilesStayTrue DEF PoolsTrue
<1>. QED  BY <1>1, <1>2, PTL DEF Spec

---------------------------------------------------------------------------
(* What the earnings come to. *)

\* What the account moved unseen is no less than nothing, and between an entry and another at
\* least what it moved by the last real sample before that, when this was split off.
LEMMA UnseenFacts ==
  ASSUME ServerIsTruthful, NEW p \in Pool, NEW b \in RealBlocks(p), NEW c
  PROVE  /\ Unseen(p, b, c) \in Nat
         /\ \A k \in Split[p] : /\ b < k /\ k < c
                                /\ \A d \in RealBlocks(p) : d < c => d <= k
                                => Unseen(p, b, c) >= Principal[p][k] - Principal[p][b]
<1>. DEFINE S == {d \in Split[p] : b < d /\ d < c}
<1>1. Split[p] \subseteq RealBlocks(p) /\ RealBlocks(p) \subseteq BlocksOf(History)
  BY DEF Split, RealBlocks, BlocksOf, Of
<1>2. \A d \in RealBlocks(p) : Principal[p][d] \in Int /\ d \in Nat
  BY <1>1, HistoryAssumption DEF ServerIsTruthful, BlocksOf
<1>3. PICK u : u = Unseen(p, b, c)
  OBVIOUS
<1>4. CASE S = {}
  <2>1. u = 0
    BY <1>3, <1>4 DEF Unseen
  <2>2. \A k \in Split[p] : ~(b < k /\ k < c)
    BY <1>4
  <2>. QED  BY <1>3, <2>1, <2>2
<1>5. CASE S # {}
  <2>1. S \subseteq BlocksOf(History)
    BY <1>1
  <2>2. Max(S) \in S /\ \A d \in S : Max(S) >= d
    <3>. HIDE DEF S
    <3>. QED  BY <1>5, <2>1, BlocksFacts
  <2>3. PICK m \in S : m = Max(S)
    BY <2>2
  <2>4. u = Positive(Principal[p][m] - Principal[p][b])
    BY <1>3, <1>5, <2>3 DEF Unseen
  <2>5. PICK x, y : x = Principal[p][m] /\ y = Principal[p][b]
    OBVIOUS
  <2>6. x \in Int /\ y \in Int /\ m \in Nat /\ m \in RealBlocks(p) /\ m < c
    BY <1>1, <1>2, <2>5
  <2>7. u \in Nat /\ u >= x - y
    BY <2>4, <2>5, <2>6 DEF Positive
  <2>8. ASSUME NEW k \in Split[p], b < k, k < c, \A d \in RealBlocks(p) : d < c => d <= k
        PROVE  k = m
    <3>1. k \in S /\ k \in Nat
      BY <1>1, <1>2, <2>8
    <3>2. k <= m /\ m <= k
      BY <2>2, <2>3, <2>6, <2>8, <3>1
    <3>. QED  BY <2>6, <3>1, <3>2
  <2>. QED  BY <1>3, <2>5, <2>7, <2>8
<1>. QED  BY <1>4, <1>5

\* There is a last real sample before a block with one before it.
LEMMA LastReal ==
  ASSUME NEW p, NEW b, NEW c \in RealBlocks(p), c < b
  PROVE  \E k \in RealBlocks(p) : k < b /\ \A l \in RealBlocks(p) : l < b => l <= k
<1>. DEFINE B == {l \in RealBlocks(p) : l < b}
<1>1. B \subseteq BlocksOf(History) /\ B # {}
  BY DEF RealBlocks, BlocksOf, Of
<1>2. B \subseteq Nat /\ Max(B) \in B /\ \A l \in B : Max(B) >= l
  <2>. HIDE DEF B
  <2>. QED  BY <1>1, BlocksFacts
<1>3. PICK k \in B : k = Max(B)
  BY <1>2
<1>4. \A l \in B : l <= k
  BY <1>2, <1>3
<1>. QED  BY <1>3, <1>4

\* What is worked out for an entry: nothing for the opening one, and for another at most
\* what the pool has paid since the entry before it, and what went unseen between them.
LEMMA EarningsBounded ==
  ASSUME ServerIsTruthful, NEW p \in Pool, NEW E, EntriesOK(E), EntryOnce(E),
         PoolTrue(p, E), BlocksOf(E) \cap Bad = {}, NEW e \in E
  PROVE  /\ IsOpening(E, e) => Recomputed(E, e).earnings = 0
         /\ \A f \in E : IsBefore(E, f, e) =>
              \/ /\ f.block < e.block
                 /\ Recomputed(E, e).earnings <= Reward[p][e.block] - Reward[p][f.block]
                                                   + Unseen(p, f.block, e.block)
              \/ /\ f.block = e.block
                 /\ Recomputed(E, e).earnings <= Recomputed(E, e).withdrawal
<1>1. \A x \in E : /\ DOMAIN x = EntryFields /\ x.block \in RealBlocks(p) /\ x.block \in Nat
                   /\ x.place \in Nat
                   /\ x.balance = Principal[p][x.block] + Reward[p][x.block]
                   /\ Reward[p][x.block] \in Int /\ Principal[p][x.block] \in Int
  <2>. SUFFICES ASSUME NEW x \in E
                PROVE  /\ DOMAIN x = EntryFields /\ x.block \in RealBlocks(p) /\ x.block \in Nat
                       /\ x.place \in Nat
                       /\ x.balance = Principal[p][x.block] + Reward[p][x.block]
                       /\ Reward[p][x.block] \in Int /\ Principal[p][x.block] \in Int
    OBVIOUS
  <2>1. EntryTrue(p, x) /\ x.block \notin Bad /\ x.place \in Nat
    BY DEF PoolTrue, BlocksOf, EntriesOK, HasBlock
  <2>2. x.block \in RealBlocks(p)
    BY <2>1 DEF EntryTrue, RealBlocks
  <2>3. x.block \in Nat
    BY <2>1, HistoryAssumption DEF EntryTrue, BlocksOf, Of
  <2>. QED  BY <2>1, <2>2, <2>3 DEF EntryTrue, ServerIsTruthful
<1>2. PICK x : x = Recomputed(E, e)
  OBVIOUS
<1>3. CASE IsOpening(E, e)
  <2>1. \E n : x = [e EXCEPT !.deposit = n, !.earnings = 0]
    BY <1>2, <1>3 DEF Recomputed
  <2>2. PICK n : x = [e EXCEPT !.deposit = n, !.earnings = 0]
    BY <2>1
  <2>3. x.earnings = 0
    BY <1>1, <2>2 DEF EntryFields
  <2>4. \A f \in E : ~IsBefore(E, f, e)
    BY <1>3 DEF IsOpening, IsBefore
  <2>. QED  BY <1>2, <2>3, <2>4
<1>4. ASSUME NEW f \in E, IsBefore(E, f, e)
      PROVE  \/ /\ f.block < e.block
                /\ x.earnings <= Reward[p][e.block] - Reward[p][f.block]
                                  + Unseen(p, f.block, e.block)
             \/ f.block = e.block /\ x.earnings <= x.withdrawal
  <2>1. ~IsOpening(E, e)
    BY <1>4 DEF IsOpening, IsBefore
  <2>2. \A h \in E : IsBefore(E, h, e) => h = f
    <3>. SUFFICES ASSUME NEW h \in E, IsBefore(E, h, e) PROVE h = f
      OBVIOUS
    <3>1. ~Precedes(f, h) /\ ~Precedes(h, f)
      BY <1>4 DEF IsBefore
    <3>2. f.block \in Nat /\ h.block \in Nat /\ f.place \in Nat /\ h.place \in Nat
      BY <1>1
    <3>3. h.block = f.block /\ h.place = f.place
      BY <3>1, <3>2 DEF Precedes
    <3>. QED  BY <3>3 DEF EntryOnce
  <2>3. (CHOOSE h \in E : IsBefore(E, h, e)) = f
    BY <1>4, <2>2
  <2>4. PICK gain, b, c, d, w : /\ gain = GainOf(E, e) /\ b = e.block /\ c = f.block
                                /\ d = e.deposit /\ w = e.withdrawal
    OBVIOUS
  <2>5. gain = e.balance - f.balance
    BY <2>3, <2>4 DEF GainOf
  <2>6. PICK pb, pc, vb, vc : /\ pb = Principal[p][b] /\ pc = Principal[p][c]
                              /\ vb = Reward[p][b] /\ vc = Reward[p][c]
    OBVIOUS
  <2>7. /\ pb \in Int /\ pc \in Int /\ vb \in Int /\ vc \in Int
        /\ b \in RealBlocks(p) /\ c \in RealBlocks(p) /\ b \in Nat /\ c \in Nat
        /\ gain = (pb + vb) - (pc + vc)
    BY <1>1, <2>4, <2>5, <2>6
  <2>8. e.tx = NoTx =>
          /\ d \in Nat /\ w \in Nat
          /\ \A k \in RealBlocks(p) : k < b /\ (\A l \in RealBlocks(p) : l < b => l <= k) =>
               pb - Principal[p][k] <= d - w
    <3>. SUFFICES ASSUME e.tx = NoTx
                  PROVE  /\ d \in Nat /\ w \in Nat
                         /\ \A k \in RealBlocks(p) :
                              k < b /\ (\A l \in RealBlocks(p) : l < b => l <= k) =>
                                pb - Principal[p][k] <= d - w
      OBVIOUS
    <3>1. PICK R \in Served : /\ b \in BlocksOf(Of(R, p)) /\ TxAt(R, b) = NoTx
                              /\ d = SentTo(R, p, b, -1) /\ w = SentTo(R, p, b, 1)
      <4>1. EntryTrue(p, e) /\ e.block \notin Bad
        BY DEF PoolTrue, BlocksOf
      <4>. QED  BY <2>4, <4>1 DEF EntryTrue
    <3>2. d \in Nat /\ w \in Nat
      <4>1. R \in SUBSET History /\ \A r \in History : r.amount \in Int
        BY HistoryAssumption DEF ServerIsTruthful
      <4>2. SentTo(R, p, b, -1) \in Nat /\ SentTo(R, p, b, 1) \in Nat
        BY <4>1, SentToFacts
      <4>. QED  BY <3>1, <4>2
    <3>3. ASSUME NEW k \in RealBlocks(p), k < b, \A l \in RealBlocks(p) : l < b => l <= k
          PROVE  pb - Principal[p][k] <= d - w
      <4>1. b \in RealBlocks(p) \cap BlocksOf(Of(R, p))
        BY <2>7, <3>1
      <4>2. Principal[p][b] - Principal[p][k] <= SentTo(R, p, b, -1) - SentTo(R, p, b, 1)
        BY <3>1, <3>3, <4>1 DEF ServerIsTruthful
      <4>. QED  BY <2>6, <3>1, <4>2
    <3>. QED  BY <3>2, <3>3
  <2>9. \/ e.tx # NoTx /\ x.earnings = 0 /\ x.withdrawal = Positive(-gain)
        \/ e.tx = NoTx /\ d + w > 0 /\ x.earnings = Positive(gain - d + w) /\ x.withdrawal = w
        \/ e.tx = NoTx /\ ~(d + w > 0) /\ x.earnings = Positive(gain) /\ x.withdrawal = 0
    <3>1. CASE e.tx # NoTx
      <4>1. PICK m, n : m = Positive(gain) /\ n = Positive(-gain)
        OBVIOUS
      <4>2. x = [e EXCEPT !.deposit = m, !.withdrawal = n, !.earnings = 0]
        BY <1>2, <2>1, <2>4, <3>1, <4>1 DEF Recomputed
      <4>3. x.earnings = 0 /\ x.withdrawal = n
        BY <1>1, <4>2 DEF EntryFields
      <4>. QED  BY <3>1, <4>1, <4>3
    <3>2. CASE e.tx = NoTx /\ d + w > 0
      <4>1. PICK n : n = Positive(gain - d + w)
        OBVIOUS
      <4>2. x = [e EXCEPT !.earnings = n]
        BY <1>2, <2>1, <2>4, <3>2, <4>1 DEF Recomputed
      <4>3. x.earnings = n /\ x.withdrawal = w
        BY <1>1, <2>4, <4>2 DEF EntryFields
      <4>. QED  BY <3>2, <4>1, <4>3
    <3>3. CASE e.tx = NoTx /\ ~(d + w > 0)
      <4>1. PICK n : n = Positive(gain)
        OBVIOUS
      <4>2. x = [e EXCEPT !.deposit = 0, !.withdrawal = 0, !.earnings = n]
        BY <1>2, <2>1, <2>4, <3>3, <4>1 DEF Recomputed
      <4>3. x.earnings = n /\ x.withdrawal = 0
        BY <1>1, <4>2 DEF EntryFields
      <4>. QED  BY <3>3, <4>1, <4>3
    <3>. QED  BY <3>1, <3>2, <3>3
  <2>10. CASE c < b
    <3>1. PICK u : u = Unseen(p, c, b)
      OBVIOUS
    <3>2. u \in Nat
      BY <2>7, <3>1, UnseenFacts
    <3>3. vc <= vb
      BY <2>6, <2>7, <2>10 DEF ServerIsTruthful
    <3>4. e.tx = NoTx => pb - pc <= d - w + u
      <4>. SUFFICES ASSUME e.tx = NoTx PROVE pb - pc <= d - w + u
        OBVIOUS
      <4>1. PICK k \in RealBlocks(p) : k < b /\ \A l \in RealBlocks(p) : l < b => l <= k
        BY <2>7, <2>10, LastReal
      <4>2. c <= k /\ k \in Nat
        BY <2>7, <2>10, <4>1, HistoryAssumption DEF RealBlocks, BlocksOf, Of
      <4>3. PICK pk : pk = Principal[p][k]
        OBVIOUS
      <4>4. pk \in Int /\ pb - pk <= d - w /\ d \in Nat /\ w \in Nat
        BY <2>8, <4>1, <4>3 DEF ServerIsTruthful
      <4>5. CASE k = c
        BY <2>6, <2>7, <3>2, <4>3, <4>4, <4>5
      <4>6. CASE k # c
        <5>1. c < k
          BY <2>7, <4>2, <4>6
        <5>2. k \notin BlocksOf(E)
          <6>. SUFFICES ASSUME NEW g \in E, g.block = k PROVE FALSE
            BY DEF BlocksOf
          <6>1. Precedes(g, e) /\ Precedes(f, g)
            BY <2>4, <4>1, <5>1 DEF Precedes
          <6>. QED  BY <1>4, <6>1 DEF IsBefore
        <5>3. k \in Split[p]
          <6>1. k <= e.block
            BY <2>4, <2>7, <4>1, <4>2
          <6>. QED  BY <5>2, <6>1 DEF PoolTrue
        <5>4. u >= pk - pc
          BY <2>6, <2>7, <3>1, <4>1, <4>3, <5>1, <5>3, UnseenFacts
        <5>. QED  BY <2>7, <3>2, <4>4, <5>4
      <4>. QED  BY <4>5, <4>6
    <3>5. x.earnings <= vb - vc + u
      <4>1. CASE e.tx # NoTx
        <5>1. x.earnings = 0
          BY <2>9, <4>1
        <5>. QED  BY <2>7, <3>2, <3>3, <5>1
      <4>2. CASE e.tx = NoTx /\ d + w > 0 /\ x.earnings = Positive(gain - d + w)
        <5>1. pb - pc <= d - w + u /\ d \in Nat /\ w \in Nat
          BY <2>8, <3>4, <4>2
        <5>. QED  BY <2>7, <3>2, <3>3, <4>2, <5>1 DEF Positive
      <4>3. CASE e.tx = NoTx /\ ~(d + w > 0) /\ x.earnings = Positive(gain)
        <5>1. pb - pc <= d - w + u /\ d \in Nat /\ w \in Nat
          BY <2>8, <3>4, <4>3
        <5>. QED  BY <2>7, <3>2, <3>3, <4>3, <5>1 DEF Positive
      <4>. QED  BY <2>9, <4>1, <4>2, <4>3
    <3>. QED  BY <2>4, <2>6, <2>10, <3>1, <3>5
  <2>11. CASE ~(c < b)
    <3>1. c = b
      BY <1>4, <2>4, <2>11 DEF IsBefore, Precedes
    <3>2. gain = 0
      BY <2>6, <2>7, <3>1
    <3>3. x.earnings <= x.withdrawal
      <4>1. CASE e.tx # NoTx
        <5>1. x.earnings = 0 /\ x.withdrawal = Positive(-gain)
          BY <2>9, <4>1
        <5>. QED  BY <3>2, <5>1 DEF Positive
      <4>2. CASE e.tx = NoTx /\ d + w > 0 /\ x.earnings = Positive(gain - d + w) /\ x.withdrawal = w
        <5>1. d \in Nat /\ w \in Nat
          BY <2>8, <4>2
        <5>. QED  BY <3>2, <4>2, <5>1 DEF Positive
      <4>3. CASE x.earnings = Positive(gain) /\ x.withdrawal = 0
        BY <3>2, <4>3 DEF Positive
      <4>. QED  BY <2>9, <4>1, <4>2, <4>3
    <3>. QED  BY <2>4, <3>1, <3>3
  <2>. QED  BY <2>10, <2>11
<1>. QED  BY <1>2, <1>3, <1>4

\* Principal is never booked as reward, for every history of a server that says what is: the
\* earnings worked out for a stored entry are at most what the pool has paid since the entry
\* before it, and what the conversion and a sync leave unseen, once the bad samples are gone,
\* whatever imports and syncs wrote the entries in which order.
THEOREM PrincipalIsNoReward ==
  ASSUME ServerIsTruthful
  PROVE  Spec => []EarningsAreRewards
<1>1. Typed /\ PoolsTrue => EarningsAreRewards
  <2>. SUFFICES ASSUME Typed, PoolsTrue, NEW p \in Pool, BlocksOf(pools[p]) \cap Bad = {},
                       NEW e \in pools[p]
                PROVE  LET x == Recomputed(pools[p], e) IN
                       /\ IsOpening(pools[p], e) => x.earnings = 0
                       /\ \A f \in pools[p] : IsBefore(pools[p], f, e) =>
                            \/ /\ f.block < e.block
                               /\ x.earnings <= Reward[p][e.block] - Reward[p][f.block]
                                                 + Unseen(p, f.block, e.block)
                            \/ f.block = e.block /\ x.earnings <= x.withdrawal
    BY DEF EarningsAreRewards
  <2>1. PICK E : E = pools[p]
    OBVIOUS
  <2>2. EntriesOK(E) /\ EntryOnce(E) /\ PoolTrue(p, E)
    BY <2>1 DEF Typed, FilesTyped, FilesInOrder, FilesOK, PoolsTrue
  <2>. QED  BY <2>1, <2>2, EarningsBounded
<1>. QED  BY <1>1, AlwaysTrue, PTL
=============================================================================

--------------------------- MODULE AccountExport ---------------------------
(***************************************************************************)
(* The conversion of near/accounting-export.js: from the balance changes    *)
(* that the accounting server reports to the rows of an account's files,    *)
(* and the merges of these rows with those that are stored.                 *)
(*                                                                         *)
(* An answer is a set of records; nth is the place of a record in it, once  *)
(* its blocks are sorted, as the conversion begins by doing.  The answer    *)
(* has the V2 format.  Amounts are integers.                                *)
(***************************************************************************)
EXTENDS Integers, FiniteSetsExt

CONSTANTS
  Near,      \* the token id "near"
  Pool,      \* token ids of staking pools
  NoTx       \* null: a sample without a transaction

At(R, b) == {r \in R : r.block = b}
Of(R, t) == {r \in R : r.token = t}
FirstOf(S) == CHOOSE r \in S : \A s \in S : r.nth <= s.nth
LastOf(S) == CHOOSE r \in S : \A s \in S : r.nth >= s.nth
BlocksOf(S) == {e.block : e \in S}

---------------------------------------------------------------------------
(* The rows of an answer. *)

\* The first transaction of a block.
TxAt(R, b) ==
  LET S == {r \in At(R, b) : r.tx # NoTx}
  IN  IF S = {} THEN NoTx ELSE FirstOf(S).tx

\* A row is known by it, or by the block.
HashAt(R, b) == <<TxAt(R, b), IF TxAt(R, b) = NoTx THEN b ELSE 0>>

\* "Always update the balance to use the latest block's".
LastBlockOf(R, h) == Max({b \in BlocksOf(Of(R, Near)) : HashAt(R, b) = h})

\* One row for the receipts of a transaction, at the first of their blocks.
NearRow(R, b) ==
  [hash |-> HashAt(R, b),
   block |-> b,
   change |-> MapThenSumSet(LAMBDA r : r.amount, At(Of(R, Near), b)),
   balance |-> LastOf(At(Of(R, Near), LastBlockOf(R, HashAt(R, b)))).after]

NearRows(R) ==
  {NearRow(R, b) : b \in {c \in BlocksOf(Of(R, Near)) :
     \A d \in BlocksOf(Of(R, Near)) : d < c => HashAt(R, d) # HashAt(R, c)}}

\* "The API returns sparse balances": the one after the last record of the token so far.
RunningBalance(R, t, b) == LastOf({r \in Of(R, t) : r.block <= b}).after

FtRow(R, r) ==
  [hash |-> HashAt(R, r.block), token |-> r.token, block |-> r.block, nth |-> r.nth,
   delta |-> r.amount, balance |-> RunningBalance(R, r.token, r.block)]

FtRows(R) == {FtRow(R, r) : r \in {r \in R : r.token \notin {Near} \cup Pool}}

\* What the account sent a pool in a block (-1), or got back from it (1): what came is no
\* withdrawal when its memo says that it is a reward.
SentTo(R, p, b, sign) ==
  LET Moves(r) == /\ r.token # p /\ r.peer = p /\ sign * r.amount > 0
                  /\ sign = 1 => r.memo # "staking_reward"
  IN  MapThenSumSet(LAMBDA r : sign * r.amount, {r \in At(R, b) : Moves(r)})

\* One entry for every block with a balance of the pool, one for a transaction: what comes
\* later of the same transaction is skipped.  Its place is that among the entries of its
\* block in the file, which has no other unless a sync brings one.
StakingEntry(R, p, b) ==
  [block |-> b, place |-> 0, tx |-> TxAt(R, b), balance |-> LastOf(At(Of(R, p), b)).after,
   deposit |-> SentTo(R, p, b, -1), withdrawal |-> SentTo(R, p, b, 1), earnings |-> 0]

StakingEntries(R, p) ==
  {StakingEntry(R, p, b) : b \in {c \in BlocksOf(Of(R, p)) :
     \A d \in BlocksOf(Of(R, p)) : d < c => TxAt(R, c) = NoTx \/ TxAt(R, d) # TxAt(R, c)}}

---------------------------------------------------------------------------
(* The merges with what is stored. *)

\* mergeTransactions(): a new row takes the place of the one with its hash.
MergeTransactions(old, new) ==
  {r \in old : \A s \in new : s.hash # r.hash} \cup new

SameKey(r, s) == r.hash = s.hash /\ r.token = s.token

\* The row of its key with the highest block; the first one in that block.
Best(new, r) ==
  \A s \in new : SameKey(r, s) => \/ s.block < r.block
                                  \/ s.block = r.block /\ s.nth >= r.nth

\* mergeFungibleTokenTransactions(): a stored row gives way to a higher block only.
MergeFtTransactions(old, new) ==
  LET best == {r \in new : Best(new, r)} IN
  {r \in old : \A s \in best : SameKey(r, s) => s.block <= r.block}
    \cup {r \in best : \A s \in old : SameKey(r, s) => r.block > s.block}

\* The sort by block is stable.
Precedes(e, f) == e.block < f.block \/ (e.block = f.block /\ e.place < f.place)

\* The last entry before another.
IsBefore(E, f, e) == Precedes(f, e) /\ \A g \in E : Precedes(g, e) => ~Precedes(f, g)

IsOpening(E, e) == \A f \in E : ~Precedes(f, e)

\* The new balance of a pool, less what was there before.
GainOf(E, e) == e.balance - (CHOOSE f \in E : IsBefore(E, f, e)).balance

Positive(n) == IF n > 0 THEN n ELSE 0

\* Variant for the mutation checks: a recorded deposit is trusted, not the balance.
RecomputedFromRecord(E, e) ==
  IF IsOpening(E, e)
  THEN [e EXCEPT !.earnings = 0]
  ELSE [e EXCEPT !.earnings = Positive(GainOf(E, e) - e.deposit + e.withdrawal)]

\* recomputeStakingEarnings(), of one entry of E: the opening baseline, a transaction, a
\* move without one, a plain sample.
Recomputed(E, e) ==
  LET opening == IsOpening(E, e)
      gain == GainOf(E, e)
  IN
  CASE opening ->
         [e EXCEPT !.deposit = IF @ = 0 /\ e.tx # NoTx THEN e.balance ELSE @, !.earnings = 0]
    [] ~opening /\ e.tx # NoTx ->
         [e EXCEPT !.deposit = Positive(gain), !.withdrawal = Positive(-gain), !.earnings = 0]
    [] ~opening /\ e.tx = NoTx /\ e.deposit + e.withdrawal > 0 ->
         [e EXCEPT !.earnings = Positive(gain - e.deposit + e.withdrawal)]
    [] OTHER ->
         [e EXCEPT !.deposit = 0, !.withdrawal = 0, !.earnings = Positive(gain)]

RecomputeStakingEarnings(E) == {Recomputed(E, e) : e \in E}

\* "The server is the authority for the blocks it covers."
Covered(new, b) == new # {} /\ Min(BlocksOf(new)) <= b /\ b <= Max(BlocksOf(new))

\* Variant for the mutation checks: only the same block gives way.
OutsideOfBlocks(old, new) == {e \in old : e.block \notin BlocksOf(new)}

\* The stored entries that are kept.
Outside(old, new) == {e \in old : ~Covered(new, e.block)}

\* entriesByBlock: the last one of a block.
LastPerBlock(E) ==
  {[e EXCEPT !.place = 0] : e \in {e \in E : \A f \in E : f.block = e.block => f.place <= e.place}}

\* mergeStakingEntries()
MergeStakingEntries(old, new) == RecomputeStakingEarnings(LastPerBlock(Outside(old, new)) \cup new)

---------------------------------------------------------------------------
(* The merges of a sync, storage/jsonmerge.js: ours and theirs of a file.  What identifies *)
(* an entry is of the file; of an entry that both have, theirs is kept. *)

\* fungible_token_transactions.json
MergeFtFiles(ours, theirs) == {r \in ours : \A s \in theirs : ~SameKey(r, s)} \cup theirs

\* stakingpools/*.json: the block and the hash.
SameEntry(e, f) == e.block = f.block /\ e.tx = f.tx

\* An entry that both have stays where it was, another comes after ours of its block.
PlaceAmong(ours, f) ==
  LET same == {e \in ours : SameEntry(e, f)}
      block == {e \in ours : e.block = f.block}
  IN  CASE same # {} -> (CHOOSE e \in same : TRUE).place
        [] same = {} /\ block # {} -> Max({e.place : e \in block}) + 1 + f.place
        [] OTHER -> f.place

\* Variant for the mutation checks: an append, as of lines of text.
AppendPoolFiles(ours, theirs) == ours \cup theirs

MergePoolFiles(ours, theirs) ==
  {e \in ours : \A f \in theirs : ~SameEntry(e, f)}
    \cup {[f EXCEPT !.place = PlaceAmong(ours, f)] : f \in theirs}
=============================================================================

--------------------------- MODULE MCAccountFiles ---------------------------
(* Instances of AccountFiles for TLC. *)
EXTENDS AccountFiles, TLC

CONSTANTS c1, c2, near_, pool, usdc, eth, a, b, d, e, None

Rec(block, nth, tx, token, peer, amount, after) ==
  [block |-> block, nth |-> nth, tx |-> tx, token |-> token, peer |-> peer,
   amount |-> amount, after |-> after, memo |-> "none"]

\* A deposit into a pool whose receipts span two blocks, rewards, a sample of a move the
\* pool never made, a reward paid out, a token that moves twice in one transaction, a second
\* deposit that the pool shows in two blocks, a reward and a withdrawal in a block that has a
\* transaction once the server knows all of it, and another withdrawal.
First3 ==
  {Rec(1, 1, a, near_, pool, -4, 6), Rec(1, 2, a, usdc, None, 3, 3),
   Rec(2, 3, a, pool, None, 4, 4)}
Then6 ==
  {Rec(2, 4, a, near_, None, -1, 5), Rec(3, 5, NoTx, pool, None, 1, 5),
   Rec(4, 6, NoTx, pool, None, 3, 8), Rec(5, 7, NoTx, pool, None, -2, 6),
   [Rec(5, 8, NoTx, near_, pool, 1, 6) EXCEPT !.memo = "staking_reward"],
   Rec(6, 9, b, usdc, None, 2, 5)}
Then5 ==
  {Rec(7, 10, b, usdc, None, -1, 4), Rec(7, 11, b, pool, None, 2, 8),
   Rec(8, 12, b, pool, None, 1, 9), Rec(9, 13, NoTx, near_, pool, 1, 7),
   Rec(9, 14, NoTx, pool, None, 1, 10)}
Last3 ==
  {Rec(9, 15, e, usdc, None, 1, 5), Rec(10, 16, d, pool, None, -5, 5),
   Rec(10, 17, d, near_, pool, 5, 12)}

ServerHistory == First3 \cup Then6 \cup Then5 \cup Last3
ServerAnswers ==
  {{}, First3, First3 \cup Then6, First3 \cup Then6 \cup Then5, ServerHistory}
PaidBy == [p \in {pool} |-> <<0, 0, 1, 1, 2, 2, 2, 2, 4, 4>>]
Staked == [p \in {pool} |-> <<0, 4, 4, 4, 4, 4, 6, 7, 6, 1>>]

\* A shielding, a swap, an unshielding and a credit without an origin.
LegsOf ==
  << {[asset |-> eth, amount |-> 2]},
     {[asset |-> eth, amount |-> -2], [asset |-> usdc, amount |-> 3]},
     {[asset |-> usdc, amount |-> -1]},
     {[asset |-> usdc, amount |-> 1]} >>

Budget(import, fetch, answer, sync, quote, cut) ==
  [import |-> import, fetch |-> fetch, answer |-> answer, sync |-> sync, quote |-> quote,
   cut |-> cut]

\* Imports that overlap and are tried again; with a sync; imports of more answers with a
\* sync; an import and a fetch; fetches that overlap, or are cut short; a fetch and a sync.
SomeBudgets ==
  {Budget(2, 0, 3, 0, 0, 0), Budget(2, 0, 1, 1, 0, 0), Budget(1, 0, 3, 1, 0, 0),
   Budget(1, 1, 1, 0, 2, 0),
   Budget(0, 2, 0, 0, 3, 0), Budget(0, 2, 0, 0, 2, 1), Budget(0, 1, 0, 0, 3, 1),
   Budget(0, 1, 0, 1, 2, 0)}

\* Of this history the earnings are bounded (PrincipalIsNoReward), and a sample is skipped.
ASSUME HistoryIsTruthful == ServerIsTruthful /\ Split[pool] = {8}

Symmetry == Permutations(Caller)
=============================================================================

------------------------------ MODULE MCBooks ------------------------------
(* Instances of YearReport and Portfolio for TLC. *)
EXTENDS Portfolio, TLC

CONSTANTS a1, a2, near_, usdc, eth, meme, cusdc, ceth,
          employer, lender, host, pool, dex, friend, relative, gateway, solver

AccountOrder == <<a1, a2>>
Tokens == <<near_, usdc, eth, meme, cusdc, ceth>>
BucketOf == (near_ :> "native") @@ (meme :> "native") @@ (usdc :> "intents") @@ (eth :> "intents")
            @@ (cusdc :> "confidential") @@ (ceth :> "confidential")
AssetOf == (near_ :> near_) @@ (meme :> meme) @@ (usdc :> usdc) @@ (eth :> eth)
           @@ (cusdc :> usdc) @@ (ceth :> eth)

\* NEAR for gas costs less than a hundredth of what is traded; ETH rises and falls; MEME
\* has a price only on the last day, and then ETH is too cheap to have bought it.
Closing(eth_, meme_) ==
  (near_ :> 12) @@ (usdc :> 1200) @@ (cusdc :> 1200) @@ (eth :> eth_) @@ (ceth :> eth_) @@ (meme :> meme_)
Prices == <<Closing(2400, 0), Closing(3000, 0), Closing(2400, 3600)>>

Move(account, token, amount, peer) ==
  [account |-> account, token |-> token, amount |-> amount, peer |-> peer, part |-> "a", after |-> 0]
Later(move) == [move EXCEPT !.part = "b", !.after = 3]
Deed(edge, moves) == [moves |-> moves, edge |-> edge, reward |-> 0, usd |-> 0]

Buy == Deed("crosses", {Move(a1, usdc, 2, friend)})
Salary == Deed("crosses", {Move(a1, near_, 2, employer)})
SwapToEth == Deed("either", {Move(a1, usdc, -2, dex), Move(a1, near_, -1, dex), Move(a1, eth, 1, dex)})
SwapFree == Deed("either", {Move(a1, usdc, -2, dex), Move(a1, eth, 1, dex)})
SwapToMeme == Deed("either", {Move(a1, eth, -1, dex), Move(a1, meme, 1, dex)})
ToOther == Deed("either", {Move(a1, eth, -1, a2), Move(a2, eth, 1, a1)})
Interest == Deed("crosses", {Move(a1, usdc, 1, lender)})
Sell == Deed("crosses", {Move(a1, usdc, -1, friend)})
Rent == Deed("crosses", {Move(a1, near_, -1, host)})
Stake == Deed("either", {Move(a1, near_, -1, pool)})
Unstake == [Deed("either", {Move(a1, near_, 2, pool)}) EXCEPT !.reward = 1]
SendNear == Deed("crosses", {Move(a1, near_, -2, friend)})
ShieldEth == Deed("inside", {Move(a2, eth, -1, Address), Move(a2, ceth, 1, gateway)})
SwapShielded == [Deed("either", {Move(a2, ceth, -1, gateway), Move(a2, cusdc, 3, gateway)}) EXCEPT !.usd = 3000]

\* Of four USDC: shielded for a fee, brought back, traded in two transactions, sent to an
\* exchange through the gateway; a friend's gift and a payment to her.
BuyMore == Deed("crosses", {Move(a1, usdc, 4, friend)})
Shield == Deed("inside", {Move(a1, usdc, -3, Address), Move(a1, cusdc, 2, gateway)})
Unshield == Deed("inside", {Move(a1, cusdc, -2, gateway), Later(Move(a1, usdc, 2, gateway))})
Trade == Deed("inside", {Move(a1, usdc, -2, gateway), Later(Move(a1, eth, 1, Nobody))})
ToExchange == Deed("crosses", {Move(a1, usdc, -1, gateway)})
Gift == Deed("crosses", {Move(a1, eth, 1, friend)})
Payment == Deed("crosses", {Move(a1, usdc, -2, friend)})
Lot == Deed("either", {Move(a1, cusdc, -1, gateway)})
Purchase == Deed("either", {Move(a1, eth, 1, Nobody)})
ToExchangeMore == Deed("crosses", {Move(a1, usdc, -2, gateway)})
ToRelative == Deed("crosses", {Move(a1, usdc, -2, relative)})
FromRelative == Deed("crosses", {Move(a1, eth, 1, relative)})
ToSolver == Deed("either", {Move(a1, usdc, -1, solver)})

\* A deed, then any of others.
After(first, others, n) == [k \in 1 .. n |-> IF k = 1 THEN {first} ELSE others]

Scenarios == {
  <<{Buy}, {SwapFree}, {ToOther}, {ShieldEth}, {SwapShielded}>>,
  <<{Buy}, {Salary}, {SwapToEth, Sell}, {SwapToMeme, SendNear}, {SwapToMeme, Sell}>>,
  <<{Salary}, {Stake, Rent}, {Stake, Unstake, SendNear, Rent}, {Unstake, SendNear, Rent}>>,
  <<{BuyMore}, {Shield}, {Unshield, Gift, Interest}, {Unshield, Payment, Buy}>>,
  <<{BuyMore}, {Trade, ToExchangeMore, ToRelative}, {ToExchange, FromRelative, ToSolver},
    {Trade, Gift}>>,
  <<{BuyMore}, {Shield}, {Lot, Gift}, {Lot, Purchase}, {Purchase}>>}

\* NEAR is staked and unstaked.
Unstaking == {Stake, Deed("either", {Move(a1, near_, 1, pool)})}
StakingScenario == {After(Salary, Unstaking, 4)}
=============================================================================

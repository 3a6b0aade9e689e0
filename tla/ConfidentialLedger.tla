------------------------- MODULE ConfidentialLedger -------------------------
(***************************************************************************)
(* near/confidentialledger.js and the pages of near/intentshistory.js: the  *)
(* confidential ledger of an account is worked out from a history of items  *)
(* that its host lists newest first.                                        *)
(*                                                                         *)
(* Items are numbered in the order of their creation, which also orders the *)
(* cursors.  A history gives each of its items a status.                    *)
(***************************************************************************)
EXTENDS Integers, FiniteSetsExt

CONSTANTS
  Leg,       \* Leg[i]: the legs of an item, each an asset and a signed amount
  Asset,     \* normalized asset ids
  PageLimit, \* HISTORY_PAGE_LIMIT
  MaxPages   \* maxPages

Items(history) == DOMAIN history

\* confidentialMovementsForItem(): "Non-SUCCESS items produce no movements", and a leg
\* exists only when the host names its asset.
Movements(history) ==
  UNION {{[item |-> i, asset |-> l.asset, delta |-> l.amount] :
            l \in {l \in Leg[i] : l.asset \in Asset}} :
         i \in {i \in Items(history) : history[i] = "SUCCESS"}}

\* confidentialBalancesFromItems(), and the running balances of movementsWithBalances().
BalanceUpTo(history, a, n) ==
  MapThenSumSet(LAMBDA m : m.delta, {m \in Movements(history) : m.asset = a /\ m.item <= n})

\* Assets with at least one movement.
Moved(history) == {m.asset : m \in Movements(history)}
BalanceOf(history, a) ==
  MapThenSumSet(LAMBDA m : m.delta, {m \in Movements(history) : m.asset = a})

\* deriveConfidentialFtTransactions() and deriveConfidentialRecords(): a row has a token of
\* its own, and syntheticHash() for hash, of the quote's deposit address, which is the
\* item's, and the direction.
DerivedRows(history) ==
  {[hash |-> <<"confidential", m.item, m.delta > 0>>, token |-> <<"confidential", m.asset>>, block |-> 0,
    nth |-> m.item, delta |-> m.delta, balance |-> BalanceUpTo(history, m.asset, m.item)] :
     m \in Movements(history)}

\* Variant for the mutation checks: only what was derived is compared.
MismatchesInDerived(history, actual) ==
  {a \in Moved(history) : BalanceOf(history, a) # actual[a]}

\* reconcileConfidentialBalances()
Mismatches(history, actual) ==
  {a \in Moved(history) \cup {b \in Asset : actual[b] # 0} : BalanceOf(history, a) # actual[a]}

---------------------------------------------------------------------------
(* The pages of the host. *)

NewestOf(S) ==
  {i \in S : Cardinality({j \in S : j > i}) < PageLimit}

\* What is older than the cursor; 0 is no cursor.
PageBefore(S, cursor) == NewestOf(IF cursor = 0 THEN S ELSE {i \in S : i < cursor})

\* Variant for the mutation checks: "a wholesale overwrite".
ReplaceHistory(old, new) == new

\* writeConfidentialIntentsHistory(): "MERGES, never replaces", and "Fresher copies win".
MergeHistory(old, new) ==
  [i \in Items(old) \cup Items(new) |-> IF i \in Items(new) THEN new[i] ELSE old[i]]
=============================================================================

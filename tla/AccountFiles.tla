---------------------------- MODULE AccountFiles ----------------------------
(***************************************************************************)
(* The files of one account in the user's repository, and what writes them: *)
(* the import from the accounting server                                    *)
(* (fetchTransactionsFromAccountingExport of storage/domainobjectstore.js), *)
(* the fetch of the confidential history (fetchConfidentialForAccount of    *)
(* accounts/accounts-page.component.js) and a sync with another device.     *)
(*                                                                         *)
(* No button is disabled while its work goes on.  One step is one file      *)
(* read or written, or one request; in between, anything may happen.        *)
(***************************************************************************)
EXTENDS AccountExport, ConfidentialLedger

CONSTANTS
  Caller,      \* a press of a button, and the work it starts
  History,     \* what the server may report: all records it will have
  Served,      \* the answers it may give, each a set of records; the order of Includes
  Bad,         \* blocks with samples of pools that never were, which a repair deletes
  Reward,      \* Reward[p][b]: what pool p has really paid by block b
  Principal,   \* Principal[p][b]: what the account has in it besides
  MaxItem,     \* bound: confidential items are 1 .. MaxItem
  Budgets      \* bounds, one of which holds: how many imports and fetches are pressed,
               \* syncs arrive, pages are cut short, quotes are made and answers change

\* Records are placed by block; none has the token of a derived row.
ASSUME HistoryAssumption ==
  /\ IsFiniteSet(History)
  /\ \A r \in History : r.block \in Nat /\ r.nth \in Nat
  /\ \A r, s \in History : r.nth = s.nth => r = s
  /\ \A r, s \in History : r.block < s.block => r.nth < s.nth
  /\ \A r \in History, a \in Asset : r.token # <<"confidential", a>>
  /\ {} \in Served /\ Served \subseteq SUBSET History

ASSUME BoundAssumption ==
  /\ MaxItem \in Nat /\ PageLimit \in Nat \ {0} /\ MaxPages \in Nat \ {0}
  /\ \A b \in Budgets : \A k \in DOMAIN b : b[k] \in Nat

Item == 1 .. MaxItem
Status == {"PENDING_DEPOSIT", "SUCCESS"}
IsHistory(h) == DOMAIN h \subseteq Item /\ \A i \in DOMAIN h : h[i] \in Status
NoItems == [i \in {} |-> "SUCCESS"]

VARIABLES
  served,    \* what the server answers at this time
  repaired,  \* the bad samples are deleted
  feed,      \* the confidential history as its host has it
  records,   \* records.json
  near,      \* transactions.json
  ft,        \* fungible_token_transactions.json
  pools,     \* pools[p]: stakingpools/p.json
  stored,    \* confidential_intents_history.json
  call,      \* call[c]: what c is doing
  late,      \* callers during whose work somebody else has changed the files
  budget     \* what is left of it

hostVars == <<served, repaired, feed>>
files == <<records, near, ft, pools, stored>>
vars == <<hostVars, files, call, late, budget>>

NoCall == [op |-> "none", step |-> "idle", got |-> {}, near |-> {}, ft |-> {}, pools |-> {},
           staking |-> {}, items |-> NoItems, base |-> NoItems, cursor |-> 0, page |-> 0,
           asked |-> NoItems, cut |-> FALSE, actual |-> [a \in Asset |-> 0], verdict |-> {}]

TypeOK ==
  /\ served \in Served /\ repaired \in BOOLEAN
  /\ IsHistory(feed) /\ IsHistory(stored)
  /\ records \subseteq History
  /\ \A r \in ft : r.token \notin {Near} \cup Pool
  /\ \A p \in Pool : \A e, f \in pools[p] :
       SameEntry(e, f) \/ (e.block = f.block /\ e.place = f.place) => e = f
  /\ \A r, s \in near : r.hash = s.hash => r = s
  /\ \A r, s \in ft : SameKey(r, s) => r = s
  /\ \A c \in Caller :
       /\ call[c].step \in {"idle", "request", "records", "convert", "near", "ft",
                            "write near", "write ft", "pool", "write pool", "walk", "merge",
                            "write items", "balances", "check"}
       /\ IsHistory(call[c].items) /\ call[c].cursor \in 0 .. MaxItem
       /\ call[c].page \in 0 .. MaxPages
  /\ late \subseteq Caller
  /\ \A k \in DOMAIN budget : budget[k] \in Nat

Init ==
  /\ served = {} /\ repaired = FALSE
  /\ feed = NoItems /\ stored = NoItems
  /\ records = {} /\ near = {} /\ ft = {}
  /\ pools = [p \in Pool |-> {}]
  /\ call = [c \in Caller |-> NoCall]
  /\ late = {}
  /\ budget \in Budgets

At_(c, step) == call[c].step = step
Busy == {c \in Caller : ~At_(c, "idle")}
Goto(c, f) == call' = [call EXCEPT ![c] = f]
End(c) == Goto(c, NoCall)
Changed(c) == late' = late \cup (Busy \ {c})
Spend(k) == budget[k] > 0 /\ budget' = [budget EXCEPT ![k] = @ - 1]

Press(c, op, step) ==
  /\ At_(c, "idle")
  /\ Spend(op)
  /\ Goto(c, [NoCall EXCEPT !.op = op, !.step = step])
  /\ late' = late \ {c}
  /\ UNCHANGED <<hostVars, files>>

---------------------------------------------------------------------------
(* fetchTransactionsFromAccountingExport() *)

PressImport(c) == Press(c, "import", "request")

Answer == {r \in served : repaired => r.block \notin Bad}

\* The answer, or an error that ends the import.
Answered(c) ==
  /\ At_(c, "request")
  /\ Goto(c, [call[c] EXCEPT !.step = "records", !.got = Answer]) \/ End(c)
  /\ UNCHANGED <<hostVars, files, late, budget>>

\* writeAccountingRecords(): as it is, whatever comes of the rest.
WriteRecords(c) ==
  /\ At_(c, "records")
  /\ records' = call[c].got
  /\ Goto(c, [call[c] EXCEPT !.step = "convert"])
  /\ Changed(c)
  /\ UNCHANGED <<hostVars, near, ft, pools, stored, budget>>

\* The conversion awaits the metadata of tokens, and may fail for want of them.
Convert(c) ==
  /\ At_(c, "convert")
  /\ Goto(c, [call[c] EXCEPT !.step = "near"]) \/ End(c)
  /\ UNCHANGED <<hostVars, files, late, budget>>

ReadNear(c) ==
  /\ At_(c, "near")
  /\ Goto(c, [call[c] EXCEPT !.step = "ft", !.near = near])
  /\ UNCHANGED <<hostVars, files, late, budget>>

\* getAllFungibleTokenTransactions(): with the rows derived from the confidential history.
AllFt == ft \cup DerivedRows(stored)

ReadFt(c) ==
  /\ At_(c, "ft")
  /\ Goto(c, [call[c] EXCEPT !.step = "write near", !.ft = AllFt])
  /\ UNCHANGED <<hostVars, files, late, budget>>

WriteNear(c) ==
  /\ At_(c, "write near")
  /\ near' = MergeTransactions(call[c].near, NearRows(call[c].got))
  /\ Goto(c, [call[c] EXCEPT !.step = "write ft"])
  /\ Changed(c)
  /\ UNCHANGED <<hostVars, records, ft, pools, stored, budget>>

\* Variant for the mutation checks: the derived rows are written back.
PersistedWithDerived(rows) == rows

\* isDerivedConfidentialFtTransaction(): "must never be written back".
Persisted(rows) == {r \in rows : \A a \in Asset : r.token # <<"confidential", a>>}

PoolsIn(R) == {p \in Pool : StakingEntries(R, p) # {}}

\* The next pool of the answer, or the end.
NextPool(c, left) ==
  IF left = {} THEN End(c)
  ELSE Goto(c, [call[c] EXCEPT !.step = "pool", !.pools = left])

WriteFt(c) ==
  /\ At_(c, "write ft")
  /\ ft' = Persisted(MergeFtTransactions(call[c].ft, FtRows(call[c].got)))
  /\ NextPool(c, PoolsIn(call[c].got))
  /\ Changed(c)
  /\ UNCHANGED <<hostVars, records, near, pools, stored, budget>>

ReadPool(c) ==
  /\ At_(c, "pool")
  /\ \E p \in call[c].pools :
       Goto(c, [call[c] EXCEPT !.step = "write pool", !.staking = {<<p, pools[p]>>}])
  /\ UNCHANGED <<hostVars, files, late, budget>>

WritePool(c) ==
  /\ At_(c, "write pool")
  /\ \E s \in call[c].staking :
       /\ pools' = [pools EXCEPT ![s[1]] =
                      MergeStakingEntries(s[2], StakingEntries(call[c].got, s[1]))]
       /\ NextPool(c, call[c].pools \ {s[1]})
  /\ Changed(c)
  /\ UNCHANGED <<hostVars, records, near, ft, stored, budget>>

---------------------------------------------------------------------------
(* fetchConfidentialForAccount() *)

PressFetch(c) == Press(c, "fetch", "request")

\* The account signs, or the fetch ends.  The walk begins.
OpenSession(c) ==
  /\ At_(c, "request") /\ call[c].op = "fetch"
  /\ Goto(c, [call[c] EXCEPT !.step = "walk", !.asked = feed]) \/ End(c)
  /\ UNCHANGED <<hostVars, files, late, budget>>

\* Variant for the mutation checks: the cursor is taken for an inclusive bound.
CursorPastPage(page) == Min(page) - 1

\* prevCursor: the oldest item of the page.
CursorOf(page) == Min(page)

\* A page arrives.  A page without a new item ends the fetch, and so does a full one that
\* is the last; a short one is the end of the feed.
Page(c, page, cursor) ==
  LET f == call[c]
      got == [i \in Items(f.items) \cup page |-> IF i \in page THEN feed[i] ELSE f.items[i]]
      next == [f EXCEPT !.items = got, !.cursor = cursor, !.page = f.page + 1]
      full == Cardinality(page) = PageLimit
  IN
  \/ page # {} /\ page \subseteq Items(f.items) /\ End(c)
  \/ /\ page = {} \/ ~(page \subseteq Items(f.items))
     /\ \/ full /\ (cursor = 0 \/ f.page + 1 = MaxPages) /\ End(c)
        \/ full /\ cursor # 0 /\ f.page + 1 < MaxPages /\ Goto(c, next)
        \/ ~full /\ Goto(c, [next EXCEPT !.step = "merge", !.cursor = 0])

\* getHistoryPage(): the host answers with the page, possibly after retries.  After a
\* full last page it may give a cursor or none.
HostAnswers(c) ==
  LET page == PageBefore(Items(feed), call[c].cursor) IN
  /\ At_(c, "walk")
  /\ \/ page = {} /\ Page(c, page, 0)
     \/ page # {} /\ Page(c, page, CursorOf(page))
     \/ page # {} /\ Min(page) = 1 /\ Page(c, page, 0)
  /\ UNCHANGED <<hostVars, files, late, budget>>

\* The host leaves older items of a page out, "silently".
HostCutsShort(c) ==
  LET f == call[c]
      page == PageBefore(Items(feed), f.cursor)
  IN
  /\ At_(c, "walk")
  /\ Spend("cut")
  /\ \E i \in page : LET kept == {j \in page : j > i} IN
       Goto(c, [f EXCEPT !.step = "merge", !.cursor = 0, !.page = f.page + 1, !.cut = TRUE,
                !.items = [j \in Items(f.items) \cup kept |-> IF j \in kept THEN feed[j] ELSE f.items[j]]])
  /\ UNCHANGED <<hostVars, files, late>>

\* Five errors, or one that is not the server's: the fetch ends.
HostFails(c) ==
  /\ At_(c, "walk") \/ At_(c, "balances")
  /\ End(c)
  /\ UNCHANGED <<hostVars, files, late, budget>>

ReadItems(c) ==
  /\ At_(c, "merge")
  /\ Goto(c, [call[c] EXCEPT !.step = "write items", !.base = stored])
  /\ UNCHANGED <<hostVars, files, late, budget>>

WriteItems(c) ==
  /\ At_(c, "write items")
  /\ stored' = MergeHistory(call[c].base, call[c].items)
  /\ Goto(c, [call[c] EXCEPT !.step = "balances", !.base = NoItems])
  /\ Changed(c)
  /\ UNCHANGED <<hostVars, records, near, ft, pools, budget>>

\* fetchConfidentialBalances(): the true ones.
FetchBalances(c) ==
  /\ At_(c, "balances")
  /\ Goto(c, [call[c] EXCEPT !.step = "check", !.asked = feed,
                             !.actual = [a \in Asset |-> BalanceOf(feed, a)]])
  /\ UNCHANGED <<hostVars, files, late, budget>>

\* reconcileStoredConfidentialBalances(), and what the page says of it.
Says(c) == Mismatches(stored, call[c].actual)

Check(c) ==
  /\ At_(c, "check")
  /\ End(c)
  /\ UNCHANGED <<hostVars, files, late, budget>>

---------------------------------------------------------------------------
(* The hosts and the other device. *)

\* The server has indexed more.
Index ==
  /\ Spend("answer")
  /\ \E R \in Served : served \subseteq R /\ served # R /\ served' = R
  /\ UNCHANGED <<repaired, feed, files, call, late>>

\* "Dropped by a server-side repair".
Repair ==
  /\ ~repaired
  /\ Spend("answer")
  /\ repaired' = TRUE
  /\ UNCHANGED <<served, feed, files, call, late>>

\* A quote is made, and settles or does not.
Quote ==
  LET i == Cardinality(Items(feed)) + 1 IN
  /\ i \in Item
  /\ Spend("quote")
  /\ \E s \in Status : feed' = [j \in Items(feed) \cup {i} |-> IF j = i THEN s ELSE feed[j]]
  /\ UNCHANGED <<served, repaired, files, call, late>>

Settle ==
  /\ \E i \in Items(feed) : feed[i] # "SUCCESS" /\ feed' = [feed EXCEPT ![i] = "SUCCESS"]
  /\ UNCHANGED <<served, repaired, files, call, late, budget>>

\* The files of a device that imported the answer R and has stored h, or of this one.
FilesOf(R, h) ==
  [near |-> NearRows(R), ft |-> {r \in FtRows(R) : Best(FtRows(R), r)},
   pools |-> [p \in Pool |-> RecomputeStakingEarnings(StakingEntries(R, p))], stored |-> h]

OurFiles == [near |-> near, ft |-> ft, pools |-> pools, stored |-> stored]

\* mergeJson() of the files of two devices: transactions by hash, token transactions by hash
\* and contract, pool entries by block and hash, items by deposit address.
MergeFiles(ours, theirs) ==
  [near |-> MergeTransactions(ours.near, theirs.near),
   ft |-> MergeFtFiles(ours.ft, theirs.ft),
   pools |-> [p \in Pool |-> MergePoolFiles(ours.pools[p], theirs.pools[p])],
   stored |-> MergeHistory(ours.stored, theirs.stored)]

\* What a fetch at some time till now has stored.
EarlierHistories ==
  UNION {{h \in [1 .. n -> Status] : \A i \in 1 .. n : h[i] = "SUCCESS" => feed[i] = "SUCCESS"} :
           n \in 0 .. Cardinality(Items(feed))}

\* A sync merges the files with those of a device that imported an earlier answer and made an
\* earlier fetch: here, where theirs are the other device's, or there, where they are ours.
SyncArrives ==
  /\ Spend("sync")
  /\ \E R \in Served, h \in EarlierHistories :
       /\ R \subseteq served
       /\ records' = records \cup R
       /\ \E m \in {MergeFiles(OurFiles, FilesOf(R, h)), MergeFiles(FilesOf(R, h), OurFiles)} :
            near' = m.near /\ ft' = m.ft /\ pools' = m.pools /\ stored' = m.stored
  /\ late' = late \cup Busy
  /\ UNCHANGED <<hostVars, call>>

\* The page is closed, or loaded again: its work ends where it is.
PageCloses ==
  /\ Busy # {}
  /\ call' = [c \in Caller |-> NoCall]
  /\ UNCHANGED <<hostVars, files, late, budget>>

Next ==
  \/ \E c \in Caller :
       \/ PressImport(c) \/ (call[c].op = "import" /\ Answered(c)) \/ WriteRecords(c)
       \/ Convert(c) \/ ReadNear(c) \/ ReadFt(c) \/ WriteNear(c) \/ WriteFt(c)
       \/ ReadPool(c) \/ WritePool(c)
       \/ PressFetch(c) \/ OpenSession(c) \/ HostAnswers(c) \/ HostCutsShort(c)
       \/ HostFails(c) \/ ReadItems(c) \/ WriteItems(c) \/ FetchBalances(c) \/ Check(c)
  \/ Index \/ Repair \/ Quote \/ Settle \/ SyncArrives \/ PageCloses

Spec == Init /\ [][Next]_vars

---------------------------------------------------------------------------
(* Properties. *)

\* What an answer says is in the files: its records, its rows with the newest balance of
\* each transaction, and in the blocks it covers the entries of its pools and no others.
BooksSay(R) ==
  /\ records = R
  /\ \A r \in R : r.token = Near =>
       \E n \in near :
         /\ n.hash = HashAt(R, r.block)
         /\ n.balance = LastOf({s \in Of(R, Near) : HashAt(R, s.block) = n.hash}).after
  /\ \A r \in R : r.token \notin {Near} \cup Pool =>
       \E n \in ft : n.hash = HashAt(R, r.block) /\ n.token = r.token /\ n.block >= r.block
  /\ \A p \in PoolsIn(R) :
       LET new == StakingEntries(R, p) IN
       {e.block : e \in {e \in pools[p] : Covered(new, e.block)}} = BlocksOf(new)

Finishes(c) == call[c].op = "import" /\ call'[c] = NoCall /\ (WriteFt(c) \/ WritePool(c))

\* "An entry it no longer has in that range was deleted there, and keeping it here would
\* keep booking that move" (accounting-export.js 817-825): whatever imports failed, were
\* interrupted or overlapped before, and whatever a sync brought back, one import that
\* runs alone to its end puts the books right.
ImportRepairs ==
  [][\A c \in Caller, R \in {call[c].got : c \in Caller} :
       c \notin late /\ R = call[c].got /\ Finishes(c) => BooksSay(R)']_vars

\* The blocks of the real samples of a pool.
RealBlocks(p) == BlocksOf(Of(History, p)) \ Bad

\* The real samples that are no entry, each a later one of a transaction that another
\* sample of the pool has (accounting-export.js 513-522).
Split ==
  [p \in Pool |-> {b \in RealBlocks(p) :
     \E R \in Served : \E c \in BlocksOf(Of(R, p)) :
       c < b /\ TxAt(R, b) # NoTx /\ TxAt(R, c) = TxAt(R, b)}]

\* What the account moved between two blocks and no entry shows.
Unseen(p, b, c) ==
  LET S == {d \in Split[p] : b < d /\ d < c} IN
  IF S = {} THEN 0 ELSE Positive(Principal[p][Max(S)] - Principal[p][b])

\* Principal is never booked as reward (accounting-export.js 746-766), entry by entry:
\* however much the server has indexed, and whatever is merged from where, the earnings
\* worked out for an entry are at most what the pool has paid since the entry before it,
\* once the bad samples are gone.  The code books principal all the same where it skipped a
\* sample of a transaction (Unseen), and where a sync left two entries of one block and the
\* second shows a withdrawal without its transaction.
EarningsAreRewards ==
  \A p \in Pool : BlocksOf(pools[p]) \cap Bad = {} =>
    \A e \in pools[p] : LET x == Recomputed(pools[p], e) IN
      /\ IsOpening(pools[p], e) => x.earnings = 0
      /\ \A f \in pools[p] : IsBefore(pools[p], f, e) =>
           \/ /\ f.block < e.block
              /\ x.earnings <= Reward[p][e.block] - Reward[p][f.block]
                                + Unseen(p, f.block, e.block)
           \/ f.block = e.block /\ x.earnings <= x.withdrawal

\* What the earnings rest on.  Answers are complete up to some block, and real samples show
\* what the account has in the pool and what the pool has paid.  Between two of them the
\* principal grows by what the server shows to move, unless there is a transaction at the
\* second.
ServerIsTruthful ==
  /\ \A r \in History : r.amount \in Int
  /\ \A R \in Served : \A r \in R, s \in History : s.block < r.block => s \in R
  /\ \A p \in Pool :
       /\ \A b \in RealBlocks(p) : Reward[p][b] \in Int /\ Principal[p][b] \in Int
       /\ \A b, c \in RealBlocks(p) : c < b => Reward[p][c] <= Reward[p][b]
       /\ \A r \in Of(History, p) :
            r.block \notin Bad => r.after = Principal[p][r.block] + Reward[p][r.block]
       /\ \A R \in Served : \A b \in RealBlocks(p) \cap BlocksOf(Of(R, p)), c \in RealBlocks(p) :
            /\ c < b /\ \A d \in RealBlocks(p) : d < b => d <= c
            /\ TxAt(R, b) = NoTx
            => Principal[p][b] - Principal[p][c] <= SentTo(R, p, b, -1) - SentTo(R, p, b, 1)

\* "Never persisted into this file, so a gateway re-sync can't touch it"
\* (domainobjectstore.js 141-144): the confidential rows that pages read are those of the
\* history as it is stored now, each once, whatever imports read before.
DerivedOnce ==
  \A r \in AllFt : r.token \notin {x.token : x \in History} =>
                     r \notin ft /\ r \in DerivedRows(stored)

\* "A short or partial fetch degrades into no new data instead of data loss", and settled
\* items stay settled (domainobjectstore.js 258-265), unless another device or fetch
\* changed the file, or the item, during this one.  A sync takes no item away; of one that
\* both devices have it keeps the remote's status, and may so unsettle it until the next
\* fetch.
HistoryKept ==
  [][\A i \in Items(stored) :
       \/ /\ i \in Items(stored')
          /\ stored[i] = "SUCCESS" => stored'[i] = "SUCCESS" \/ SyncArrives
       \/ \E c \in late : WriteItems(c)]_vars

\* "The two guards reject a walk that provably did not reach the end of the feed"
\* (intentshistory.js 262-267): a walk of a host that leaves nothing out stores all that
\* the feed had when it began, as new as that, though items arrive during the walk.
WalkIsComplete ==
  [][\A c \in Caller : WriteItems(c) /\ ~call[c].cut =>
       \A i \in Items(call[c].asked) :
         /\ i \in Items(stored')
         /\ call[c].asked[i] = "SUCCESS" => stored'[i] = "SUCCESS"]_vars

\* "The only independent check that the derived balance series is complete"
\* (intentshistory.js 335-341): when the page says that the balances match, what the store
\* lacks of the history adds up to nothing in every asset.
HolesAreNoticed ==
  [][\A c \in Caller : Check(c) /\ Says(c) = {} =>
       \A a \in Asset : BalanceOf(call[c].asked, a) = BalanceOf(stored, a)]_vars
=============================================================================

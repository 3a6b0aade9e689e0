# Ariz Portfolio: specifications, model checking and proofs

Ariz Portfolio (`src/public_html`) is a web application that collects a user's
transactions, balances, staking rewards and prices of NEAR accounts and reports profit
and loss from them. It has no server that holds the data: the records are JSON files of a
git repository in the browser (OPFS), worked on by a git compiled to WebAssembly in a web
worker, and copied between the user's devices through an end-to-end encrypted store.
What can go wrong silently is in the code that moves those records around, where this
project begins, and in the code that derives figures from them and shows them, where it
goes on.

Line numbers are those of the files under `src/`.

## 1. The system

| Component | State it keeps | Operations | Talks to | What is hard | What makes it correct |
|---|---|---|---|---|---|
| **Git synchronization**: `storage/wasmgitworker.js`, `synchronize()` of `storage/storage-page.component.js` | OPFS: working tree, `.git` (HEAD, MERGE_HEAD, origin/master); the store: tip, packs | clone, init + first push, commit_all, sync (fetch, merge, repair, flatten, push, retry), repack, delete local | the pages write files of the same tree; other devices push to the same tip | runs interleave with pages and other devices; a run cut short between two git commands; lost answers; old damage in the store | nothing acknowledged is lost; markers never spread; a merge is finished before the next; devices converge; runs end |
| **Worker command queue**: `storage/gitstorage.js`, `onmessage` of the worker | `currentCommandInProgress`, the waiters of that promise, the worker and its channel | `workerCommand`, `restartGitWorker`, progress lines | every page through some 20 exported functions | callers wake all at once; a restart in between; workers that fail to load; one `onmessage` slot | one command at a time; an answer reaches its caller; restarts lose nothing; calls settle |
| **Key enrollment**: `arizgateway/encryptionkey.js`, `encryptedsync.js`, buttons of the storage page | `_dek` in memory, remembered keys in IndexedDB, the service worker's configuration, wraps in the store | `obtainDek`, `enrollWithExportedKey`, `configureEgitKey`, export, import, forget | wallet (signatures), gateway (token), store (wraps, data), service worker | two devices set up at once; answers lost; account switched on one page; page and service worker restart | no key is used that is not wrapped; one key per wallet key; a store can be opened by a wallet key enrolled there |
| **Gateway access**: `arizgateway/arizgatewayaccess.js` | token in localStorage, wallet session | sign in, out, `getAccessToken`, `fetchFromArizGateway` | wallet, gateway | 401 races, timeouts, two signing dialogs saving and restoring the same localStorage entries | a token is of the signed-in account; a fresh token is not thrown away |
| **JSON merge**: `storage/jsonmerge.js` | none | union of two JSON texts by identity rules | called by the worker's repair | identity rules, nested values, derived metadata | commutes up to order, keeps both sides' records, idempotent |
| **Domain object store**: `storage/domainobjectstore.js`, `token-metadata-cache.js` | files by name; one session cache of token metadata | getters, setters, accounting import | everything | read-modify-write over several awaits; a cache a sync does not clear | an update that meets no other loses nothing; derived rows stay out of the files |
| **Price data**: `pricedata/pricedata.js` | session cache of histories, latch `priceServiceDown` | read, fetch and merge, custom rates, end-of-day map | store, gateway, sync | cache filled by a read that began before a write; two fetches of one token; latch | cache equals file once writes end; no day is lost; the latch opens again |
| **Confidential history**: `near/intentshistory.js`, `confidentialledger.js` | history file of an account | page walk, merge by key, ledger | 1Click history service, store | last page of exactly 50, stuck cursors, items that arrive or settle during the walk | a finished walk stores the whole feed; a hole is noticed |
| **Accounting import**: `near/accounting-export.js` | four kinds of files per account | convert, merge, recompute staking earnings | gateway, store | ranges covered by the server against local entries; partial failure | one import alone repairs the books; principal is never booked as reward |
| **Year report, FIFO**: `yearreport/yearreportdata.js`, `swap-legs.js`, `all-tokens-*.js`, `token-exclusions.js` | the list of excluded tokens | positions, realizations, daily balances, one token or all | prices, store | a swap is valued in two passes; exact boundaries, withdrawals above holdings | quantity and cost are conserved; both sides of a swap at one value |
| **Portfolio**: `portfolio/*.js` | caches of bases and openings | flow decomposition, transfers between own accounts | prices, store | greedy pairing, rule after rule; two ledgers of the same movements | genuine flows are seen, own moves are not; the two ledgers reconcile |
| **Migration to OPFS**: `storage/migrate-idbfs-to-opfs.js`, `deletelocal` of the worker | marker file, the two file systems | copy once, write the marker, delete | worker at start | closed page between copy and marker, two tabs | a repository in use is whole; legacy data does not come back over newer data |
| **Pages**: transactions, year report, portfolio, accounts | selects, what is shown, caches | render a chunk at a time, refresh, exclude tokens | all of the above | a select changed while a render awaits | what is shown is of one selection, the latest |
| NEAR data sources, Ariz credits, other pages, deployment | little or none | requests, rendering | | | not modelled, see section 7 |

How they interact: pages call the domain object store, which calls `gitstorage`, which
queues commands to the one worker. `synchronize()` first obtains the key (enrollment),
hands it to the service worker with a token (gateway access) and then issues a handful of
worker commands; pages' reads and writes are served between those. After a sync the price
cache and the price latch are cleared. Damaged files are repaired by the JSON merge. An
import writes the files of an account one by one; the year report and the portfolio derive
everything they show from those files and the prices, anew each time.

## 2. Modules

| Module | Role |
|---|---|
| `GitSync` | the git synchronization of all devices with the store |
| `SharedRecords` | abstract specification: devices share a set of records that only grows; `GitSync` implements it |
| `MCGitSync` | instances of `GitSync` for TLC |
| `GitSyncProofs` | proofs about `GitSync`: types, its inductive invariants, the safety theorems, the refinement of `SharedRecords` |
| `WorkerQueue`, `MCWorkerQueue`, `WorkerQueueProofs` | the command queue, its instances and its proofs |
| `KeyEnrollment`, `MCKeyEnrollment`, `KeyEnrollmentProofs` | key enrollment, its instances and its proofs |
| `PriceStore`, `MCPriceStore`, `PriceStoreProofs` | the price histories of one page, their instances and proofs |
| `AccountExport` | pure: the server's answer to rows, merges of rows, staking earnings |
| `ConfidentialLedger` | pure: the confidential history to movements, balances and rows; its pages and merge |
| `AccountFiles`, `MCAccountFiles`, `AccountFilesProofs` | composition: imports, confidential fetches and a sync over the files of one account; its instance and proofs |
| `YearReport` | daily balances, swaps and their values, first in, first out |
| `Portfolio`, `MCBooks` | extends `YearReport`: what crossed the portfolio's edge, set against the books; the instances |
| `BooksProofs` | proofs about `YearReport`, and that `Portfolio` leaves the books as they are |
| `SumFacts` | lemmas about sums of integers over finite sets, for `BooksProofs` and `AccountFilesProofs` |
| `Migration` | the one-time move of the repository, several tabs, deletion |
| `GatewayAccess` | tokens, refused requests, throwaway sign-ins, login and logout |
| `TransactionsPage`, `YearReportPage`, `PortfolioPage` | what three pages show while their selects are used |
| `MCBrowser` | an instance of `Migration`, `GatewayAccess` and the three pages side by side |
| `BrowserProofs` | proofs about each of these five |

### GitSync

One step is one git command (`fetch`, `merge`, `push`, `reset --soft`, ...) or one worker
command where only the worker sees the git commands it is made of. `phase[d]` is the
`await` that device `d`'s `synchronize()` stands at; `attempt` and `fetchFailed` are the
loop variables of `syncWithRemote`; `repo`, `work`, `head`, `merging`, `tracking` are what
OPFS holds (`.git`, working tree, HEAD, MERGE_HEAD, origin/master); `history`, `tip`,
`duplicated` are the commits and the store. `written`, `removed`, `promised`, `acked` and
`unflattened` are history variables for the properties and never guard a step of the code.
The last has the parents of the merges that no run goes on to flatten: those git commits by
itself, and those at hand when a run is cut short (`MergeAtHand`).

| Code | Action |
|---|---|
| setters of the domain store, `writeFile` | `Write`, `Remove`, only `BetweenCommands` |
| `synchronize()` 277-295, its three beginnings | `Clone`; `StartFirst`, `FirstCommit`, `FirstPush`; `StartSync`, `CommitAll` |
| `commitAll` 206-227 with `repairMarkedFiles` | `CommitWork`; its throw is `Refuse` |
| `syncWithRemote` 352-443 | `BeginSync`, `Fetch`, `RepackRemote`, `NothingMerged`, `FastForward`, `Merge`, `Resolve`, `Flatten`, `FlattenCommit`, `PushSucceeds`, `PushFails` |
| page closed, git command throws | `Interrupt`, after any step |
| delete local data | `DeleteLocal` |

The text of a file is abstracted to the set of versions in it: one set of records, or two
sides when markers are in the file. git's three-way merge of a file chooses freely whether
two changes touch the same lines (`fits`), so both outcomes of every merge are explored;
a file already marked always conflicts. libgit2 and the store are external: their part is
modelled from how the code calls them (a checkout keeps uncommitted edits and refuses to
overwrite them; a push is a compare-and-set of the tip that wants a descendant; a merge
without conflicts is left uncommitted or committed by wasm-git, both, since the code
handles both; packs may hold an object twice once a merge commit was pushed).

### WorkerQueue

`current` is `currentCommandInProgress`, `waiters` the callers that await it in order,
`woken` those that JavaScript resumes one after the other, before any other event, when
the promise settles. `Call`/`Resume` are `workerCommand` before and after such an await,
`Deliver` is `worker.onmessage`, `ScriptFails` `worker.onerror`, `Restart` is
`restartGitWorker()`, `Load`, `WasmFails`, `Progress`, `Serve` are the worker. A caller
rethrows the error of the command it waited behind, as the code does (line 54).

### KeyEnrollment

One step is one request, one signing dialog or what a page does between two awaits. A
page does two things at a time, a synchronization and a button (`flow[d]["sync"]`,
`flow[d]["button"]`): the storage page does not disable the one while the other is
running. `flow[d][s]` holds the local variables of the handler and of `obtainDek` or
`enrollWithExportedKey` across their awaits. `Obtain`, `Sign`, `FetchWrap`, `Probe`,
`PutWrap`, `Refetch`, `Verify` are the steps of those two functions, `Configure`,
`Persist`, `Push`, `ButtonEnds` what is done with the key. Cryptography is abstract: a
deterministic wallet key finds and opens its own wrap and no other, a fresh key is none
that exists. `warned` and `mismatched` record that a manifest failed to decrypt earlier;
they are history for the property `RaceSurfaces`.

### PriceStore

One step is one worker command or one request, with what the page does when it is
answered up to its next `await`: the worker answers one command at a time and the page
handles the answer before the next one is served, so a history that is read is cached in
the same step (`Loaded`), and a history that is written drops its cache key in the same
step (`Write`). `call[c]` holds the local variables of `getEODPrice`, `getEODPriceMap` or
`refreshStoredPriceHistories` across their awaits.

| Code | Action |
|---|---|
| `getEODPrice` 402-436, `getEODPriceMap` 502-522: a cached history or a read | `AskPrice`, `AskPriceMap` |
| `findPriceTokenDirs`, `getHistoricalPriceData` (`domainobjectstore.js` 400-433) | `List`, `ReadDir` |
| no price, a price, or a request (438-451, 523-527) | `Decide` |
| `fetchHistoricalPricesFromArizGateway` 233-284 | `Fetch` (latch, token), `Answer`, `List`/`ReadDir` again, `Place`, `Write` |
| the errors of these three callers | `Throw` |
| `getEODPrice` 452-463, after the fetch | `Conclude` |
| `refreshStoredPriceHistories`, `listStoredPriceHistories` | `Refresh`, `RefreshNext` |
| `sync()` 197-207 | `SyncLands`, `SyncClears`; a sync that fails after its merge, and a clone: `SyncBypasses` |
| signing, expiry, refresh button of the portfolio | `SignIn`, `Lapse`, `ResetPriceService` |

A history is the set of days it has a price for. A `Name` is a token and a currency as a
caller spells them; `KeyOf` is the cache key, which folds the case of the token only,
`DirOf` the directory with that spelling, and `TokenOf` says which directories are one
token. Each directory has the file of one currency. History variables are `late`, the
callers whose history was changed by others since they read it; `refused`, the callers whose
last request ended for want of a signature, lookups included; `unsigned`, the names such a
lookup gave up; `aside`, the keys that were cached when a history was written under another
key of it; and `behind`, the tokens whose prices arrived past the cache. Left
out: which symbol a contract id resolves to, USD-pegged tokens, and the listing of the
directories for a refresh in several commands.

### AccountFiles, over AccountExport and ConfidentialLedger

One step is one file read or written, or one request. `call[c]` is the work one press of a
button has started and the local variables it holds across its awaits; no button is
disabled while its work goes on, so two of any kind overlap.

| Code | Action |
|---|---|
| `fetchTransactionsFromAccountingExport` (`domainobjectstore.js`) | `PressImport`, `Answered`, `WriteRecords`, `Convert`, `ReadNear`, `ReadFt`, `WriteNear`, `WriteFt`, `ReadPool`, `WritePool` |
| `fetchConfidentialForAccount` (accounts page), `fetchConfidentialIntentsHistory` | `PressFetch`, `OpenSession`, `HostAnswers`, `HostCutsShort`, `HostFails`, `ReadItems`, `WriteItems`, `FetchBalances`, `Check` |
| the accounting server and the history host | `Index`, `Repair`, `Quote`, `Settle` |
| a synchronization, a closed page | `SyncArrives`, `PageCloses` |

A record of an answer is a balance change; the conversion keeps what decides about rows:
blocks and transactions, which of them are one row, whose balance a row shows, which
entries a pool gets and what moved between the account and the pool. `MergeTransactions`,
`MergeFtTransactions`, `MergeStakingEntries` and `RecomputeStakingEarnings` are the code's
merges over sets of rows. `late` is history. The answer has the V2 format and the import
merges, as the accounts page asks for.

`SyncArrives` merges the files with those of a device that imported an earlier answer and
made an earlier fetch (`FilesOf`, `EarlierHistories`), file by file with the identities of
`jsonmerge.js` 84-103: a transaction by its hash, one of a token by hash and contract, an
entry of a pool by block and hash, a confidential item by its deposit address. Of what both
have, theirs is kept; the files of this device are either side, as the merge is made here or
there. Two entries of a block, of different hashes, are kept beside each other, in the order
of the merged array (`place`), which is the order in which the earnings are worked out.

### YearReport and Portfolio

The state is the rows of the owner's accounts, `rows[a][t]` those of one account and token,
oldest first. An action is a deed of the owner (`Happen`:
a purchase, a swap, a move between accounts, ledgers or pools), a sample of a balance the
server takes (`Observe`), a price the owner enters (`EnterPrice`), or the next day. After
each, the pages derive everything anew: `books` is `calculateProfitLoss` of every token,
`view` is `calculatePortfolio`, `calculateFlowDecomposition` and the combined report's
flows. What is derived is written as the code computes it: `Changed` (balances to
movements), `Class`, `Entry` (a day's deposits, withdrawals, income, expenses),
`ResolveSwapValue`, `ValueSwapsOfDay`, `Realize`, `BookDay`; then `Movements`,
`SeparateSwaps`, the five transfer rules in their order, `Decomposition`, `Snapshot`. A
deed says of itself whether it crossed the portfolio's edge; the code has to find that out
from the rows, and the properties compare. `Implicit` has the accounts named by 64
hexadecimal digits, which `tradedInsideAVenue` takes for accounts in intents (`IsImplicit`).

Which deeds there are is a constant, `Scenario`. `ScenarioAssumption` says what is asked of
one (`Possible`): it changes what an account has of a token once, with one row; pools hold
NEAR, and what goes to or comes from a pool does not do so beside other NEAR under the same
hash. The first is how the import stores transactions, one row of a transaction and token;
the second is what a pool is. `ScaleAssumption` is about the scale of values only: no deed
moves more than `Units` of a token, and prices and marks are multiples of every number up to
that, so that a share of a swap's value is a whole number, as it is in the code a fraction.

Abstractions: amounts are raw units; values are in the report's currency, scaled so that
the divisions that occur are exact; a venue's mark in dollars is taken at a rate of one. The
price of a sale that only `getCustomSellPrice` finds is the closing price. Native rows
without a transaction move something, as the code chains them; of tokens, a sampled row is
an observation and moves nothing. Left out: liquid staking tokens, excluded tokens in the
portfolio, the materiality threshold for holdings without a price, the accounts' names.

### Migration

`legacy` is what IndexedDB holds, `repo[f]` what OPFS holds of a file: nothing, an empty
file (created, not yet written and closed), the legacy text, or something newer. Each tab
has a worker over the same storage; `Ends` is a closed page or a restarted worker, at any
await. `Check`, `Read`, `CreateFile`, `CloseFile`, `MigrationFails`, `WriteMarker` are
`migrateIdbfsToOpfs`, `Load` is the worker getting ready (with `ensureOdbPackDir`), `Use`
whatever it then writes, `DeleteLocal`/`DeleteNext` the three deletions of `deletelocal`.
Both functions go on when IndexedDB refuses: a database that cannot be opened is read as
none (`LegacyFiles`, lines 29-36), and one that is not deleted counts as deleted
(`DeleteNext`, 118-124), though a blocked deletion may still happen (`DeletedLater`).
`refused` is history and remembers both.

### GatewayAccess

`stored` is the token in localStorage, `lapsed` and `retired` what the browser and the
gateway think of tokens by age, `wallet` the connected account, `entry` what the wallet
has stored of it, `request[r]` a call of `fetchFromArizGateway` between two awaits
(`Begin`, `WalletAnswers`, `Sign`, `Decline`, `Answered`, `Refused`), `fetch[f]` a
`signInOnceAndSign`, with or without a connected wallet. `crossed` is history: a dialog
met a change of the signed-in account. What runs between a check of the token and its use
without anything to wait for is one step.

### The pages

`TransactionsPage`: `generation` and `isCurrent` of the page; `ChooseAccount` is
`updateView`, `ChooseFilter` the token select, `RecordsRead`, `Loads`, `NextChunk`, `Abort`,
`LoadFails` what a render does between its awaits. `YearReportPage`: `Choose` and the steps
`Computed`, `Collected`, `NextRow`, `RenderFails` of a render, which gives way to no other;
`ClickExclude`, `ClickInclude` and the end of a combined report change the list of
exclusions over a read and a write; `wish` is history and has what the user last asked for a
token: out, in, or, by an entry without a contract, back (`Asked`). `PortfolioPage`: `Refresh`
and `renderChart` with the two caches behind them, which a computation that fails later may
have filled already (`MayCache`); holdings and prices are a version number, `world`.

### MCBrowser

These five share no state, so composing their steps would only multiply their states. A
behaviour of `BrowserSpec` is one of a single `part`, chosen at the start; the others stay
where they begin. One run thus checks all five, each exactly as it would be on its own.

## 3. Runs

| Run | Question | Result |
|---|---|---|
| `GitSync_safety` | Two devices write records into two files, one of them not JSON, of a store that an older client left with conflict markers, while pages write during a synchronization; one run is cut short anywhere. Is an acknowledged record ever missing, a marker created, a merge left half-done, a record gone from a working tree? | holds |
| `GitSync_refine` | With records removed, local data deleted, an interruption and a network failure, is git, whether or not it commits clean merges itself, a correct implementation of `SharedRecords`? Is a push linear, but for merges of a run that was cut short and those git commits by itself? | holds |
| `GitSync_live` | Do users who keep pressing Synchronize end up with equal, whole copies; does every run end; is what was promised on the way in the store? | holds |
| `GitSync_linear` | With one run cut short, is every push linear? | violated: finding 1 |
| `WorkerQueue_safety` | Three callers, failing commands, restarts and workers that fail to load: does every answer go to its caller, does a restart lose a command, do calls settle while the worker runs? | holds |
| `KeyEnrollment_safety` | Two devices, three wallet keys of one account (one hedged) race through setup, export and import with a failure and an upset | holds |
| `KeyEnrollment_race` | After a race of different wallet keys, does the loser learn of it? | violated: finding 2 |
| `PriceStore_safety` | A report, a chart and "load from server" fetch the history of a token that the store may hold under two spellings and that is asked for in `nok` and `NOK`, while signatures lapse, requests fail and a sync lands. Is a cached history the stored one, is a stored day ever lost by one fetch alone, is a request or a lookup refused that need not be? | holds |
| `AccountFiles_safety` | Imports that fail, overlap and are interrupted, while the server indexes and repairs and a sync merges the files of another device; fetches of a confidential history that grows and settles meanwhile, with a sync, too; one of each. Does a file keep one row of each identity, does one import alone put the books right, is principal booked as reward beyond what the conversion skips, is a hole in the history noticed? | holds |
| `Books_safety` | Six families of deeds on three days. Are positions what is held, does a swap cost what it was sold for, is a genuine flow ever taken for an own move or an own move for a flow, do the days of the combined report, which leaves out tokens without a price, add up to what the panel says of the period, do lots and flows explain the same gain? | holds |
| `Books_staked` | Is the staked NEAR the portfolio shows the latest? | violated: finding 3 |
| `Browser_safety` | Two tabs migrate, use and delete, and IndexedDB may refuse; requests, throwaway sign-ins and logins cross; the selects of three pages are used while they render | holds |

### Bounds, and why they suffice

- **Two devices.** Every hazard of the synchronization is between one device and "the
  store as somebody else left it"; the second device is that somebody, and is itself
  complete. The theorems cover any number.
- **Records** (`Entry`): one in the seed and one per device, each written at most once.
  That is the least with which both sides of a merge have something of their own and
  something in common, and a second commit on the same side needs no third record because
  merges and repairs make commits, too. In `GitSync_safety` each of two files has
  one record in the seed and one that a device writes; the second file is not JSON, and when
  a device that begins with its own meets the seed's, it cannot be repaired. `GitSync_refine`
  has two records, one of them removable.
- **`MaxAttempts = 2`** (3 in the code): one retry is a first and a last attempt. The
  proofs hold for every value.
- **`MaxInterrupts`, `MaxFailures`**: one each. One interruption meets every point of a
  run, and the next run of the same device and the runs of the other then go on from
  there. A lost answer to a push is a failure with the push stored.
- **`CleanMergeStops`**: both behaviours of wasm-git in `GitSync_refine`, where
  `PushesAreLinear` is asked, since a merge that libgit2 commits by itself is not seen by line
  394 and never flattened. The other runs have the one that leaves merges to be committed,
  which gives them more to do: `GitSync_linear`, so that its counterexample is about the code,
  and `GitSync_live`, without an interruption, which asks what users get who are left alone.
  The theorems are about both.
- **`Removable`, `Discarder`**: who may remove records or delete the local copy;
  `GitSync_refine` uses both. Convergence is asked without removals: a union of two sides
  brings back what one side removed, on purpose (`jsonmerge.js`).
- **`MaxProgress = 1`** progress line on its way; **three callers**: one in progress and
  two that wait, so that both the order of waking and a second command of a woken caller
  occur.
- **`Key`**: two keys, enough for two competing first setups; a key used by nobody any
  more can be drawn again. **`MaxFlows = 2`** handlers under way over all devices: two
  pages, or both slots of one. **`MaxUpsets`** counts logouts, ended sessions, expired
  tokens, reloads and stopped service workers together.
- **`MaxDay = 2`**, `Offers` = {1}, {2}: a day and a later one, which is what a hole and
  an update need, and answers that each lack what the other has. **Two callers**: one that
  asks for prices and a refresh, the two that overlap on a page; with a sync
  (`MaxArrivals = 1`) there are three writers of a file. Two spellings of one token, and
  two of the currency: three names, two cache keys.
  `CacheAgrees` leaves out a token read from two directories (two commands), what a failed
  sync or a clone brought, the step between a sync and the clearing that follows it, and what
  was cached under another key than that of a later write.
- **`Budgets`** of `AccountFiles`: one of eight holds in a behaviour. Two imports with three
  answers that grow or are repaired; two imports with a sync, and one with a sync and three
  answers; an import and a fetch; two fetches with three quotes, or with two and a walk that
  the host cuts short, and one with both; a fetch with a sync. Two of a kind are what
  overlaps. The history of the server has a deposit whose receipts span two
  blocks, a transaction of which the pool has two samples, two rows in one transaction,
  rewards, a bad sample, a second deposit and a withdrawal.
  `PageLimit = 2` (50 in the code) and up to three items give a short last page, a full
  last page and items that arrive between two pages.
- **`Books`**: three days, a period of the second and the third, two accounts, six tokens
  (one with a price on the last day only) in three buckets. Movements of one pair may
  thus fall on two days of the period, and the report and the panel do not always have the
  same tokens. Each scenario lets any of a few deeds happen at each point, so that their
  order, their day and their neighbours vary (`Units = 4`, the most any of them moves):
  buying, swapping with and without gas, into a token without a price, staking, shielding
  and unshielding, trades in two transactions and in lots, gifts and payments of the same
  units, withdrawals through the gateway of half and of all that a trade would take,
  payments to and from an implicit account. One sample per behaviour, right or wrong, and
  one price the owner enters.
- **`Browser`**: two tabs and two files (one an object); one request the user waits for,
  one in the background and one confidential fetch, two tokens; three accounts, of which one
  has nothing to show and one none of a token, tables of at most three chunks and four renders;
  two tasks at once and three in all on the year report, with reports of two days; two runs,
  three clicks and one change of the world on the portfolio. Two of everything that may
  meet, and for the pages a third that finds what two have left.
- Symmetry is used for devices, keys and the two alike wallet keys, in runs that check
  no liveness property.

Deadlock is checked in the runs of `GitSync`, `KeyEnrollment` and `PriceStore`. It is not
in `WorkerQueue_safety`, where a worker that never loads leaves a queue in which nobody can
move, which is the code's behaviour; nor in `AccountFiles`, `Books` and `Browser`, where a
behaviour ends when the deeds, presses or clicks it was given are used up.

Type invariants: those of `GitSync`, `WorkerQueue`, `KeyEnrollment`, `PriceStore`,
`Migration`, `GatewayAccess` and the pages are proved (section 4) and therefore no property
of their runs; so is `OneAtATime`. That of `AccountFiles` is checked as well: it says that no
file has two rows of one identity, which a merge could break.

### Fairness

- `RunFairness`, weak fairness of a device's `RunStep`: once `synchronize()` runs, the
  event loop and the worker carry it on; each step is a promise that settles, and a
  request ends in an answer or an error.
- `SyncFairness` adds weak fairness of `Start`: the user presses Synchronize again and
  again. Only `Convergence` needs it; it says what users who do so get. No fairness is
  assumed of pages that write, nor that a particular merge outcome occurs.
- `WorkerQueue!Fairness`: the page's event loop delivers messages and resumes callers, a
  worker that starts either loads or fails, and a command a loaded worker has taken is
  answered (`onmessage` answers in both branches of its try). Restarting is fair only
  when its own wait is over.
- `AccessFairness`: a request is answered or runs into its timeout, and the connector
  answers whether somebody is signed in. No fairness is assumed of the user: every wallet
  dialog may stay open for ever, which is what `BackgroundSettles` is about.
- `KeyEnrollment`, `PriceStore` and the modules of files, books and pages have no liveness
  property: an await of the first may wait for a user, the second gives up by design, and
  the others end or fail with whatever they wait for.

### Mutants

Each property has a variant of a mapped operator (named next to it in the module: "Variant
for the mutation checks") with a plausible bug, under which the same run reports the
property violated. E.g. a push that does not compare the tip breaks `AckedIsStored`; a
pending merge that is committed only when something is staged breaks `MergeFinishedFirst`;
a wait that is not a loop in `restartGitWorker` breaks `RestartLosesNothing`; a marker
deleted before the legacy database breaks `NothingOldReturns`; a trade recognized without
looking at who was on the other side breaks `GenuineFlowsAreSeen`.

## 4. What is proved

All theorems are proved by TLAPS for every value of the constants: any number of devices,
files, records, callers, wallet keys and keys, and any bounds. They rest on the `ASSUME`
of each module, which says only what kind of thing each constant is (`FileOf` maps
records to files, `NoKey` is no key, ...), and on no unproved fact. `HistoryAssumption` of
`AccountFiles` also says what the conversion makes of any answer before it begins: its
records have places in one order, which is that of their blocks; `ScenarioAssumption` and
`ScaleAssumption` of `YearReport` say what a deed is and how values are scaled (section 2).
Where a theorem needs more than that, its hypotheses are in its statement and below.

| Theorem | Property |
|---|---|
| `GitSyncProofs!TypeCorrect` | `TypeOK` |
| `GitSyncProofs!DurableInvariant`, `Durability` | `AckedIsStored` |
| `GitSyncProofs!MergesAreFinished` | `MergeFinishedFirst` |
| `GitSyncProofs!HistoryKeepsRecords` | a commit keeps every record of every commit it descends from, unless removed |
| `GitSyncProofs!SharedRefinement` | `ImplementsShared` |
| `GitSyncProofs!LocalDataStays` | `LocalDataKept` |
| `GitSyncProofs!MarkersNeverCommitted` | `MarkersOnlyInherited` |
| `GitSyncProofs!PushesStayLinear` | `PushesAreLinear` |
| `WorkerQueueProofs!QueueTyped`, `QueueInvariant` | `TypeOK` and the inductive invariant |
| `WorkerQueueProofs!WorkerHasOneCommand`, `NoAnswerGoesAstray`, `RestartIsSafe` | `OneAtATime`, `AnswersMatch`, `RestartLosesNothing` |
| `KeyEnrollmentProofs!EnrollmentInvariant`, `EnrollmentTyped` | the inductive invariant, `TypeOK` |
| `KeyEnrollmentProofs!NoKeyIsLost`, `OneKeyPerWallet` | `KeysAreWrapped`, `KeyOfItsWallet` |
| `PriceStoreProofs!PricesTyped`, `PriceInvariant` | `TypeOK` and the inductive invariant |
| `PriceStoreProofs!NothingIsLostAlone`, `RefusalsHaveAReason` | `LossNeedsOverlap`, `RefusedForAReason` |
| `PriceStoreProofs!CacheFollowsStore` | `CacheAgrees` |
| `AccountFilesProofs!RowsStayUnique` | `TypeOK`: one row of a transaction, one of a transaction and token, one entry of a block and hash |
| `AccountFilesProofs!ImportsRepair` | `ImportRepairs` |
| `AccountFilesProofs!PrincipalIsNoReward` | `EarningsAreRewards`, given `ServerIsTruthful` |
| `AccountFilesProofs!DerivedStaysOut`, `HistoryIsKept` | `DerivedOnce`, `HistoryKept` |
| `AccountFilesProofs!WalksAreComplete`, `HolesShow` | `WalkIsComplete`, `HolesAreNoticed` |
| `BooksProofs!BooksInvariant` | the inductive invariant of rows, pools and books |
| `BooksProofs!HoldingsAlwaysMatch` | `HoldingsMatch` |
| `BooksProofs!BooksAlwaysBalance` | `BooksBalance` |
| `BooksProofs!NeverShortButForRewards` | `ShortOnlyForRewards` |
| `BooksProofs!SwapsShareTheirValue` | `SwapValueShared` |
| `BooksProofs!PortfolioKeepsBooks` | beside the portfolio the books are those of `YearReport`, with all four |
| `BrowserProofs!MigrationInvariant` | types and the inductive invariant of `Migration` |
| `BrowserProofs!UsesAWholeRepository`, `NothingOldComesBack` | `WholeWhenUsed`, `NothingOldReturns` |
| `BrowserProofs!TokensAreOfTheAccount` | `AccountsAgree` |
| `BrowserProofs!RowsAreOfTheChosen` | `ShownIsChosen` |
| `BrowserProofs!RowsAreOfTheReport`, `WishesAreKept` | `ReportIsChosen`, `ExclusionsKept` |
| `BrowserProofs!PartsMeet` | `ChartMeetsSummary` |

**Durability.** `AckedIsStored` is not inductive: a push replaces the tip by a descendant,
so one has to know that descendants keep records (`HistoryOK`), which is so because what
is committed is a working tree that keeps the records of HEAD and of MERGE_HEAD
(`CopyOK`: the reason why a merge base that is an ancestor of both sides loses nothing in
a three-way merge, lemma `MergeTextKeeps`). And a push acknowledges what `commit_all` saw
long before it, so a run must carry that through merge, repair and the soft reset
(`RunOK`): in HEAD always, except between `reset --soft` and the commit after it, where
only the working tree has it. This is the window that a cut-short run falls into, and
nothing has been acknowledged in it. `Durable` is the conjunction; its preservation has
one lemma per group of actions.

**Refinement.** `SharedRefinement` maps the records of each copy and of the tip, and what
was promised, to `SharedRecords`. A step of a device adds or removes one record of its own
copy, brings in records the store has, or stores its copy; a merge or fast-forward brings
in what origin/master holds, which `TrackedOK` places in the past of the tip, whose
records the tip has by `HistoryOK`. `LocalDataStays` is the same
analysis for one device. **Markers**: what is about to be flattened has none
(`FlattenedClean`), and of what is committed a file with markers equals that of a parent
(`MarkersTraced`). **Linear pushes**: what a device has and the store has not is free of
merges but for the one about to be flattened and those of `unflattened` (`LinearHead`,
`Accounted`). A merge in progress that no run is resolving waits for a file that cannot be
repaired, or was left by a run cut short, in which case the commit that finishes it has the
parents that `Interrupt` noted (`MergeLeft`). That needs HEAD and MERGE_HEAD to stay as they
are until then, which is so since every command that would change them commits first.

**Queue.** The invariant says that there is a command in progress exactly if one caller is
`posted`; that the channels together hold at most that caller's command or answer and, but
for progress lines, nothing else (`ChannelsOfCurrent`); and that the callers that wait are
exactly those in `waiters` and `woken`, each once (`WaitersWait`). `OneAtATime` and
`RestartLosesNothing` follow from it.

**Enrollment.** `KeysAreWrapped` alone is not inductive: a page that holds a key in a local
variable across an await puts it into the service worker later. `FlowIs` says what is
known between any two awaits: a key that is `have`, `configured` or about to be pushed is
wrapped, and for the wallet key that signed; a `put` has a key and a wallet. Wraps are
create-only, so nothing another device does takes that away (`WrapsStay`, `OthersKeep`).

**Prices.** `LossNeedsOverlap` needs to know, at the write, that the merge has every day of
the stored history, which was read commands earlier and from one directory after the
other: `MergingOK` says what has been read of it, unless the caller is `late`.
`CacheFollowsStore` needs in addition that a history read from one directory was read at
once (`ReadingOK`). It holds for any spellings and any cache keys: the code folds the case of
the token but not of the currency, and what that leaves stale is in `aside` (section 5).
`RefusalsHaveAReason` counts every request of the gateway, the lookups of `getEODPrice`
included; what those gave up when nobody had signed is excepted by name (`unsigned`).

**Files of an account.** `FilesInOrder` says of every call what it has read and that it is
no newer than the feed (`CallOK`) and, of a call that nobody else changed a file under,
that what it has written so far is there (`Alone`). The steps of others leave the first as
it is and end the second by making the call `late` (`CallGoesOn`), so that each action is a
lemma about its own call. `ImportsRepair` is `Alone` at the last write; the balance of a
row is that of the last record of its transaction because places follow blocks.
`WalksAreComplete` needs to know, between two pages, that all items from the cursor on have
been read (`Walked`): an item that arrives meanwhile moves the pages, but only towards
items that were read. `RowsStayUnique` is about the merges of an import and of a sync (each
keeps one row of what it takes for the same) and about what calls carry from a read to a
write (`Typed`). For the pools this is `EntryOnce`: an import merges by block, a sync by
block and hash, and the next import deals with what the sync left.

`PrincipalIsNoReward` is about a server that says what is (`ServerIsTruthful`): answers are
complete up to some block; a real sample shows the principal and what the pool has paid by
then; between two of them the principal grows by no more than the server shows to move,
unless there is a transaction at the second. This spells out the code's own premise, that "a
pool balance only changes two ways" (`accounting-export.js` 750). TLC finds it to hold of the
instance (`HistoryIsTruthful`, an `ASSUME`), whose history also has a sample that the
conversion skips, so that the theorem is not about histories without one. Under it, at every
moment and in every call between its read and its write, the entries of a pool are those of
real samples (`EntryTrue`), and none that comes before another is missing, but for the
skipped ones (`Split`; `PoolsTrue`). Working out the earnings gives each entry at most what
was paid since the one before it (`EarningsBounded`), with two exceptions that the property
names, as the code does book principal there: what the account moved at a skipped sample in
between (`Unseen`), and the withdrawal of the second of two entries of one block, which only
a sync leaves.

**Sums.** Sums over finite sets are chosen by the library among functions on their subsets.
That there is one, and that it does not matter which element is taken first, is shown by
taking a smallest set for which it fails (`SumFacts!NothingLess`); so are the sum of a sum,
a sum in groups and bounds of sums. This is how a fact about every finite set is reached
without a theorem of induction.

**Books.** The theorems are about any accounts, tokens, prices and lists of deeds, over any
number of days, with a sample and a price of the owner's (one of each, the model's bound) at
any point. What the report says is a function of the rows there are, computed
anew: positions by a recursion over positions, within one over the flows of a day, within
one over the days. An invariant of the steps says nothing about such a recursion, so the proof
has two halves that meet in one statement.

The first half is about a report of any rows. `FoundIn` gives, position by position, an
amount no larger than asked and leaves the rest as it was (`Gave`), so a realization takes
an amount out of the open positions or adds to `short` what is missing (`Gone`), and an
opening brings one in (`Came`); both keep cost and profit balanced (`KeepsPaid`). A day's
entry is both, in turn: of what is withdrawn, what the owner priced, swaps and the
rest take no more than there is, and together all of it (`Entered`). The rows of a hash are
summed at the first of them that is visited, so each row of a day is counted once, if all
rows of a hash are of one day and all or none of them of a pool: a day adds to the
holdings what its rows change outside of the pools (`Adds`). By induction over the days
(`StepByStep`, from the well-foundedness of numbers) a book tells what the rows changed
until then, and each swap it notes has the figure that its key and day give, whichever token's
rows it was found in (`Tells`).

The second half is about the rows. `Stored` says that each is a sample or the row of one
move of a deed that happened, on its day, with its key, and that successive real
balances differ by what was moved. It holds initially, `Happen` appends rows that fit, and
`Observe` one that moves nothing; with `StakeTold`, what pools were given and paid on each
day, it is inductive. `BooksInv` adds that each book tells of the rows as they are; since
reports are derived anew this follows from the first half after every step.

`HoldingsMatch` is then arithmetic of sums: what rows of an account change adds up to its
last real balance, and what they move to and from the pools, to `stake` less the rewards.
`ShortOnlyForRewards`: balances are not negative, so more can be taken out only of what
never came in, which is rewards. `BooksBalance` needs that the value of a position is a
whole multiple of its amount (`Wholes`), for which prices and figures must be, down the
whole choice of a swap's figure; this is what `ScaleAssumption` is for. `SwapValueShared`:
the notes of both sides are of the same key, their rows are of one deed and so of one day,
hence the same figure.

The portfolio page works its figures out from the same rows and changes nothing
(`PortfolioKeepsBooks`).

**Migration.** That a ready worker finds a whole repository needs to know what a worker that
copies has done: of what it read, each file is written or still in `todo` (`CopyInv`). The
marker is written only when nothing is left, so it stands for a full copy, until a deletion
(`MarkerInv`), and a worker that is ready has seen it or has nothing to copy (`ReadyInv`).
A directory for packs exists beside the objects of every ready worker (`PackInv`). Nothing
old returns because a deletion goes through its three steps in order (`OrderInv`), and
while no worker uses or deletes what another copies, nothing newer is there to be replaced
and nobody who read the legacy files before a deletion is left to write them (`AloneInv`).
Each of these begins with what the browser has not refused, since with a refusal they fail:
`WholeWhenUsed` excepts a database that could not be opened, `NothingOldReturns` also one
that could not be deleted (section 5).

**Gateway.** While nothing crosses a dialog, at most one throwaway sign-in is under way, no
logout and no other signature beside it, and it remembers the connected account's own entry
(`AloneInDialog`); so what it puts back is right, and whoever signs for the gateway signs
with an entry that is the connected account's. The cached token is therefore of that
account (`OfOneAccount`).

**Pages.** Each page has an invariant about the latest render, run or change. Of the
transactions page: while it is the latest, the table holds exactly the chunks it has come
to, of what is chosen (`Filling`); an older one sees that it is not current at each await
and writes nothing more. Of the year report page, whose renders have no generation: as long
as a render has met no other, the rows are the report's up to where it is, with the
columns and the list of exclusions it read (`RenderHolds`); a change of the list holds what
it read and only others' changes, which are recorded, take that away (`ChangeHolds`,
`WishKept`); the tokens without a market are on the list or about to be, whatever the user
asked of them by an entry without a contract (`LeftWithNoMarket`). Of the portfolio page: a
run that no other overlaps and that computes anew sees one world, one that does not finds its
base cached, so that each part it draws is of the summary's base (`RunHolds`, `SummaryHolds`,
`ChartHolds`, `FlowsHold`).

Only model-checked, on the instances above: liveness (`Convergence`, `RunsEnd`,
`CallsSettleWhileItRuns`, `BackgroundSettles`), since TLAPS does not prove fairness
arguments; and what `Portfolio` finds out about flows: `GenuineFlowsAreSeen`,
`OwnMovesStayInside`, `DaysAgree`, `Reconciles`. The first two are true of the deeds of the
instances and not of any rows there are: the rules that pair movements are heuristics, and
section 5 names rows that mislead them. The other two, which set the flows against the
books, also hold only if an asset has one price in all its buckets, and rest on sorted and
selected sequences (`SortSeq`, `SelectSeq`), which none of the provers can expand.
`BooksInv` itself is proved and no invariant of a run: it quantifies over the integers.

## 5. Findings

Three runs violate a statement of a comment.

1. `GitSync_linear`: a run that ends between `merge` and the flatten leaves MERGE_HEAD; the
   next run's `commit_all` makes a merge commit of it, `sync` has nothing left to merge and
   pushes it, although "flattenOntoRemote keeps every push linear" (`wasmgitworker.js`
   302-303, 436-438). Nothing is lost by it; a pushed merge commit is what the code elsewhere
   says damages a store (436).
2. `KeyEnrollment_race`: after a race of two different wallet keys the loser goes on with
   its own useless key, and no `NeedsEnrollmentError` follows (`encryptionkey.js` 228-230).
3. `Books_staked`: the staked NEAR shown is not the latest balance of the pools but the last
   that was not zero (`portfolio-data.js` 221, 350). After everything is unstaked it is
   counted beside the liquid NEAR that came back.

What else came up while modelling. Each is a behaviour of the model that a property
excepts by name, or one noted here for a reader of the code.

- **Synchronization.** A clean merge that git commits by itself leaves neither a conflict nor
  MERGE_HEAD for line 394 to see, and is pushed unflattened, too.
- **Migration.** The browser may refuse to open or to delete the legacy database (an error,
  or a connection of another tab). A refused deletion is taken for done and the marker is
  removed, so the next start copies back what the user had deleted
  (`migrate-idbfs-to-opfs.js` 118-124, `wasmgitworker.js` 488-490). A refused opening is taken
  for no legacy data, so the repository is used without it, and a later start that can open
  it, as no marker was written, copies it over what was written since. The test of the
  deletion (`migrate-idbfs-to-opfs.spec.js` 97-106) meets no refusal.
- **Queue.** A worker that fails to load fires its error once. Calls made afterwards, or
  queued behind the one in flight, never settle (`gitstorage.js` 58-67).
- **Enrollment.** The key in memory outlives a logout and encrypts the next account's store
  (`encryptionkey.js` 233).
- **Prices.** The cache key keeps the case of the currency, the path of the file does not,
  so a write under `NOK` leaves `nok` stale until a sync or a reload, against the comment at
  `pricedata.js` 16-18 (21-26, 302-312; `domainobjectstore.js` 418, 427). `CacheAgrees`
  excepts it. A lookup that fails because nobody has signed gives its name up for the session
  (453-463), so that it stays without a price after the user has signed, against "should open
  again the moment somebody has" (234-237); neither the refresh button nor a sync takes that
  back. `RefusedForAReason` excepts it.
- **Access** (`arizgatewayaccess.js`). A 401 for an old token removes whatever token is
  stored by then, one just signed included. A logout while a signature is pending stores a
  token after the logout. `requireWalletAccount` may connect another account under an old
  cached token. Two throwaway sign-ins at once leave the wallet with the other account's
  entry. `AccountsAgree` excepts what crosses.
- **Transactions page.** Choosing a token while an account loads aborts the load, shows the
  old account's rows and leaves the spinner on.
- **Year report page.** Renders have no generation: two at once leave the rows of two
  reports or every day twice. A render that fails leaves the new titles over the old rows,
  and the message of a report in no currency keeps the old totals. Overlapping changes of
  the exclusions lose one. "Include again" of an entry without a contract removes all such
  entries and keeps the value `undefined` in the list, so that a token without a market is
  left out again by the next combined report, although the user's choice is to be remembered
  (`token-exclusions.js` 22-29). `ExclusionsKept` excepts that.
- **Portfolio page.** The opening of a period is cached for good, a forced refresh included
  (`portfolio-data.js`), so after new data it may be of another base than the rest; a forced
  refresh computes the base once for every part of the page; of two overlapping
  computations the older one may overwrite the newer's cache.
- **Year report.** A swap with two destinations is booked in full at each of them, and one
  whose legs fall on two days is valued at two days' prices; `SwapValueShared` excepts the
  first, and a deed of the model happens within a day. Rewards open no position, so taking
  them out of a pool is a withdrawal larger than what is open. Expenses of tokens realize
  nothing. The combined report drops the profit of tokens that had no price in the period
  (`all-tokens-collect.js` 172-184).
- **Portfolio flows.** Two unrelated legs of exactly equal units, assets and day in two
  buckets are taken for a move of one's own (rule 1). A payment through `intents.near`, or
  to an implicit account, shortly before something of like value arrives from there, is
  hidden as a trade (rule 2), and so is one before a purchase in instalments (rule 2b): the
  rows do not tell whose account in intents was paid. `GenuineFlowsAreSeen` excepts what
  looks so much like a trade (`LooksLikeATrade`), and a deed of the runs takes what arrives
  from a venue for the owner's own. The panel's reconciliation counts the cost of tokens that
  have no price today on one side only (`portfolio-data.js` 207-210 against 246-291 and 317).
- **Import.** When a pool has two samples of one staking transaction, as when its receipts
  fall on two blocks, the second is dropped as a duplicate; what moved there is left to the
  next entry, and if that has no transaction, booked as reward (`accounting-export.js`
  513-522, 746-766). A sync may leave two entries of a block beside each other, of different
  hashes; of those the second may book a withdrawal as reward until the next import. A row
  that was stored under `block-N`, because the server had no hash yet, stays beside the one
  with the hash. A sync keeps the remote's status of a confidential item and may so unsettle
  it until the next fetch. `EarningsAreRewards` and `HistoryKept` name these.
- **Counterparties page** (not modelled). `save()` writes back what was read when the page
  was opened, in two writes, and drops the `type` of an account; a classification the user
  chose may be flipped by the automatic one.

## 6. Plan

Done: `GitSync` with `SharedRecords`, `WorkerQueue`, `KeyEnrollment`, `PriceStore`,
`GatewayAccess` and `Migration`, `AccountExport`, `ConfidentialLedger` and `AccountFiles`,
the three pages and `YearReport`, all with proofs; `Portfolio`, model-checked.

Left, in this order:

1. The token metadata cache and the counterparties page: whole files written back from what
   was read before a sync.
2. The rest of `jsonmerge.js`: nested values, derived metadata and arrays without a rule, as
   a pure algorithm against a reference union. The identities of an account's files are in
   `AccountFiles`.
3. The versions of the service worker in `KeyEnrollment`: a new one that takes over without
   a key.
4. Liquid staking tokens in `YearReport` and `Portfolio`.

## 7. Not modelled

- `near/account.js`, `stakingpool.js`, `nearblocks.js`, `fastnear.js`, `rpc.js`,
  `fungibletoken.js`, `intents-tokens.js`: requests to public services and conversions of
  what they answer, with little state of their own; with them the older fetch of
  transactions that the accounting export replaced.
- Ariz credits, the staking page, the progress bar, charts, print pages and the HTML of all
  components: formatting and rendering. The counterparties page, planned.
- `yearreporttestdata.js`, `intentshistory.mock.js`: data of tests. `scripts/`,
  `test_servers/`, the Web4 contract: tooling and deployment.
- The store's server and remote helper, libgit2 and wasm-git, the wallet, the browser:
  external, as far as the code relies on them.
- Of the git worker: zip export, plain reads, `configure_user`. Of encryption: ciphers,
  the export format, the 15 s wait for a service worker to take over. Of the accounting
  export: the V1 format and imports that do not merge. Of the confidential history: the
  retries of a single page, which are one failure.
- An import with a hedged wallet key always ends with an error in the model, as in the
  code (`encryptionkey.js` 268 signs, too), although `docs/encrypted-storage.md` 99-100
  suggests it as the way out.
- A page that reads a file and adds to it does so in two commands of the worker; `Write` of
  `GitSync` is one step. What a write between them loses is checked where the code reads and
  writes over awaits: `PriceStore`, `AccountFiles`, `YearReportPage`.
- In `AccountFiles`, git's own merges that need no repair, which keep or replace a whole file
  or join its lines: `SyncArrives` is the JSON merge. The metadata of the records file.
- The flow decomposition orders groups of movements by their first leg, gas included
  (`flow-decomposition.js` 236-242); the model by the first that is left without the gas.
  The groups are the same, and so is what is in them.
- Two accounts in one import: each has files of its own, so one account shows what can
  happen to it.

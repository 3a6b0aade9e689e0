----------------------------- MODULE PriceStore -----------------------------
(***************************************************************************)
(* The price histories of one page: pricedata/pricedata.js, the directories *)
(* under pricehistory/ of storage/domainobjectstore.js, requests that must  *)
(* not open a wallet dialog (fetchFromArizGateway of                        *)
(* arizgateway/arizgatewayaccess.js) and what sync() of                     *)
(* storage/gitstorage.js does to them.                                      *)
(*                                                                         *)
(* A history is the set of days it has a price for.  One step is one worker *)
(* command or one request with what the page does when it is answered, up   *)
(* to the next await: the worker answers one command at a time, and the     *)
(* page handles that answer before the next is served.                      *)
(***************************************************************************)
EXTENDS Naturals, FiniteSets

CONSTANTS
  Caller,    \* what asks for prices, one thing after the other: a report, ...
  Name,      \* a token and a currency as a caller spells them
  Key,       \* the keys of priceHistoryCache
  KeyOf,     \* priceHistoryCacheKey(): the case of the token is ignored, that of the
             \* currency is not
  Dir,       \* a directory, in which a currency has one file
  DirOf,     \* the directory with the spelling of a name; the case of its currency
             \* is ignored
  Token,     \* what has a price history
  TokenOf,   \* the token of each directory: equal but for upper and lower case
  Listed,    \* how refreshStoredPriceHistories() spells a history that is stored
  Asks,      \* what each caller calls: getEODPrice() and getEODPriceMap() with some
             \* names, refreshStoredPriceHistories() or not
  MaxDay,    \* bound: days are 1 .. MaxDay
  Offers,    \* bound: what the gateway, or another device, may have of a history
  MaxArrivals, \* bound: synchronizations that bring prices
  NoName     \* null

Day == 1 .. MaxDay
NoHistory == {0}     \* nothing is cached: no set of days

Question == [lookup : SUBSET Name, map : SUBSET Name, refresh : BOOLEAN]

ASSUME PriceAssumption ==
  /\ KeyOf \in [Name -> Key]
  /\ DirOf \in [Name -> Dir]
  /\ TokenOf \in [Dir -> Token]
  /\ Listed \in [Dir -> Name]
  /\ \A d \in Dir : DirOf[Listed[d]] = d
  /\ \A n, m \in Name : KeyOf[n] = KeyOf[m] => TokenOf[DirOf[n]] = TokenOf[DirOf[m]]
  /\ Asks \in [Caller -> Question]
  /\ MaxDay \in Nat
  /\ Offers \subseteq SUBSET Day
  /\ MaxArrivals \in Nat
  /\ NoName \notin Name

VARIABLES
  dirs,      \* the directories that exist
  file,      \* file[d]: the days of the history in d
  cache,     \* cache[k]: priceHistoryCache
  skip,      \* skipFetchingPrices: the names that are not fetched any more
  latch,     \* priceServiceDown
  noPrice,   \* what getNoPriceTokens() gives in this session
  fresh,     \* hasFreshToken()
  syncing,   \* a sync has landed and its cleaning up is still to come
  call,      \* call[c]: what c is doing
  refused,   \* the callers whose last question ended for want of a signature
  unsigned,  \* the names that were given up in skip for want of a signature
  aside,     \* the keys that were cached when their history was written under another
  late,      \* the callers whose history was changed by others since they read it
  arrivals,  \* how many synchronizations brought prices
  behind     \* the tokens that a sync has brought prices of, past the cache

storeVars == <<dirs, file>>
latches == <<skip, latch>>
ghosts == <<refused, unsigned, late, aside, behind, arrivals>>
vars == <<storeVars, cache, latches, noPrice, fresh, syncing, call, ghosts>>

Call == [op : {"none", "lookup", "map", "refresh"},
         step : {"idle", "list", "read", "decide", "fetch", "place", "write", "next"},
         why : {"first", "existing", "again"},
         name : Name \cup {NoName},
         day : {0} \cup Day,
         todo : SUBSET Dir,       \* directories still to be read
         got : SUBSET Day,        \* the history read
         brought : SUBSET Day,    \* the history the gateway sent
         into : SUBSET Dir,       \* where it is written
         left : SUBSET Dir]       \* histories still to be refreshed

NoCall == [op |-> "none", step |-> "idle", why |-> "first", name |-> NoName, day |-> 0,
           todo |-> {}, got |-> {}, brought |-> {}, into |-> {}, left |-> {}]

TypeOK ==
  /\ dirs \subseteq Dir
  /\ file \in [Dir -> SUBSET Day]
  /\ cache \in [Key -> {NoHistory} \cup SUBSET Day]
  /\ skip \subseteq Name
  /\ latch \in {"open", "needs-signature", "no-answer"}
  /\ noPrice \subseteq Token
  /\ fresh \in BOOLEAN
  /\ syncing \in BOOLEAN
  /\ call \in [Caller -> Call]
  /\ refused \subseteq Caller
  /\ unsigned \subseteq Name
  /\ aside \subseteq Key
  /\ late \subseteq Caller
  /\ behind \subseteq Token
  /\ arrivals \in 0 .. MaxArrivals

TokenFor(n) == TokenOf[DirOf[n]]
DirsOf(t) == {d \in dirs : TokenOf[d] = t}
Stored(t) == UNION {file[d] : d \in DirsOf(t)}
TwoSpellings(t) == \E d, e \in DirsOf(t) : d # e

\* A page is opened.  The tokens without a price are asked for once; if that fails there
\* are none for the session.
Init ==
  /\ dirs = {}
  /\ file = [d \in Dir |-> {}]
  /\ cache = [k \in Key |-> NoHistory]
  /\ skip = {}
  /\ latch = "open"
  /\ noPrice \in SUBSET Token
  /\ fresh \in BOOLEAN
  /\ syncing = FALSE
  /\ call = [c \in Caller |-> NoCall]
  /\ refused = {}
  /\ unsigned = {}
  /\ aside = {}
  /\ late = {}
  /\ behind = {}
  /\ arrivals = 0

At(c, step) == call[c].step = step
Become(c, f) == call' = [call EXCEPT ![c] = f]

\* The question ends, and what is refused for want of a signature is no price.
Finish(c) == Become(c, NoCall) /\ refused' = refused \ {c}
Refuse(c) == Become(c, NoCall) /\ refused' = refused \cup {c}
Goto(c, f) == Become(c, f) /\ UNCHANGED refused

---------------------------------------------------------------------------
(* getHistoricalPriceData() of the session: what is cached, or the store. *)

\* getEODPrice() and getEODPriceMap() begin.
Ask(c, op, n, day) ==
  LET f == [NoCall EXCEPT !.op = op, !.name = n, !.day = day] IN
  /\ At(c, "idle")
  /\ \/ /\ cache[KeyOf[n]] # NoHistory
        /\ Become(c, [f EXCEPT !.step = "decide", !.got = cache[KeyOf[n]]])
     \/ /\ cache[KeyOf[n]] = NoHistory
        /\ Become(c, [f EXCEPT !.step = "list"])
  /\ refused' = refused \ {c}
  /\ UNCHANGED <<storeVars, cache, latches, noPrice, fresh, syncing>>
  /\ UNCHANGED <<unsigned, late, aside, behind, arrivals>>

AskPrice(c, n, day) == n \in Asks[c].lookup /\ Ask(c, "lookup", n, day)
AskPriceMap(c, n) == n \in Asks[c].map /\ Ask(c, "map", n, 0)

\* A history was read: for the session, which caches it, or to be merged.
Loaded(c, days) ==
  LET f == [call[c] EXCEPT !.got = days, !.todo = {}] IN
  \/ /\ f.why # "existing"
     /\ cache' = [cache EXCEPT ![KeyOf[f.name]] = days]
     /\ aside' = aside \ {KeyOf[f.name]}
     /\ Become(c, [f EXCEPT !.step = "decide"])
  \/ /\ f.why = "existing"
     /\ Become(c, [f EXCEPT !.step = "place"])
     /\ UNCHANGED <<cache, aside>>

\* findPriceTokenDirs(): the directories with this name, whatever its case.
List(c) ==
  LET ds == DirsOf(TokenFor(call[c].name)) IN
  /\ At(c, "list")
  /\ \/ ds = {} /\ Loaded(c, {})
     \/ /\ ds # {}
        /\ Become(c, [call[c] EXCEPT !.step = "read", !.todo = ds])
        /\ UNCHANGED <<cache, aside>>
  /\ UNCHANGED <<storeVars, latches, noPrice, fresh, syncing>>
  /\ UNCHANGED <<refused, unsigned, late, behind, arrivals>>

\* One of them is read, the exact spelling last.
ReadDir(c, d) ==
  LET f == call[c] IN
  /\ At(c, "read")
  /\ d \in f.todo
  /\ d = DirOf[f.name] => f.todo = {d}
  /\ \/ f.todo = {d} /\ Loaded(c, f.got \cup file[d])
     \/ /\ f.todo # {d}
        /\ Become(c, [f EXCEPT !.todo = @ \ {d}, !.got = @ \cup file[d]])
        /\ UNCHANGED <<cache, aside>>
  /\ UNCHANGED <<storeVars, latches, noPrice, fresh, syncing>>
  /\ UNCHANGED <<refused, unsigned, late, behind, arrivals>>

---------------------------------------------------------------------------
(* fetchHistoricalPricesFromArizGateway() *)

\* setSkipFetchingPrices()
GivenUp(f) == skip \cup {f.name}

\* It throws while c was doing f.  getEODPrice gives the name up until the page is
\* reloaded, whatever stopped it; getEODPriceMap and the refresh tell what stops every
\* token from what stops one.
Throw(c, f, error) ==
  \/ /\ f.op = "lookup"
     /\ skip' = GivenUp(f)
     /\ \/ error = "unsigned" /\ Refuse(c) /\ unsigned' = unsigned \cup {f.name}
        \/ error # "unsigned" /\ Finish(c) /\ UNCHANGED unsigned
  \/ /\ f.op # "lookup" /\ error = "unsigned"
     /\ Refuse(c)
     /\ UNCHANGED <<skip, unsigned>>
  \/ /\ \/ f.op = "map" /\ error # "unsigned"
        \/ f.op = "refresh" /\ error = "unanswered"
     /\ Finish(c)
     /\ UNCHANGED <<skip, unsigned>>
  \/ /\ f.op = "refresh" /\ error = "failed"
     /\ Goto(c, [f EXCEPT !.step = "next"])
     /\ UNCHANGED <<skip, unsigned>>

\* Variant for the mutation checks: a door once closed stays closed.
DoorShut == latch

\* "A door closed because nobody had signed should open again".
Door == IF latch = "needs-signature" /\ fresh THEN "open" ELSE latch

\* It begins: the latch, the token, the request.
Fetch(c, f) ==
  \/ /\ Door # "open"
     /\ latch' = Door
     /\ Throw(c, f, IF Door = "needs-signature" THEN "unsigned" ELSE "unanswered")
  \/ /\ Door = "open" /\ ~fresh
     /\ latch' = "needs-signature"
     /\ Throw(c, f, "unsigned")
  \/ /\ Door = "open" /\ fresh
     /\ latch' = "open"
     /\ Goto(c, [f EXCEPT !.step = "fetch", !.got = {}])
     /\ UNCHANGED <<skip, unsigned>>

\* The request ends: with what the gateway holds of the history, which may be little; by
\* a 401, which drops the cached token; by another error; or by the timeout.
Answer(c) ==
  LET f == call[c] IN
  /\ At(c, "fetch")
  /\ \/ /\ \E days \in Offers :
             Goto(c, [f EXCEPT !.step = "list", !.why = "existing", !.brought = days])
        /\ late' = late \ {c}
        /\ UNCHANGED <<latches, unsigned, fresh>>
     \/ /\ fresh' = FALSE
        /\ latch' = "needs-signature"
        /\ Throw(c, f, "unsigned")
        /\ UNCHANGED late
     \/ Throw(c, f, "failed") /\ UNCHANGED <<latch, fresh, late>>
     \/ /\ latch' = "no-answer"
        /\ Throw(c, f, "unanswered")
        /\ UNCHANGED <<fresh, late>>
  /\ UNCHANGED <<storeVars, cache, noPrice, syncing, aside, behind, arrivals>>

\* getPriceDataPath(): the directory that exists, whatever its case.
Place(c) ==
  LET f == call[c]
      ds == DirsOf(TokenFor(f.name))
      own == DirOf[f.name]
  IN
  /\ At(c, "place")
  /\ \E d \in IF own \in ds \/ ds = {} THEN {own} ELSE ds :
       Become(c, [f EXCEPT !.step = "write", !.into = {d}])
  /\ UNCHANGED <<storeVars, cache, latches, noPrice, fresh, syncing, ghosts>>

\* Those that have read a history of t, or are about to, to merge it.
Merging(t) ==
  {c \in Caller : call[c].why = "existing" /\ TokenFor(call[c].name) = t}

\* Variant for the mutation checks: what the gateway sent replaces the history.
MergedOver(f) == f.brought

\* "Merge, never replace."
MergedHistory(f) == f.brought \cup f.got

\* Variant for the mutation checks: the cached history is kept.
KeptHistories(f) == cache

\* The cached history that was merged is dropped.
OtherHistories(f) == [cache EXCEPT ![KeyOf[f.name]] = NoHistory]

\* The keys under which the history that f writes is cached, but for the one it drops.
LeftCached(f) ==
  {KeyOf[n] : n \in {m \in Name : /\ TokenFor(m) = TokenFor(f.name)
                                 /\ KeyOf[m] # KeyOf[f.name]
                                 /\ cache[KeyOf[m]] # NoHistory}}

\* The merged history is written; a report reads it again, the refresh goes on.
Write(c) ==
  LET f == call[c]
      done == [f EXCEPT !.got = {}, !.brought = {}, !.into = {}]
  IN
  /\ At(c, "write")
  /\ \E d \in f.into :
       /\ dirs' = dirs \cup {d}
       /\ file' = [file EXCEPT ![d] = MergedHistory(f)]
       /\ late' = (late \cup Merging(TokenOf[d])) \ {c}
  /\ cache' = OtherHistories(f)
  /\ aside' = (aside \cup LeftCached(f)) \ {KeyOf[f.name]}
  /\ \/ f.op = "refresh" /\ Become(c, [done EXCEPT !.step = "next", !.why = "first"])
     \/ f.op # "refresh" /\ Become(c, [done EXCEPT !.step = "list", !.why = "again"])
  /\ UNCHANGED <<latches, noPrice, fresh, syncing, refused, unsigned, behind, arrivals>>

---------------------------------------------------------------------------
(* getEODPrice(), getEODPriceMap() and refreshStoredPriceHistories() *)

\* A day the gateway has already answered past.
Hole(days, day) == \E later \in days : day < later

Missing(f) == IF f.op = "map" THEN f.got = {} ELSE f.day \notin f.got

\* With the history read: a price, no price, or a request for the history.
Decide(c) ==
  LET f == call[c]
      known == TokenFor(f.name) \in noPrice
  IN
  /\ At(c, "decide") /\ f.why = "first"
  /\ \/ ~Missing(f) /\ Finish(c) /\ UNCHANGED <<latches, unsigned>>
     \/ /\ Missing(f) /\ f.op = "lookup" /\ f.name \notin skip /\ known
        /\ skip' = GivenUp(f)
        /\ Finish(c)
        /\ UNCHANGED <<latch, unsigned>>
     \/ /\ Missing(f) /\ f.op = "lookup" /\ f.name \in skip
        /\ \/ f.name \in unsigned /\ Refuse(c)
           \/ f.name \notin unsigned /\ Finish(c)
        /\ UNCHANGED <<latches, unsigned>>
     \/ /\ Missing(f)
        /\ \/ f.op = "lookup" /\ f.name \notin skip /\ ~known /\ Hole(f.got, f.day)
           \/ f.op = "map" /\ known
        /\ Finish(c)
        /\ UNCHANGED <<latches, unsigned>>
     \/ /\ Missing(f) /\ ~known
        /\ f.op = "lookup" => f.name \notin skip /\ ~Hole(f.got, f.day)
        /\ Fetch(c, f)
  /\ UNCHANGED <<storeVars, cache, noPrice, fresh, syncing, late, aside, behind, arrivals>>

\* After the fetch: a day that is still missing is not asked for again.
Conclude(c) ==
  LET f == call[c] IN
  /\ At(c, "decide") /\ f.why = "again"
  /\ skip' = IF f.op = "lookup" /\ Missing(f) THEN GivenUp(f) ELSE skip
  /\ Finish(c)
  /\ UNCHANGED <<storeVars, cache, latch, noPrice, fresh, syncing>>
  /\ UNCHANGED <<unsigned, late, aside, behind, arrivals>>

\* "Load from server": listStoredPriceHistories(), one entry per token.
Refresh(c) ==
  /\ At(c, "idle")
  /\ Asks[c].refresh
  /\ \E ds \in SUBSET dirs :
       /\ \A d \in dirs : Cardinality({e \in ds : TokenOf[e] = TokenOf[d]}) = 1
       /\ Become(c, [NoCall EXCEPT !.op = "refresh", !.step = "next", !.left = ds])
  /\ refused' = refused \ {c}
  /\ UNCHANGED <<storeVars, cache, latches, noPrice, fresh, syncing>>
  /\ UNCHANGED <<unsigned, late, aside, behind, arrivals>>

\* The next history, or the end of the list; a token without a price is passed over.
RefreshNext(c) ==
  LET f == call[c] IN
  /\ At(c, "next")
  /\ \/ f.left = {} /\ Finish(c) /\ UNCHANGED <<latches, unsigned>>
     \/ \E d \in f.left :
          LET g == [f EXCEPT !.left = @ \ {d}, !.name = Listed[d]] IN
          \/ /\ TokenOf[d] \in noPrice
             /\ Goto(c, g)
             /\ UNCHANGED <<latches, unsigned>>
          \/ TokenOf[d] \notin noPrice /\ Fetch(c, g)
  /\ UNCHANGED <<storeVars, cache, noPrice, fresh, syncing, late, aside, behind, arrivals>>

---------------------------------------------------------------------------
(* The session: signing, the refresh button, synchronization. *)

\* Something the user clicked opens the wallet and gets a new token.
SignIn ==
  /\ ~fresh
  /\ fresh' = TRUE
  /\ UNCHANGED <<storeVars, cache, latches, noPrice, syncing, call, ghosts>>

\* The token expires, or the user signs out.
Lapse ==
  /\ fresh
  /\ fresh' = FALSE
  /\ UNCHANGED <<storeVars, cache, latches, noPrice, syncing, call, ghosts>>

\* resetPriceService(), by the refresh button of the portfolio.
ResetPriceService ==
  /\ latch # "open"
  /\ latch' = "open"
  /\ UNCHANGED <<storeVars, cache, skip, noPrice, fresh, syncing, call, ghosts>>

\* Prices of another device arrive in d, by the sync command or by a clone.
Arrive(d) ==
  /\ ~syncing
  /\ arrivals < MaxArrivals
  /\ arrivals' = arrivals + 1
  /\ \E days \in Offers : file' = [file EXCEPT ![d] = @ \cup days]
  /\ dirs' = dirs \cup {d}
  /\ late' = late \cup Merging(TokenOf[d])

\* The sync command ends well: sync() goes on to clear the cache.
SyncLands(d) ==
  /\ Arrive(d)
  /\ syncing' = TRUE
  /\ UNCHANGED <<cache, latches, noPrice, fresh, call, refused, unsigned, aside, behind>>

\* Variant for the mutation checks: the cached histories are left alone.
StillCached == cache

\* clearPriceHistoryCache()
NothingCached == [k \in Key |-> NoHistory]

\* clearPriceHistoryCache() and resetPriceService() of sync().
SyncClears ==
  /\ syncing
  /\ syncing' = FALSE
  /\ cache' = NothingCached
  /\ latch' = "open"
  /\ behind' = {}
  /\ aside' = {}
  /\ UNCHANGED <<storeVars, skip, noPrice, fresh, call, refused, unsigned, late, arrivals>>

\* The sync command merges what the other device has and fails later (its push does), or
\* an empty store is cloned: nothing clears the cache.
SyncBypasses(d) ==
  /\ Arrive(d)
  /\ behind' = behind \cup {TokenOf[d]}
  /\ UNCHANGED <<cache, latches, noPrice, fresh, syncing, call, refused, unsigned, aside>>

---------------------------------------------------------------------------
Next ==
  \/ \E c \in Caller :
       \/ List(c) \/ Answer(c) \/ Place(c) \/ Write(c)
       \/ Decide(c) \/ Conclude(c) \/ Refresh(c) \/ RefreshNext(c)
       \/ \E d \in Dir : ReadDir(c, d)
       \/ \E n \in Name, day \in Day : AskPrice(c, n, day)
       \/ \E n \in Name : AskPriceMap(c, n)
  \/ SignIn \/ Lapse \/ ResetPriceService \/ SyncClears
  \/ \E d \in Dir : SyncLands(d) \/ SyncBypasses(d)

Spec == Init /\ [][Next]_vars

---------------------------------------------------------------------------
(* Properties. *)

\* What is cached of a name is what is stored of it.  Left out: tokens with two
\* directories, which are not read at once, those whose prices arrived with a sync that
\* failed or with a clone, the moment between a sync and its cleaning up, and what was
\* cached with the currency spelled in another case than that of a later write, which
\* drops the entry of its own spelling only ("nok" and "NOK" are one file, two keys).
Agrees(n) ==
  \/ cache[KeyOf[n]] = NoHistory
  \/ syncing \/ TokenFor(n) \in behind \/ TwoSpellings(TokenFor(n)) \/ KeyOf[n] \in aside
  \/ cache[KeyOf[n]] = Stored(TokenFor(n))

\* "A token whose history arrives mid-session is picked up on the next read rather than
\* staying at its pre-fetch state" (pricedata.js 16-18), and after a sync too
\* (gitstorage.js 200-202), whoever fetches or reads it meanwhile; with the currency in
\* one case only, as the exceptions of Agrees say.
CacheAgrees == \A n \in Name : Agrees(n)

\* "Overwriting cost one real store 4 252 days" (pricedata.js 268-273): a stored day is
\* only ever lost to a fetch that had read the history before somebody else changed it.
LossNeedsOverlap ==
  [][\A t \in Token : Stored(t) \subseteq Stored(t)' \/ \E c \in late : Write(c)]_vars

\* getEODPrice() asks for a name that it gave up when nobody had signed.
GivenUpUnsigned(c) == call[c].op = "lookup" /\ call[c].name \in unsigned

\* "A door closed because nobody had signed should open again the moment somebody has"
\* (pricedata.js 234-237): however many requests were refused before, and by whom, none
\* is refused for want of a signature when there is one.  Left out, and against that
\* comment: a lookup of a name that an earlier lookup gave up when nobody had signed,
\* which stays without a price until the page is reloaded (pricedata.js 453-463).
RefusedForAReason ==
  [][\A c \in Caller : c \in refused' \ refused => ~fresh' \/ GivenUpUnsigned(c)]_vars
=============================================================================

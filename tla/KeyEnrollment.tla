--------------------------- MODULE KeyEnrollment ---------------------------
(***************************************************************************)
(* How the devices of a user come by the master key (DEK) of the encrypted *)
(* store: arizgateway/encryptionkey.js, configureEgitKey() of              *)
(* arizgateway/encryptedsync.js and the buttons of                         *)
(* storage/storage-page.component.js that use them.                        *)
(*                                                                         *)
(* Each step is one request to the store, one signing dialog or what the   *)
(* page does between two awaits; the steps of the devices, and of the two  *)
(* things one page can do at a time (its synchronization and a button),    *)
(* interleave.  Cryptography is abstract: a wallet key that signs the      *)
(* derivation message always finds its own wrap, and opens no other.       *)
(***************************************************************************)
EXTENDS Naturals, FiniteSets

CONSTANTS
  Device,       \* browsers, each with one page open
  Account,      \* the accounts the user signs in with; each has its store
  WalletKey,    \* the wallet keys: a Ledger, a phone, ...
  AccountOf,    \* the account of each wallet key
  Hedged,       \* the wallet keys whose signatures are not deterministic
  Key,          \* bound: the keys that can exist at a time
  NoKey, NoWallet, NoAccount,   \* null
  MaxFailures,  \* bound: requests that fail, dialogs that are cancelled
  MaxUpsets,    \* bound: sessions that end, tokens that expire, pages reloaded and
                \* service workers stopped
  MaxFlows      \* bound: synchronizations and buttons under way at a time

ASSUME KeyAssumption ==
  /\ NoKey \notin Key
  /\ NoWallet \notin WalletKey
  /\ NoAccount \notin Account
  /\ AccountOf \in [WalletKey -> Account]
  /\ Hedged \subseteq WalletKey
  /\ MaxFailures \in Nat
  /\ MaxUpsets \in Nat
  /\ MaxFlows \in Nat

VARIABLES
  wrap,        \* wrap[a][w]: the key wrapped for w in the store of a
  data,        \* data[a]: the key the refs manifest of a is encrypted with
  wallet,      \* wallet[d]: the connected wallet key
  token,       \* token[d]: the account of the cached bearer token, while fresh
  dek,         \* dek[d]: _dek, in the page's memory
  stored,      \* stored[d][a]: the key remembered on the device for a
  sw,          \* sw[d]: what the service worker was configured with
  flow,        \* flow[d][s]: what the page is doing
  exported,    \* the keys some page has shown to its user
  mismatched,  \* mismatched[d]: a manifest did not decrypt on d
  failures,    \* how many requests failed
  upsets       \* how many sessions ended, pages were reloaded, ...

storeVars == <<wrap, data>>
pageVars == <<dek, flow>>
vars == <<storeVars, wallet, token, pageVars, stored, sw, exported, mismatched,
          failures, upsets>>

Slot == {"sync", "button"}
MaybeKey == Key \cup {NoKey}
MaybeAccount == Account \cup {NoAccount}
Flow == [op : {"none", "sync", "export", "import"},
         step : {"idle", "obtain", "sign", "fetch", "probe", "put", "refetch", "verify",
                 "have", "configured", "push"},
         wallet : WalletKey \cup {NoWallet},
         key : MaybeKey,
         account : MaybeAccount,
         prompted : BOOLEAN,
         warned : BOOLEAN]
Config == [account : MaybeAccount, key : MaybeKey]

Idle == [op |-> "none", step |-> "idle", wallet |-> NoWallet, key |-> NoKey,
         account |-> NoAccount, prompted |-> FALSE, warned |-> FALSE]
NoConfig == [account |-> NoAccount, key |-> NoKey]

TypeOK ==
  /\ wrap \in [Account -> [WalletKey -> MaybeKey]]
  /\ data \in [Account -> MaybeKey]
  /\ wallet \in [Device -> WalletKey \cup {NoWallet}]
  /\ token \in [Device -> MaybeAccount]
  /\ dek \in [Device -> MaybeKey]
  /\ stored \in [Device -> [Account -> MaybeKey]]
  /\ sw \in [Device -> Config]
  /\ flow \in [Device -> [Slot -> Flow]]
  /\ exported \subseteq Key
  /\ mismatched \in [Device -> BOOLEAN]
  /\ failures \in 0 .. MaxFailures
  /\ upsets \in 0 .. MaxUpsets

Init ==
  /\ wrap = [a \in Account |-> [w \in WalletKey |-> NoKey]]
  /\ data = [a \in Account |-> NoKey]
  /\ wallet = [d \in Device |-> NoWallet]
  /\ token = [d \in Device |-> NoAccount]
  /\ dek = [d \in Device |-> NoKey]
  /\ stored = [d \in Device |-> [a \in Account |-> NoKey]]
  /\ sw = [d \in Device |-> NoConfig]
  /\ flow = [d \in Device |-> [s \in Slot |-> Idle]]
  /\ exported = {}
  /\ mismatched = [d \in Device |-> FALSE]
  /\ failures = 0
  /\ upsets = 0

At(d, s, step) == flow[d][s].step = step
Become(d, s, f) == flow' = [flow EXCEPT ![d][s] = f]
Goto(d, s, step) == Become(d, s, [flow[d][s] EXCEPT !.step = step])
Stop(d, s) == Become(d, s, Idle)

---------------------------------------------------------------------------
(* Signing in and out, and what a browser does to a page. *)

Login(d, w) ==
  /\ wallet[d] = NoWallet
  /\ wallet' = [wallet EXCEPT ![d] = w]
  /\ UNCHANGED <<storeVars, token, pageVars, stored, sw, exported, mismatched,
                 failures, upsets>>

\* logout() forgets the token and the wallet, not the key in memory.
Logout(d) ==
  /\ upsets < MaxUpsets
  /\ upsets' = upsets + 1
  /\ wallet[d] # NoWallet \/ token[d] # NoAccount
  /\ wallet' = [wallet EXCEPT ![d] = NoWallet]
  /\ token' = [token EXCEPT ![d] = NoAccount]
  /\ UNCHANGED <<storeVars, pageVars, stored, sw, exported, mismatched, failures>>

\* The wallet session is gone; the cached token outlives it (lines 194-201 of
\* arizgatewayaccess.js).
SessionEnds(d) ==
  /\ upsets < MaxUpsets
  /\ upsets' = upsets + 1
  /\ wallet[d] # NoWallet
  /\ wallet' = [wallet EXCEPT ![d] = NoWallet]
  /\ UNCHANGED <<storeVars, token, pageVars, stored, sw, exported, mismatched,
                 failures>>

TokenExpires(d) ==
  /\ upsets < MaxUpsets
  /\ upsets' = upsets + 1
  /\ token[d] # NoAccount
  /\ token' = [token EXCEPT ![d] = NoAccount]
  /\ UNCHANGED <<storeVars, wallet, pageVars, stored, sw, exported, mismatched,
                 failures>>

Reload(d) ==
  /\ upsets < MaxUpsets
  /\ upsets' = upsets + 1
  /\ dek' = [dek EXCEPT ![d] = NoKey]
  /\ flow' = [flow EXCEPT ![d] = [s \in Slot |-> Idle]]
  /\ UNCHANGED <<storeVars, wallet, token, stored, sw, exported, mismatched, failures>>

\* The browser stops a service worker when it likes; its configuration is in
\* memory only.
ServiceWorkerStops(d) ==
  /\ upsets < MaxUpsets
  /\ sw[d] # NoConfig
  /\ upsets' = upsets + 1
  /\ sw' = [sw EXCEPT ![d] = NoConfig]
  /\ UNCHANGED <<storeVars, wallet, token, pageVars, stored, exported, mismatched,
                 failures>>

\* The "forget" button.
ForgetKey(d) ==
  /\ wallet[d] # NoWallet
  /\ stored[d][AccountOf[wallet[d]]] # NoKey
  /\ stored' = [stored EXCEPT ![d][AccountOf[wallet[d]]] = NoKey]
  /\ UNCHANGED <<storeVars, wallet, token, pageVars, sw, exported, mismatched,
                 failures, upsets>>

---------------------------------------------------------------------------
(* The buttons of the storage page. *)

RoomForFlow ==
  Cardinality({p \in Device \X Slot : ~At(p[1], p[2], "idle")}) < MaxFlows

\* getAccessToken(): the cached token while it is fresh, else a new one from the wallet.
Authorized(d, a) ==
  /\ \/ token[d] = a
     \/ token[d] = NoAccount /\ wallet[d] # NoWallet /\ a = AccountOf[wallet[d]]
  /\ token' = [token EXCEPT ![d] = a]

\* getAccountId(): of the connected wallet.
AccountId(d) == IF wallet[d] = NoWallet THEN NoAccount ELSE AccountOf[wallet[d]]

\* What ensureDekUnlockDecision() finds in memory or remembered for the account.
Remembered(d) ==
  IF dek[d] # NoKey \/ AccountId(d) = NoAccount THEN dek[d] ELSE stored[d][AccountId(d)]

\* synchronize(), up to configureEgitKey().
PressSync(d) ==
  /\ RoomForFlow
  /\ At(d, "sync", "idle")
  /\ \E a \in Account : Authorized(d, a)
  /\ dek' = [dek EXCEPT ![d] = Remembered(d)]
  /\ Become(d, "sync", [Idle EXCEPT !.op = "sync", !.step = "obtain",
                                    !.account = AccountId(d),
                                    !.prompted = Remembered(d) = NoKey,
                                    !.warned = mismatched[d]])
  /\ UNCHANGED <<storeVars, wallet, stored, sw, exported, mismatched, failures, upsets>>

\* exportKey(), and the two buttons that put the key into a command.
PressExport(d) ==
  /\ RoomForFlow
  /\ At(d, "button", "idle")
  /\ wallet[d] # NoWallet
  /\ Become(d, "button", [Idle EXCEPT !.op = "export", !.step = "obtain",
                                      !.warned = mismatched[d]])
  /\ UNCHANGED <<storeVars, wallet, token, dek, stored, sw, exported, mismatched,
                 failures, upsets>>

\* importKey() with a key some page has shown.
PressImport(d, k) ==
  /\ RoomForFlow
  /\ At(d, "button", "idle")
  /\ wallet[d] # NoWallet
  /\ k \in exported
  /\ Become(d, "button", [Idle EXCEPT !.op = "import", !.step = "sign", !.key = k])
  /\ UNCHANGED <<storeVars, wallet, token, dek, stored, sw, exported, mismatched,
                 failures, upsets>>

---------------------------------------------------------------------------
(* obtainDek() and enrollWithExportedKey(). *)

\* obtainDek() begins (for a synchronization after requireWalletAccount()): a key in
\* memory is the key.
Obtain(d, s) ==
  /\ At(d, s, "obtain")
  /\ wallet[d] # NoWallet
  /\ \/ /\ dek[d] # NoKey
        /\ Become(d, s, [flow[d][s] EXCEPT !.step = "have", !.key = dek[d]])
     \/ dek[d] = NoKey /\ Goto(d, s, "sign")
  /\ UNCHANGED <<storeVars, wallet, token, dek, stored, sw, exported, mismatched,
                 failures, upsets>>

\* deriveKeyMaterial(): two signatures that have to be the same.
Sign(d, s) ==
  LET next == IF flow[d][s].op = "import" THEN "put" ELSE "fetch" IN
  /\ At(d, s, "sign")
  /\ wallet[d] # NoWallet
  /\ \/ /\ wallet[d] \notin Hedged
        /\ Become(d, s, [flow[d][s] EXCEPT !.step = next, !.wallet = wallet[d]])
     \/ wallet[d] \in Hedged /\ Stop(d, s)
  /\ UNCHANGED <<storeVars, wallet, token, dek, stored, sw, exported, mismatched,
                 failures, upsets>>

\* The key is known: _dek is set.
Have(d, s, k) ==
  /\ dek' = [dek EXCEPT ![d] = k]
  /\ Become(d, s, [flow[d][s] EXCEPT !.step = "have", !.key = k])

\* fetchWrap(): unwrap what is there, or look whether the store has data.
FetchWrap(d, s) ==
  LET w == flow[d][s].wallet IN
  /\ At(d, s, "fetch")
  /\ \E a \in Account :
       /\ Authorized(d, a)
       /\ \/ wrap[a][w] # NoKey /\ Have(d, s, wrap[a][w])
          \/ wrap[a][w] = NoKey /\ Goto(d, s, "probe") /\ UNCHANGED dek
  /\ UNCHANGED <<storeVars, wallet, stored, sw, exported, mismatched, failures, upsets>>

\* A key drawn at random is none of those that exist anywhere.
InUse(k) ==
  \/ k \in exported
  \/ \E a \in Account : data[a] = k \/ \E w \in WalletKey : wrap[a][w] = k
  \/ \E d \in Device :
       \/ k \in {dek[d], sw[d].key}
       \/ \E a \in Account : stored[d][a] = k
       \/ \E s \in Slot : flow[d][s].key = k

\* repoExists(): NeedsEnrollmentError if it does, else the first setup, with a new key.
Probe(d, s) ==
  /\ At(d, s, "probe")
  /\ \E a \in Account :
       /\ Authorized(d, a)
       /\ \/ data[a] # NoKey /\ Stop(d, s)
          \/ /\ data[a] = NoKey
             /\ \E k \in Key :
                  /\ ~InUse(k)
                  /\ Become(d, s, [flow[d][s] EXCEPT !.step = "put", !.key = k])
  /\ UNCHANGED <<storeVars, wallet, dek, stored, sw, exported, mismatched, failures, upsets>>

\* Variant for the mutation checks: a wrap that exists already is no obstacle.
PutWrapUnchecked(d, s) ==
  LET w == flow[d][s].wallet
      k == flow[d][s].key
  IN
  /\ At(d, s, "put")
  /\ \E a \in Account :
       /\ Authorized(d, a)
       /\ wrap' = IF wrap[a][w] = NoKey THEN [wrap EXCEPT ![a][w] = k] ELSE wrap
       /\ Have(d, s, k)
  /\ UNCHANGED <<data, wallet, stored, sw, exported, mismatched, failures, upsets>>

\* putWrap(): create-only.  412 says that there is a wrap, which the first setup takes
\* over and an import compares.
PutWrap(d, s) ==
  LET w == flow[d][s].wallet
      k == flow[d][s].key
      next == IF flow[d][s].op = "import" THEN "verify" ELSE "refetch"
  IN
  /\ At(d, s, "put")
  /\ \E a \in Account :
       /\ Authorized(d, a)
       /\ \/ /\ wrap[a][w] = NoKey
             /\ wrap' = [wrap EXCEPT ![a][w] = k]
             /\ Have(d, s, k)
             /\ UNCHANGED failures
          \/ /\ wrap[a][w] = NoKey                       \* the answer is lost
             /\ failures < MaxFailures
             /\ failures' = failures + 1
             /\ wrap' = [wrap EXCEPT ![a][w] = k]
             /\ Stop(d, s)
             /\ UNCHANGED dek
          \/ /\ wrap[a][w] # NoKey
             /\ Goto(d, s, next)
             /\ UNCHANGED <<wrap, dek, failures>>
  /\ UNCHANGED <<data, wallet, stored, sw, exported, mismatched, upsets>>

\* Variant for the mutation checks: the first setup that lost keeps its own key.
RefetchNothing(d, s) ==
  /\ At(d, s, "refetch")
  /\ \E a \in Account : Authorized(d, a)
  /\ Have(d, s, flow[d][s].key)
  /\ UNCHANGED <<storeVars, wallet, stored, sw, exported, mismatched, failures, upsets>>

\* The first setup that lost the race uses the winner's wrap.
Refetch(d, s) ==
  LET w == flow[d][s].wallet IN
  /\ At(d, s, "refetch")
  /\ \E a \in Account :
       /\ Authorized(d, a)
       /\ wrap[a][w] # NoKey
       /\ Have(d, s, wrap[a][w])
  /\ UNCHANGED <<storeVars, wallet, stored, sw, exported, mismatched, failures, upsets>>

\* An import for a wallet key that is enrolled succeeds if the wrap holds that key.
Verify(d, s) ==
  LET w == flow[d][s].wallet
      k == flow[d][s].key
  IN
  /\ At(d, s, "verify")
  /\ \E a \in Account :
       /\ Authorized(d, a)
       /\ \/ wrap[a][w] = k /\ Have(d, s, k)
          \/ wrap[a][w] # k /\ Stop(d, s) /\ UNCHANGED dek
  /\ UNCHANGED <<storeVars, wallet, stored, sw, exported, mismatched, failures, upsets>>

---------------------------------------------------------------------------
(* With the key. *)

\* The exported key is what is in memory by now; an import is done.
ButtonEnds(d) ==
  /\ At(d, "button", "have")
  /\ exported' = IF flow[d]["button"].op = "export" THEN exported \cup {dek[d]} ELSE exported
  /\ Stop(d, "button")
  /\ UNCHANGED <<storeVars, wallet, token, dek, stored, sw, mismatched, failures, upsets>>

\* configureEgitKey(): the service worker gets the key and a token.
Configure(d) ==
  /\ At(d, "sync", "have")
  /\ \E a \in Account :
       /\ Authorized(d, a)
       /\ sw' = [sw EXCEPT ![d] = [account |-> a, key |-> flow[d]["sync"].key]]
  /\ Goto(d, "sync", "configured")
  /\ UNCHANGED <<storeVars, wallet, dek, stored, exported, mismatched, failures, upsets>>

\* persistCurrentDek(), if the user was asked and ticked the box: what is in memory by
\* now, for the account the synchronization began with.
Persist(d) ==
  LET f == flow[d]["sync"] IN
  /\ At(d, "sync", "configured")
  /\ \/ UNCHANGED stored
     \/ /\ f.prompted /\ f.account # NoAccount
        /\ stored' = [stored EXCEPT ![d][f.account] = dek[d]]
  /\ Goto(d, "sync", "push")
  /\ UNCHANGED <<storeVars, wallet, token, dek, sw, exported, mismatched, failures, upsets>>

\* git through the service worker: a store without data takes what is pushed, under
\* the key of the configuration; any other manifest has to decrypt with it.
Push(d) ==
  LET c == sw[d] IN
  /\ At(d, "sync", "push")
  /\ \/ c = NoConfig /\ UNCHANGED <<data, mismatched>>
     \/ /\ c # NoConfig /\ data[c.account] \in {NoKey, c.key}
        /\ data' = [data EXCEPT ![c.account] = c.key]
        /\ UNCHANGED mismatched
     \/ /\ c # NoConfig /\ data[c.account] \notin {NoKey, c.key}
        /\ mismatched' = [mismatched EXCEPT ![d] = TRUE]
        /\ UNCHANGED data
  /\ Stop(d, "sync")
  /\ UNCHANGED <<wrap, wallet, token, dek, stored, sw, exported, failures, upsets>>

\* A request or a dialog fails, or nobody is signed in any more.
Fail(d, s) ==
  /\ ~At(d, s, "idle")
  /\ \/ failures < MaxFailures /\ failures' = failures + 1
     \/ wallet[d] = NoWallet /\ token[d] = NoAccount /\ UNCHANGED failures
  /\ Stop(d, s)
  /\ UNCHANGED <<storeVars, wallet, token, dek, stored, sw, exported, mismatched, upsets>>

---------------------------------------------------------------------------
Next ==
  \E d \in Device :
    \/ \E w \in WalletKey : Login(d, w)
    \/ Logout(d) \/ SessionEnds(d) \/ TokenExpires(d)
    \/ Reload(d) \/ ServiceWorkerStops(d) \/ ForgetKey(d)
    \/ PressSync(d) \/ PressExport(d)
    \/ \E k \in Key : PressImport(d, k)
    \/ \E s \in Slot :
         \/ Obtain(d, s) \/ Sign(d, s) \/ FetchWrap(d, s) \/ Probe(d, s)
         \/ PutWrap(d, s) \/ Refetch(d, s) \/ Verify(d, s) \/ Fail(d, s)
    \/ ButtonEnds(d) \/ Configure(d) \/ Persist(d) \/ Push(d)

Spec == Init /\ [][Next]_vars

---------------------------------------------------------------------------
(* Properties. *)

Wrapped(k) == \E a \in Account, w \in WalletKey : wrap[a][w] = k

\* No key that matters depends on one browser: whatever a page holds, remembers, has
\* shown to its user, has given to the service worker or has encrypted a store with is
\* wrapped for some wallet key, although pages are reloaded, answers lost and first
\* setups raced between the steps.
KeysAreWrapped ==
  /\ \A d \in Device :
       /\ dek[d] # NoKey => Wrapped(dek[d])
       /\ \A a \in Account : stored[d][a] # NoKey => Wrapped(stored[d][a])
       /\ sw[d] # NoConfig => sw[d].key # NoKey /\ Wrapped(sw[d].key)
  /\ \A k \in exported : Wrapped(k)
  /\ \A a \in Account : data[a] # NoKey => Wrapped(data[a])

\* A key in the memory of a page that was obtained by signing with w is the one
\* wrapped for w: two devices with the same wallet key never end up with two keys,
\* whoever wins the first setup ("can't mint a second DEK for the same wrapId").
KeyOfItsWallet ==
  \A d \in Device, s \in Slot :
    /\ flow[d][s].step \in {"have", "configured", "push"}
    /\ flow[d][s].wallet # NoWallet
    => \E a \in Account : wrap[a][flow[d][s].wallet] = flow[d][s].key

\* "a race between DIFFERENT wallet keys ... surfaces as a manifest that won't decrypt
\* -> NeedsEnrollmentError on the next call" (lines 228-230): once a manifest did not
\* decrypt, obtainDek gives no key that does not open the store.
RaceSurfaces ==
  \A d \in Device, s \in Slot :
    flow[d][s].warned /\ flow[d][s].step = "have" =>
      \E a \in Account : data[a] = flow[d][s].key
=============================================================================

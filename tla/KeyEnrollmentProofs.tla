------------------------ MODULE KeyEnrollmentProofs ------------------------
(* Proofs about KeyEnrollment, for any number of devices, accounts, wallet  *)
(* keys and keys, and any bounds.                                           *)
EXTENDS KeyEnrollment, TLAPS

\* The key k is among the wraps wr.
In(wr, k) == \E a \in Account, w \in WalletKey : wr[a][w] = k

\* What holds of a synchronization or a button, between any two awaits, of a page that
\* holds the key k, when the wraps are wr: the wallet key that signed is known once it
\* is needed, a key that is to be enrolled is there, and a key in use is in memory and
\* wrapped, for the wallet key that signed if one did.
FlowIs(f, k, wr) ==
  /\ f.op = "import" => f.key # NoKey
  /\ f.step = "obtain" => f.wallet = NoWallet
  /\ f.step \in {"fetch", "probe", "put", "refetch", "verify"} => f.wallet # NoWallet
  /\ f.step \in {"put", "refetch", "verify"} => f.key # NoKey
  /\ f.step \in {"have", "configured", "push"} =>
       /\ f.key # NoKey /\ k # NoKey
       /\ In(wr, f.key)
       /\ f.wallet # NoWallet => \E a \in Account : wr[a][f.wallet] = f.key

\* The inductive invariant: KeysAreWrapped, and what is under way.
EnrollmentOK ==
  /\ TypeOK
  /\ KeysAreWrapped
  /\ \A d \in Device, s \in Slot : FlowIs(flow[d][s], dek[d], wrap)

---------------------------------------------------------------------------
(* Types *)

\* The initial state is well typed.
LEMMA InitTyped == Init => TypeOK
  BY KeyAssumption, SMTT(40)
     DEF Init, TypeOK, MaybeKey, MaybeAccount, Config, Flow, Slot, Idle, NoConfig

\* The records an operation goes through are of the right type.
LEMMA RecordsTyped ==
  ASSUME NEW f \in Flow,
         NEW step \in {"idle", "obtain", "sign", "fetch", "probe", "put", "refetch",
                       "verify", "have", "configured", "push"},
         NEW k \in MaybeKey, NEW w \in WalletKey
  PROVE  /\ Idle \in Flow
         /\ [f EXCEPT !.step = step] \in Flow
         /\ [f EXCEPT !.step = step, !.key = k] \in Flow
         /\ [f EXCEPT !.step = step, !.wallet = w] \in Flow
  BY DEF Flow, Idle, MaybeKey, MaybeAccount

\* What a page does is the only thing that Become changes.
LEMMA BecomeTyped ==
  ASSUME TypeOK, NEW d \in Device, NEW s \in Slot, NEW f \in Flow, Become(d, s, f)
  PROVE  /\ flow' \in [Device -> [Slot -> Flow]]
         /\ \A e \in Device, t \in Slot :
              flow'[e][t] = IF e = d /\ t = s THEN f ELSE flow[e][t]
  BY DEF TypeOK, Become

\* Authorization gives the page a token of the account.
LEMMA AuthorizedTyped ==
  ASSUME TypeOK, NEW d \in Device, NEW a \in Account, Authorized(d, a)
  PROVE  token' \in [Device -> MaybeAccount]
  BY DEF TypeOK, Authorized, MaybeAccount
---------------------------------------------------------------------------
(* What a step does to the invariant *)

\* A wrap is never replaced.
WrapsStay == \A a \in Account, w \in WalletKey : wrap[a][w] # NoKey => wrap'[a][w] = wrap[a][w]

\* The key in the page's memory is the same, or a wrapped one.
KeepsKey(d) ==
  \/ UNCHANGED dek
  \/ \E k \in Key : In(wrap', k) /\ dek' = [dek EXCEPT ![d] = k]

\* A key that is wrapped stays wrapped, for the same wallet keys.
LEMMA StaysWrapped ==
  ASSUME TypeOK, WrapsStay, NEW k \in Key
  PROVE  /\ In(wrap, k) => In(wrap', k)
         /\ \A w \in WalletKey : (\E a \in Account : wrap[a][w] = k)
                                 => (\E a \in Account : wrap'[a][w] = k)
<1>1. \A a \in Account, w \in WalletKey : wrap[a][w] = k => wrap'[a][w] = k
  BY KeyAssumption DEF WrapsStay
<1> QED
  BY <1>1 DEF In

\* A step of one operation that leaves its own record as it should be disturbs no other.
LEMMA OthersKeep ==
  ASSUME EnrollmentOK, NEW d \in Device, NEW s \in Slot, NEW f \in Flow, Become(d, s, f),
         WrapsStay, KeepsKey(d), FlowIs(f, dek'[d], wrap')
  PROVE  /\ \A e \in Device, t \in Slot : FlowIs(flow'[e][t], dek'[e], wrap')
         /\ \A e \in Device : dek'[e] # NoKey => In(wrap', dek'[e])
         /\ dek' \in [Device -> MaybeKey]
<1> USE KeyAssumption
<1>t. TypeOK
  BY DEF EnrollmentOK
<1>1. dek' \in [Device -> MaybeKey]
  BY <1>t DEF TypeOK, KeepsKey, MaybeKey
<1>2. ASSUME NEW e \in Device PROVE dek[e] # NoKey => dek'[e] # NoKey
  BY <1>t DEF TypeOK, KeepsKey, MaybeKey
<1>3. ASSUME NEW e \in Device, dek'[e] # NoKey PROVE In(wrap', dek'[e])
  <2>1. dek[e] # NoKey => dek[e] \in Key /\ In(wrap, dek[e])
    BY <1>t DEF EnrollmentOK, KeysAreWrapped, Wrapped, In, TypeOK, MaybeKey
  <2>2. CASE UNCHANGED dek
    BY <1>3, <2>1, <2>2, <1>t, StaysWrapped
  <2>3. ASSUME NEW k \in Key, In(wrap', k), dek' = [dek EXCEPT ![d] = k]
        PROVE In(wrap', dek'[e])
    BY <1>3, <2>1, <2>3, <1>t, StaysWrapped DEF TypeOK
  <2> QED
    BY <2>2, <2>3 DEF KeepsKey
<1>4. ASSUME NEW e \in Device, NEW t \in Slot PROVE FlowIs(flow'[e][t], dek'[e], wrap')
  <2>1. CASE e = d /\ t = s
    BY <2>1, <1>t, BecomeTyped
  <2>2. CASE ~(e = d /\ t = s)
    <3>1. flow'[e][t] = flow[e][t] /\ flow[e][t] \in Flow /\ FlowIs(flow[e][t], dek[e], wrap)
      BY <2>2, <1>t, BecomeTyped DEF EnrollmentOK, TypeOK
    <3>2. flow[e][t].key \in MaybeKey /\ flow[e][t].wallet \in WalletKey \cup {NoWallet}
      BY <3>1 DEF Flow
    <3> QED
      BY <3>1, <3>2, <1>2, <1>t, StaysWrapped DEF FlowIs, MaybeKey
  <2> QED
    BY <2>1, <2>2
<1> QED
  BY <1>1, <1>3, <1>4

\* What is kept elsewhere stays wrapped.
LEMMA RestStaysWrapped ==
  ASSUME EnrollmentOK, WrapsStay
  PROVE  /\ \A d \in Device, a \in Account : stored[d][a] # NoKey => In(wrap', stored[d][a])
         /\ \A d \in Device : sw[d] # NoConfig => sw[d].key # NoKey /\ In(wrap', sw[d].key)
         /\ \A k \in exported : In(wrap', k)
         /\ \A a \in Account : data[a] # NoKey => In(wrap', data[a])
<1>t. TypeOK /\ KeysAreWrapped
  BY DEF EnrollmentOK
<1>1. ASSUME NEW k \in MaybeKey, k # NoKey, Wrapped(k) PROVE In(wrap', k)
  BY <1>1, <1>t, StaysWrapped DEF MaybeKey, Wrapped, In
<1>2. ASSUME NEW d \in Device, NEW a \in Account, stored[d][a] # NoKey
      PROVE In(wrap', stored[d][a])
  <2>1. stored[d][a] \in MaybeKey /\ Wrapped(stored[d][a])
    BY <1>2, <1>t DEF TypeOK, KeysAreWrapped
  <2> QED
    BY <1>1, <1>2, <2>1
<1>3. ASSUME NEW d \in Device, sw[d] # NoConfig
      PROVE sw[d].key # NoKey /\ In(wrap', sw[d].key)
  <2>1. sw[d].key \in MaybeKey /\ sw[d].key # NoKey /\ Wrapped(sw[d].key)
    BY <1>3, <1>t DEF TypeOK, KeysAreWrapped, Config
  <2> QED
    BY <1>1, <2>1
<1>4. ASSUME NEW k \in exported PROVE In(wrap', k)
  <2>1. k \in Key /\ Wrapped(k)
    BY <1>t DEF TypeOK, KeysAreWrapped
  <2> QED
    BY <2>1, <1>t, StaysWrapped DEF Wrapped, In
<1>5. ASSUME NEW a \in Account, data[a] # NoKey PROVE In(wrap', data[a])
  <2>1. data[a] \in MaybeKey /\ Wrapped(data[a])
    BY <1>5, <1>t DEF TypeOK, KeysAreWrapped
  <2> QED
    BY <1>1, <1>5, <2>1
<1> QED
  BY <1>2, <1>3, <1>4, <1>5

\* An operation that changes only its own record and its page's key and token, and maybe
\* wraps a key, keeps the invariant.
LEMMA OperationKeeps ==
  ASSUME EnrollmentOK, NEW d \in Device, NEW s \in Slot, NEW f \in Flow,
         Become(d, s, f), WrapsStay, KeepsKey(d), FlowIs(f, dek'[d], wrap'),
         wrap' \in [Account -> [WalletKey -> MaybeKey]],
         token' \in [Device -> MaybeAccount],
         failures' \in 0 .. MaxFailures,
         UNCHANGED <<data, wallet, stored, sw, exported, mismatched, upsets>>
  PROVE  EnrollmentOK'
<1>1. \A e \in Device, t \in Slot : FlowIs(flow'[e][t], dek'[e], wrap')
  BY OthersKeep
<1>2. KeysAreWrapped'
  BY OthersKeep, RestStaysWrapped DEF KeysAreWrapped, Wrapped, In
<1>3. TypeOK'
  BY OthersKeep, BecomeTyped DEF EnrollmentOK, TypeOK
<1> QED
  BY <1>1, <1>2, <1>3 DEF EnrollmentOK

---------------------------------------------------------------------------
(* The steps *)

\* The steps of the session and of the browser.
LEMMA SessionKeeps ==
  ASSUME EnrollmentOK, NEW d \in Device,
         \/ \E w \in WalletKey : Login(d, w)
         \/ Logout(d) \/ SessionEnds(d) \/ TokenExpires(d)
  PROVE  EnrollmentOK'
<1>t. TypeOK
  BY DEF EnrollmentOK
<1>1. UNCHANGED <<wrap, data, dek, flow, stored, sw, exported, mismatched>>
  BY DEF Login, Logout, SessionEnds, TokenExpires, storeVars, pageVars
<1>2. UNCHANGED failures /\ upsets' \in 0 .. MaxUpsets
  BY <1>t, KeyAssumption DEF Login, Logout, SessionEnds, TokenExpires, TypeOK
<1>2a. token' = token \/ token' = [token EXCEPT ![d] = NoAccount]
  BY DEF Login, Logout, SessionEnds, TokenExpires
<1>2b. \/ wallet' = wallet
       \/ \E w \in WalletKey \cup {NoWallet} : wallet' = [wallet EXCEPT ![d] = w]
  BY DEF Login, Logout, SessionEnds, TokenExpires
<1>2c. token' \in [Device -> MaybeAccount]
  BY <1>t, <1>2a DEF TypeOK, MaybeAccount
<1>2d. wallet' \in [Device -> WalletKey \cup {NoWallet}]
  BY <1>t, <1>2b DEF TypeOK
<1>3. TypeOK'
  BY <1>t, <1>1, <1>2, <1>2c, <1>2d DEF TypeOK
<1>4. KeysAreWrapped'
  BY <1>1 DEF EnrollmentOK, KeysAreWrapped, Wrapped
<1> QED
  BY <1>1, <1>3, <1>4 DEF EnrollmentOK

\* A page that is reloaded forgets its key and what it was doing.
LEMMA ReloadKeeps ==
  ASSUME EnrollmentOK, NEW d \in Device, Reload(d)
  PROVE  EnrollmentOK'
<1>t. TypeOK
  BY DEF EnrollmentOK
<1>1. /\ dek' = [dek EXCEPT ![d] = NoKey]
      /\ flow' = [flow EXCEPT ![d] = [s \in Slot |-> Idle]]
      /\ UNCHANGED <<wrap, data, wallet, token, stored, sw, exported, mismatched, failures>>
  BY DEF Reload, storeVars
<1>2. dek' \in [Device -> MaybeKey] /\ upsets' \in 0 .. MaxUpsets
  BY <1>t, <1>1, KeyAssumption DEF TypeOK, MaybeKey, Reload
<1>3. Idle \in Flow
  BY DEF Idle, Flow, MaybeKey, MaybeAccount
<1>4. flow' \in [Device -> [Slot -> Flow]]
  BY <1>t, <1>1, <1>3 DEF TypeOK
<1>5. TypeOK'
  BY <1>t, <1>1, <1>2, <1>4 DEF TypeOK
<1>6. KeysAreWrapped'
  BY <1>t, <1>1 DEF EnrollmentOK, KeysAreWrapped, Wrapped, TypeOK
<1>7. ASSUME NEW e \in Device, NEW t \in Slot PROVE FlowIs(flow'[e][t], dek'[e], wrap')
  <2>1. CASE e = d
    <3>1. flow'[e][t] = Idle
      BY <2>1, <1>t, <1>1 DEF TypeOK
    <3> QED
      BY <3>1 DEF Idle, FlowIs
  <2>2. CASE e # d
    <3>1. flow'[e][t] = flow[e][t] /\ dek'[e] = dek[e] /\ wrap' = wrap
      BY <2>2, <1>t, <1>1 DEF TypeOK
    <3> QED
      BY <3>1 DEF EnrollmentOK
  <2> QED
    BY <2>1, <2>2
<1> QED
  BY <1>5, <1>6, <1>7 DEF EnrollmentOK

\* Forgetting what is remembered, or what the service worker was told, loses no key.
LEMMA ForgettingKeeps ==
  ASSUME EnrollmentOK, NEW d \in Device, ServiceWorkerStops(d) \/ ForgetKey(d)
  PROVE  EnrollmentOK'
<1>t. TypeOK
  BY DEF EnrollmentOK
<1>1. UNCHANGED <<wrap, data, wallet, token, dek, flow, exported, mismatched, failures>>
  BY DEF ServiceWorkerStops, ForgetKey, storeVars, pageVars
<1>2. upsets' \in 0 .. MaxUpsets
  BY <1>t, KeyAssumption DEF ServiceWorkerStops, ForgetKey, TypeOK
<1>2a. sw' = sw \/ sw' = [sw EXCEPT ![d] = NoConfig]
  BY DEF ServiceWorkerStops, ForgetKey
<1>2b. /\ sw' \in [Device -> Config]
       /\ \A e \in Device : sw'[e] # NoConfig => sw'[e] = sw[e]
  <2>1. NoConfig \in Config
    BY DEF NoConfig, Config, MaybeKey, MaybeAccount
  <2> QED
    BY <2>1, <1>t, <1>2a DEF TypeOK
<1>3a. stored' = stored \/ \E a \in Account : stored' = [stored EXCEPT ![d][a] = NoKey]
  <2>1. CASE ServiceWorkerStops(d)
    BY <2>1 DEF ServiceWorkerStops
  <2>2. CASE ForgetKey(d)
    <3>1. wallet[d] \in WalletKey
      BY <2>2, <1>t DEF ForgetKey, TypeOK
    <3>2. AccountOf[wallet[d]] \in Account
      BY <3>1, KeyAssumption
    <3> QED
      BY <2>2, <3>2 DEF ForgetKey
  <2> QED
    BY <2>1, <2>2
<1>3. /\ stored' \in [Device -> [Account -> MaybeKey]]
      /\ \A e \in Device, a \in Account : stored'[e][a] # NoKey => stored'[e][a] = stored[e][a]
  <2>1. CASE stored' = stored
    BY <2>1, <1>t DEF TypeOK
  <2>2. ASSUME NEW a \in Account, stored' = [stored EXCEPT ![d][a] = NoKey] 
        PROVE  /\ stored' \in [Device -> [Account -> MaybeKey]]
               /\ \A e \in Device, b \in Account :
                    stored'[e][b] # NoKey => stored'[e][b] = stored[e][b]
    <3>1. NoKey \in MaybeKey
      BY DEF MaybeKey
    <3>2. stored' \in [Device -> [Account -> MaybeKey]]
      BY <2>2, <3>1, <1>t DEF TypeOK
    <3>3. ASSUME NEW e \in Device, NEW b \in Account, stored'[e][b] # NoKey
          PROVE stored'[e][b] = stored[e][b]
      BY <2>2, <3>3, <1>t DEF TypeOK
    <3> QED
      BY <3>2, <3>3
  <2> QED
    BY <2>1, <2>2, <1>3a
<1>4. TypeOK'
  BY <1>t, <1>1, <1>2, <1>2b, <1>3 DEF TypeOK
<1>5. KeysAreWrapped'
  BY <1>1, <1>2b, <1>3 DEF EnrollmentOK, KeysAreWrapped, Wrapped
<1> QED
  BY <1>1, <1>4, <1>5 DEF EnrollmentOK

\* What the invariant says of the record of an operation.
LEMMA RecordIs ==
  ASSUME EnrollmentOK, NEW d \in Device, NEW s \in Slot
  PROVE  /\ flow[d][s] \in Flow /\ FlowIs(flow[d][s], dek[d], wrap)
         /\ flow[d][s].wallet \in WalletKey \cup {NoWallet} /\ flow[d][s].key \in MaybeKey
  BY DEF EnrollmentOK, TypeOK, Flow

\* A synchronization begins with the key in memory, or the one remembered.
LEMMA PressSyncKeeps ==
  ASSUME EnrollmentOK, NEW d \in Device, PressSync(d)
  PROVE  EnrollmentOK'
<1> DEFINE f == [Idle EXCEPT !.op = "sync", !.step = "obtain", !.account = AccountId(d),
                             !.prompted = Remembered(d) = NoKey, !.warned = mismatched[d]]
<1>t. TypeOK
  BY DEF EnrollmentOK
<1>1. AccountId(d) \in MaybeAccount
  BY <1>t, KeyAssumption DEF TypeOK, AccountId, MaybeAccount
<1>2. f \in Flow
  <2>1. (Remembered(d) = NoKey) \in BOOLEAN /\ mismatched[d] \in BOOLEAN
    BY <1>t DEF TypeOK
  <2> QED
    BY <1>1, <2>1 DEF Flow, Idle, MaybeKey, MaybeAccount
<1>3. KeepsKey(d)
  <2>1. dek' = [dek EXCEPT ![d] = Remembered(d)]
    BY DEF PressSync
  <2>2. CASE Remembered(d) = dek[d]
    BY <2>1, <2>2, <1>t DEF TypeOK, KeepsKey
  <2>3. CASE Remembered(d) # dek[d]
    <3>1. /\ dek[d] = NoKey /\ AccountId(d) \in Account
          /\ Remembered(d) = stored[d][AccountId(d)]
          /\ stored[d][AccountId(d)] # NoKey
      BY <2>3, <1>1 DEF Remembered, MaybeAccount
    <3>2. stored[d][AccountId(d)] \in Key /\ In(wrap, stored[d][AccountId(d)])
      BY <3>1, <1>t DEF EnrollmentOK, KeysAreWrapped, Wrapped, In, TypeOK, MaybeKey
    <3> QED
      BY <2>1, <3>1, <3>2 DEF KeepsKey, PressSync, storeVars
  <2> QED
    BY <2>2, <2>3
<1>4. token' \in [Device -> MaybeAccount]
  BY <1>t, AuthorizedTyped DEF PressSync
<1>5. FlowIs(f, dek'[d], wrap')
  BY DEF FlowIs, Idle
<1>6. Become(d, "sync", f) /\ "sync" \in Slot
  BY DEF PressSync, Slot
<1>7. UNCHANGED <<wrap, data, wallet, stored, sw, exported, mismatched, failures, upsets>>
  BY DEF PressSync, storeVars
<1> HIDE DEF f
<1> QED
  BY <1>t, <1>2, <1>3, <1>4, <1>5, <1>6, <1>7, OperationKeeps DEF TypeOK, WrapsStay

\* The other buttons only begin.
LEMMA ButtonsKeep ==
  ASSUME EnrollmentOK, NEW d \in Device,
         PressExport(d) \/ \E k \in Key : PressImport(d, k)
  PROVE  EnrollmentOK'
<1>t. TypeOK
  BY DEF EnrollmentOK
<1>1. UNCHANGED <<wrap, data, wallet, token, dek, stored, sw, exported, mismatched,
                  failures, upsets>>
  BY DEF PressExport, PressImport, storeVars
<1>2. PICK f \in Flow : Become(d, "button", f) /\ FlowIs(f, dek'[d], wrap')
  <2>1. CASE PressExport(d)
    <3> DEFINE g == [Idle EXCEPT !.op = "export", !.step = "obtain", !.warned = mismatched[d]]
    <3>1. g \in Flow
      BY <1>t DEF TypeOK, Flow, Idle, MaybeKey, MaybeAccount
    <3>2. FlowIs(g, dek'[d], wrap')
      BY DEF FlowIs, Idle
    <3>3. Become(d, "button", g)
      BY <2>1 DEF PressExport
    <3> QED
      BY <3>1, <3>2, <3>3
  <2>2. ASSUME NEW k \in Key, PressImport(d, k)
        PROVE  \E f \in Flow : Become(d, "button", f) /\ FlowIs(f, dek'[d], wrap')
    <3> DEFINE g == [Idle EXCEPT !.op = "import", !.step = "sign", !.key = k]
    <3>1. g \in Flow
      BY DEF Flow, Idle, MaybeKey, MaybeAccount
    <3>2. FlowIs(g, dek'[d], wrap')
      BY KeyAssumption DEF FlowIs, Idle
    <3>3. Become(d, "button", g)
      BY <2>2 DEF PressImport
    <3> QED
      BY <3>1, <3>2, <3>3
  <2> QED
    BY <2>1, <2>2
<1>3. KeepsKey(d) /\ WrapsStay /\ "button" \in Slot
  BY <1>1 DEF KeepsKey, WrapsStay, Slot
<1> QED
  BY <1>t, <1>1, <1>2, <1>3, OperationKeeps DEF TypeOK

\* A record with a key that is wrapped, for the wallet key of the record if it has one,
\* is that of an operation which has its key.
LEMMA HaveKeeps ==
  ASSUME EnrollmentOK, NEW d \in Device, NEW s \in Slot, NEW k \in Key, Have(d, s, k),
         In(wrap', k), WrapsStay,
         flow[d][s].wallet # NoWallet => \E a \in Account : wrap'[a][flow[d][s].wallet] = k,
         wrap' \in [Account -> [WalletKey -> MaybeKey]],
         token' \in [Device -> MaybeAccount],
         UNCHANGED <<data, wallet, stored, sw, exported, mismatched, failures, upsets>>
  PROVE  EnrollmentOK'
<1> DEFINE f == [flow[d][s] EXCEPT !.step = "have", !.key = k]
<1>t. TypeOK /\ flow[d][s] \in Flow /\ k \in MaybeKey /\ k # NoKey
  BY RecordIs, KeyAssumption DEF EnrollmentOK, MaybeKey
<1>1. f \in Flow
  BY <1>t DEF Flow
<1>2. Become(d, s, f) /\ dek' = [dek EXCEPT ![d] = k]
  BY DEF Have
<1>3. KeepsKey(d) /\ dek'[d] = k
  BY <1>2, <1>t DEF KeepsKey, TypeOK
<1>4. f.step = "have" /\ f.key = k /\ f.wallet = flow[d][s].wallet
  BY <1>t DEF Flow
<1>5. FlowIs(f, dek'[d], wrap')
  BY <1>t, <1>3, <1>4 DEF FlowIs
<1> HIDE DEF f
<1> QED
  BY <1>t, <1>1, <1>2, <1>3, <1>5, OperationKeeps DEF TypeOK

\* A step to a record that needs no more than what is known keeps the invariant.
LEMMA GoesOn ==
  ASSUME EnrollmentOK, NEW d \in Device, NEW s \in Slot, NEW f \in Flow, Become(d, s, f),
         FlowIs(f, dek[d], wrap),
         token' \in [Device -> MaybeAccount], failures' \in 0 .. MaxFailures,
         UNCHANGED <<wrap, dek, data, wallet, stored, sw, exported, mismatched, upsets>>
  PROVE  EnrollmentOK'
<1>1. KeepsKey(d) /\ WrapsStay /\ wrap' \in [Account -> [WalletKey -> MaybeKey]]
  BY DEF KeepsKey, WrapsStay, EnrollmentOK, TypeOK
<1> QED
  BY <1>1, OperationKeeps

\* An operation that is over leaves nothing under way.
LEMMA StopKeeps ==
  ASSUME EnrollmentOK, NEW d \in Device, NEW s \in Slot, Stop(d, s), WrapsStay,
         wrap' \in [Account -> [WalletKey -> MaybeKey]],
         token' \in [Device -> MaybeAccount], failures' \in 0 .. MaxFailures,
         UNCHANGED <<dek, data, wallet, stored, sw, exported, mismatched, upsets>>
  PROVE  EnrollmentOK'
<1>1. Idle \in Flow /\ FlowIs(Idle, dek'[d], wrap')
  BY DEF Idle, Flow, MaybeKey, MaybeAccount, FlowIs
<1>2. Become(d, s, Idle) /\ KeepsKey(d)
  BY DEF Stop, KeepsKey
<1> QED
  BY <1>1, <1>2, OperationKeeps

\* obtainDek() goes on with the key in memory, or to the signatures.
LEMMA ObtainKeeps ==
  ASSUME EnrollmentOK, NEW d \in Device, NEW s \in Slot, Obtain(d, s)
  PROVE  EnrollmentOK'
<1>t. TypeOK /\ flow[d][s] \in Flow /\ FlowIs(flow[d][s], dek[d], wrap)
  BY RecordIs DEF EnrollmentOK
<1>0. /\ UNCHANGED <<wrap, data, wallet, token, dek, stored, sw, exported, mismatched,
                     failures, upsets>>
      /\ token' \in [Device -> MaybeAccount] /\ failures' \in 0 .. MaxFailures
  BY <1>t DEF Obtain, storeVars, TypeOK
<1>1. CASE dek[d] # NoKey
  <2> DEFINE g == [flow[d][s] EXCEPT !.step = "have", !.key = dek[d]]
  <2>1. dek[d] \in MaybeKey /\ In(wrap, dek[d])
    BY <1>1, <1>t DEF EnrollmentOK, KeysAreWrapped, Wrapped, In, TypeOK
  <2>2. g \in Flow /\ Become(d, s, g)
    BY <1>1, <1>t, <2>1 DEF Obtain, Flow, Goto
  <2>3. /\ g.op = flow[d][s].op /\ g.step = "have" /\ g.key = dek[d]
        /\ g.wallet = flow[d][s].wallet /\ flow[d][s].step = "obtain"
    BY <1>t DEF Flow, Obtain, At
  <2>4. FlowIs(g, dek[d], wrap)
    BY <1>1, <1>t, <2>1, <2>3 DEF FlowIs
  <2> HIDE DEF g
  <2> QED
    BY <1>0, <2>2, <2>4, GoesOn
<1>2. CASE dek[d] = NoKey
  <2> DEFINE g == [flow[d][s] EXCEPT !.step = "sign"]
  <2>1. g \in Flow /\ Become(d, s, g)
    BY <1>2, <1>t DEF Obtain, Flow, Goto
  <2>2. g.op = flow[d][s].op /\ g.step = "sign" /\ g.key = flow[d][s].key
    BY <1>t DEF Flow
  <2>3. FlowIs(g, dek[d], wrap)
    BY <1>t, <2>2 DEF FlowIs
  <2> HIDE DEF g
  <2> QED
    BY <1>0, <2>1, <2>3, GoesOn
<1> QED
  BY <1>1, <1>2

\* deriveKeyMaterial() makes the wallet key known, or ends the operation.
LEMMA SignKeeps ==
  ASSUME EnrollmentOK, NEW d \in Device, NEW s \in Slot, Sign(d, s)
  PROVE  EnrollmentOK'
<1>t. TypeOK /\ flow[d][s] \in Flow /\ FlowIs(flow[d][s], dek[d], wrap)
  BY RecordIs DEF EnrollmentOK
<1>0. /\ UNCHANGED <<wrap, data, wallet, token, dek, stored, sw, exported, mismatched,
                     failures, upsets>>
      /\ token' \in [Device -> MaybeAccount] /\ failures' \in 0 .. MaxFailures
      /\ WrapsStay /\ wrap' \in [Account -> [WalletKey -> MaybeKey]]
  BY <1>t DEF Sign, storeVars, TypeOK, WrapsStay
<1>1. CASE Stop(d, s)
  BY <1>0, <1>1, StopKeeps
<1>2. CASE ~Stop(d, s)
  <2> DEFINE next == IF flow[d][s].op = "import" THEN "put" ELSE "fetch"
             g == [flow[d][s] EXCEPT !.step = next, !.wallet = wallet[d]]
  <2>1. wallet[d] \in WalletKey /\ wallet[d] # NoWallet
    BY <1>t DEF Sign, TypeOK
  <2>2. g \in Flow /\ Become(d, s, g)
    BY <1>2, <1>t, <2>1 DEF Sign, Flow
  <2>3. /\ g.op = flow[d][s].op /\ g.step = next /\ g.key = flow[d][s].key
        /\ g.wallet = wallet[d]
    BY <1>t DEF Flow
  <2>4. FlowIs(g, dek[d], wrap)
    BY <1>t, <2>1, <2>3 DEF FlowIs
  <2> HIDE DEF g
  <2> QED
    BY <1>0, <2>2, <2>4, GoesOn
<1> QED
  BY <1>1, <1>2

\* A failure ends the operation.
LEMMA FailKeeps ==
  ASSUME EnrollmentOK, NEW d \in Device, NEW s \in Slot, Fail(d, s)
  PROVE  EnrollmentOK'
<1>1. /\ Stop(d, s) /\ WrapsStay
      /\ UNCHANGED <<wrap, dek, data, wallet, token, stored, sw, exported, mismatched, upsets>>
  BY DEF Fail, storeVars, WrapsStay
<1>2. failures' \in 0 .. MaxFailures
  BY KeyAssumption DEF Fail, EnrollmentOK, TypeOK
<1> QED
  BY <1>1, <1>2, StopKeeps DEF EnrollmentOK, TypeOK

\* The key found wrapped, or the way to the first setup.
LEMMA FetchKeeps ==
  ASSUME EnrollmentOK, NEW d \in Device, NEW s \in Slot, FetchWrap(d, s) \/ Refetch(d, s)
  PROVE  EnrollmentOK'
<1> DEFINE w == flow[d][s].wallet
<1>t. TypeOK /\ flow[d][s] \in Flow /\ FlowIs(flow[d][s], dek[d], wrap)
  BY RecordIs DEF EnrollmentOK
<1>0. /\ UNCHANGED <<wrap, data, wallet, stored, sw, exported, mismatched, failures, upsets>>
      /\ WrapsStay /\ wrap' \in [Account -> [WalletKey -> MaybeKey]]
      /\ failures' \in 0 .. MaxFailures
  BY <1>t DEF FetchWrap, Refetch, storeVars, TypeOK, WrapsStay
<1>1. w \in WalletKey /\ w # NoWallet
  BY <1>t, RecordIs DEF FetchWrap, Refetch, At, FlowIs
<1>2. PICK a \in Account :
        /\ Authorized(d, a)
        /\ \/ wrap[a][w] # NoKey /\ Have(d, s, wrap[a][w])
           \/ FetchWrap(d, s) /\ Goto(d, s, "probe") /\ UNCHANGED dek
  BY DEF FetchWrap, Refetch
<1>3. token' \in [Device -> MaybeAccount]
  BY <1>t, <1>2, AuthorizedTyped
<1>4. CASE wrap[a][w] # NoKey /\ Have(d, s, wrap[a][w])
  <2>1. wrap[a][w] \in Key /\ In(wrap', wrap[a][w]) /\ wrap'[a][w] = wrap[a][w]
    BY <1>t, <1>0, <1>1, <1>4 DEF TypeOK, MaybeKey, In
  <2> QED
    BY <1>0, <1>3, <1>4, <2>1, HaveKeeps
<1>5. CASE FetchWrap(d, s) /\ Goto(d, s, "probe") /\ UNCHANGED dek
  <2> DEFINE g == [flow[d][s] EXCEPT !.step = "probe"]
  <2>1. g \in Flow /\ Become(d, s, g)
    BY <1>5, <1>t DEF Flow, Goto
  <2>2. g.op = flow[d][s].op /\ g.step = "probe" /\ g.key = flow[d][s].key /\ g.wallet = w
    BY <1>t DEF Flow
  <2>3. FlowIs(g, dek[d], wrap)
    BY <1>t, <1>1, <2>2 DEF FlowIs
  <2> HIDE DEF g
  <2> QED
    BY <1>0, <1>3, <1>5, <2>1, <2>3, GoesOn
<1> QED
  BY <1>2, <1>4, <1>5

\* A new key for a store without data.
LEMMA ProbeKeeps ==
  ASSUME EnrollmentOK, NEW d \in Device, NEW s \in Slot, Probe(d, s)
  PROVE  EnrollmentOK'
<1>t. TypeOK /\ flow[d][s] \in Flow /\ FlowIs(flow[d][s], dek[d], wrap)
  BY RecordIs DEF EnrollmentOK
<1>0. /\ UNCHANGED <<wrap, data, wallet, dek, stored, sw, exported, mismatched, failures,
                     upsets>>
      /\ WrapsStay /\ wrap' \in [Account -> [WalletKey -> MaybeKey]]
      /\ failures' \in 0 .. MaxFailures
  BY <1>t DEF Probe, storeVars, TypeOK, WrapsStay
<1>1. token' \in [Device -> MaybeAccount]
  BY <1>t, AuthorizedTyped DEF Probe
<1>2. CASE Stop(d, s)
  BY <1>0, <1>1, <1>2, StopKeeps
<1>3. ASSUME NEW k \in Key, Become(d, s, [flow[d][s] EXCEPT !.step = "put", !.key = k])
      PROVE  EnrollmentOK'
  <2> DEFINE g == [flow[d][s] EXCEPT !.step = "put", !.key = k]
  <2>1. g \in Flow /\ Become(d, s, g)
    BY <1>3, <1>t DEF Flow, MaybeKey
  <2>2. /\ g.op = flow[d][s].op /\ g.step = "put" /\ g.key = k
        /\ g.wallet = flow[d][s].wallet /\ flow[d][s].step = "probe"
    BY <1>t DEF Flow, Probe, At
  <2>3. FlowIs(g, dek[d], wrap)
    BY <1>t, <2>2, KeyAssumption DEF FlowIs
  <2> HIDE DEF g
  <2> QED
    BY <1>0, <1>1, <2>1, <2>3, GoesOn
<1> QED
  BY <1>2, <1>3 DEF Probe

\* A create-only wrap: it is stored, its answer is lost, or one is there.
LEMMA PutKeeps ==
  ASSUME EnrollmentOK, NEW d \in Device, NEW s \in Slot, PutWrap(d, s)
  PROVE  EnrollmentOK'
<1> DEFINE w == flow[d][s].wallet
           k == flow[d][s].key
           next == IF flow[d][s].op = "import" THEN "verify" ELSE "refetch"
<1>t. TypeOK /\ flow[d][s] \in Flow /\ FlowIs(flow[d][s], dek[d], wrap)
  BY RecordIs DEF EnrollmentOK
<1>0. UNCHANGED <<data, wallet, stored, sw, exported, mismatched, upsets>>
  BY DEF PutWrap
<1>1. w \in WalletKey /\ w # NoWallet /\ k \in Key
  BY <1>t, RecordIs DEF PutWrap, At, FlowIs, MaybeKey
<1>2. PICK a \in Account :
        /\ Authorized(d, a)
        /\ \/ wrap[a][w] = NoKey /\ wrap' = [wrap EXCEPT ![a][w] = k] /\ Have(d, s, k)
              /\ UNCHANGED failures
           \/ wrap[a][w] = NoKey /\ wrap' = [wrap EXCEPT ![a][w] = k] /\ Stop(d, s)
              /\ failures < MaxFailures /\ failures' = failures + 1 /\ UNCHANGED dek
           \/ Goto(d, s, next) /\ UNCHANGED <<wrap, dek, failures>>
  BY DEF PutWrap
<1>3. token' \in [Device -> MaybeAccount]
  BY <1>t, <1>2, AuthorizedTyped
<1>4. failures' \in 0 .. MaxFailures
  BY <1>t, <1>2, KeyAssumption DEF TypeOK
<1>5. wrap[a][w] = NoKey /\ wrap' = [wrap EXCEPT ![a][w] = k]
      => /\ WrapsStay /\ wrap'[a][w] = k /\ In(wrap', k)
         /\ wrap' \in [Account -> [WalletKey -> MaybeKey]]
  <2> SUFFICES ASSUME wrap[a][w] = NoKey, wrap' = [wrap EXCEPT ![a][w] = k]
               PROVE  /\ WrapsStay /\ wrap'[a][w] = k /\ In(wrap', k)
                      /\ wrap' \in [Account -> [WalletKey -> MaybeKey]]
    OBVIOUS
  <2> HIDE DEF w, k
  <2>1. wrap'[a][w] = k /\ wrap' \in [Account -> [WalletKey -> MaybeKey]]
    BY <1>t, <1>1 DEF TypeOK, MaybeKey
  <2>2. WrapsStay
    BY <1>t, <1>1 DEF TypeOK, WrapsStay
  <2> QED
    BY <1>1, <2>1, <2>2 DEF In
<1>6. CASE /\ wrap[a][w] = NoKey /\ wrap' = [wrap EXCEPT ![a][w] = k]
           /\ Have(d, s, k) /\ UNCHANGED failures
  BY <1>0, <1>1, <1>3, <1>5, <1>6, HaveKeeps
<1>7. CASE wrap[a][w] = NoKey /\ wrap' = [wrap EXCEPT ![a][w] = k] /\ Stop(d, s)
           /\ UNCHANGED dek
  BY <1>0, <1>3, <1>4, <1>5, <1>7, StopKeeps
<1>8. CASE Goto(d, s, next) /\ UNCHANGED <<wrap, dek, failures>>
  <2> DEFINE g == [flow[d][s] EXCEPT !.step = next]
  <2>1. g \in Flow /\ Become(d, s, g)
    BY <1>8, <1>t DEF Flow, Goto
  <2>2. g.op = flow[d][s].op /\ g.step = next /\ g.key = k /\ g.wallet = w
    BY <1>t DEF Flow
  <2>3. FlowIs(g, dek[d], wrap)
    BY <1>t, <1>1, <2>2, KeyAssumption DEF FlowIs
  <2> HIDE DEF g, next
  <2> QED
    BY <1>0, <1>3, <1>4, <1>8, <2>1, <2>3, GoesOn
<1> QED
  BY <1>2, <1>6, <1>7, <1>8

\* An import for an enrolled wallet key ends with the key of its wrap.
LEMMA VerifyKeeps ==
  ASSUME EnrollmentOK, NEW d \in Device, NEW s \in Slot, Verify(d, s)
  PROVE  EnrollmentOK'
<1> DEFINE w == flow[d][s].wallet
           k == flow[d][s].key
<1>t. TypeOK /\ flow[d][s] \in Flow /\ FlowIs(flow[d][s], dek[d], wrap)
  BY RecordIs DEF EnrollmentOK
<1>0. /\ UNCHANGED <<wrap, data, wallet, stored, sw, exported, mismatched, failures, upsets>>
      /\ WrapsStay /\ wrap' \in [Account -> [WalletKey -> MaybeKey]]
      /\ failures' \in 0 .. MaxFailures
  BY <1>t DEF Verify, storeVars, TypeOK, WrapsStay
<1>1. w \in WalletKey /\ k \in Key
  BY <1>t, RecordIs DEF Verify, At, FlowIs, MaybeKey
<1>2. PICK a \in Account :
        /\ Authorized(d, a)
        /\ (wrap[a][w] = k /\ Have(d, s, k)) \/ (Stop(d, s) /\ UNCHANGED dek)
  BY DEF Verify
<1>3. token' \in [Device -> MaybeAccount]
  BY <1>t, <1>2, AuthorizedTyped
<1>4. CASE wrap[a][w] = k /\ Have(d, s, k)
  <2>1. wrap'[a][w] = k /\ In(wrap', k)
    BY <1>0, <1>1, <1>4 DEF In
  <2> QED
    BY <1>0, <1>1, <1>3, <1>4, <2>1, HaveKeeps
<1>5. CASE Stop(d, s) /\ UNCHANGED dek
  BY <1>0, <1>3, <1>5, StopKeeps
<1> QED
  BY <1>2, <1>4, <1>5

\* A step that moves an operation on without touching the key of its page or the wraps.
LEMMA MovesOn ==
  ASSUME EnrollmentOK, NEW d \in Device, NEW s \in Slot, NEW f \in Flow, Become(d, s, f),
         FlowIs(f, dek[d], wrap), UNCHANGED <<wrap, dek>>
  PROVE  /\ \A e \in Device, t \in Slot : FlowIs(flow'[e][t], dek'[e], wrap')
         /\ flow' \in [Device -> [Slot -> Flow]]
<1>1. KeepsKey(d) /\ WrapsStay
  BY DEF KeepsKey, WrapsStay
<1> QED
  BY <1>1, OthersKeep, BecomeTyped DEF EnrollmentOK

\* No operation under way is as good as one.
LEMMA IdleIs == Idle \in Flow /\ \A k \in MaybeKey : FlowIs(Idle, k, wrap)
  BY DEF Idle, Flow, MaybeKey, MaybeAccount, FlowIs

\* The exported key is the one in memory, which is wrapped.
LEMMA ButtonEndsKeeps ==
  ASSUME EnrollmentOK, NEW d \in Device, ButtonEnds(d)
  PROVE  EnrollmentOK'
<1>t. TypeOK /\ KeysAreWrapped /\ dek[d] \in MaybeKey /\ "button" \in Slot
  BY DEF EnrollmentOK, TypeOK, Slot
<1>0. UNCHANGED <<wrap, data, wallet, token, dek, stored, sw, mismatched, failures, upsets>>
  BY DEF ButtonEnds, storeVars
<1>1. dek[d] \in Key /\ Wrapped(dek[d])
  BY <1>t DEF ButtonEnds, At, EnrollmentOK, FlowIs, KeysAreWrapped, MaybeKey
<1>2. exported' = exported \/ exported' = exported \cup {dek[d]}
  BY DEF ButtonEnds
<1>3. /\ \A e \in Device, t \in Slot : FlowIs(flow'[e][t], dek'[e], wrap')
      /\ flow' \in [Device -> [Slot -> Flow]]
  BY <1>t, <1>0, IdleIs, MovesOn DEF ButtonEnds, Stop
<1>4. TypeOK'
  BY <1>t, <1>0, <1>1, <1>2, <1>3 DEF TypeOK
<1>5. KeysAreWrapped'
  BY <1>t, <1>0, <1>1, <1>2 DEF KeysAreWrapped, Wrapped
<1> QED
  BY <1>3, <1>4, <1>5 DEF EnrollmentOK

\* The service worker gets the key that the synchronization obtained.
LEMMA ConfigureKeeps ==
  ASSUME EnrollmentOK, NEW d \in Device, Configure(d)
  PROVE  EnrollmentOK'
<1> DEFINE f == flow[d]["sync"]
           g == [f EXCEPT !.step = "configured"]
<1>t. TypeOK /\ KeysAreWrapped /\ "sync" \in Slot
  BY DEF EnrollmentOK, TypeOK, Slot
<1>f. f \in Flow /\ FlowIs(f, dek[d], wrap) /\ f.step = "have" /\ f.key \in MaybeKey
  BY <1>t, RecordIs DEF Configure, At
<1>0. UNCHANGED <<wrap, data, wallet, dek, stored, exported, mismatched, failures, upsets>>
  BY DEF Configure, storeVars
<1>1. PICK a \in Account : Authorized(d, a)
                           /\ sw' = [sw EXCEPT ![d] = [account |-> a, key |-> f.key]]
  BY DEF Configure
<1>2. token' \in [Device -> MaybeAccount]
  BY <1>t, <1>1, AuthorizedTyped
<1>3. f.key # NoKey /\ Wrapped(f.key)
  BY <1>f DEF FlowIs, In, Wrapped
<1>4. g \in Flow /\ Become(d, "sync", g) /\ FlowIs(g, dek[d], wrap)
  <2>1. g \in Flow /\ Become(d, "sync", g)
    BY <1>f DEF Flow, Configure, Goto
  <2>2. g.step = "configured" /\ g.op = f.op /\ g.key = f.key /\ g.wallet = f.wallet
    BY <1>f DEF Flow
  <2> QED
    BY <1>f, <2>1, <2>2 DEF FlowIs
<1> HIDE DEF g
<1>5. /\ \A e \in Device, t \in Slot : FlowIs(flow'[e][t], dek'[e], wrap')
      /\ flow' \in [Device -> [Slot -> Flow]]
  BY <1>t, <1>0, <1>4, MovesOn
<1> HIDE DEF f
<1>6. /\ sw' \in [Device -> Config]
      /\ \A e \in Device : sw'[e] = sw[e] \/ sw'[e].key = f.key
  <2>1. [account |-> a, key |-> f.key] \in Config
    BY <1>f DEF Config, MaybeAccount
  <2> QED
    BY <1>t, <1>1, <2>1 DEF TypeOK
<1>7. TypeOK'
  BY <1>t, <1>0, <1>2, <1>5, <1>6 DEF TypeOK
<1>8. KeysAreWrapped'
  BY <1>t, <1>0, <1>3, <1>6 DEF KeysAreWrapped, Wrapped
<1> QED
  BY <1>5, <1>7, <1>8 DEF EnrollmentOK

\* What is remembered on the device is the key in memory.
LEMMA PersistKeeps ==
  ASSUME EnrollmentOK, NEW d \in Device, Persist(d)
  PROVE  EnrollmentOK'
<1> DEFINE f == flow[d]["sync"]
           g == [f EXCEPT !.step = "push"]
<1>t. TypeOK /\ KeysAreWrapped /\ "sync" \in Slot /\ dek[d] \in MaybeKey
  BY DEF EnrollmentOK, TypeOK, Slot
<1>f. /\ f \in Flow /\ FlowIs(f, dek[d], wrap) /\ f.step = "configured"
      /\ f.account \in Account \cup {NoAccount}
  BY <1>t, RecordIs DEF Persist, At, Flow, MaybeAccount
<1>0. UNCHANGED <<wrap, data, wallet, token, dek, sw, exported, mismatched, failures, upsets>>
  BY DEF Persist, storeVars
<1>1. dek[d] # NoKey /\ Wrapped(dek[d])
  BY <1>t, <1>f DEF FlowIs, KeysAreWrapped
<1>2. stored' = stored \/ \E a \in Account : stored' = [stored EXCEPT ![d][a] = dek[d]]
  BY <1>f DEF Persist
<1>3. g \in Flow /\ Become(d, "sync", g) /\ FlowIs(g, dek[d], wrap)
  <2>1. g \in Flow /\ Become(d, "sync", g)
    BY <1>f DEF Flow, Persist, Goto
  <2>2. g.step = "push" /\ g.op = f.op /\ g.key = f.key /\ g.wallet = f.wallet
    BY <1>f DEF Flow
  <2> QED
    BY <1>f, <2>1, <2>2 DEF FlowIs
<1> HIDE DEF f, g
<1>4. /\ \A e \in Device, t \in Slot : FlowIs(flow'[e][t], dek'[e], wrap')
      /\ flow' \in [Device -> [Slot -> Flow]]
  BY <1>t, <1>0, <1>3, MovesOn
<1>5. /\ stored' \in [Device -> [Account -> MaybeKey]]
      /\ \A e \in Device, a \in Account :
           stored'[e][a] = stored[e][a] \/ stored'[e][a] = dek[d]
  <2>1. CASE stored' = stored
    BY <2>1, <1>t DEF TypeOK
  <2>2. ASSUME NEW b \in Account, stored' = [stored EXCEPT ![d][b] = dek[d]]
        PROVE  /\ stored' \in [Device -> [Account -> MaybeKey]]
               /\ \A e \in Device, a \in Account :
                    stored'[e][a] = stored[e][a] \/ stored'[e][a] = dek[d]
    BY <2>2, <1>t DEF TypeOK
  <2> QED
    BY <1>2, <2>1, <2>2
<1>6. TypeOK'
  BY <1>t, <1>0, <1>4, <1>5 DEF TypeOK
<1>7. KeysAreWrapped'
  BY <1>t, <1>0, <1>1, <1>5 DEF KeysAreWrapped, Wrapped
<1> QED
  BY <1>4, <1>6, <1>7 DEF EnrollmentOK

\* A store takes data under the key of the service worker, which is wrapped.
LEMMA PushKeeps ==
  ASSUME EnrollmentOK, NEW d \in Device, Push(d)
  PROVE  EnrollmentOK'
<1>t. TypeOK /\ KeysAreWrapped /\ "sync" \in Slot /\ dek[d] \in MaybeKey
  BY DEF EnrollmentOK, TypeOK, Slot
<1>0. UNCHANGED <<wrap, wallet, token, dek, stored, sw, exported, failures, upsets>>
  BY DEF Push
<1>1. mismatched' \in [Device -> BOOLEAN]
  BY <1>t DEF Push, TypeOK
<1>2. \/ data' = data
      \/ /\ sw[d].key # NoKey /\ Wrapped(sw[d].key) /\ sw[d].key \in MaybeKey
         /\ data' = [data EXCEPT ![sw[d].account] = sw[d].key]
  BY <1>t DEF Push, KeysAreWrapped, TypeOK, Config
<1>3. /\ data' \in [Account -> MaybeKey]
      /\ \A a \in Account : data'[a] = data[a] \/ (data'[a] = sw[d].key /\ Wrapped(sw[d].key))
  BY <1>t, <1>2 DEF TypeOK
<1>4. /\ \A e \in Device, t \in Slot : FlowIs(flow'[e][t], dek'[e], wrap')
      /\ flow' \in [Device -> [Slot -> Flow]]
  BY <1>t, <1>0, IdleIs, MovesOn DEF Push, Stop
<1>5. TypeOK'
  BY <1>t, <1>0, <1>1, <1>3, <1>4 DEF TypeOK
<1>6. KeysAreWrapped'
  BY <1>t, <1>0, <1>3 DEF KeysAreWrapped, Wrapped
<1> QED
  BY <1>4, <1>5, <1>6 DEF EnrollmentOK

---------------------------------------------------------------------------
(* The theorems *)

\* Nobody has a key at the start.
LEMMA InitEnrollment == Init => EnrollmentOK
<1> SUFFICES ASSUME Init PROVE EnrollmentOK
  OBVIOUS
<1>1. TypeOK
  BY InitTyped
<1>2. KeysAreWrapped
  BY DEF Init, KeysAreWrapped
<1>3. ASSUME NEW d \in Device, NEW s \in Slot PROVE FlowIs(flow[d][s], dek[d], wrap)
  <2>1. flow[d][s] = Idle
    BY DEF Init
  <2> QED
    BY <2>1 DEF Idle, FlowIs
<1> QED
  BY <1>1, <1>2, <1>3 DEF EnrollmentOK

\* Every step keeps the invariant.
LEMMA NextEnrollment == EnrollmentOK /\ [Next]_vars => EnrollmentOK'
<1> SUFFICES ASSUME EnrollmentOK, [Next]_vars PROVE EnrollmentOK'
  OBVIOUS
<1>1. CASE UNCHANGED vars
  BY <1>1 DEF vars, storeVars, pageVars, EnrollmentOK, TypeOK, KeysAreWrapped, Wrapped
<1>2. ASSUME NEW d \in Device, (\E w \in WalletKey : Login(d, w)) \/ Logout(d)
                               \/ SessionEnds(d) \/ TokenExpires(d)
      PROVE  EnrollmentOK'
  BY <1>2, SessionKeeps
<1>3. ASSUME NEW d \in Device, Reload(d) \/ ServiceWorkerStops(d) \/ ForgetKey(d)
      PROVE  EnrollmentOK'
  BY <1>3, ReloadKeeps, ForgettingKeeps
<1>4. ASSUME NEW d \in Device,
             PressSync(d) \/ PressExport(d) \/ \E k \in Key : PressImport(d, k)
      PROVE  EnrollmentOK'
  BY <1>4, PressSyncKeeps, ButtonsKeep
<1>5. ASSUME NEW d \in Device, NEW s \in Slot,
             \/ Obtain(d, s) \/ Sign(d, s) \/ FetchWrap(d, s) \/ Probe(d, s)
             \/ PutWrap(d, s) \/ Refetch(d, s) \/ Verify(d, s) \/ Fail(d, s)
      PROVE  EnrollmentOK'
  BY <1>5, ObtainKeeps, SignKeeps, FetchKeeps, ProbeKeeps, PutKeeps, VerifyKeeps, FailKeeps
<1>6. ASSUME NEW d \in Device, ButtonEnds(d) \/ Configure(d) \/ Persist(d) \/ Push(d)
      PROVE  EnrollmentOK'
  BY <1>6, ButtonEndsKeeps, ConfigureKeeps, PersistKeeps, PushKeeps
<1> QED
  BY <1>1, <1>2, <1>3, <1>4, <1>5, <1>6 DEF Next

\* The invariant holds always: the facts about what is under way between two awaits
\* that KeysAreWrapped rests on.
THEOREM EnrollmentInvariant == Spec => []EnrollmentOK
  BY InitEnrollment, NextEnrollment, PTL DEF Spec

\* The types hold always.
THEOREM EnrollmentTyped == Spec => []TypeOK
<1>1. EnrollmentOK => TypeOK
  BY DEF EnrollmentOK
<1> QED
  BY <1>1, EnrollmentInvariant, PTL

\* No key that is in use anywhere is known to one browser only: it is wrapped in the
\* store for some wallet key.
THEOREM NoKeyIsLost == Spec => []KeysAreWrapped
<1>1. EnrollmentOK => KeysAreWrapped
  BY DEF EnrollmentOK
<1> QED
  BY <1>1, EnrollmentInvariant, PTL

\* Whoever wins a first setup, the key that a page obtained with a wallet key is the one
\* wrapped for that wallet key.
THEOREM OneKeyPerWallet == Spec => []KeyOfItsWallet
<1>1. EnrollmentOK => KeyOfItsWallet
  BY DEF EnrollmentOK, FlowIs, KeyOfItsWallet
<1> QED
  BY <1>1, EnrollmentInvariant, PTL
=============================================================================

---------------------------- MODULE GatewayAccess ----------------------------
(***************************************************************************)
(* Tokens and signatures of one page: arizgateway/arizgatewayaccess.js.     *)
(*                                                                         *)
(* A request sends the cached token.  The gateway may have retired it       *)
(* before the browser believes it has lapsed; a refused request asks the    *)
(* wallet for a new signature and tries once more, and background work must *)
(* not put a wallet dialog before the user.  A confidential fetch signs as  *)
(* another account through a throwaway sign-in, in the wallet's own entries *)
(* of localStorage, which it puts back.                                    *)
(*                                                                         *)
(* Tokens are numbered as they are signed, so the older lapse first.        *)
(***************************************************************************)
EXTENDS Naturals, FiniteSets

CONSTANTS
  Request,     \* calls of fetchFromArizGateway that may be under way at once
  Background,  \* those of them with interactive: false
  Fetch,       \* confidential fetches, which sign as Other
  Account,     \* accounts that may sign in
  Other,       \* an account whose confidential history is fetched
  NoOne,       \* null
  MaxTokens    \* bound: signatures for the gateway

ASSUME GatewayAssumption ==
  /\ Background \subseteq Request
  /\ Other \notin Account /\ NoOne \notin Account \cup {Other}
  /\ MaxTokens \in Nat

VARIABLES
  signer,   \* signer[n]: the account that signed token n
  stored,   \* the token in localStorage, or 0
  lapsed,   \* tokens up to this one are older than TOKEN_TTL_MS
  retired,  \* tokens up to this one are refused by the gateway
  wallet,   \* the account the connector has connected, or NoOne
  entry,    \* the account the wallet itself has stored, and signs as
  leaving,  \* a logout has removed the token and not yet disconnected
  request,  \* request[r]: where r stands, the token it sent, and its first or second try
  fetch,    \* fetch[f]: where f's throwaway sign-in stands, and the entry it saved
  crossed   \* have a dialog and a change of the signed-in account met?

accessVars == <<signer, stored, lapsed, retired, wallet, entry, leaving, request, fetch, crossed>>

Minted == Cardinality({n \in 1 .. MaxTokens : signer[n] # NoOne})
Fresh == stored > lapsed
Interactive(r) == r \notin Background

At(at, token, try) == [at |-> at, token |-> token, try |-> try]
Idle == At("idle", 0, 0)
Signing == {r \in Request : request[r].at = "sign"}
SigningIn == {f \in Fetch : fetch[f].at # "idle"}

AccessInit ==
  /\ signer = [n \in 1 .. MaxTokens |-> NoOne]
  /\ stored = 0 /\ lapsed = 0 /\ retired = 0
  /\ wallet \in Account \cup {NoOne}
  /\ entry = wallet
  /\ leaving = FALSE
  /\ request = [r \in Request |-> Idle]
  /\ fetch = [f \in Fetch |-> [at |-> "idle", before |-> NoOne]]
  /\ crossed = FALSE

---------------------------------------------------------------------------
(* fetchFromArizGateway, between two awaits at a time. *)

Become(r, state) == request' = [request EXCEPT ![r] = state]
Settle(r) == Become(r, Idle)

\* createAccessToken opens a dialog; without a wallet it throws.
AskForSignature(r, try) ==
  IF wallet = NoOne THEN Settle(r) /\ UNCHANGED crossed
  ELSE /\ Become(r, At("sign", 0, try))
       /\ crossed' = (crossed \/ SigningIn # {} \/ leaving)

\* getAccessToken.
SendWithToken(r, try) ==
  IF Fresh THEN Become(r, At("sent", stored, try)) /\ UNCHANGED crossed
  ELSE AskForSignature(r, try)

\* With a fresh token nothing is asked of the wallet, and the rest follows in one turn.
Begin(r) ==
  /\ request[r].at = "idle"
  /\ IF Fresh THEN SendWithToken(r, 1)
     ELSE Interactive(r) /\ Become(r, At("wallet", 0, 1)) /\ UNCHANGED crossed
  /\ UNCHANGED <<signer, stored, lapsed, retired, wallet, entry, leaving, fetch>>

\* isSignedIn has asked the wallet: nobody is signed in, or a token is needed.
WalletAnswers(r) ==
  /\ request[r].at = "wallet"
  /\ IF wallet = NoOne /\ ~Fresh THEN Settle(r) /\ UNCHANGED crossed ELSE SendWithToken(r, 1)
  /\ UNCHANGED <<signer, stored, lapsed, retired, wallet, entry, leaving, fetch>>

\* The user signs, as the account the wallet has stored.
Sign(r) ==
  /\ request[r].at = "sign" /\ Minted < MaxTokens /\ entry # NoOne
  /\ signer' = [signer EXCEPT ![Minted + 1] = entry]
  /\ stored' = Minted + 1
  /\ Become(r, At("sent", Minted + 1, request[r].try))
  /\ UNCHANGED <<lapsed, retired, wallet, entry, leaving, fetch, crossed>>

\* Or closes the dialog; what was connected may be gone.
Decline(r) ==
  /\ request[r].at = "sign"
  /\ Settle(r)
  /\ UNCHANGED <<signer, stored, lapsed, retired, wallet, entry, leaving, fetch, crossed>>

\* An answer, an error of another kind, or none within GATEWAY_TIMEOUT_MILLIS.
Answered(r) ==
  /\ request[r].at = "sent"
  /\ Settle(r)
  /\ UNCHANGED <<signer, stored, lapsed, retired, wallet, entry, leaving, fetch, crossed>>

\* Mutant: whoever is refused signs again.
MaySignAgain(r) == request[r].try = 1
Retries(r) == Interactive(r) /\ request[r].try = 1

\* 401: the token goes, whichever is stored by now.
Refused(r) ==
  /\ request[r].at = "sent" /\ request[r].token <= retired
  /\ IF request[r].try = 1
     THEN stored' = 0 /\ IF Retries(r) THEN AskForSignature(r, 2) ELSE Settle(r) /\ UNCHANGED crossed
     ELSE Settle(r) /\ UNCHANGED <<stored, crossed>>
  /\ UNCHANGED <<signer, lapsed, retired, wallet, entry, leaving, fetch>>

---------------------------------------------------------------------------
(* signMessageAsAccount for another account than the connected one: signInOnceAndSign. *)

\* Whether or not a wallet is connected, the picker has chosen one; its entries are
\* remembered and the dialog opens.
SignInOnce(f) ==
  /\ fetch[f].at = "idle"
  /\ fetch' = [fetch EXCEPT ![f] = [at |-> "dialog", before |-> entry]]
  /\ crossed' = (crossed \/ Signing # {} \/ SigningIn # {} \/ leaving)
  /\ UNCHANGED <<signer, stored, lapsed, retired, wallet, entry, leaving, request>>

\* The wallet has signed Other in, and stores that.
StoresAccount(f) ==
  /\ fetch[f].at = "dialog"
  /\ fetch' = [fetch EXCEPT ![f].at = "signing"]
  /\ entry' = Other
  /\ UNCHANGED <<signer, stored, lapsed, retired, wallet, leaving, request, crossed>>

\* Mutant: the entries of the throwaway sign-in stay.
Forget(f) == entry
PutBack(f) == fetch[f].before

\* It has signed, or the user closed the dialog before or after.
SignedOnce(f) ==
  /\ fetch[f].at \in {"dialog", "signing"}
  /\ fetch' = [fetch EXCEPT ![f] = [at |-> "idle", before |-> NoOne]]
  /\ entry' = PutBack(f)
  /\ UNCHANGED <<signer, stored, lapsed, retired, wallet, leaving, request, crossed>>

---------------------------------------------------------------------------
(* The user, the clock, the gateway. *)

\* From the login button, which offers a logout while there is a fresh token, or from
\* requireWalletAccount, which does not look at the token.
Login(a) ==
  /\ wallet = NoOne /\ ~leaving
  /\ wallet' = a /\ entry' = a
  /\ crossed' = (crossed \/ Signing # {} \/ SigningIn # {} \/ (stored # 0 /\ signer[stored] # a))
  /\ UNCHANGED <<signer, stored, lapsed, retired, leaving, request, fetch>>

Logout ==
  /\ ~leaving
  /\ leaving' = TRUE /\ stored' = 0
  /\ crossed' = (crossed \/ Signing # {} \/ SigningIn # {})
  /\ UNCHANGED <<signer, lapsed, retired, wallet, entry, request, fetch>>

Disconnect ==
  /\ leaving
  /\ leaving' = FALSE /\ wallet' = NoOne /\ entry' = NoOne
  /\ crossed' = (crossed \/ Signing # {} \/ SigningIn # {})
  /\ UNCHANGED <<signer, stored, lapsed, retired, request, fetch>>

\* The wallet session ends on its own; the token outlives it.
SessionLost ==
  /\ wallet # NoOne /\ ~leaving
  /\ wallet' = NoOne /\ entry' = NoOne
  /\ crossed' = (crossed \/ Signing # {} \/ SigningIn # {})
  /\ UNCHANGED <<signer, stored, lapsed, retired, leaving, request, fetch>>

\* Time passes in the browser, or at the gateway, which may retire a token earlier.
Lapse ==
  /\ lapsed < Minted /\ lapsed' = lapsed + 1
  /\ UNCHANGED <<signer, stored, retired, wallet, entry, leaving, request, fetch, crossed>>

Retire ==
  /\ retired < Minted /\ retired' = retired + 1
  /\ UNCHANGED <<signer, stored, lapsed, wallet, entry, leaving, request, fetch, crossed>>

User ==
  \/ \E a \in Account : Login(a)
  \/ Logout \/ SessionLost
  \/ \E r \in Request : Begin(r) \/ Sign(r) \/ Decline(r)
  \/ \E f \in Fetch : SignInOnce(f) \/ StoresAccount(f) \/ SignedOnce(f)

AccessNext ==
  \/ User \/ Disconnect \/ Lapse \/ Retire
  \/ \E r \in Request : WalletAnswers(r) \/ Answered(r) \/ Refused(r)

\* A request is answered or times out, the connector answers; the user may let any dialog
\* wait forever.
Responds(r) == WalletAnswers(r) \/ Answered(r) \/ Refused(r)
AccessFairness == \A r \in Request : WF_accessVars(Responds(r))

AccessSpec == AccessInit /\ [][AccessNext]_accessVars /\ AccessFairness

---------------------------------------------------------------------------
(* Properties. *)

\* Work nobody asked for just now never waits for the user: it is answered or gives up
\* though every wallet dialog stays open, whenever tokens lapse or are retired.
BackgroundSettles == \A r \in Background : (request[r].at # "idle") ~> (request[r].at = "idle")

\* While nothing crosses a wallet dialog, and nobody signs in as another account under a
\* token that outlived its session, the cached token is the connected account's, and so is
\* what the wallet has stored once throwaway sign-ins are over.
AccountsAgree ==
  ~crossed /\ wallet # NoOne =>
    /\ stored # 0 => signer[stored] = wallet
    /\ SigningIn = {} => entry = wallet
=============================================================================

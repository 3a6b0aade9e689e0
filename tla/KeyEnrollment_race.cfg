SPECIFICATION Spec
CONSTANTS
  d1 = d1
  d2 = d2
  alice = alice
  ledger = ledger
  phone = phone
  other = other
  k1 = k1
  k2 = k2
  Device = {d1, d2}
  Account = {alice}
  WalletKey = {ledger, phone}
  Hedged = {}
  Key = {k1, k2}
  NoKey = NoKey
  NoWallet = NoWallet
  NoAccount = NoAccount
  MaxFailures = 0
  MaxUpsets = 0
  MaxFlows = 2
  AccountOf <- OneAccountOf
SYMMETRY WalletSymmetry
INVARIANT RaceSurfaces

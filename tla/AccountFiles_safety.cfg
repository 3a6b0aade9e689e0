SPECIFICATION Spec
CONSTANTS
  c1 = c1
  c2 = c2
  near_ = near_
  pool = pool
  usdc = usdc
  eth = eth
  a = a
  b = b
  d = d
  e = e
  None = None
  NoTx = NoTx
  Near = near_
  Pool = {pool}
  Leg <- LegsOf
  Asset = {eth, usdc}
  PageLimit = 2
  MaxPages = 3
  Caller = {c1, c2}
  History <- ServerHistory
  Served <- ServerAnswers
  Bad = {4}
  Reward <- PaidBy
  Principal <- Staked
  MaxItem = 3
  Budgets <- SomeBudgets
SYMMETRY Symmetry
INVARIANTS
  TypeOK
  EarningsAreRewards
  DerivedOnce
PROPERTIES
  ImportRepairs
  HistoryKept
  WalkIsComplete
  HolesAreNoticed
CHECK_DEADLOCK FALSE

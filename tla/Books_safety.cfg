SPECIFICATION PortfolioSpec
CONSTANTS
  a1 = a1
  a2 = a2
  near_ = near_
  usdc = usdc
  eth = eth
  meme = meme
  cusdc = cusdc
  ceth = ceth
  employer = employer
  lender = lender
  host = host
  pool = pool
  dex = dex
  friend = friend
  relative = relative
  gateway = gateway
  solver = solver
  Nobody = Nobody
  Address = Address
  Account <- AccountOrder
  Token = {near_, usdc, eth, meme, cusdc, ceth}
  TokenOrder <- Tokens
  Bucket <- BucketOf
  Asset <- AssetOf
  Near = near_
  Stable = {usdc, cusdc}
  Price <- Prices
  ReceivedFrom = {employer, lender}
  ExpenseTo = {host}
  StakingPool = {pool}
  Confidential = {cusdc, ceth}
  Yield = {lender}
  Custody = {}
  Gateway = {gateway}
  Trader = {solver}
  Implicit = {relative}
  Window = 15
  From = 2
  Scenario <- Scenarios
  Sampled = {eth}
  OwnerPrice = {1800}
  Units = 4
  LastDay = 3
INVARIANTS
  HoldingsMatch
  BooksBalance
  ShortOnlyForRewards
  SwapValueShared
  GenuineFlowsAreSeen
  OwnMovesStayInside
  DaysAgree
  Reconciles
CHECK_DEADLOCK FALSE

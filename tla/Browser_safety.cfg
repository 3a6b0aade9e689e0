SPECIFICATION BrowserSpec
CONSTANTS
  t1 = t1
  t2 = t2
  f1 = f1
  f2 = f2
  r1 = r1
  b1 = b1
  h1 = h1
  alice = alice
  bob = bob
  carol = carol
  nobody = nobody
  all = all
  near = near
  usdc = usdc
  spam = spam
  Tab = {t1, t2}
  File = {f1, f2}
  Objects = {f1}
  Request = {r1, b1}
  Background = {b1}
  Fetch = {h1}
  Account = {alice, bob}
  Other = carol
  NoOne = nobody
  MaxTokens = 2
  Shown = {alice, bob, carol}
  All = all
  Filter = {all, near}
  Chunks <- ChunksOf
  NoAccount = nobody
  MaxRenders = 4
  Token = {spam, usdc}
  SymbolOf <- SymbolsOf
  NoMarket = {spam}
  Report = {1, 2, 3, 4}
  Combined = {3, 4}
  NoCurrency = {4}
  TokenOf <- TokensOf
  Days = 2
  OldLists <- Lists
  Task = {1, 2}
  MaxTasks = 3
  Currency = {"nok", "usd"}
  From = {1, 2}
  Granularity = {"month", "day"}
  Default <- Selected
  Run = {1, 2}
  MaxClicks = 3
  MaxWorld = 2
INVARIANTS
  WholeWhenUsed
  NothingOldReturns
  AccountsAgree
  ShownIsChosen
  ReportIsChosen
  ExclusionsKept
  ChartMeetsSummary
PROPERTY BackgroundSettles
CHECK_DEADLOCK FALSE

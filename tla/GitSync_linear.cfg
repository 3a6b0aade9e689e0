SPECIFICATION LiveSpec
CONSTANTS
  d1 = d1
  d2 = d2
  e0 = e0
  e1 = e1
  e2 = e2
  e3 = e3
  prices = prices
  notes = notes
  Device = {d1, d2}
  File = {prices}
  JsonFile = {prices}
  Entry = {e0, e1, e2}
  Removable = {}
  Discarder = {}
  MaxAttempts = 2
  CleanMergeStops = {TRUE}
  MaxInterrupts = 1
  MaxFailures = 0
  FileOf <- OneFileOf
  SeedTree <- CleanSeed
PROPERTY EveryPushIsLinear

SPECIFICATION Spec
CONSTANTS
  d1 = d1
  d2 = d2
  e0 = e0
  e1 = e1
  e2 = e2
  e3 = e3
  prices = prices
  notes = notes
  Device = {d1, d2}
  File = {prices}
  JsonFile = {prices}
  Entry = {e0, e1}
  Removable = {e1}
  Discarder = {d1}
  MaxAttempts = 2
  CleanMergeStops = {TRUE, FALSE}
  MaxInterrupts = 1
  MaxFailures = 1
  FileOf <- OneFileOf
  SeedTree <- CleanSeed
PROPERTIES
  ImplementsShared
  PushesAreLinear

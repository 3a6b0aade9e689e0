SPECIFICATION Spec
CONSTANTS
  d1 = d1
  d2 = d2
  e0 = e0
  e1 = e1
  e2 = e2
  e3 = e3
  prices = prices
  notes = notes
  Device = {d1, d2}
  File = {prices, notes}
  JsonFile = {prices}
  Entry = {e0, e1, e2, e3}
  Removable = {}
  Discarder = {}
  MaxAttempts = 2
  CleanMergeStops = {TRUE}
  MaxInterrupts = 1
  MaxFailures = 0
  FileOf <- TwoFileOf
  SeedTree <- TwoFileSeed
SYMMETRY Symmetry
INVARIANTS
  AckedIsStored
  MarkersOnlyInherited
  MergeFinishedFirst
PROPERTIES
  LocalDataKept

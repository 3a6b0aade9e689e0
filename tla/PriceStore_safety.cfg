SPECIFICATION Spec
CONSTANTS
  c1 = c1
  c2 = c2
  stnear = stnear
  upper = upper
  lower = lower
  upperNOK = upperNOK
  lowerNOK = lowerNOK
  lowernok = lowernok
  NoName = NoName
  Caller = {c1, c2}
  Name = {upperNOK, lowerNOK, lowernok}
  Key = {"STNEAR NOK", "STNEAR nok"}
  KeyOf <- KeyOfName
  Dir = {upper, lower}
  DirOf <- DirOfName
  Token = {stnear}
  TokenOf <- TokenOfDir
  Listed <- ListedName
  Asks <- PagesAsk
  MaxDay = 2
  MaxArrivals = 1
  Offers <- ShortOffers
INVARIANTS
  CacheAgrees
PROPERTIES
  LossNeedsOverlap
  RefusedForAReason

SPECIFICATION FairSpec

CONSTANTS
  a = a
  b = b
  ceis = ceis
  irregular = irregular
  cgu = cgu
  tcu = tcu

  Record = {a, b}
  Registry = {ceis, irregular}
  Paged = {ceis}
  Group = {cgu, tcu}
  Process = {w1}
  RunId = {i1, i2, i3}
  PageLimits = {0, 1}
  Legacy = {b}
  PageSize = 1
  MinRecords = 1
  FractionNum = 1
  FractionDen = 2

  RegistryOf <- MCRegistryOf
  Members <- MCMembers
  FirstListed <- MCFirstListed

INVARIANT
  TypeOK

PROPERTIES
  RetractionBounded
  StillListedKept
  ListedIsPublished

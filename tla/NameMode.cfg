SPECIFICATION FairSpec

CONSTANTS
  ana = ana
  bia = bia
  eva = eva
  a1 = a1
  a2 = a2
  a3 = a3
  a4 = a4
  b1 = b1
  k1 = k1
  k2 = k2
  k3 = k3
  Item = {ana, bia, eva}
  Party = {ana, bia, eva}
  Fetcher = {f1, f2}
  Record = {a1, a2, a3, a4, b1}
  Unservable = {a2}
  PageSize = 2
  Cap = 3
  MaxRetries = 1
  MaxBlips = 2
  MaxStops = 1
  Case = {k1, k2, k3}
  Malformed = {}
  Added = {k1}

  Listing <- MCListing
  Roster <- MCRoster
  Info <- MCInfo

INVARIANTS
  TypeOK
  SearchComplete
  GivenUpAfterTwo

PROPERTIES
  EveryNameOnce
  CasesAreFound

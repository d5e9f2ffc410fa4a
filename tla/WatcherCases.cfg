SPECIFICATION FairSpec

CONSTANTS
  Item = {c1}
  Fetcher = {f1}
  Times = {1, 2, 3}
  Registrar = {r1, r2}
  AsScandal = {TRUE, FALSE}
  Modes = {TRUE, FALSE}
  PollLimits = {0}
  MaxStops = 1

  Dockets <- MCReversal

INVARIANTS
  TypeOK
  TrackedIsPublished

PROPERTIES
  OnlyPollsReopen
  GraphCatchesUp

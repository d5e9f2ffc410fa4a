SPECIFICATION Spec

CONSTANTS
  jose = jose
  others = others
  accent = accent
  plain = plain
  acme = acme
  nJose = nJose
  nAccent = nAccent
  nAcme = nAcme
  pJose = pJose
  pAcme = pAcme
  kJose = kJose
  kAcme = kAcme

  Case = {c1}
  Entry = {jose, accent}
  Name = {nJose, nAccent}
  Politician = {pJose, pAcme}
  TombKey = {kJose, kAcme}
  ReviewId = {r1}
  ReqId = {q1, q2}
  Op = {o1, o2}
  Importable = {pJose}
  Recordable = {"convicted"}
  Removable = {nJose, pJose}
  MaxStops = 0
  MaxFailures = 1

  PartyName <- MCPartyName
  RosterKey <- MCRosterKey
  Passive <- MCPassive
  Verbatim <- MCVerbatim
  Company <- MCCompany
  NormalName <- MCNormalName
  NameKey <- MCNameKey
  Mentions <- MCMentions

SYMMETRY MCSymmetry

INVARIANTS
  TypeOK
  OnlyExposedReturn
  PurgedIsTombstoned
  ConvictionHasEvidence
  ApprovedHasEdge

CHECK_DEADLOCK FALSE

SPECIFICATION Spec

CONSTANTS
  jose = jose
  others = others
  accent = accent
  plain = plain
  acme = acme
  nJose = nJose
  nAccent = nAccent
  nAcme = nAcme
  pJose = pJose
  pAcme = pAcme
  kJose = kJose
  kAcme = kAcme

  Case = {c1}
  Entry = {jose, others}
  Name = {nJose}
  Politician = {pJose, pAcme}
  TombKey = {kJose, kAcme}
  ReviewId = {r1}
  ReqId = {q1}
  Op = {o1}
  Importable = {}
  Recordable = {"convicted"}
  Removable = {}
  MaxStops = 0
  MaxFailures = 0

  PartyName <- MCPartyName
  RosterKey <- MCRosterKey
  Passive <- MCPassive
  Verbatim <- MCVerbatim
  Company <- MCCompany
  NormalName <- MCNormalName
  NameKey <- MCNameKey
  Mentions <- MCMentions

PROPERTY
  WorkerKeepsHumanOutcome

CHECK_DEADLOCK FALSE

SPECIFICATION FairSpec

CONSTANTS
  jose = jose
  others = others
  accent = accent
  plain = plain
  acme = acme
  nJose = nJose
  nAccent = nAccent
  nAcme = nAcme
  pJose = pJose
  pAcme = pAcme
  kJose = kJose
  kAcme = kAcme

  Case = {c1}
  Entry = {jose, plain, acme}
  Name = {nJose, nAcme}
  Politician = {pJose, pAcme}
  TombKey = {kJose, kAcme}
  ReviewId = {r1, r2, r3, r4}
  ReqId = {q1}
  Op = {o1}
  Importable = {}
  Recordable = {}
  Removable = {nAcme}
  MaxStops = 1
  MaxFailures = 0

  PartyName <- MCPartyName
  RosterKey <- MCRosterKey
  Passive <- MCPassive
  Verbatim <- MCVerbatim
  Company <- MCCompany
  NormalName <- MCNormalName
  NameKey <- MCNameKey
  Mentions <- MCMentions

PROPERTIES
  PublishedIsRecorded

INVARIANT
  NoDefendantLost

CHECK_DEADLOCK FALSE

SPECIFICATION FairSpec

CONSTANTS
  c1 = c1
  c2 = c2
  m1 = m1
  l2 = l2
  Cnpj = {c1, c2}
  Name = {m1}
  Socio = {ana}
  Politician = {}
  Case = {k1}
  Sanction = {s1}
  Unknown = {}
  MaxHops = 1
  Limits = {0}
  Singles = {}
  MaxCopies = 1
  MaxFailures = 1
  Operator = {o1}
  Erasable = {}
  Judged = {}
  MaxRequests = 1
  MaxErrors = 0

  CnpjOf <- MCCnpjOf
  LegalName <- MCLegalName
  SanctionedCnpj <- MCSanctionedCnpj
  Qsa <- MCQsaOwned

PROPERTIES
  SociosShown
  EnricherTerminates

SPECIFICATION Spec

CONSTANTS
  c1 = c1
  c2 = c2
  m1 = m1
  l2 = l2
  Cnpj = {c1}
  Name = {m1}
  Socio = {pol}
  Politician = {pol}
  Case = {k1}
  Sanction = {s1}
  Unknown = {}
  MaxHops = 1
  Limits = {}
  Singles = {c1}
  MaxCopies = 1
  MaxFailures = 0
  Operator = {o1, o2}
  Erasable = {c1}
  Judged = {k1}
  MaxRequests = 2
  MaxErrors = 1

  CnpjOf <- MCCnpjOf
  LegalName <- MCLegalName
  SanctionedCnpj <- MCSanctionedCnpj
  Qsa <- MCQsaPol

INVARIANTS
  TypeOK
  NameOnlyIsQueued
  ApprovedIsShown
  ErasedStaysOut

PROPERTIES
  FactsKept
  OutcomesFollow

SYMMETRY
  MCSymmetry

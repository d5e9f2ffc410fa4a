SPECIFICATION FairSpec

CONSTANTS
  ana = ana
  bia = bia
  nAna = nAna
  nBia = nBia
  uf = uf
  m1 = m1
  sFull = sFull
  sMask = sMask
  sName = sName
  Cpf = {ana, bia}
  Name = {nAna, nBia}
  Uf = {uf}
  Year = {2006}
  Company = {}
  Mask = {m1}
  LongName = {nAna}
  Masked <- MCMasked
  Rec <- MCRec
  Rows <- MCRows
  Sanction = {sFull, sMask, sName}
  MaxImports = 2
  MaxActs = 1
  MaxErrors = 1

INVARIANTS
  TypeOK
  LinkHasEvidence
  OneLinkPerMask
  FiledOnce
  PersonStaysOut

PROPERTIES
  SanctionReachesPolitician
  UniqueMatchIsShown

SPECIFICATION Spec

CONSTANTS
  ana = ana
  bia = bia
  nAna = nAna
  nBia = nBia
  BA = BA
  PE = PE
  NoCpf = NoCpf
  Cpf = {ana, bia}
  Name = {nAna, nBia}
  Uf = {BA, PE}
  Sq = {1}
  Chunks = 2
  Attempts = 2
  Items = 1
  File <- MCFile
  Listings <- MCListings
  Year = {2006, 2010}
  Company = {}
  SenateList <- MCSenate
  MaxRepublished = 1
  MaxFaults = 1
  MaxSwaps = 0
  OnCommons = {ana}
  PhotoYears = {2006}
  Photographed = {2006, 2010}
  Faceless = {}
  BatchSize = 2

INVARIANTS
  LatestLikeness

PROPERTY
  PhotoPrecedence

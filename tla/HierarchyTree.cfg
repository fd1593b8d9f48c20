\* Every graph of two domains and two other assets with at most 4 relations.
CONSTANTS
  d1 = d1
  d2 = d2
  s1 = s1
  i1 = i1
  Asset <- MCAsset
  DomainAsset <- MCDomain
  RecursionLimit = 6
  MaxEdges = 4
SPECIFICATION Spec
SYMMETRY MCSymmetry
INVARIANTS
  TypeOK
  OrphansAreUnreachable
  OnlyCyclesFail
  RootsAccounted

\* Every request of at most four entries, on an accepted and a refused target.
CONSTANTS
  Unknown = Unknown
  Blank = Blank
  MaxLen = 4
  TargetType <- MCTargetType
SPECIFICATION Spec
INVARIANTS
  BridgedAsSpecified
  VerdictIsPairwise
  ArgumentsAdequate
  NoStepDropped

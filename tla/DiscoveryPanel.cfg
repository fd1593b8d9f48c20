\* Two discoveries, two polls at once, one failed request.
CONSTANTS
  MaxTasks = 2
  MaxPolls = 2
  MaxFaults = 1
SPECIFICATION FairSpec
INVARIANTS
  TypeOK
  LineOfLatest
  LineLeftBehind
  GraphShown
PROPERTIES
  ButtonReturns

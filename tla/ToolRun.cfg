\* Three attempts of one task; a tool that may hang and ignore its kill.
CONSTANTS
  a = a
  b = b
  Host <- MCHost
  MaxRetries = 2
  MaxFaults = 3
SPECIFICATION FairSpec
INVARIANTS
  TypeOK
  GraphFromCleanRuns
  NoStrayTool
PROPERTIES
  TaskEnds

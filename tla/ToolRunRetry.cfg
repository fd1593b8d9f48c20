\* One attempt and its tool.
CONSTANTS
  a = a
  b = b
  Host <- MCHost
  MaxRetries = 3
  MaxFaults = 0
SPECIFICATION Spec
SYMMETRY Symmetry
INVARIANTS
  ToolFailuresAreRetried

\* One launch under fairness, with a client that keeps polling.
CONSTANTS
  r1 = r1
  c1 = c1
  c2 = c2
  c3 = c3
  c4 = c4
  p1 = p1
  p2 = p2
  NoTask = NoTask
  Task <- ThreeSteps
  Root <- OneRoot
  Plans <- ShortPlans
  Poller <- TwoPollers
  MaxRetries = 1
  MaxFaults = 1
SPECIFICATION PolledSpec
PROPERTIES
  Reconciled
  ChainComesToRest

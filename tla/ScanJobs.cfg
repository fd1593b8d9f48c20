\* One launch of any plan, retried, crashed and polled by two clients.
CONSTANTS
  r1 = r1
  c1 = c1
  c2 = c2
  c3 = c3
  c4 = c4
  p1 = p1
  p2 = p2
  NoTask = NoTask
  Task <- FourSteps
  Root <- OneRoot
  Plans <- AllPlans
  Poller <- TwoPollers
  MaxRetries = 1
  MaxFaults = 1
SPECIFICATION Spec
SYMMETRY FourSymmetry
INVARIANTS
  TypeOK
  CompletedMeansWorked
  SuccessNotFailed
PROPERTIES
  ReopenedByPollOnly
  ImplementsStepChain

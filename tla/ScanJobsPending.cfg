\* One launch under fairness, never polled, without any failure.
CONSTANTS
  r1 = r1
  c1 = c1
  c2 = c2
  c3 = c3
  c4 = c4
  p1 = p1
  p2 = p2
  NoTask = NoTask
  Task <- ThreeSteps
  Root <- OneRoot
  Plans <- ShortPlans
  Poller <- OnePoller
  MaxRetries = 1
  MaxFaults = 0
SPECIFICATION FairSpec
PROPERTIES
  JobsDoNotSitPending

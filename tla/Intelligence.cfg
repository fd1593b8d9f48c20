\* Two passes beside changes, under fairness.
CONSTANTS
  p1 = p1
  p2 = p2
  s1 = s1
  s2 = s2
  d = d
  i1 = i1
  i2 = i2
  aws = aws
  None = None
  Pass <- Passes
  Sub <- Subs
  Dom = {d}
  Ip <- Ips
  Vendor = {aws}
  Rank <- MCRank
  Threshold = 1
  Blocks <- MCBlocks
  Requests <- MCRequests
  Graphs <- MCGraphs
  Observations <- MCObservations
  MaxChanges = 1
SPECIFICATION FairSpec
INVARIANTS
  TypeOK
  FlagsSound
  SignalsReported
PROPERTIES
  SwitchesObeyed
  PassesEnd

\* Two accounts, two sign-ins and two sign-outs, one failed request.
CONSTANTS
  Account = {a, b}
  NoUser = NoUser
  Login = {l1, l2}
  Logout = {o1, o2}
  Refresh = Refresh
  NoCall = NoCall
  MaxFaults = 1
SPECIFICATION FairSpec
INVARIANTS
  TypeOK
  OwnName
  AgreedAtRest
  BlankOnlyByLookUp
PROPERTY
  SettlesDown

SPECIFICATION MCSpec
CONSTANTS
  p1 = p1
  p2 = p2
  p3 = p3
  Peers = {p1, p2}
  PollNames = {"poll A"}
  Noise = Noise
  MaxSubmit <- FirstTwo
  BroadcastFreq <- Never
  TamperFreq <- Never
  TamperType <- AllHash
  Founders = {p1}
  Leavers = {p1}
  Crashers = {}
INVARIANTS
  PollerSurvives

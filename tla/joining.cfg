SPECIFICATION MCFairSpec
CONSTANTS
  p1 = p1
  p2 = p2
  p3 = p3
  Peers = {p1, p2, p3}
  PollNames = {"poll A"}
  Noise = Noise
  MaxSubmit <- FirstTwo
  BroadcastFreq <- Never
  TamperFreq <- Never
  TamperType <- AllHash
  Founders = {p1}
  Leavers = {}
  Crashers = {p1}
INVARIANTS
  MemberTypeOK
  JoinerCaughtUp
  JoinInv
PROPERTIES
  NobodyWaitsForEver

SPECIFICATION MCFairSpec
CONSTANTS
  p1 = p1
  p2 = p2
  p3 = p3
  Peers = {p1, p2}
  PollNames = {"poll A"}
  Noise = Noise
  MaxSubmit <- TwoAndOne
  BroadcastFreq <- Never
  TamperFreq <- Never
  TamperType <- AllHash
  Founders = {p1}
  Leavers = {p1, p2}
  Crashers = {p1, p2}
INVARIANTS
  MembersInv
  ListsTheLiving
  NewsSettled
  ToldInv
  PastInv
  MinedOnce
PROPERTIES
  NobodyWaitsForEver
  ImplementsOpenLedger


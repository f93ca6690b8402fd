SPECIFICATION MCFairSpec
CONSTANTS
  p1 = p1
  p2 = p2
  p3 = p3
  Peers = {p1, p2}
  PollNames = {"poll A"}
  Noise = Noise
  MaxSubmit <- ThreeAndTwo
  BroadcastFreq <- FirstHalf
  TamperFreq <- Never
  TamperType <- AllHash
INVARIANTS
  TypeOK
  ForkResolves
  MinedOnce
  PendingInOrder
PROPERTIES
  ImplementsLedger
  ForkResolutionEnds
  EveryTxnSettled

SPECIFICATION MCSpec
CONSTANTS
  p1 = p1
  p2 = p2
  p3 = p3
  Peers = {p1, p2}
  PollNames = {"poll A"}
  Noise = Noise
  MaxSubmit <- TwoEach
  BroadcastFreq <- Never
  TamperFreq <- Never
  TamperType <- AllHash
INVARIANTS
  QuiescentSameChain

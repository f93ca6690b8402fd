SPECIFICATION MCSpec
CONSTANTS
  p1 = p1
  p2 = p2
  p3 = p3
  Peers = {p1, p2, p3}
  PollNames = {"poll A"}
  Noise = Noise
  MaxSubmit <- TwoAndOnes
  BroadcastFreq <- Never
  TamperFreq <- Never
  TamperType <- AllHash
SYMMETRY SymmetryOfTwo
INVARIANTS
  ChainsWellFormed
  WaitsOnLonger
  MinedOnce
  QuiescentSameHeight
  PromiseInv

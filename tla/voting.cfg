SPECIFICATION Spec
CHECK_DEADLOCK FALSE
CONSTANTS
  p1 = p1
  p2 = p2
  x = x
  y = y
  z = z
  Peers = {p1, p2}
  Scripted = {p1}
  PollNames = {"poll A"}
  Options = {x, y, z}
  MaxSubmit = 2
SYMMETRY Symmetry
INVARIANTS
  TypeOK
  OnlyFilesSpoilResults
  NoVoteCountedTwice

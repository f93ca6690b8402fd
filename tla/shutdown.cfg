SPECIFICATION FairSpec
INVARIANTS
  TypeOK
  NobodyWaitsForTheDead
  NoExchangeWithoutTracker
PROPERTIES
  QuitEnds

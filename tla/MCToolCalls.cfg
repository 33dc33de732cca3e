SPECIFICATION RemoteSpec
CONSTANTS
  Offer <- MCOffer
  MaxTurn = 2
  MaxBytes = 3
  ChunkSize = {1, 2}
  Length = {0, 2, 3, 4}
  Absent = Absent
  Malformed = Malformed
INVARIANTS
  ReadOnlyToolsChangeNothing
  RepeatsAddNothing
  AnswersAreHonest
  VendorIsDisclosed
  ConsentPrecedesChange
  DiscoveryIsTruthful
  BodyStaysWithinLimit
CHECK_DEADLOCK FALSE

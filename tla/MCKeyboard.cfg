CONSTANTS
  BUF_SIZE = 3
  NoKey = NoKey
  MaxEvents = 4
  MaxInFlight = 3
SPECIFICATION FairSpec
INVARIANTS TypeOK ModifiersInSync TypedInOrder
PROPERTIES RefinesKeyQueue PendingKeyIsRead

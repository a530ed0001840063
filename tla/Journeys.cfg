SPECIFICATION JourneysSpec
CONSTANT NoOne = NoOne
PROPERTIES
  DeadlinesAreKept
  AwaitedIsDone
  EveryAuctionCloses
CHECK_DEADLOCK FALSE

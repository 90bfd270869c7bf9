SPECIFICATION DeliverySpec
CONSTANTS
  Msgs = {"m1", "m2"}
  MaxHandoffs = 2
  MaxTroubles = 1
  MaxEvents = 3
  Batch = 2
  Buffer = 1
  MaxBreaks = 1
  MaxDeaths = 1
INVARIANTS
  DeliveryTypeOK
  AcceptedIsOnRecord
  
PROPERTIES
  
  ImplementsFeed
  
  FeedCatchesUp
CHECK_DEADLOCK FALSE

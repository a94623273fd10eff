SPECIFICATION FairSpec
CONSTANTS
  NEvents = 2
  Dispatcher = {d1, d2}
  Limit = 2
  MaxAttempts = 1
  MaxFaults = 1
INVARIANTS TypeOK
PROPERTIES ImplementsDelivery EventsSettle
CHECK_DEADLOCK FALSE

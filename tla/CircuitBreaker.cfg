SPECIFICATION FairSpec
CONSTANTS
  Buckets = 3
  Cooldown = 2
  ProbeRequests = 2
  ThresholdParts = 1
  ThresholdWhole = 2
  CountMax = 2
  MaxInFlight = 3
INVARIANTS TypeOK RingIsWindow
PROPERTIES TripsOnRecentRate OpenGivesWay

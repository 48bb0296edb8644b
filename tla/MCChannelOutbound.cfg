SPECIFICATION FairSpec
CONSTANTS
  Deliveries = {d1, d2}
  Workers = {w1, w2}
  BatchSize = 2
  MaxAttempts = 2
  MaxMishaps = 1
  MaxRequeues = 1
  NoDelivery = NoDelivery
INVARIANTS
  TypeOK
  SentMeansShown
  EveryCopyHasACause
PROPERTIES
  SentStaysSent
  QueuedDeliverySettles
CHECK_DEADLOCK FALSE

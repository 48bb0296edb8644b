SPECIFICATION FairSpec
CONSTANTS
  Deliveries = {d1}
  Workers = {w1, w2}
  BatchSize = 1
  MaxAttempts = 3
  MaxMishaps = 0
  MaxRequeues = 1
  NoDelivery = NoDelivery
PROPERTIES
  RetryIsAttempted
CHECK_DEADLOCK FALSE

\* One sender that may reconnect twice, three faults.
SPECIFICATION FairSpec
CONSTANTS
  s1 = s1
  s2 = s2
  f1 = f1
  f2 = f2
  Contents <- TwoContents
  Senders <- OneSender
  Total = 3
  Window = 2
  MaxRetries = 2
  MaxSuffix = 2
  MaxFaults = 3
  Overlap = FALSE
PROPERTIES FaultFreeDelivery DeliverySpec
CHECK_DEADLOCK FALSE

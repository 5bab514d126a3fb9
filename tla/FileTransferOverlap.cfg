\* Two senders to one path, both connections open at once, no fault at all.
SPECIFICATION Spec
CONSTANTS
  s1 = s1
  s2 = s2
  f1 = f1
  f2 = f2
  Contents <- TwoContents
  Senders <- TwoSenders
  Total = 2
  Window = 2
  MaxRetries = 0
  MaxSuffix = 1
  MaxFaults = 0
  Overlap = TRUE
INVARIANT PublishedVerified
CHECK_DEADLOCK FALSE

\* Two senders to one destination, one connection open at the daemon at a time.
SPECIFICATION Spec
CONSTANTS
  s1 = s1
  s2 = s2
  f1 = f1
  f2 = f2
  Contents <- TwoContents
  Senders <- TwoSenders
  Total = 3
  Window = 2
  MaxRetries = 1
  MaxSuffix = 3
  MaxFaults = 2
  Overlap = FALSE
SYMMETRY Symmetric
INVARIANTS PublishedVerified OKMeansPublished
PROPERTIES NoClobber
CHECK_DEADLOCK FALSE

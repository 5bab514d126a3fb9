\* A host and a peer that pins it, two joiners with one token.
SPECIFICATION FairSpec
CONSTANTS
  h = h
  a = a
  j1 = j1
  j2 = j2
  t1 = t1
  Nodes <- Two
  Pairs <- TwoPairs
  Seeds <- TwoSeeds
  Host = h
  Joiners = {j1, j2}
  Invites = {t1}
  MaxPending = 1
  Fresh = 0
  MaxTime = 1
  MaxEnrolls = 1
  MaxFaults = 1
INVARIANTS TrustRooted OneKeyPerInvite
PROPERTIES RevokedStaysOut LatePeersLearn RevokedDisconnected
CHECK_DEADLOCK FALSE

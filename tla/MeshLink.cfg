\* A pair with two links one way and one the other, two borrowed links, no failure.
\* A frail pair with a link each way and one failure: each deadline parks, each window over probes.
SPECIFICATION PairsSpec
CONSTANTS
  Nodes <- TwoNodes
  Links <- ThreeLinks
  MaxExtends = 1
  CooldownThreshold = 2
  MaxFromSource = 2
  MaxFaults = 0
  MaxBorrows = 2
  FrailLinks <- TwoLinks
  FrailExtends = 0
  FrailThreshold = 1
  FrailFaults = 1
  FrailBorrows = 0
INVARIANTS OwnedStaysOpen
PROPERTIES NoSplit Reconverges
CHECK_DEADLOCK FALSE

\* A push at one end, a pull and a request without a waiting client at the other.
SPECIFICATION FairSpec
CONSTANTS
  Nodes = {"a", "b"}
  Ops = {"push2", "pull", "async"}
  Home <- OneAtB
  Kind <- KindOf
  Total <- OneOrTwo
  Refused = {}
  Batch = 2
  Workers = 2
  CrowdedPool = TRUE
  MayCancel = TRUE
INVARIANTS ExclusiveButSecondClear SuccessIsPublishedAlone
PROPERTIES ClientReleased LinkReturned
CHECK_DEADLOCK FALSE

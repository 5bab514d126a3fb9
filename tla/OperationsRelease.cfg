\* The same operations; the link is lent between a worker's two clears of exec_busy.
\* A push at one end, a pull and a request without a waiting client at the other.
SPECIFICATION Spec
CONSTANTS
  Nodes = {"a", "b"}
  Ops = {"push2", "pull", "async"}
  Home <- OneAtB
  Kind <- KindOf
  Total <- OneOrTwo
  Refused = {}
  Batch = 2
  Workers = 2
  CrowdedPool = TRUE
  MayCancel = TRUE
INVARIANTS Exclusive
CHECK_DEADLOCK FALSE

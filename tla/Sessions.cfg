\* A worker: three connections, a crash, queues of two.  A registry: three terminals of two keys, one session.
SPECIFICATION SessionsSpec
CONSTANTS
  Conns = {1, 2, 3}
  MaxAsks = 2
  MaxChunks = 3
  Snapshot = 2
  TxCap = 2
  SockMax = 2
  MaxCrashes = 1
  MaxFaults = 1
  Patient = TRUE
  Names = {"a"}
  Terminals = {"t1", "t2", "t3"}
  Key <- Keys
  Slots <- TwoSlots
  AttachIds = {1, 2, 3}
  MaxDrops = 1
  SlowUnlink = FALSE
INVARIANTS RunsOnce CodeIsReal WholeOutput NoShellLost NoDangling
PROPERTIES EndLearned ToldOfDeath Readopted EndNoticed
CHECK_DEADLOCK FALSE

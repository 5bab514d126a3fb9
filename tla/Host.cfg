\* One upgrade that may die at any step, two services, one file edited three times, two sync pairs, two writers of the
\* configuration, a buffer of four bytes, and every message over one connection.
SPECIFICATION HostSpec
CONSTANTS
  Capacity = 4
  ReadMax = 3
  MaxWrite = 6
  MaxTotal = 20
  Upgraders = {"u1"}
  Releases = {"old", "new", "silent", "older"}
  Leftovers = {"none"}
  Probes = 2
  MaxCrashes = 1
  Override = FALSE
  Services = {"worker", "agent"}
  Pids = {1, 2, 3}
  GiveUp = 1
  MaxDeaths = 1
  SavesFail = TRUE
  Jumps = TRUE
  Strangers = TRUE
  Paths = {"f"}
  MaxEdits = 3
  Ties = TRUE
  MaxCuts = 1
  Files = {"f", "k"}
  Secrets = {"k"}
  Ids = {1, 2}
  MaxFails = 1
  Names = {"n"}
  Keys = {"k1", "k2"}
  Commands = {"p", "q"}
  MaxChanges = 3
  MaxStarts = 2
  Base = 8
  Newline = 3
  Cap32 = 100
  Threshold = 16
  IdLen = 3
  BatchMax = 2
  RecordMax = 20
  Budget = 26
INVARIANTS ReadExact Startable NoneForgotten GateHolds Faithful
PROPERTIES Returns Converges LastWordWins Follows
CHECK_DEADLOCK FALSE

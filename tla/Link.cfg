\* Gossip: one guest everybody trusts, vouched for at one end of the line, heard at the other and dialing the middle.
SPECIFICATION LinkSpec
CONSTANTS
  a = a
  b = b
  c = c
  d = d
  Nodes = {a, b, c}
  Guests = {d}
  Pins <- Line
  Trusts <- Everyone
  Enrolls <- OnA
  Calls <- OnB
  Lan <- OnC
  Forgets = {b}
  QueueMax = 1
  MaxRefused = 1
  MaxCuts = 1
  Clients = {"tty", "job", "starter"}
  Kind <- TtyAndJob
  Command = {"tty", "job"}
  MaxKeys = 2
  MaxChunks = 3
  MaxItems = 3
  MaxLinks = 2
  Together = 1
  MaxBreaks = 1
  MaxLives = 2
  AwayMax = 1
  PtyRoom = 1
  PtyMax = 1
  PtyHigh = 1
  TxMax = 1
  WireMax = 1
  OutMax = 1
INVARIANTS  KeysInOrder CommandOnce NoSilentLoss EndTold
CHECK_DEADLOCK FALSE

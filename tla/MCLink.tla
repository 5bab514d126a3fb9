-------------------------------- MODULE MCLink --------------------------------
(***************************************************************************)
(* What daemons and clients say over a mesh link, in one run: peer gossip  *)
(* among three daemons in a line, and the frames between a session and the *)
(* clients that attach to it, an interactive one, a one-shot and one that  *)
(* starts the session.  The two share no state: a behaviour is one of one  *)
(* of them, and the other one keeps its initial state.                     *)
(***************************************************************************)
EXTENDS Gossip

CONSTANTS
  a, b, c, d,
  Clients, Kind, Command, MaxKeys, MaxChunks, MaxItems, MaxLinks, Together, MaxBreaks, MaxLives,
  AwayMax, PtyRoom, PtyMax, PtyHigh, TxMax, WireMax, OutMax

\* Terminal's constants; queues that drop their oldest hold something.
ASSUME TerminalAssumption ==
  /\ {TxMax, WireMax, AwayMax, PtyRoom} \subseteq Nat /\ OutMax \in Nat \ {0}
  /\ Kind \in [Clients -> {"tty", "job", "starter"}]

VARIABLES
  traffic, client, links, shell, sess, input, polled, ran, used

T == INSTANCE Terminal

terminalVars == <<client, links, shell, sess, input, polled, ran, used>>

Line == [n \in Nodes |-> CASE n = a -> {b} [] n = b -> {a, c} [] n = c -> {b}]
Everyone == [n \in Nodes |-> Guests]
OnA == {<<a, d>>}
OnB == {<<b, d>>}
OnC == {<<c, d>>}
TtyAndJob == [x \in Clients |-> IF x = "tty" THEN "tty" ELSE IF x = "job" THEN "job" ELSE "starter"]

-----------------------------------------------------------------------------
LinkInit == traffic \in {"gossip", "terminal"} /\ Init /\ T!Init

LinkNext ==
  /\ UNCHANGED traffic
  /\ (traffic = "gossip" /\ Next) \/ (traffic # "gossip" /\ UNCHANGED vars)
  /\ (traffic = "terminal" /\ T!Next) \/ (traffic # "terminal" /\ UNCHANGED terminalVars)

LinkSpec == LinkInit /\ [][LinkNext]_<<traffic, vars, terminalVars>>

-----------------------------------------------------------------------------
KeysInOrder == T!KeysInOrder
CommandOnce == T!CommandOnce
NoSilentLoss == T!NoSilentLoss
EndTold == T!EndTold
=============================================================================

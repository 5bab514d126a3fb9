----------------------------- MODULE MCSessions -----------------------------
(***************************************************************************)
(* Sessions from both sides, in one run: one session's worker process and  *)
(* its connections (Worker), and a daemon's registry of sessions with the  *)
(* terminals attached to them (Sessions).  The two share no state: a       *)
(* behaviour is one of one of them, and the other keeps its initial state. *)
(***************************************************************************)
EXTENDS Worker

CONSTANTS Names, Terminals, Key, Slots, AttachIds, MaxDrops, SlowUnlink

\* Sessions' constants.
ASSUME SessionsAssumption ==
  /\ "none" \notin Names
  /\ Slots \subseteq Names \X (Nat \ {0})
  /\ AttachIds \subseteq Nat \ {0}
  /\ MaxDrops \in Nat
  /\ SlowUnlink \in BOOLEAN

VARIABLES
  side,
  up, polled, state, att, fd, eof, open, at, aid, view, running, leaving, sock, saved, faults

Se == INSTANCE Sessions WITH Conns <- Terminals, MaxFaults <- MaxDrops

registryVars == <<up, polled, state, att, fd, eof, open, at, aid, view, running, leaving, sock, saved, faults>>

\* t1 and t2 are two terminals of one machine, t3 is another's.
Keys == [c \in Terminals |-> IF c \in {"t1", "t2"} THEN "k1" ELSE "k2"]
TwoSlots == Names \X {1, 2}

-----------------------------------------------------------------------------
SessionsInit == side \in {"worker", "registry"} /\ Init /\ Se!Init

SessionsNext ==
  /\ UNCHANGED side
  /\ (side = "worker" /\ Next) \/ (side # "worker" /\ UNCHANGED vars)
  /\ (side = "registry" /\ Se!Next) \/ (side # "registry" /\ UNCHANGED registryVars)

\* The fairness of each side's FairSpec.
SessionsSpec ==
  /\ SessionsInit /\ [][SessionsNext]_<<side, vars, registryVars>>
  /\ WF_vars(side = "worker" /\ WorkerStep) /\ WF_vars(side = "worker" /\ DaemonStep)
  /\ WF_registryVars(side = "registry" /\ Se!Poll) /\ WF_registryVars(side = "registry" /\ Se!Reap)

-----------------------------------------------------------------------------
NoShellLost == Se!NoShellLost
NoDangling == Se!NoDangling
ToldOfDeath == Se!ToldOfDeath
Readopted == Se!Readopted
EndNoticed == Se!EndNoticed
=============================================================================

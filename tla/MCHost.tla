-------------------------------- MODULE MCHost --------------------------------
(***************************************************************************)
(* One host's smaller machines in one run: the scrollback buffer, an       *)
(* upgrade, supervised commands, the two folder syncs, the configuration   *)
(* file, and the bytes of a connection.  They share no state; a behaviour  *)
(* is one of one machine, and the variables of the others stay idle.       *)
(***************************************************************************)
EXTENDS Ring

CONSTANTS
  Upgraders, Releases, Leftovers, Probes, MaxCrashes, Override,
  Services, Pids, GiveUp, MaxDeaths, SavesFail, Jumps, Strangers,
  Paths, MaxEdits, Ties, MaxCuts,
  Files, Secrets, Ids, MaxFails,
  Names, Keys, Commands, MaxChanges, MaxStarts,
  Base, Newline, Cap32, Threshold, IdLen, BatchMax, RecordMax, Budget

VARIABLES
  machine,
  bin, saved, daemon, masked, release, writable, pc, tmp, carried, watch, crashes, pin, loaded, queued,
  up, mem, disk, proc, owner, child, saving, fresh, lost, deaths,
  file, index, seen, step, ops, kept, now, edits, cuts, last,
  local, remote, pairs, manifest, cmd, agreed, fails,
  conf, command, server, early, changes, starts,
  todo, large, sent, records, rx, phase, got

\* A byte has at least two values, and the newline is none of those that messages are filled with (1).  A cap fits the
\* four bytes of a length, and the longest lists messages have here (two elements) fit a batch.
ASSUME CodecAssumption ==
  /\ Base \in Nat /\ Base >= 2 /\ Newline \in 0..Base - 1 /\ Newline # 1
  /\ Cap32 \in Nat /\ Cap32 < Base * (Base * (Base * Base))
  /\ Threshold \in Nat /\ IdLen \in Nat /\ BatchMax \in Nat /\ BatchMax >= 2
  /\ RecordMax \in Nat \ {0} /\ Budget \in Nat

Up == INSTANCE Upgrade
Rn == INSTANCE Runs
Sy == INSTANCE Sync
Pr == INSTANCE SyncPair
Cf == INSTANCE Config
Co == INSTANCE Codec

upgradeVars == <<bin, saved, daemon, masked, release, writable, pc, tmp, carried, watch, crashes, pin, loaded, queued>>
runVars == <<up, mem, disk, proc, owner, child, saving, fresh, lost, deaths>>
syncVars == <<file, index, seen, step, ops, kept, now, edits, cuts, last>>
pairVars == <<local, remote, pairs, manifest, cmd, agreed, fails>>
confVars == <<conf, command, server, early, changes, starts>>
byteVars == <<todo, large, sent, records, rx, phase, got>>
hostVars == <<machine, vars, upgradeVars, runVars, syncVars, pairVars, confVars, byteVars>>

-----------------------------------------------------------------------------
Machines == {"ring", "upgrade", "runs", "sync", "pair", "config", "codec"}

NoBytes ==
  todo = <<>> /\ large = FALSE /\ sent = <<>> /\ records = <<>> /\ rx = <<>> /\ phase = "handshake" /\ got = <<>>

\* A machine that does not move has one initial state.
HostInit ==
  /\ machine \in Machines
  /\ Init /\ Up!Init /\ Rn!Init /\ Sy!Init /\ Pr!Init /\ Cf!Init
  /\ machine # "upgrade" => release = "new" /\ saved = "none" /\ writable /\ pin
  /\ machine # "pair" => local = Files
  /\ machine # "config" => conf = Cf!Empty
  /\ IF machine = "codec" THEN Co!Init ELSE NoBytes

HostNext ==
  /\ UNCHANGED machine
  /\ (machine = "ring" /\ Next) \/ (machine # "ring" /\ UNCHANGED vars)
  /\ (machine = "upgrade" /\ Up!Next) \/ (machine # "upgrade" /\ UNCHANGED upgradeVars)
  /\ (machine = "runs" /\ Rn!Next) \/ (machine # "runs" /\ UNCHANGED runVars)
  /\ (machine = "sync" /\ Sy!Next) \/ (machine # "sync" /\ UNCHANGED syncVars)
  /\ (machine = "pair" /\ Pr!Next) \/ (machine # "pair" /\ UNCHANGED pairVars)
  /\ (machine = "config" /\ Cf!Next) \/ (machine # "config" /\ UNCHANGED confVars)
  /\ (machine = "codec" /\ Co!Next) \/ (machine # "codec" /\ UNCHANGED byteVars)

\* The fairness of each machine's FairSpec.
HostSpec ==
  /\ HostInit /\ [][HostNext]_hostVars
  /\ \A u \in Upgraders : WF_upgradeVars(machine = "upgrade" /\ Up!Upgrader(u)) /\ WF_upgradeVars(machine = "upgrade" /\ Up!Watchdog(u))
  /\ WF_syncVars(machine = "sync" /\ Sy!Engine)
  /\ WF_confVars(machine = "config" /\ Cf!Daemon)

-----------------------------------------------------------------------------
Startable == Up!Startable
Returns == Up!Returns
NoneForgotten == Rn!NoneForgotten
Converges == Sy!Converges
LastWordWins == Sy!LastWordWins
GateHolds == Pr!GateHolds
Follows == Cf!Follows
Faithful == Co!Faithful
=============================================================================

-------------------------------- MODULE Config --------------------------------
(***************************************************************************)
(* The configuration file: bs commands load it, change it and write it     *)
(* back, an operator edits it, and a daemon that runs loads it again when  *)
(* its modification time has changed.  From bs-config.h, bs-mesh-conn.h,   *)
(* bs-mesh-cli.h and main.cpp.  Of what the file says only the seeds are   *)
(* modelled, with the keys they are pinned to; a modification time is only *)
(* ever compared with the one the daemon remembers.                        *)
(***************************************************************************)
EXTENDS Integers

CONSTANTS
  Names, Keys,   \* of seeds
  Commands,      \* processes of bs
  MaxChanges,      \* commands and edits by hand
  MaxStarts      \* of the daemon

VARIABLES
  conf,      \* the seeds in the file
  command,   \* command[p]: what process p is about to write
  server,    \* the daemon: where it is, the seeds it uses, and the modification time it remembers
  early,     \* the file changed after the daemon had loaded it and before it first looked at the time
  changes, starts

vars == <<conf, command, server, early, changes, starts>>

NoKey == "none"
Seeds == [Names -> Keys \cup {NoKey}]
\* What load_config makes of a file that is missing, or that is being written.
Empty == [n \in Names |-> NoKey]
Done == [at |-> "done", seeds |-> Empty]
Down == [at |-> "down", seeds |-> Empty, mtime |-> "unset"]

TypeOK ==
  /\ conf \in Seeds
  /\ command \in [Commands -> [at : {"done", "loaded", "open"}, seeds : Seeds]]
  /\ server \in [at : {"down", "starting", "up", "reloading"}, seeds : Seeds, mtime : {"unset", "same", "newer", "older"}]
  /\ early \in BOOLEAN /\ changes \in 0..MaxChanges /\ starts \in 0..MaxStarts

Init ==
  /\ conf \in Seeds
  /\ command = [p \in Commands |-> Done] /\ server = Down
  /\ early = FALSE /\ changes = 0 /\ starts = 0

-----------------------------------------------------------------------------
(* Commands. *)

Add(seeds) == {[seeds EXCEPT ![n] = k] : n \in Names, k \in Keys}
Remove(seeds) == {[seeds EXCEPT ![n] = NoKey] : n \in Names}
\* rotate-pin: only of a seed that is there.
Rotate(seeds) == {[seeds EXCEPT ![n] = k] : n \in {m \in Names : seeds[m] # NoKey}, k \in Keys}
\* vfolder add: the seeds are written back as they were.
Keep(seeds) == {seeds}

Edited(seeds) == Add(seeds) \cup Remove(seeds) \cup Rotate(seeds) \cup Keep(seeds)

Load(p) ==
  /\ command[p] = Done /\ changes < MaxChanges
  /\ changes' = changes + 1
  /\ \E seeds \in Edited(conf) : command' = [command EXCEPT ![p] = [at |-> "loaded", seeds |-> seeds]]
  /\ UNCHANGED <<conf, server, early, starts>>

\* The file becomes this, with a modification time after the one the daemon remembers, or before it.
Written(seeds, mtime) ==
  /\ conf' = seeds
  /\ server' = [server EXCEPT !.mtime = IF @ = "unset" THEN @ ELSE mtime]
  /\ early' = (early \/ server.at = "starting")

\* save_config opens the file with ios::trunc ...
Truncate(p) ==
  /\ command[p].at = "loaded"
  /\ command' = [command EXCEPT ![p].at = "open"]
  /\ Written(Empty, "newer")
  /\ UNCHANGED <<changes, starts>>

\* ... and writes it.
Save(p) ==
  /\ command[p].at = "open"
  /\ command' = [command EXCEPT ![p] = Done]
  /\ Written(command[p].seeds, "newer")
  /\ UNCHANGED <<changes, starts>>

Killed(p) ==
  /\ command[p] # Done
  /\ command' = [command EXCEPT ![p] = Done]
  /\ UNCHANGED <<conf, server, early, changes, starts>>

\* An editor, or a copy put back with the time it had.
ByHand ==
  /\ changes < MaxChanges
  /\ changes' = changes + 1
  /\ \E seeds \in Seeds, mtime \in {"newer", "older"} : Written(seeds, mtime)
  /\ UNCHANGED <<command, starts>>

-----------------------------------------------------------------------------
(* The daemon. *)

Start ==
  /\ server.at = "down" /\ starts < MaxStarts
  /\ starts' = starts + 1
  /\ server' = [at |-> "starting", seeds |-> conf, mtime |-> "unset"]
  /\ early' = FALSE
  /\ UNCHANGED <<conf, command, changes>>

\* When startup_wait_for_network is over the loop begins, and the time it finds then is the one it remembers.
FirstCheck ==
  /\ server.at = "starting"
  /\ server' = [server EXCEPT !.at = "up", !.mtime = "same"]
  /\ UNCHANGED <<conf, command, early, changes, starts>>

\* Mutant: only a later time counts.
CheckNewer ==
  /\ server.at = "up" /\ server.mtime = "newer"
  /\ server' = [server EXCEPT !.at = "reloading", !.mtime = "same"]
  /\ UNCHANGED <<conf, command, early, changes, starts>>

\* Every thirty seconds: another time is remembered, and then the file is loaded.
Check ==
  /\ server.at = "up" /\ server.mtime \in {"newer", "older"}
  /\ server' = [server EXCEPT !.at = "reloading", !.mtime = "same"]
  /\ UNCHANGED <<conf, command, early, changes, starts>>

Reload ==
  /\ server.at = "reloading"
  /\ server' = [server EXCEPT !.at = "up", !.seeds = conf]
  /\ early' = FALSE
  /\ UNCHANGED <<conf, command, changes, starts>>

\* SIGHUP: the file is loaded whatever its time.
Hup ==
  /\ server.at = "up" /\ server.seeds # conf
  /\ server' = [server EXCEPT !.seeds = conf]
  /\ early' = FALSE
  /\ UNCHANGED <<conf, command, changes, starts>>

Stop ==
  /\ server.at # "down"
  /\ server' = Down
  /\ early' = FALSE
  /\ UNCHANGED <<conf, command, changes, starts>>

-----------------------------------------------------------------------------
Command(p) == Load(p) \/ Truncate(p) \/ Save(p) \/ Killed(p)
Daemon == FirstCheck \/ Check \/ Reload

Next == (\E p \in Commands : Command(p)) \/ ByHand \/ Daemon \/ Start \/ Hup \/ Stop

Spec == Init /\ [][Next]_vars

\* The event loop runs; nobody has to edit, signal or stop anything.
FairSpec == Spec /\ WF_vars(Daemon)

-----------------------------------------------------------------------------
(* What the code promises. *)

\* A daemon that runs comes to use the seeds the file names, also when it read the file while a command was writing it,
\* unless the file changed in the time between its start and its first look at it.
Follows ==
  \A seeds \in Seeds :
    (server.at = "up" /\ ~early /\ conf = seeds) ~> (server.seeds = seeds \/ server.at = "down" \/ conf # seeds)
=============================================================================

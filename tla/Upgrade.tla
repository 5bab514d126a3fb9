------------------------------ MODULE Upgrade ------------------------------
(***************************************************************************)
(* bs upgrade on a Linux host whose daemon is a systemd user unit: the CLI *)
(* downloads and verifies a release, arms a detached watchdog, masks and   *)
(* stops the unit, swaps the binary by renames, unmasks, starts, verifies  *)
(* and removes the saved binary.  From main.cpp (the upgrade command),     *)
(* bs-upgrade-watchdog.h, bs-upgrade-safety.h and the auto-upgrade of      *)
(* bs-mesh-conn.h and bs-mesh-transfer.h.                                  *)
(*                                                                         *)
(* A binary is told apart by what it does: "old" is the version that runs  *)
(* when the model begins, "new" a later release, "silent" a later release  *)
(* that answers --version but exits before it binds the mesh port, "older" *)
(* an earlier release, "tampered" one that is not what was published.      *)
(***************************************************************************)
EXTENDS Integers, FiniteSets

CONSTANTS
  Upgraders,     \* upgrade processes, each runs once
  Releases,      \* what the requested tag may be: subset of old, new, silent, older
  Leftovers,     \* what an earlier upgrade may have left in bin.old: subset of none, older
  Probes,        \* the watchdog's probes of the mesh port (6 in the code)
  MaxCrashes,    \* upgrade processes that may die
  Override       \* whether BS_UPGRADE_IN_MESH=1 may be set in a mesh session

VARIABLES
  bin,       \* what bin_path holds
  saved,     \* what bin_path + ".old" holds
  daemon,    \* the binary the daemon process runs
  masked,    \* the unit is masked (--runtime)
  release,   \* what the release server publishes under the tag
  writable,  \* whether the directory of bin_path can be written
  pc,        \* where each upgrade process is
  tmp,       \* its download
  carried,   \* whether it lives in a session of the daemon it stops
  watch,     \* its watchdog: probes failed so far, Off, or Fired
  crashes,   \* processes that died
  pin,       \* mesh.auto_upgrade in another node's config file
  loaded,    \* ... as that node's daemon last loaded it
  queued     \* that node's AutoUpgrade task for this host

files == <<bin, saved, release, writable>>
process == <<pc, tmp, carried, watch, crashes>>
unit == <<daemon, masked>>
fleet == <<pin, loaded, queued>>
vars == <<files, process, unit, fleet>>

Binaries == {"none", "old", "new", "silent", "older", "tampered"}
Off == -1           \* not armed, content with what it saw, or fired at a masked unit
Fired == Probes + 1
Ends == {"idle", "refused", "done", "failed", "dead"}
Steps == {"begun", "fetched", "armed", "masked", "stopped", "moved", "installed", "unmasked",
          "started", "verified", "undone", "reopened"}

TypeOK ==
  /\ {bin, saved, daemon, release} \subseteq Binaries
  /\ {masked, writable, pin, loaded, queued} \subseteq BOOLEAN
  /\ pc \in [Upgraders -> Ends \cup Steps]
  /\ tmp \in [Upgraders -> Binaries]
  /\ carried \in [Upgraders -> BOOLEAN]
  /\ watch \in [Upgraders -> Off..Fired]
  /\ crashes \in 0..MaxCrashes

Init ==
  /\ bin = "old" /\ daemon = "old" /\ saved \in Leftovers
  /\ masked = FALSE
  /\ release \in Releases /\ writable \in BOOLEAN
  /\ pc = [u \in Upgraders |-> "idle"]
  /\ tmp = [u \in Upgraders |-> "none"]
  /\ carried = [u \in Upgraders |-> FALSE]
  /\ watch = [u \in Upgraders |-> Off]
  /\ crashes = 0
  /\ pin \in BOOLEAN /\ loaded = pin /\ queued = FALSE

\* The daemon has bound the mesh port.
Up == daemon \in {"old", "new", "older"}

At(u, here, there) == pc[u] = here /\ pc' = [pc EXCEPT ![u] = there]

-----------------------------------------------------------------------------
(* The upgrade command. *)

\* In a session of the daemon it would stop, the command re-executes itself with setsid.
Begins(u, session) ==
  /\ At(u, "idle", "begun")
  /\ \E override \in {FALSE, Override} : carried' = [carried EXCEPT ![u] = session /\ override]
  /\ UNCHANGED <<files, unit, tmp, watch, crashes>>

\* A local command, or one that upgrade --all sends through a mesh shell.
Asked(u) ==
  /\ \E session \in BOOLEAN : Begins(u, session)
  /\ UNCHANGED fleet

\* Mutant: a release older than the one that runs is no reason to stop.
AnyAge(d) == TRUE

\* The tag, or what latest resolves to, is not older than the version that runs.
NotOlder(d) == d # "older"

\* SHA256SUMS, and the version the download reports: the tag's, and not this one.
Genuine(d) == d \notin {"tampered", "old"}

Fetch(u) ==
  /\ \/ \E d \in {release, "tampered"} :
          /\ NotOlder(d) /\ Genuine(d)
          /\ At(u, "begun", "fetched")
          /\ tmp' = [tmp EXCEPT ![u] = d]
     \/ At(u, "begun", "refused") /\ UNCHANGED tmp
  /\ UNCHANGED <<files, unit, carried, watch, crashes, fleet>>

Arm(u) ==
  /\ At(u, "fetched", "armed")
  /\ watch' = [watch EXCEPT ![u] = 0]
  /\ UNCHANGED <<files, unit, tmp, carried, crashes, fleet>>

\* pause_mesh_daemon: mask --runtime ...
Mask(u) ==
  /\ At(u, "armed", "masked")
  /\ masked' = TRUE
  /\ UNCHANGED <<files, daemon, tmp, carried, watch, crashes, fleet>>

\* ... and stop, which takes a command in one of its sessions with it.
Stop(u) ==
  /\ At(u, "masked", IF carried[u] THEN "dead" ELSE "stopped")
  /\ daemon' = "none"
  /\ UNCHANGED <<files, masked, tmp, carried, watch, crashes, fleet>>

\* rename(bin, bin.old); a failure is only logged.
MoveOld(u) ==
  /\ At(u, "stopped", "moved")
  /\ IF writable /\ bin # "none"
       THEN saved' = bin /\ bin' = "none"
       ELSE UNCHANGED <<bin, saved>>
  /\ UNCHANGED <<unit, release, writable, tmp, carried, watch, crashes, fleet>>

\* rename(bin.old, bin), which does nothing when there is no bin.old.
Restored ==
  /\ bin' = IF writable /\ saved # "none" THEN saved ELSE bin
  /\ saved' = IF writable THEN "none" ELSE saved

\* rename(tmp, bin), or a staged copy and a rename; else the old binary is put back.
Install(u) ==
  /\ \/ /\ writable /\ At(u, "moved", "installed")
        /\ bin' = tmp[u] /\ UNCHANGED saved
     \/ /\ At(u, "moved", "undone")
        /\ Restored
  /\ UNCHANGED <<unit, release, writable, tmp, carried, watch, crashes, fleet>>

\* resume_mesh_daemon: unmask ...
Unmask(u) ==
  /\ At(u, "installed", "unmasked") \/ At(u, "undone", "reopened")
  /\ masked' = FALSE
  /\ UNCHANGED <<files, daemon, tmp, carried, watch, crashes, fleet>>

\* ... and enable --now, which does nothing to a unit that runs; without a binary at
\* bin_path the command starts its own executable, which rename made bin.old.
Start(u) ==
  /\ At(u, "unmasked", "started") \/ At(u, "reopened", "failed")
  /\ daemon' = IF daemon # "none" \/ masked THEN daemon ELSE IF bin # "none" THEN bin ELSE saved
  /\ UNCHANGED <<files, masked, tmp, carried, watch, crashes, fleet>>

\* bin --version: the upgrade took, or bin.old is put back.
Verify(u) ==
  /\ \/ /\ bin = tmp[u] /\ At(u, "started", "verified")
        /\ UNCHANGED <<bin, saved>>
     \/ /\ bin # tmp[u] /\ At(u, "started", "undone")
        /\ Restored
  /\ UNCHANGED <<unit, release, writable, tmp, carried, watch, crashes, fleet>>

\* unlink(bin.old), whatever it is by now.
CleanUp(u) ==
  /\ At(u, "verified", "done")
  /\ saved' = IF writable THEN "none" ELSE saved
  /\ UNCHANGED <<unit, bin, release, writable, tmp, carried, watch, crashes, fleet>>

\* Killed, out of memory, the host's session ended.
Crash(u) ==
  /\ pc[u] \in Steps /\ crashes < MaxCrashes
  /\ pc' = [pc EXCEPT ![u] = "dead"]
  /\ crashes' = crashes + 1
  /\ UNCHANGED <<files, unit, tmp, carried, watch, fleet>>

-----------------------------------------------------------------------------
(* The detached watchdog: a grace period, probes, the old binary, a start. *)

Probe(u) ==
  /\ watch[u] \in 0..(Probes - 1)
  /\ watch' = [watch EXCEPT ![u] = IF Up THEN Off ELSE @ + 1]
  /\ UNCHANGED <<files, unit, pc, tmp, carried, crashes, fleet>>

\* systemctl start: refused while the unit is masked, nothing to do while it runs.
Started == daemon' = IF masked \/ daemon # "none" THEN daemon ELSE bin'

\* Mutant: the watchdog restores and leaves the start to whoever comes.
RollBackOnly(u) ==
  /\ watch[u] = Probes
  /\ Restored
  /\ watch' = [watch EXCEPT ![u] = IF masked THEN Off ELSE Fired]
  /\ UNCHANGED <<unit, release, writable, pc, tmp, carried, crashes, fleet>>

RollBack(u) ==
  /\ watch[u] = Probes
  /\ Restored
  /\ Started
  /\ watch' = [watch EXCEPT ![u] = IF masked THEN Off ELSE Fired]
  /\ UNCHANGED <<masked, release, writable, pc, tmp, carried, crashes, fleet>>

-----------------------------------------------------------------------------
(* The service manager, and the node that upgrades its fleet. *)

\* Restart=always: a daemon that exits is started again from bin_path.
Restart ==
  /\ daemon # "none"
  /\ (masked \/ bin # "none")
  /\ daemon' = IF masked THEN "none" ELSE bin
  /\ UNCHANGED <<files, process, masked, fleet>>

\* The operator edits mesh.auto_upgrade; the daemon there reloads it some time later.
Repin ==
  /\ pin /\ pin' = FALSE
  /\ UNCHANGED <<files, process, unit, loaded, queued>>
Reload ==
  /\ loaded # pin /\ loaded' = pin
  /\ UNCHANGED <<files, process, unit, pin, queued>>

\* maybe_schedule_auto_upgrade: this host's Hello says it is behind.
Schedule ==
  /\ loaded /\ ~queued /\ daemon \in {"old", "older"}
  /\ queued' = TRUE
  /\ UNCHANGED <<files, process, unit, pin, loaded>>

\* execute_long_operation_task: the pin as it is on disk now, then a mesh shell.
Execute ==
  /\ queued /\ queued' = FALSE
  /\ \/ pin /\ \E u \in Upgraders : Up /\ Begins(u, TRUE)
     \/ /\ ~pin \/ ~Up
        /\ UNCHANGED <<files, process, unit>>
  /\ UNCHANGED <<pin, loaded>>

-----------------------------------------------------------------------------
Upgrader(u) ==
  \/ Fetch(u) \/ Arm(u) \/ Mask(u) \/ Stop(u) \/ MoveOld(u) \/ Install(u)
  \/ Unmask(u) \/ Start(u) \/ Verify(u) \/ CleanUp(u)
Watchdog(u) == Probe(u) \/ RollBack(u)

Next ==
  \/ \E u \in Upgraders : Asked(u) \/ Upgrader(u) \/ Crash(u) \/ Watchdog(u)
  \/ Restart \/ Repin \/ Reload \/ Schedule \/ Execute

Spec == Init /\ [][Next]_vars

\* A process that lives goes on, the watchdog's clock runs.
FairSpec == Spec /\ \A u \in Upgraders : WF_vars(Upgrader(u)) /\ WF_vars(Watchdog(u))

-----------------------------------------------------------------------------
\* At every moment, so after a crash at any moment, the host has a genuine binary that is no
\* older than the one that ran, at bin_path or as bin.old; and nothing else is ever run
\* (main.cpp, Self-update: verified, atomic swap, never backward).
Startable ==
  /\ {bin, saved} \cap {"old", "new", "silent"} # {}
  /\ daemon \notin {"tampered", "older"}

\* What no one repairs: the process was killed and the unit is masked, or its watchdog was
\* content with the old daemon it saw before the stop.
Stranded ==
  \E u \in Upgraders : pc[u] = "dead" /\ ~carried[u] /\ (masked \/ watch[u] = Off)

\* Otherwise a daemon that an upgrade stopped comes back, with a release that works (main.cpp,
\* the self-healing rollback watchdog).
Returns == (daemon = "none" /\ release # "silent") ~> (Up \/ Stranded)
=============================================================================

------------------------------- MODULE SyncPair -------------------------------
(***************************************************************************)
(* bs sync pair: a folder is scanned, the manifest is shown, somebody      *)
(* approves it, a run sends what it lists.  From bs-sync-pair.h and        *)
(* main.cpp (init, approve, run).  Each command is a process that works    *)
(* on files under state/ and may be killed between any two of its writes;  *)
(* one runs at a time.  What is in a file is left out: a path exists or not. *)
(***************************************************************************)
EXTENDS Integers

CONSTANTS
  Files,      \* paths under the folder
  Secrets,    \* those whose names sync_excluded_file knows
  Ids,        \* pairs
  MaxFails    \* sends that fail

VARIABLES
  local,      \* the paths of the folder
  remote,     \* what each pair has sent to its peer
  pairs,      \* sync-pairs.json: the pairs that exist, and whether they are approved
  manifest,   \* sync-manifests/<id>.json, if there is one
  cmd,        \* the command that is running
  agreed,     \* paths somebody has approved for a pair
  fails

vars == <<local, remote, pairs, manifest, cmd, agreed, fails>>

NoPair == [exists |-> FALSE, approved |-> FALSE]
NoManifest == [exists |-> FALSE, ops |-> {}]
Idle == [at |-> "idle", id |-> 0, approve |-> FALSE, ops |-> {}]

TypeOK ==
  /\ local \subseteq Files /\ remote \in [Ids -> SUBSET Files]
  /\ pairs \in [Ids -> [exists : BOOLEAN, approved : BOOLEAN]]
  /\ manifest \in [Ids -> [exists : BOOLEAN, ops : SUBSET Files]]
  /\ cmd \in [at : {"idle", "listed", "written", "sending"}, id : Ids \cup {0}, approve : BOOLEAN, ops : SUBSET Files]
  /\ agreed \in [Ids -> SUBSET Files] /\ fails \in 0..MaxFails

Init ==
  /\ local \in SUBSET Files
  /\ remote = [i \in Ids |-> {}]
  /\ pairs = [i \in Ids |-> NoPair] /\ manifest = [i \in Ids |-> NoManifest]
  /\ cmd = Idle /\ agreed = [i \in Ids |-> {}] /\ fails = 0

disk == <<pairs, manifest>>

-----------------------------------------------------------------------------
\* sync_scan_dir
Scanned == local \ Secrets

\* sync_make_pair_id: the first name that no pair has.
NewIds == {i \in Ids : ~pairs[i].exists /\ \A j \in Ids : j < i => pairs[j].exists}

\* sync_diff against nothing: everything is a create.
InitPair(i, approve) ==
  /\ cmd = Idle /\ i \in NewIds
  /\ cmd' = [at |-> "listed", id |-> i, approve |-> approve, ops |-> Scanned]
  /\ UNCHANGED <<local, remote, disk, agreed, fails>>

\* Mutant: a manifest that an earlier command left stays.
KeptManifest == IF cmd.approve THEN manifest[cmd.id] ELSE [exists |-> TRUE, ops |-> cmd.ops]

\* The manifest is written, or with --approve the one an earlier command left is removed.
NewManifest == IF cmd.approve THEN NoManifest ELSE [exists |-> TRUE, ops |-> cmd.ops]

WriteManifest ==
  /\ cmd.at = "listed"
  /\ manifest' = [manifest EXCEPT ![cmd.id] = NewManifest]
  /\ cmd' = [cmd EXCEPT !.at = "written"]
  /\ UNCHANGED <<local, remote, pairs, agreed, fails>>

WritePairs ==
  /\ cmd.at = "written"
  /\ pairs' = [pairs EXCEPT ![cmd.id] = [exists |-> TRUE, approved |-> cmd.approve]]
  /\ agreed' = [agreed EXCEPT ![cmd.id] = IF cmd.approve THEN cmd.ops ELSE {}]
  /\ cmd' = Idle
  /\ UNCHANGED <<local, remote, manifest, fails>>

\* Nothing happens to a pair that is approved, or has no manifest.
Approve(i) ==
  /\ cmd = Idle /\ pairs[i].exists /\ ~pairs[i].approved /\ manifest[i].exists
  /\ pairs' = [pairs EXCEPT ![i].approved = TRUE]
  /\ agreed' = [agreed EXCEPT ![i] = manifest[i].ops]
  /\ UNCHANGED <<local, remote, manifest, cmd, fails>>

Run(i) ==
  /\ cmd = Idle /\ pairs[i].approved /\ manifest[i].exists
  /\ cmd' = [at |-> "sending", id |-> i, approve |-> FALSE, ops |-> manifest[i].ops]
  /\ UNCHANGED <<local, remote, disk, agreed, fails>>

\* What is there by now is sent.  A file that is gone, or a transfer that fails, counts as a failure and the run goes on.
Send(f) ==
  /\ cmd.at = "sending" /\ f \in cmd.ops
  /\ \/ f \in local /\ remote' = [remote EXCEPT ![cmd.id] = @ \cup {f}] /\ UNCHANGED fails
     \/ f \notin local /\ UNCHANGED <<remote, fails>>
     \/ fails < MaxFails /\ fails' = fails + 1 /\ UNCHANGED remote
  /\ cmd' = [cmd EXCEPT !.ops = @ \ {f}]
  /\ UNCHANGED <<local, disk, agreed>>

\* The manifest goes, whatever failed; the pair stays approved.
Sent ==
  /\ cmd.at = "sending" /\ cmd.ops = {}
  /\ manifest' = [manifest EXCEPT ![cmd.id] = NoManifest]
  /\ pairs' = [pairs EXCEPT ![cmd.id].approved = TRUE]
  /\ cmd' = Idle
  /\ UNCHANGED <<local, remote, agreed, fails>>

\* A manifest half written cannot be loaded.
Killed ==
  /\ cmd # Idle
  /\ cmd' = Idle
  /\ \/ UNCHANGED manifest
     \/ cmd.at = "listed" /\ manifest' = [manifest EXCEPT ![cmd.id] = NoManifest]
  /\ UNCHANGED <<local, remote, pairs, agreed, fails>>

Edit(f) ==
  /\ local' = IF f \in local THEN local \ {f} ELSE local \cup {f}
  /\ UNCHANGED <<remote, disk, cmd, agreed, fails>>

Next ==
  \/ \E i \in Ids : (\E approve \in BOOLEAN : InitPair(i, approve)) \/ Approve(i) \/ Run(i)
  \/ WriteManifest \/ WritePairs \/ Sent \/ Killed
  \/ \E f \in Files : Send(f) \/ Edit(f)

Spec == Init /\ [][Next]_vars

-----------------------------------------------------------------------------
(* What the code promises. *)

\* Nothing but what somebody has approved for a pair, path by path, is sent, and no secret is: a manifest that a killed
\* command left behind is never run under the approval of a later one.
GateHolds == \A i \in Ids : remote[i] \subseteq agreed[i] \ Secrets
=============================================================================

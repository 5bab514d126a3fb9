-------------------------------- MODULE Sync --------------------------------
(***************************************************************************)
(* bs-sync: two directories kept alike over one connection, by rounds of   *)
(* indexes, operations and bodies that the connector drives.  From         *)
(* tools/bs-sync/bs-sync.cpp.  A content is the number of the user's edit  *)
(* that wrote it; modification times come from one clock, which only its   *)
(* order matters of.  Users edit at any step of a round.                   *)
(***************************************************************************)
EXTENDS Integers

CONSTANTS
  Paths,      \* relative paths, none of them ignored
  MaxEdits,   \* edits and deletions of the users
  Ties,       \* whether two writes may have the same modification time
  MaxCuts     \* losses of the connection that no torn body causes

Connector == "connector"
Listener == "listener"
Sites == {Connector, Listener}
Peer(s) == IF s = Connector THEN Listener ELSE Connector

Absent == [c |-> 0, m |-> 0]
Nothing == [p \in Paths |-> Absent]

VARIABLES
  file,    \* what is on each site's disk: content and modification time
  index,   \* Engine::index, what a site advertised last
  seen,    \* seen.json, every path a site ever indexed
  step,    \* where the round is; apart: no connection
  ops,     \* the operations and bodies on their way
  kept,    \* contents in conflict copies
  now,     \* the clock
  edits,
  cuts,
  last     \* the last thing a user did; calm: between two rounds, and of a file it has had

vars == <<file, index, seen, step, ops, kept, now, edits, cuts, last>>

Ops == [path : Paths, c : 0..MaxEdits, m : Nat, del : BOOLEAN]

TypeOK ==
  /\ file \in [Sites -> [Paths -> [c : 0..MaxEdits, m : Nat]]]
  /\ index \in [Sites -> [Paths -> [c : 0..MaxEdits, m : Nat]]]
  /\ seen \in [Sites -> SUBSET Paths]
  /\ step \in {"apart", "idle", "indexed", "answered", "pushed", "applied", "returned"}
  /\ ops \subseteq Ops
  /\ kept \subseteq 1..MaxEdits
  /\ now \in Nat /\ edits \in 0..MaxEdits /\ cuts \in 0..MaxCuts
  /\ last \in [path : Paths, site : Sites, c : 0..MaxEdits, calm : BOOLEAN]

Init ==
  /\ file = [s \in Sites |-> Nothing] /\ index = file
  /\ seen = [s \in Sites |-> {}]
  /\ step = "apart" /\ ops = {} /\ kept = {}
  /\ now = 0 /\ edits = 0 /\ cuts = 0
  /\ last \in [path : Paths, site : {Listener}, c : {0}, calm : {FALSE}]

roundUnchanged == UNCHANGED <<edits, cuts, last>>

-----------------------------------------------------------------------------
(* The users, at any moment. *)

\* Between two rounds and later than anything else; what is deleted the connector has had in one, what the listener's
\* user writes is not what the connector's once deleted.
Calm(s, p, c, t) ==
  /\ step \in {"idle", "apart"} /\ t > now
  /\ IF c = 0 THEN s = Connector /\ p \in seen[s]
     ELSE s = Listener /\ p \in seen[Connector] => file[Connector][p] # Absent

\* Two files may well have one time.
Acts(s, p, c, t) ==
  /\ edits < MaxEdits
  /\ edits' = edits + 1 /\ now' = t
  /\ last' = [path |-> p, site |-> s, c |-> c, calm |-> Calm(s, p, c, t)]
  /\ UNCHANGED <<index, seen, step, ops, kept, cuts>>

Edit(s, p) ==
  /\ \E t \in {now + 1} \cup (IF Ties THEN {now} ELSE {}) :
       /\ Acts(s, p, edits + 1, t)
       /\ file' = [file EXCEPT ![s][p] = [c |-> edits + 1, m |-> t]]

Delete(s, p) ==
  /\ file[s][p] # Absent
  /\ Acts(s, p, 0, now + 1)
  /\ file' = [file EXCEPT ![s][p] = Absent]

-----------------------------------------------------------------------------
(* The round. *)

\* A new process or a new Engine: nothing advertised, seen.json as it was.
Hello ==
  /\ step = "apart" /\ step' = "idle"
  /\ index' = [s \in Sites |-> Nothing]
  /\ UNCHANGED <<file, seen, ops, kept, now>> /\ roundUnchanged

\* walk_dir and merge_seen.
Walks(s) ==
  /\ index' = [index EXCEPT ![s] = file[s]]
  /\ seen' = [seen EXCEPT ![s] = @ \cup {p \in Paths : file[s][p] # Absent}]

\* The connector's INDEX, every two seconds or when the watcher pokes it ...
Round ==
  /\ step = "idle" /\ step' = "indexed"
  /\ Walks(Connector)
  /\ UNCHANGED <<file, ops, kept, now>> /\ roundUnchanged

\* ... and the listener's.
Respond ==
  /\ step = "indexed" /\ step' = "answered"
  /\ Walks(Listener)
  /\ UNCHANGED <<file, ops, kept, now>> /\ roundUnchanged

\* Mutant: ties are nobody's.
NewerNoTie(s, e, f) == e.m > f.m

\* Mutant: the older copy wins.
Older(s, e, f) == e.m < f.m

\* Last writer wins, and the connector when they wrote at once.
Newer(s, e, f) == e.m > f.m \/ (e.m = f.m /\ s = Connector)

Puts(s, mine, theirs) ==
  {p \in Paths : /\ mine[p] # Absent
                 /\ theirs[p] = Absent
                      \/ (mine[p].c # theirs[p].c /\ Newer(s, mine[p], theirs[p]))}

\* Only what this site has had itself can have been deleted here.
Dels(s, mine, theirs) == {p \in seen[s] : mine[p] = Absent /\ theirs[p] # Absent}

Lost == step' = "apart" /\ ops' = {}

\* Advertised times, but the bodies as they are by now; one whose length is not the
\* advertised one makes the receiver hang up.
SendOps(s, mine, theirs, next) ==
  LET puts == Puts(s, mine, theirs)
      torn == {p \in puts : file[s][p].c # mine[p].c}
  IN
  \/ /\ \A p \in torn : file[s][p] # Absent
     /\ step' = next
     /\ ops' = {[path |-> p, c |-> file[s][p].c, m |-> mine[p].m, del |-> FALSE] : p \in puts}
                 \cup {[path |-> p, c |-> 0, m |-> 0, del |-> TRUE] : p \in Dels(s, mine, theirs)}
  \/ torn # {} /\ Lost

\* The connector compares the two indexes of this round.
Push ==
  /\ step = "answered"
  /\ SendOps(Connector, index[Connector], index[Listener], "pushed")
  /\ UNCHANGED <<file, index, seen, kept, now>> /\ roundUnchanged

Changed(s, p) == index[s][p] # Absent /\ index[s][p].c # file[s][p].c

\* apply_put: older than the copy here or than the one advertised here.
Stale(s, e) == file[s][e.path].m > e.m \/ index[s][e.path].m > e.m

\* A copy changed since it was advertised stays, and theirs is put beside it.
Conflict(s, e) == file[s][e.path] # Absent /\ ~Stale(s, e) /\ Changed(s, e.path)

Refuses(s, e) ==
  /\ file[s][e.path] # Absent
  /\ IF e.del THEN Changed(s, e.path) ELSE Stale(s, e) \/ Changed(s, e.path)

\* apply_remote: all of it once DONE is read; a file written now has the time of now.
ApplyOps(s) ==
  /\ file' = [file EXCEPT ![s] = [p \in Paths |->
       IF \E e \in ops : e.path = p /\ ~Refuses(s, e)
         THEN LET e == CHOOSE e \in ops : e.path = p IN
              IF e.del THEN Absent ELSE [c |-> e.c, m |-> now + 1]
         ELSE file[s][p]]]
  /\ kept' = kept \cup {e.c : e \in {o \in ops : ~o.del /\ Conflict(s, o)}}
  /\ now' = IF \E e \in ops : ~e.del /\ ~Refuses(s, e) THEN now + 1 ELSE now
  /\ ops' = {}

ListenerApplies ==
  /\ step = "pushed" /\ step' = "applied"
  /\ ApplyOps(Listener)
  /\ UNCHANGED <<index, seen>> /\ roundUnchanged

\* The listener walks again, without adding to seen, and compares with the connector's
\* index of this round.
Return ==
  /\ step = "applied"
  /\ index' = [index EXCEPT ![Listener] = file[Listener]]
  /\ SendOps(Listener, file[Listener], index[Connector], "returned")
  /\ UNCHANGED <<file, seen, kept, now>> /\ roundUnchanged

ConnectorApplies ==
  /\ step = "returned" /\ step' = "idle"
  /\ ApplyOps(Connector)
  /\ UNCHANGED <<index, seen>> /\ roundUnchanged

\* The connection is lost, the connector's process with it; what is not DONE is dropped.
Cut ==
  /\ step # "apart" /\ cuts < MaxCuts /\ cuts' = cuts + 1
  /\ Lost
  /\ UNCHANGED <<file, index, seen, kept, now, edits, last>>

-----------------------------------------------------------------------------
Engine == Hello \/ Round \/ Respond \/ Push \/ ListenerApplies \/ Return \/ ConnectorApplies
Users == \E s \in Sites, p \in Paths : Edit(s, p) \/ Delete(s, p)

Next == Engine \/ Users \/ Cut

Spec == Init /\ [][Next]_vars

\* Somebody starts the connector again, the timer runs and both processes go on.
FairSpec == Spec /\ WF_vars(Engine)

-----------------------------------------------------------------------------
\* Once the users stop, both directories come to hold the same and stay so, whatever was
\* edited on either side during a round and however often the connection was lost.
Converges == <>[](\A p \in Paths : file[Connector][p].c = file[Listener][p].c)

\* What a user writes between two rounds reaches the other side, and what the connector's
\* user deletes then, having had it in a round before, is deleted there, unless somebody
\* touches a file again.
LastWordWins ==
  \A n \in 1..MaxEdits :
    (edits = n /\ last.calm) ~>
      (edits # n \/ \A s \in Sites : file[s][last.path].c = last.c)
=============================================================================

--------------------------- MODULE SessionsProofs ---------------------------
(***************************************************************************)
(* Proofs about Sessions, for any names, terminals, keys, workers and      *)
(* bounds, as the registry of MCSessions.  Three inductive invariants:     *)
(* over the workers and their paths, over the states and attachments of    *)
(* the registry, and over the connections wired to it.                     *)
(***************************************************************************)
EXTENDS MCSessions, TLAPS

-----------------------------------------------------------------------------
(* A behaviour of the run is one of its registry. *)
LEMMA RegistryRuns == SessionsSpec => Se!Spec
<1>1. SessionsSpec => SessionsInit /\ [][SessionsNext]_<<side, vars, registryVars>>
  BY PTL DEF SessionsSpec
<1>2. SessionsInit => Se!Init
  BY DEF SessionsInit
<1>3. [SessionsNext]_<<side, vars, registryVars>> => [Se!Next]_Se!vars
  BY DEF SessionsNext, registryVars, Se!vars, Se!registry, Se!clients, Se!workers
<1> QED
  BY <1>1, <1>2, <1>3, PTL DEF Se!Spec

-----------------------------------------------------------------------------
(***************************************************************************)
(* Workers: no shell is lost.                                              *)
(***************************************************************************)
PathType ==
  /\ running \in SUBSET Slots /\ leaving \in SUBSET Slots
  /\ sock \in [Names -> Slots \cup {Se!NoSlot}]

\* A worker that has yet to unlink its path has no successor yet.
NoHeir == \A w \in leaving, v \in running : v[1] # w[1]

ShellInv == PathType /\ Se!NoShellLost /\ NoHeir

\* The same of workers k, as the handlers pass them on.
Retains(k) ==
  /\ k.running \in SUBSET Slots /\ k.leaving \in SUBSET Slots
  /\ k.sock \in [Names -> Slots \cup {Se!NoSlot}]
  /\ \A w \in k.running : k.sock[w[1]] = w
  /\ \A w \in k.leaving, v \in k.running : v[1] # w[1]

\* A worker's first component is the name of its session.
LEMMA SlotNames ==
  /\ \A w \in Slots : w[1] \in Names /\ w # Se!NoSlot
  /\ "none" \notin Names
BY SessionsAssumption DEF SessionsAssumption, Se!NoSlot

\* Ending workers loses no other worker's path.
LEMMA WithoutKeeps ==
  ASSUME ShellInv, NEW W
  PROVE  Retains(Se!Without(W))
BY SlotNames DEF ShellInv, PathType, Se!NoShellLost, NoHeir, Retains, Se!Without

\* What a handler makes of the workers is what it leaves.
LEMMA WorkersKeep ==
  ASSUME NEW k, Retains(k), Se!Workers(k)
  PROVE  ShellInv'
BY DEF Retains, Se!Workers, ShellInv, PathType, Se!NoShellLost, NoHeir

\* Spawning reattaches the worker at the path, or starts the only one.
LEMMA SpawnKeeps ==
  ASSUME ~SlowUnlink, NEW k, Retains(k), NEW s, Se!Spawn(s, k)
  PROVE  ShellInv'
<1>1. CASE Se!Answers(s, k)
  BY <1>1, WorkersKeep DEF Se!Spawn
<1>2. CASE ~Se!Answers(s, k)
  <2>1. \A w \in k.leaving : w[1] # s
    BY <1>2 DEF Se!Spawn
  <2>2. PICK w \in Slots :
          /\ w[1] = s
          /\ Se!Workers([running |-> k.running \cup {w}, leaving |-> k.leaving,
                      sock |-> [k.sock EXCEPT ![s] = w]])
    BY <1>2 DEF Se!Spawn
  <2>3. \A v \in k.running : v[1] # s
    BY <1>2 DEF Se!Answers, Retains
  <2> DEFINE j == [running |-> k.running \cup {w}, leaving |-> k.leaving,
                   sock |-> [k.sock EXCEPT ![s] = w]]
  <2>4. Retains(j)
    BY <2>1, <2>2, <2>3, SlotNames DEF Retains
  <2> QED
    BY <2>2, <2>4, WorkersKeep
<1> QED
  BY <1>1, <1>2

\* No step loses a shell, as long as no worker is overtaken between its last
\* two system calls.
LEMMA ShellStep ==
  ASSUME ~SlowUnlink, ShellInv, [Se!Next]_Se!vars
  PROVE  ShellInv'
<1> USE DEF Se!vars, Se!workers
<1>1. ASSUME UNCHANGED Se!workers PROVE ShellInv'
  BY <1>1 DEF ShellInv, PathType, Se!NoShellLost, NoHeir
<1>2. ASSUME NEW W, Se!Workers(Se!Without(W)) PROVE ShellInv'
  BY <1>2, WithoutKeeps, WorkersKeep
<1>3. ASSUME NEW W, NEW s, Se!Spawn(s, Se!Without(W)) PROVE ShellInv'
  BY <1>3, WithoutKeeps, SpawnKeeps
<1>4. ASSUME NEW s \in Names, Se!Erased(s) PROVE ShellInv'
  BY <1>4, <1>2 DEF Se!Erased
<1>5. ASSUME NEW c \in Terminals, Se!Client(c) PROVE ShellInv'
  <2>1. CASE Se!Connect(c) \/ Se!Detach(c) \/ Se!Close(c)
    BY <2>1, <1>1 DEF Se!Connect, Se!Detach, Se!Close
  <2>2. CASE Se!Restart(c)
    BY <2>2, <1>3 DEF Se!Restart
  <2>3. CASE Se!RestartFails(c)
    BY <2>3, <1>2 DEF Se!RestartFails
  <2>4. ASSUME NEW s \in Names, Se!Reattach(c, s) PROVE ShellInv'
    BY <2>4, <1>1 DEF Se!Reattach
  <2>5. ASSUME NEW s \in Names, Se!Kill(c, s) PROVE ShellInv'
    BY <2>5, <1>4 DEF Se!Kill
  <2>6. ASSUME NEW s \in Names, NEW force \in BOOLEAN, Se!Join(c, s, force) PROVE ShellInv'
    BY <2>6, <1>1 DEF Se!Join
  <2>7. ASSUME NEW s \in Names, NEW force \in BOOLEAN, Se!Start(c, s, force) PROVE ShellInv'
    BY <2>7, <1>3 DEF Se!Start, Se!Retired
  <2>8. ASSUME NEW s \in Names, NEW force \in BOOLEAN, Se!StartFails(c, s, force) PROVE ShellInv'
    BY <2>8, <1>2 DEF Se!StartFails, Se!Retired
  <2> QED
    BY <1>5, <2>1, <2>2, <2>3, <2>4, <2>5, <2>6, <2>7, <2>8 DEF Se!Client
<1>6. ASSUME NEW w \in Slots, Se!ShellExits(w) PROVE ShellInv'
  BY <1>6, SlotNames DEF Se!ShellExits, ShellInv, PathType, Se!NoShellLost, NoHeir
<1>7. ASSUME NEW w \in Slots, Se!Unlink(w) PROVE ShellInv'
  BY <1>7, SlotNames DEF Se!Unlink, ShellInv, PathType, Se!NoShellLost, NoHeir
<1>8. ASSUME NEW s \in Names, Se!PruneIdle(s) \/ Se!PruneFinished(s) \/ Se!WorkerDrops(s)
      PROVE  ShellInv'
  BY <1>8, <1>1, <1>4 DEF Se!PruneIdle, Se!PruneFinished, Se!WorkerDrops
<1>9. CASE Se!Poll \/ Se!Reap
  BY <1>9, <1>1 DEF Se!Poll, Se!Reap, Se!Finished
<1>10. CASE Se!Crash \/ Se!Shutdown \/ Se!Boot
  BY <1>10, <1>1 DEF Se!Crash, Se!Shutdown, Se!Gone, Se!Boot
<1>11. CASE UNCHANGED Se!vars
  BY <1>11, <1>1
<1> QED
  BY <1>5, <1>6, <1>7, <1>8, <1>9, <1>10, <1>11 DEF Se!Next

\* Initially nothing runs.
LEMMA ShellStart == Se!Init => ShellInv
BY DEF Se!Init, ShellInv, PathType, Se!NoShellLost, NoHeir

\* Every living shell is behind its session's socket path, whatever crashes and
\* restarts there are, provided a worker unlinks its path before another is
\* started in its place.
THEOREM ShellsCorrect == ~SlowUnlink => (SessionsSpec => []NoShellLost)
<1> SUFFICES ASSUME ~SlowUnlink PROVE SessionsSpec => []NoShellLost
  OBVIOUS
<1>1. Se!Init => ShellInv
  BY ShellStart
<1>2. ShellInv /\ [Se!Next]_Se!vars => ShellInv'
  BY ShellStep
<1>3. ShellInv => NoShellLost
  BY DEF ShellInv, NoShellLost
<1> QED
  BY <1>1, <1>2, <1>3, RegistryRuns, PTL DEF Se!Spec
-----------------------------------------------------------------------------
(***************************************************************************)
(* Registry: states and attachments agree.                                 *)
(***************************************************************************)
\* A daemon that is down has no attachments: Boot makes its sessions Detached.
RegistryInv ==
  /\ state \in [Names -> Se!States]
  /\ att \in [Names -> SUBSET AttachIds]
  /\ Se!NeverDetachedWhileAttached
  /\ ~up => \A s \in Names : att[s] = {}

\* The same of r, as the handlers of a running daemon pass it on.
Sound(r) ==
  /\ r.state \in [Names -> Se!States]
  /\ r.att \in [Names -> SUBSET AttachIds]
  /\ \A s \in Names : r.state[s] \in Se!Live /\ r.att[s] # {} => r.state[s] = "Attached"

\* A detach marks a session Detached only when it removes the last attachment.
LEMMA LeftSound ==
  ASSUME RegistryInv, NEW c, NEW replaced
  PROVE  Sound(Se!Left(c, replaced, Se!now))
<1>1. Sound(Se!now)
  BY DEF RegistryInv, Se!NeverDetachedWhileAttached, Sound, Se!now
<1>2. CASE at[c] = "none" \/ replaced
  BY <1>1, <1>2 DEF Se!Left
<1>3. CASE ~(at[c] = "none" \/ replaced)
  <2> DEFINE s == at[c]
             rest == IF aid[c] \in att[s] THEN att[s] \ {aid[c]} ELSE {}
             st == [state EXCEPT ![s] = IF rest = {} /\ state[s] = "Attached"
                                        THEN "Detached" ELSE state[s]]
             at2 == [att EXCEPT ![s] = rest]
  <2>1. Se!Left(c, replaced, Se!now) = [state |-> st, att |-> at2]
    BY <1>3 DEF Se!Left, Se!now
  <2>2. st \in [Names -> Se!States] /\ at2 \in [Names -> SUBSET AttachIds]
    BY DEF RegistryInv, Se!States
  <2>3. \A x \in Names : st[x] \in Se!Live /\ at2[x] # {} => st[x] = "Attached"
    <3> SUFFICES ASSUME NEW x \in Names, st[x] \in Se!Live, at2[x] # {}
                 PROVE  st[x] = "Attached"
      OBVIOUS
    <3>1. CASE x = s
      BY <3>1 DEF RegistryInv, Se!NeverDetachedWhileAttached, Se!Live
    <3>2. CASE x # s
      BY <3>2 DEF RegistryInv, Se!NeverDetachedWhileAttached
    <3> QED
      BY <3>1, <3>2
  <2> HIDE DEF st, at2
  <2> QED
    BY <2>1, <2>2, <2>3 DEF Sound
<1> QED
  BY <1>2, <1>3

\* What a handler of a running daemon leaves.
LEMMA SoundStays ==
  ASSUME NEW r, Sound(r), state' = r.state, att' = r.att, up'
  PROVE  RegistryInv'
BY DEF Sound, RegistryInv, Se!NeverDetachedWhileAttached

\* Registering an attachment makes the session Attached.
LEMMA RegisteredSound ==
  ASSUME NEW c, NEW s \in Names, NEW r, Sound(r),
         NEW others \in SUBSET AttachIds, Se!Registered(c, s, r, others), up'
  PROVE  RegistryInv'
<1>1. PICK i \in AttachIds : att' = [r.att EXCEPT ![s] = others \cup {i}]
  BY DEF Se!Registered, Se!FreshId
<1>2. state' = [r.state EXCEPT ![s] = "Attached"]
  BY DEF Se!Registered
<1> QED
  BY <1>1, <1>2 DEF Sound, RegistryInv, Se!NeverDetachedWhileAttached, Se!States

\* A session that is over or erased, with or without its attachments.
LEMMA FinishedSound ==
  ASSUME RegistryInv, NEW D, Se!Finished(D)
  PROVE  RegistryInv'
BY DEF Se!Finished, RegistryInv, Se!NeverDetachedWhileAttached, Se!Live, Se!States

LEMMA ErasedSound ==
  ASSUME RegistryInv, NEW s \in Names, Se!Erased(s)
  PROVE  RegistryInv'
BY DEF Se!Erased, RegistryInv, Se!NeverDetachedWhileAttached, Se!Live, Se!States

\* No step parts a session's state from its attachments.
LEMMA RegistryStep ==
  ASSUME RegistryInv, [Se!Next]_Se!vars
  PROVE  RegistryInv'
<1>1. ASSUME UNCHANGED <<up, state, att>> PROVE RegistryInv'
  BY <1>1 DEF RegistryInv, Se!NeverDetachedWhileAttached
<1>2. ASSUME NEW c, NEW replaced, up',
             state' = Se!Left(c, replaced, Se!now).state, att' = Se!Left(c, replaced, Se!now).att
      PROVE  RegistryInv'
  BY <1>2, LeftSound, SoundStays
<1>3. ASSUME NEW c \in Terminals, Se!Client(c) PROVE RegistryInv'
  <2>1. CASE Se!Connect(c)
    BY <2>1, <1>1 DEF Se!Connect, Se!registry
  <2>2. CASE Se!Detach(c) \/ Se!Close(c)
    BY <2>2, <1>2 DEF Se!Detach, Se!Close, Se!Handling
  <2>3. CASE Se!Restart(c)
    BY <2>3 DEF Se!Restart, RegistryInv, Se!NeverDetachedWhileAttached, Se!States
  <2>4. CASE Se!RestartFails(c)
    BY <2>4 DEF Se!RestartFails, RegistryInv, Se!NeverDetachedWhileAttached, Se!States, Se!Live
  <2>5. ASSUME NEW s \in Names, Se!Reattach(c, s) PROVE RegistryInv'
    BY <2>5, <1>2 DEF Se!Reattach, Se!Handling
  <2>6. ASSUME NEW s \in Names, Se!Kill(c, s) PROVE RegistryInv'
    BY <2>6, ErasedSound DEF Se!Kill
  <2>7. ASSUME NEW s \in Names, NEW force \in BOOLEAN, Se!Join(c, s, force) PROVE RegistryInv'
    <3> DEFINE r == Se!Left(c, FALSE, Se!now)
    <3>1. Sound(r) /\ r.att[s] \in SUBSET AttachIds
      BY LeftSound DEF Sound
    <3>2. Se!Registered(c, s, r, r.att[s]) /\ up'
      BY <2>7 DEF Se!Join, Se!Handling
    <3> HIDE DEF r
    <3> QED
      BY <3>1, <3>2, RegisteredSound
  <2>8. ASSUME NEW s \in Names, NEW force \in BOOLEAN, Se!Start(c, s, force) PROVE RegistryInv'
    <3> DEFINE r == Se!Left(c, FALSE, Se!now)
    <3>1. Sound(r)
      BY LeftSound
    <3>2. Se!Registered(c, s, r, {}) /\ up'
      BY <2>8 DEF Se!Start, Se!Handling
    <3>3. {} \in SUBSET AttachIds
      OBVIOUS
    <3> HIDE DEF r
    <3> QED
      BY <3>1, <3>2, <3>3, RegisteredSound
  <2>9. ASSUME NEW s \in Names, NEW force \in BOOLEAN, Se!StartFails(c, s, force)
        PROVE  RegistryInv'
    <3> DEFINE r == Se!Left(c, FALSE, Se!now)
    <3>1. Sound(r)
      BY LeftSound
    <3>2. state' = r.state /\ att' = [r.att EXCEPT ![s] = {}] /\ up'
      BY <2>9 DEF Se!StartFails, Se!Handling
    <3> HIDE DEF r
    <3> QED
      BY <3>1, <3>2 DEF Sound, RegistryInv, Se!NeverDetachedWhileAttached
  <2> QED
    BY <1>3, <2>1, <2>2, <2>3, <2>4, <2>5, <2>6, <2>7, <2>8, <2>9 DEF Se!Client
<1>4. ASSUME NEW w \in Slots, Se!ShellExits(w) \/ Se!Unlink(w) PROVE RegistryInv'
  BY <1>4, <1>1 DEF Se!ShellExits, Se!Unlink, Se!registry
<1>5. ASSUME NEW s \in Names, Se!PruneIdle(s) \/ Se!PruneFinished(s) PROVE RegistryInv'
  BY <1>5, ErasedSound DEF Se!PruneIdle, Se!PruneFinished
<1>6. ASSUME NEW s \in Names, Se!WorkerDrops(s) PROVE RegistryInv'
  BY <1>6, <1>1 DEF Se!WorkerDrops
<1>7. CASE Se!Poll \/ Se!Reap
  BY <1>7, FinishedSound DEF Se!Poll, Se!Reap
<1>8. CASE Se!Crash \/ Se!Shutdown
  BY <1>8 DEF Se!Crash, Se!Shutdown, Se!Gone, RegistryInv, Se!NeverDetachedWhileAttached, Se!States
<1>9. CASE Se!Boot
  BY <1>9 DEF Se!Boot, RegistryInv, Se!NeverDetachedWhileAttached, Se!States
<1>10. CASE UNCHANGED Se!vars
  BY <1>10, <1>1 DEF Se!vars, Se!registry
<1> QED
  BY <1>3, <1>4, <1>5, <1>6, <1>7, <1>8, <1>9, <1>10 DEF Se!Next

\* A session somebody is registered at is never taken for a detached one, over
\* all joins, detaches, deaths, resurrections and restarts of the daemon.
THEOREM AttachedCorrect == SessionsSpec => []Se!NeverDetachedWhileAttached
<1>1. Se!Init => RegistryInv
  BY DEF Se!Init, RegistryInv, Se!NeverDetachedWhileAttached, Se!States
<1>2. RegistryInv /\ [Se!Next]_Se!vars => RegistryInv'
  BY RegistryStep
<1>3. RegistryInv => Se!NeverDetachedWhileAttached
  BY DEF RegistryInv
<1> QED
  BY <1>1, <1>2, <1>3, RegistryRuns, PTL DEF Se!Spec
-----------------------------------------------------------------------------
(***************************************************************************)
(* Connections: pointers and ids agree with the registry.                  *)
(***************************************************************************)
\* An id the registry knows is that of a connection that is still there, at the
\* session it is registered with.
WiredInv ==
  /\ RegistryInv
  /\ at \in [Terminals -> Names \cup {"none"}]
  /\ aid \in [Terminals -> AttachIds \cup {0}]
  /\ \A c \in Terminals : at[c] # "none" => c \in open
  /\ \A c \in Terminals, s \in Names : aid[c] \in att[s] => at[c] = s
  /\ ~up => open = {}
  /\ Se!NoDangling

\* What a handler passes on has the sessions there were and no attachment that
\* was not there.
Smaller(r) ==
  /\ Sound(r)
  /\ \A s \in Names : /\ r.att[s] \subseteq att[s]
                      /\ state[s] # "absent" => r.state[s] # "absent"

LEMMA LeftSmaller ==
  ASSUME RegistryInv, NEW c, NEW replaced
  PROVE  Smaller(Se!Left(c, replaced, Se!now))
<1>1. Sound(Se!Left(c, replaced, Se!now))
  BY LeftSound
<1>2. CASE at[c] = "none" \/ replaced
  BY <1>1, <1>2 DEF Se!Left, Smaller, Se!now
<1>3. CASE ~(at[c] = "none" \/ replaced)
  <2> DEFINE n == at[c]
             rest == IF aid[c] \in att[n] THEN att[n] \ {aid[c]} ELSE {}
             st == [state EXCEPT ![n] = IF rest = {} /\ state[n] = "Attached"
                                        THEN "Detached" ELSE state[n]]
             at2 == [att EXCEPT ![n] = rest]
  <2>1. Se!Left(c, replaced, Se!now) = [state |-> st, att |-> at2]
    BY <1>3 DEF Se!Left, Se!now
  <2>2. \A s \in Names : at2[s] \subseteq att[s]
    BY DEF RegistryInv
  <2>3. \A s \in Names : state[s] # "absent" => st[s] # "absent"
    BY DEF RegistryInv
  <2> HIDE DEF st, at2
  <2> QED
    BY <1>1, <2>1, <2>2, <2>3 DEF Smaller
<1> QED
  BY <1>2, <1>3

\* Sessions and attachments that only shrink keep every connection wired.
LEMMA ShrinkWired ==
  ASSUME WiredInv, RegistryInv', UNCHANGED up,
         \A s \in Names : /\ att'[s] \subseteq att[s]
                          /\ state[s] # "absent" => state'[s] # "absent",
         UNCHANGED Se!clients
  PROVE  WiredInv'
BY DEF WiredInv, Se!NoDangling, Se!clients

\* The same when connection c leaves its session.
LEMMA UnwiredWired ==
  ASSUME WiredInv, RegistryInv', up', NEW c \in Terminals,
         \A s \in Names : /\ att'[s] \subseteq att[s]
                          /\ state[s] # "absent" => state'[s] # "absent",
         Se!Unwired(c), open \ {c} \subseteq open'
  PROVE  WiredInv'
<1>1. /\ at' = [at EXCEPT ![c] = "none"] /\ at'[c] = "none"
      /\ aid' = [aid EXCEPT ![c] = 0] /\ aid'[c] = 0
      /\ \A d \in Terminals \ {c} : at'[d] = at[d] /\ aid'[d] = aid[d]
  BY DEF Se!Unwired, WiredInv
<1>2. \A s \in Names : 0 \notin att'[s]
  BY SessionsAssumption DEF RegistryInv
<1>3. \A d \in Terminals, s \in Names : aid'[d] \in att'[s] => at'[d] = s
  BY <1>1, <1>2 DEF WiredInv
<1>4. \A d \in Terminals : at'[d] # "none" => d \in open' /\ state'[at'[d]] # "absent"
  BY <1>1 DEF WiredInv, Se!NoDangling
<1>5. /\ at' \in [Terminals -> Names \cup {"none"}]
      /\ aid' \in [Terminals -> AttachIds \cup {0}]
  BY <1>1 DEF WiredInv
<1> QED
  BY <1>3, <1>4, <1>5 DEF WiredInv, Se!NoDangling

\* A new id is nobody else's.
LEMMA RegisteredWired ==
  ASSUME WiredInv, RegistryInv', up', NEW c \in open \cap Terminals, NEW s \in Names, NEW r,
         Smaller(r), NEW others, others \subseteq r.att[s], Se!Registered(c, s, r, others),
         UNCHANGED open
  PROVE  WiredInv'
<1>1. PICK i \in Se!FreshId : att' = [r.att EXCEPT ![s] = others \cup {i}]
                           /\ aid' = [aid EXCEPT ![c] = i]
  BY DEF Se!Registered
<1>2. /\ i \in AttachIds /\ \A x \in Names : i \notin att[x]
      /\ \A d \in Terminals : i # aid[d]
  <2>1. /\ i \in AttachIds /\ i \notin {aid[d] : d \in Terminals}
        /\ i \notin UNION {att[x] : x \in Names}
    BY DEF Se!FreshId
  <2> QED
    BY <2>1
<1>3. /\ state' = [r.state EXCEPT ![s] = "Attached"]
      /\ at' = [at EXCEPT ![c] = s]
      /\ r.state \in [Names -> Se!States] /\ r.att \in [Names -> SUBSET AttachIds]
  BY DEF Se!Registered, Smaller, Sound
<1>4. /\ at'[c] = s /\ aid'[c] = i
      /\ \A d \in Terminals \ {c} : at'[d] = at[d] /\ aid'[d] = aid[d]
  BY <1>1, <1>3 DEF WiredInv
<1>5. /\ att'[s] \subseteq att[s] \cup {i}
      /\ \A x \in Names \ {s} : att'[x] \subseteq att[x]
  BY <1>1, <1>3 DEF Smaller
<1>6. \A x \in Names : x = s \/ state[x] # "absent" => state'[x] # "absent"
  BY <1>3 DEF Smaller
<1>7. \A d \in Terminals, x \in Names : aid'[d] \in att'[x] => at'[d] = x
  BY <1>2, <1>4, <1>5 DEF WiredInv
<1>8. \A d \in Terminals : at'[d] # "none" => d \in open' /\ state'[at'[d]] # "absent"
  BY <1>4, <1>6 DEF WiredInv, Se!NoDangling
<1>9. /\ at' \in [Terminals -> Names \cup {"none"}]
      /\ aid' \in [Terminals -> AttachIds \cup {0}]
  BY <1>1, <1>2, <1>3 DEF WiredInv
<1> QED
  BY <1>7, <1>8, <1>9 DEF WiredInv, Se!NoDangling

\* Erasing a session takes every connection's pointer to it.
LEMMA ErasedWired ==
  ASSUME WiredInv, up, NEW s \in Names, Se!Erased(s)
  PROVE  WiredInv'
<1>1. /\ RegistryInv'
      /\ state' = [state EXCEPT ![s] = "absent"] /\ att' = [att EXCEPT ![s] = {}]
      /\ UNCHANGED <<up, open, aid>>
      /\ at' = [c \in Terminals |-> IF at[c] = s THEN "none" ELSE at[c]]
  BY ErasedSound DEF WiredInv, Se!Erased, Se!Released
<1>2. /\ att'[s] = {}
      /\ \A x \in Names \ {s} : att'[x] = att[x] /\ state'[x] = state[x]
  BY <1>1 DEF WiredInv, RegistryInv
<1>3. at' \in [Terminals -> Names \cup {"none"}]
  BY <1>1 DEF WiredInv
<1>4. \A c \in Terminals : at'[c] # "none" => at'[c] # s /\ at'[c] = at[c]
  BY <1>1, SlotNames DEF WiredInv
<1>5. \A c \in Terminals, x \in Names : aid'[c] \in att'[x] => at'[c] = x
  BY <1>1, <1>2 DEF WiredInv
<1>6. \A c \in Terminals : at'[c] # "none" => c \in open' /\ state'[at'[c]] # "absent"
  BY <1>1, <1>2, <1>3, <1>4 DEF WiredInv, Se!NoDangling
<1> QED
  BY <1>1, <1>3, <1>5, <1>6 DEF WiredInv, Se!NoDangling

LEMMA WiredStep ==
  ASSUME WiredInv, [Se!Next]_Se!vars
  PROVE  WiredInv'
<1>0. RegistryInv /\ RegistryInv'
  BY RegistryStep DEF WiredInv
<1>1. ASSUME UNCHANGED <<up, state, att, Se!clients>> PROVE WiredInv'
  BY <1>0, <1>1, ShrinkWired
<1>2. ASSUME NEW c \in Terminals, Se!Client(c) PROVE WiredInv'
  <2>1. CASE Se!Connect(c)
    BY <1>0, <2>1 DEF Se!Connect, WiredInv, Se!NoDangling, Se!Handling, Se!registry
  <2>2. ASSUME NEW replaced, state' = Se!Left(c, replaced, Se!now).state,
               att' = Se!Left(c, replaced, Se!now).att, Se!Unwired(c), up', open \ {c} \subseteq open'
        PROVE  WiredInv'
    BY <1>0, <2>2, LeftSmaller, UnwiredWired DEF Smaller
  <2>3. CASE Se!Detach(c) \/ Se!Close(c)
    BY <2>2, <2>3 DEF Se!Detach, Se!Close, Se!Handling
  <2>4. CASE Se!Restart(c) \/ Se!RestartFails(c)
    <3>1. /\ UNCHANGED <<up, att, Se!clients>>
          /\ \E x \in {"Attached", "Died"} : state' = [state EXCEPT ![at[c]] = x]
      BY <2>4 DEF Se!Restart, Se!RestartFails
    <3>2. \A s \in Names : state[s] # "absent" => state'[s] # "absent"
      BY <1>0, <3>1 DEF RegistryInv
    <3> QED
      BY <1>0, <3>1, <3>2, ShrinkWired
  <2>5. ASSUME NEW s \in Names, Se!Reattach(c, s) PROVE WiredInv'
    BY <2>2, <2>5 DEF Se!Reattach, Se!Handling
  <2>6. ASSUME NEW s \in Names, Se!Kill(c, s) PROVE WiredInv'
    BY <2>6, ErasedWired DEF Se!Kill, Se!Handling
  <2>7. ASSUME NEW s \in Names, NEW force \in BOOLEAN, Se!Join(c, s, force) \/ Se!Start(c, s, force)
        PROVE  WiredInv'
    <3> DEFINE r == Se!Left(c, FALSE, Se!now)
    <3>1. Smaller(r)
      BY <1>0, LeftSmaller
    <3>2. /\ Se!Registered(c, s, r, r.att[s]) \/ Se!Registered(c, s, r, {})
          /\ up' /\ c \in open /\ UNCHANGED open
      <4>1. CASE Se!Join(c, s, force)
        BY <4>1 DEF Se!Join, Se!Handling
      <4>2. CASE Se!Start(c, s, force)
        BY <4>2 DEF Se!Start, Se!Handling
      <4> QED
        BY <2>7, <4>1, <4>2
    <3> HIDE DEF r
    <3>3. CASE Se!Registered(c, s, r, r.att[s])
      BY <1>0, <3>1, <3>2, <3>3, RegisteredWired
    <3>4. CASE Se!Registered(c, s, r, {})
      BY <1>0, <3>1, <3>2, <3>4, RegisteredWired
    <3> QED
      BY <3>2, <3>3, <3>4
  <2>8. ASSUME NEW s \in Names, NEW force \in BOOLEAN, Se!StartFails(c, s, force)
        PROVE  WiredInv'
    <3> DEFINE r == Se!Left(c, FALSE, Se!now)
    <3>1. Smaller(r)
      BY <1>0, LeftSmaller
    <3>2. /\ state' = r.state /\ att' = [r.att EXCEPT ![s] = {}] /\ Se!Unwired(c)
          /\ up' /\ UNCHANGED open
      BY <2>8 DEF Se!StartFails, Se!Handling
    <3> HIDE DEF r
    <3>3. \A x \in Names : /\ att'[x] \subseteq att[x]
                           /\ state[x] # "absent" => state'[x] # "absent"
      BY <3>1, <3>2 DEF Smaller, Sound
    <3> QED
      BY <1>0, <3>2, <3>3, UnwiredWired
  <2> QED
    BY <1>2, <2>1, <2>3, <2>4, <2>5, <2>6, <2>7, <2>8 DEF Se!Client
<1>3. ASSUME NEW s \in Names, Se!PruneIdle(s) \/ Se!PruneFinished(s) PROVE WiredInv'
  BY <1>3, ErasedWired DEF Se!PruneIdle, Se!PruneFinished, Se!Handling
<1>4. ASSUME NEW s \in Names, Se!WorkerDrops(s) PROVE WiredInv'
  BY <1>1, <1>4 DEF Se!WorkerDrops
<1>5. ASSUME NEW w \in Slots, Se!ShellExits(w) \/ Se!Unlink(w) PROVE WiredInv'
  BY <1>1, <1>5 DEF Se!ShellExits, Se!Unlink, Se!registry
<1>6. CASE Se!Poll \/ Se!Reap
  <2>1. /\ \E D : state' = [s \in Names |-> IF s \in D THEN "Died" ELSE state[s]]
        /\ UNCHANGED <<up, att, open, at, aid>>
    BY <1>6 DEF Se!Poll, Se!Reap, Se!Finished
  <2>2. \A s \in Names : state[s] # "absent" => state'[s] # "absent"
    BY <2>1
  <2> QED
    BY <1>0, <2>1, <2>2 DEF WiredInv, Se!NoDangling
<1>7. CASE Se!Crash \/ Se!Shutdown
  <2>1. /\ at' = [c \in Terminals |-> "none"] /\ aid' = [c \in Terminals |-> 0] /\ open' = {}
        /\ att' = [s \in Names |-> {}]
    BY <1>7 DEF Se!Crash, Se!Shutdown, Se!Gone
  <2> QED
    BY <1>0, <2>1 DEF WiredInv, Se!NoDangling
<1>8. CASE Se!Boot
  <2>1. ~up /\ UNCHANGED <<att, Se!clients>>
    BY <1>8 DEF Se!Boot
  <2>2. \A c \in Terminals : at[c] = "none"
    BY <2>1 DEF WiredInv
  <2> QED
    BY <1>0, <1>8, <2>1, <2>2 DEF Se!Boot, WiredInv, Se!NoDangling, Se!clients
<1>9. CASE UNCHANGED Se!vars
  BY <1>1, <1>9 DEF Se!vars, Se!registry
<1> QED
  BY <1>2, <1>3, <1>4, <1>5, <1>6, <1>7, <1>8, <1>9 DEF Se!Next

LEMMA WiredAlways == SessionsSpec => []WiredInv
<1>1. Se!Init => WiredInv
  BY DEF Se!Init, WiredInv, Se!NoDangling, RegistryInv, Se!NeverDetachedWhileAttached, Se!States
<1>2. WiredInv /\ [Se!Next]_Se!vars => WiredInv'
  BY WiredStep
<1> QED
  BY <1>1, <1>2, RegistryRuns, PTL DEF Se!Spec

\* No connection ever points at a session the registry has erased, whichever of
\* its paths erased it.
THEOREM PointersCorrect == SessionsSpec => []NoDangling
<1>1. WiredInv => NoDangling
  BY DEF WiredInv, NoDangling
<1> QED
  BY <1>1, WiredAlways, PTL

\* The step that records an attached session's end tells everybody registered at
\* it: the poller goes by pointers, the registry by ids, and the two agree.
THEOREM ToldCorrect == SessionsSpec => ToldOfDeath
<1> DEFINE Telling == \A s \in Names, c \in Terminals :
       (state[s] = "Attached" /\ state'[s] = "Died" /\ aid[c] \in att[s]) =>
         view'[c] = "none" \/ Se!RestartFails(c)
<1>1. WiredInv /\ [Se!Next]_Se!vars => [Telling]_Se!vars
  <2> SUFFICES ASSUME WiredInv, Se!Next, NEW s \in Names, NEW c \in Terminals,
                      state[s] = "Attached", state'[s] = "Died", aid[c] \in att[s]
               PROVE  view'[c] = "none" \/ Se!RestartFails(c)
    BY DEF Telling
  <2>1. at[c] = s /\ c \in open /\ s # "none" /\ state \in [Names -> Se!States]
    BY SlotNames DEF WiredInv, RegistryInv
  <2>2. ASSUME NEW r, r.state \in [Names -> Se!States],
               r.state[s] \in {"Attached", "Detached"},
               state' = r.state \/ \E x \in Names : state' = [r.state EXCEPT ![x] = "Attached"]
        PROVE  FALSE
    BY <2>2
  <2>3. ASSUME NEW d, NEW replaced
        PROVE  /\ Se!Left(d, replaced, Se!now).state \in [Names -> Se!States]
               /\ Se!Left(d, replaced, Se!now).state[s] \in {"Attached", "Detached"}
    <3>1. Se!Left(d, replaced, Se!now).state \in [Names -> Se!States]
      BY LeftSmaller DEF WiredInv, Smaller, Sound
    <3>2. \/ Se!Left(d, replaced, Se!now).state = state
          \/ \E x \in {"Attached", "Detached"} :
               Se!Left(d, replaced, Se!now).state = [state EXCEPT ![at[d]] = IF x = "Detached" THEN x ELSE @]
      BY DEF Se!Left, Se!now
    <3> QED
      BY <2>1, <3>1, <3>2
  <2>4. ASSUME NEW d \in Terminals, Se!Client(d) PROVE Se!RestartFails(c)
    <3>1. CASE Se!RestartFails(d)
      <4>1. at[d] = s
        BY <2>1, <3>1 DEF Se!RestartFails
      <4> QED
        BY <2>1, <3>1, <4>1 DEF Se!RestartFails
    <3>2. CASE Se!Connect(d)
      BY <3>2 DEF Se!Connect, Se!registry
    <3>3. CASE Se!Detach(d) \/ Se!Close(d)
      BY <2>2, <2>3, <3>3 DEF Se!Detach, Se!Close
    <3>4. CASE Se!Restart(d)
      BY <2>1, <3>4 DEF Se!Restart
    <3>5. ASSUME NEW x \in Names, Se!Reattach(d, x) PROVE FALSE
      BY <2>2, <2>3, <3>5 DEF Se!Reattach
    <3>6. ASSUME NEW x \in Names, Se!Kill(d, x) PROVE FALSE
      BY <2>1, <3>6 DEF Se!Kill, Se!Erased
    <3>7. ASSUME NEW x \in Names, NEW force \in BOOLEAN,
                 Se!Join(d, x, force) \/ Se!Start(d, x, force) \/ Se!StartFails(d, x, force)
          PROVE  FALSE
      <4>1. \E y \in Names : \/ state' = Se!Left(d, FALSE, Se!now).state
                             \/ state' = [Se!Left(d, FALSE, Se!now).state EXCEPT ![y] = "Attached"]
        BY <3>7 DEF Se!Join, Se!Start, Se!StartFails, Se!Registered
      <4> QED
        BY <2>2, <2>3, <4>1
    <3> QED
      BY <2>4, <3>1, <3>2, <3>3, <3>4, <3>5, <3>6, <3>7 DEF Se!Client
  <2>5. ASSUME NEW x \in Names, Se!PruneIdle(x) \/ Se!PruneFinished(x) \/ Se!WorkerDrops(x) PROVE FALSE
    BY <2>1, <2>5 DEF Se!PruneIdle, Se!PruneFinished, Se!WorkerDrops, Se!Erased
  <2>6. ASSUME NEW w \in Slots, Se!ShellExits(w) \/ Se!Unlink(w) PROVE FALSE
    BY <2>6 DEF Se!ShellExits, Se!Unlink, Se!registry
  <2>7. CASE Se!Poll
    BY <2>1, <2>7 DEF Se!Poll, Se!Finished
  <2>8. CASE Se!Reap
    BY <2>8 DEF Se!Reap, Se!Finished, Se!Reaped
  <2>9. CASE Se!Crash \/ Se!Shutdown \/ Se!Boot
    BY <2>9 DEF Se!Crash, Se!Shutdown, Se!Gone, Se!Boot
  <2> QED
    BY <2>4, <2>5, <2>6, <2>7, <2>8, <2>9 DEF Se!Next
<1> QED
  BY <1>1, WiredAlways, RegistryRuns, PTL DEF Se!Spec, ToldOfDeath, Se!ToldOfDeath

\* A daemon that starts holds every living shell again, saved list or not.
THEOREM ReadoptedCorrect == ~SlowUnlink => (SessionsSpec => Readopted)
<1> DEFINE Back == (~up /\ up') => \A w \in running : fd'[w[1]] = w /\ state'[w[1]] = "Detached"
<1> SUFFICES ASSUME ~SlowUnlink PROVE SessionsSpec => Readopted
  OBVIOUS
<1>1. ShellInv /\ [Se!Next]_Se!vars => [Back]_Se!vars
  <2> SUFFICES ASSUME ShellInv, Se!Next, ~up, up', NEW w \in running
               PROVE  fd'[w[1]] = w /\ state'[w[1]] = "Detached"
    BY DEF Back
  <2>1. Se!Boot
    <3>1. ASSUME NEW c \in Terminals PROVE ~Se!Client(c)
      <4>1. /\ ~Se!Connect(c) /\ ~Se!Detach(c) /\ ~Se!Close(c) /\ ~Se!Restart(c) /\ ~Se!RestartFails(c)
            /\ \A s \in Names : ~Se!Reattach(c, s) /\ ~Se!Kill(c, s)
        BY DEF Se!Connect, Se!Detach, Se!Close, Se!Restart, Se!RestartFails, Se!Reattach, Se!Kill, Se!Handling
      <4>2. ASSUME NEW s \in Names, NEW force \in BOOLEAN
            PROVE  ~Se!Join(c, s, force) /\ ~Se!Start(c, s, force) /\ ~Se!StartFails(c, s, force)
        BY DEF Se!Join, Se!Start, Se!StartFails, Se!Handling
      <4> QED
        BY <4>1, <4>2 DEF Se!Client
    <3>2. \A s \in Names : ~Se!PruneIdle(s) /\ ~Se!PruneFinished(s) /\ ~Se!WorkerDrops(s)
      BY DEF Se!PruneIdle, Se!PruneFinished, Se!WorkerDrops, Se!Handling
    <3>3. \A x \in Slots : ~Se!ShellExits(x) /\ ~Se!Unlink(x)
      BY DEF Se!ShellExits, Se!Unlink
    <3> QED
      BY <3>1, <3>2, <3>3 DEF Se!Next, Se!Poll, Se!Reap, Se!Crash, Se!Shutdown, Se!Gone, Se!Handling
  <2>2. w \in Slots /\ w[1] \in Names /\ sock[w[1]] = w
    BY SlotNames DEF ShellInv, PathType, Se!NoShellLost
  <2>3. w[1] \in Se!Adopted
    <3>1. Se!Without({}).sock[w[1]] = w /\ Se!Without({}).running = running
      BY <2>2 DEF Se!Without
    <3> QED
      BY <2>2, <3>1 DEF Se!Adopted, Se!Answers
  <2> QED
    BY <2>1, <2>2, <2>3 DEF Se!Boot
<1>2. Se!Spec => []ShellInv
  <2>1. ShellInv /\ [Se!Next]_Se!vars => ShellInv'
    BY ShellStep
  <2> QED
    BY <2>1, ShellStart, PTL DEF Se!Spec
<1> QED
  BY <1>1, <1>2, RegistryRuns, PTL DEF Se!Spec, Readopted, Se!Readopted
=============================================================================

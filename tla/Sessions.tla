------------------------------ MODULE Sessions ------------------------------
(***************************************************************************)
(* Terminal sessions of one daemon: the registry and its attachments       *)
(* (bs-session-registry.h), the handlers that attach, detach and kill      *)
(* (bs-mesh-transfer.h, bs-mesh-conn.h), and the worker processes that own *)
(* the shells and outlive the daemon (bs-session-worker.h, bs-pty.h).      *)
(*                                                                         *)
(* A step is one handler of the daemon's event loop, or one step of a      *)
(* worker.  An iteration of the loop ends with pty_output_poller and       *)
(* reap_dead, in this order and with no handler in between.  Every session *)
(* is hosted in a worker; output, geometry and spectators are left out.    *)
(***************************************************************************)
EXTENDS Integers, FiniteSets

CONSTANTS
  Names,       \* session names
  Conns,       \* client connections, reused
  Key,         \* the public key behind each of them
  Slots,       \* worker processes: <<session name, number>>, reused
  AttachIds,   \* attach ids, reused once nobody holds them
  MaxFaults,   \* bound on failed spawns and dropped worker sockets
  SlowUnlink   \* a worker may be held up between its last two system calls for
               \* longer than it takes to start another

NoSlot == <<"none", 0>>

VARIABLES
  up,      \* the daemon runs
  polled,  \* this iteration has polled the sessions and not yet reaped them
  state,   \* Session::state, absent when the registry has no such session
  att,     \* Session::attachments: the ids
  fd,      \* the worker the session holds a socket to (master_fd)
  eof,     \* sessions whose worker has closed that socket, with its shell alive
  open,    \* connections that exist
  at,      \* Conn::attached_session
  aid,     \* Conn::attach_id
  view,    \* the session the client believes it is attached to
  running, \* the workers that run, each with its shell
  leaving, \* the workers that no longer listen and have yet to unlink their path
  sock,    \* the worker whose socket is at the session's path
  saved,   \* sessions.json
  faults

registry == <<state, att, fd, eof>>
clients == <<open, at, aid, view>>
workers == <<running, leaving, sock>>
vars == <<up, polled, registry, clients, workers, saved, faults>>

States == {"absent", "Attached", "Detached", "Died", "Recoverable"}

TypeOK ==
  /\ up \in BOOLEAN /\ polled \in BOOLEAN
  /\ state \in [Names -> States]
  /\ att \in [Names -> SUBSET AttachIds]
  /\ fd \in [Names -> Slots \cup {NoSlot}]
  /\ eof \in SUBSET Names
  /\ open \in SUBSET Conns
  /\ at \in [Conns -> Names \cup {"none"}]
  /\ aid \in [Conns -> AttachIds \cup {0}]
  /\ view \in [Conns -> Names \cup {"none"}]
  /\ running \in SUBSET Slots /\ leaving \in SUBSET Slots
  /\ sock \in [Names -> Slots \cup {NoSlot}]
  /\ saved \in SUBSET Names
  /\ faults \in 0..MaxFaults

Init ==
  /\ up = TRUE /\ polled = FALSE
  /\ state = [s \in Names |-> "absent"]
  /\ att = [s \in Names |-> {}]
  /\ fd = [s \in Names |-> NoSlot]
  /\ eof = {}
  /\ open = {}
  /\ at = [c \in Conns |-> "none"]
  /\ aid = [c \in Conns |-> 0]
  /\ view = [c \in Conns |-> "none"]
  /\ running = {} /\ leaving = {}
  /\ sock = [s \in Names |-> NoSlot]
  /\ saved = {}
  /\ faults = 0

Handling == up /\ ~polled           \* the part of an iteration that runs handlers
Fault == faults < MaxFaults /\ faults' = faults + 1

\* Running, the third live state, lasts only inside attach_connection.
Live == {"Attached", "Detached"}

\* What pump_hosted_session finds: DIED, or the socket closed.
Ended(s) == fd[s] # NoSlot /\ (s \in eof \/ fd[s] \notin running)
-----------------------------------------------------------------------------
(***************************************************************************)
(* Workers.                                                                *)
(***************************************************************************)
\* What is left when the daemon has ended workers W and waited for them.
Without(W) ==
  [running |-> running \ W,
   leaving |-> leaving \ W,
   sock |-> [s \in Names |-> IF sock[s] \in W THEN NoSlot ELSE sock[s]]]

Workers(k) == running' = k.running /\ leaving' = k.leaving /\ sock' = k.sock

\* Mutant: a worker is looked for only while the session holds a runtime.
AnswersUnheld(s, k) == k.sock[s] \in k.running /\ fd[s] # NoSlot

\* ping_worker
Answers(s, k) == k.sock[s] \in k.running

\* create_session_hosted, given the workers k: the worker that answers at the
\* path is attached again; else a new one takes the path over (it unlinks what is
\* there and binds).
Spawn(s, k) ==
  /\ \/ /\ Answers(s, k)
        /\ fd' = [fd EXCEPT ![s] = k.sock[s]]
        /\ Workers(k)
     \/ /\ ~Answers(s, k)
        /\ SlowUnlink \/ \A w \in k.leaving : w[1] # s
        /\ \E w \in Slots \ (k.running \cup k.leaving) :
             /\ w[1] = s /\ w # fd[s]
             /\ Workers([running |-> k.running \cup {w}, leaving |-> k.leaving,
                         sock |-> [k.sock EXCEPT ![s] = w]])
             /\ fd' = [fd EXCEPT ![s] = w]
  /\ eof' = eof \ {s}

\* The shell exits, or is signalled; the worker says DIED to whoever is
\* connected and closes its sockets.
ShellExits(w) ==
  /\ w \in running
  /\ running' = running \ {w}
  /\ leaving' = leaving \cup {w}
  /\ UNCHANGED <<up, polled, registry, clients, sock, saved, faults>>

\* Its last step unlinks the path, whosever socket is there.
Unlink(w) ==
  /\ w \in leaving
  /\ leaving' = leaving \ {w}
  /\ sock' = [sock EXCEPT ![w[1]] = NoSlot]
  /\ UNCHANGED <<up, polled, registry, clients, running, saved, faults>>

\* A daemon that does not read fast enough is dropped (kClientTxCap).
WorkerDrops(s) ==
  /\ fd[s] # NoSlot /\ ~Ended(s)
  /\ Fault
  /\ eof' = eof \cup {s}
  /\ UNCHANGED <<up, polled, state, att, fd, clients, workers, saved>>
-----------------------------------------------------------------------------
(***************************************************************************)
(* Detaching.                                                              *)
(***************************************************************************)
\* The registry's states and attachments, as the handlers pass them on.
now == [state |-> state, att |-> att]

\* detach_connection_session: nothing if another connection of the key is
\* attached; detach(attach_id) if the registry knows the id, else detach_all.
Left(c, replaced, r) ==
  IF at[c] = "none" \/ replaced
  THEN r
  ELSE LET s == at[c]
           rest == IF aid[c] \in r.att[s] THEN r.att[s] \ {aid[c]} ELSE {}
       IN [state |-> [r.state EXCEPT ![s] = IF rest = {} /\ @ = "Attached" THEN "Detached" ELSE @],
           att |-> [r.att EXCEPT ![s] = rest]]

\* has_replacement_transport
Replaced(c) == \E d \in open \ {c} : at[d] = at[c] /\ Key[d] = Key[c]

Unwired(c) ==
  /\ at' = [at EXCEPT ![c] = "none"]
  /\ aid' = [aid EXCEPT ![c] = 0]
  /\ view' = [view EXCEPT ![c] = "none"]

Connect(c) ==
  /\ Handling /\ c \notin open
  /\ open' = open \cup {c}
  /\ UNCHANGED <<up, polled, registry, at, aid, view, workers, saved, faults>>

\* DetachMsg
Detach(c) ==
  /\ Handling /\ c \in open /\ at[c] # "none"
  /\ LET r == Left(c, Replaced(c), now) IN state' = r.state /\ att' = r.att
  /\ Unwired(c)
  /\ UNCHANGED <<up, polled, fd, eof, open, workers, saved, faults>>

\* close_conn
Close(c) ==
  /\ Handling /\ c \in open
  /\ LET r == Left(c, Replaced(c), now) IN state' = r.state /\ att' = r.att
  /\ open' = open \ {c}
  /\ Unwired(c)
  /\ UNCHANGED <<up, polled, fd, eof, workers, saved, faults>>
-----------------------------------------------------------------------------
(***************************************************************************)
(* Attaching.  The handler first gives up what the connection was attached *)
(* to; r is what that leaves.                                              *)
(***************************************************************************)
\* A live session is joined, except that a command of the client's own takes
\* one over that nobody is attached to.
Joins(s, force, r) == r.state[s] \in Live /\ (~force \/ r.att[s] # {})

\* Ids nobody holds are as good as new ones.
FreshId ==
  LET free == AttachIds \ ((UNION {att[s] : s \in Names}) \cup {aid[c] : c \in Conns})
  IN {i \in free : \A j \in free : i <= j}

\* The connection is registered and AttachAck sent.
Registered(c, s, r, others) ==
  /\ \E i \in FreshId : /\ att' = [r.att EXCEPT ![s] = others \cup {i}]
                        /\ aid' = [aid EXCEPT ![c] = i]
  /\ state' = [r.state EXCEPT ![s] = "Attached"]
  /\ at' = [at EXCEPT ![c] = s]
  /\ view' = [view EXCEPT ![c] = s]

Join(c, s, force) ==
  LET r == Left(c, FALSE, now)
  IN /\ Handling /\ c \in open
     /\ Joins(s, force, r)
     /\ Registered(c, s, r, r.att[s])
     /\ UNCHANGED <<up, polled, fd, eof, open, workers, saved, faults>>

\* The runtime a command takes over is retired before the new one is spawned.
Retired(s, force, r) ==
  Without(IF force /\ r.state[s] \in Live THEN {fd[s]} ELSE {})

\* Create, resurrect or take over: old attachments go.
Start(c, s, force) ==
  LET r == Left(c, FALSE, now)
  IN /\ Handling /\ c \in open
     /\ ~Joins(s, force, r)
     /\ Spawn(s, Retired(s, force, r))
     /\ Registered(c, s, r, {})
     /\ UNCHANGED <<up, polled, open, saved, faults>>

\* Neither a worker nor the daemon itself can start a shell.  The client is told
\* (SessionDied 127).
StartFails(c, s, force) ==
  LET r == Left(c, FALSE, now)
      k == Retired(s, force, r)
  IN /\ Handling /\ c \in open
     /\ ~Joins(s, force, r)
     /\ Fault
     /\ state' = r.state
     /\ att' = [r.att EXCEPT ![s] = {}]
     /\ fd' = IF force /\ r.state[s] \in Live THEN [fd EXCEPT ![s] = NoSlot] ELSE fd
     /\ Workers(k)
     /\ Unwired(c)
     /\ UNCHANGED <<up, polled, eof, open, saved>>

\* reconnect_only: a client that lost its connection joins a live session or is
\* told that there is none; it never starts a shell.
Reattach(c, s) ==
  LET r == Left(c, FALSE, now)
  IN /\ Handling /\ c \in open
     /\ r.state[s] \notin Live
     /\ state' = r.state /\ att' = r.att
     /\ Unwired(c)
     /\ UNCHANGED <<up, polled, fd, eof, open, workers, saved, faults>>
-----------------------------------------------------------------------------
(***************************************************************************)
(* Ending.                                                                 *)
(***************************************************************************)
\* Mutant: only connections whose attachment the session still has.
ReleasedAttached(s) ==
  [c \in Conns |-> IF at[c] = s /\ aid[c] \in att[s] THEN "none" ELSE at[c]]

\* on_session_erased_: no connection keeps a pointer to the session.
Released(s) == [c \in Conns |-> IF at[c] = s THEN "none" ELSE at[c]]

\* The connections keep their ids, and are told nothing.
Erased(s) ==
  /\ state' = [state EXCEPT ![s] = "absent"]
  /\ att' = [att EXCEPT ![s] = {}]
  /\ fd' = [fd EXCEPT ![s] = NoSlot]
  /\ eof' = eof \ {s}
  /\ at' = Released(s)
  /\ Workers(Without({fd[s]}))
  /\ UNCHANGED <<up, polled, open, aid, view, saved, faults>>

\* `bs sessions <peer> --kill`, over a connection of its own
Kill(c, s) ==
  /\ Handling /\ c \in open /\ at[c] = "none"
  /\ state[s] # "absent"
  /\ Erased(s)

Idle(s) == state[s] = "Detached"

\* prune_idle: detached and silent for hours.
PruneIdle(s) ==
  /\ Handling /\ Idle(s)
  /\ Erased(s)

\* prune_finished_sessions, and for names like tty-* prune_ephemeral_sessions.
PruneFinished(s) ==
  /\ Handling /\ state[s] = "Died"
  /\ Erased(s)

\* SignalMsg Restart from an attached client: another shell, same session.
Restart(c) ==
  LET s == at[c]
  IN /\ Handling /\ c \in open /\ s # "none"
     /\ fd[s] # NoSlot
     /\ Spawn(s, Without({fd[s]}))
     /\ state' = [state EXCEPT ![s] = "Attached"]
     /\ UNCHANGED <<up, polled, att, clients, saved, faults>>

RestartFails(c) ==
  LET s == at[c]
  IN /\ Handling /\ c \in open /\ s # "none"
     /\ fd[s] # NoSlot
     /\ Fault
     /\ Workers(Without({fd[s]}))
     /\ fd' = [fd EXCEPT ![s] = NoSlot]
     /\ state' = [state EXCEPT ![s] = "Died"]
     /\ UNCHANGED <<up, polled, att, eof, clients, saved>>

\* Mutant: DIED ends a session, a closed socket does not.
OverByFrame == {s \in Names : fd[s] # NoSlot /\ fd[s] \notin running}

\* Sessions the poller finds ended: it polls every runtime, attached or not.
Over == {s \in Names : Ended(s)}

Finished(D) ==
  /\ state' = [s \in Names |-> IF s \in D THEN "Died" ELSE state[s]]
  /\ fd' = [s \in Names |-> IF s \in D THEN NoSlot ELSE fd[s]]
  /\ eof' = eof \ D
  /\ UNCHANGED <<up, att, open, at, aid, workers, saved, faults>>

\* pty_output_poller: SessionDied to every connection attached to the session.
Poll ==
  /\ Handling
  /\ polled' = TRUE
  /\ Finished(Over)
  /\ view' = [c \in Conns |-> IF at[c] \in Over THEN "none" ELSE view[c]]

\* Mutant: the reaper takes attached sessions as well.
ReapedAny == {s \in Names : state[s] \in Live /\ Ended(s)}

\* reap_dead(false): what ended since the poll, unless it is attached.
Reaped == {s \in Names : state[s] = "Detached" /\ Ended(s)}

Reap ==
  /\ up /\ polled
  /\ polled' = FALSE
  /\ Finished(Reaped)
  /\ UNCHANGED view
-----------------------------------------------------------------------------
(***************************************************************************)
(* The daemon stops and starts.                                            *)
(***************************************************************************)
Gone ==
  /\ up /\ up' = FALSE
  /\ polled' = FALSE
  /\ state' = [s \in Names |-> "absent"]
  /\ att' = [s \in Names |-> {}]
  /\ fd' = [s \in Names |-> NoSlot]
  /\ eof' = {}
  /\ open' = {}
  /\ at' = [c \in Conns |-> "none"]
  /\ aid' = [c \in Conns |-> 0]
  /\ view' = [c \in Conns |-> "none"]
  /\ UNCHANGED <<workers, faults>>

Crash == Gone /\ UNCHANGED saved

\* Only a graceful shutdown saves the list, at the end of an iteration.
Shutdown ==
  /\ ~polled
  /\ Gone
  /\ saved' = {s \in Names : state[s] # "absent"}

\* Mutant: only sessions on the saved list get their worker back.
AdoptedSaved == {s \in saved : Answers(s, Without({}))}

\* discover_workers: the sessions whose path has a worker that answers.
Adopted == {s \in Names : Answers(s, Without({}))}

\* load_persisted_sessions, adopt_workers
Boot ==
  /\ ~up /\ up' = TRUE
  /\ state' = [s \in Names |-> IF s \in Adopted THEN "Detached"
                               ELSE IF s \in saved THEN "Recoverable" ELSE "absent"]
  /\ fd' = [s \in Names |-> IF s \in Adopted THEN sock[s] ELSE NoSlot]
  /\ UNCHANGED <<polled, att, eof, clients, workers, saved, faults>>
-----------------------------------------------------------------------------
Client(c) ==
  \/ Connect(c) \/ Detach(c) \/ Close(c) \/ Restart(c) \/ RestartFails(c)
  \/ \E s \in Names : \/ Reattach(c, s) \/ Kill(c, s)
                      \/ \E force \in BOOLEAN : \/ Join(c, s, force)
                                                \/ Start(c, s, force)
                                                \/ StartFails(c, s, force)

Next ==
  \/ \E c \in Conns : Client(c)
  \/ \E s \in Names : PruneIdle(s) \/ PruneFinished(s) \/ WorkerDrops(s)
  \/ \E w \in Slots : ShellExits(w) \/ Unlink(w)
  \/ Poll \/ Reap \/ Crash \/ Shutdown \/ Boot

Spec == Init /\ [][Next]_vars

\* The loop of a running daemon goes round.
FairSpec == Spec /\ WF_vars(Poll) /\ WF_vars(Reap)
-----------------------------------------------------------------------------
(***************************************************************************)
(* Properties.                                                             *)
(***************************************************************************)
\* A session somebody is registered at is never taken for a detached one, which
\* idle pruning, forced commands and the silent reaper may have
\* (prune_idle, attach_connection and reap_dead all go by Session::state or by
\* the attachments, and rely on the two agreeing).
NeverDetachedWhileAttached ==
  \A s \in Names : state[s] \in Live /\ att[s] # {} => state[s] = "Attached"

\* Whatever daemons, workers and clients do, and whenever the daemon dies, a
\* living shell is the one behind its session's socket path: it can be found
\* again, and there is one per session (bs-session.h: "the worker and shell
\* survive and are re-adopted from the socket directory on the next boot").
NoShellLost ==
  \A w \in running : sock[w[1]] = w

\* Everybody registered at a session learns of its end in the very step that
\* records it, so that no later step can lose the news (run: "Reaping it here
\* first steals waitpid() and leaves the client waiting forever").
ToldOfDeath ==
  [][\A s \in Names, c \in Conns :
       (state[s] = "Attached" /\ state'[s] = "Died" /\ aid[c] \in att[s]) =>
         view'[c] = "none" \/ RestartFails(c)]_vars

\* A daemon that comes back holds every shell that still lives, whether or not
\* it had the time to save its list (adopt_workers).
Readopted ==
  [][(~up /\ up') => \A w \in running :
       fd'[w[1]] = w /\ state'[w[1]] = "Detached"]_vars

\* A runtime that ended, by DIED or by a closed socket, attached or not, is
\* noticed.
EndNoticed == \A s \in Names : Ended(s) ~> ~Ended(s)

\* A connection's pointer is to a session that exists, although a session can go
\* while a connection stays at it whose attachment it dropped long ago
\* (Conn::attached_session is a bare pointer; prune_idle, kill_session and the
\* other erasing paths each have to run the callback).
NoDangling ==
  \A c \in Conns : at[c] # "none" => state[at[c]] # "absent"
=============================================================================

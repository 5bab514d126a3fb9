------------------------------- MODULE Runs -------------------------------
(***************************************************************************)
(* bs run: commands that the daemon starts detached from any session,      *)
(* supervises and adopts by pid after a restart.  From bs-run.h and the    *)
(* run_services_* functions of bs-mesh-cli.h.  The clock is abstract: a    *)
(* backoff is over when Elapse says so; run-services.json is the variable  *)
(* disk.  A handler forks or kills first and saves the list after; the     *)
(* daemon may die between.  A process that exits is a zombie until its     *)
(* parent reaps it.                                                        *)
(***************************************************************************)
EXTENDS Integers, FiniteSets

CONSTANTS
  Services,    \* service names
  Pids,        \* process ids
  GiveUp,      \* kRunRestartGiveUp (10 in the code)
  MaxDeaths,   \* deaths of the daemon
  SavesFail,   \* whether run_services_save may fail
  Jumps,       \* whether the wall clock may jump over a backoff between a tick's two looks at it
  Strangers    \* whether the system may give a free pid to somebody else

NoPid == 0
Absent == [desired |-> "absent", pid |-> NoPid, count |-> 0, waits |-> FALSE]

VARIABLES
  up,       \* the daemon runs
  mem,      \* run_services_: desired, pid, restart_count, whether next_start_after lies ahead
  disk,     \* run-services.json
  proc,     \* what each pid is: free, runs, zombie, stranger
  owner,    \* the service a pid was started for
  child,    \* pids the living daemon forked itself
  saving,   \* a handler changed the list and has yet to save it
  fresh,    \* history: pids forked since a save last succeeded
  lost,     \* history: those of them that outlived the daemon that forked them
  deaths

processVars == <<proc, owner, child, fresh, lost>>
vars == <<up, mem, disk, processVars, saving, deaths>>

States == [desired : {"absent", "running", "stopped"}, pid : Pids \cup {NoPid},
           count : 0..GiveUp + 1, waits : BOOLEAN]

TypeOK ==
  /\ up \in BOOLEAN
  /\ mem \in [Services -> States] /\ disk \in [Services -> States]
  /\ proc \in [Pids -> {"free", "runs", "zombie", "stranger"}]
  /\ owner \in [Pids -> Services \cup {"none"}]
  /\ child \subseteq Pids /\ fresh \subseteq Pids /\ lost \subseteq Pids
  /\ saving \in BOOLEAN
  /\ deaths \in 0..MaxDeaths

Init ==
  /\ up = TRUE
  /\ mem = [s \in Services |-> Absent] /\ disk = mem
  /\ proc = [p \in Pids |-> "free"] /\ owner = [p \in Pids |-> "none"]
  /\ child = {} /\ fresh = {} /\ lost = {}
  /\ saving = FALSE /\ deaths = 0

-----------------------------------------------------------------------------
\* kill(pid, 0): a zombie, or whoever has the pid now, counts as alive.
Alive(p) == p # NoPid /\ proc[p] # "free"

\* run_service_spawn for each service of started; a spawn sets restart_count to 0.
Spawned(started, list) ==
  \E pid \in [started -> {p \in Pids : proc[p] = "free"}] :
    /\ \A s, t \in started : s # t => pid[s] # pid[t]
    /\ mem' = [s \in Services |->
                 IF s \in started THEN [list[s] EXCEPT !.pid = pid[s], !.count = 0, !.waits = FALSE]
                 ELSE list[s]]
    /\ proc' = [p \in Pids |-> IF \E s \in started : pid[s] = p THEN "runs" ELSE proc[p]]
    /\ owner' = [p \in Pids |->
                   IF \E s \in started : pid[s] = p THEN CHOOSE s \in started : pid[s] = p ELSE owner[p]]
    /\ child' = child \cup {pid[s] : s \in started}
    /\ fresh' = fresh \cup {pid[s] : s \in started}

\* A handler of the event loop: it runs while no other does, and ends with Saves.
Handles == up /\ ~saving /\ saving' = TRUE /\ UNCHANGED <<up, disk, deaths>>

\* BS_START: a name that is known, stopped or not, is refused.
Start(s) ==
  /\ Handles
  /\ mem[s] = Absent
  /\ Spawned({s}, [mem EXCEPT ![s] = [Absent EXCEPT !.desired = "running"]])
  /\ UNCHANGED lost

\* The process p is gone, for good.
Gone(p) == owner' = [owner EXCEPT ![p] = "none"] /\ fresh' = fresh \ {p} /\ lost' = lost \ {p}

\* BS_STOP: the process group of the recorded pid is killed, whoever has it.
Stop(s) ==
  LET p == mem[s].pid IN
  /\ Handles
  /\ mem[s] # Absent
  /\ mem' = [mem EXCEPT ![s] = [Absent EXCEPT !.desired = "stopped"]]
  /\ \/ Alive(p) /\ proc' = [proc EXCEPT ![p] = "free"] /\ Gone(p)
     \/ ~Alive(p) /\ UNCHANGED <<proc, owner, fresh, lost>>
  /\ child' = child \ {p}

\* Mutant: the list is only written when the daemon stops.
SavedLater == fresh' = {} /\ UNCHANGED disk

\* run_services_save, whose result nobody looks at.
Saved ==
  \/ disk' = mem /\ fresh' = {}
  \/ SavesFail /\ UNCHANGED <<disk, fresh>>

\* The end of a handler.
Saves ==
  /\ saving /\ saving' = FALSE
  /\ Saved
  /\ UNCHANGED <<up, mem, proc, owner, child, lost, deaths>>

-----------------------------------------------------------------------------
\* The gates at the top of run_services_tick.
Skipped(m) == m.desired # "running" \/ (m.pid = NoPid /\ m.waits) \/ Alive(m.pid)

\* run_supervise_after_exit for an exit without a status: a failure more, backoff or give up.
Decided(m) ==
  IF m.count + 1 > GiveUp
    THEN [m EXCEPT !.desired = "stopped", !.pid = NoPid, !.count = @ + 1]
    ELSE [m EXCEPT !.pid = NoPid, !.count = @ + 1, !.waits = TRUE]

\* First pass: whoever is not alive has failed, and a service whose backoff is over has failed
\* again.  Second pass, with a new look at the clock: whoever is due is started, if fork succeeds.
Tick ==
  LET first == [s \in Services |-> IF Skipped(mem[s]) THEN mem[s] ELSE Decided(mem[s])]
      due == {s \in Services : first[s].desired = "running" /\ first[s].pid = NoPid /\ (Jumps \/ ~first[s].waits)}
  IN
  /\ Handles
  /\ \E started \in SUBSET due : (first # mem \/ started # {}) /\ Spawned(started, first)
  /\ UNCHANGED lost

\* next_start_after passes.
Elapse(s) ==
  /\ mem[s].waits
  /\ mem' = [mem EXCEPT ![s].waits = FALSE]
  /\ UNCHANGED <<up, disk, processVars, saving, deaths>>

-----------------------------------------------------------------------------
\* A service exits: the daemon's own child stays as a zombie, init reaps the others.
Exits(p) ==
  /\ proc[p] = "runs"
  /\ proc' = [proc EXCEPT ![p] = IF p \in child THEN "zombie" ELSE "free"]
  /\ Gone(p)
  /\ UNCHANGED <<up, mem, disk, child, saving, deaths>>

\* Somebody else's process gets a pid that is free, or ends.
Stranger(p) ==
  /\ Strangers
  /\ \/ proc[p] = "free" /\ proc' = [proc EXCEPT ![p] = "stranger"]
     \/ proc[p] = "stranger" /\ proc' = [proc EXCEPT ![p] = "free"]
  /\ UNCHANGED <<up, mem, disk, owner, child, fresh, lost, saving, deaths>>

\* The daemon stops or dies, in a handler too: its children live on, init reaps its zombies.
Dies ==
  /\ up /\ deaths < MaxDeaths
  /\ up' = FALSE /\ saving' = FALSE /\ deaths' = deaths + 1
  /\ child' = {}
  /\ proc' = [p \in Pids |-> IF proc[p] = "zombie" THEN "free" ELSE proc[p]]
  /\ mem' = [s \in Services |-> Absent]
  /\ lost' = lost \cup fresh /\ fresh' = {}
  /\ UNCHANGED <<disk, owner>>

\* run_services_load: what is on disk, live pids with it.
Returns ==
  /\ ~up /\ up' = TRUE
  /\ mem' = disk
  /\ UNCHANGED <<disk, processVars, saving, deaths>>

Next ==
  \/ \E s \in Services : Start(s) \/ Stop(s) \/ Elapse(s)
  \/ \E p \in Pids : Exits(p) \/ Stranger(p)
  \/ Saves \/ Tick \/ Dies \/ Returns

Spec == Init /\ [][Next]_vars

\* The loop ticks every ten seconds, clocks run, the service manager restarts the daemon.
FairSpec ==
  Spec /\ WF_vars(Saves) /\ WF_vars(Tick) /\ WF_vars(Returns) /\ \A s \in Services : WF_vars(Elapse(s))

-----------------------------------------------------------------------------
Runs(s) == {p \in Pids : proc[p] = "runs" /\ owner[p] = s}

\* No process of a service is forgotten or doubled, across deaths of the daemon at any point: the
\* one that runs is the one on the daemon's list, so a stopped service has none (CHANGELOG
\* 26.09.10, bs run: supervision survives daemon restarts, --stop kills the process group).  The
\* one exception is a process forked by a daemon that died before a save of it succeeded.
NoneForgotten ==
  up => \A s \in Services : \A p \in Runs(s) \ lost : mem[s].desired = "running" /\ mem[s].pid = p

\* A service that is to run and does not is started again, unless an operator stops it or the supervisor
\* gives up: docs/cli.md says the daemon restarts the command with capped backoff if it fails.
Restarted ==
  \A s \in Services : (mem[s].desired = "running" /\ Runs(s) = {}) ~> (Runs(s) # {} \/ mem[s].desired # "running")
=============================================================================

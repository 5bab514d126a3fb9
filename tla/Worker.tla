-------------------------------- MODULE Worker --------------------------------
(***************************************************************************)
(* The process that hosts a session's shell, and the daemon that starts    *)
(* it, talks to it over a Unix socket, dies and finds it again.  From      *)
(* bs-session-worker.h (run_session_worker_posix, spawn_session_worker,    *)
(* ping_worker, discover_workers), bs-pty.h (create_session_hosted,        *)
(* pump_hosted_session) and the poller of bs-mesh-transfer.h.              *)
(*                                                                         *)
(* One session name, so one socket path.  The daemon's steps block its     *)
(* event loop and so follow each other; the worker's are the parts of an   *)
(* iteration of its poll loop.  What the shell prints is numbered.  Keys   *)
(* and window sizes, which take the same socket the other way, are left    *)
(* out, and so is the successor that binds the path before its predecessor *)
(* unlinks it (see Sessions).                                              *)
(***************************************************************************)
EXTENDS Integers, Sequences, FiniteSets, SequencesExt

CONSTANTS
  Conns,      \* connections to the path, reused
  MaxAsks,    \* requests for the session
  MaxChunks,  \* chunks a shell prints
  Snapshot,   \* chunks that 8192 lines of a 1 MiB ring hold
  TxCap,      \* kClientTxCap, in chunks
  SockMax,    \* frames the socket holds
  MaxCrashes, \* crashes of the daemon
  MaxFaults,  \* failed starts
  Patient     \* starting a worker and first connecting to it stay within the code's time limits

ASSUME WorkerAssumption ==
  /\ {SockMax, Snapshot} \subseteq Nat \ {0}
  /\ {MaxAsks, MaxChunks, TxCap, MaxCrashes, MaxFaults} \subseteq Nat
  /\ Patient \in BOOLEAN

VARIABLES
  worker,  \* where its process is, whether a controller ever connected, how much of the shell's output it has read,
           \* for which request it was started, and whether a SHUTDOWN is on its way
  shell,   \* its shell
  conns,   \* both ends of each connection
  daemon,  \* what create_session_hosted or the poller is doing
  got,     \* chunks in the order the daemon read them
  ring,    \* Session::scrollback of the daemon
  ran,     \* how often the command of the last request was started
  used

vars == <<worker, shell, conns, daemon, got, ring, ran, used>>

Chunks == 1..MaxChunks
Frames == [k : {"ready", "died", "pong"}] \cup [k : {"out"}, n : Chunks] \cup [k : {"scroll"}, from : 0..MaxChunks, n : Chunks]

\* dropped: its queue was full; short: it was full when the shell ended; killed: the worker was told to stop; cut: the
\* worker left before it had taken all.
Fates == {"kept", "dropped", "short", "killed", "cut"}
Free == [at |-> "free", held |-> FALSE, tx |-> <<>>, wire |-> <<>>, rx |-> {}, fate |-> "kept"]
Asleep == [at |-> "none", heard |-> FALSE, read |-> 0, for |-> 0, killed |-> FALSE]

TypeOK ==
  /\ worker \in [at : {"none", "starting", "serving", "linger", "leaving"}, heard : BOOLEAN, read : 0..MaxChunks,
                 for : 0..MaxAsks, killed : BOOLEAN]
  /\ shell \in [up : BOOLEAN, made : 0..MaxChunks]
  /\ \A c \in Conns :
       /\ conns[c].at \in {"free", "backlog", "open", "closed"} /\ conns[c].held \in BOOLEAN
       /\ conns[c].tx \in Seq(Frames) /\ conns[c].wire \in Seq(Frames)
       /\ conns[c].rx \subseteq {"ping", "shutdown"} /\ conns[c].fate \in Fates
  /\ daemon.at \in {"down", "idle", "pinging", "found", "absent", "spawning", "greeting", "adopting", "hosted", "direct", "dead"}
  /\ daemon.conn \in Conns \cup {0} /\ daemon.code \in {"none", "real", "unknown"} /\ daemon.fate \in Fates
  /\ got \in Seq(Chunks) /\ ring \in Seq(Chunks)
  /\ ran \in 0..2
  /\ used \in [asks : 0..MaxAsks, crashes : 0..MaxCrashes, faults : 0..MaxFaults]

Init ==
  /\ worker = Asleep
  /\ shell = [up |-> FALSE, made |-> 0]
  /\ conns = [c \in Conns |-> Free]
  /\ daemon = [at |-> "idle", conn |-> 0, code |-> "none", fate |-> "kept"]
  /\ got = <<>> /\ ring = <<>> /\ ran = 0
  /\ used = [asks |-> 0, crashes |-> 0, faults |-> 0]

record == <<got, ring, ran, used>>

-----------------------------------------------------------------------------
(* Connections.  One that both ends have closed can be used again. *)

Kept(k) == IF k.at = "closed" /\ ~k.held THEN Free ELSE k
HungUp(k) == Kept([k EXCEPT !.held = FALSE, !.wire = <<>>])
Dropped(k) == Kept([k EXCEPT !.at = "closed", !.tx = <<>>, !.rx = {}])
Ended(k) == k.at = "closed" /\ k.wire = <<>>

\* What became of a connection first.
Marked(k, fate) == [k EXCEPT !.fate = IF @ = "kept" THEN fate ELSE @]

Open == {c \in Conns : conns[c].at = "open"}
Listening == worker.at \in {"serving", "linger", "leaving"}

\* queue_to_client
Queued(k) == Cardinality({i \in DOMAIN k.tx : k.tx[i].k = "out"})
Fits(k, fs) == Queued(k) + Len(fs) <= TxCap
Outs(m, n) == [i \in 1..n - m |-> [k |-> "out", n |-> m + i]]

Died == <<[k |-> "died"]>>

\* flush_client
Flushed(k) ==
  LET n == IF SockMax - Len(k.wire) < Len(k.tx) THEN SockMax - Len(k.wire) ELSE Len(k.tx)
  IN IF k.held THEN [k EXCEPT !.wire = @ \o SubSeq(k.tx, 1, n), !.tx = SubSeq(@, n + 1, Len(@))] ELSE Dropped(k)

-----------------------------------------------------------------------------
(* The worker. *)

\* Bound and listening before the command is started.
Bind ==
  /\ worker.at = "starting"
  /\ worker' = [worker EXCEPT !.at = "serving"]
  /\ shell' = [up |-> TRUE, made |-> 0]
  /\ ran' = IF worker.for = used.asks THEN ran + 1 ELSE ran
  /\ UNCHANGED <<conns, daemon, got, ring, used>>

BindFails ==
  /\ worker.at = "starting" /\ used.faults < MaxFaults
  /\ used' = [used EXCEPT !.faults = @ + 1]
  /\ worker' = Asleep
  /\ UNCHANGED <<shell, conns, daemon, got, ring, ran>>

\* What a snapshot no longer holds of what the worker has read.
Gone == IF worker.read > Snapshot THEN worker.read - Snapshot ELSE 0

\* Mutant: who connects after the shell has exited is not told.
GreetingUntold ==
  <<[k |-> "ready"]>> \o (IF worker.read > 0 THEN <<[k |-> "scroll", from |-> Gone, n |-> worker.read]>> ELSE <<>>)

\* What a new connection is sent: READY, the last of what the worker has read, and DIED if it came to linger.
Greeting ==
  <<[k |-> "ready"]>>
  \o (IF worker.read > 0 THEN <<[k |-> "scroll", from |-> Gone, n |-> worker.read]>> ELSE <<>>)
  \o (IF worker.at = "linger" THEN Died ELSE <<>>)

Accept(c) ==
  /\ worker.at \in {"serving", "linger"} /\ conns[c].at = "backlog"
  /\ conns' = [conns EXCEPT ![c] = Flushed([@ EXCEPT !.at = "open", !.tx = Greeting])]
  /\ worker' = [worker EXCEPT !.heard = TRUE, !.at = IF @ = "linger" THEN "leaving" ELSE @]
  /\ UNCHANGED <<shell, daemon, record>>

\* Mutant: output that does not fit is skipped.
FedSkips(k, fs) == IF Fits(k, fs) THEN [k EXCEPT !.tx = @ \o fs] ELSE k

\* One that does not fit closes the connection: nothing is left out silently.
Fed(k, fs) == IF Fits(k, fs) THEN [k EXCEPT !.tx = @ \o fs] ELSE Dropped(Marked(k, "dropped"))

ReadPty ==
  /\ worker.at = "serving"
  /\ \E n \in worker.read + 1..shell.made :
       /\ worker' = [worker EXCEPT !.read = n]
       /\ conns' = [c \in Conns |-> IF c \in Open THEN Fed(conns[c], Outs(worker.read, n)) ELSE conns[c]]
  /\ UNCHANGED <<shell, daemon, got, ring, ran, used>>

Told(cs) == [c \in Conns |-> IF cs[c].at \in {"backlog", "open"} THEN Marked(cs[c], "killed") ELSE cs[c]]

\* worker_shutdown, on SHUTDOWN or SIGTERM.
Stops(cs) ==
  /\ worker' = [worker EXCEPT !.at = "leaving"]
  /\ shell' = [shell EXCEPT !.up = FALSE]
  /\ conns' = Told(cs)

\* A readable or writable connection.  What is queued is written first, and a connection that takes no more is closed
\* with what it has brought; else its frames are obeyed even if it is closed by now.
Serve(c) ==
  /\ worker.at = "serving" /\ c \in Open
  /\ LET k == conns[c]
         sent == Flushed(k)
         ponged == [sent EXCEPT !.rx = {}, !.tx = IF "ping" \in k.rx THEN Append(@, [k |-> "pong"]) ELSE @]
     IN \/ /\ k.tx # <<>> /\ sent # k /\ (~k.held \/ k.rx = {})
           /\ conns' = [conns EXCEPT ![c] = sent]
           /\ UNCHANGED <<worker, shell>>
        \/ /\ k.rx # {} \/ ~k.held
           /\ k.tx # <<>> => k.held
           /\ "shutdown" \notin k.rx
           /\ conns' = [conns EXCEPT ![c] = Flushed(ponged)]
           /\ UNCHANGED <<worker, shell>>
        \/ /\ "shutdown" \in k.rx
           /\ k.tx # <<>> => k.held
           /\ Stops(conns)
  /\ UNCHANGED <<daemon, record>>

\* Some of the frames fs, as many as there is room for; a later one may be shorter and fit where an earlier did not.
Pieces(fs, room) ==
  {[i \in 1..room |-> fs[g[i]]] :
     g \in {h \in [1..room -> DOMAIN fs] : \A i, j \in 1..room : i < j => h[i] < h[j]}}

\* What becomes of a connection whose queue takes but the frames qs of the last.
Short(k, qs) == {Flushed([k EXCEPT !.tx = @ \o q, !.fate = "short"]) : q \in qs}

\* The last of the output is queued piece by piece, then DIED, and nothing is done about a frame that does not fit: what
\* may have become of a connection then.
LastWords(k, from) ==
  LET fs == Outs(from, shell.made)
      room == TxCap - Queued(k)
      whole == {Flushed([k EXCEPT !.tx = @ \o fs \o Died])}
      pieces == Pieces(fs, room)
  IN IF Len(fs) < room THEN whole
     ELSE IF Len(fs) = room THEN whole \cup Short(k, pieces)
     ELSE Short(k, pieces \cup {p \o Died : p \in pieces})

\* Mutant: a worker nobody has connected to leaves with its shell.
StaysNever == "leaving"

\* It waits for a first controller for four seconds.
Stays == IF worker.heard THEN "leaving" ELSE "linger"

Waited ==
  /\ worker.at = "serving" /\ ~shell.up
  /\ worker' = [worker EXCEPT !.at = Stays, !.read = shell.made]
  /\ \E last \in [Open -> UNION {LastWords(conns[c], worker.read) : c \in Open}] :
       /\ \A c \in Open : last[c] \in LastWords(conns[c], worker.read)
       /\ conns' = [c \in Conns |-> IF c \in Open THEN last[c] ELSE conns[c]]
  /\ UNCHANGED <<shell, daemon, got, ring, ran, used>>

\* Nobody came: not while the daemon that started it is looking for it, every half second at least.
Lapse ==
  /\ worker.at = "linger"
  /\ Patient => daemon.at # "spawning" /\ \A c \in Conns : conns[c].at = "backlog" => ~conns[c].held
  /\ worker' = [worker EXCEPT !.at = "leaving"]
  /\ UNCHANGED <<shell, conns, daemon, record>>

FinalFlush(c) ==
  /\ worker.at = "leaving" /\ c \in Open /\ Flushed(conns[c]) # conns[c]
  /\ conns' = [conns EXCEPT ![c] = Flushed(@)]
  /\ UNCHANGED <<worker, shell, daemon, record>>

\* What is still queued after 200 and 500 ms is lost.
Cut(k) == Dropped(IF k.tx = <<>> THEN k ELSE Marked(k, "cut"))

Leave ==
  /\ worker.at = "leaving"
  /\ worker' = Asleep
  /\ conns' = [c \in Conns |-> IF conns[c].at \in {"backlog", "open"} THEN Cut(conns[c]) ELSE conns[c]]
  /\ UNCHANGED <<shell, daemon, record>>

-----------------------------------------------------------------------------
(* The daemon. *)

\* connect_to_worker; the kernel queues what the worker has yet to accept.
Dials(at, rx) ==
  \E c \in Conns :
    /\ conns[c] = Free
    /\ conns' = [conns EXCEPT ![c] = [Free EXCEPT !.at = "backlog", !.held = TRUE, !.rx = rx]]
    /\ daemon' = [at |-> at, conn |-> c, code |-> "none", fate |-> "kept"]

\* create_session, after create_session_hosted failed: the command runs in the daemon.
Falls(cs) ==
  /\ conns' = cs
  /\ daemon' = [daemon EXCEPT !.at = "direct", !.conn = 0]
  /\ ran' = ran + 1

Mine == conns[daemon.conn]

\* attach_connection of a session without a shell.
Ask ==
  /\ daemon.at \in {"idle", "dead"} /\ used.asks < MaxAsks
  /\ used' = [used EXCEPT !.asks = @ + 1]
  /\ ran' = 0 /\ got' = <<>>
  /\ \/ Listening /\ Dials("pinging", {"ping"})
     \/ /\ ~Listening
        /\ daemon' = [at |-> "absent", conn |-> 0, code |-> "none", fate |-> "kept"]
        /\ UNCHANGED conns
  /\ UNCHANGED <<worker, shell, ring>>

\* ping_worker reads past the greeting to the PONG; then a second connection is made.
Pinged ==
  /\ daemon.at = "pinging" /\ \E i \in DOMAIN Mine.wire : Mine.wire[i].k \in {"pong", "died"}
  /\ conns' = [conns EXCEPT ![daemon.conn] = HungUp(@)]
  /\ daemon' = [daemon EXCEPT !.conn = 0,
       !.at = IF \E i \in DOMAIN Mine.wire : Mine.wire[i].k = "died" THEN "absent" ELSE "found"]
  /\ UNCHANGED <<worker, shell, record>>

\* The ping skips frames to make room for others, or comes to the end.
PingReads ==
  /\ daemon.at = "pinging" /\ \A i \in DOMAIN Mine.wire : Mine.wire[i].k \notin {"pong", "died"}
  /\ \/ /\ Mine.wire # <<>>
        /\ conns' = [conns EXCEPT ![daemon.conn].wire = <<>>]
        /\ UNCHANGED daemon
     \/ /\ Ended(Mine)
        /\ conns' = [conns EXCEPT ![daemon.conn] = HungUp(@)]
        /\ daemon' = [daemon EXCEPT !.at = "absent", !.conn = 0]
  /\ UNCHANGED <<worker, shell, record>>

Reattach ==
  /\ daemon.at = "found"
  /\ \/ Listening /\ Dials("greeting", {}) /\ UNCHANGED ran
     \/ ~Listening /\ Falls(conns)
  /\ UNCHANGED <<worker, shell, got, ring, used>>

\* A worker that an earlier daemon started has bound its socket by now, and one that leaves has left.
Spawn ==
  /\ daemon.at = "absent" /\ worker.at = "none"
  /\ worker' = [Asleep EXCEPT !.at = "starting", !.for = used.asks]
  /\ shell' = [up |-> FALSE, made |-> 0]
  /\ daemon' = [daemon EXCEPT !.at = "spawning"]
  /\ UNCHANGED <<conns, record>>

Connect ==
  /\ daemon.at = "spawning" /\ Listening
  /\ Dials("greeting", {})
  /\ UNCHANGED <<worker, shell, record>>

\* The worker has exited, or has yet to bind after twelve seconds: it is stopped, or its unit is, once that exists.
SpawnFails ==
  /\ daemon.at = "spawning"
  /\ worker.at = "none" \/ (~Patient /\ worker.at = "starting")
  /\ Falls(conns)
  /\ UNCHANGED <<worker, shell, got, ring, used>>

\* READY is read on its own; the poller has the rest.
Hosts ==
  /\ Mine.wire # <<>>
  /\ daemon' = [daemon EXCEPT !.at = "hosted", !.code = "none"]
  /\ conns' = [conns EXCEPT ![daemon.conn].wire = Tail(@)]
  /\ got' = <<>>
  /\ UNCHANGED <<worker, shell, ring, ran, used>>

Greet == daemon.at = "greeting" /\ Hosts

Adopt == daemon.at = "adopting" /\ Hosts

GreetFails ==
  /\ daemon.at \in {"greeting", "adopting"} /\ Ended(Mine)
  /\ LET cs == [conns EXCEPT ![daemon.conn] = HungUp(@)] IN
     \/ daemon.at = "greeting" /\ Falls(cs)
     \/ /\ daemon.at = "adopting"
        /\ conns' = cs
        /\ daemon' = [daemon EXCEPT !.at = "idle", !.conn = 0]
        /\ UNCHANGED ran
  /\ UNCHANGED <<worker, shell, got, ring, used>>

Of(f) == IF f.k = "out" THEN <<f.n>> ELSE IF f.k = "scroll" THEN [i \in 1..f.n - f.from |-> f.from + i] ELSE <<>>
Read(wire, ks) == FlattenSeq([i \in DOMAIN wire |-> IF wire[i].k \in ks THEN Of(wire[i]) ELSE <<>>])

\* Mutant: only DIED ends a session.
OverTold(told) == told

\* EOF ends it too.
Over(told) == told \/ Mine.at = "closed"

\* pump_hosted_session and the poller: the snapshot goes into the ring, and again after the output that followed it.
Poll ==
  /\ daemon.at = "hosted" /\ (Mine.wire # <<>> \/ Mine.at = "closed")
  /\ LET scroll == Read(Mine.wire, {"scroll"})
         out == Read(Mine.wire, {"out"})
         told == \E i \in DOMAIN Mine.wire : Mine.wire[i].k = "died"
     IN /\ got' = got \o Read(Mine.wire, {"scroll", "out"})
        /\ ring' = ring \o scroll \o out \o scroll
        /\ IF Over(told)
           THEN /\ daemon' = [at |-> "dead", conn |-> 0, fate |-> Mine.fate,
                             code |-> IF told THEN "real" ELSE "unknown"]
                /\ conns' = [conns EXCEPT ![daemon.conn] = HungUp(@)]
           ELSE /\ conns' = [conns EXCEPT ![daemon.conn].wire = <<>>]
                /\ UNCHANGED daemon
  /\ UNCHANGED <<worker, shell, ran, used>>

\* SessionRegistry::kill: SHUTDOWN, SIGTERM to the worker if its pid is known, and the socket closed.
Kill ==
  /\ daemon.at = "hosted"
  /\ LET heard == IF Mine.at = "closed" THEN {} ELSE {"shutdown"}
         cs == [conns EXCEPT ![daemon.conn] = HungUp([Mine EXCEPT !.rx = @ \cup heard])]
     IN \/ /\ conns' = cs
           /\ worker' = [worker EXCEPT !.killed = heard # {}]
           /\ UNCHANGED shell
        \/ worker.at \in {"serving", "linger"} /\ Stops(cs)
  /\ daemon' = [at |-> "idle", conn |-> 0, code |-> "none", fate |-> "kept"]
  /\ ring' = <<>> /\ got' = <<>>
  /\ UNCHANGED <<ran, used>>

DirectEnds ==
  /\ daemon.at = "direct"
  /\ daemon' = [daemon EXCEPT !.at = "dead", !.code = "real"]
  /\ UNCHANGED <<worker, shell, conns, record>>

Crash ==
  /\ daemon.at # "down" /\ used.crashes < MaxCrashes
  /\ used' = [used EXCEPT !.crashes = @ + 1]
  /\ conns' = [c \in Conns |-> HungUp(conns[c])]
  /\ daemon' = [at |-> "down", conn |-> 0, code |-> "none", fate |-> "kept"]
  /\ ring' = <<>> /\ got' = <<>>
  /\ UNCHANGED <<worker, shell, ran>>

\* discover_workers and adopt_workers.
Boot ==
  /\ daemon.at = "down"
  /\ \/ Listening /\ Dials("adopting", {})
     \/ ~Listening /\ daemon' = [daemon EXCEPT !.at = "idle"] /\ UNCHANGED conns
  /\ UNCHANGED <<worker, shell, record>>

-----------------------------------------------------------------------------
Prints ==
  /\ shell.up /\ shell.made < MaxChunks
  /\ shell' = [shell EXCEPT !.made = @ + 1]
  /\ UNCHANGED <<worker, conns, daemon, record>>

Exits ==
  /\ shell.up
  /\ shell' = [shell EXCEPT !.up = FALSE]
  /\ UNCHANGED <<worker, conns, daemon, record>>

WorkerStep ==
  \/ Bind \/ ReadPty \/ Waited \/ Lapse \/ Leave
  \/ \E c \in Conns : Accept(c) \/ Serve(c) \/ FinalFlush(c)

DaemonStep ==
  \/ Pinged \/ PingReads \/ Reattach \/ Spawn \/ Connect \/ SpawnFails
  \/ Greet \/ Adopt \/ GreetFails \/ Poll \/ Boot

Next == WorkerStep \/ BindFails \/ DaemonStep \/ Ask \/ Kill \/ DirectEnds \/ Crash \/ Prints \/ Exits

Spec == Init /\ [][Next]_vars

\* Both loops go on; shells, users and crashes owe nothing.
FairSpec == Spec /\ WF_vars(WorkerStep) /\ WF_vars(DaemonStep)

-----------------------------------------------------------------------------
(* What the code promises. *)

\* A command is started once at most per request, however soon it ends: a worker whose command is over before the
\* daemon connects waits for it, so that the fallback does not run the command again.
RunsOnce == ran <= 1

\* A session whose end comes without its exit code is one whose connection could not keep up with its shell or with
\* the end of it, or whose worker was told to stop: no other order of its end, the connection and the greeting loses it.
CodeIsReal == daemon.code = "unknown" => daemon.fate # "kept"

\* What became of the connection that got was read from.
Fate == IF daemon.at = "hosted" THEN Mine.fate ELSE daemon.fate

\* What a connection brings is what the shell printed, without a hole, a repetition or a change of order, whether it was
\* printed before or after the connection was made; from the first chunk, or the first a snapshot could still hold;
\* and up to the last once the end is told.  Unless the queue was full when the shell ended: then a piece of the last
\* output may be missing between two others.
WholeOutput ==
  got # <<>> /\ Fate # "short" =>
    /\ \A i \in DOMAIN got : got[i] = got[1] + i - 1
    /\ got[1] # 1 => got[1] + Snapshot <= shell.made + 1
    /\ daemon.at = "dead" /\ daemon.code = "real" => got[Len(got)] = shell.made

\* The end of a shell does not stay unnoticed by a daemon that is connected to its worker.
EndLearned == (daemon.at = "hosted" /\ ~shell.up) ~> (daemon.at # "hosted" \/ shell.up)
=============================================================================

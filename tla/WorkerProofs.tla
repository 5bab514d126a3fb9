---------------------------- MODULE WorkerProofs ----------------------------
(***************************************************************************)
(* Proofs about Worker, for any connections, requests, queues, sockets and *)
(* faults.  Two inductive invariants.  WorkInv: which connection the daemon*)
(* and the worker have in common, what the daemon will learn of its end,   *)
(* and, as long as the time limits of the code suffice to start a worker   *)
(* and connect to it (Patient), whether the command of the request has     *)
(* been started.  PipeInv: what the connection the daemon reads has still  *)
(* to bring, which follows what it has read and goes up to what the worker *)
(* has read of its shell, or to all of it once the end is told.  The       *)
(* frames are counted by induction on the length of a queue.               *)
(***************************************************************************)
EXTENDS Worker, SequenceTheorems, FiniteSetTheorems, TLAPS

-----------------------------------------------------------------------------
(* Types. *)

Marks == [k : {"ready", "died", "pong"}] \cup [k : {"out"}, n : Nat] \cup [k : {"scroll"}, from : Nat, n : Nat]
Connections == [at : {"free", "backlog", "open", "closed"}, held : BOOLEAN, tx : Seq(Marks), wire : Seq(Marks),
                rx : SUBSET {"ping", "shutdown"}, fate : Fates]

\* TypeOK without the bounds on what a shell prints.
Shape ==
  /\ worker \in [at : {"none", "starting", "serving", "linger", "leaving"}, heard : BOOLEAN, read : Nat,
                 for : Nat, killed : BOOLEAN]
  /\ shell \in [up : BOOLEAN, made : Nat]
  /\ conns \in [Conns -> Connections]
  /\ daemon \in [at : {"down", "idle", "pinging", "found", "absent", "spawning", "greeting", "adopting", "hosted", "direct", "dead"},
                 conn : Conns \cup {0}, code : {"none", "real", "unknown"}, fate : Fates]
  /\ ran \in Nat
  /\ used \in [asks : Nat, crashes : Nat, faults : Nat]

\* What holds of each connection, of the one the daemon has, and of the worker that answers them.
Calls == {"pinging", "greeting", "adopting", "hosted"}
Sound(k) ==
  /\ Len(k.wire) <= SockMax
  /\ k.at = "backlog" => k.tx = <<>> /\ k.wire = <<>>
  /\ k.at = "closed" => k.tx = <<>>
Wired ==
  /\ \A c \in Conns : Sound(conns[c])
  /\ daemon.at \in Calls => daemon.conn \in Conns /\ conns[daemon.conn].held /\ conns[daemon.conn].at # "free"
  /\ worker.at \in {"none", "starting"} => ~worker.heard /\ \A c \in Conns : conns[c].at \in {"free", "closed"}
  /\ \A c \in Conns : conns[c].at = "open" => worker.heard
  /\ worker.at = "linger" => ~worker.heard

-----------------------------------------------------------------------------
(* How often a command is started. *)

\* The worker that was started for the request waits for its first connection.
Waits == worker.at \in {"serving", "linger"} /\ ~worker.heard
Met ==
  \/ Mine.wire # <<>>
  \/ Mine.at = "backlog" /\ Waits /\ \A c \in Conns \ {daemon.conn} : conns[c].at # "backlog"

Once ==
  /\ ran <= 1 /\ worker.for <= used.asks
  /\ worker.at = "none" => worker.for = 0
  /\ worker.at = "starting" /\ worker.for = used.asks => ran = 0
  /\ daemon.at \in {"pinging", "found", "absent"} => ran = 0 /\ worker.for < used.asks
  /\ daemon.at = "spawning" =>
       /\ worker.for < used.asks => worker.at = "none" /\ ran = 0
       /\ worker.for = used.asks => worker.at = "starting" \/ (Waits /\ \A c \in Conns : conns[c].at # "backlog")
       /\ used.asks > 0
  /\ daemon.at = "greeting" => (ran = 0 /\ worker.for < used.asks) \/ Met

-----------------------------------------------------------------------------
(* What the daemon learns of the end. *)

Ends(q) == \E i \in 1..Len(q) : q[i].k = "died"
SaysEnd(k) == k.fate # "kept" \/ Ends(k.wire) \/ Ends(k.tx)

Learns ==
  /\ daemon.code = "unknown" => daemon.fate # "kept"
  /\ daemon.at \in {"greeting", "adopting"} =>
       /\ Mine.wire # <<>> => Mine.wire[1].k = "ready"
       /\ Mine.at = "open" => Mine.wire # <<>>
       /\ Mine.at = "closed" /\ Mine.wire # <<>> => SaysEnd(Mine)
  /\ daemon.at = "hosted" => Mine.at # "backlog" /\ (Mine.at = "closed" => SaysEnd(Mine))
  /\ daemon.at \in {"greeting", "adopting", "hosted"} /\ worker.at = "leaving" /\ Mine.at = "open" => SaysEnd(Mine)

WorkInv == Shape /\ Wired /\ Learns /\ (Patient => Once)

-----------------------------------------------------------------------------
(* Frames and connections. *)

LEMMA KeptIs ==
  ASSUME NEW k \in Connections
  PROVE  /\ Kept(k) \in Connections
         /\ Kept(k) = k \/ (k.at = "closed" /\ ~k.held /\ Kept(k).at = "free" /\ Kept(k).tx = <<>> /\ Kept(k).wire = <<>>)
<1>1. Free \in Connections /\ Free.at = "free" /\ Free.tx = <<>> /\ Free.wire = <<>>
  <2>1. <<>> \in Seq(Marks) /\ {} \in SUBSET {"ping", "shutdown"}
    OBVIOUS
  <2> QED BY <2>1 DEF Free, Connections, Fates
<1> QED BY <1>1 DEF Kept

\* A connection that the worker closes keeps what is on its way.
LEMMA DroppedIs ==
  ASSUME NEW k \in Connections, Sound(k)
  PROVE  LET q == Dropped(k) IN
         /\ q \in Connections /\ Sound(q) /\ q.at \in {"free", "closed"}
         /\ k.held => q.held /\ q.at = "closed" /\ q.wire = k.wire /\ q.fate = k.fate
<1> DEFINE x == [k EXCEPT !.at = "closed", !.tx = <<>>, !.rx = {}]
<1>0. <<>> \in Seq(Marks) /\ {} \in SUBSET {"ping", "shutdown"}
  OBVIOUS
<1>1. /\ x \in Connections /\ x.at = "closed" /\ x.tx = <<>> /\ x.wire = k.wire /\ x.held = k.held /\ x.fate = k.fate
  BY <1>0 DEF Connections
<1>2. Dropped(k) = Kept(x)
  BY DEF Dropped
<1>3. Len(<<>>) <= SockMax
  BY WorkerAssumption
<1> HIDE DEF x
<1>4. Kept(x) \in Connections /\ (Kept(x) = x \/ (x.at = "closed" /\ ~x.held /\ Kept(x).at = "free" /\ Kept(x).tx = <<>> /\ Kept(x).wire = <<>>))
  BY <1>1, KeptIs
<1> QED BY <1>1, <1>2, <1>3, <1>4 DEF Sound

\* What became of a connection first stays.
LEMMA MarkedIs ==
  ASSUME NEW k \in Connections, NEW f \in Fates
  PROVE  LET q == Marked(k, f) IN
         /\ q \in Connections /\ q.at = k.at /\ q.held = k.held /\ q.wire = k.wire /\ q.tx = k.tx /\ q.rx = k.rx
         /\ q.fate = IF k.fate = "kept" THEN f ELSE k.fate
<1>1. Marked(k, f) = [k EXCEPT !.fate = IF k.fate = "kept" THEN f ELSE k.fate]
  BY DEF Marked
<1>2. (IF k.fate = "kept" THEN f ELSE k.fate) \in Fates
  BY DEF Connections
<1> QED BY <1>1, <1>2 DEF Connections

\* A connection that the daemon closes brings nothing more.
LEMMA HungUpIs ==
  ASSUME NEW k \in Connections, Sound(k)
  PROVE  LET q == HungUp(k) IN
         /\ q \in Connections /\ Sound(q)
         /\ q.at = k.at \/ q.at = "free"
<1> DEFINE x == [k EXCEPT !.held = FALSE, !.wire = <<>>]
<1>0. <<>> \in Seq(Marks)
  OBVIOUS
<1>1. x \in Connections /\ x.at = k.at /\ x.tx = k.tx /\ x.wire = <<>>
  BY <1>0 DEF Connections
<1>2. HungUp(k) = Kept(x)
  BY DEF HungUp
<1>3. Len(<<>>) <= SockMax
  BY WorkerAssumption
<1> HIDE DEF x
<1>4. Kept(x) \in Connections /\ (Kept(x) = x \/ (x.at = "closed" /\ ~x.held /\ Kept(x).at = "free" /\ Kept(x).tx = <<>> /\ Kept(x).wire = <<>>))
  BY <1>1, KeptIs
<1> QED BY <1>1, <1>2, <1>3, <1>4 DEF Sound

LEMMA EndsIn ==
  ASSUME NEW p \in Seq(Marks), NEW q \in Seq(Marks)
  PROVE  /\ p \o q \in Seq(Marks)
         /\ Ends(p) \/ Ends(q) => Ends(p \o q)
         /\ p # <<>> => p \o q # <<>> /\ (p \o q)[1] = p[1]
         /\ p = <<>> /\ q # <<>> => p \o q # <<>> /\ (p \o q)[1] = q[1]
<1>1. /\ p \o q \in Seq(Marks) /\ Len(p \o q) = Len(p) + Len(q) /\ Len(p) \in Nat /\ Len(q) \in Nat
      /\ \A i \in 1..Len(p) + Len(q) : (p \o q)[i] = IF i <= Len(p) THEN p[i] ELSE q[i - Len(p)]
  BY ConcatProperties
<1>2. Ends(p) => Ends(p \o q)
  BY <1>1 DEF Ends
<1>3. ASSUME Ends(q) PROVE Ends(p \o q)
  <2>1. PICK i \in 1..Len(q) : q[i].k = "died"
    BY <1>3 DEF Ends
  <2>2. Len(p) + i \in 1..Len(p \o q) /\ (p \o q)[Len(p) + i] = q[i]
    BY <1>1
  <2> QED BY <2>1, <2>2 DEF Ends
<1>4. p # <<>> => Len(p) > 0
  BY EmptySeq
<1>5. q # <<>> => Len(q) > 0
  BY EmptySeq
<1>6. p = <<>> => Len(p) = 0
  OBVIOUS
<1>7. p # <<>> => p \o q # <<>> /\ (p \o q)[1] = p[1]
  BY <1>1, <1>4
<1>8. p = <<>> /\ q # <<>> => p \o q # <<>> /\ (p \o q)[1] = q[1]
  BY <1>1, <1>5, <1>6
<1> QED BY <1>1, <1>2, <1>3, <1>7, <1>8

\* The first n of a queue, and the rest.
LEMMA Halves ==
  ASSUME NEW q \in Seq(Marks), NEW n \in 0..Len(q)
  PROVE  /\ SubSeq(q, 1, n) \in Seq(Marks) /\ SubSeq(q, n + 1, Len(q)) \in Seq(Marks)
         /\ Len(SubSeq(q, 1, n)) = n
         /\ n > 0 => SubSeq(q, 1, n) # <<>> /\ SubSeq(q, 1, n)[1] = q[1]
         /\ Ends(q) => Ends(SubSeq(q, 1, n)) \/ Ends(SubSeq(q, n + 1, Len(q)))
<1>0. Len(q) \in Nat /\ n \in Nat /\ \A i \in 1..Len(q) : q[i] \in Marks
  OBVIOUS
<1>1. /\ SubSeq(q, 1, n) \in Seq(Marks) /\ Len(SubSeq(q, 1, n)) = n
      /\ \A i \in 1..n : SubSeq(q, 1, n)[i] = q[i]
  <2>1. \A i \in 1..n : q[i] \in Marks
    BY <1>0
  <2> QED BY <1>0, <2>1, SubSeqProperties
<1>2. /\ SubSeq(q, n + 1, Len(q)) \in Seq(Marks) /\ Len(SubSeq(q, n + 1, Len(q))) = Len(q) - n
      /\ \A i \in 1..Len(q) - n : SubSeq(q, n + 1, Len(q))[i] = q[n + i]
  <2>1. \A i \in n + 1..Len(q) : q[i] \in Marks
    BY <1>0
  <2> QED BY <1>0, <2>1, SubSeqProperties
<1>3. n > 0 => SubSeq(q, 1, n) # <<>> /\ SubSeq(q, 1, n)[1] = q[1]
  BY <1>0, <1>1
<1>4. ASSUME Ends(q) PROVE Ends(SubSeq(q, 1, n)) \/ Ends(SubSeq(q, n + 1, Len(q)))
  <2>1. PICK i \in 1..Len(q) : q[i].k = "died"
    BY <1>4 DEF Ends
  <2>2. CASE i <= n
    BY <1>0, <1>1, <2>1, <2>2 DEF Ends
  <2>3. CASE ~(i <= n)
    <3>1. i - n \in 1..Len(q) - n /\ SubSeq(q, n + 1, Len(q))[i - n] = q[i]
      BY <1>0, <1>2, <2>3
    <3> QED BY <1>2, <2>1, <3>1 DEF Ends
  <2> QED BY <2>2, <2>3
<1> QED BY <1>1, <1>2, <1>3, <1>4

LEMMA Least ==
  ASSUME NEW room \in Nat, NEW taken \in 0..room, NEW size \in Nat
  PROVE  LET n == IF room - taken < size THEN room - taken ELSE size
         IN n \in 0..size /\ n <= room - taken /\ (taken = 0 /\ room > 0 /\ size > 0 => n > 0)
  OBVIOUS

\* What is written goes from the queue to the wire: the first frame stays the first, and the end is not lost.
LEMMA FlushedIs ==
  ASSUME NEW k \in Connections, Sound(k) \/ (k.at = "open" /\ Len(k.wire) <= SockMax)
  PROVE  LET q == Flushed(k) IN
         /\ q \in Connections
         /\ k.at = "open" => Sound(q)
         /\ ~k.held => q.at \in {"free", "closed"}
         /\ k.held =>
              /\ q.held /\ q.at = k.at /\ q.fate = k.fate
              /\ SaysEnd(k) => SaysEnd(q)
              /\ k.wire # <<>> => q.wire # <<>> /\ q.wire[1] = k.wire[1]
              /\ k.wire = <<>> /\ k.tx # <<>> => q.wire # <<>> /\ q.wire[1] = k.tx[1]
<1> DEFINE n == IF SockMax - Len(k.wire) < Len(k.tx) THEN SockMax - Len(k.wire) ELSE Len(k.tx)
           a == SubSeq(k.tx, 1, n)
           b == SubSeq(k.tx, n + 1, Len(k.tx))
           w == k.wire \o a
<1>0. k.tx \in Seq(Marks) /\ k.wire \in Seq(Marks) /\ Len(k.wire) <= SockMax /\ Len(k.wire) \in Nat /\ Len(k.tx) \in Nat
      /\ SockMax \in Nat /\ SockMax > 0
  BY WorkerAssumption DEF Connections, Sound
<1>1. CASE ~k.held
  <2>1. Flushed(k) = Dropped(k)
    BY <1>1 DEF Flushed
  <2>2. Dropped(k) = Kept([k EXCEPT !.at = "closed", !.tx = <<>>, !.rx = {}])
    BY DEF Dropped
  <2> DEFINE x == [k EXCEPT !.at = "closed", !.tx = <<>>, !.rx = {}]
  <2>a. <<>> \in Seq(Marks) /\ {} \in SUBSET {"ping", "shutdown"}
    OBVIOUS
  <2>b. x \in Connections /\ x.at = "closed" /\ x.held = k.held /\ x.wire = k.wire /\ x.tx = <<>>
    BY <2>a DEF Connections
  <2>3. x \in Connections /\ x.at = "closed" /\ ~x.held /\ Len(x.wire) <= SockMax /\ x.tx = <<>>
    BY <1>0, <1>1, <2>b
  <2> HIDE DEF x
  <2>4. Dropped(k) = Kept(x)
    BY <2>2 DEF x
  <2>5. Kept(x) \in Connections /\ (Kept(x) = x \/ (x.at = "closed" /\ ~x.held /\ Kept(x).at = "free" /\ Kept(x).tx = <<>> /\ Kept(x).wire = <<>>))
    BY <2>3, KeptIs
  <2>6. Len(<<>>) <= SockMax
    BY <1>0
  <2> QED BY <1>1, <2>1, <2>3, <2>4, <2>5, <2>6 DEF Sound
<1>2. CASE k.held
  <2>0. Len(k.wire) \in 0..SockMax
    BY <1>0
  <2>1. n \in 0..Len(k.tx) /\ n <= SockMax - Len(k.wire)
    BY ONLY <2>0, <1>0, Least
  <2>2. k.wire = <<>> /\ k.tx # <<>> => n > 0
    <3>1. k.tx # <<>> => Len(k.tx) > 0
      BY <1>0, EmptySeq
    <3>2. k.wire = <<>> => Len(k.wire) = 0
      OBVIOUS
    <3> QED BY <1>0, <3>1, <3>2
  <2>3. Flushed(k) = [k EXCEPT !.wire = w, !.tx = b]
    BY <1>2 DEF Flushed
  <2> HIDE DEF n
  <2>4. /\ a \in Seq(Marks) /\ b \in Seq(Marks) /\ Len(a) = n
        /\ n > 0 => a # <<>> /\ a[1] = k.tx[1]
        /\ Ends(k.tx) => Ends(a) \/ Ends(b)
    BY <1>0, <2>1, Halves
  <2> HIDE DEF a, b
  <2>5. /\ w \in Seq(Marks)
        /\ Ends(k.wire) \/ Ends(a) => Ends(w)
        /\ k.wire # <<>> => w # <<>> /\ w[1] = k.wire[1]
        /\ k.wire = <<>> /\ a # <<>> => w # <<>> /\ w[1] = a[1]
    BY <1>0, <2>4, EndsIn
  <2>6. Len(w) = Len(k.wire) + Len(a)
    BY <1>0, <2>4, ConcatProperties
  <2>7. Len(w) <= SockMax
    BY <1>0, <2>1, <2>4, <2>6
  <2> HIDE DEF w
  <2>8. [k EXCEPT !.wire = w, !.tx = b] \in Connections
    BY <2>4, <2>5 DEF Connections
  <2>9. /\ Flushed(k).wire = w /\ Flushed(k).tx = b /\ Flushed(k).at = k.at /\ Flushed(k).held = k.held /\ Flushed(k).fate = k.fate
    BY <2>3 DEF Connections
  <2>10. SaysEnd(k) => SaysEnd(Flushed(k))
    BY <2>4, <2>5, <2>9 DEF SaysEnd
  <2>11. k.at = "open" => Sound(Flushed(k))
    BY <2>7, <2>9 DEF Sound
  <2> QED BY <1>2, <2>2, <2>3, <2>4, <2>5, <2>8, <2>9, <2>10, <2>11
<1> QED BY <1>1, <1>2

LEMMA OutsIs ==
  ASSUME NEW m \in Nat, NEW n \in Nat
  PROVE  Outs(m, n) \in Seq(Marks)
<1>1. PICK l \in Nat : 1..n - m = 1..l
  <2>1. CASE n - m \in Nat
    BY <2>1
  <2>2. CASE n - m \notin Nat
    <3>1. n - m \in Int /\ n - m < 1
      BY <2>2
    <3>2. \A x : x \notin 1..n - m
      BY <3>1
    <3>3. \A x : x \notin 1..0
      OBVIOUS
    <3>4. 1..n - m = 1..0
      BY <3>2, <3>3
    <3> QED BY <3>4
  <2> QED BY <2>1, <2>2
<1>2. \A i \in 1..l : [k |-> "out", n |-> m + i] \in Marks
  BY DEF Marks
<1>3. Outs(m, n) = [i \in 1..l |-> [k |-> "out", n |-> m + i]]
  BY <1>1 DEF Outs
<1>4. Outs(m, n) \in [1..l -> Marks]
  BY <1>2, <1>3
<1>5. \A s : s \in [1..l -> Marks] => s \in Seq(Marks)
  BY SeqDef
<1> QED BY <1>4, <1>5

LEMMA DiedIs ==
  /\ [k |-> "died"] \in Marks /\ <<[k |-> "died"]>> \in Seq(Marks) /\ Ends(<<[k |-> "died"]>>)
  /\ [k |-> "pong"] \in Marks
<1>1. [k |-> "died"] \in Marks /\ [k |-> "pong"] \in Marks
  BY DEF Marks
<1>2. <<[k |-> "died"]>> \in Seq(Marks) /\ Len(<<[k |-> "died"]>>) = 1 /\ <<[k |-> "died"]>>[1] = [k |-> "died"]
  BY <1>1
<1>3. 1 \in 1..Len(<<[k |-> "died"]>>) /\ <<[k |-> "died"]>>[1].k = "died"
  BY <1>2
<1>4. Ends(<<[k |-> "died"]>>)
  BY <1>3 DEF Ends
<1> QED BY <1>1, <1>2, <1>4

LEMMA GoneIs ==
  ASSUME Shape
  PROVE  Gone \in Nat /\ Gone <= worker.read /\ (Gone # 0 => Gone + Snapshot = worker.read)
<1>1. worker.read \in Nat /\ Snapshot \in Nat /\ Snapshot > 0
  BY WorkerAssumption DEF Shape
<1> QED BY <1>1 DEF Gone

LEMMA GreetingIs ==
  ASSUME Shape
  PROVE  /\ Greeting \in Seq(Marks) /\ Greeting # <<>> /\ Greeting[1].k = "ready"
         /\ worker.at = "linger" => Ends(Greeting)
<1> DEFINE r == <<[k |-> "ready"]>>
           s == IF worker.read > 0 THEN <<[k |-> "scroll", from |-> Gone, n |-> worker.read]>> ELSE <<>>
           d == IF worker.at = "linger" THEN <<[k |-> "died"]>> ELSE <<>>
<1>1. r \in Seq(Marks) /\ r # <<>> /\ r[1].k = "ready"
  <2>1. [k |-> "ready"] \in Marks
    BY DEF Marks
  <2>2. r \in Seq(Marks) /\ Len(r) = 1 /\ r[1] = [k |-> "ready"]
    BY <2>1
  <2>3. r # <<>>
    BY <2>2
  <2>4. r[1].k = "ready"
    BY <2>2
  <2> QED BY <2>2, <2>3, <2>4
<1>2. s \in Seq(Marks)
  <2>1. [k |-> "scroll", from |-> Gone, n |-> worker.read] \in Marks
    BY GoneIs DEF Marks, Shape
  <2> QED BY <2>1
<1>3. d \in Seq(Marks) /\ (worker.at = "linger" => Ends(d))
  BY DiedIs
<1>4. Greeting = (r \o s) \o d
  BY DEF Greeting, Died
<1> HIDE DEF r, s, d
<1>5. r \o s \in Seq(Marks) /\ r \o s # <<>> /\ (r \o s)[1] = r[1]
  BY <1>1, <1>2, EndsIn
<1>6. (r \o s) \o d \in Seq(Marks) /\ (r \o s) \o d # <<>> /\ ((r \o s) \o d)[1] = (r \o s)[1] /\ (Ends(d) => Ends((r \o s) \o d))
  BY <1>3, <1>5, EndsIn
<1> QED BY <1>1, <1>3, <1>4, <1>5, <1>6

-----------------------------------------------------------------------------
(* What the worker does to its connections. *)

Moves(k, q) ==
  /\ q \in Connections /\ Sound(q)
  /\ k.at \in {"free", "closed"} => q = k
  /\ q.at = "backlog" => k.at = "backlog"
  /\ k.held =>
       /\ k.at # "free" => q.held /\ q.at # "free"
       /\ k.at = "backlog" =>
            \/ q.at = "backlog"
            \/ q.at = "open" /\ q.wire # <<>> /\ q.wire[1].k = "ready"
            \/ q.at = "closed" /\ q.wire = <<>>
       /\ k.wire # <<>> => q.wire # <<>> /\ q.wire[1] = k.wire[1]
       /\ SaysEnd(k) => SaysEnd(q)

LEMMA StaysPut ==
  ASSUME NEW k \in Connections, Sound(k) PROVE Moves(k, k)
  BY DEF Moves

LEMMA AcceptedMoves ==
  ASSUME Shape, NEW k \in Connections, Sound(k), k.at = "backlog"
  PROVE  LET q == Flushed([k EXCEPT !.at = "open", !.tx = Greeting]) IN
         /\ Moves(k, q) /\ q.at # "backlog"
         /\ k.held => q.wire # <<>> /\ (worker.at = "linger" => SaysEnd(q))
<1> DEFINE x == [k EXCEPT !.at = "open", !.tx = Greeting]
           q == Flushed(x)
<1>1. /\ Greeting \in Seq(Marks) /\ Greeting # <<>> /\ Greeting[1].k = "ready"
      /\ worker.at = "linger" => Ends(Greeting)
  BY GreetingIs
<1>2. /\ x \in Connections /\ x.at = "open" /\ x.tx = Greeting /\ x.wire = k.wire /\ x.held = k.held /\ x.fate = k.fate
  BY <1>1 DEF Connections
<1>3. k.wire = <<>> /\ k.tx = <<>> /\ Len(x.wire) <= SockMax
  BY <1>2 DEF Sound
<1> HIDE DEF x
<1>4. /\ q \in Connections /\ Sound(q)
      /\ ~x.held => q.at \in {"free", "closed"}
      /\ x.held =>
           /\ q.held /\ q.at = "open" /\ q.fate = x.fate
           /\ SaysEnd(x) => SaysEnd(q)
           /\ q.wire # <<>> /\ q.wire[1] = Greeting[1]
  BY <1>1, <1>2, <1>3, FlushedIs
<1> HIDE DEF q
<1>5. worker.at = "linger" => SaysEnd(x)
  BY <1>1, <1>2 DEF SaysEnd
<1>6. SaysEnd(k) => SaysEnd(x)
  BY <1>2, <1>3 DEF SaysEnd, Ends
<1>7. Moves(k, q)
  BY <1>1, <1>2, <1>3, <1>4, <1>6 DEF Moves
<1> QED BY <1>2, <1>4, <1>5, <1>7 DEF x, q

\* Frames that are queued, or a connection closed because they do not fit.
LEMMA FedMoves ==
  ASSUME NEW k \in Connections, Sound(k), k.at = "open", NEW fs \in Seq(Marks)
  PROVE  LET q == Fed(k, fs) IN
         /\ Moves(k, q) /\ q.at # "backlog"
         /\ k.held /\ q.at = "closed" => SaysEnd(q)
<1>1. CASE Fits(k, fs)
  <2> DEFINE t == k.tx \o fs
             q == [k EXCEPT !.tx = t]
  <2>1. k.tx \in Seq(Marks)
    BY DEF Connections
  <2>2. t \in Seq(Marks) /\ (Ends(k.tx) => Ends(t))
    BY <2>1, EndsIn
  <2>3. Fed(k, fs) = q
    BY <1>1 DEF Fed
  <2> HIDE DEF t
  <2>4. /\ q \in Connections /\ q.at = k.at /\ q.tx = t /\ q.wire = k.wire /\ q.held = k.held /\ q.fate = k.fate
    BY <2>2 DEF Connections
  <2> HIDE DEF q
  <2>5. SaysEnd(k) => SaysEnd(q)
    BY <2>2, <2>4 DEF SaysEnd
  <2> QED BY <2>3, <2>4, <2>5 DEF Moves, Sound
<1>2. CASE ~Fits(k, fs)
  <2> DEFINE x == Marked(k, "dropped")
             q == Dropped(x)
  <2>0. "dropped" \in Fates
    BY DEF Fates
  <2>1. /\ x \in Connections /\ x.at = k.at /\ x.tx = k.tx /\ x.wire = k.wire /\ x.held = k.held /\ x.fate # "kept"
    BY <2>0, MarkedIs
  <2>2. Sound(x)
    BY <2>1 DEF Sound
  <2>3. Fed(k, fs) = q
    BY <1>2 DEF Fed
  <2> HIDE DEF x
  <2>4. /\ q \in Connections /\ Sound(q) /\ q.at \in {"free", "closed"}
        /\ x.held => q.held /\ q.at = "closed" /\ q.wire = x.wire /\ q.fate = x.fate
    BY <2>1, <2>2, DroppedIs
  <2> HIDE DEF q
  <2>5. x.held => SaysEnd(q)
    BY <2>1, <2>4 DEF SaysEnd
  <2> QED BY <2>1, <2>3, <2>4, <2>5 DEF Moves
<1> QED BY <1>1, <1>2

LEMMA FlushedMoves ==
  ASSUME NEW k \in Connections, Sound(k), k.at = "open"
  PROVE  LET q == Flushed(k) IN
         /\ Moves(k, q) /\ q.at # "backlog"
         /\ k.held => q.at = "open"
<1> DEFINE q == Flushed(k)
<1>1. /\ q \in Connections /\ Sound(q)
      /\ ~k.held => q.at \in {"free", "closed"}
      /\ k.held =>
           /\ q.held /\ q.at = "open" /\ q.fate = k.fate
           /\ SaysEnd(k) => SaysEnd(q)
           /\ k.wire # <<>> => q.wire # <<>> /\ q.wire[1] = k.wire[1]
  BY FlushedIs
<1> HIDE DEF q
<1>2. Moves(k, q)
  BY <1>1 DEF Moves
<1> QED BY <1>1, <1>2 DEF q

\* An open connection served: written to, asked, answered.
LEMMA ServedMoves ==
  ASSUME NEW k \in Connections, Sound(k), k.at = "open",
         NEW t \in Seq(Marks), t = Flushed(k).tx \/ t = Append(Flushed(k).tx, [k |-> "pong"])
  PROVE  LET q == Flushed([Flushed(k) EXCEPT !.rx = {}, !.tx = t]) IN
         /\ Moves(k, q) /\ q.at # "backlog"
         /\ k.held => q.at = "open"
<1> DEFINE s == Flushed(k)
           x == [s EXCEPT !.rx = {}, !.tx = t]
           q == Flushed(x)
<1>1. /\ s \in Connections /\ Sound(s)
      /\ ~k.held => s.at \in {"free", "closed"}
      /\ k.held =>
           /\ s.held /\ s.at = "open" /\ s.fate = k.fate
           /\ SaysEnd(k) => SaysEnd(s)
           /\ k.wire # <<>> => s.wire # <<>> /\ s.wire[1] = k.wire[1]
  BY FlushedIs
<1>2. /\ t \in Seq(Marks) /\ (Ends(s.tx) => Ends(t))
  <2>1. s.tx \in Seq(Marks) /\ [k |-> "pong"] \in Marks
    BY <1>1, DiedIs DEF Connections
  <2>2. ASSUME Ends(s.tx), t = Append(s.tx, [k |-> "pong"]) PROVE Ends(t)
    <3>1. PICK i \in 1..Len(s.tx) : s.tx[i].k = "died"
      BY <2>2 DEF Ends
    <3>2. Len(t) = Len(s.tx) + 1 /\ t[i] = s.tx[i] /\ Len(s.tx) \in Nat
      BY <2>1, <2>2, AppendProperties
    <3> QED BY <3>1, <3>2 DEF Ends
  <2> QED BY <2>2
<1>3. CASE k.held
  <2> HIDE DEF s
  <2>0. {} \in SUBSET {"ping", "shutdown"}
    OBVIOUS
  <2>1. /\ x \in Connections /\ x.at = s.at /\ x.tx = t /\ x.wire = s.wire /\ x.held = s.held /\ x.fate = s.fate
    BY <1>1, <1>2, <2>0 DEF Connections
  <2>2. SaysEnd(s) => SaysEnd(x)
    BY <1>2, <2>1 DEF SaysEnd
  <2>3. Len(x.wire) <= SockMax
    BY <1>1, <2>1 DEF Sound
  <2> HIDE DEF x
  <2>4. /\ q \in Connections /\ Sound(q)
        /\ q.held /\ q.at = "open" /\ q.fate = x.fate
        /\ SaysEnd(x) => SaysEnd(q)
        /\ x.wire # <<>> => q.wire # <<>> /\ q.wire[1] = x.wire[1]
    BY <1>1, <1>3, <2>1, <2>3, FlushedIs
  <2> HIDE DEF q
  <2>5. Moves(k, q)
    BY <1>1, <1>3, <2>1, <2>2, <2>4 DEF Moves
  <2> QED BY <1>3, <2>4, <2>5 DEF q, x, s
<1>4. CASE ~k.held
  <2>1. s = Dropped(k) /\ Dropped(k) = Kept([k EXCEPT !.at = "closed", !.tx = <<>>, !.rx = {}])
    BY <1>4 DEF Flushed, Dropped
  <2> DEFINE d == [k EXCEPT !.at = "closed", !.tx = <<>>, !.rx = {}]
  <2>2. d.at = "closed" /\ ~d.held
    BY <1>4 DEF Connections
  <2>3. s = Free
    BY <2>1, <2>2 DEF Kept
  <2>4. x = [Free EXCEPT !.rx = {}, !.tx = t] /\ Free \in Connections /\ ~Free.held
    BY <1>1, <2>3 DEF Free
  <2> HIDE DEF s
  <2>5. ~x.held
    BY <2>4 DEF Connections
  <2>6. q = Dropped(x) /\ Dropped(x) = Kept([x EXCEPT !.at = "closed", !.tx = <<>>, !.rx = {}])
    BY <2>5 DEF Flushed, Dropped
  <2>7. [x EXCEPT !.at = "closed", !.tx = <<>>, !.rx = {}].at = "closed" /\ ~[x EXCEPT !.at = "closed", !.tx = <<>>, !.rx = {}].held
    BY <2>4 DEF Free
  <2>8. q = Free
    BY <2>6, <2>7 DEF Kept
  <2>9. Free.at = "free" /\ Sound(Free)
    BY <1>1, <2>3 DEF Free
  <2> HIDE DEF x, q
  <2>10. Moves(k, q)
    BY <1>4, <2>4, <2>8, <2>9 DEF Moves
  <2> QED BY <1>4, <2>8, <2>9, <2>10 DEF q, x, s
<1> QED BY <1>3, <1>4

\* What is left of a queue into which no more than there is room for goes, with the end or without it.
LEMMA RoomIs ==
  ASSUME NEW k \in Connections
  PROVE  TxCap - Queued(k) \in Int
<1>1. k.tx \in Seq(Marks)
  BY DEF Connections
<1>2. DOMAIN k.tx = 1..Len(k.tx) /\ Len(k.tx) \in Nat
  BY <1>1
<1>3. IsFiniteSet(DOMAIN k.tx)
  BY <1>2, FS_Interval
<1>4. IsFiniteSet({i \in DOMAIN k.tx : k.tx[i].k = "out"})
  BY <1>3, FS_Subset
<1>5. Queued(k) \in Nat
  BY <1>4, FS_CardinalityType DEF Queued
<1> QED BY <1>5, WorkerAssumption

LEMMA PiecesAre ==
  ASSUME NEW fs \in Seq(Marks), NEW room \in Int, NEW p \in Pieces(fs, room)
  PROVE  p \in Seq(Marks)
<1>1. PICK g \in [1..room -> DOMAIN fs] : p = [i \in 1..room |-> fs[g[i]]]
  BY DEF Pieces
<1>2. \A i \in 1..room : fs[g[i]] \in Marks
  <2>1. \A i \in DOMAIN fs : fs[i] \in Marks
    BY ElementOfSeq
  <2> QED BY <1>1, <2>1
<1>3. PICK l \in Nat : 1..room = 1..l
  <2>1. CASE room \in Nat
    BY <2>1
  <2>2. CASE room \notin Nat
    <3>1. \A x : x \notin 1..room
      BY <2>2
    <3>2. \A x : x \notin 1..0
      OBVIOUS
    <3>3. 1..room = 1..0
      BY <3>1, <3>2
    <3> QED BY <3>3
  <2> QED BY <2>1, <2>2
<1>4. p \in [1..l -> Marks]
  BY <1>1, <1>2, <1>3
<1>5. \A s : s \in [1..l -> Marks] => s \in Seq(Marks)
  BY SeqDef
<1> QED BY <1>4, <1>5

\* The last of the output: all of it and the end are queued, or the connection is marked.
LEMMA LastIs ==
  ASSUME Shape, NEW k \in Connections, NEW from \in Nat, NEW q \in LastWords(k, from)
  PROVE  \/ q = Flushed([k EXCEPT !.tx = k.tx \o Outs(from, shell.made) \o Died])
         \/ \E t \in Seq(Marks) : q = Flushed([k EXCEPT !.tx = t, !.fate = "short"])
<1>1. PICK fs \in Seq(Marks) : fs = Outs(from, shell.made)
  BY OutsIs DEF Shape
<1>2. PICK room \in Int : room = TxCap - Queued(k)
  BY RoomIs
<1>3. PICK pieces : pieces = Pieces(fs, room)
  OBVIOUS
<1>4. \/ q = Flushed([k EXCEPT !.tx = k.tx \o fs \o Died])
      \/ q \in Short(k, pieces)
      \/ q \in Short(k, pieces \cup {p \o Died : p \in pieces})
  BY <1>1, <1>2, <1>3 DEF LastWords
<1>5. ASSUME NEW qs, qs \subseteq Seq(Marks), q \in Short(k, qs)
      PROVE  \E t \in Seq(Marks) : q = Flushed([k EXCEPT !.tx = t, !.fate = "short"])
  <2>1. PICK p \in qs : q = Flushed([k EXCEPT !.tx = k.tx \o p, !.fate = "short"])
    BY <1>5 DEF Short
  <2>2. k.tx \o p \in Seq(Marks)
    BY <1>5, EndsIn DEF Connections
  <2> QED BY <2>1, <2>2
<1>6. \A p \in pieces : p \in Seq(Marks) /\ p \o Died \in Seq(Marks)
  <2>1. Died \in Seq(Marks)
    BY DiedIs DEF Died
  <2> QED BY <1>3, <2>1, PiecesAre, EndsIn
<1> QED BY <1>1, <1>4, <1>5, <1>6

LEMMA LastMoves ==
  ASSUME Shape, NEW k \in Connections, Sound(k), k.at = "open", NEW from \in Nat, NEW q \in LastWords(k, from)
  PROVE  /\ Moves(k, q) /\ q.at # "backlog"
         /\ k.held => q.at = "open" /\ SaysEnd(q)
<1>1. k.tx \in Seq(Marks)
  BY DEF Connections
<1>2. \E x \in Connections :
        q = Flushed(x) /\ x.at = k.at /\ x.wire = k.wire /\ x.held = k.held /\ SaysEnd(x)
  <2>1. CASE q = Flushed([k EXCEPT !.tx = k.tx \o Outs(from, shell.made) \o Died])
    <3>1. Outs(from, shell.made) \in Seq(Marks) /\ Died \in Seq(Marks) /\ Ends(Died)
      BY OutsIs, DiedIs DEF Shape, Died
    <3>2. PICK t : t = k.tx \o Outs(from, shell.made)
      OBVIOUS
    <3>3. t \in Seq(Marks)
      BY <1>1, <3>1, <3>2, EndsIn
    <3>4. PICK u : u = t \o Died
      OBVIOUS
    <3>5. u \in Seq(Marks) /\ Ends(u)
      BY <3>1, <3>3, <3>4, EndsIn
    <3>6. PICK x : x = [k EXCEPT !.tx = u]
      OBVIOUS
    <3>7. x \in Connections /\ x.at = k.at /\ x.wire = k.wire /\ x.held = k.held /\ x.tx = u
      BY <3>5, <3>6 DEF Connections
    <3>8. q = Flushed(x)
      BY <2>1, <3>2, <3>4, <3>6
    <3> QED BY <3>5, <3>7, <3>8 DEF SaysEnd
  <2>2. ASSUME NEW t \in Seq(Marks), q = Flushed([k EXCEPT !.tx = t, !.fate = "short"])
        PROVE  \E x \in Connections : q = Flushed(x) /\ x.at = k.at /\ x.wire = k.wire /\ x.held = k.held /\ SaysEnd(x)
    <3>1. PICK x : x = [k EXCEPT !.tx = t, !.fate = "short"]
      OBVIOUS
    <3>2. x \in Connections /\ x.at = k.at /\ x.wire = k.wire /\ x.held = k.held /\ x.fate = "short"
      BY <3>1 DEF Connections, Fates
    <3> QED BY <2>2, <3>1, <3>2 DEF SaysEnd
  <2> QED BY <2>1, <2>2, LastIs
<1>3. PICK x \in Connections :
        q = Flushed(x) /\ x.at = k.at /\ x.wire = k.wire /\ x.held = k.held /\ SaysEnd(x)
  BY <1>2
<1>4. Len(x.wire) <= SockMax
  BY <1>3 DEF Sound
<1>5. /\ q \in Connections /\ Sound(q)
      /\ ~x.held => q.at \in {"free", "closed"}
      /\ x.held =>
           /\ q.held /\ q.at = "open"
           /\ SaysEnd(q)
           /\ x.wire # <<>> => q.wire # <<>> /\ q.wire[1] = x.wire[1]
  BY <1>3, <1>4, FlushedIs
<1>6. Moves(k, q)
  BY <1>3, <1>5 DEF Moves
<1> QED BY <1>3, <1>5, <1>6


-----------------------------------------------------------------------------
(* The worker's steps. *)

\* A worker that goes on listening, whatever becomes of its connections.
LEMMA WorkerGoesOn ==
  ASSUME WorkInv, UNCHANGED <<daemon, shell, ran, used>> \/ (UNCHANGED <<daemon, ran, used>> /\ shell' \in [up : BOOLEAN, made : Nat]),
         worker' \in [at : {"serving", "linger", "leaving"}, heard : BOOLEAN, read : Nat, for : {worker.for}, killed : BOOLEAN],
         worker.at \in {"serving", "linger", "leaving"},
         conns' \in [Conns -> Connections], \A c \in Conns : Moves(conns[c], conns'[c]),
         \A c \in Conns : conns'[c].at = "open" => worker'.heard,
         worker'.at = "linger" => ~worker'.heard,
         Patient /\ daemon.at = "spawning" => Waits',
         Patient /\ daemon.at = "greeting" /\ Met => Met',
         \A c \in Conns : conns[c].held =>
           /\ conns[c].at = "open" /\ conns'[c].at = "closed" => SaysEnd(conns'[c])
           /\ worker'.at = "leaving" /\ conns'[c].at = "open" => SaysEnd(conns'[c]) \/ (worker.at = "leaving" /\ conns[c].at = "open")
  PROVE  WorkInv'
<1> DEFINE k == conns[daemon.conn]
           q == conns'[daemon.conn]
<1>0. WorkInv /\ UNCHANGED <<daemon, ran, used>>
  OBVIOUS
<1>1. Shape'
  BY DEF WorkInv, Shape
<1>2. \A c \in Conns : Sound(conns'[c]) /\ (conns'[c].at = "backlog" => conns[c].at = "backlog")
  BY DEF Moves
<1>3. worker'.at \in {"serving", "linger", "leaving"} /\ worker'.for = worker.for
  OBVIOUS
<1>4. daemon.at \in Calls => /\ daemon.conn \in Conns /\ k.held /\ k.at # "free" /\ q.held /\ q.at # "free" /\ Moves(k, q)
  BY DEF WorkInv, Wired, Moves
<1>5. Wired'
  BY <1>0, <1>2, <1>3, <1>4 DEF Wired, Sound
<1>6. Patient => Once'
  BY <1>0, <1>2, <1>3 DEF WorkInv, Once, Mine, Met, Waits
<1>7. Learns'
  <2>1. CASE daemon.at \in {"greeting", "adopting", "hosted"}
    <3>1. /\ daemon.conn \in Conns /\ k.held /\ k.at # "free" /\ Moves(k, q)
          /\ k.at \in {"backlog", "open", "closed"}
      BY <1>4, <2>1 DEF Calls, WorkInv, Shape, Connections
    <3>2. /\ k.at = "open" /\ q.at = "closed" => SaysEnd(q)
          /\ worker'.at = "leaving" /\ q.at = "open" => SaysEnd(q) \/ (worker.at = "leaving" /\ k.at = "open")
      BY <3>1
    <3>3. worker'.at = "leaving" /\ q.at = "open" => SaysEnd(q)
      BY <2>1, <3>1, <3>2 DEF WorkInv, Learns, Moves, Mine
    <3>4. daemon.at \in {"greeting", "adopting"} =>
            /\ q.wire # <<>> => q.wire[1].k = "ready"
            /\ q.at = "open" => q.wire # <<>>
            /\ q.at = "closed" /\ q.wire # <<>> => SaysEnd(q)
      <4>1. CASE k.at = "backlog"
        BY <3>1, <4>1 DEF WorkInv, Wired, Sound, Moves, Mine
      <4>2. CASE k.at = "open"
        BY <3>1, <3>2, <4>2 DEF WorkInv, Learns, Moves, Mine
      <4>3. CASE k.at = "closed"
        BY <3>1, <4>3 DEF WorkInv, Learns, Moves, Mine
      <4> QED BY <3>1, <4>1, <4>2, <4>3
    <3>5. daemon.at = "hosted" => q.at # "backlog" /\ (q.at = "closed" => SaysEnd(q))
      BY <3>1, <3>2 DEF WorkInv, Learns, Moves, Mine
    <3> QED BY <1>0, <3>3, <3>4, <3>5 DEF WorkInv, Learns, Mine
  <2>2. CASE daemon.at \notin {"greeting", "adopting", "hosted"}
    BY <1>0, <2>2 DEF WorkInv, Learns, Mine
  <2> QED BY <2>1, <2>2
<1> QED BY <1>1, <1>5, <1>6, <1>7 DEF WorkInv

LEMMA AcceptKeeps ==
  ASSUME WorkInv, NEW c \in Conns, Accept(c)
  PROVE  WorkInv'
<1> DEFINE k == conns[c]
           q == Flushed([k EXCEPT !.at = "open", !.tx = Greeting])
<1>1. /\ k \in Connections /\ Sound(k) /\ k.at = "backlog" /\ worker.at \in {"serving", "linger"}
      /\ conns' = [conns EXCEPT ![c] = q]
      /\ worker' = [worker EXCEPT !.heard = TRUE, !.at = IF worker.at = "linger" THEN "leaving" ELSE worker.at]
      /\ UNCHANGED <<daemon, shell, ran, used>> /\ Shape
  BY DEF Accept, record, WorkInv, Shape, Wired
<1>2. /\ Moves(k, q) /\ q.at # "backlog"
      /\ k.held => q.wire # <<>> /\ (worker.at = "linger" => SaysEnd(q))
  BY <1>1, AcceptedMoves
<1> HIDE DEF q
<1>3. /\ worker' \in [at : {"serving", "leaving"}, heard : BOOLEAN, read : Nat, for : {worker.for}, killed : BOOLEAN]
      /\ worker'.heard /\ (worker'.at = "leaving" => worker.at = "linger")
  BY <1>1 DEF Shape
<1>4. conns' \in [Conns -> Connections] /\ conns'[c] = q /\ \A d \in Conns \ {c} : conns'[d] = conns[d]
  BY <1>1, <1>2 DEF Shape, Moves
<1>5. \A d \in Conns : Moves(conns[d], conns'[d])
  BY <1>1, <1>2, <1>4, StaysPut DEF WorkInv, Shape, Wired
<1>6. Patient => daemon.at # "spawning"
  BY <1>1 DEF WorkInv, Once, Waits, Shape
<1>7. daemon.at = "greeting" /\ Met => Met'
  <2> SUFFICES ASSUME daemon.at = "greeting", Met PROVE Met'
    OBVIOUS
  <2>1. daemon.conn \in Conns /\ conns[daemon.conn].held
    BY DEF WorkInv, Wired, Calls
  <2>2. CASE daemon.conn = c
    BY <1>1, <1>2, <1>4, <2>1, <2>2 DEF Met, Mine
  <2>3. CASE daemon.conn # c
    BY <1>1, <1>4, <2>1, <2>3 DEF Met, Mine
  <2> QED BY <2>2, <2>3
<1>8. \A d \in Conns : conns[d].held =>
        /\ conns[d].at = "open" /\ conns'[d].at = "closed" => SaysEnd(conns'[d])
        /\ worker'.at = "leaving" /\ conns'[d].at = "open" => SaysEnd(conns'[d]) \/ (worker.at = "leaving" /\ conns[d].at = "open")
  BY <1>1, <1>2, <1>3, <1>4 DEF WorkInv, Wired
<1> QED BY <1>1, <1>3, <1>4, <1>5, <1>6, <1>7, <1>8, WorkerGoesOn

\* While the worker that was asked for has still to be met, it has no open connection.
LEMMA NobodyYet ==
  ASSUME WorkInv, NEW c \in Conns, conns[c].at = "open"
  PROVE  worker.at \notin {"none", "starting", "linger"} /\ (Patient => daemon.at # "spawning") /\ (daemon.at = "greeting" /\ Met => Mine.wire # <<>>)
  BY DEF WorkInv, Wired, Once, Waits, Met, Mine, Shape

\* Steps that move open connections only, and have the worker go on as it was.
LEMMA OpenMoves ==
  ASSUME WorkInv, UNCHANGED <<daemon, shell, ran, used>>, worker.at \in {"serving", "linger", "leaving"},
         worker' \in [at : {worker.at}, heard : {worker.heard}, read : Nat, for : {worker.for}, killed : BOOLEAN],
         conns' \in [Conns -> Connections],
         \A c \in Conns : \/ conns'[c] = conns[c]
                          \/ /\ conns[c].at = "open" /\ Moves(conns[c], conns'[c])
                             /\ conns[c].held /\ conns'[c].at = "closed" => SaysEnd(conns'[c])
  PROVE  WorkInv'
<1>1. \A c \in Conns : Moves(conns[c], conns'[c])
  BY StaysPut DEF WorkInv, Shape, Wired
<1>2. \A c \in Conns : conns'[c].at = "open" => conns[c].at = "open"
  BY DEF Moves
<1>3. /\ \A c \in Conns : conns'[c].at = "open" => worker'.heard
      /\ worker'.at = "linger" => ~worker'.heard
  BY <1>2 DEF WorkInv, Wired
<1>4. Patient /\ daemon.at = "spawning" => Waits'
  BY DEF WorkInv, Once, Waits, Shape
<1>5. daemon.at = "greeting" /\ Met => Met'
  <2> SUFFICES ASSUME daemon.at = "greeting", Met PROVE Met'
    OBVIOUS
  <2>1. daemon.conn \in Conns /\ conns[daemon.conn].held
    BY DEF WorkInv, Wired, Calls
  <2>2. CASE Mine.wire # <<>>
    BY <1>1, <2>1, <2>2 DEF Met, Mine, Moves
  <2>3. CASE Mine.wire = <<>>
    <3>1. /\ Mine.at = "backlog" /\ Waits /\ \A c \in Conns \ {daemon.conn} : conns[c].at # "backlog"
      BY <2>3 DEF Met, Mine
    <3>2. \A c \in Conns : conns'[c] = conns[c]
      BY <2>3, NobodyYet
    <3> QED BY <2>1, <3>1, <3>2 DEF Met, Mine, Waits
  <2> QED BY <2>2, <2>3
<1>6. \A c \in Conns : conns[c].held =>
        /\ conns[c].at = "open" /\ conns'[c].at = "closed" => SaysEnd(conns'[c])
        /\ worker'.at = "leaving" /\ conns'[c].at = "open" => SaysEnd(conns'[c]) \/ (worker.at = "leaving" /\ conns[c].at = "open")
  BY <1>2
<1>7. worker' \in [at : {"serving", "linger", "leaving"}, heard : BOOLEAN, read : Nat, for : {worker.for}, killed : BOOLEAN]
  BY DEF WorkInv, Shape
<1> QED BY <1>1, <1>3, <1>4, <1>5, <1>6, <1>7, WorkerGoesOn

LEMMA SpawnWaits ==
  ASSUME WorkInv, Patient, daemon.at = "spawning", worker.at # "none"
  PROVE  worker.at = "starting" \/ Waits
  BY DEF WorkInv, Once, Shape

LEMMA ReadPtyKeeps ==
  ASSUME WorkInv, ReadPty
  PROVE  WorkInv'
<1>1. PICK n \in worker.read + 1..shell.made :
        /\ worker' = [worker EXCEPT !.read = n]
        /\ conns' = [c \in Conns |-> IF c \in Open THEN Fed(conns[c], Outs(worker.read, n)) ELSE conns[c]]
  BY DEF ReadPty
<1>2. worker.at = "serving" /\ UNCHANGED <<daemon, shell, ran, used>> /\ Shape /\ worker.read \in Nat /\ n \in Nat
  BY DEF ReadPty, WorkInv, Shape
<1>3. Outs(worker.read, n) \in Seq(Marks)
  BY <1>2, OutsIs
<1> DEFINE fs == Outs(worker.read, n)
<1> HIDE DEF fs
<1>4. \A c \in Conns : conns'[c] = IF conns[c].at = "open" THEN Fed(conns[c], fs) ELSE conns[c]
  BY <1>1 DEF Open, fs
<1>5. ASSUME NEW c \in Conns, conns[c].at = "open"
      PROVE  /\ Moves(conns[c], conns'[c])
             /\ conns[c].held /\ conns'[c].at = "closed" => SaysEnd(conns'[c])
  <2>1. conns[c] \in Connections /\ Sound(conns[c]) /\ conns'[c] = Fed(conns[c], fs)
    BY <1>4, <1>5 DEF WorkInv, Shape, Wired
  <2> QED BY <1>3, <1>5, <2>1, FedMoves DEF fs
<1>6. conns' \in [Conns -> Connections]
  <2>1. \A c \in Conns : conns[c].at = "open" => conns'[c] \in Connections
    BY <1>5 DEF Moves
  <2>2. \A c \in Conns : conns'[c] \in Connections
    BY <1>2, <1>4, <2>1 DEF Shape
  <2>3. conns' = [c \in Conns |-> conns'[c]]
    BY <1>1
  <2> QED BY <2>2, <2>3
<1>7. worker' \in [at : {worker.at}, heard : {worker.heard}, read : Nat, for : {worker.for}, killed : BOOLEAN]
  BY <1>1, <1>2 DEF Shape
<1> QED BY <1>2, <1>4, <1>5, <1>6, <1>7, OpenMoves

\* Whoever is connected is marked: on SHUTDOWN or SIGTERM, or when the worker leaves.
LEMMA MarkedMoves ==
  ASSUME NEW k \in Connections, Sound(k), k.at \in {"backlog", "open"}, NEW f \in Fates, f # "kept"
  PROVE  LET q == Marked(k, f) IN
         /\ Moves(k, q) /\ q.at = k.at /\ SaysEnd(q) /\ q.held = k.held
<1> DEFINE q == Marked(k, f)
<1>1. q \in Connections /\ q.at = k.at /\ q.held = k.held /\ q.wire = k.wire /\ q.tx = k.tx /\ q.fate # "kept"
  BY MarkedIs
<1> HIDE DEF q
<1>2. SaysEnd(q) /\ Sound(q)
  BY <1>1 DEF SaysEnd, Sound
<1>3. Moves(k, q)
  BY <1>1, <1>2 DEF Moves
<1> QED BY <1>1, <1>2, <1>3 DEF q

LEMMA ServeKeeps ==
  ASSUME WorkInv, NEW c \in Conns, Serve(c)
  PROVE  WorkInv'
<1> DEFINE k == conns[c]
           s == Flushed(k)
           t == IF "ping" \in k.rx THEN Append(s.tx, [k |-> "pong"]) ELSE s.tx
           q == Flushed([s EXCEPT !.rx = {}, !.tx = t])
<1>1. /\ worker.at = "serving" /\ k.at = "open" /\ UNCHANGED <<daemon, ran, used>> /\ Shape /\ k \in Connections /\ Sound(k)
      /\ conns \in [Conns -> Connections]
  BY DEF Serve, Open, record, WorkInv, Shape, Wired
<1>2. /\ s \in Connections /\ Moves(k, s) /\ s.at # "backlog" /\ (k.held => s.at = "open")
  BY <1>1, FlushedMoves, FlushedIs
<1>3. t \in Seq(Marks) /\ (t = s.tx \/ t = Append(s.tx, [k |-> "pong"]))
  <2>1. s.tx \in Seq(Marks)
    BY <1>2 DEF Connections
  <2> HIDE DEF s
  <2> QED BY <2>1, DiedIs
<1>4. /\ Moves(k, q) /\ q.at # "backlog" /\ (k.held => q.at = "open")
  BY <1>1, <1>3, ServedMoves
<1>5. \/ conns' = [conns EXCEPT ![c] = s] /\ UNCHANGED <<worker, shell>>
      \/ conns' = [conns EXCEPT ![c] = q] /\ UNCHANGED <<worker, shell>>
      \/ Stops(conns)
  <2>1. [s EXCEPT !.rx = {}, !.tx = IF "ping" \in k.rx THEN Append(@, [k |-> "pong"]) ELSE @] = [s EXCEPT !.rx = {}, !.tx = t]
    BY <1>2 DEF Connections
  <2> QED BY <2>1 DEF Serve
<1> HIDE DEF s, q
<1>6. ASSUME NEW x, Moves(k, x), k.held => x.at = "open", conns' = [conns EXCEPT ![c] = x], UNCHANGED <<worker, shell>>
      PROVE  WorkInv'
  <2>1. conns' \in [Conns -> Connections] /\ conns'[c] = x /\ \A d \in Conns \ {c} : conns'[d] = conns[d]
    BY <1>1, <1>6 DEF Moves
  <2>2. worker' \in [at : {worker.at}, heard : {worker.heard}, read : Nat, for : {worker.for}, killed : BOOLEAN]
    BY <1>1, <1>6 DEF Shape
  <2> QED BY <1>1, <1>6, <2>1, <2>2, OpenMoves
<1>7. CASE Stops(conns)
  <2>1. /\ worker' = [worker EXCEPT !.at = "leaving"] /\ shell' = [shell EXCEPT !.up = FALSE]
        /\ \A d \in Conns : conns'[d] = IF conns[d].at \in {"backlog", "open"} THEN Marked(conns[d], "killed") ELSE conns[d]
        /\ conns' = [d \in Conns |-> conns'[d]]
    BY <1>7 DEF Stops, Told
  <2>2. ASSUME NEW d \in Conns, conns[d].at \in {"backlog", "open"}
        PROVE  Moves(conns[d], conns'[d]) /\ conns'[d].at = conns[d].at /\ SaysEnd(conns'[d])
    <3>1. conns[d] \in Connections /\ Sound(conns[d]) /\ conns'[d] = Marked(conns[d], "killed") /\ "killed" \in Fates
      BY <2>1, <2>2 DEF WorkInv, Shape, Wired, Fates
    <3> QED BY <2>2, <3>1, MarkedMoves
  <2>3. \A d \in Conns : Moves(conns[d], conns'[d])
    BY <2>1, <2>2, StaysPut DEF WorkInv, Shape, Wired
  <2>4. conns' \in [Conns -> Connections]
    BY <2>1, <2>3 DEF Moves
  <2>5. /\ worker' \in [at : {"leaving"}, heard : {worker.heard}, read : Nat, for : {worker.for}, killed : BOOLEAN]
        /\ shell' \in [up : BOOLEAN, made : Nat]
    BY <1>1, <2>1 DEF Shape
  <2>6. \A d \in Conns : conns'[d].at = "open" => worker'.heard
    BY <2>1, <2>2, <2>5 DEF WorkInv, Wired
  <2>7. (Patient => daemon.at # "spawning") /\ (daemon.at = "greeting" /\ Met => Met')
    <3>1. (Patient => daemon.at # "spawning") /\ (daemon.at = "greeting" /\ Met => Mine.wire # <<>>)
      BY <1>1, NobodyYet
    <3>2. daemon.at = "greeting" => daemon.conn \in Conns /\ conns[daemon.conn].held
      BY DEF WorkInv, Wired, Calls
    <3> QED BY <1>1, <2>3, <3>1, <3>2 DEF Met, Mine, Moves
  <2>8. \A d \in Conns : conns[d].held =>
          /\ conns[d].at = "open" /\ conns'[d].at = "closed" => SaysEnd(conns'[d])
          /\ worker'.at = "leaving" /\ conns'[d].at = "open" => SaysEnd(conns'[d]) \/ (worker.at = "leaving" /\ conns[d].at = "open")
    BY <2>1, <2>2
  <2>9. worker' \in [at : {"serving", "linger", "leaving"}, heard : BOOLEAN, read : Nat, for : {worker.for}, killed : BOOLEAN]
        /\ worker'.at # "linger"
    BY <1>1, <2>5 DEF Shape
  <2> QED BY <1>1, <2>3, <2>4, <2>5, <2>6, <2>7, <2>8, <2>9, WorkerGoesOn
<1> QED BY <1>2, <1>4, <1>5, <1>6, <1>7

LEMMA WaitedIs ==
  ASSUME Waited
  PROVE  /\ \A c \in Conns : IF conns[c].at = "open" THEN conns'[c] \in LastWords(conns[c], worker.read) ELSE conns'[c] = conns[c]
         /\ conns' = [c \in Conns |-> conns'[c]]
<1>1. PICK last \in [Open -> UNION {LastWords(conns[c], worker.read) : c \in Open}] :
        /\ \A c \in Open : last[c] \in LastWords(conns[c], worker.read)
        /\ conns' = [c \in Conns |-> IF c \in Open THEN last[c] ELSE conns[c]]
  BY DEF Waited
<1>2. \A c \in Conns : conns'[c] = IF c \in Open THEN last[c] ELSE conns[c]
  BY <1>1
<1>3. conns' = [c \in Conns |-> conns'[c]]
  BY <1>1
<1>4. \A c \in Conns : c \in Open <=> conns[c].at = "open"
  BY DEF Open
<1> QED BY <1>1, <1>2, <1>3, <1>4

LEMMA WaitedKeeps ==
  ASSUME WorkInv, Waited
  PROVE  WorkInv'
<1>1. /\ worker.at = "serving" /\ UNCHANGED <<daemon, shell, ran, used>> /\ Shape /\ worker.read \in Nat /\ shell.made \in Nat
      /\ worker' = [worker EXCEPT !.at = Stays, !.read = shell.made]
  BY DEF Waited, WorkInv, Shape
<1>2. /\ \A c \in Conns : IF conns[c].at = "open" THEN conns'[c] \in LastWords(conns[c], worker.read) ELSE conns'[c] = conns[c]
      /\ conns' = [c \in Conns |-> conns'[c]]
  BY WaitedIs
<1>3. ASSUME NEW c \in Conns, conns[c].at = "open"
      PROVE  /\ Moves(conns[c], conns'[c]) /\ conns'[c].at # "backlog"
             /\ conns[c].held => conns'[c].at = "open" /\ SaysEnd(conns'[c])
  <2>1. conns[c] \in Connections /\ Sound(conns[c]) /\ conns'[c] \in LastWords(conns[c], worker.read)
    BY <1>2, <1>3 DEF WorkInv, Shape, Wired
  <2> QED BY <1>1, <1>3, <2>1, LastMoves
<1>4. \A c \in Conns : Moves(conns[c], conns'[c])
  BY <1>2, <1>3, StaysPut DEF WorkInv, Shape, Wired
<1>5. conns' \in [Conns -> Connections]
  BY <1>2, <1>4 DEF Moves
<1>6. /\ worker' \in [at : {"linger", "leaving"}, heard : {worker.heard}, read : Nat, for : {worker.for}, killed : BOOLEAN]
      /\ worker'.at = "leaving" <=> worker.heard
  BY <1>1 DEF Shape, Stays
<1>7. \A c \in Conns : conns'[c].at = "open" => conns[c].at = "open"
  BY <1>2, <1>3
<1>8. \A c \in Conns : conns'[c].at = "open" => worker'.heard
  BY <1>6, <1>7 DEF WorkInv, Wired
<1>9. Patient /\ daemon.at = "spawning" => Waits'
  <2>1. Patient /\ daemon.at = "spawning" => Waits
    BY <1>1, SpawnWaits
  <2> QED BY <1>6, <2>1 DEF Waits
<1>10. daemon.at = "greeting" /\ Met => Met'
  <2> SUFFICES ASSUME daemon.at = "greeting", Met PROVE Met'
    OBVIOUS
  <2>1. daemon.conn \in Conns /\ conns[daemon.conn].held
    BY DEF WorkInv, Wired, Calls
  <2>2. CASE Mine.wire # <<>>
    BY <1>1, <1>4, <2>1, <2>2 DEF Met, Mine, Moves
  <2>3. CASE Mine.wire = <<>>
    <3>1. /\ Mine.at = "backlog" /\ Waits /\ \A c \in Conns \ {daemon.conn} : conns[c].at # "backlog"
      BY <2>3 DEF Met
    <3>2. \A c \in Conns : conns'[c] = conns[c]
      BY <1>2, <2>3, NobodyYet
    <3>3. Waits'
      BY <1>6, <3>1 DEF Waits
    <3> QED BY <1>1, <2>1, <3>1, <3>2, <3>3 DEF Met, Mine
  <2> QED BY <2>2, <2>3
<1>11. \A c \in Conns : conns[c].held =>
         /\ conns[c].at = "open" /\ conns'[c].at = "closed" => SaysEnd(conns'[c])
         /\ worker'.at = "leaving" /\ conns'[c].at = "open" => SaysEnd(conns'[c]) \/ (worker.at = "leaving" /\ conns[c].at = "open")
  BY <1>3, <1>7
<1>12. worker' \in [at : {"serving", "linger", "leaving"}, heard : BOOLEAN, read : Nat, for : {worker.for}, killed : BOOLEAN]
       /\ (worker'.at = "linger" => ~worker'.heard)
  BY <1>1, <1>6 DEF Shape
<1> QED BY <1>1, <1>4, <1>5, <1>8, <1>9, <1>10, <1>11, <1>12, WorkerGoesOn

LEMMA LapseKeeps ==
  ASSUME WorkInv, Lapse
  PROVE  WorkInv'
<1>1. /\ worker.at = "linger" /\ (Patient => daemon.at # "spawning" /\ \A c \in Conns : conns[c].at = "backlog" => ~conns[c].held)
      /\ worker' = [worker EXCEPT !.at = "leaving"] /\ UNCHANGED <<daemon, shell, conns, ran, used>> /\ Shape
  BY DEF Lapse, record, WorkInv
<1>2. \A c \in Conns : conns[c].at # "open"
  BY <1>1 DEF WorkInv, Wired
<1>3. \A c \in Conns : Moves(conns[c], conns'[c])
  BY <1>1, StaysPut DEF WorkInv, Shape, Wired
<1>4. worker' \in [at : {"serving", "linger", "leaving"}, heard : BOOLEAN, read : Nat, for : {worker.for}, killed : BOOLEAN]
      /\ worker'.at = "leaving"
  BY <1>1 DEF Shape
<1>5. Patient /\ daemon.at = "greeting" /\ Met => Met'
  <2>1. daemon.at = "greeting" => daemon.conn \in Conns /\ conns[daemon.conn].held
    BY DEF WorkInv, Wired, Calls
  <2> QED BY <1>1, <2>1 DEF Met, Mine
<1> QED BY <1>1, <1>2, <1>3, <1>4, <1>5, WorkerGoesOn DEF Shape

LEMMA FinalFlushKeeps ==
  ASSUME WorkInv, NEW c \in Conns, FinalFlush(c)
  PROVE  WorkInv'
<1> DEFINE q == Flushed(conns[c])
<1>1. /\ worker.at = "leaving" /\ conns[c].at = "open" /\ conns[c] \in Connections /\ Sound(conns[c]) /\ Shape
      /\ conns' = [conns EXCEPT ![c] = q] /\ UNCHANGED <<worker, daemon, shell, ran, used>>
  BY DEF FinalFlush, Open, record, WorkInv, Shape, Wired
<1>2. Moves(conns[c], q) /\ (conns[c].held => q.at = "open")
  BY <1>1, FlushedMoves
<1> HIDE DEF q
<1>3. conns' \in [Conns -> Connections] /\ conns'[c] = q /\ \A d \in Conns \ {c} : conns'[d] = conns[d]
  BY <1>1, <1>2 DEF Shape, Moves
<1>4. worker' \in [at : {worker.at}, heard : {worker.heard}, read : Nat, for : {worker.for}, killed : BOOLEAN]
  BY <1>1 DEF Shape
<1> QED BY <1>1, <1>2, <1>3, <1>4, OpenMoves

\* What a worker that leaves has not sent is lost, and marked.
LEMMA CutIs ==
  ASSUME NEW k \in Connections, Sound(k)
  PROVE  LET q == Cut(k) IN
         /\ q \in Connections /\ Sound(q) /\ q.at \in {"free", "closed"}
         /\ k.held => q.held /\ q.at = "closed" /\ q.wire = k.wire /\ (SaysEnd(k) => SaysEnd(q))
<1>1. PICK x : x = IF k.tx = <<>> THEN k ELSE Marked(k, "cut")
  OBVIOUS
<1>2. "cut" \in Fates /\ "cut" # "kept"
  BY DEF Fates
<1>3. /\ x \in Connections /\ x.at = k.at /\ x.tx = k.tx /\ x.wire = k.wire /\ x.held = k.held
      /\ k.fate # "kept" => x.fate = k.fate
      /\ k.tx = <<>> \/ x.fate # "kept"
  BY <1>1, <1>2, MarkedIs
<1>4. Cut(k) = Dropped(x) /\ Sound(x)
  BY <1>1, <1>3 DEF Cut, Sound
<1>5. PICK q : q = Dropped(x)
  OBVIOUS
<1>6. /\ q \in Connections /\ Sound(q) /\ q.at \in {"free", "closed"}
      /\ x.held => q.held /\ q.at = "closed" /\ q.wire = x.wire /\ q.fate = x.fate
  BY <1>3, <1>4, <1>5, DroppedIs
<1>7. ASSUME k.held, SaysEnd(k) PROVE SaysEnd(q)
  BY <1>3, <1>6, <1>7 DEF SaysEnd, Ends
<1> QED BY <1>3, <1>4, <1>5, <1>6, <1>7

LEMMA LeaveKeeps ==
  ASSUME WorkInv, Leave
  PROVE  WorkInv'
<1>1. /\ worker.at = "leaving" /\ worker' = Asleep /\ UNCHANGED <<daemon, shell, ran, used>> /\ Shape
      /\ conns' = [c \in Conns |-> IF conns[c].at \in {"backlog", "open"} THEN Cut(conns[c]) ELSE conns[c]]
  BY DEF Leave, record, WorkInv
<1>2. worker'.at = "none" /\ worker'.for = 0 /\ ~worker'.heard
  BY <1>1 DEF Asleep
<1>3. ASSUME NEW c \in Conns
      PROVE  /\ conns'[c] \in Connections /\ Sound(conns'[c]) /\ conns'[c].at \in {"free", "closed"}
             /\ conns[c].at \in {"backlog", "open"} /\ conns[c].held =>
                  conns'[c].held /\ conns'[c].at = "closed" /\ conns'[c].wire = conns[c].wire /\ (SaysEnd(conns[c]) => SaysEnd(conns'[c]))
             /\ conns[c].at \notin {"backlog", "open"} => conns'[c] = conns[c]
  <2>1. conns[c] \in Connections /\ Sound(conns[c])
    BY DEF WorkInv, Shape, Wired
  <2>2. conns'[c] = IF conns[c].at \in {"backlog", "open"} THEN Cut(conns[c]) ELSE conns[c]
    BY <1>1
  <2>3. CASE conns[c].at \in {"backlog", "open"}
    BY <2>1, <2>2, <2>3, CutIs
  <2>4. CASE conns[c].at \notin {"backlog", "open"}
    BY <2>1, <2>2, <2>4 DEF Connections
  <2> QED BY <2>3, <2>4
<1>4. Shape'
  <2>1. conns' \in [Conns -> Connections]
    <3>1. conns' = [c \in Conns |-> conns'[c]]
      BY <1>1
    <3> QED BY <1>3, <3>1
  <2>2. worker' \in [at : {"none", "starting", "serving", "linger", "leaving"}, heard : BOOLEAN, read : Nat, for : Nat, killed : BOOLEAN]
    BY <1>1 DEF Asleep
  <2> QED BY <1>1, <2>1, <2>2 DEF Shape
<1>5. Wired'
  <2>1. daemon.at \in Calls => daemon.conn \in Conns /\ conns'[daemon.conn].held /\ conns'[daemon.conn].at # "free"
    BY <1>3 DEF WorkInv, Wired, Shape, Connections
  <2>2. \A c \in Conns : conns'[c].at # "open"
    BY <1>3
  <2>3. \A c \in Conns : Sound(conns'[c]) /\ conns'[c].at \in {"free", "closed"}
    BY <1>3
  <2> QED BY <1>1, <1>2, <2>1, <2>2, <2>3 DEF Wired, Sound
<1>6. ASSUME Patient PROVE Once'
  <2>1. daemon.at # "spawning"
    BY <1>1, <1>6 DEF WorkInv, Once, Waits, Shape
  <2>2. daemon.at = "greeting" /\ Met => Met'
    <3>1. daemon.at = "greeting" => daemon.conn \in Conns /\ conns[daemon.conn].held
      BY DEF WorkInv, Wired, Calls
    <3>2. daemon.at = "greeting" /\ Met => Mine.wire # <<>>
      BY <1>1 DEF Met, Waits
    <3>3. daemon.at = "greeting" /\ Met => conns'[daemon.conn].wire # <<>>
      BY <1>3, <3>1, <3>2 DEF Mine
    <3> QED BY <1>1, <3>3 DEF Met, Mine
  <2>3. ran <= 1 /\ (daemon.at \in {"pinging", "found", "absent"} => ran = 0 /\ worker.for < used.asks)
        /\ (daemon.at = "greeting" => (ran = 0 /\ worker.for < used.asks) \/ Met) /\ worker.for \in Nat /\ used.asks \in Nat
    BY <1>6 DEF WorkInv, Once, Shape
  <2>4. ran' = ran /\ used' = used /\ daemon' = daemon
    BY <1>1
  <2> QED BY <1>2, <2>1, <2>2, <2>3, <2>4 DEF Once
<1>7. Learns'
  <2> DEFINE k == conns[daemon.conn]
             q == conns'[daemon.conn]
  <2>0. daemon' = daemon /\ worker'.at = "none"
    BY <1>1, <1>2
  <2>1. CASE daemon.at \in {"greeting", "adopting", "hosted"}
    <3>1. daemon.conn \in Conns /\ k.held /\ k.at # "free"
      BY <2>1 DEF WorkInv, Wired, Calls
    <3>2. k.at \in {"backlog", "open"} => q.at = "closed" /\ q.wire = k.wire /\ (SaysEnd(k) => SaysEnd(q))
      BY <1>3, <3>1
    <3>3. k.at \notin {"backlog", "open"} => q = k
      BY <1>3, <3>1
    <3>4. q.at # "open" /\ q.at # "backlog"
      BY <1>3, <3>1
    <3>5. k.at = "open" => SaysEnd(q)
      <4>1. k.at = "open" => SaysEnd(k)
        BY <1>1, <2>1 DEF WorkInv, Learns, Mine
      <4> QED BY <3>2, <4>1
    <3>6. k.at = "backlog" => q.wire = <<>> /\ daemon.at # "hosted"
      BY <2>1, <3>1, <3>2 DEF WorkInv, Wired, Sound, Learns, Mine
    <3>7. k.at \in {"backlog", "open", "closed"}
      BY <3>1 DEF WorkInv, Shape, Connections
    <3>8. CASE k.at = "backlog"
      BY <2>0, <2>1, <3>2, <3>4, <3>6, <3>8 DEF WorkInv, Learns, Mine
    <3>9. CASE k.at = "open"
      BY <2>0, <2>1, <3>2, <3>4, <3>5, <3>9 DEF WorkInv, Learns, Mine
    <3>10. CASE k.at = "closed"
      BY <2>0, <2>1, <3>3, <3>4, <3>10 DEF WorkInv, Learns, Mine
    <3> QED BY <3>7, <3>8, <3>9, <3>10
  <2>2. CASE daemon.at \notin {"greeting", "adopting", "hosted"}
    BY <2>0, <2>2 DEF WorkInv, Learns
  <2> QED BY <2>1, <2>2
<1> QED BY <1>4, <1>5, <1>6, <1>7 DEF WorkInv

LEMMA BindKeeps ==
  ASSUME WorkInv, Bind
  PROVE  WorkInv'
<1>1. /\ worker.at = "starting" /\ worker' = [worker EXCEPT !.at = "serving"] /\ shell' = [up |-> TRUE, made |-> 0]
      /\ ran' = (IF worker.for = used.asks THEN ran + 1 ELSE ran) /\ UNCHANGED <<conns, daemon, used>> /\ Shape
  BY DEF Bind, WorkInv
<1>2. /\ worker'.at = "serving" /\ worker'.heard = worker.heard /\ worker'.for = worker.for
      /\ worker' \in [at : {"none", "starting", "serving", "linger", "leaving"}, heard : BOOLEAN, read : Nat, for : Nat, killed : BOOLEAN]
  BY <1>1 DEF Shape
<1>3. ~worker.heard /\ \A c \in Conns : conns[c].at \in {"free", "closed"}
  BY <1>1 DEF WorkInv, Wired
<1>4. Patient => (worker.for = used.asks => ran = 0)
  BY <1>1 DEF WorkInv, Once
<1>5. ran' \in Nat /\ (Patient => ran' <= 1) /\ (worker.for < used.asks => ran' = ran)
  BY <1>1, <1>4 DEF WorkInv, Once, Shape
<1>6. Shape'
  BY <1>1, <1>2, <1>5 DEF Shape
<1>7. Wired'
  BY <1>1, <1>2, <1>3 DEF WorkInv, Wired, Sound
<1>8. ASSUME Patient PROVE Once'
  <2>1. daemon.at = "spawning" => worker.for = used.asks /\ used.asks > 0
    BY <1>1, <1>8 DEF WorkInv, Once, Shape
  <2>2. Waits'
    BY <1>2, <1>3 DEF Waits
  <2>3. daemon.at = "greeting" => (ran' = 0 /\ worker.for < used.asks) \/ Met'
    <3>1. daemon.at = "greeting" /\ Met => Mine.wire # <<>>
      BY <1>1 DEF Met, Waits
    <3>2. daemon.at = "greeting" /\ Met => Met'
      BY <1>1, <3>1 DEF Met, Mine
    <3> QED BY <1>5, <1>8, <3>2 DEF WorkInv, Once
  <2>4. worker.for <= used.asks /\ worker.for \in Nat /\ used.asks \in Nat
    BY <1>8 DEF WorkInv, Once, Shape
  <2>5. daemon.at \in {"pinging", "found", "absent"} => ran' = 0 /\ worker.for < used.asks
    BY <1>5, <1>8 DEF WorkInv, Once
  <2>6. UNCHANGED <<conns, daemon, used>> /\ worker'.for = worker.for /\ worker'.at = "serving"
    BY <1>1, <1>2
  <2> QED BY <1>3, <1>5, <1>8, <2>1, <2>2, <2>3, <2>4, <2>5, <2>6 DEF Once
<1>9. Learns'
  BY <1>1, <1>2, <1>3 DEF WorkInv, Learns, Mine
<1> QED BY <1>6, <1>7, <1>8, <1>9 DEF WorkInv

LEMMA BindFailsKeeps ==
  ASSUME WorkInv, BindFails
  PROVE  WorkInv'
<1>1. /\ worker.at = "starting" /\ worker' = Asleep /\ used' = [used EXCEPT !.faults = @ + 1]
      /\ UNCHANGED <<shell, conns, daemon, ran>> /\ Shape
  BY DEF BindFails, WorkInv
<1>2. /\ used'.asks = used.asks /\ used' \in [asks : Nat, crashes : Nat, faults : Nat]
  BY <1>1 DEF Shape
<1>3. /\ worker'.at = "none" /\ worker'.for = 0 /\ ~worker'.heard
      /\ worker' \in [at : {"none", "starting", "serving", "linger", "leaving"}, heard : BOOLEAN, read : Nat, for : Nat, killed : BOOLEAN]
  BY <1>1 DEF Asleep
<1>4. ~worker.heard /\ \A c \in Conns : conns[c].at \in {"free", "closed"}
  BY <1>1 DEF WorkInv, Wired
<1>5. Shape'
  BY <1>1, <1>2, <1>3 DEF Shape
<1>6. Wired'
  BY <1>1, <1>3, <1>4 DEF WorkInv, Wired, Sound
<1>7. ASSUME Patient PROVE Once'
  <2>1. daemon.at = "spawning" => worker.for = used.asks /\ used.asks > 0 /\ ran = 0
    BY <1>1, <1>7 DEF WorkInv, Once, Shape
  <2>2. daemon.at = "greeting" => (ran = 0 /\ worker.for < used.asks) \/ Met'
    <3>1. daemon.at = "greeting" /\ Met => Mine.wire # <<>>
      BY <1>1 DEF Met, Waits
    <3>2. daemon.at = "greeting" /\ Met => Met'
      BY <1>1, <3>1 DEF Met, Mine
    <3> QED BY <1>7, <3>2 DEF WorkInv, Once
  <2>3. worker.for \in Nat /\ used.asks \in Nat /\ ran <= 1
        /\ (daemon.at \in {"pinging", "found", "absent"} => ran = 0 /\ worker.for < used.asks)
    BY <1>7 DEF WorkInv, Once, Shape
  <2>4. UNCHANGED <<conns, daemon, ran>>
    BY <1>1
  <2> QED BY <1>2, <1>3, <2>1, <2>2, <2>3, <2>4 DEF Once
<1>8. Learns'
  BY <1>1, <1>3 DEF WorkInv, Learns, Mine
<1> QED BY <1>5, <1>6, <1>7, <1>8 DEF WorkInv

-----------------------------------------------------------------------------
(* The daemon's steps. *)

Workers == [at : {"none", "starting", "serving", "linger", "leaving"}, heard : BOOLEAN, read : Nat, for : Nat, killed : BOOLEAN]
Daemons == [at : {"down", "idle", "pinging", "found", "absent", "spawning", "greeting", "adopting", "hosted", "direct", "dead"},
            conn : Conns \cup {0}, code : {"none", "real", "unknown"}, fate : Fates]
Counts == [asks : Nat, crashes : Nat, faults : Nat]

\* A daemon that calls nobody any more, or not yet.
LEMMA CallsNobody ==
  ASSUME WorkInv, daemon' \in Daemons, daemon'.at \notin Calls \cup {"spawning"},
         worker' \in Workers, worker'.for = worker.for, worker'.heard = worker.heard,
         worker'.at = worker.at \/ (worker.at \in {"serving", "linger"} /\ worker'.at = "leaving"),
         shell' \in [up : BOOLEAN, made : Nat], used' \in Counts,
         conns' \in [Conns -> Connections], \A c \in Conns : Sound(conns'[c]) /\ conns'[c].at \in {conns[c].at, "free"},
         ran' \in Nat,
         Patient => /\ ran' <= 1 /\ worker.for <= used'.asks
                    /\ worker.at = "starting" /\ worker.for = used'.asks => ran' = 0
                    /\ daemon'.at \in {"found", "absent"} => ran' = 0 /\ worker.for < used'.asks,
         daemon'.code = "unknown" => daemon'.fate # "kept"
  PROVE  WorkInv'
<1>1. Shape'
  BY DEF Shape, Workers, Daemons, Counts
<1>2. Wired'
  <2>1. \A c \in Conns : conns'[c].at = "open" => worker'.heard
    BY DEF WorkInv, Wired
  <2>2. worker'.at \in {"none", "starting"} => worker.at = worker'.at
    OBVIOUS
  <2>3. worker'.at \in {"none", "starting"} => ~worker'.heard /\ \A c \in Conns : conns'[c].at \in {"free", "closed"}
    BY <2>2 DEF WorkInv, Wired
  <2>4. worker'.at = "linger" => ~worker'.heard
    BY DEF WorkInv, Wired
  <2> QED BY <2>1, <2>3, <2>4 DEF Wired, Sound
<1>3. ASSUME Patient PROVE Once'
  <2>1. worker.at = "none" => worker.for = 0
    BY <1>3 DEF WorkInv, Once
  <2>2. worker'.at \in {"none", "starting"} => worker.at = worker'.at
    OBVIOUS
  <2>3. daemon'.at \notin {"pinging", "spawning", "greeting"}
    BY DEF Calls
  <2> QED BY <1>3, <2>1, <2>2, <2>3 DEF Once
<1>4. Learns'
  BY DEF Learns, Calls
<1> QED BY <1>1, <1>2, <1>3, <1>4 DEF WorkInv

\* The connection the daemon has, closed.
LEMMA HangsUp ==
  ASSUME Shape, Wired, daemon.at \in Calls
  PROVE  LET cs == [conns EXCEPT ![daemon.conn] = HungUp(@)] IN
         cs \in [Conns -> Connections] /\ \A c \in Conns : Sound(cs[c]) /\ cs[c].at \in {conns[c].at, "free"}
<1> DEFINE q == HungUp(conns[daemon.conn])
<1>1. daemon.conn \in Conns /\ conns \in [Conns -> Connections] /\ \A c \in Conns : Sound(conns[c]) /\ conns[c] \in Connections
  BY DEF Wired, Shape
<1>2. q \in Connections /\ Sound(q) /\ q.at \in {conns[daemon.conn].at, "free"}
  BY <1>1, HungUpIs
<1> HIDE DEF q
<1>3. [conns EXCEPT ![daemon.conn] = q] \in [Conns -> Connections]
      /\ \A c \in Conns : Sound([conns EXCEPT ![daemon.conn] = q][c]) /\ [conns EXCEPT ![daemon.conn] = q][c].at \in {conns[c].at, "free"}
  BY <1>1, <1>2
<1> QED BY <1>3 DEF q

\* A new connection, which the worker has still to accept.
LEMMA DialsKeeps ==
  ASSUME WorkInv, Listening, NEW at \in {"pinging", "greeting", "adopting"}, NEW rx \in SUBSET {"ping", "shutdown"}, Dials(at, rx),
         UNCHANGED <<worker, shell>>, used' \in Counts, ran' \in Nat,
         Patient => /\ ran' <= 1 /\ worker.for <= used'.asks
                    /\ at = "pinging" => ran' = 0 /\ worker.for < used'.asks
                    /\ at = "greeting" => (ran' = 0 /\ worker.for < used'.asks) \/ (Waits /\ \A c \in Conns : conns[c].at # "backlog")
  PROVE  WorkInv'
<1>1. PICK c \in Conns :
        /\ conns[c] = Free /\ conns' = [conns EXCEPT ![c] = [Free EXCEPT !.at = "backlog", !.held = TRUE, !.rx = rx]]
        /\ daemon' = [at |-> at, conn |-> c, code |-> "none", fate |-> "kept"]
  BY DEF Dials
<1> DEFINE q == [Free EXCEPT !.at = "backlog", !.held = TRUE, !.rx = rx]
<1>2. q \in Connections /\ q.at = "backlog" /\ q.held /\ q.wire = <<>> /\ q.tx = <<>>
  <2>1. <<>> \in Seq(Marks)
    OBVIOUS
  <2> QED BY <2>1 DEF Free, Connections, Fates
<1>3. Sound(q)
  <2>1. Len(<<>>) <= SockMax
    BY WorkerAssumption
  <2> QED BY <1>2, <2>1 DEF Sound
<1> HIDE DEF q
<1>4. conns' \in [Conns -> Connections] /\ conns'[c] = q /\ \A d \in Conns \ {c} : conns'[d] = conns[d]
  BY <1>1, <1>2 DEF WorkInv, Shape, q
<1>5. /\ daemon'.at = at /\ daemon'.conn = c /\ daemon'.code = "none" /\ daemon' \in Daemons
      /\ Mine' = q
  BY <1>1, <1>4 DEF Daemons, Fates, Mine
<1>6. worker' = worker /\ worker.at \in {"serving", "linger", "leaving"} /\ shell' = shell
  BY DEF Listening
<1>7. Shape'
  BY <1>4, <1>5, <1>6 DEF WorkInv, Shape, Counts, Daemons
<1>8. Wired'
  <2>1. \A d \in Conns : Sound(conns'[d]) /\ (conns'[d].at = "open" => conns[d].at = "open")
    BY <1>2, <1>3, <1>4 DEF WorkInv, Wired
  <2>2. daemon'.conn \in Conns /\ conns'[daemon'.conn].held /\ conns'[daemon'.conn].at # "free"
    BY <1>2, <1>4, <1>5
  <2> QED BY <1>6, <2>1, <2>2 DEF WorkInv, Wired, Sound
<1>9. ASSUME Patient PROVE Once'
  <2>1. at = "greeting" => (ran' = 0 /\ worker'.for < used'.asks) \/ Met'
    <3>1. Waits' <=> Waits
      BY <1>6 DEF Waits
    <3>2. Waits /\ (\A d \in Conns : conns[d].at # "backlog") => Met'
      BY <1>2, <1>4, <1>5, <3>1 DEF Met
    <3> QED BY <1>6, <1>9, <3>2
  <2> QED BY <1>5, <1>6, <1>9, <2>1 DEF Once
<1>10. Learns'
  BY <1>2, <1>5, <1>6 DEF Learns
<1> QED BY <1>7, <1>8, <1>9, <1>10 DEF WorkInv

LEMMA AskKeeps ==
  ASSUME WorkInv, Ask
  PROVE  WorkInv'
<1>1. /\ daemon.at \in {"idle", "dead"} /\ used' = [used EXCEPT !.asks = @ + 1] /\ ran' = 0 /\ UNCHANGED <<worker, shell>> /\ Shape
  BY DEF Ask, WorkInv
<1>2. used' \in Counts /\ used'.asks = used.asks + 1
  BY <1>1 DEF Shape, Counts
<1>3. Patient => worker.for < used'.asks /\ worker.for <= used'.asks
  <2>1. worker.for \in Nat /\ used.asks \in Nat /\ (Patient => worker.for <= used.asks)
    BY DEF WorkInv, Shape, Once
  <2> QED BY <1>2, <2>1
<1>4. CASE Listening /\ Dials("pinging", {"ping"})
  BY <1>1, <1>2, <1>3, <1>4, DialsKeeps
<1>5. CASE daemon' = [at |-> "absent", conn |-> 0, code |-> "none", fate |-> "kept"] /\ UNCHANGED conns
  <2>1. daemon' \in Daemons /\ daemon'.at = "absent" /\ daemon'.code = "none"
    BY <1>5 DEF Daemons, Fates
  <2>2. worker' \in Workers /\ shell' \in [up : BOOLEAN, made : Nat] /\ conns' \in [Conns -> Connections]
    BY <1>1, <1>5 DEF Shape, Workers
  <2>3. \A c \in Conns : Sound(conns'[c]) /\ conns'[c].at \in {conns[c].at, "free"}
    BY <1>5 DEF WorkInv, Wired
  <2>4. daemon'.at \notin Calls \cup {"spawning"}
    BY <2>1 DEF Calls
  <2> QED BY <1>1, <1>2, <1>3, <2>1, <2>2, <2>3, <2>4, CallsNobody
<1> QED BY <1>4, <1>5 DEF Ask

\* What stays as it was when the daemon alone moves.
LEMMA OnlyTheDaemon ==
  ASSUME WorkInv, UNCHANGED <<worker, shell, used>>
  PROVE  /\ worker' \in Workers /\ shell' \in [up : BOOLEAN, made : Nat] /\ used' \in Counts
         /\ worker' = worker /\ used' = used /\ worker.for \in Nat /\ used.asks \in Nat /\ ran \in Nat
         /\ Patient => /\ worker.for <= used'.asks /\ ran <= 1
                       /\ worker.at = "starting" /\ worker.for = used.asks => ran = 0
         /\ daemon \in Daemons
         /\ conns \in [Conns -> Connections] /\ \A c \in Conns : Sound(conns[c]) /\ conns[c].at \in {conns[c].at, "free"}
  BY DEF WorkInv, Shape, Wired, Once, Workers, Counts, Daemons

LEMMA PingedKeeps ==
  ASSUME WorkInv, Pinged
  PROVE  WorkInv'
<1> DEFINE cs == [conns EXCEPT ![daemon.conn] = HungUp(@)]
<1>1. /\ daemon.at = "pinging" /\ conns' = cs /\ UNCHANGED <<worker, shell, ran, used>>
      /\ \E at \in {"absent", "found"} : daemon' = [daemon EXCEPT !.conn = 0, !.at = at]
  BY DEF Pinged, record
<1>2. cs \in [Conns -> Connections] /\ \A c \in Conns : Sound(cs[c]) /\ cs[c].at \in {conns[c].at, "free"}
  BY <1>1, HangsUp DEF Calls, WorkInv
<1> HIDE DEF cs
<1>3. /\ daemon' \in Daemons /\ daemon'.at \in {"absent", "found"} /\ daemon'.code = daemon.code /\ daemon'.fate = daemon.fate
  BY <1>1 DEF WorkInv, Shape, Daemons
<1>4. (Patient => ran = 0 /\ worker.for < used.asks) /\ (daemon.code = "unknown" => daemon.fate # "kept")
  BY <1>1 DEF WorkInv, Once, Learns
<1>5. daemon'.at \notin Calls \cup {"spawning"}
  BY <1>3 DEF Calls
<1> QED BY <1>1, <1>2, <1>3, <1>4, <1>5, OnlyTheDaemon, CallsNobody

\* Frames taken from the wire of the connection the daemon has.
LEMMA TakesFrames ==
  ASSUME WorkInv, daemon.at \in Calls, UNCHANGED <<worker, shell, ran, used>>,
         NEW w \in Seq(Marks), Len(w) <= SockMax, w = <<>> \/ Mine.wire # <<>>,
         conns' = [conns EXCEPT ![daemon.conn].wire = w],
         daemon' \in Daemons, daemon'.conn = daemon.conn, daemon'.at \in {"pinging", "hosted"},
         daemon'.at = "pinging" => daemon.at = "pinging",
         daemon'.code = "unknown" => daemon'.fate # "kept",
         daemon'.at = "hosted" =>
           /\ Mine.at # "backlog"
           /\ Mine.at = "closed" \/ (worker.at = "leaving" /\ Mine.at = "open") =>
                Mine.fate # "kept" \/ Ends(w) \/ Ends(Mine.tx)
  PROVE  WorkInv'
<1> DEFINE k == conns[daemon.conn]
           q == [k EXCEPT !.wire = w]
<1>1. daemon.conn \in Conns /\ k \in Connections /\ k.held /\ k.at # "free" /\ Sound(k) /\ Shape /\ Mine = k
  BY DEF WorkInv, Shape, Wired, Mine
<1>2. q \in Connections /\ q.at = k.at /\ q.held = k.held /\ q.tx = k.tx /\ q.wire = w /\ q.fate = k.fate
  BY <1>1 DEF Connections
<1>3. Sound(q)
  BY <1>1, <1>2 DEF Sound
<1> HIDE DEF q
<1>4. conns' = [conns EXCEPT ![daemon.conn] = q]
  BY DEF q
<1>5. conns' \in [Conns -> Connections] /\ conns'[daemon.conn] = q /\ \A d \in Conns \ {daemon.conn} : conns'[d] = conns[d]
  BY <1>1, <1>2, <1>4 DEF Shape
<1>6. Mine' = q
  BY <1>5 DEF Mine
<1>7. worker' = worker /\ shell' = shell /\ ran' = ran /\ used' = used
  OBVIOUS
<1>8. Shape'
  BY <1>1, <1>5, <1>7 DEF Shape, Daemons
<1>9. Wired'
  <2>1. \A d \in Conns : Sound(conns'[d]) /\ conns'[d].at = conns[d].at
    BY <1>2, <1>3, <1>5 DEF WorkInv, Wired
  <2>2. conns'[daemon'.conn].held /\ conns'[daemon'.conn].at # "free" /\ daemon'.conn \in Conns
    BY <1>1, <1>2, <1>5
  <2> QED BY <1>7, <2>1, <2>2 DEF WorkInv, Wired, Sound
<1>10. Patient => Once'
  BY <1>7 DEF WorkInv, Once
<1>11. Learns'
  <2>1. daemon'.at = "hosted" =>
          /\ q.at # "backlog" /\ (q.at = "closed" => SaysEnd(q))
          /\ worker.at = "leaving" /\ q.at = "open" => SaysEnd(q)
    BY <1>1, <1>2 DEF SaysEnd
  <2> QED BY <1>6, <1>7, <2>1 DEF Learns
<1> QED BY <1>8, <1>9, <1>10, <1>11 DEF WorkInv

LEMMA PingReadsKeeps ==
  ASSUME WorkInv, PingReads
  PROVE  WorkInv'
<1>1. daemon.at = "pinging" /\ UNCHANGED <<worker, shell, ran, used>> /\ daemon.at \in Calls
  BY DEF PingReads, record, Calls
<1>2. CASE conns' = [conns EXCEPT ![daemon.conn].wire = <<>>] /\ UNCHANGED daemon
  <2>1. <<>> \in Seq(Marks) /\ Len(<<>>) <= SockMax
    BY WorkerAssumption
  <2>2. daemon \in Daemons /\ (daemon.code = "unknown" => daemon.fate # "kept")
    BY DEF WorkInv, Shape, Daemons, Learns
  <2> QED BY <1>1, <1>2, <2>1, <2>2, TakesFrames
<1>3. CASE conns' = [conns EXCEPT ![daemon.conn] = HungUp(@)] /\ daemon' = [daemon EXCEPT !.at = "absent", !.conn = 0]
  <2> DEFINE cs == [conns EXCEPT ![daemon.conn] = HungUp(@)]
  <2>1. cs \in [Conns -> Connections] /\ \A c \in Conns : Sound(cs[c]) /\ cs[c].at \in {conns[c].at, "free"}
    BY <1>1, HangsUp DEF WorkInv
  <2>2. conns' = cs
    BY <1>3
  <2> HIDE DEF cs
  <2>3. /\ daemon' \in Daemons /\ daemon'.at = "absent" /\ daemon'.code = daemon.code /\ daemon'.fate = daemon.fate
    BY <1>3 DEF WorkInv, Shape, Daemons
  <2>4. (Patient => ran = 0 /\ worker.for < used.asks) /\ (daemon.code = "unknown" => daemon.fate # "kept")
    BY <1>1 DEF WorkInv, Once, Learns
  <2>5. daemon'.at \notin Calls \cup {"spawning"}
    BY <2>3 DEF Calls
  <2> QED BY <1>1, <2>1, <2>2, <2>3, <2>4, <2>5, OnlyTheDaemon, CallsNobody
<1> QED BY <1>2, <1>3 DEF PingReads

\* The command is started in the daemon.
LEMMA FallsKeeps ==
  ASSUME WorkInv, NEW cs \in [Conns -> Connections], Falls(cs), UNCHANGED <<worker, shell, used>>,
         Patient => ran = 0 /\ worker.for < used.asks, \A c \in Conns : Sound(cs[c]) /\ cs[c].at \in {conns[c].at, "free"}
  PROVE  WorkInv'
<1>1. /\ conns' = cs /\ daemon' = [daemon EXCEPT !.at = "direct", !.conn = 0] /\ ran' = ran + 1
  BY DEF Falls
<1>2. /\ daemon' \in Daemons /\ daemon'.at = "direct" /\ daemon'.code = daemon.code /\ daemon'.fate = daemon.fate
  BY <1>1 DEF WorkInv, Shape, Daemons
<1>3. daemon.code = "unknown" => daemon.fate # "kept"
  BY DEF WorkInv, Learns
<1>4. daemon'.at \notin Calls \cup {"spawning"}
  BY <1>2 DEF Calls
<1>5. Patient => worker.for # used.asks /\ ran' = 1
  BY <1>1, OnlyTheDaemon
<1>6. ran' \in Nat
  BY <1>1, OnlyTheDaemon
<1> QED BY <1>1, <1>2, <1>3, <1>4, <1>5, <1>6, OnlyTheDaemon, CallsNobody

LEMMA ReattachKeeps ==
  ASSUME WorkInv, Reattach
  PROVE  WorkInv'
<1>1. daemon.at = "found" /\ UNCHANGED <<worker, shell, used>> /\ (Patient => ran = 0 /\ worker.for < used.asks)
  BY DEF Reattach, WorkInv, Once
<1>2. CASE Listening /\ Dials("greeting", {}) /\ UNCHANGED ran
  <2>1. {} \in SUBSET {"ping", "shutdown"}
    OBVIOUS
  <2> QED BY <1>1, <1>2, <2>1, OnlyTheDaemon, DialsKeeps
<1>3. CASE Falls(conns)
  BY <1>1, <1>3, OnlyTheDaemon, FallsKeeps
<1> QED BY <1>2, <1>3 DEF Reattach

LEMMA SpawnKeeps ==
  ASSUME WorkInv, Spawn
  PROVE  WorkInv'
<1>1. /\ daemon.at = "absent" /\ worker.at = "none" /\ worker' = [Asleep EXCEPT !.at = "starting", !.for = used.asks]
      /\ shell' = [up |-> FALSE, made |-> 0] /\ daemon' = [daemon EXCEPT !.at = "spawning"] /\ UNCHANGED <<conns, ran, used>>
      /\ Shape
  BY DEF Spawn, record, WorkInv
<1>2. (Patient => ran = 0 /\ worker.for < used.asks) /\ worker.for \in Nat /\ used.asks \in Nat
  BY <1>1 DEF WorkInv, Once, Shape
<1>3. worker'.at = "starting" /\ worker'.for = used.asks /\ ~worker'.heard /\ worker' \in Workers
  BY <1>1, <1>2 DEF Asleep, Workers
<1>4. /\ daemon' \in Daemons /\ daemon'.at = "spawning" /\ daemon'.code = daemon.code /\ daemon'.fate = daemon.fate
  BY <1>1 DEF WorkInv, Shape, Daemons
<1>5. Shape'
  BY <1>1, <1>3, <1>4 DEF Shape, Workers, Daemons
<1>6. Wired'
  BY <1>1, <1>3, <1>4 DEF WorkInv, Wired, Sound, Calls
<1>7. Patient => Once'
  BY <1>1, <1>2, <1>3, <1>4 DEF Once
<1>8. Learns'
  BY <1>1, <1>4 DEF WorkInv, Learns
<1> QED BY <1>5, <1>6, <1>7, <1>8 DEF WorkInv

LEMMA ConnectKeeps ==
  ASSUME WorkInv, Connect
  PROVE  WorkInv'
<1>1. daemon.at = "spawning" /\ Listening /\ Dials("greeting", {}) /\ UNCHANGED <<worker, shell, ran, used>>
  BY DEF Connect, record
<1>2. Patient => Waits /\ \A c \in Conns : conns[c].at # "backlog"
  BY <1>1 DEF WorkInv, Once, Listening, Shape
<1>3. {} \in SUBSET {"ping", "shutdown"}
  OBVIOUS
<1> QED BY <1>1, <1>2, <1>3, OnlyTheDaemon, DialsKeeps

LEMMA SpawnFailsKeeps ==
  ASSUME WorkInv, SpawnFails
  PROVE  WorkInv'
<1>1. daemon.at = "spawning" /\ (Patient => worker.at = "none") /\ Falls(conns) /\ UNCHANGED <<worker, shell, used>>
  BY DEF SpawnFails
<1>2. Patient => worker.for < used.asks /\ ran = 0
  BY <1>1 DEF WorkInv, Once, Waits, Shape
<1> QED BY <1>1, <1>2, OnlyTheDaemon, FallsKeeps

\* The first frame is READY: what follows it stays.
LEMMA HostsKeeps ==
  ASSUME WorkInv, daemon.at \in {"greeting", "adopting"}, Hosts
  PROVE  WorkInv'
<1> DEFINE k == conns[daemon.conn]
           w == Tail(k.wire)
<1>1. /\ k.wire # <<>> /\ daemon' = [daemon EXCEPT !.at = "hosted", !.code = "none"]
      /\ conns' = [conns EXCEPT ![daemon.conn].wire = w] /\ UNCHANGED <<worker, shell, ran, used>>
      /\ Mine = k /\ Shape
  BY DEF Hosts, Mine, WorkInv, Shape
<1>2. daemon.at \in Calls /\ daemon.conn \in Conns /\ k \in Connections /\ Sound(k)
  BY DEF WorkInv, Wired, Shape, Calls
<1>3. k.wire \in Seq(Marks)
  BY <1>2 DEF Connections
<1>4. /\ w \in Seq(Marks) /\ Len(w) = Len(k.wire) - 1 /\ Len(k.wire) \in Nat
      /\ \A i \in 1..Len(w) : w[i] = k.wire[i + 1]
  BY <1>1, <1>3, HeadTailProperties
<1>5. Len(w) <= SockMax
  BY <1>2, <1>4, WorkerAssumption DEF Sound
<1>6. k.wire[1].k = "ready" => (Ends(k.wire) => Ends(w))
  <2> SUFFICES ASSUME k.wire[1].k = "ready", Ends(k.wire) PROVE Ends(w)
    OBVIOUS
  <2>1. PICK i \in 1..Len(k.wire) : k.wire[i].k = "died"
    BY DEF Ends
  <2>2. i # 1
    BY <2>1
  <2>3. i - 1 \in 1..Len(w) /\ w[i - 1] = k.wire[i]
    BY <1>4, <2>1, <2>2
  <2> QED BY <2>1, <2>3 DEF Ends
<1>7. Mine.at # "backlog"
  BY <1>1, <1>2 DEF Sound
<1>8. Mine.at = "closed" \/ (worker.at = "leaving" /\ Mine.at = "open") =>
        Mine.fate # "kept" \/ Ends(w) \/ Ends(Mine.tx)
  BY <1>1, <1>6 DEF WorkInv, Learns, SaysEnd
<1>9. /\ daemon' \in Daemons /\ daemon'.at = "hosted" /\ daemon'.code = "none" /\ daemon'.conn = daemon.conn
  BY <1>1 DEF Shape, Daemons
<1> HIDE DEF w, k
<1> QED BY <1>1, <1>2, <1>4, <1>5, <1>7, <1>8, <1>9, TakesFrames

LEMMA GreetFailsKeeps ==
  ASSUME WorkInv, GreetFails
  PROVE  WorkInv'
<1> DEFINE cs == [conns EXCEPT ![daemon.conn] = HungUp(@)]
<1>1. daemon.at \in {"greeting", "adopting"} /\ Ended(Mine) /\ UNCHANGED <<worker, shell, used>> /\ daemon.at \in Calls
  BY DEF GreetFails, Calls
<1>2. cs \in [Conns -> Connections] /\ \A c \in Conns : Sound(cs[c]) /\ cs[c].at \in {conns[c].at, "free"}
  BY <1>1, HangsUp DEF WorkInv
<1>3. \/ daemon.at = "greeting" /\ Falls(cs)
      \/ conns' = cs /\ daemon' = [daemon EXCEPT !.at = "idle", !.conn = 0] /\ UNCHANGED ran
  BY DEF GreetFails
<1> HIDE DEF cs
<1>4. CASE daemon.at = "greeting" /\ Falls(cs)
  <2>1. Patient => ran = 0 /\ worker.for < used.asks
    BY <1>1, <1>4 DEF WorkInv, Once, Met, Ended
  <2> QED BY <1>1, <1>2, <1>4, <2>1, FallsKeeps
<1>5. CASE conns' = cs /\ daemon' = [daemon EXCEPT !.at = "idle", !.conn = 0] /\ UNCHANGED ran
  <2>1. /\ daemon' \in Daemons /\ daemon'.at = "idle" /\ daemon'.code = daemon.code /\ daemon'.fate = daemon.fate
    BY <1>5 DEF WorkInv, Shape, Daemons
  <2>2. daemon.code = "unknown" => daemon.fate # "kept"
    BY DEF WorkInv, Learns
  <2>3. daemon'.at \notin Calls \cup {"spawning"}
    BY <2>1 DEF Calls
  <2> QED BY <1>1, <1>2, <1>5, <2>1, <2>2, <2>3, OnlyTheDaemon, CallsNobody
<1> QED BY <1>3, <1>4, <1>5

\* The code is real if DIED was read; else the stream has ended, and then its fate says why.
LEMMA PollKeeps ==
  ASSUME WorkInv, Poll
  PROVE  WorkInv'
<1> DEFINE k == conns[daemon.conn]
           told == \E i \in DOMAIN Mine.wire : Mine.wire[i].k = "died"
<1>1. daemon.at = "hosted" /\ UNCHANGED <<worker, shell, ran, used>> /\ daemon.at \in Calls
  BY DEF Poll, Calls
<1>2. daemon.conn \in Conns /\ k \in Connections /\ k.held /\ k.at # "free" /\ Sound(k) /\ Mine = k
  BY <1>1 DEF WorkInv, Wired, Shape, Mine
<1>3. k.wire \in Seq(Marks) /\ k.fate \in Fates
  BY <1>2 DEF Connections
<1>4. told <=> Ends(k.wire)
  <2>1. DOMAIN k.wire = 1..Len(k.wire)
    BY <1>3
  <2> QED BY <1>2, <2>1 DEF Ends
<1>5. IF told \/ Mine.at = "closed"
      THEN /\ daemon' = [at |-> "dead", conn |-> 0, fate |-> Mine.fate, code |-> IF told THEN "real" ELSE "unknown"]
           /\ conns' = [conns EXCEPT ![daemon.conn] = HungUp(@)]
      ELSE /\ conns' = [conns EXCEPT ![daemon.conn].wire = <<>>]
           /\ UNCHANGED daemon
  BY DEF Poll, Over
<1>6. Mine.at # "backlog" /\ (Mine.at = "closed" => SaysEnd(Mine)) /\ (worker.at = "leaving" /\ Mine.at = "open" => SaysEnd(Mine))
  BY <1>1 DEF WorkInv, Learns
<1> HIDE DEF told, k
<1>7. CASE told \/ Mine.at = "closed"
  <2> DEFINE cs == [conns EXCEPT ![daemon.conn] = HungUp(@)]
  <2>1. cs \in [Conns -> Connections] /\ \A c \in Conns : Sound(cs[c]) /\ cs[c].at \in {conns[c].at, "free"}
    BY <1>1, HangsUp DEF WorkInv
  <2>2. conns' = cs
    BY <1>5, <1>7
  <2> HIDE DEF cs
  <2>3. /\ daemon'.at = "dead" /\ daemon'.code = (IF told THEN "real" ELSE "unknown") /\ daemon'.fate = Mine.fate /\ daemon'.conn = 0
        /\ daemon' \in Daemons
    BY <1>2, <1>3, <1>5, <1>7 DEF Daemons
  <2>4. daemon'.code = "unknown" => daemon'.fate # "kept"
    <3>1. ASSUME ~told PROVE Mine.fate # "kept"
      <4>1. Mine.at = "closed" /\ SaysEnd(Mine) /\ ~Ends(k.wire)
        BY <1>4, <1>6, <1>7, <3>1
      <4>2. ~Ends(k.tx)
        BY <1>2, <4>1 DEF Sound, Ends
      <4> QED BY <1>2, <4>1, <4>2 DEF SaysEnd
    <3> QED BY <2>3, <3>1
  <2>5. daemon'.at \notin Calls \cup {"spawning"}
    BY <2>3 DEF Calls
  <2>6. daemon'.at \notin {"found", "absent"}
    BY <2>3
  <2> QED BY <1>1, <2>1, <2>2, <2>3, <2>4, <2>5, <2>6, OnlyTheDaemon, CallsNobody
<1>8. CASE ~(told \/ Mine.at = "closed")
  <2>1. <<>> \in Seq(Marks) /\ Len(<<>>) <= SockMax
    BY WorkerAssumption
  <2>2. daemon \in Daemons /\ (daemon.code = "unknown" => daemon.fate # "kept")
    BY DEF WorkInv, Shape, Daemons, Learns
  <2>3. Mine.at = "closed" \/ (worker.at = "leaving" /\ Mine.at = "open") =>
          Mine.fate # "kept" \/ Ends(<<>>) \/ Ends(Mine.tx)
    BY <1>2, <1>4, <1>6, <1>8 DEF SaysEnd
  <2> QED BY <1>1, <1>5, <1>6, <1>8, <2>1, <2>2, <2>3, TakesFrames
<1> QED BY <1>7, <1>8

LEMMA KillKeeps ==
  ASSUME WorkInv, Kill
  PROVE  WorkInv'
<1> DEFINE k == conns[daemon.conn]
           heard == IF Mine.at = "closed" THEN {} ELSE {"shutdown"}
           x == [k EXCEPT !.rx = k.rx \cup heard]
           q == HungUp(x)
           cs == [conns EXCEPT ![daemon.conn] = q]
<1>1. /\ daemon.at = "hosted" /\ daemon' = [at |-> "idle", conn |-> 0, code |-> "none", fate |-> "kept"] /\ UNCHANGED <<ran, used>>
      /\ daemon.conn \in Conns /\ k \in Connections /\ Sound(k) /\ Shape
  BY DEF Kill, WorkInv, Wired, Shape, Calls
<1>2. \/ conns' = cs /\ worker' = [worker EXCEPT !.killed = heard # {}] /\ UNCHANGED shell
      \/ worker.at \in {"serving", "linger"} /\ Stops(cs)
  <2> DEFINE as == [conns EXCEPT ![daemon.conn] = HungUp([Mine EXCEPT !.rx = Mine.rx \cup heard])]
  <2>1. \/ conns' = as /\ worker' = [worker EXCEPT !.killed = heard # {}] /\ UNCHANGED shell
        \/ worker.at \in {"serving", "linger"} /\ Stops(as)
    BY DEF Kill
  <2>2. as = cs
    BY DEF Mine
  <2> HIDE DEF as, cs, heard
  <2> QED BY <2>1, <2>2
<1>3. x \in Connections /\ x.at = k.at /\ x.tx = k.tx /\ x.wire = k.wire
  <2>1. k.rx \cup heard \in SUBSET {"ping", "shutdown"}
    BY <1>1 DEF Connections
  <2> HIDE DEF heard
  <2> QED BY <1>1, <2>1 DEF Connections
<1>4. Sound(x)
  BY <1>1, <1>3 DEF Sound
<1> HIDE DEF x
<1>5. q \in Connections /\ Sound(q) /\ q.at \in {k.at, "free"}
  BY <1>3, <1>4, HungUpIs
<1> HIDE DEF q
<1>6. cs \in [Conns -> Connections] /\ \A c \in Conns : Sound(cs[c]) /\ cs[c].at \in {conns[c].at, "free"} /\ cs[c] \in Connections
  BY <1>1, <1>5 DEF WorkInv, Wired, Shape
<1> HIDE DEF cs
<1>7. /\ daemon' \in Daemons /\ daemon'.at = "idle" /\ daemon'.code = "none" /\ daemon'.at \notin Calls \cup {"spawning"}
  BY <1>1 DEF Daemons, Fates, Calls
<1>8. /\ used' \in Counts /\ ran' \in Nat
      /\ Patient => /\ worker.for <= used'.asks /\ ran' <= 1
                    /\ worker.at = "starting" /\ worker.for = used'.asks => ran' = 0
  BY <1>1 DEF WorkInv, Shape, Once, Counts
<1>9. CASE conns' = cs /\ worker' = [worker EXCEPT !.killed = heard # {}] /\ UNCHANGED shell
  <2>1. worker' \in Workers /\ worker'.at = worker.at /\ worker'.for = worker.for /\ worker'.heard = worker.heard
    BY <1>1, <1>9 DEF Shape, Workers
  <2>2. shell' \in [up : BOOLEAN, made : Nat]
    BY <1>1, <1>9 DEF Shape
  <2> QED BY <1>6, <1>7, <1>8, <1>9, <2>1, <2>2, CallsNobody
<1>10. CASE worker.at \in {"serving", "linger"} /\ Stops(cs)
  <2>1. worker' \in Workers /\ worker'.at = "leaving" /\ worker'.for = worker.for /\ worker'.heard = worker.heard
    BY <1>1, <1>10 DEF Stops, Shape, Workers
  <2>2. shell' \in [up : BOOLEAN, made : Nat]
    BY <1>1, <1>10 DEF Stops, Shape
  <2>3. /\ \A c \in Conns : conns'[c] = IF cs[c].at \in {"backlog", "open"} THEN Marked(cs[c], "killed") ELSE cs[c]
        /\ conns' = [c \in Conns |-> conns'[c]]
    BY <1>10 DEF Stops, Told
  <2>4. ASSUME NEW c \in Conns
        PROVE  conns'[c] \in Connections /\ Sound(conns'[c]) /\ conns'[c].at = cs[c].at
    <3>1. CASE cs[c].at \in {"backlog", "open"}
      <4>1. conns'[c] = Marked(cs[c], "killed") /\ cs[c] \in Connections /\ Sound(cs[c]) /\ "killed" \in Fates
        BY <1>6, <2>3, <3>1 DEF Fates
      <4> QED BY <3>1, <4>1, MarkedMoves DEF Moves
    <3>2. CASE cs[c].at \notin {"backlog", "open"}
      BY <1>6, <2>3, <3>2
    <3> QED BY <3>1, <3>2
  <2>5. conns' \in [Conns -> Connections] /\ \A c \in Conns : Sound(conns'[c]) /\ conns'[c].at \in {conns[c].at, "free"}
    BY <1>6, <2>3, <2>4
  <2> QED BY <1>7, <1>8, <1>10, <2>1, <2>2, <2>5, CallsNobody
<1> QED BY <1>2, <1>9, <1>10

LEMMA RestKeeps ==
  ASSUME WorkInv, DirectEnds \/ Crash \/ Boot \/ Prints \/ Exits
  PROVE  WorkInv'
<1>1. CASE DirectEnds
  <2>1. daemon.at = "direct" /\ daemon' = [daemon EXCEPT !.at = "dead", !.code = "real"] /\ UNCHANGED <<worker, shell, conns, ran, used>>
    BY <1>1 DEF DirectEnds, record
  <2>2. daemon' \in Daemons /\ daemon'.at = "dead" /\ daemon'.code = "real"
    BY <2>1 DEF WorkInv, Shape, Daemons
  <2>3. daemon'.at \notin Calls \cup {"spawning"}
    BY <2>2 DEF Calls
  <2> QED BY <2>1, <2>2, <2>3, OnlyTheDaemon, CallsNobody
<1>2. CASE Crash
  <2>1. /\ conns' = [c \in Conns |-> HungUp(conns[c])] /\ UNCHANGED <<worker, shell, ran>>
        /\ daemon' = [at |-> "down", conn |-> 0, code |-> "none", fate |-> "kept"]
        /\ used' = [used EXCEPT !.crashes = @ + 1] /\ Shape
    BY <1>2 DEF Crash, WorkInv
  <2>2. daemon' \in Daemons /\ daemon'.at = "down" /\ daemon'.code = "none" /\ daemon'.at \notin Calls \cup {"spawning"}
    BY <2>1 DEF Daemons, Fates, Calls
  <2>3. used' \in Counts /\ used'.asks = used.asks
    BY <2>1 DEF Shape, Counts
  <2>4. ASSUME NEW c \in Conns PROVE conns'[c] \in Connections /\ Sound(conns'[c]) /\ conns'[c].at \in {conns[c].at, "free"}
    <3>1. conns[c] \in Connections /\ Sound(conns[c]) /\ conns'[c] = HungUp(conns[c])
      BY <2>1 DEF WorkInv, Wired, Shape
    <3> QED BY <3>1, HungUpIs
  <2>5. conns' = [c \in Conns |-> conns'[c]]
    BY <2>1
  <2>6. conns' \in [Conns -> Connections]
    BY <2>4, <2>5
  <2>7. /\ worker' \in Workers /\ worker' = worker /\ shell' \in [up : BOOLEAN, made : Nat] /\ ran' = ran /\ ran \in Nat
        /\ Patient => ran <= 1 /\ worker.for <= used.asks /\ (worker.at = "starting" /\ worker.for = used.asks => ran = 0)
    BY <2>1 DEF WorkInv, Shape, Once, Workers
  <2> QED BY <2>2, <2>3, <2>4, <2>6, <2>7, CallsNobody
<1>3. CASE Boot
  <2>1. daemon.at = "down" /\ UNCHANGED <<worker, shell, ran, used>>
    BY <1>3 DEF Boot, record
  <2>2. CASE Listening /\ Dials("adopting", {})
    <3>1. {} \in SUBSET {"ping", "shutdown"}
      OBVIOUS
    <3> QED BY <2>1, <2>2, <3>1, OnlyTheDaemon, DialsKeeps
  <2>3. CASE daemon' = [daemon EXCEPT !.at = "idle"] /\ UNCHANGED conns
    <3>1. daemon' \in Daemons /\ daemon'.at = "idle" /\ daemon'.code = daemon.code /\ daemon'.fate = daemon.fate
      BY <2>3 DEF WorkInv, Shape, Daemons
    <3>2. daemon.code = "unknown" => daemon.fate # "kept"
      BY DEF WorkInv, Learns
    <3>3. daemon'.at \notin Calls \cup {"spawning"}
      BY <3>1 DEF Calls
    <3> QED BY <2>1, <2>3, <3>1, <3>2, <3>3, OnlyTheDaemon, CallsNobody
  <2> QED BY <1>3, <2>2, <2>3 DEF Boot
<1>4. CASE Prints \/ Exits
  <2>1. UNCHANGED <<worker, conns, daemon, ran, used>>
    BY <1>4 DEF Prints, Exits, record
  <2>2. shell \in [up : BOOLEAN, made : Nat]
    BY DEF WorkInv, Shape
  <2>3. ASSUME Prints PROVE shell' \in [up : BOOLEAN, made : Nat]
    <3>1. shell' = [shell EXCEPT !.made = shell.made + 1]
      BY <2>3 DEF Prints
    <3>2. shell.made + 1 \in Nat
      BY <2>2
    <3> QED BY <2>2, <3>1, <3>2
  <2>4. ASSUME Exits PROVE shell' \in [up : BOOLEAN, made : Nat]
    BY <2>2, <2>4 DEF Exits
  <2> QED BY <1>4, <2>1, <2>3, <2>4 DEF WorkInv, Shape, Wired, Once, Waits, Met, Mine, Learns
<1> QED BY <1>1, <1>2, <1>3, <1>4

-----------------------------------------------------------------------------
LEMMA InitWorks == Init => WorkInv
<1> SUFFICES ASSUME Init PROVE WorkInv
  OBVIOUS
<1>1. <<>> \in Seq(Marks) /\ Len(<<>>) <= SockMax /\ {} \in SUBSET {"ping", "shutdown"}
  BY WorkerAssumption
<1>2. Free \in Connections /\ Free.at = "free" /\ Sound(Free)
  BY <1>1 DEF Free, Connections, Fates, Sound
<1>3. \A c \in Conns : conns[c] = Free
  BY DEF Init
<1>4. /\ worker \in Workers /\ worker.at = "none" /\ worker.for = 0 /\ ~worker.heard
      /\ daemon \in Daemons /\ daemon.at = "idle" /\ daemon.code = "none" /\ used.asks = 0 /\ ran = 0
  BY DEF Init, Asleep, Workers, Daemons, Fates
<1>5. Shape
  BY <1>2, <1>4 DEF Init, Shape, Workers, Daemons
<1>6. Wired /\ Once /\ Learns
  BY <1>2, <1>3, <1>4 DEF Wired, Once, Learns, Calls
<1> QED BY <1>5, <1>6 DEF WorkInv

LEMMA StepWorks ==
  ASSUME WorkInv, [Next]_vars
  PROVE  WorkInv'
<1>1. CASE WorkerStep
  BY <1>1, BindKeeps, ReadPtyKeeps, WaitedKeeps, LapseKeeps, LeaveKeeps, AcceptKeeps, ServeKeeps, FinalFlushKeeps DEF WorkerStep
<1>2. CASE Greet \/ Adopt
  BY <1>2, HostsKeeps DEF Greet, Adopt
<1>3. CASE DaemonStep
  BY <1>2, <1>3, PingedKeeps, PingReadsKeeps, ReattachKeeps, SpawnKeeps, ConnectKeeps, SpawnFailsKeeps, GreetFailsKeeps, PollKeeps, RestKeeps DEF DaemonStep
<1>4. CASE UNCHANGED vars
  BY <1>4 DEF vars, WorkInv, Shape, Wired, Once, Waits, Met, Mine, Learns
<1> QED BY <1>1, <1>3, <1>4, BindFailsKeeps, AskKeeps, KillKeeps, RestKeeps DEF Next

\* For any number of connections, requests, crashes and failed starts, any queues and sockets of any size: a command is
\* started once at most per request (the fallback of create_session_hosted does not run it again, bs-pty.h), as long as
\* starting a worker and first connecting to it stay within the time limits of the code.
THEOREM OnceCorrect == Patient => (Spec => []RunsOnce)
<1> SUFFICES ASSUME Patient PROVE Spec => []RunsOnce
  OBVIOUS
<1>1. Init => WorkInv
  BY InitWorks
<1>2. WorkInv /\ [Next]_vars => WorkInv'
  BY StepWorks
<1>3. WorkInv => RunsOnce
  BY DEF WorkInv, Once, RunsOnce
<1> QED BY <1>1, <1>2, <1>3, PTL DEF Spec

\* For any of them, and however long a start takes: a session whose end comes without its exit code is one whose connection
\* could not keep up with the shell (queue_to_client) or with the last flush of a worker that leaves, or whose worker was
\* told to stop (bs-session-worker.h); whoever keeps up reads the WMSG_DIED of its worker.
THEOREM CodeCorrect == Spec => []CodeIsReal
<1>1. Init => WorkInv
  BY InitWorks
<1>2. WorkInv /\ [Next]_vars => WorkInv'
  BY StepWorks
<1>3. WorkInv => CodeIsReal
  BY DEF WorkInv, Learns, CodeIsReal
<1> QED BY <1>1, <1>2, <1>3, PTL DEF Spec

-----------------------------------------------------------------------------
(* Induction on numbers, for want of a schema: a set of them that has 0 and, with a number, the next has them all. *)

Below(T, k) == {j \in T : j <= k}

\* A set of numbers that is not empty has a least one: of its finite parts Below(T, k), one has no other within it.
LEMMA LeastOf ==
  ASSUME NEW T \in SUBSET Nat, T # {}
  PROVE  \E k \in T : \A j \in T : k <= j
<1> DEFINE parts == {Below(T, k) : k \in T}
<1>1. IsWellFoundedOn(StrictSubsetOrdering(T), FiniteSubsetsOf(T))
  BY FS_StrictSubsetOrderingWellFounded
<1>2. ASSUME NEW k \in T PROVE Below(T, k) \in FiniteSubsetsOf(T)
  <2>1. Below(T, k) \in SUBSET Nat /\ Below(T, k) \in SUBSET T /\ k \in Nat /\ \A s \in Below(T, k) : s <= k
    BY DEF Below
  <2>2. IsFiniteSet(Below(T, k))
    BY <2>1, FS_BoundedSetOfNaturals
  <2> QED BY <2>1, <2>2 DEF FiniteSubsetsOf
<1>3. parts \subseteq FiniteSubsetsOf(T) /\ parts # {}
  BY <1>2
<1> HIDE DEF parts
<1>4. PICK X \in parts : \A Y \in parts : ~(<<Y, X>> \in StrictSubsetOrdering(T))
  BY <1>1, <1>3, WFMin
<1>5. PICK k \in T : X = Below(T, k)
  BY DEF parts
<1>6. ASSUME NEW j \in T PROVE k <= j
  <2> SUFFICES ASSUME ~(k <= j) PROVE FALSE
    OBVIOUS
  <2>1. j <= k /\ j \in Nat /\ k \in Nat
    OBVIOUS
  <2>2. Below(T, j) \in parts
    BY DEF parts
  <2>3. ASSUME NEW i \in Below(T, j) PROVE i \in Below(T, k)
    <3>1. i \in T /\ i <= j /\ i \in Nat
      BY DEF Below
    <3>2. i <= k
      BY <3>1, <2>1
    <3> QED BY <3>1, <3>2 DEF Below
  <2>4. k \in Below(T, k) /\ k \notin Below(T, j)
    BY <2>1 DEF Below
  <2>5. Below(T, j) \in SUBSET T /\ Below(T, k) \in SUBSET T
    BY DEF Below
  <2>6. <<Below(T, j), Below(T, k)>> \in StrictSubsetOrdering(T)
    BY <2>3, <2>4, <2>5 DEF StrictSubsetOrdering
  <2> QED BY <1>4, <1>5, <2>2, <2>6
<1> QED BY <1>6

LEMMA Inductive ==
  ASSUME NEW T \in SUBSET Nat, 0 \in T, \A n \in T : n + 1 \in T
  PROVE  T = Nat
<1>1. SUFFICES ASSUME Nat \ T # {} PROVE FALSE
  OBVIOUS
<1>2. PICK k \in Nat \ T : \A j \in Nat \ T : k <= j
  BY <1>1, LeastOf
<1>3. k # 0 /\ k - 1 \in Nat /\ k - 1 < k
  BY <1>2
<1>4. k - 1 \in T
  BY <1>2, <1>3
<1> QED BY <1>2, <1>3, <1>4

-----------------------------------------------------------------------------
(* What FlattenSeq computes. *)

Joins(s, f, n) == f = [i \in 1..n |-> IF i = 1 THEN s[i] ELSE f[i - 1] \o s[i]]

LEMMA JoinsExist ==
  ASSUME NEW s, NEW n \in Nat
  PROVE  \E f : Joins(s, f, n)
<1> DEFINE T == {m \in Nat : \E f : Joins(s, f, m)}
<1>1. 0 \in T
  <2>1. Joins(s, [i \in 1..0 |-> 0], 0)
    BY DEF Joins
  <2> QED BY <2>1
<1>2. ASSUME NEW m \in T PROVE m + 1 \in T
  <2>1. PICK f : Joins(s, f, m)
    OBVIOUS
  <2> DEFINE g == [i \in 1..m + 1 |-> IF i \in 1..m THEN f[i] ELSE IF i = 1 THEN s[i] ELSE f[i - 1] \o s[i]]
  <2>2. \A i \in 1..m : f[i] = IF i = 1 THEN s[i] ELSE f[i - 1] \o s[i]
    BY <2>1 DEF Joins
  <2>3. ASSUME NEW i \in 1..m + 1 PROVE g[i] = IF i = 1 THEN s[i] ELSE g[i - 1] \o s[i]
    <3>1. i # 1 => i - 1 \in 1..m /\ i - 1 \in 1..m + 1
      OBVIOUS
    <3>2. i # 1 => g[i - 1] = f[i - 1]
      BY <3>1
    <3>3. g[i] = IF i \in 1..m THEN f[i] ELSE IF i = 1 THEN s[i] ELSE f[i - 1] \o s[i]
      OBVIOUS
    <3> HIDE DEF g
    <3> QED BY <2>2, <3>1, <3>2, <3>3
  <2>4. g = [i \in 1..m + 1 |-> g[i]]
    OBVIOUS
  <2> HIDE DEF g
  <2>5. Joins(s, g, m + 1)
    BY <2>3, <2>4 DEF Joins
  <2> QED BY <2>5
<1>3. T \subseteq Nat
  OBVIOUS
<1> HIDE DEF T
<1>4. T = Nat
  BY <1>1, <1>2, <1>3, Inductive
<1> QED BY <1>4 DEF T

LEMMA FlattenIs ==
  ASSUME NEW s, Len(s) \in Nat, Len(s) # 0
  PROVE  \E f : Joins(s, f, Len(s)) /\ FlattenSeq(s) = f[Len(s)]
<1> DEFINE h == CHOOSE f : f = [i \in 1..Len(s) |-> IF i = 1 THEN s[i] ELSE f[i - 1] \o s[i]]
<1>1. \E f : f = [i \in 1..Len(s) |-> IF i = 1 THEN s[i] ELSE f[i - 1] \o s[i]]
  BY JoinsExist DEF Joins
<1>2. h = [i \in 1..Len(s) |-> IF i = 1 THEN s[i] ELSE h[i - 1] \o s[i]]
  BY <1>1
<1>3. FlattenSeq(s) = h[Len(s)]
  BY DEF FlattenSeq
<1> QED BY <1>2, <1>3 DEF Joins

-----------------------------------------------------------------------------
(* What a queue carries. *)

\* The numbers after a, up to b.
Run(a, b) == [i \in 1..b - a |-> a + i]

\* A frame that comes when the reader has a chunks leaves it with b.
Brings(x, a, b) ==
  /\ x.k = "out" => x.n = a + 1 /\ b = a + 1
  /\ x.k = "scroll" => a = x.from /\ b = x.n /\ a <= b
  /\ x.k \notin {"out", "scroll"} => b = a

Tallies(s, f) == f \in [0..Len(s) -> Nat] /\ \A i \in 1..Len(s) : Brings(s[i], f[i - 1], f[i])
Carries(s, m, e) == \E f : Tallies(s, f) /\ f[0] = m /\ f[Len(s)] = e

LEMMA CarriesNothing ==
  ASSUME NEW m \in Nat PROVE Carries(<<>>, m, m) /\ \A e : Carries(<<>>, m, e) => e = m
<1>1. Len(<<>>) = 0
  OBVIOUS
<1> DEFINE f == [i \in 0..0 |-> m]
<1>2. Tallies(<<>>, f) /\ f[0] = m
  BY <1>1 DEF Tallies
<1> HIDE DEF f
<1> QED BY <1>1, <1>2 DEF Carries

LEMMA CarriesOne ==
  ASSUME NEW x, NEW a \in Nat, NEW b \in Nat, Brings(x, a, b)
  PROVE  Carries(<<x>>, a, b)
<1> DEFINE f == [i \in 0..1 |-> IF i = 0 THEN a ELSE b]
<1>1. Len(<<x>>) = 1 /\ <<x>>[1] = x
  OBVIOUS
<1>2. f \in [0..1 -> Nat] /\ f[0] = a /\ f[1] = b
  OBVIOUS
<1> HIDE DEF f
<1>3. \A i \in 1..1 : i = 1 /\ i - 1 = 0
  OBVIOUS
<1>4. Tallies(<<x>>, f)
  BY <1>1, <1>2, <1>3 DEF Tallies
<1> QED BY <1>1, <1>2, <1>4 DEF Carries

LEMMA CarriesTypes ==
  ASSUME NEW s \in Seq(Marks), NEW m, NEW e, Carries(s, m, e)
  PROVE  m \in Nat /\ e \in Nat
<1>1. PICK f : Tallies(s, f) /\ f[0] = m /\ f[Len(s)] = e
  BY DEF Carries
<1>2. Len(s) \in Nat /\ 0 \in 0..Len(s) /\ Len(s) \in 0..Len(s)
  OBVIOUS
<1> QED BY <1>1, <1>2 DEF Tallies

LEMMA CarriesBoth ==
  ASSUME NEW s \in Seq(Marks), NEW t \in Seq(Marks), NEW m, NEW x, NEW e, Carries(s, m, x), Carries(t, x, e)
  PROVE  Carries(s \o t, m, e)
<1>1. PICK f : Tallies(s, f) /\ f[0] = m /\ f[Len(s)] = x
  BY DEF Carries
<1>2. PICK g : Tallies(t, g) /\ g[0] = x /\ g[Len(t)] = e
  BY DEF Carries
<1>3. /\ Len(s \o t) = Len(s) + Len(t) /\ Len(s) \in Nat /\ Len(t) \in Nat
      /\ \A i \in 1..Len(s) + Len(t) : (s \o t)[i] = IF i <= Len(s) THEN s[i] ELSE t[i - Len(s)]
  BY ConcatProperties
<1> DEFINE h == [i \in 0..Len(s) + Len(t) |-> IF i <= Len(s) THEN f[i] ELSE g[i - Len(s)]]
<1>4. h \in [0..Len(s) + Len(t) -> Nat]
  <2> SUFFICES ASSUME NEW i \in 0..Len(s) + Len(t) PROVE (IF i <= Len(s) THEN f[i] ELSE g[i - Len(s)]) \in Nat
    OBVIOUS
  <2>1. i <= Len(s) => i \in 0..Len(s)
    BY <1>3
  <2>2. ~(i <= Len(s)) => i - Len(s) \in 0..Len(t)
    BY <1>3
  <2> QED BY <1>1, <1>2, <2>1, <2>2 DEF Tallies
<1>5. \A i \in 0..Len(s) + Len(t) : h[i] = IF i <= Len(s) THEN f[i] ELSE g[i - Len(s)]
  OBVIOUS
<1> HIDE DEF h
<1>6. h[0] = m
  BY <1>1, <1>3, <1>5
<1>7. h[Len(s) + Len(t)] = e
  <2>1. CASE Len(t) = 0
    BY <1>1, <1>2, <1>3, <1>5, <2>1
  <2>2. CASE Len(t) # 0
    <3>1. ~(Len(s) + Len(t) <= Len(s)) /\ Len(s) + Len(t) - Len(s) = Len(t) /\ Len(s) + Len(t) \in 0..Len(s) + Len(t)
      BY <1>3, <2>2
    <3> QED BY <1>2, <1>5, <3>1
  <2> QED BY <2>1, <2>2
<1>8. ASSUME NEW i \in 1..Len(s) + Len(t) PROVE Brings((s \o t)[i], h[i - 1], h[i])
  <2>1. i \in 0..Len(s) + Len(t) /\ i - 1 \in 0..Len(s) + Len(t)
    BY <1>3
  <2>2. CASE i <= Len(s)
    <3>1. i \in 1..Len(s) /\ i - 1 <= Len(s)
      BY <1>3, <2>2
    <3>2. h[i] = f[i] /\ h[i - 1] = f[i - 1] /\ (s \o t)[i] = s[i]
      BY <1>3, <1>5, <2>1, <2>2, <3>1
    <3>3. Brings(s[i], f[i - 1], f[i])
      BY <1>1, <3>1 DEF Tallies
    <3> QED BY <3>2, <3>3
  <2>3. CASE ~(i <= Len(s))
    <3> DEFINE j == i - Len(s)
    <3>1. j \in 1..Len(t) /\ j - 1 = i - 1 - Len(s)
      BY <1>3, <2>3
    <3>2. h[i] = g[j] /\ (s \o t)[i] = t[j]
      BY <1>3, <1>5, <2>1, <2>3
    <3>3. h[i - 1] = g[j - 1]
      <4>1. CASE i - 1 <= Len(s)
        <5>1. i - 1 = Len(s) /\ j - 1 = 0
          BY <1>3, <2>3, <4>1
        <5> QED BY <1>1, <1>2, <1>5, <2>1, <4>1, <5>1
      <4>2. CASE ~(i - 1 <= Len(s))
        BY <1>5, <2>1, <3>1, <4>2
      <4> QED BY <4>1, <4>2
    <3>4. Brings(t[j], g[j - 1], g[j])
      BY <1>2, <3>1 DEF Tallies
    <3> QED BY <3>2, <3>3, <3>4
  <2> QED BY <2>2, <2>3
<1>9. Tallies(s \o t, h)
  BY <1>3, <1>4, <1>8 DEF Tallies
<1> QED BY <1>3, <1>6, <1>7, <1>9 DEF Carries

LEMMA CarriesHalves ==
  ASSUME NEW s \in Seq(Marks), NEW n \in 0..Len(s), NEW m, NEW e, Carries(s, m, e)
  PROVE  \E x \in Nat : Carries(SubSeq(s, 1, n), m, x) /\ Carries(SubSeq(s, n + 1, Len(s)), x, e)
<1>1. PICK f : Tallies(s, f) /\ f[0] = m /\ f[Len(s)] = e
  BY DEF Carries
<1> DEFINE a == SubSeq(s, 1, n)
           b == SubSeq(s, n + 1, Len(s))
<1>0. Len(s) \in Nat /\ n \in Nat /\ \A i \in 1..Len(s) : s[i] \in Marks
  OBVIOUS
<1>2. Len(a) = n /\ \A i \in 1..n : a[i] = s[i]
  <2>1. \A i \in 1..n : s[i] \in Marks
    BY <1>0
  <2> QED BY <1>0, <2>1, SubSeqProperties
<1>3. Len(b) = Len(s) - n /\ \A i \in 1..Len(s) - n : b[i] = s[n + i]
  <2>1. \A i \in n + 1..Len(s) : s[i] \in Marks
    BY <1>0
  <2> QED BY <1>0, <2>1, SubSeqProperties
<1> HIDE DEF a, b
<1> DEFINE fa == [i \in 0..n |-> f[i]]
           fb == [i \in 0..Len(s) - n |-> f[n + i]]
<1>4. fa \in [0..n -> Nat] /\ \A i \in 0..n : fa[i] = f[i]
  BY <1>0, <1>1 DEF Tallies
<1>5. fb \in [0..Len(s) - n -> Nat] /\ \A i \in 0..Len(s) - n : fb[i] = f[n + i]
  <2>1. \A i \in 0..Len(s) - n : n + i \in 0..Len(s)
    BY <1>0
  <2> QED BY <1>1, <2>1 DEF Tallies
<1> HIDE DEF fa, fb
<1>6. ASSUME NEW i \in 1..n PROVE Brings(a[i], fa[i - 1], fa[i])
  <2>1. i \in 1..Len(s) /\ i \in 0..n /\ i - 1 \in 0..n
    BY <1>0
  <2>2. fa[i] = f[i] /\ fa[i - 1] = f[i - 1] /\ a[i] = s[i]
    BY <1>2, <1>4, <2>1
  <2>3. Brings(s[i], f[i - 1], f[i])
    BY <1>1, <2>1 DEF Tallies
  <2> QED BY <2>2, <2>3
<1>7. ASSUME NEW i \in 1..Len(s) - n PROVE Brings(b[i], fb[i - 1], fb[i])
  <2>1. n + i \in 1..Len(s) /\ i \in 0..Len(s) - n /\ i - 1 \in 0..Len(s) - n /\ n + (i - 1) = n + i - 1
    BY <1>0
  <2>2. fb[i] = f[n + i] /\ fb[i - 1] = f[n + i - 1] /\ b[i] = s[n + i]
    BY <1>3, <1>5, <2>1
  <2>3. Brings(s[n + i], f[n + i - 1], f[n + i])
    BY <1>1, <2>1 DEF Tallies
  <2> QED BY <2>2, <2>3
<1>8. Tallies(a, fa) /\ fa[0] = m /\ fa[Len(a)] = f[n]
  <2>1. 0 \in 0..n /\ n \in 0..n
    BY <1>0
  <2> QED BY <1>1, <1>2, <1>4, <1>6, <2>1 DEF Tallies
<1>9. Tallies(b, fb) /\ fb[0] = f[n] /\ fb[Len(b)] = e
  <2>1. 0 \in 0..Len(s) - n /\ Len(s) - n \in 0..Len(s) - n /\ n + 0 = n /\ n + (Len(s) - n) = Len(s)
    BY <1>0
  <2>2. fb[0] = f[n] /\ fb[Len(s) - n] = f[Len(s)]
    BY <1>5, <2>1
  <2> QED BY <1>1, <1>3, <1>5, <1>7, <2>2 DEF Tallies
<1>10. f[n] \in Nat
  BY <1>1 DEF Tallies
<1> QED BY <1>8, <1>9, <1>10 DEF Carries, a, b

LEMMA RunIs ==
  ASSUME NEW a \in Nat, NEW b \in Nat, a <= b
  PROVE  Run(a, b) \in Seq(Nat) /\ Len(Run(a, b)) = b - a /\ \A i \in 1..b - a : Run(a, b)[i] = a + i
<1>1. b - a \in Nat /\ \A i \in 1..b - a : a + i \in Nat
  OBVIOUS
<1>2. Run(a, b) \in [1..b - a -> Nat]
  BY <1>1 DEF Run
<1>3. \A s, n : n \in Nat /\ s \in [1..n -> Nat] => s \in Seq(Nat) /\ Len(s) = n
  OBVIOUS
<1>4. \A i \in 1..b - a : Run(a, b)[i] = a + i
  BY DEF Run
<1> QED BY <1>1, <1>2, <1>3, <1>4

LEMMA RunsJoin ==
  ASSUME NEW a \in Nat, NEW b \in Nat, NEW c \in Nat, a <= b, b <= c
  PROVE  Run(a, b) \o Run(b, c) = Run(a, c)
<1> DEFINE p == Run(a, b)
           q == Run(b, c)
           r == Run(a, c)
<1>1. p \in Seq(Nat) /\ Len(p) = b - a /\ \A i \in 1..b - a : p[i] = a + i
  BY RunIs
<1>2. q \in Seq(Nat) /\ Len(q) = c - b /\ \A i \in 1..c - b : q[i] = b + i
  BY RunIs
<1>3. a <= c
  OBVIOUS
<1>4. r \in Seq(Nat) /\ Len(r) = c - a /\ \A i \in 1..c - a : r[i] = a + i
  BY <1>3, RunIs
<1> HIDE DEF p, q, r
<1>5. /\ p \o q \in Seq(Nat) /\ Len(p \o q) = Len(p) + Len(q)
      /\ \A i \in 1..Len(p) + Len(q) : (p \o q)[i] = IF i <= Len(p) THEN p[i] ELSE q[i - Len(p)]
  BY <1>1, <1>2, ConcatProperties
<1>6. Len(p \o q) = c - a
  BY <1>1, <1>2, <1>5
<1>7. ASSUME NEW i \in 1..c - a PROVE (p \o q)[i] = r[i]
  <2>1. (p \o q)[i] = IF i <= b - a THEN p[i] ELSE q[i - (b - a)]
    <3>1. PICK k, l : k = Len(p) /\ l = Len(q)
      OBVIOUS
    <3>2. k = b - a /\ l = c - b /\ i \in 1..k + l
      BY <1>1, <1>2, <3>1
    <3>3. (p \o q)[i] = IF i <= k THEN p[i] ELSE q[i - k]
      BY ONLY <1>5, <3>1, <3>2
    <3> QED BY ONLY <3>2, <3>3
  <2>2. CASE i <= b - a
    <3>1. i \in 1..b - a
      BY <2>2
    <3> QED BY <1>1, <1>4, <2>1, <2>2, <3>1
  <2>3. CASE ~(i <= b - a)
    <3>1. i - (b - a) \in 1..c - b /\ b + (i - (b - a)) = a + i
      BY <2>3
    <3> QED BY <1>2, <1>4, <2>1, <2>3, <3>1
  <2> QED BY <2>2, <2>3
<1>8. p \o q = r
  BY <1>4, <1>5, <1>6, <1>7, SeqEqual
<1> QED BY <1>8 DEF p, q, r

LEMMA OutsCarries ==
  ASSUME NEW m \in Nat, NEW n \in Nat, m <= n
  PROVE  Carries(Outs(m, n), m, n) /\ Len(Outs(m, n)) = n - m
<1>1. n - m \in Nat
  OBVIOUS
<1>2. Outs(m, n) = [i \in 1..n - m |-> [k |-> "out", n |-> m + i]]
  BY DEF Outs
<1>3. Len(Outs(m, n)) = n - m /\ \A i \in 1..n - m : Outs(m, n)[i] = [k |-> "out", n |-> m + i]
  BY <1>1, <1>2
<1> DEFINE f == [i \in 0..n - m |-> m + i]
<1>4. f \in [0..n - m -> Nat] /\ \A i \in 0..n - m : f[i] = m + i
  OBVIOUS
<1> HIDE DEF f
<1>5. ASSUME NEW i \in 1..n - m PROVE Brings(Outs(m, n)[i], f[i - 1], f[i])
  <2>1. i \in 0..n - m /\ i - 1 \in 0..n - m /\ m + (i - 1) + 1 = m + i
    OBVIOUS
  <2>2. f[i] = m + i /\ f[i - 1] + 1 = m + i
    BY <1>4, <2>1
  <2>3. Outs(m, n)[i].k = "out" /\ Outs(m, n)[i].n = m + i
    BY <1>3
  <2> HIDE DEF Outs
  <2> QED BY <2>2, <2>3 DEF Brings
<1>6. 0 \in 0..n - m /\ n - m \in 0..n - m /\ m + 0 = m /\ m + (n - m) = n
  OBVIOUS
<1>7. f[0] = m /\ f[n - m] = n
  BY <1>4, <1>6
<1> QED BY <1>3, <1>4, <1>5, <1>7 DEF Carries, Tallies

LEMMA DiedCarries ==
  ASSUME NEW a \in Nat
  PROVE  Carries(<<[k |-> "died"]>>, a, a) /\ Carries(<<[k |-> "ready"]>>, a, a) /\ Carries(<<[k |-> "pong"]>>, a, a)
<1>1. Brings([k |-> "died"], a, a) /\ Brings([k |-> "ready"], a, a) /\ Brings([k |-> "pong"], a, a)
  BY DEF Brings
<1> QED BY <1>1, CarriesOne

LEMMA GreetingCarries ==
  ASSUME Shape
  PROVE  Carries(Greeting, Gone, worker.read)
<1> DEFINE r == <<[k |-> "ready"]>>
           s == IF worker.read > 0 THEN <<[k |-> "scroll", from |-> Gone, n |-> worker.read]>> ELSE <<>>
           d == IF worker.at = "linger" THEN <<[k |-> "died"]>> ELSE <<>>
<1>0. worker.read \in Nat /\ Gone \in Nat /\ Gone <= worker.read
  BY GoneIs DEF Shape
<1>1. r \in Seq(Marks) /\ Carries(r, Gone, Gone)
  <2>1. [k |-> "ready"] \in Marks
    BY DEF Marks
  <2> QED BY <1>0, <2>1, DiedCarries
<1>2. s \in Seq(Marks) /\ Carries(s, Gone, worker.read)
  <2>1. CASE worker.read > 0
    <3>1. PICK x : x = [k |-> "scroll", from |-> Gone, n |-> worker.read]
      OBVIOUS
    <3>2. x \in Marks
      BY <1>0, <3>1 DEF Marks
    <3>3. x.k = "scroll" /\ x.from = Gone /\ x.n = worker.read
      BY <3>1
    <3>4. Brings(x, Gone, worker.read)
      BY <1>0, <3>3 DEF Brings
    <3>5. s = <<x>>
      BY <2>1, <3>1
    <3> HIDE DEF s
    <3>6. Carries(<<x>>, Gone, worker.read)
      BY <1>0, <3>4, CarriesOne
    <3> QED BY <3>2, <3>5, <3>6
  <2>2. CASE ~(worker.read > 0)
    <3>1. worker.read = 0 /\ Gone = 0 /\ s = <<>>
      BY <1>0, <2>2
    <3> HIDE DEF s
    <3> QED BY <3>1, CarriesNothing
  <2> QED BY <2>1, <2>2
<1>3. d \in Seq(Marks) /\ Carries(d, worker.read, worker.read)
  BY <1>0, DiedIs, DiedCarries, CarriesNothing
<1>4. Greeting = (r \o s) \o d
  BY DEF Greeting, Died
<1> HIDE DEF r, s, d
<1>5. r \o s \in Seq(Marks) /\ Carries(r \o s, Gone, worker.read)
  BY <1>1, <1>2, CarriesBoth, ConcatProperties
<1>6. Carries((r \o s) \o d, Gone, worker.read)
  BY <1>3, <1>5, CarriesBoth
<1> QED BY <1>4, <1>6

\* What the poller makes of the frames it takes from the wire.
LEMMA ReadIs ==
  ASSUME NEW s \in Seq(Marks), NEW m, NEW e, Carries(s, m, e)
  PROVE  m <= e /\ Read(s, {"scroll", "out"}) = Run(m, e)
<1>1. PICK f : Tallies(s, f) /\ f[0] = m /\ f[Len(s)] = e
  BY DEF Carries
<1>0. Len(s) \in Nat /\ DOMAIN s = 1..Len(s) /\ \A i \in 1..Len(s) : s[i] \in Marks
  OBVIOUS
<1> DEFINE p == [i \in DOMAIN s |-> IF s[i].k \in {"scroll", "out"} THEN Of(s[i]) ELSE <<>>]
<1>2. ASSUME NEW i \in 1..Len(s)
      PROVE  f[i - 1] \in Nat /\ f[i] \in Nat /\ f[i - 1] <= f[i] /\ p[i] = Run(f[i - 1], f[i])
  <2>1. f[i - 1] \in Nat /\ f[i] \in Nat /\ Brings(s[i], f[i - 1], f[i]) /\ s[i] \in Marks
    <3>1. i \in 0..Len(s) /\ i - 1 \in 0..Len(s)
      BY <1>0
    <3> QED BY <1>0, <1>1, <3>1 DEF Tallies
  <2>2. p[i] = IF s[i].k \in {"scroll", "out"} THEN Of(s[i]) ELSE <<>>
    BY <1>0
  <2> HIDE DEF p
  <2> DEFINE a == f[i - 1]
             b == f[i]
  <2> HIDE DEF a, b
  <2>3. a \in Nat /\ b \in Nat /\ Brings(s[i], a, b)
    BY <2>1 DEF a, b
  <2>4. CASE s[i].k = "out"
    <3>1. s[i].n = a + 1 /\ b = a + 1
      BY <2>3, <2>4 DEF Brings
    <3>2. p[i] = <<a + 1>>
      BY <2>2, <2>4, <3>1 DEF Of
    <3>3. Run(a, b) = <<a + 1>>
      <4>0. a <= b /\ b - a = 1 /\ 1 \in 1..b - a
        BY <2>3, <3>1
      <4>1. Run(a, b) \in Seq(Nat) /\ Len(Run(a, b)) = 1 /\ Run(a, b)[1] = a + 1
        BY <2>3, <4>0, RunIs
      <4>2. <<a + 1>> \in Seq(Nat) /\ Len(<<a + 1>>) = 1 /\ <<a + 1>>[1] = a + 1
        BY <2>3
      <4> QED BY <4>1, <4>2, SeqEqual
    <3> QED BY <2>3, <3>1, <3>2, <3>3 DEF a, b
  <2>5. CASE s[i].k = "scroll"
    <3>1. a = s[i].from /\ b = s[i].n /\ a <= b
      BY <2>3, <2>5 DEF Brings
    <3>2. p[i] = [j \in 1..b - a |-> a + j]
      BY <2>2, <2>5, <3>1 DEF Of
    <3> QED BY <2>3, <3>1, <3>2 DEF a, b, Run
  <2>6. CASE s[i].k \notin {"out", "scroll"}
    <3>1. a = b
      BY <2>3, <2>6 DEF Brings
    <3>2. p[i] = <<>>
      BY <2>2, <2>6
    <3>3. Run(a, b) = <<>>
      <4>1. Run(a, b) \in Seq(Nat) /\ Len(Run(a, b)) = 0
        BY <2>3, <3>1, RunIs
      <4> QED BY <4>1
    <3> QED BY <2>3, <3>1, <3>2, <3>3 DEF a, b
  <2> QED BY <2>4, <2>5, <2>6
<1>3. p \in [1..Len(s) -> Seq(Nat)] /\ Len(p) = Len(s)
  <2>1. \A i \in 1..Len(s) : p[i] \in Seq(Nat)
    <3> SUFFICES ASSUME NEW i \in 1..Len(s) PROVE p[i] \in Seq(Nat)
      OBVIOUS
    <3> HIDE DEF p
    <3>1. f[i - 1] \in Nat /\ f[i] \in Nat /\ f[i - 1] <= f[i] /\ p[i] = Run(f[i - 1], f[i])
      BY <1>2
    <3> QED BY <3>1, RunIs
  <2>2. p = [i \in 1..Len(s) |-> p[i]]
    BY <1>0
  <2> HIDE DEF p
  <2>3. p \in [1..Len(s) -> Seq(Nat)]
    BY <2>1, <2>2
  <2> QED BY <1>0, <2>3
<1>4. Read(s, {"scroll", "out"}) = FlattenSeq(p)
  BY DEF Read
<1> HIDE DEF p
<1>5. CASE Len(s) = 0
  <2>1. p = <<>> /\ m = e
    BY <1>1, <1>3, <1>5
  <2>2. FlattenSeq(p) = <<>>
    BY <1>3, <1>5, <2>1 DEF FlattenSeq
  <2>3. m \in Nat
    BY CarriesTypes
  <2>4. Run(m, m) = <<>>
    <3>1. Run(m, m) \in Seq(Nat) /\ Len(Run(m, m)) = 0
      BY <2>3, RunIs
    <3> QED BY <3>1
  <2> QED BY <1>4, <2>1, <2>2, <2>3, <2>4
<1>6. CASE Len(s) # 0
  <2>1. PICK g : Joins(p, g, Len(p)) /\ FlattenSeq(p) = g[Len(p)]
    BY <1>0, <1>3, <1>6, FlattenIs
  <2>2. \A i \in 1..Len(s) : g[i] = IF i = 1 THEN p[i] ELSE g[i - 1] \o p[i]
    BY <1>3, <2>1 DEF Joins
  <2> DEFINE T == {n \in Nat : n \in 1..Len(s) => m <= f[n] /\ g[n] = Run(m, f[n])}
  <2>3. 0 \in T
    OBVIOUS
  <2>4. ASSUME NEW n \in T PROVE n + 1 \in T
    <3>0. n \in Nat /\ n + 1 \in Nat
      OBVIOUS
    <3> SUFFICES ASSUME n + 1 \in 1..Len(s) PROVE m <= f[n + 1] /\ g[n + 1] = Run(m, f[n + 1])
      BY <3>0
    <3>1. (n + 1) - 1 = n
      BY <3>0
    <3>2. f[n] \in Nat /\ f[n + 1] \in Nat /\ f[n] <= f[n + 1] /\ p[n + 1] = Run(f[n], f[n + 1])
      BY <1>2, <3>1
    <3>3. g[n + 1] = IF n + 1 = 1 THEN p[n + 1] ELSE g[n] \o p[n + 1]
      BY <2>2, <3>1
    <3>4. CASE n = 0
      BY <1>1, <3>2, <3>3, <3>4
    <3>5. CASE n # 0
      <4>1. n \in 1..Len(s)
        BY <1>0, <3>0, <3>5
      <4>2. m <= f[n] /\ g[n] = Run(m, f[n]) /\ m \in Nat
        BY <4>1, CarriesTypes
      <4>0. n + 1 # 1
        BY <3>0, <3>5
      <4>3. g[n + 1] = g[n] \o p[n + 1]
        BY <3>3, <4>0
      <4>4. Run(m, f[n]) \o Run(f[n], f[n + 1]) = Run(m, f[n + 1])
        BY <3>2, <4>2, RunsJoin
      <4>5. m <= f[n + 1]
        BY <3>2, <4>2
      <4> QED BY <3>2, <4>2, <4>3, <4>4, <4>5
    <3> QED BY <3>4, <3>5
  <2>5. T \in SUBSET Nat
    OBVIOUS
  <2> HIDE DEF T
  <2>6. T = Nat
    BY <2>3, <2>4, <2>5, Inductive
  <2>7. Len(s) \in T /\ Len(s) \in 1..Len(s)
    BY <1>0, <1>6, <2>6
  <2>8. m <= f[Len(s)] /\ g[Len(s)] = Run(m, f[Len(s)])
    BY <2>7 DEF T
  <2> QED BY <1>1, <1>3, <1>4, <2>1, <2>8
<1> QED BY <1>5, <1>6

-----------------------------------------------------------------------------
(* What a connection has still to bring. *)

Tells(k) == Ends(k.wire) \/ Ends(k.tx)
DiedLast(q) == \A i \in 1..Len(q) : q[i].k = "died" => i = Len(q)
Brought(k, m, e) ==
  /\ \E x \in Nat : Carries(k.wire, m, x) /\ Carries(k.tx, x, e)
  /\ Ends(k.wire) => k.tx = <<>>
  /\ DiedLast(k.tx)

LEMMA EndsFrom ==
  ASSUME NEW p \in Seq(Marks), NEW q \in Seq(Marks)
  PROVE  /\ p \o q \in Seq(Marks)
         /\ Ends(p \o q) => Ends(p) \/ Ends(q)
         /\ ~Ends(p) /\ DiedLast(q) => DiedLast(p \o q)
<1>1. /\ p \o q \in Seq(Marks) /\ Len(p \o q) = Len(p) + Len(q) /\ Len(p) \in Nat /\ Len(q) \in Nat
      /\ \A i \in 1..Len(p) + Len(q) : (p \o q)[i] = IF i <= Len(p) THEN p[i] ELSE q[i - Len(p)]
  BY ConcatProperties
<1>2. ASSUME NEW i \in 1..Len(p \o q), (p \o q)[i].k = "died"
      PROVE  Ends(p) \/ (i - Len(p) \in 1..Len(q) /\ q[i - Len(p)].k = "died")
  <2>1. CASE i <= Len(p)
    <3>1. i \in 1..Len(p) /\ p[i].k = "died"
      BY <1>1, <1>2, <2>1
    <3> QED BY <3>1 DEF Ends
  <2>2. CASE ~(i <= Len(p))
    BY <1>1, <1>2, <2>2
  <2> QED BY <2>1, <2>2
<1>3. Ends(p \o q) => Ends(p) \/ Ends(q)
  BY <1>2 DEF Ends
<1>4. ASSUME ~Ends(p), DiedLast(q) PROVE DiedLast(p \o q)
  <2> SUFFICES ASSUME NEW i \in 1..Len(p \o q), (p \o q)[i].k = "died" PROVE i = Len(p \o q)
    BY DEF DiedLast
  <2>1. i - Len(p) \in 1..Len(q) /\ q[i - Len(p)].k = "died"
    BY <1>2, <1>4
  <2>2. i - Len(p) = Len(q)
    BY <1>4, <2>1 DEF DiedLast
  <2> QED BY <1>1, <2>2
<1> QED BY <1>1, <1>3, <1>4

LEMMA HalvesEnd ==
  ASSUME NEW q \in Seq(Marks), NEW n \in 0..Len(q), DiedLast(q)
  PROVE  /\ Ends(SubSeq(q, 1, n)) => Ends(q) /\ n = Len(q)
         /\ Ends(SubSeq(q, n + 1, Len(q))) => Ends(q)
         /\ DiedLast(SubSeq(q, n + 1, Len(q)))
         /\ n = Len(q) => SubSeq(q, n + 1, Len(q)) = <<>>
<1> DEFINE a == SubSeq(q, 1, n)
           b == SubSeq(q, n + 1, Len(q))
<1>0. Len(q) \in Nat /\ n \in Nat /\ \A i \in 1..Len(q) : q[i] \in Marks
  OBVIOUS
<1>1. Len(a) = n /\ \A i \in 1..n : a[i] = q[i]
  <2>1. \A i \in 1..n : q[i] \in Marks
    BY <1>0
  <2> QED BY <1>0, <2>1, SubSeqProperties
<1>2. b \in Seq(Marks) /\ Len(b) = Len(q) - n /\ \A i \in 1..Len(q) - n : b[i] = q[n + i]
  <2>1. \A i \in n + 1..Len(q) : q[i] \in Marks
    BY <1>0
  <2> QED BY <1>0, <2>1, SubSeqProperties
<1> HIDE DEF a, b
<1>3. ASSUME Ends(a) PROVE Ends(q) /\ n = Len(q)
  <2>1. PICK i \in 1..n : a[i].k = "died"
    BY <1>1, <1>3 DEF Ends
  <2>2. i \in 1..Len(q) /\ q[i].k = "died"
    BY <1>0, <1>1, <2>1
  <2>3. i = Len(q)
    BY <2>2 DEF DiedLast
  <2> QED BY <1>0, <2>2, <2>3 DEF Ends
<1>4. ASSUME NEW i \in 1..Len(b), b[i].k = "died" PROVE n + i \in 1..Len(q) /\ q[n + i].k = "died" /\ i = Len(b)
  <2>1. n + i \in 1..Len(q) /\ q[n + i].k = "died"
    BY <1>0, <1>2, <1>4
  <2>2. n + i = Len(q)
    BY <2>1 DEF DiedLast
  <2> QED BY <1>0, <1>2, <2>1, <2>2
<1>5. Ends(b) => Ends(q)
  BY <1>4 DEF Ends
<1>6. DiedLast(b)
  BY <1>4 DEF DiedLast
<1>7. n = Len(q) => b = <<>>
  BY <1>0, <1>2
<1> QED BY <1>3, <1>5, <1>6, <1>7 DEF a, b

LEMMA NothingEnds == ~Ends(<<>>) /\ DiedLast(<<>>) /\ <<>> \in Seq(Marks)
  BY DEF Ends, DiedLast

\* Written or not, what is queued comes after what is on the wire.
LEMMA FlushedBrings ==
  ASSUME NEW k \in Connections, k.held, Len(k.wire) <= SockMax, NEW m, NEW e, Brought(k, m, e)
  PROVE  LET q == Flushed(k) IN
         /\ q \in Connections /\ q.held /\ q.at = k.at /\ q.fate = k.fate /\ Len(q.wire) <= SockMax
         /\ Brought(q, m, e) /\ (Tells(q) => Tells(k))
<1> DEFINE n == IF SockMax - Len(k.wire) < Len(k.tx) THEN SockMax - Len(k.wire) ELSE Len(k.tx)
           a == SubSeq(k.tx, 1, n)
           b == SubSeq(k.tx, n + 1, Len(k.tx))
           w == k.wire \o a
           q == Flushed(k)
<1>0. k.tx \in Seq(Marks) /\ k.wire \in Seq(Marks) /\ Len(k.wire) \in Nat /\ Len(k.tx) \in Nat /\ SockMax \in Nat
  BY WorkerAssumption DEF Connections
<1>1. n \in 0..Len(k.tx) /\ n <= SockMax - Len(k.wire)
  <2>1. Len(k.wire) \in 0..SockMax
    BY <1>0
  <2> QED BY ONLY <2>1, <1>0, Least
<1>2. q = [k EXCEPT !.wire = w, !.tx = b]
  BY DEF Flushed
<1> HIDE DEF n
<1>3. PICK x \in Nat : Carries(k.wire, m, x) /\ Carries(k.tx, x, e)
  BY DEF Brought
<1>4. PICK y \in Nat : Carries(a, x, y) /\ Carries(b, y, e)
  BY <1>0, <1>1, <1>3, CarriesHalves
<1>5. /\ Ends(a) => Ends(k.tx) /\ n = Len(k.tx)
      /\ Ends(b) => Ends(k.tx)
      /\ DiedLast(b)
      /\ n = Len(k.tx) => b = <<>>
  BY <1>0, <1>1, HalvesEnd DEF Brought
<1>6. a \in Seq(Marks) /\ b \in Seq(Marks) /\ Len(a) = n
  BY <1>0, <1>1, Halves
<1>7. k.tx = <<>> => a = <<>> /\ b = <<>>
  BY <1>0, <1>1, <1>5, <1>6
<1> HIDE DEF a, b
<1>8. w \in Seq(Marks) /\ (Ends(w) => Ends(k.wire) \/ Ends(a))
  BY <1>0, <1>6, EndsFrom
<1>9. Len(w) <= SockMax
  <2>1. Len(w) = Len(k.wire) + Len(a)
    BY <1>0, <1>6, ConcatProperties
  <2> QED BY <1>0, <1>1, <1>6, <2>1
<1>10. Carries(w, m, y)
  BY <1>0, <1>3, <1>4, <1>6, CarriesBoth
<1> HIDE DEF w, q
<1>11. /\ q \in Connections /\ q.wire = w /\ q.tx = b /\ q.at = k.at /\ q.held = k.held /\ q.fate = k.fate
  BY <1>2, <1>6, <1>8 DEF Connections
<1>12. Ends(w) => b = <<>>
  BY <1>5, <1>7, <1>8 DEF Brought
<1>13. Brought(q, m, e)
  BY <1>4, <1>5, <1>10, <1>11, <1>12 DEF Brought
<1>14. Tells(q) => Tells(k)
  BY <1>5, <1>8, <1>11 DEF Tells
<1> QED BY <1>9, <1>11, <1>13, <1>14 DEF q

\* The worker closes it: what is on the wire is still read, and if the end is among it nothing is lost.
LEMMA DroppedBrings ==
  ASSUME NEW k \in Connections, k.held, NEW m, NEW e, Brought(k, m, e)
  PROVE  LET q == Dropped(k) IN
         /\ q \in Connections /\ q.held /\ q.at = "closed" /\ q.fate = k.fate /\ (Tells(q) => Tells(k))
         /\ \E x \in Nat : Brought(q, m, x) /\ (Tells(q) => x = e)
<1> DEFINE y == [k EXCEPT !.at = "closed", !.tx = <<>>, !.rx = {}]
           q == Dropped(k)
<1>0. <<>> \in Seq(Marks) /\ {} \in SUBSET {"ping", "shutdown"}
  OBVIOUS
<1>1. /\ y \in Connections /\ y.at = "closed" /\ y.tx = <<>> /\ y.wire = k.wire /\ y.held /\ y.fate = k.fate
  BY <1>0 DEF Connections
<1>2. q = Kept(y)
  BY DEF Dropped
<1> HIDE DEF y
<1>3. q = y
  BY <1>1, <1>2 DEF Kept
<1>4. PICK x \in Nat : Carries(k.wire, m, x) /\ Carries(k.tx, x, e)
  BY DEF Brought
<1>5. Brought(y, m, x)
  BY <1>1, <1>4, CarriesNothing, NothingEnds DEF Brought
<1>6. Tells(y) => Ends(k.wire)
  BY <1>1, NothingEnds DEF Tells
<1>7. Ends(k.wire) => x = e
  BY <1>4, CarriesNothing DEF Brought
<1> HIDE DEF q
<1> QED BY <1>1, <1>3, <1>5, <1>6, <1>7 DEF q, Tells

\* More is queued.
LEMMA QueuedBrings ==
  ASSUME NEW k \in Connections, NEW q \in Connections, NEW fs \in Seq(Marks), q.wire = k.wire, q.tx = k.tx \o fs,
         ~Tells(k), DiedLast(fs), NEW m, NEW e, Brought(k, m, e), NEW b, Carries(fs, e, b)
  PROVE  Brought(q, m, b) /\ (Tells(q) => Ends(fs))
<1>0. k.tx \in Seq(Marks) /\ k.wire \in Seq(Marks)
  BY DEF Connections
<1>1. PICK x \in Nat : Carries(k.wire, m, x) /\ Carries(k.tx, x, e)
  BY DEF Brought
<1>2. Carries(k.tx \o fs, x, b)
  BY <1>0, <1>1, CarriesBoth
<1>3. /\ Ends(k.tx \o fs) => Ends(k.tx) \/ Ends(fs)
      /\ ~Ends(k.tx) /\ DiedLast(fs) => DiedLast(k.tx \o fs)
  BY <1>0, EndsFrom
<1> QED BY <1>1, <1>2, <1>3 DEF Brought, Tells

LEMMA OutsEndNothing ==
  ASSUME NEW m \in Nat, NEW n \in Nat, m <= n, NEW l \in Int, l <= n - m
  PROVE  ~Ends(SubSeq(Outs(m, n), 1, l)) /\ ~Ends(Outs(m, n))
<1>0. Outs(m, n) \in Seq(Marks) /\ Len(Outs(m, n)) = n - m
  BY OutsIs, OutsCarries
<1>1. \A i \in 1..n - m : Outs(m, n)[i].k = "out"
  BY DEF Outs
<1>2. ~Ends(Outs(m, n))
  BY <1>0, <1>1 DEF Ends
<1>3. \A i \in 1..l : i \in 1..n - m /\ Outs(m, n)[i] \in Marks
  BY <1>0
<1>4. \A i \in 1..Len(SubSeq(Outs(m, n), 1, l)) : i \in 1..l /\ SubSeq(Outs(m, n), 1, l)[i] = Outs(m, n)[i]
  <2> HIDE DEF Outs
  <2>1. CASE l < 1
    <3>1. SubSeq(Outs(m, n), 1, l) = <<>>
      BY <1>3, <2>1, SubSeqProperties
    <3> QED BY <3>1
  <2>2. CASE ~(l < 1)
    BY <1>0, <1>3, <2>2, SubSeqProperties
  <2> QED BY <2>1, <2>2
<1> QED BY <1>1, <1>2, <1>3, <1>4 DEF Ends

\* Whoever is accepted is brought all that the worker has read.
LEMMA AcceptedBrings ==
  ASSUME Shape, NEW k \in Connections, Sound(k), k.at = "backlog", k.held
  PROVE  LET q == Flushed([k EXCEPT !.at = "open", !.tx = Greeting]) IN
         /\ q.at = "open" /\ q.fate = k.fate
         /\ Brought(q, Gone, worker.read) /\ (Tells(q) => worker.at = "linger")
<1> DEFINE x == [k EXCEPT !.at = "open", !.tx = Greeting]
           q == Flushed(x)
<1>1. Greeting \in Seq(Marks) /\ DiedLast(Greeting) /\ (Ends(Greeting) => worker.at = "linger")
  <2> DEFINE r == <<[k |-> "ready"]>>
             s == IF worker.read > 0 THEN <<[k |-> "scroll", from |-> Gone, n |-> worker.read]>> ELSE <<>>
             d == IF worker.at = "linger" THEN <<[k |-> "died"]>> ELSE <<>>
  <2>1. r \in Seq(Marks) /\ ~Ends(r)
    <3>1. [k |-> "ready"] \in Marks
      BY DEF Marks
    <3>2. r \in Seq(Marks) /\ Len(r) = 1 /\ r[1].k = "ready"
      BY <3>1
    <3>3. \A i \in 1..Len(r) : i = 1
      BY <3>2
    <3> QED BY <3>2, <3>3 DEF Ends
  <2>2. s \in Seq(Marks) /\ ~Ends(s)
    <3>1. CASE worker.read > 0
      <4>1. [k |-> "scroll", from |-> Gone, n |-> worker.read] \in Marks
        BY GoneIs DEF Marks, Shape
      <4>2. s \in Seq(Marks) /\ Len(s) = 1 /\ s[1].k = "scroll"
        BY <3>1, <4>1
      <4>3. \A i \in 1..Len(s) : i = 1
        BY <4>2
      <4> QED BY <4>2, <4>3 DEF Ends
    <3>2. CASE ~(worker.read > 0)
      BY <3>2, NothingEnds
    <3> QED BY <3>1, <3>2
  <2>3. d \in Seq(Marks) /\ DiedLast(d) /\ (Ends(d) => worker.at = "linger")
    <3>1. CASE worker.at = "linger"
      <4>1. d \in Seq(Marks) /\ Len(d) = 1
        BY <3>1, DiedIs
      <4>2. \A i \in 1..Len(d) : i = Len(d)
        BY <4>1
      <4> QED BY <3>1, <4>1, <4>2 DEF DiedLast
    <3>2. CASE worker.at # "linger"
      BY <3>2, NothingEnds
    <3> QED BY <3>1, <3>2
  <2>4. Greeting = (r \o s) \o d
    BY DEF Greeting, Died
  <2> HIDE DEF r, s, d
  <2>5. r \o s \in Seq(Marks) /\ ~Ends(r \o s)
    BY <2>1, <2>2, EndsFrom
  <2> QED BY <2>3, <2>4, <2>5, EndsFrom
<1>2. /\ x \in Connections /\ x.at = "open" /\ x.tx = Greeting /\ x.wire = k.wire /\ x.held /\ x.fate = k.fate
  BY <1>1 DEF Connections
<1>3. k.wire = <<>> /\ Len(x.wire) <= SockMax
  BY <1>2 DEF Sound
<1> HIDE DEF x
<1>4. Carries(Greeting, Gone, worker.read) /\ Gone \in Nat
  BY GreetingCarries, GoneIs
<1>5. Brought(x, Gone, worker.read)
  BY <1>1, <1>2, <1>3, <1>4, CarriesNothing, NothingEnds DEF Brought
<1>6. q.at = "open" /\ q.fate = k.fate /\ Brought(q, Gone, worker.read) /\ (Tells(q) => Tells(x))
  BY <1>2, <1>3, <1>5, FlushedBrings
<1>7. Tells(x) => worker.at = "linger"
  BY <1>1, <1>2, <1>3, NothingEnds DEF Tells
<1> HIDE DEF q
<1> QED BY <1>6, <1>7 DEF q, x

\* What the shell has printed is queued, or the connection is closed and brings what it has brought.
LEMMA FedBrings ==
  ASSUME NEW k \in Connections, k.held, ~Tells(k), NEW m, NEW e \in Nat, NEW n \in Nat, e <= n, Brought(k, m, e)
  PROVE  LET q == Fed(k, Outs(e, n)) IN
         /\ ~Tells(q)
         /\ Brought(q, m, n) \/ (q.at = "closed" /\ \E x \in Nat : Brought(q, m, x))
<1> DEFINE fs == Outs(e, n)
           q == Fed(k, fs)
<1>a. 0 \in Int /\ 0 <= n - e
  OBVIOUS
<1>b. fs \in Seq(Marks) /\ ~Ends(fs)
  BY <1>a, OutsIs, OutsEndNothing
<1>c. Carries(fs, e, n)
  BY OutsCarries
<1> HIDE DEF fs
<1>0. fs \in Seq(Marks) /\ ~Ends(fs) /\ DiedLast(fs) /\ Carries(fs, e, n)
  BY <1>b, <1>c DEF DiedLast, Ends
<1>1. CASE Fits(k, fs)
  <2>1. k.tx \in Seq(Marks) /\ k.tx \o fs \in Seq(Marks)
    BY <1>0, EndsIn DEF Connections
  <2>2. q = [k EXCEPT !.tx = k.tx \o fs]
    BY <1>1 DEF Fed
  <2> HIDE DEF q
  <2>3. q \in Connections /\ q.wire = k.wire /\ q.tx = k.tx \o fs /\ q.fate = k.fate
    BY <2>1, <2>2 DEF Connections
  <2>4. Brought(q, m, n) /\ (Tells(q) => Ends(fs))
    BY <1>0, <2>3, QueuedBrings
  <2> QED BY <1>0, <2>3, <2>4 DEF q, fs
<1>2. CASE ~Fits(k, fs)
  <2> DEFINE y == Marked(k, "dropped")
  <2>1. q = Dropped(y)
    BY <1>2 DEF Fed
  <2>2. y \in Connections /\ y.held /\ y.wire = k.wire /\ y.tx = k.tx /\ (k.fate = "short" => y.fate = "short")
    BY MarkedIs DEF Fates
  <2> HIDE DEF y
  <2>3. Brought(y, m, e) /\ ~Tells(y)
    BY <2>2 DEF Brought, Tells
  <2>4. q.at = "closed" /\ q.fate = y.fate /\ (Tells(q) => Tells(y)) /\ \E x \in Nat : Brought(q, m, x)
    BY <2>1, <2>2, <2>3, DroppedBrings
  <2> HIDE DEF q
  <2> QED BY <2>2, <2>3, <2>4 DEF q, fs
<1> QED BY <1>1, <1>2

\* All that it has printed and the end of it, unless the queue has no room.
LEMMA LastBrings ==
  ASSUME Shape, NEW k \in Connections, Sound(k), k.at = "open", k.held, ~Tells(k), NEW m, NEW e \in Nat, e <= shell.made,
         Brought(k, m, e), NEW q \in LastWords(k, e), q.fate # "short"
  PROVE  Brought(q, m, shell.made)
<1> DEFINE fs == Outs(e, shell.made)
<1>0. shell.made \in Nat
  BY DEF Shape
<1>a. 0 \in Int /\ 0 <= shell.made - e
  BY <1>0
<1>1. fs \in Seq(Marks) /\ Carries(fs, e, shell.made)
  BY <1>0, OutsIs, OutsCarries
<1>2. ~Ends(fs)
  BY <1>0, <1>a, OutsEndNothing
<1>3. Died \in Seq(Marks) /\ DiedLast(Died) /\ Carries(Died, shell.made, shell.made)
  <2>1. Died = <<[k |-> "died"]>> /\ Len(<<[k |-> "died"]>>) = 1
    BY DEF Died
  <2>2. \A i \in 1..Len(Died) : i = Len(Died)
    BY <2>1
  <2> QED BY <1>0, <2>1, <2>2, DiedIs, DiedCarries DEF DiedLast
<1> HIDE DEF fs
<1>4. PICK u : u = fs \o Died
  OBVIOUS
<1>5. u \in Seq(Marks) /\ DiedLast(u) /\ Carries(u, e, shell.made)
  BY <1>1, <1>2, <1>3, <1>4, EndsFrom, CarriesBoth
<1>6. k.tx \in Seq(Marks) /\ k.tx \o u \in Seq(Marks) /\ k.tx \o fs \o Died = k.tx \o u
  <2>1. k.tx \in Seq(Marks)
    BY DEF Connections
  <2>a. \A a, b, c \in Seq(Marks) : (a \o b) \o c = a \o (b \o c)
    BY ConcatAssociative
  <2>2. (k.tx \o fs) \o Died = k.tx \o (fs \o Died)
    BY ONLY <1>1, <1>3, <2>1, <2>a
  <2>3. k.tx \o u \in Seq(Marks)
    BY <1>5, <2>1, EndsFrom
  <2> QED BY ONLY <1>4, <2>1, <2>2, <2>3
<1>7. PICK y : y = [k EXCEPT !.tx = k.tx \o u]
  OBVIOUS
<1>8. /\ y \in Connections /\ y.held /\ y.wire = k.wire /\ y.tx = k.tx \o u /\ y.fate = k.fate
  BY <1>6, <1>7 DEF Connections
<1>9. Brought(y, m, shell.made) /\ Len(y.wire) <= SockMax
  BY <1>5, <1>8, QueuedBrings DEF Sound
<1>10. CASE q = Flushed([k EXCEPT !.tx = k.tx \o Outs(e, shell.made) \o Died])
  <2>1. q = Flushed(y)
    BY <1>6, <1>7, <1>10 DEF fs
  <2> QED BY <1>8, <1>9, <2>1, FlushedBrings
<1>11. ASSUME NEW t \in Seq(Marks), q = Flushed([k EXCEPT !.tx = t, !.fate = "short"]) PROVE FALSE
  <2>1. PICK x : x = [k EXCEPT !.tx = t, !.fate = "short"]
    OBVIOUS
  <2>2. x.fate = "short" /\ x.held /\ x \in Connections
    BY <2>1 DEF Connections, Fates
  <2>3. Flushed(x).fate = "short"
    BY <2>2 DEF Flushed, Connections
  <2> QED BY <1>11, <2>1, <2>3
<1> QED BY <1>10, <1>11, LastIs

-----------------------------------------------------------------------------
(* What the daemon has read. *)

\* The daemon waits for READY, or polls.
Talks == {"greeting", "adopting", "hosted"}

\* How far the worker has read its shell.
Reading ==
  /\ worker.at = "starting" => worker.read = 0 /\ got = <<>> /\ daemon.at \notin Talks
  /\ worker.at = "serving" => worker.read <= shell.made
  /\ worker.at = "linger" => worker.read = shell.made /\ ~shell.up

\* What the daemon has read goes up to m, from the first chunk, or the first a snapshot could still hold.
Begun(b) == b # 0 => b + Snapshot <= shell.made
So(m) == \E b \in Nat : b <= m /\ got = Run(b, m) /\ Begun(b)

\* After it come the chunks up to e: all the worker has read while it serves the connection, and all there is if the end
\* is told, which is once the shell is over.
Awaited(m, e) ==
  /\ So(m) /\ Brought(Mine, m, e)
  /\ Mine.at = "open" /\ worker.at = "serving" => e = worker.read
  /\ Tells(Mine) => worker.at \in {"leaving", "none"} /\ ~shell.up /\ e = shell.made
Coming == Mine.fate # "short" => \E m, e \in Nat : Awaited(m, e)

\* What it had read when the connection ended.
Had ==
  got # <<>> /\ daemon.fate # "short" =>
    \E m \in Nat : So(m) /\ (daemon.code = "real" => ~shell.up /\ m = shell.made)

\* The inductive invariant of WholeOutput.
PipeInv ==
  /\ daemon.at \notin {"hosted", "dead"} => got = <<>>
  /\ Reading
  /\ daemon.at \in Talks => Coming
  /\ daemon.at = "dead" => Had

\* What it rests on, of WorkInv: READY comes first.
Ready ==
  /\ Shape /\ Wired
  /\ daemon.at \in {"greeting", "adopting"} =>
       /\ Mine.wire # <<>> => Mine.wire[1].k = "ready"
       /\ Mine.at = "open" => Mine.wire # <<>>
  /\ daemon.at = "hosted" => Mine.at # "backlog"

LEMMA WorkReady == WorkInv => Ready
  BY DEF WorkInv, Learns, Ready

\* A run that has begun says what WholeOutput says of it.
LEMMA SoSays ==
  ASSUME NEW m \in Nat, So(m), got # <<>>, shell.made \in Nat
  PROVE  /\ \A i \in DOMAIN got : got[i] = got[1] + i - 1
         /\ got[1] # 1 => got[1] + Snapshot <= shell.made + 1
         /\ got[Len(got)] = m
<1>1. PICK b \in Nat : b <= m /\ got = Run(b, m) /\ Begun(b)
  BY DEF So
<1>2. Run(b, m) \in Seq(Nat) /\ Len(Run(b, m)) = m - b /\ \A i \in 1..m - b : Run(b, m)[i] = b + i
  BY <1>1, RunIs
<1>3. got \in Seq(Nat) /\ Len(got) = m - b /\ \A i \in 1..m - b : got[i] = b + i
  BY <1>1, <1>2
<1>4. m - b \in Nat /\ m - b # 0
  BY <1>1, <1>3
<1>5. 1 \in 1..m - b /\ m - b \in 1..m - b /\ b + (m - b) = m
  BY <1>4
<1>6. DOMAIN got = 1..m - b
  BY <1>3
<1>7. got[1] = b + 1 /\ got[m - b] = b + (m - b)
  BY <1>3, <1>5
<1>8. ASSUME NEW i \in DOMAIN got PROVE got[i] = got[1] + i - 1
  <2>1. got[i] = b + i /\ i \in Int
    BY <1>3, <1>6
  <2> QED BY <1>7, <2>1
<1>9. got[1] # 1 => got[1] + Snapshot <= shell.made + 1
  <2>1. Snapshot \in Nat
    BY WorkerAssumption
  <2> QED BY <1>1, <1>7, <2>1 DEF Begun
<1> QED BY <1>3, <1>5, <1>7, <1>8, <1>9

LEMMA PipeSays ==
  ASSUME Shape, PipeInv PROVE WholeOutput
<1> SUFFICES ASSUME got # <<>>, Fate # "short"
             PROVE  /\ \A i \in DOMAIN got : got[i] = got[1] + i - 1
                    /\ got[1] # 1 => got[1] + Snapshot <= shell.made + 1
                    /\ daemon.at = "dead" /\ daemon.code = "real" => got[Len(got)] = shell.made
  BY DEF WholeOutput
<1>1. daemon.at \in {"hosted", "dead"}
  BY DEF PipeInv
<1>2. \E m \in Nat : So(m) /\ (daemon.at = "dead" /\ daemon.code = "real" => m = shell.made)
  <2>1. CASE daemon.at = "hosted"
    <3>1. Mine.fate # "short" /\ Coming
      BY <2>1 DEF Fate, PipeInv, Talks
    <3>2. PICK m, e \in Nat : Awaited(m, e)
      BY <3>1 DEF Coming
    <3> QED BY <2>1, <3>2 DEF Awaited
  <2>2. CASE daemon.at = "dead"
    BY <2>2 DEF Fate, PipeInv, Had
  <2> QED BY <1>1, <2>1, <2>2
<1>3. shell.made \in Nat
  BY DEF Shape
<1> QED BY <1>2, <1>3, SoSays

\* Nothing has been read: it may begin where the snapshot does.
LEMMA NothingSo ==
  ASSUME NEW m \in Nat, got = <<>>, Begun(m)
  PROVE  So(m)
<1>1. Run(m, m) \in Seq(Nat) /\ Len(Run(m, m)) = 0
  BY RunIs
<1>2. got = Run(m, m)
  BY <1>1
<1> QED BY <1>2 DEF So

LEMMA MineIs ==
  ASSUME Ready, daemon.at \in Talks
  PROVE  /\ daemon.conn \in Conns /\ Mine = conns[daemon.conn] /\ Mine \in Connections /\ Mine.held /\ Sound(Mine)
         /\ Mine.at \in {"backlog", "open", "closed"} /\ Len(Mine.wire) <= SockMax
  BY DEF Ready, Talks, Calls, Wired, Shape, Mine, Sound, Connections

LEMMA WorkerPipes ==
  ASSUME PipeInv, UNCHANGED <<daemon, got>>, shell'.made = shell.made, shell'.up => shell.up, Reading', daemon.at \in Talks => Coming'
  PROVE  PipeInv'
<1>1. UNCHANGED <<daemon, got>>
  OBVIOUS
<1>2. Had => Had'
  BY <1>1 DEF Had, So, Begun
<1> QED BY <1>1, <1>2 DEF PipeInv

LEMMA QuietPipes ==
  ASSUME daemon'.at \notin Talks, got' = <<>>, Reading'
  PROVE  PipeInv'
  BY DEF PipeInv, Had

-----------------------------------------------------------------------------
(* What the worker's steps do to what is still to come. *)

\* What the worker's steps share: who it has not told the end is brought what it has read.
LEMMA UntoldYet ==
  ASSUME PipeInv, daemon.at \in Talks, worker.at \in {"serving", "linger"}, Mine.fate # "short"
  PROVE  \E m, e \in Nat : Awaited(m, e) /\ ~Tells(Mine)
  BY DEF PipeInv, Coming, Awaited

\* What has been read stays so as long as the shell has printed no less.
LEMMA SoStays ==
  ASSUME NEW m, So(m), got' = got, shell'.made = shell.made
  PROVE  So(m)'
  BY DEF So, Begun

\* A connection that brings what it brought before.
LEMMA SameComes ==
  ASSUME PipeInv, daemon.at \in Talks, UNCHANGED <<daemon, got, shell>>,
         \A m, e : Brought(Mine, m, e) => Brought(Mine', m, e),
         Tells(Mine') => Tells(Mine), Mine'.fate # "short" => Mine.fate # "short", Mine'.at = "open" => Mine.at = "open",
         worker'.at = "serving" => worker.at = "serving" /\ worker'.read = worker.read,
         worker.at \in {"leaving", "none"} => worker'.at \in {"leaving", "none"}
  PROVE  Coming'
<1> SUFFICES ASSUME Mine'.fate # "short" PROVE \E m, e \in Nat : Awaited(m, e)'
  BY DEF Coming
<1>1. PICK m, e \in Nat : Awaited(m, e)
  BY DEF PipeInv, Coming
<1>2. So(m)'
  BY <1>1, SoStays DEF Awaited
<1>3. shell' = shell /\ Brought(Mine', m, e)
  BY <1>1 DEF Awaited
<1> QED BY <1>1, <1>2, <1>3 DEF Awaited

\* One the worker does not touch, and has not told the end.
LEMMA UntoldComes ==
  ASSUME PipeInv, daemon.at \in Talks, worker.at \in {"serving", "linger"}, UNCHANGED <<daemon, got>>, shell'.made = shell.made,
         Mine' = Mine, Mine.at = "open" /\ worker'.at = "serving" => worker.at = "serving" /\ worker'.read = worker.read
  PROVE  Coming'
<1> SUFFICES ASSUME Mine.fate # "short" PROVE \E m, e \in Nat : Awaited(m, e)'
  BY DEF Coming
<1>1. PICK m, e \in Nat : Awaited(m, e) /\ ~Tells(Mine)
  BY UntoldYet
<1>2. So(m)'
  BY <1>1, SoStays DEF Awaited
<1> QED BY <1>1, <1>2 DEF Awaited

LEMMA BindPipes ==
  ASSUME Ready, PipeInv, Bind \/ BindFails
  PROVE  PipeInv'
<1>1. worker.at = "starting" /\ UNCHANGED <<daemon, got>> /\ worker \in Workers
  BY DEF Bind, BindFails, Ready, Shape, Workers
<1>2. worker.read = 0 /\ got' = <<>> /\ daemon'.at \notin Talks
  BY <1>1 DEF PipeInv, Reading
<1>3. CASE Bind
  <2>1. worker' = [worker EXCEPT !.at = "serving"] /\ shell'.made = 0
    BY <1>3 DEF Bind
  <2>2. worker'.at = "serving" /\ worker'.read = 0
    BY <1>1, <1>2, <2>1 DEF Workers
  <2> QED BY <1>2, <2>1, <2>2, QuietPipes DEF Reading
<1>4. CASE BindFails
  <2>1. worker'.at = "none"
    BY <1>4 DEF BindFails, Asleep
  <2> QED BY <1>2, <2>1, QuietPipes DEF Reading
<1> QED BY <1>3, <1>4

LEMMA AcceptPipes ==
  ASSUME Ready, PipeInv, NEW c \in Conns, Accept(c)
  PROVE  PipeInv'
<1> DEFINE q == Flushed([conns[c] EXCEPT !.at = "open", !.tx = Greeting])
<1>1. /\ worker.at \in {"serving", "linger"} /\ conns[c].at = "backlog"
      /\ conns' = [conns EXCEPT ![c] = q]
      /\ worker' = [worker EXCEPT !.heard = TRUE, !.at = IF worker.at = "linger" THEN "leaving" ELSE worker.at]
      /\ UNCHANGED <<shell, daemon, got>>
  BY DEF Accept, record
<1>2. worker \in Workers /\ conns \in [Conns -> Connections] /\ Shape /\ Wired
  BY DEF Ready, Shape, Workers
<1>3. /\ worker'.read = worker.read /\ worker.at = "serving" => worker'.at = "serving"
      /\ worker.at = "linger" => worker'.at = "leaving"
  BY <1>1, <1>2 DEF Workers
<1>4. Reading'
  BY <1>1, <1>3 DEF PipeInv, Reading
<1>5. ASSUME daemon.at \in Talks PROVE Coming'
  <2>1. daemon.conn \in Conns /\ Mine = conns[daemon.conn] /\ Mine \in Connections /\ Mine.held /\ Sound(Mine)
    BY <1>5, MineIs
  <2>2. CASE c = daemon.conn
    <3>1. Mine.at = "backlog"
      BY <1>1, <2>1, <2>2
    <3>2. got = <<>>
      BY <1>5, <3>1 DEF PipeInv, Ready, Talks
    <3>4. Brought(q, Gone, worker.read) /\ (Tells(q) => worker.at = "linger")
      BY <1>2, <2>1, <2>2, <3>1, AcceptedBrings
    <3>5. Mine' = q
      BY <1>1, <1>2, <2>2 DEF Mine
    <3>6. worker.read <= shell.made /\ (worker.at = "linger" => worker.read = shell.made /\ ~shell.up)
      BY <1>1, <1>2 DEF PipeInv, Reading, Workers
    <3>7. worker.read \in Nat /\ shell.made \in Nat /\ Snapshot \in Nat
      BY <1>2, WorkerAssumption DEF Shape
    <3>8. Gone \in Nat /\ (Gone # 0 => Gone + Snapshot = worker.read)
      BY <1>2, GoneIs
    <3>9. PICK m \in Nat : m = Gone
      BY <3>8
    <3>10. Begun(m)
      BY <3>6, <3>7, <3>8, <3>9 DEF Begun
    <3>11. So(m)
      BY <3>2, <3>10, NothingSo
    <3>12. So(m)'
      BY <1>1, <3>11 DEF So, Begun
    <3> HIDE DEF q
    <3>13. PICK e \in Nat : e = worker.read
      BY <3>7
    <3>14. Awaited(m, e)'
      BY <1>1, <1>3, <3>4, <3>5, <3>6, <3>9, <3>12, <3>13 DEF Awaited
    <3> QED BY <3>14 DEF Coming
  <2>3. CASE c # daemon.conn
    <3> HIDE DEF q
    <3>1. Mine' = Mine
      BY <1>1, <1>2, <2>1, <2>3 DEF Mine
    <3> QED BY <1>1, <1>3, <1>5, <3>1, UntoldComes
  <2> QED BY <2>2, <2>3
<1>6. UNCHANGED <<daemon, got>> /\ shell'.made = shell.made /\ (shell'.up => shell.up)
  BY <1>1
<1> QED BY <1>4, <1>5, <1>6, WorkerPipes

\* A connection that is short stays so.
LEMMA FedShort ==
  ASSUME NEW k \in Connections, k.held, NEW fs
  PROVE  Fed(k, fs).fate = "short" \/ k.fate # "short"
<1> SUFFICES ASSUME k.fate = "short" PROVE Fed(k, fs).fate = "short"
  OBVIOUS
<1>1. CASE Fits(k, fs)
  BY <1>1 DEF Fed, Connections
<1>2. CASE ~Fits(k, fs)
  <2>1. PICK y : y = Marked(k, "dropped")
    OBVIOUS
  <2>2. "dropped" \in Fates
    BY DEF Fates
  <2>3. y \in Connections /\ y.held /\ y.fate = "short"
    BY <2>1, <2>2, MarkedIs
  <2>4. Fed(k, fs) = Dropped(y)
    BY <1>2, <2>1 DEF Fed
  <2>5. Dropped(y).fate = "short"
    BY <2>3 DEF Dropped, Kept, Connections
  <2> QED BY <2>4, <2>5
<1> QED BY <1>1, <1>2

LEMMA ReadPtyPipes ==
  ASSUME Ready, PipeInv, ReadPty
  PROVE  PipeInv'
<1>1. PICK n \in worker.read + 1..shell.made :
        /\ worker' = [worker EXCEPT !.read = n]
        /\ conns' = [c \in Conns |-> IF c \in Open THEN Fed(conns[c], Outs(worker.read, n)) ELSE conns[c]]
  BY DEF ReadPty
<1>2. worker.at = "serving" /\ UNCHANGED <<shell, daemon, got>> /\ worker \in Workers /\ shell.made \in Nat
  BY DEF ReadPty, Ready, Shape, Workers
<1>3. worker.read \in Nat /\ n \in Nat /\ worker.read <= n /\ n <= shell.made
  BY <1>2 DEF Workers
<1>4. worker'.read = n /\ worker'.at = "serving"
  BY <1>1, <1>2 DEF Workers
<1>5. Reading'
  BY <1>2, <1>3, <1>4 DEF PipeInv, Reading
<1>6. ASSUME daemon.at \in Talks PROVE Coming'
  <2>1. daemon.conn \in Conns /\ Mine = conns[daemon.conn] /\ Mine \in Connections /\ Mine.held
    BY <1>6, MineIs
  <2>2. CASE Mine.at # "open"
    <3>1. Mine' = Mine
      BY <1>1, <1>2, <2>1, <2>2 DEF Mine, Open
    <3> QED BY <1>2, <1>6, <2>2, <3>1, UntoldComes
  <2>3. ASSUME Mine.at = "open", Mine'.fate # "short" PROVE \E m, e \in Nat : Awaited(m, e)'
    <3>1. PICK q : q = Fed(Mine, Outs(worker.read, n))
      OBVIOUS
    <3>2. Mine' = q
      BY <1>1, <1>2, <2>1, <2>3, <3>1 DEF Mine, Open
    <3>3. Mine.fate # "short"
      <4>1. PICK k \in Connections : k = Mine
        BY <2>1
      <4>2. q.fate = "short" \/ k.fate # "short"
        BY <1>3, <2>1, <3>1, <4>1, FedShort
      <4> QED BY <2>3, <3>2, <4>1, <4>2
    <3>4. PICK m, e \in Nat : Awaited(m, e) /\ ~Tells(Mine)
      BY <1>2, <1>6, <3>3, UntoldYet
    <3>5. Brought(Mine, m, worker.read)
      BY <1>2, <2>3, <3>4 DEF Awaited
    <3>6. ~Tells(q) /\ (Brought(q, m, n) \/ (q.at = "closed" /\ \E x \in Nat : Brought(q, m, x)))
      BY <1>3, <2>1, <3>1, <3>4, <3>5, FedBrings
    <3>7. So(m)'
      BY <1>2, <3>4, SoStays DEF Awaited
    <3>8. CASE Brought(q, m, n)
      <4>1. Awaited(m, n)'
        BY <1>4, <3>2, <3>6, <3>7, <3>8 DEF Awaited
      <4> QED BY <1>3, <3>4, <4>1
    <3>9. CASE q.at = "closed" /\ \E x \in Nat : Brought(q, m, x)
      <4>1. PICK x \in Nat : Brought(q, m, x)
        BY <3>9
      <4>2. Awaited(m, x)'
        BY <3>2, <3>6, <3>7, <3>9, <4>1 DEF Awaited
      <4> QED BY <3>4, <4>1, <4>2
    <3> QED BY <3>6, <3>8, <3>9
  <2>4. CASE Mine.at = "open"
    BY <2>3, <2>4 DEF Coming
  <2> QED BY <2>2, <2>4
<1>7. UNCHANGED <<daemon, got>> /\ shell'.made = shell.made /\ (shell'.up => shell.up)
  BY <1>2
<1> QED BY <1>5, <1>6, <1>7, WorkerPipes

\* A connection of the daemon's that is written to, and the answer to a ping that follows.
LEMMA ServedBrings ==
  ASSUME NEW k \in Connections, k.held, k.at = "open", Len(k.wire) <= SockMax, ~Tells(k), NEW m, NEW e, Brought(k, m, e)
  PROVE  LET s == Flushed(k)
             p == [s EXCEPT !.rx = {}, !.tx = IF "ping" \in k.rx THEN Append(s.tx, [k |-> "pong"]) ELSE s.tx]
             q == Flushed(p)
         IN /\ Brought(s, m, e) /\ ~Tells(s) /\ s.fate = k.fate /\ s.at = "open"
            /\ Brought(q, m, e) /\ ~Tells(q) /\ q.fate = k.fate /\ q.at = "open"
<1> DEFINE s == Flushed(k)
           pong == <<[k |-> "pong"]>>
           fs == IF "ping" \in k.rx THEN pong ELSE <<>>
           p == [s EXCEPT !.rx = {}, !.tx = IF "ping" \in k.rx THEN Append(s.tx, [k |-> "pong"]) ELSE s.tx]
           q == Flushed(p)
<1>1. /\ s \in Connections /\ s.held /\ s.at = "open" /\ s.fate = k.fate /\ Len(s.wire) <= SockMax
      /\ Brought(s, m, e) /\ ~Tells(s)
  BY FlushedBrings
<1> HIDE DEF s
<1>2. e \in Nat
  <2>1. PICK x \in Nat : Carries(k.tx, x, e)
    BY DEF Brought
  <2>2. k.tx \in Seq(Marks)
    BY DEF Connections
  <2> QED BY <2>1, <2>2, CarriesTypes
<1>3. pong \in Seq(Marks) /\ ~Ends(pong) /\ DiedLast(pong) /\ Carries(pong, e, e)
  <2>1. [k |-> "pong"] \in Marks
    BY DEF Marks
  <2>2. pong \in Seq(Marks) /\ Len(pong) = 1 /\ pong[1].k = "pong"
    BY <2>1
  <2>3. \A i \in 1..Len(pong) : i = 1 /\ i = Len(pong)
    BY <2>2
  <2> QED BY <1>2, <2>2, <2>3, DiedCarries DEF Ends, DiedLast
<1>4. fs \in Seq(Marks) /\ ~Ends(fs) /\ DiedLast(fs) /\ Carries(fs, e, e)
  <2> HIDE DEF pong
  <2>1. CASE "ping" \in k.rx
    BY <1>3, <2>1
  <2>2. CASE "ping" \notin k.rx
    BY <1>2, <2>2, NothingEnds, CarriesNothing
  <2> QED BY <2>1, <2>2
<1>5. s.tx \in Seq(Marks) /\ s.tx \o fs \in Seq(Marks)
  BY <1>1, <1>4, EndsIn DEF Connections
<1>6. p = [s EXCEPT !.rx = {}, !.tx = s.tx \o fs]
  <2>1. Append(s.tx, [k |-> "pong"]) = s.tx \o pong
    <3>1. [k |-> "pong"] \in Marks
      BY DEF Marks
    <3> QED BY <1>5, <3>1, AppendIsConcat
  <2>2. s.tx \o <<>> = s.tx
    BY <1>5, ConcatEmptySeq
  <2> QED BY <2>1, <2>2
<1> HIDE DEF p, fs
<1>7. p \in Connections /\ p.wire = s.wire /\ p.tx = s.tx \o fs /\ p.held /\ p.at = "open" /\ p.fate = s.fate
  <2>1. {} \in SUBSET {"ping", "shutdown"}
    OBVIOUS
  <2> QED BY <1>1, <1>5, <1>6, <2>1 DEF Connections
<1>8. Brought(p, m, e) /\ ~Tells(p)
  BY <1>1, <1>4, <1>7, QueuedBrings
<1>9. Brought(q, m, e) /\ ~Tells(q) /\ q.at = "open" /\ q.fate = k.fate
  BY <1>1, <1>7, <1>8, FlushedBrings
<1> HIDE DEF q
<1> QED BY <1>1, <1>9 DEF s, p, q

\* Nor does what is written or answered make it whole.
LEMMA FlushedShort ==
  ASSUME NEW k \in Connections, k.held, Len(k.wire) <= SockMax
  PROVE  LET q == Flushed(k) IN q \in Connections /\ q.held /\ q.fate = k.fate /\ Len(q.wire) <= SockMax
<1> DEFINE n == IF SockMax - Len(k.wire) < Len(k.tx) THEN SockMax - Len(k.wire) ELSE Len(k.tx)
           w == k.wire \o SubSeq(k.tx, 1, n)
           b == SubSeq(k.tx, n + 1, Len(k.tx))
           q == Flushed(k)
<1>0. k.tx \in Seq(Marks) /\ k.wire \in Seq(Marks) /\ Len(k.wire) \in Nat /\ Len(k.tx) \in Nat /\ SockMax \in Nat
  BY WorkerAssumption DEF Connections
<1>1. n \in 0..Len(k.tx) /\ n <= SockMax - Len(k.wire)
  <2>1. Len(k.wire) \in 0..SockMax
    BY <1>0
  <2> QED BY ONLY <2>1, <1>0, Least
<1>2. q = [k EXCEPT !.wire = w, !.tx = b]
  BY DEF Flushed
<1> HIDE DEF n
<1>3. SubSeq(k.tx, 1, n) \in Seq(Marks) /\ b \in Seq(Marks) /\ Len(SubSeq(k.tx, 1, n)) = n
  BY <1>0, <1>1, Halves
<1>4. w \in Seq(Marks) /\ Len(w) = Len(k.wire) + n
  BY <1>0, <1>3, ConcatProperties
<1> HIDE DEF w, b, q
<1>5. Len(w) <= SockMax
  BY <1>0, <1>1, <1>4
<1>6. q \in Connections /\ q.wire = w /\ q.held = k.held /\ q.fate = k.fate
  BY <1>2, <1>3, <1>4 DEF Connections
<1> QED BY <1>5, <1>6 DEF q

LEMMA ServedShort ==
  ASSUME NEW k \in Connections, k.held, Len(k.wire) <= SockMax
  PROVE  LET s == Flushed(k)
             p == [s EXCEPT !.rx = {}, !.tx = IF "ping" \in k.rx THEN Append(s.tx, [k |-> "pong"]) ELSE s.tx]
             q == Flushed(p)
         IN s.fate = k.fate /\ q.fate = k.fate
<1>1. PICK s : s = Flushed(k)
  OBVIOUS
<1>2. s \in Connections /\ s.held /\ s.fate = k.fate /\ Len(s.wire) <= SockMax
  BY <1>1, FlushedShort
<1>3. PICK t : t = IF "ping" \in k.rx THEN Append(s.tx, [k |-> "pong"]) ELSE s.tx
  OBVIOUS
<1>4. t \in Seq(Marks)
  BY <1>2, <1>3, DiedIs DEF Connections
<1>5. PICK p : p = [s EXCEPT !.rx = {}, !.tx = t]
  OBVIOUS
<1>6. p \in Connections /\ p.held /\ p.fate = k.fate /\ Len(p.wire) <= SockMax
  <2>1. {} \in SUBSET {"ping", "shutdown"}
    OBVIOUS
  <2> QED BY <1>2, <1>4, <1>5, <2>1 DEF Connections
<1>7. Flushed(p).fate = k.fate
  BY <1>6, FlushedShort
<1> QED BY <1>1, <1>2, <1>3, <1>5, <1>7

LEMMA MarkedBrings ==
  ASSUME NEW k \in Connections, NEW f \in Fates
  PROVE  LET q == Marked(k, f) IN
         /\ q.at = k.at /\ (Tells(q) => Tells(k)) /\ (k.fate = "short" => q.fate = "short")
         /\ \A m, e : Brought(k, m, e) => Brought(q, m, e)
<1> DEFINE q == Marked(k, f)
<1>1. q.at = k.at /\ q.tx = k.tx /\ q.wire = k.wire /\ (k.fate = "short" => q.fate = "short")
  BY MarkedIs
<1> HIDE DEF q
<1> QED BY <1>1 DEF Tells, Brought, q

LEMMA ServePipes ==
  ASSUME Ready, PipeInv, NEW c \in Conns, Serve(c)
  PROVE  PipeInv'
<1> DEFINE k == conns[c]
           s == Flushed(k)
           p == [s EXCEPT !.rx = {}, !.tx = IF "ping" \in k.rx THEN Append(s.tx, [k |-> "pong"]) ELSE s.tx]
           q == Flushed(p)
<1>1. /\ worker.at = "serving" /\ k.at = "open" /\ UNCHANGED <<daemon, got>>
      /\ \/ conns' = [conns EXCEPT ![c] = s] /\ UNCHANGED <<worker, shell>>
         \/ conns' = [conns EXCEPT ![c] = q] /\ UNCHANGED <<worker, shell>>
         \/ Stops(conns)
  BY DEF Serve, Open, record
<1>2. worker \in Workers /\ shell \in [up : BOOLEAN, made : Nat] /\ conns \in [Conns -> Connections]
  BY DEF Ready, Shape, Workers
<1>3. CASE Stops(conns)
  <2>1. worker' = [worker EXCEPT !.at = "leaving"] /\ shell' = [shell EXCEPT !.up = FALSE] /\ conns' = Told(conns)
    BY <1>3 DEF Stops
  <2>2. worker'.at = "leaving" /\ shell'.made = shell.made /\ ~shell'.up
    BY <1>2, <2>1 DEF Workers
  <2>3. Reading'
    BY <2>2 DEF Reading
  <2>4. ASSUME daemon.at \in Talks PROVE Coming'
    <3>1. daemon.conn \in Conns /\ Mine = conns[daemon.conn] /\ Mine \in Connections
      BY <2>4, MineIs
    <3>2. Mine' = Mine \/ Mine' = Marked(Mine, "killed")
      BY <1>1, <2>1, <3>1 DEF Told, Mine
    <3>3. /\ Tells(Mine') => Tells(Mine)
          /\ Mine.fate = "short" => Mine'.fate = "short"
          /\ \A m, e : Brought(Mine, m, e) => Brought(Mine', m, e)
      <4>1. CASE Mine' = Mine
        <5> HIDE DEF Mine
        <5> QED BY <4>1 DEF Tells, Brought
      <4>2. CASE Mine' = Marked(Mine, "killed")
        <5>1. PICK k1 \in Connections : k1 = Mine
          BY <3>1
        <5>2. PICK q1 : q1 = Mine'
          OBVIOUS
        <5>3. "killed" \in Fates /\ q1 = Marked(k1, "killed")
          BY <4>2, <5>1, <5>2 DEF Fates
        <5>4. (Tells(q1) => Tells(k1)) /\ (k1.fate = "short" => q1.fate = "short") /\ \A m, e : Brought(k1, m, e) => Brought(q1, m, e)
          BY <5>3, MarkedBrings
        <5> QED BY <5>1, <5>2, <5>4
      <4> QED BY <3>2, <4>1, <4>2
    <3>4. SUFFICES ASSUME Mine'.fate # "short" PROVE \E m, e \in Nat : Awaited(m, e)'
      BY DEF Coming
    <3>5. PICK m, e \in Nat : Awaited(m, e) /\ ~Tells(Mine)
      BY <1>1, <2>4, <3>3, <3>4, UntoldYet
    <3>6. So(m)'
      BY <1>1, <2>2, <3>5, SoStays DEF Awaited
    <3>7. Brought(Mine', m, e) /\ ~Tells(Mine')
      BY <3>3, <3>5 DEF Awaited
    <3>8. Awaited(m, e)'
      BY <2>2, <3>6, <3>7 DEF Awaited
    <3> QED BY <3>5, <3>8
  <2> QED BY <1>1, <2>2, <2>3, <2>4, WorkerPipes
<1>4. ASSUME UNCHANGED <<worker, shell>>, NEW z, conns' = [conns EXCEPT ![c] = z],
             c = daemon.conn /\ daemon.at \in Talks /\ z.fate # "short" =>
               ~Tells(z) /\ \E m \in Nat : So(m) /\ Brought(z, m, worker.read)
      PROVE  PipeInv'
  <2>1. Reading'
    BY <1>1, <1>4 DEF PipeInv, Reading
  <2>2. ASSUME daemon.at \in Talks PROVE Coming'
    <3>1. daemon.conn \in Conns
      BY <2>2, MineIs
    <3>2. CASE c = daemon.conn
      <4>1. Mine' = z
        BY <1>1, <1>2, <1>4, <3>2 DEF Mine
      <4>2. worker.read \in Nat /\ got' = got /\ worker' = worker /\ shell' = shell
        BY <1>1, <1>2, <1>4 DEF Workers
      <4>3. SUFFICES ASSUME z.fate # "short" PROVE \E m, e \in Nat : Awaited(m, e)'
        BY <4>1 DEF Coming
      <4>4. PICK m \in Nat : So(m) /\ Brought(z, m, worker.read) /\ ~Tells(z)
        BY <1>4, <2>2, <3>2, <4>3
      <4>5. So(m)'
        BY <4>2, <4>4, SoStays
      <4>6. Awaited(m, worker.read)'
        BY <4>1, <4>2, <4>4, <4>5 DEF Awaited
      <4> QED BY <4>2, <4>4, <4>6
    <3>3. CASE c # daemon.conn
      <4>1. Mine' = Mine
        BY <1>1, <1>2, <1>4, <3>1, <3>3 DEF Mine
      <4> QED BY <1>1, <1>4, <2>2, <4>1, SameComes
    <3> QED BY <3>2, <3>3
  <2> QED BY <1>1, <1>4, <2>1, <2>2, WorkerPipes
<1>5. ASSUME c = daemon.conn, daemon.at \in Talks
      PROVE  /\ s.fate # "short" => ~Tells(s) /\ \E m \in Nat : So(m) /\ Brought(s, m, worker.read)
             /\ q.fate # "short" => ~Tells(q) /\ \E m \in Nat : So(m) /\ Brought(q, m, worker.read)
  <2>1. Mine = k /\ k \in Connections /\ k.held /\ Len(k.wire) <= SockMax
    BY <1>5, MineIs
  <2>2. CASE k.fate # "short"
    <3>1. PICK m, e \in Nat : Awaited(m, e) /\ ~Tells(Mine)
      BY <1>1, <1>5, <2>1, <2>2, UntoldYet
    <3>2. So(m) /\ ~Tells(k) /\ Brought(k, m, worker.read)
      BY <1>1, <2>1, <3>1 DEF Awaited
    <3>3. ~Tells(s) /\ Brought(s, m, worker.read) /\ ~Tells(q) /\ Brought(q, m, worker.read)
      BY <1>1, <2>1, <3>2, ServedBrings
    <3> HIDE DEF s, q
    <3> QED BY <3>1, <3>2, <3>3
  <2>3. CASE k.fate = "short"
    <3>1. s.fate = "short" /\ q.fate = "short"
      BY <1>1, <2>1, <2>3, ServedShort
    <3> HIDE DEF s, q
    <3> QED BY <3>1
  <2> QED BY <2>2, <2>3
<1> HIDE DEF s, q
<1> QED BY <1>1, <1>3, <1>4, <1>5

LEMMA LastShort ==
  ASSUME Shape, NEW k \in Connections, k.held, Sound(k), NEW from \in Nat, NEW q \in LastWords(k, from), q.fate # "short"
  PROVE  k.fate # "short"
<1> SUFFICES ASSUME k.fate = "short" PROVE q.fate = "short"
  OBVIOUS
<1>1. k.tx \in Seq(Marks) /\ Outs(from, shell.made) \in Seq(Marks) /\ Died \in Seq(Marks)
  BY OutsIs, DiedIs DEF Connections, Shape, Died
<1>2. PICK u \in Seq(Marks) : u = k.tx \o Outs(from, shell.made) \o Died
  BY <1>1, EndsIn
<1>3. ASSUME NEW t \in Seq(Marks), NEW f \in {"short"}, NEW x, x = [k EXCEPT !.tx = t, !.fate = f], q = Flushed(x)
      PROVE  q.fate = "short"
  <2>1. x \in Connections /\ x.held /\ x.wire = k.wire /\ x.fate = "short"
    BY <1>3 DEF Connections, Fates
  <2> QED BY <1>3, <2>1, FlushedShort DEF Sound
<1>4. CASE q = Flushed([k EXCEPT !.tx = k.tx \o Outs(from, shell.made) \o Died])
  <2>1. [k EXCEPT !.tx = u] = [k EXCEPT !.tx = u, !.fate = "short"]
    BY DEF Connections
  <2> QED BY <1>2, <1>3, <1>4, <2>1
<1>5. ASSUME NEW t \in Seq(Marks), q = Flushed([k EXCEPT !.tx = t, !.fate = "short"]) PROVE q.fate = "short"
  BY <1>3, <1>5
<1>6. \/ q = Flushed([k EXCEPT !.tx = k.tx \o Outs(from, shell.made) \o Died])
      \/ \E t \in Seq(Marks) : q = Flushed([k EXCEPT !.tx = t, !.fate = "short"])
  BY LastIs
<1> QED BY <1>4, <1>5, <1>6

LEMMA WaitedPipes ==
  ASSUME Ready, PipeInv, Waited
  PROVE  PipeInv'
<1>1. /\ worker.at = "serving" /\ ~shell.up /\ UNCHANGED <<shell, daemon, got>>
      /\ worker' = [worker EXCEPT !.at = Stays, !.read = shell.made]
  BY DEF Waited
<1>2. worker \in Workers /\ shell \in [up : BOOLEAN, made : Nat] /\ conns \in [Conns -> Connections] /\ Shape /\ Wired
  BY DEF Ready, Shape, Workers
<1>3. worker'.at = Stays /\ worker'.at \in {"leaving", "linger"} /\ worker'.read = shell.made
  BY <1>1, <1>2 DEF Workers, Stays
<1>4. Reading'
  BY <1>1, <1>3 DEF Reading
<1>5. worker.read \in Nat /\ worker.read <= shell.made /\ shell.made \in Nat
  BY <1>1, <1>2 DEF PipeInv, Reading, Workers
<1>6. ASSUME daemon.at \in Talks PROVE Coming'
  <2>1. daemon.conn \in Conns /\ Mine = conns[daemon.conn] /\ Mine \in Connections /\ Mine.held /\ Sound(Mine)
    BY <1>6, MineIs
  <2>2. Mine' = conns'[daemon.conn]
    BY <1>1 DEF Mine
  <2>3. CASE Mine.at # "open"
    <3>1. Mine' = Mine
      BY <2>1, <2>2, <2>3, WaitedIs
    <3> QED BY <1>1, <1>3, <1>6, <2>3, <3>1, UntoldComes
  <2>4. ASSUME Mine.at = "open", Mine'.fate # "short" PROVE \E m, e \in Nat : Awaited(m, e)'
    <3>1. PICK k \in Connections : k = Mine
      BY <2>1
    <3>2. PICK q \in LastWords(k, worker.read) : q = Mine'
      BY <2>1, <2>2, <2>4, <3>1, WaitedIs
    <3>3. k.fate # "short"
      BY <1>2, <1>5, <2>1, <2>4, <3>1, <3>2, LastShort
    <3>4. PICK m, e \in Nat : Awaited(m, e) /\ ~Tells(Mine)
      BY <1>1, <1>6, <3>1, <3>3, UntoldYet
    <3>5. Brought(k, m, worker.read) /\ ~Tells(k)
      BY <1>1, <2>4, <3>1, <3>4 DEF Awaited
    <3>6. Brought(q, m, shell.made)
      BY <1>2, <1>5, <2>1, <2>4, <3>1, <3>2, <3>5, LastBrings
    <3>7. worker'.at = "leaving"
      BY <1>2, <1>3, <2>1, <2>4 DEF Wired, Stays
    <3>8. So(m)'
      BY <1>1, <3>4, SoStays DEF Awaited
    <3>9. PICK z \in Nat : z = shell.made
      BY <1>5
    <3>10. Awaited(m, z)'
      BY <1>1, <3>2, <3>6, <3>7, <3>8, <3>9 DEF Awaited
    <3> QED BY <3>4, <3>10
  <2>5. CASE Mine.at = "open"
    BY <2>4, <2>5 DEF Coming
  <2> QED BY <2>3, <2>5
<1>7. UNCHANGED <<daemon, got>> /\ shell'.made = shell.made /\ (shell'.up => shell.up)
  BY <1>1
<1> QED BY <1>4, <1>6, <1>7, WorkerPipes

LEMMA LapsePipes ==
  ASSUME Ready, PipeInv, Lapse
  PROVE  PipeInv'
<1>1. worker.at = "linger" /\ worker' = [worker EXCEPT !.at = "leaving"] /\ UNCHANGED <<shell, conns, daemon, got>> /\ worker \in Workers
  BY DEF Lapse, record, Ready, Shape, Workers
<1>2. worker'.at = "leaving"
  BY <1>1 DEF Workers
<1>3. Mine' = Mine
  BY <1>1 DEF Mine
<1>4. Reading'
  BY <1>2 DEF Reading
<1>5. ASSUME daemon.at \in Talks PROVE Coming'
  <2> QED BY <1>1, <1>2, <1>3, <1>5, UntoldComes
<1> QED BY <1>1, <1>4, <1>5, WorkerPipes

LEMMA FinalFlushPipes ==
  ASSUME Ready, PipeInv, NEW c \in Conns, FinalFlush(c)
  PROVE  PipeInv'
<1> DEFINE q == Flushed(conns[c])
<1>1. worker.at = "leaving" /\ conns' = [conns EXCEPT ![c] = q] /\ UNCHANGED <<worker, shell, daemon, got>> /\ conns \in [Conns -> Connections]
      /\ conns[c].at = "open"
  BY DEF FinalFlush, Open, record, Ready, Shape
<1>2. Reading'
  BY <1>1 DEF Reading
<1>3. ASSUME daemon.at \in Talks PROVE Coming'
  <2>1. daemon.conn \in Conns /\ Mine = conns[daemon.conn] /\ Mine \in Connections /\ Mine.held /\ Len(Mine.wire) <= SockMax
    BY <1>3, MineIs
  <2>2. CASE c = daemon.conn
    <3>1. Mine' = q /\ conns[c] = Mine
      BY <1>1, <2>1, <2>2 DEF Mine
    <3>2. q.fate = Mine.fate
      BY <2>1, <3>1, FlushedShort
    <3>3. SUFFICES ASSUME q.fate # "short" PROVE \E m, e \in Nat : Awaited(m, e)'
      BY <3>1 DEF Coming
    <3>4. PICK m, e \in Nat : Awaited(m, e)
      BY <1>3, <3>2, <3>3 DEF PipeInv, Coming
    <3>5. Brought(q, m, e) /\ (Tells(q) => Tells(Mine)) /\ q.at = Mine.at
      BY <2>1, <3>1, <3>4, FlushedBrings DEF Awaited
    <3>6. So(m)'
      BY <1>1, <3>4, SoStays DEF Awaited
    <3> HIDE DEF q
    <3>7. Awaited(m, e)'
      BY <1>1, <3>1, <3>4, <3>5, <3>6 DEF Awaited
    <3> QED BY <3>4, <3>7
  <2>3. CASE c # daemon.conn
    <3>1. Mine' = Mine
      BY <1>1, <2>1, <2>3 DEF Mine
    <3> QED BY <1>1, <1>3, <3>1, SameComes
  <2> QED BY <2>2, <2>3
<1> QED BY <1>1, <1>2, <1>3, WorkerPipes

\* What a worker that leaves has not sent is not read.
LEMMA CutBrings ==
  ASSUME NEW k \in Connections, k.held
  PROVE  LET q == Cut(k) IN
         /\ q.at = "closed" /\ (k.fate = "short" => q.fate = "short")
         /\ \A m, e : Brought(k, m, e) =>
              (Tells(q) => Tells(k)) /\ \E x \in Nat : Brought(q, m, x) /\ (Tells(q) => x = e)
<1>1. PICK y : y = IF k.tx = <<>> THEN k ELSE Marked(k, "cut")
  OBVIOUS
<1>2. "cut" \in Fates
  BY DEF Fates
<1>3. y \in Connections /\ y.held /\ (k.fate = "short" => y.fate = "short")
  BY <1>1, <1>2, MarkedIs
<1>4. (Tells(y) => Tells(k)) /\ \A m, e : Brought(k, m, e) => Brought(y, m, e)
  BY <1>1, <1>2, MarkedBrings
<1>5. PICK q : q = Cut(k)
  OBVIOUS
<1>6. q = Dropped(y)
  BY <1>1, <1>5 DEF Cut
<1>7. q.at = "closed" /\ q.fate = y.fate
  BY <1>3, <1>6 DEF Dropped, Kept, Connections
<1>8. ASSUME NEW m, NEW e, Brought(k, m, e)
      PROVE  (Tells(q) => Tells(k)) /\ \E x \in Nat : Brought(q, m, x) /\ (Tells(q) => x = e)
  <2>1. Brought(y, m, e)
    BY <1>4, <1>8
  <2>2. (Tells(q) => Tells(y)) /\ \E x \in Nat : Brought(q, m, x) /\ (Tells(q) => x = e)
    BY <1>3, <1>6, <2>1, DroppedBrings
  <2> QED BY <1>4, <2>2
<1> QED BY <1>3, <1>5, <1>7, <1>8

LEMMA LeavePipes ==
  ASSUME Ready, PipeInv, Leave
  PROVE  PipeInv'
<1>1. /\ worker.at = "leaving" /\ worker' = Asleep /\ UNCHANGED <<shell, daemon, got>> /\ conns \in [Conns -> Connections]
      /\ conns' = [c \in Conns |-> IF conns[c].at \in {"backlog", "open"} THEN Cut(conns[c]) ELSE conns[c]]
  BY DEF Leave, record, Ready, Shape
<1>2. worker'.at = "none"
  BY <1>1 DEF Asleep
<1>3. Reading'
  BY <1>2 DEF Reading
<1>4. ASSUME daemon.at \in Talks PROVE Coming'
  <2>1. daemon.conn \in Conns /\ Mine = conns[daemon.conn] /\ Mine \in Connections /\ Mine.held
    BY <1>4, MineIs
  <2>2. CASE Mine.at \in {"backlog", "open"}
    <3>1. PICK k \in Connections : k = Mine
      BY <2>1
    <3>2. PICK q : q = Cut(k)
      OBVIOUS
    <3>3. Mine' = q
      BY <1>1, <2>1, <2>2, <3>1, <3>2 DEF Mine
    <3>4. q.at = "closed" /\ (k.fate = "short" => q.fate = "short")
      BY <2>1, <3>1, <3>2, CutBrings
    <3>5. SUFFICES ASSUME q.fate # "short" PROVE \E m, e \in Nat : Awaited(m, e)'
      BY <3>3 DEF Coming
    <3>6. PICK m, e \in Nat : Awaited(m, e)
      BY <1>4, <3>1, <3>4, <3>5 DEF PipeInv, Coming
    <3>7. Brought(k, m, e)
      BY <3>1, <3>6 DEF Awaited
    <3>8. (Tells(q) => Tells(k)) /\ \E x \in Nat : Brought(q, m, x) /\ (Tells(q) => x = e)
      BY <2>1, <3>1, <3>2, <3>7, CutBrings
    <3>9. PICK x \in Nat : Brought(q, m, x) /\ (Tells(q) => x = e)
      BY <3>8
    <3>10. So(m)'
      BY <1>1, <3>6, SoStays DEF Awaited
    <3>11. Tells(q) => ~shell.up /\ x = shell.made
      BY <3>1, <3>6, <3>8, <3>9 DEF Awaited
    <3>12. Awaited(m, x)'
      BY <1>1, <1>2, <3>3, <3>9, <3>10, <3>11 DEF Awaited
    <3> QED BY <3>6, <3>9, <3>12
  <2>3. CASE Mine.at \notin {"backlog", "open"}
    <3>1. Mine' = Mine
      BY <1>1, <2>1, <2>3 DEF Mine
    <3> QED BY <1>1, <1>2, <1>4, <3>1, SameComes
  <2> QED BY <2>2, <2>3
<1> QED BY <1>1, <1>3, <1>4, WorkerPipes

-----------------------------------------------------------------------------
(* And the daemon's. *)

LEMMA QuietYet ==
  ASSUME PipeInv, daemon.at \notin {"hosted", "dead"}, UNCHANGED <<worker, shell, got>>, daemon'.at \notin Talks
  PROVE  PipeInv'
<1>1. got' = <<>>
  BY DEF PipeInv
<1>2. Reading'
  BY <1>1 DEF PipeInv, Reading
<1> QED BY <1>1, <1>2, QuietPipes

LEMMA DialsPipes ==
  ASSUME Ready, PipeInv, NEW at \in {"pinging", "greeting", "adopting"}, NEW rx \in SUBSET {"ping", "shutdown"}, Dials(at, rx),
         Listening, UNCHANGED <<worker, shell>>, got' = <<>>
  PROVE  PipeInv'
<1> DEFINE z == [Free EXCEPT !.at = "backlog", !.held = TRUE, !.rx = rx]
<1>1. PICK c \in Conns :
        /\ conns' = [conns EXCEPT ![c] = z]
        /\ daemon' = [at |-> at, conn |-> c, code |-> "none", fate |-> "kept"]
  BY DEF Dials
<1>2. daemon'.at = at /\ daemon'.conn = c /\ worker.at # "starting"
  BY <1>1 DEF Listening
<1>3. z.at = "backlog" /\ z.tx = <<>> /\ z.wire = <<>>
  BY DEF Free
<1>4. Mine' = z
  <2>1. conns \in [Conns -> Connections]
    BY DEF Ready, Shape
  <2> QED BY <1>1, <1>2, <2>1 DEF Mine
<1> HIDE DEF z
<1>5. Brought(z, 0, 0) /\ ~Tells(z)
  <2>1. 0 \in Nat
    OBVIOUS
  <2> QED BY <1>3, <2>1, CarriesNothing, NothingEnds DEF Brought, Tells
<1>6. So(0)'
  <2>1. Run(0, 0) \in Seq(Nat) /\ Len(Run(0, 0)) = 0
    BY RunIs
  <2>2. got' = Run(0, 0) /\ 0 \in Nat
    BY <2>1
  <2> QED BY <2>2 DEF So, Begun
<1>7. Awaited(0, 0)'
  BY <1>3, <1>4, <1>5, <1>6 DEF Awaited
<1>8. Coming'
  BY <1>7 DEF Coming
<1>9. Reading'
  BY <1>2 DEF PipeInv, Reading
<1> QED BY <1>2, <1>8, <1>9 DEF PipeInv, Had

\* The frame that says READY brings nothing.
LEMMA ReadyBrings ==
  ASSUME NEW k \in Connections, k.wire # <<>>, k.wire[1].k = "ready", NEW m, NEW e, Brought(k, m, e),
         NEW q \in Connections, q.wire = Tail(k.wire), q.tx = k.tx
  PROVE  Brought(q, m, e) /\ (Tells(q) => Tells(k))
<1> DEFINE w == k.wire
           a == SubSeq(w, 1, 1)
           b == SubSeq(w, 2, Len(w))
<1>1. w \in Seq(Marks) /\ Len(w) \in Nat /\ Len(w) >= 1 /\ k.tx \in Seq(Marks) /\ b = Tail(w)
  BY TailIsSubSeq DEF Connections
<1>2. PICK x \in Nat : Carries(w, m, x) /\ Carries(k.tx, x, e)
  BY DEF Brought
<1>3. PICK y \in Nat : Carries(a, m, y) /\ Carries(b, y, x)
  <2>1. 1 \in 0..Len(w)
    BY <1>1
  <2>2. \E y \in Nat : Carries(SubSeq(w, 1, 1), m, y) /\ Carries(SubSeq(w, 1 + 1, Len(w)), y, x)
    BY <1>1, <1>2, <2>1, CarriesHalves
  <2> QED BY <2>2
<1>4. Len(a) = 1 /\ a[1].k = "ready" /\ a \in Seq(Marks)
  <2>1. \A i \in 1..1 : w[i] \in Marks
    BY <1>1
  <2> QED BY <1>1, <2>1, SubSeqProperties
<1> HIDE DEF a, b
<1>5. m = y
  <2>1. PICK f : Tallies(a, f) /\ f[0] = m /\ f[Len(a)] = y
    BY <1>3 DEF Carries
  <2>2. Brings(a[1], f[1 - 1], f[1])
    BY <1>4, <2>1 DEF Tallies
  <2> QED BY <1>4, <2>1, <2>2 DEF Brings
<1>6. Ends(Tail(w)) => Ends(w)
  <2>1. Len(Tail(w)) = Len(w) - 1 /\ \A i \in 1..Len(Tail(w)) : Tail(w)[i] = w[i + 1] /\ i + 1 \in 1..Len(w)
    BY <1>1
  <2> QED BY <2>1 DEF Ends
<1>7. Carries(q.wire, m, x)
  BY <1>1, <1>3, <1>5
<1> QED BY <1>2, <1>6, <1>7 DEF Brought, Tells

LEMMA HostsPipes ==
  ASSUME Ready, PipeInv, daemon.at \in {"greeting", "adopting"}, Hosts
  PROVE  PipeInv'
<1> DEFINE q == [Mine EXCEPT !.wire = Tail(Mine.wire)]
<1>1. /\ Mine.wire # <<>> /\ daemon' = [daemon EXCEPT !.at = "hosted", !.code = "none"]
      /\ got' = <<>> /\ UNCHANGED <<worker, shell>>
  BY DEF Hosts
<1>2. daemon.at \in Talks /\ got = <<>> /\ Mine.wire[1].k = "ready"
  BY <1>1 DEF PipeInv, Talks, Ready
<1>3. daemon.conn \in Conns /\ Mine = conns[daemon.conn] /\ Mine \in Connections
  BY <1>2, MineIs
<1>4. conns' = [conns EXCEPT ![daemon.conn] = q]
  <2>1. conns' = [conns EXCEPT ![daemon.conn].wire = Tail(conns[daemon.conn].wire)]
    BY DEF Hosts
  <2> QED BY <1>3, <2>1 DEF Mine
<1>5. q \in Connections /\ q.wire = Tail(Mine.wire) /\ q.tx = Mine.tx /\ q.at = Mine.at /\ q.fate = Mine.fate
  <2>1. Tail(Mine.wire) \in Seq(Marks)
    BY <1>1, <1>3 DEF Connections
  <2> HIDE DEF Mine
  <2> QED BY <1>3, <2>1 DEF Connections
<1>6. daemon'.at = "hosted" /\ daemon'.conn = daemon.conn
  BY DEF Hosts, Ready, Shape
<1>7. Mine' = q
  <2>1. conns \in [Conns -> Connections]
    BY DEF Ready, Shape
  <2> HIDE DEF q
  <2> QED BY <1>3, <1>4, <1>6, <2>1 DEF Mine
<1> HIDE DEF q
<1>8. ASSUME NEW m, NEW e, Awaited(m, e) PROVE Awaited(m, e)'
  <2>1. Brought(Mine, m, e)
    BY <1>8 DEF Awaited
  <2>2. Brought(q, m, e) /\ (Tells(q) => Tells(Mine))
    BY <1>1, <1>2, <1>3, <1>5, <2>1, ReadyBrings
  <2>3. So(m)'
    BY <1>1, <1>2, <1>8, SoStays DEF Awaited
  <2> QED BY <1>1, <1>5, <1>7, <1>8, <2>2, <2>3 DEF Awaited
<1>9. Coming
  BY <1>2 DEF PipeInv
<1>10. Coming'
  <2>1. SUFFICES ASSUME q.fate # "short" PROVE \E m, e \in Nat : Awaited(m, e)'
    BY <1>7 DEF Coming
  <2>2. PICK m, e \in Nat : Awaited(m, e)
    BY <1>5, <1>9, <2>1 DEF Coming
  <2> QED BY <1>8, <2>2
<1>11. Reading'
  BY <1>1, <1>2 DEF PipeInv, Reading
<1> QED BY <1>1, <1>2, <1>6, <1>10, <1>11 DEF PipeInv, Had

\* What the poller takes from the wire goes on from what it has read.
LEMMA PollReads ==
  ASSUME NEW k \in Connections, NEW m \in Nat, NEW e \in Nat, So(m), Brought(k, m, e), UNCHANGED shell,
         got' = got \o Read(k.wire, {"scroll", "out"})
  PROVE  \E x \in Nat : So(x)' /\ Carries(k.tx, x, e) /\ (Ends(k.wire) => x = e)
<1>1. PICK b \in Nat : b <= m /\ got = Run(b, m) /\ Begun(b)
  BY DEF So
<1>2. PICK x \in Nat : Carries(k.wire, m, x) /\ Carries(k.tx, x, e)
  BY DEF Brought
<1>3. k.wire \in Seq(Marks)
  BY DEF Connections
<1>4. m <= x /\ Read(k.wire, {"scroll", "out"}) = Run(m, x)
  BY <1>2, <1>3, ReadIs
<1>a. b <= x
  BY <1>1, <1>4
<1>5. Run(b, m) \o Run(m, x) = Run(b, x) /\ b <= x
  BY <1>1, <1>4, <1>a, RunsJoin
<1>6. got' = Run(b, x)
  BY <1>1, <1>4, <1>5
<1>7. Begun(b)'
  BY <1>1 DEF Begun
<1>8. So(x)'
  BY <1>5, <1>6, <1>7 DEF So
<1>9. Ends(k.wire) => x = e
  BY <1>2, CarriesNothing DEF Brought
<1> QED BY <1>2, <1>8, <1>9

LEMMA PollPipes ==
  ASSUME Ready, PipeInv, Poll
  PROVE  PipeInv'
<1> DEFINE told == \E i \in DOMAIN Mine.wire : Mine.wire[i].k = "died"
           q == [Mine EXCEPT !.wire = <<>>]
<1>1. /\ daemon.at = "hosted" /\ UNCHANGED <<worker, shell>> /\ got' = got \o Read(Mine.wire, {"scroll", "out"})
  BY DEF Poll
<1>2. daemon.at \in Talks /\ worker.at # "starting"
  BY <1>1 DEF Talks, PipeInv, Reading
<1>3. daemon.conn \in Conns /\ Mine = conns[daemon.conn] /\ Mine \in Connections
  BY <1>2, MineIs
<1>4. Coming
  BY <1>2 DEF PipeInv
<1>5. ASSUME Mine.fate # "short"
      PROVE  \E m, e, x \in Nat : Awaited(m, e) /\ So(x)' /\ Carries(Mine.tx, x, e) /\ (Ends(Mine.wire) => x = e)
  <2>1. PICK m, e \in Nat : Awaited(m, e)
    BY <1>4, <1>5 DEF Coming
  <2>2. PICK k \in Connections : k = Mine
    BY <1>3
  <2>3. Brought(k, m, e) /\ So(m)
    BY <2>1, <2>2 DEF Awaited
  <2>4. got' = got \o Read(k.wire, {"scroll", "out"})
    BY <1>1, <2>2
  <2>5. \E x \in Nat : So(x)' /\ Carries(k.tx, x, e) /\ (Ends(k.wire) => x = e)
    BY <1>1, <2>3, <2>4, PollReads
  <2> QED BY <2>1, <2>2, <2>5
<1>11. told => Ends(Mine.wire)
  <2>1. DOMAIN Mine.wire = 1..Len(Mine.wire)
    BY <1>3 DEF Connections
  <2> QED BY <2>1 DEF Ends
<1>12. Reading'
  BY <1>1, <1>2 DEF PipeInv, Reading
<1>13. CASE Over(told)
  <2>1. daemon' = [at |-> "dead", conn |-> 0, fate |-> Mine.fate, code |-> IF told THEN "real" ELSE "unknown"]
    <3>1. IF Over(\E i \in DOMAIN Mine.wire : Mine.wire[i].k = "died")
          THEN daemon' = [at |-> "dead", conn |-> 0, fate |-> Mine.fate,
                          code |-> IF \E i \in DOMAIN Mine.wire : Mine.wire[i].k = "died" THEN "real" ELSE "unknown"]
          ELSE TRUE
      BY DEF Poll
    <3> QED BY <1>13, <3>1
  <2> HIDE DEF told
  <2>2. daemon'.at = "dead" /\ daemon'.fate = Mine.fate /\ daemon'.code = IF told THEN "real" ELSE "unknown"
    BY <2>1
  <2>3. Had'
    <3>1. SUFFICES ASSUME Mine.fate # "short"
                   PROVE  \E x \in Nat : So(x)' /\ (daemon'.code = "real" => ~shell'.up /\ x = shell'.made)
      BY <2>2 DEF Had
    <3>2. PICK m, e, x \in Nat : Awaited(m, e) /\ So(x)' /\ (Ends(Mine.wire) => x = e)
      BY <1>5, <3>1
    <3>3. ASSUME daemon'.code = "real" PROVE ~shell'.up /\ x = shell'.made
      <4>1. Ends(Mine.wire)
        BY <1>11, <2>2, <3>3
      <4> QED BY <1>1, <3>2, <4>1 DEF Awaited, Tells
    <3> QED BY <3>2, <3>3
  <2> QED BY <1>12, <2>2, <2>3 DEF PipeInv, Talks
<1>14. CASE ~Over(told)
  <2>1. conns' = [conns EXCEPT ![daemon.conn].wire = <<>>] /\ daemon' = daemon
    <3>1. IF Over(\E i \in DOMAIN Mine.wire : Mine.wire[i].k = "died")
          THEN TRUE
          ELSE conns' = [conns EXCEPT ![daemon.conn].wire = <<>>] /\ daemon' = daemon
      BY DEF Poll
    <3> QED BY <1>14, <3>1
  <2>2. Mine' = q
    <3>1. conns \in [Conns -> Connections]
      BY DEF Ready, Shape
    <3> QED BY <1>3, <2>1, <3>1 DEF Mine
  <2>3. q.wire = <<>> /\ q.tx = Mine.tx /\ q.at = Mine.at /\ q.fate = Mine.fate
    <3> HIDE DEF Mine
    <3> QED BY <1>3 DEF Connections
  <2> HIDE DEF q, told
  <2>4. Coming'
    <3>1. SUFFICES ASSUME Mine.fate # "short" PROVE \E m, e \in Nat : Awaited(m, e)'
      BY <2>2, <2>3 DEF Coming
    <3>2. PICK m, e, x \in Nat : Awaited(m, e) /\ So(x)' /\ Carries(Mine.tx, x, e)
      BY <1>5, <3>1
    <3>3. Brought(q, x, e) /\ (Tells(q) => Tells(Mine))
      BY <2>3, <3>2, CarriesNothing, NothingEnds DEF Brought, Tells, Awaited
    <3>4. Awaited(x, e)'
      BY <1>1, <2>2, <2>3, <3>2, <3>3 DEF Awaited
    <3> QED BY <3>2, <3>4
  <2> QED BY <1>1, <1>12, <2>1, <2>4 DEF PipeInv
<1> QED BY <1>13, <1>14

LEMMA AskPipes ==
  ASSUME Ready, PipeInv, Ask
  PROVE  PipeInv'
<1>1. got' = <<>> /\ UNCHANGED <<worker, shell>>
  BY DEF Ask
<1>2. CASE Listening /\ Dials("pinging", {"ping"})
  <2>1. {"ping"} \in SUBSET {"ping", "shutdown"} /\ "pinging" \in {"pinging", "greeting", "adopting"}
    OBVIOUS
  <2> QED BY <1>1, <1>2, <2>1, DialsPipes
<1>3. CASE daemon' = [at |-> "absent", conn |-> 0, code |-> "none", fate |-> "kept"]
  <2>1. daemon'.at = "absent" /\ daemon'.at \notin Talks
    BY <1>3 DEF Talks
  <2>2. Reading'
    BY <1>1, <2>1 DEF PipeInv, Reading
  <2> QED BY <1>1, <2>1, <2>2, QuietPipes
<1> QED BY <1>2, <1>3 DEF Ask

LEMMA DialingPipes ==
  ASSUME Ready, PipeInv, Reattach \/ Connect \/ Boot
  PROVE  PipeInv'
<1>1. daemon.at \in {"found", "spawning", "down"} /\ UNCHANGED <<worker, shell, got>>
  BY DEF Reattach, Connect, Boot, record
<1>2. got' = <<>>
  BY <1>1 DEF PipeInv
<1>3. CASE Listening /\ \E at \in {"greeting", "adopting"} : Dials(at, {})
  <2>1. PICK at \in {"greeting", "adopting"} : Dials(at, {})
    BY <1>3
  <2>2. {} \in SUBSET {"ping", "shutdown"} /\ at \in {"pinging", "greeting", "adopting"}
    OBVIOUS
  <2> QED BY <1>1, <1>2, <1>3, <2>1, <2>2, DialsPipes
<1>4. CASE daemon' = [daemon EXCEPT !.at = "direct", !.conn = 0] \/ daemon' = [daemon EXCEPT !.at = "idle"]
  <2>1. daemon'.at \notin Talks
    BY <1>4 DEF Ready, Shape, Talks
  <2> QED BY <1>1, <2>1, QuietYet
<1>5. \/ Listening /\ \E at \in {"greeting", "adopting"} : Dials(at, {})
      \/ daemon' = [daemon EXCEPT !.at = "direct", !.conn = 0]
      \/ daemon' = [daemon EXCEPT !.at = "idle"]
  BY DEF Reattach, Connect, Boot, Falls
<1> QED BY <1>3, <1>4, <1>5

LEMMA QuietSteps ==
  ASSUME Ready, PipeInv, Pinged \/ PingReads \/ SpawnFails \/ GreetFails
  PROVE  PipeInv'
<1>1. daemon.at \in {"pinging", "spawning", "greeting", "adopting"} /\ UNCHANGED <<worker, shell, got>>
  BY DEF Pinged, PingReads, SpawnFails, GreetFails, record
<1>2. daemon'.at \notin Talks
  <2>1. CASE Pinged
    <3>1. PICK b \in {"absent", "found"} : daemon' = [daemon EXCEPT !.conn = 0, !.at = b]
      BY <2>1 DEF Pinged
    <3> QED BY <3>1 DEF Ready, Shape, Talks
  <2>2. CASE PingReads
    <3>1. daemon.at = "pinging" /\ (daemon' = daemon \/ daemon' = [daemon EXCEPT !.at = "absent", !.conn = 0])
      BY <2>2 DEF PingReads
    <3> QED BY <3>1 DEF Ready, Shape, Talks
  <2>3. CASE SpawnFails \/ GreetFails
    <3>1. daemon' = [daemon EXCEPT !.at = "direct", !.conn = 0] \/ daemon' = [daemon EXCEPT !.at = "idle", !.conn = 0]
      BY <2>3 DEF SpawnFails, GreetFails, Falls
    <3> QED BY <3>1 DEF Ready, Shape, Talks
  <2> QED BY <2>1, <2>2, <2>3
<1> QED BY <1>1, <1>2, QuietYet

LEMMA SpawnPipes ==
  ASSUME Ready, PipeInv, Spawn
  PROVE  PipeInv'
<1>1. /\ daemon.at = "absent" /\ worker' = [Asleep EXCEPT !.at = "starting", !.for = used.asks]
      /\ daemon' = [daemon EXCEPT !.at = "spawning"] /\ got' = got
  BY DEF Spawn, record
<1>2. worker'.at = "starting" /\ worker'.read = 0
  BY <1>1 DEF Asleep
<1>3. daemon'.at \notin Talks
  BY <1>1 DEF Ready, Shape, Talks
<1>4. got' = <<>>
  BY <1>1 DEF PipeInv
<1>5. Reading'
  BY <1>2, <1>3, <1>4 DEF Reading
<1> QED BY <1>3, <1>4, <1>5, QuietPipes

LEMMA KillPipes ==
  ASSUME Ready, PipeInv, Kill
  PROVE  PipeInv'
<1>1. /\ daemon.at = "hosted" /\ daemon' = [at |-> "idle", conn |-> 0, code |-> "none", fate |-> "kept"] /\ got' = <<>>
  BY DEF Kill
<1>2. daemon'.at \notin Talks /\ worker.at # "starting" /\ worker \in Workers
  BY <1>1 DEF Talks, PipeInv, Reading, Ready, Shape, Workers
<1>3. CASE UNCHANGED shell /\ \E h \in BOOLEAN : worker' = [worker EXCEPT !.killed = h]
  <2>1. worker'.at = worker.at /\ worker'.read = worker.read
    BY <1>2, <1>3 DEF Workers
  <2>2. Reading'
    BY <1>2, <1>3, <2>1 DEF PipeInv, Reading
  <2> QED BY <1>1, <1>2, <2>2, QuietPipes
<1>4. CASE worker' = [worker EXCEPT !.at = "leaving"]
  <2>1. worker'.at = "leaving"
    BY <1>2, <1>4 DEF Workers
  <2>2. Reading'
    BY <2>1 DEF Reading
  <2> QED BY <1>1, <1>2, <2>2, QuietPipes
<1>5. (UNCHANGED shell /\ \E h \in BOOLEAN : worker' = [worker EXCEPT !.killed = h]) \/ worker' = [worker EXCEPT !.at = "leaving"]
  <2>1. \/ UNCHANGED shell /\ worker' = [worker EXCEPT !.killed = (IF Mine.at = "closed" THEN {} ELSE {"shutdown"}) # {}]
        \/ worker' = [worker EXCEPT !.at = "leaving"]
    BY DEF Kill, Stops
  <2> QED BY <2>1
<1> QED BY <1>3, <1>4, <1>5

LEMMA EndsPipes ==
  ASSUME Ready, PipeInv, DirectEnds \/ Crash
  PROVE  PipeInv'
<1>1. CASE DirectEnds
  <2>1. daemon.at = "direct" /\ daemon' = [daemon EXCEPT !.at = "dead", !.code = "real"] /\ UNCHANGED <<worker, shell, got>>
    BY <1>1 DEF DirectEnds, record
  <2>2. daemon'.at \notin Talks
    BY <2>1 DEF Ready, Shape, Talks
  <2> QED BY <2>1, <2>2, QuietYet
<1>2. CASE Crash
  <2>1. daemon' = [at |-> "down", conn |-> 0, code |-> "none", fate |-> "kept"] /\ got' = <<>> /\ UNCHANGED <<worker, shell>>
    BY <1>2 DEF Crash
  <2>2. daemon'.at \notin Talks
    BY <2>1 DEF Talks
  <2>3. Reading'
    BY <2>1, <2>2 DEF PipeInv, Reading
  <2> QED BY <2>1, <2>2, <2>3, QuietPipes
<1> QED BY <1>1, <1>2

\* While the shell is up nobody is told its end.
LEMMA ShellPipes ==
  ASSUME Ready, PipeInv, Prints \/ Exits
  PROVE  PipeInv'
<1>1. UNCHANGED <<worker, conns, daemon, got>> /\ shell.up /\ shell \in [up : BOOLEAN, made : Nat]
  BY DEF Prints, Exits, record, Ready, Shape
<1>2. Mine' = Mine
  BY <1>1 DEF Mine
<1>3. CASE Exits
  <2>1. shell'.made = shell.made
    BY <1>1, <1>3 DEF Exits
  <2>2. Reading'
    BY <1>1, <2>1 DEF PipeInv, Reading
  <2>3. ASSUME daemon.at \in Talks PROVE Coming'
    <3>1. SUFFICES ASSUME Mine.fate # "short" PROVE \E m, e \in Nat : Awaited(m, e)'
      BY <1>2 DEF Coming
    <3>2. PICK m, e \in Nat : Awaited(m, e)
      BY <2>3, <3>1 DEF PipeInv, Coming
    <3>3. So(m)'
      BY <1>1, <2>1, <3>2, SoStays DEF Awaited
    <3>4. Awaited(m, e)'
      BY <1>1, <1>2, <3>2, <3>3 DEF Awaited
    <3> QED BY <3>2, <3>4
  <2> QED BY <1>1, <2>1, <2>2, <2>3, WorkerPipes
<1>4. CASE Prints
  <2>1. shell' = [shell EXCEPT !.made = shell.made + 1]
    BY <1>4 DEF Prints
  <2>2. shell'.made = shell.made + 1 /\ shell'.up /\ shell.made \in Nat /\ worker.read \in Nat
    BY <1>1, <2>1 DEF Ready, Shape
  <2>3. Reading'
    <3>1. worker.at = "serving" => worker.read <= shell.made
      BY DEF PipeInv, Reading
    <3>2. worker.at = "serving" => worker.read <= shell'.made
      BY <2>2, <3>1
    <3>3. worker.at # "linger"
      BY <1>1 DEF PipeInv, Reading
    <3> QED BY <1>1, <3>2, <3>3 DEF PipeInv, Reading
  <2>4. ASSUME NEW m, So(m) PROVE So(m)'
    <3>1. PICK b \in Nat : b <= m /\ got = Run(b, m) /\ Begun(b)
      BY <2>4 DEF So
    <3>2. Begun(b)'
      <4>1. Snapshot \in Nat
        BY WorkerAssumption
      <4> QED BY <2>2, <3>1, <4>1 DEF Begun
    <3> QED BY <1>1, <3>1, <3>2 DEF So
  <2>5. ASSUME daemon.at \in Talks PROVE Coming'
    <3>1. SUFFICES ASSUME Mine.fate # "short" PROVE \E m, e \in Nat : Awaited(m, e)'
      BY <1>2 DEF Coming
    <3>2. PICK m, e \in Nat : Awaited(m, e)
      BY <2>5, <3>1 DEF PipeInv, Coming
    <3>3. ~Tells(Mine) /\ So(m)'
      BY <1>1, <2>4, <3>2 DEF Awaited
    <3>4. Awaited(m, e)'
      BY <1>1, <1>2, <3>2, <3>3 DEF Awaited
    <3> QED BY <3>2, <3>4
  <2>6. ASSUME daemon.at = "dead" PROVE Had'
    <3>1. SUFFICES ASSUME got # <<>>, daemon.fate # "short"
                   PROVE  \E m \in Nat : So(m)' /\ daemon.code # "real"
      BY <1>1 DEF Had
    <3>2. PICK m \in Nat : So(m) /\ daemon.code # "real"
      BY <1>1, <2>6, <3>1 DEF PipeInv, Had
    <3> QED BY <2>4, <3>2
  <2> QED BY <1>1, <2>3, <2>5, <2>6 DEF PipeInv
<1> QED BY <1>3, <1>4

LEMMA InitPipes == Init => PipeInv
<1> SUFFICES ASSUME Init PROVE PipeInv
  OBVIOUS
<1>1. worker.at = "none" /\ daemon.at = "idle" /\ got = <<>>
  BY DEF Init, Asleep
<1> QED BY <1>1 DEF PipeInv, Reading, Talks

LEMMA StepPipes ==
  ASSUME Ready, PipeInv, [Next]_vars
  PROVE  PipeInv'
<1>1. CASE WorkerStep
  BY <1>1, BindPipes, ReadPtyPipes, WaitedPipes, LapsePipes, LeavePipes, AcceptPipes, ServePipes, FinalFlushPipes DEF WorkerStep
<1>2. CASE Greet \/ Adopt
  BY <1>2, HostsPipes DEF Greet, Adopt
<1>3. CASE DaemonStep
  BY <1>2, <1>3, QuietSteps, DialingPipes, SpawnPipes, PollPipes DEF DaemonStep
<1>4. CASE UNCHANGED vars
  BY <1>4 DEF vars, PipeInv, Reading, Coming, Awaited, So, Begun, Had, Mine
<1> QED BY <1>1, <1>3, <1>4, BindPipes, AskPipes, KillPipes, EndsPipes, ShellPipes DEF Next

\* For any number of connections, requests, crashes and failed starts, any queues and sockets of any size, and however long
\* a start takes: what pump_hosted_session (bs-pty.h) reads of a worker (run_session_worker_posix, bs-session-worker.h) is
\* what the shell printed, in order, without a hole or a repetition, across the snapshot and what is streamed after it: from
\* the first chunk, or the first that 8192 lines of a 1 MiB ring could hold, and up to the last once the end is told; unless
\* the queue was full when the shell ended.
THEOREM OutputCorrect == Spec => []WholeOutput
<1>1. Init => WorkInv /\ PipeInv
  BY InitWorks, InitPipes
<1>2. WorkInv /\ PipeInv /\ [Next]_vars => WorkInv' /\ PipeInv'
  BY StepWorks, StepPipes, WorkReady
<1>3. WorkInv /\ PipeInv => WholeOutput
  BY PipeSays DEF WorkInv
<1> QED BY <1>1, <1>2, <1>3, PTL DEF Spec

=============================================================================

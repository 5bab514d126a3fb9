-------------------------- MODULE OperationsProofs --------------------------
(***************************************************************************)
(* Proofs about Operations, for any two daemons, operations, batches and   *)
(* number of worker threads: a client that is told OK has its file.  Until *)
(* a worker's second clear of exec_busy frees a link lent again, where the *)
(* model ends, the link has one owner at a time (Owned).  Frames           *)
(* carry no operation id, so the second follows the conversation: TalkInv  *)
(* says, for each phase of the worker at home, what is still on the way in *)
(* either direction and what the peer is doing (Quiet, Greets, Pushes,     *)
(* Finishes, Awaits, Fetches).                                             *)
(***************************************************************************)
EXTENDS Operations, SequenceTheorems, TLAPS

-----------------------------------------------------------------------------
(* Who has the link. *)

\* TypeOK without the bounds of chunk numbers and of the pool, on which nothing here depends.
Frames == [k : {"request", "meta", "chunk", "ack", "nack", "garbage"}, f : Ops \cup {None}, i : Nat, half : BOOLEAN]
Works == [op : Ops \cup {None}, phase : Phases, i : Nat, file : Ops \cup {None}, whole : BOOLEAN, cancelled : BOOLEAN]
Recvs == [f : Ops \cup {None}, i : Nat, dir : Ops \cup {None}, whole : BOOLEAN]

Shape ==
  /\ sock \in [Nodes -> {"open", "shut", "closed"}]
  /\ wire \in [Nodes -> Seq(Frames)] /\ inbox \in [Nodes -> Seq(Frames)]
  /\ busy \in [Nodes -> BOOLEAN] /\ closing \in [Nodes -> BOOLEAN]
  /\ work \in [Nodes -> Works]
  /\ tails \in [Nodes -> Nat]
  /\ reserved \in [Nodes -> Ops \cup {None}] /\ recv \in [Nodes -> Recvs]
  /\ client \in [Ops -> {"new", "waiting", "requested", "ok", "error", "closed"}]

\* The link is lent as long as a task has it.
Owned == \A n \in Nodes : busy[n] <=> work[n].phase # "none"

OwnInv == Shape /\ Owned

\* What a worker does, its second clear of exec_busy only of a link nobody has.
WorkerOf(n) == Worker(n) \/ (WorkerReleasesAgain(n) /\ work[n].phase = "none")

\* The steps after which one thread at a time uses a link.
Behaves ==
  \/ Command
  \/ \E n \in Nodes : Cancel(n) \/ Watchdog(n) \/ WorkerOf(n) \/ EventLoop(n) \/ LoopReadsHalf(n)

-----------------------------------------------------------------------------
(* Types. *)

LEMMA PeerIs == \A n \in Nodes : Peer(n) \in Nodes /\ Peer(n) # n /\ \A m \in Nodes : m # n => m = Peer(n)
  BY OperationsAssumption DEF Peer

LEMMA TotalIs == \A o \in Ops : Total[o] \in Nat /\ Total[o] > 0 /\ Home[o] \in Nodes
  BY OperationsAssumption

LEMMA FrameIs ==
  ASSUME NEW k \in {"request", "meta", "chunk", "ack", "nack", "garbage"}, NEW f \in Ops \cup {None}, NEW i \in Nat
  PROVE  F(k, f, i) \in Frames
  BY DEF F, Frames

LEMMA HeadIs ==
  ASSUME NEW q \in Seq(Frames), q # <<>>
  PROVE  Head(q) \in Frames /\ Tail(q) \in Seq(Frames)
  BY HeadTailProperties

LEMMA SentTyped ==
  ASSUME Shape, NEW n \in Nodes, NEW frame \in Frames, Sent(n, frame)
  PROVE  wire' \in [Nodes -> Seq(Frames)]
<1>1. Peer(n) \in Nodes
  BY PeerIs
<1>2. Append(wire[Peer(n)], frame) \in Seq(Frames)
  BY <1>1, AppendProperties DEF Shape
<1> QED BY <1>1, <1>2 DEF Sent, Shape

LEMMA RepliedTyped ==
  ASSUME Shape, NEW n \in Nodes, wire[n] # <<>>, NEW frames \in Seq(Frames), Replied(n, frames)
  PROVE  wire' \in [Nodes -> Seq(Frames)]
<1>1. Peer(n) \in Nodes /\ Peer(n) # n
  BY PeerIs
<1>2. wire[n] \in Seq(Frames) /\ wire[Peer(n)] \in Seq(Frames)
  BY <1>1 DEF Shape
<1>3. Tail(wire[n]) \in Seq(Frames)
  BY <1>2, HeadIs
<1>4. wire[Peer(n)] \o frames \in Seq(Frames)
  BY <1>2, ConcatProperties
<1>5. wire' = [[wire EXCEPT ![n] = Tail(wire[n])] EXCEPT
                 ![Peer(n)] = IF sock[Peer(n)] = "open" THEN wire[Peer(n)] \o frames ELSE wire[Peer(n)]]
  BY <1>1 DEF Replied, Shape
<1> QED BY <1>1, <1>2, <1>3, <1>4, <1>5 DEF Shape

LEMMA EndedTyped ==
  ASSUME Shape, NEW n \in Nodes, NEW how \in {"shut", "closed"}, Ended(n, how)
  PROVE  sock' \in [Nodes -> {"open", "shut", "closed"}] /\ wire' \in [Nodes -> Seq(Frames)]
<1>1. <<>> \in Seq(Frames)
  OBVIOUS
<1> QED BY <1>1 DEF Ended, Shape

\* A record with another phase, place and file.
LEMMA WorkIs ==
  ASSUME NEW w \in Works, NEW p \in Phases, NEW i \in Nat, NEW f \in Ops \cup {None}, NEW b \in BOOLEAN
  PROVE  /\ [w EXCEPT !.phase = p] \in Works /\ [w EXCEPT !.phase = p].phase = p
         /\ [w EXCEPT !.phase = p, !.i = i] \in Works /\ [w EXCEPT !.phase = p, !.i = i].phase = p
         /\ [w EXCEPT !.i = i, !.whole = b] \in Works /\ [w EXCEPT !.i = i, !.whole = b].phase = w.phase
         /\ [w EXCEPT !.phase = p, !.file = f] \in Works /\ [w EXCEPT !.phase = p, !.file = f].phase = p
         /\ [w EXCEPT !.cancelled = b] \in Works /\ [w EXCEPT !.cancelled = b].phase = w.phase
  BY DEF Works

LEMMA NoWorkIs == NoWork \in Works /\ NoWork.phase = "none"
  BY DEF NoWork, Works, Phases

LEMMA LentIs ==
  ASSUME OwnInv, NEW n \in Nodes, NEW o \in Ops \cup {None}, Lent(n, o)
  PROVE  /\ busy' = [busy EXCEPT ![n] = TRUE]
         /\ work' \in [Nodes -> Works] /\ work'[n].phase = "queued" /\ \A m \in Nodes \ {n} : work'[m] = work[m]
<1>1. [NoWork EXCEPT !.op = o, !.phase = "queued"] \in Works /\ [NoWork EXCEPT !.op = o, !.phase = "queued"].phase = "queued"
  BY DEF NoWork, Works, Phases
<1> QED BY <1>1 DEF Lent, OwnInv, Shape

-----------------------------------------------------------------------------
(* Exclusive TLS ownership. *)

\* Who has the link has it still.
LEMMA SameOwner ==
  ASSUME OwnInv, Shape', UNCHANGED <<busy, tails>>,
         \A m \in Nodes : work'[m].phase = "none" <=> work[m].phase = "none"
  PROVE  OwnInv'
  BY DEF OwnInv, Owned

\* The link is lent to a task.
LEMMA NewOwner ==
  ASSUME OwnInv, NEW n \in Nodes, NEW o \in Ops \cup {None}, Lent(n, o), Shape', UNCHANGED tails
  PROVE  OwnInv'
<1>1. /\ busy' = [busy EXCEPT ![n] = TRUE]
      /\ work'[n].phase = "queued" /\ \A m \in Nodes \ {n} : work'[m] = work[m]
  BY LentIs
<1>2. \A m \in Nodes : busy'[m] = IF m = n THEN TRUE ELSE busy[m]
  BY <1>1 DEF OwnInv, Shape
<1> QED BY <1>1, <1>2 DEF OwnInv, Owned

LEMMA AskOwned ==
  ASSUME OwnInv, NEW o \in Ops, Ask(o) \/ AskAsync(o)
  PROVE  OwnInv'
<1>0. Home[o] \in Nodes
  BY TotalIs
<1>1. ASSUME Ask(o) PROVE OwnInv'
  <2>1. client' \in [Ops -> {"new", "waiting", "requested", "ok", "error", "closed"}]
    BY <1>1 DEF Ask, Told, OwnInv, Shape
  <2>2. UNCHANGED <<sock, wire, inbox, closing, tails, reserved, recv, published>>
    BY <1>1 DEF Ask
  <2>3. CASE UNCHANGED <<busy, work>>
    BY <2>1, <2>2, <2>3 DEF OwnInv, Shape, Owned
  <2>4. CASE Lent(Home[o], o)
    <3>1. busy' \in [Nodes -> BOOLEAN] /\ work' \in [Nodes -> Works]
      BY <1>0, <2>4, LentIs DEF OwnInv, Shape
    <3>2. Shape'
      BY <2>1, <2>2, <3>1 DEF OwnInv, Shape
    <3> QED BY <1>0, <2>2, <2>4, <3>2, NewOwner
  <2> QED BY <1>1, <2>3, <2>4 DEF Ask
<1>2. ASSUME AskAsync(o) PROVE OwnInv'
  <2>1. client' \in [Ops -> {"new", "waiting", "requested", "ok", "error", "closed"}]
    BY <1>2 DEF AskAsync, Told, OwnInv, Shape
  <2>2. reserved' \in [Nodes -> Ops \cup {None}]
    BY <1>2 DEF AskAsync, OwnInv, Shape
  <2>3. wire' \in [Nodes -> Seq(Frames)]
    <3>1. F("request", o, 0) \in Frames
      BY FrameIs
    <3>2. CASE Sent(Home[o], F("request", o, 0))
      BY <1>0, <3>1, <3>2, SentTyped DEF OwnInv
    <3>3. CASE UNCHANGED wire
      BY <3>3 DEF OwnInv, Shape
    <3> QED BY <1>2, <3>2, <3>3 DEF AskAsync
  <2>4. UNCHANGED <<sock, inbox, busy, closing, work, tails, recv, published>>
    BY <1>2 DEF AskAsync
  <2> QED BY <2>1, <2>2, <2>3, <2>4 DEF OwnInv, Shape, Owned
<1> QED BY <1>1, <1>2

\* A task that is cancelled keeps the link until its worker has seen it.
LEMMA KilledOwned ==
  ASSUME OwnInv, NEW n \in Nodes, Cancel(n) \/ Watchdog(n)
  PROVE  OwnInv'
<1>1. /\ work' = [work EXCEPT ![n].cancelled = TRUE] /\ Ended(n, "shut")
      /\ UNCHANGED <<inbox, busy, tails, reserved, recv, client, published>>
      /\ closing' \in [Nodes -> BOOLEAN]
  BY DEF Cancel, Watchdog, Killed, OwnInv, Shape
<1>a. work[n] \in Works
  BY DEF OwnInv, Shape
<1>2. [work[n] EXCEPT !.cancelled = TRUE] \in Works /\ [work[n] EXCEPT !.cancelled = TRUE].phase = work[n].phase
  BY ONLY <1>a DEF Works
<1>3. work' \in [Nodes -> Works] /\ \A m \in Nodes : work'[m].phase = work[m].phase
  BY <1>1, <1>2 DEF OwnInv, Shape
<1>4. sock' \in [Nodes -> {"open", "shut", "closed"}] /\ wire' \in [Nodes -> Seq(Frames)]
  BY <1>1, EndedTyped DEF OwnInv
<1>5. Shape'
  BY <1>1, <1>3, <1>4 DEF OwnInv, Shape
<1> QED BY <1>1, <1>3, <1>5, SameOwner

\* A task that was cancelled in the queue gives the link back at once.
LEMMA TakesOwned ==
  ASSUME OwnInv, NEW n \in Nodes, WorkerTakes(n)
  PROVE  OwnInv'
<1>1. /\ work[n].phase = "queued" /\ work[n] \in Works
      /\ UNCHANGED <<sock, wire, published, inbox, closing, tails, reserved, recv>>
      /\ client' \in [Ops -> {"new", "waiting", "requested", "ok", "error", "closed"}]
  BY DEF WorkerTakes, workerUnchanged, Told, OwnInv, Shape
<1>2. CASE work[n].cancelled
  <2>1. work' = [work EXCEPT ![n] = NoWork] /\ busy' = [busy EXCEPT ![n] = FALSE]
    BY <1>2 DEF WorkerTakes
  <2>2. /\ work' \in [Nodes -> Works] /\ work'[n].phase = "none" /\ \A m \in Nodes \ {n} : work'[m] = work[m]
        /\ busy' \in [Nodes -> BOOLEAN] /\ ~busy'[n] /\ \A m \in Nodes \ {n} : busy'[m] = busy[m]
    BY <2>1, NoWorkIs DEF OwnInv, Shape
  <2>3. Shape'
    BY <1>1, <2>2 DEF OwnInv, Shape
  <2>4. ASSUME NEW m \in Nodes PROVE busy'[m] <=> work'[m].phase # "none"
    <3>1. CASE m = n
      BY <2>2, <3>1
    <3>2. CASE m # n
      BY <2>2, <3>2 DEF OwnInv, Owned
    <3> QED BY <3>1, <3>2
  <2> QED BY <2>3, <2>4 DEF OwnInv, Owned
<1>3. CASE ~work[n].cancelled
  <2> DEFINE p == FirstPhase(n, work[n].op)
  <2>1. p \in Phases /\ p # "none"
    BY DEF FirstPhase, Phases
  <2>2. work' = [work EXCEPT ![n].phase = p] /\ UNCHANGED <<busy, client>>
    BY <1>3 DEF WorkerTakes
  <2> HIDE DEF p
  <2>3. [work[n] EXCEPT !.phase = p] \in Works /\ [work[n] EXCEPT !.phase = p].phase = p
    BY <1>1, <2>1, WorkIs
  <2>4. work' \in [Nodes -> Works] /\ work'[n].phase = p /\ \A m \in Nodes \ {n} : work'[m] = work[m]
    BY <2>2, <2>3 DEF OwnInv, Shape
  <2>5. Shape'
    BY <1>1, <2>2, <2>4 DEF OwnInv, Shape
  <2> QED BY <1>1, <2>1, <2>2, <2>4, <2>5, SameOwner
<1> QED BY <1>2, <1>3

\* A result, or another phase.
LEMMA DoneIs ==
  ASSUME OwnInv, NEW n \in Nodes, NEW result \in {"ok", "error"}, Done(n, result)
  PROVE  /\ work' \in [Nodes -> Works] /\ work'[n].phase = "done" /\ \A m \in Nodes \ {n} : work'[m] = work[m]
         /\ client' \in [Ops -> {"new", "waiting", "requested", "ok", "error", "closed"}]
<1>1. [work[n] EXCEPT !.phase = "done"] \in Works /\ [work[n] EXCEPT !.phase = "done"].phase = "done"
  <2>1. work[n] \in Works
    BY DEF OwnInv, Shape
  <2> QED BY <2>1 DEF Works, Phases
<1>2. work' = [work EXCEPT ![n] = [work[n] EXCEPT !.phase = "done"]]
  BY DEF Done, OwnInv, Shape
<1>3. client' = client \/ \E o : client' = [client EXCEPT ![o] = result]
  BY DEF Done, Told
<1>4. client' \in [Ops -> {"new", "waiting", "requested", "ok", "error", "closed"}]
  BY <1>3 DEF OwnInv, Shape
<1>5. work \in [Nodes -> Works]
  BY DEF OwnInv, Shape
<1> QED BY <1>1, <1>2, <1>4, <1>5

LEMMA GoesIs ==
  ASSUME OwnInv, NEW n \in Nodes, NEW p \in Phases, NEW i \in Nat, Goes(n, p, i)
  PROVE  /\ work' \in [Nodes -> Works] /\ work'[n].phase = p /\ \A m \in Nodes \ {n} : work'[m] = work[m]
         /\ UNCHANGED client
<1>a. work[n] \in Works /\ p \in Phases /\ i \in Nat
  BY DEF OwnInv, Shape
<1>1. [work[n] EXCEPT !.phase = p, !.i = i] \in Works /\ [work[n] EXCEPT !.phase = p, !.i = i].phase = p
  BY ONLY <1>a DEF Works
<1>2. work' = [work EXCEPT ![n] = [work[n] EXCEPT !.phase = p, !.i = i]] /\ UNCHANGED client
  BY DEF Goes, OwnInv, Shape
<1> QED BY <1>1, <1>2 DEF OwnInv, Shape

\* What a worker that goes on leaves, whoever the frames are for.
LEMMA WorkOwned ==
  ASSUME OwnInv, NEW n \in Nodes, work[n].phase # "none",
         work' \in [Nodes -> Works], work'[n].phase # "none", \A m \in Nodes \ {n} : work'[m] = work[m],
         client' \in [Ops -> {"new", "waiting", "requested", "ok", "error", "closed"}],
         wire' \in [Nodes -> Seq(Frames)],
         UNCHANGED <<sock, inbox, busy, closing, tails, reserved, recv>>
  PROVE  OwnInv'
<1>1. Shape'
  BY DEF OwnInv, Shape
<1>2. \A m \in Nodes : work'[m].phase = "none" <=> work[m].phase = "none"
  OBVIOUS
<1> QED BY <1>1, <1>2, SameOwner

LEMMA WritesOwned ==
  ASSUME OwnInv, NEW n \in Nodes, WorkerWrites(n)
  PROVE  OwnInv'
<1> DEFINE w == work[n]
           o == w.op
<1>0. w \in Works /\ UNCHANGED <<sock, inbox, busy, closing, tails, reserved, recv>> /\ Shape
  BY DEF WorkerWrites, workerUnchanged, OwnInv, Shape
<1>1. /\ work[n].phase # "none"
      /\ work' \in [Nodes -> Works] /\ work'[n].phase # "none" /\ \A m \in Nodes \ {n} : work'[m] = work[m]
      /\ client' \in [Ops -> {"new", "waiting", "requested", "ok", "error", "closed"}]
      /\ wire' \in [Nodes -> Seq(Frames)]
  <2>1. CASE w.phase = "meta" /\ Sent(n, F("meta", w.op, 0)) /\ Goes(n, "greet", 0)
    <3>1. "greet" \in Phases /\ F("meta", w.op, 0) \in Frames
      BY <1>0 DEF Phases, F, Frames, Works
    <3>2. wire' \in [Nodes -> Seq(Frames)]
      BY <1>0, <2>1, <3>1, SentTyped
    <3>3. work' \in [Nodes -> Works] /\ work'[n].phase = "greet" /\ (\A m \in Nodes \ {n} : work'[m] = work[m]) /\ UNCHANGED client
      BY <2>1, <3>1, GoesIs
    <3> QED BY <2>1, <3>2, <3>3 DEF OwnInv, Shape
  <2>2. CASE w.phase = "ask" /\ Sent(n, F("request", w.op, 0)) /\ Goes(n, "await", 0)
    <3>1. "await" \in Phases /\ F("request", w.op, 0) \in Frames
      BY <1>0 DEF Phases, F, Frames, Works
    <3>2. wire' \in [Nodes -> Seq(Frames)]
      BY <1>0, <2>2, <3>1, SentTyped
    <3>3. work' \in [Nodes -> Works] /\ work'[n].phase = "await" /\ (\A m \in Nodes \ {n} : work'[m] = work[m]) /\ UNCHANGED client
      BY <2>2, <3>1, GoesIs
    <3> QED BY <2>2, <3>2, <3>3 DEF OwnInv, Shape
  <2>3. CASE w.phase = "serve" /\ Sent(n, F("nack", None, 0)) /\ Done(n, "error")
    <3>1. F("nack", None, 0) \in Frames
      BY DEF F, Frames
    <3>2. wire' \in [Nodes -> Seq(Frames)]
      BY <1>0, <2>3, <3>1, SentTyped
    <3> QED BY <2>3, <3>2, DoneIs
  <2>4. CASE w.phase = "serve" /\ Sent(n, F("meta", w.op, 0)) /\ Goes(n, "supply", 0)
    <3>1. "supply" \in Phases /\ F("meta", w.op, 0) \in Frames
      BY <1>0 DEF Phases, F, Frames, Works
    <3>2. wire' \in [Nodes -> Seq(Frames)]
      BY <1>0, <2>4, <3>1, SentTyped
    <3>3. work' \in [Nodes -> Works] /\ work'[n].phase = "supply" /\ (\A m \in Nodes \ {n} : work'[m] = work[m]) /\ UNCHANGED client
      BY <2>4, <3>1, GoesIs
    <3> QED BY <2>4, <3>2, <3>3 DEF OwnInv, Shape
  <2>5. CASE /\ w.phase \in {"chunks", "supply"}
             /\ Sent(n, F("chunk", w.op, w.i))
             /\ Goes(n, IF w.i + 1 < Total[w.op] THEN w.phase
                        ELSE IF w.phase = "chunks" THEN "final" ELSE "drain", w.i + 1)
    <3> DEFINE p == IF w.i + 1 < Total[w.op] THEN w.phase ELSE IF w.phase = "chunks" THEN "final" ELSE "drain"
    <3>1. p \in Phases /\ p # "none" /\ w.phase # "none" /\ w.i + 1 \in Nat /\ F("chunk", w.op, w.i) \in Frames
      BY <1>0, <2>5 DEF Phases, F, Frames, Works
    <3>2. wire' \in [Nodes -> Seq(Frames)]
      BY <1>0, <2>5, <3>1, SentTyped
    <3>3. Goes(n, p, w.i + 1)
      BY <2>5
    <3> HIDE DEF p
    <3>4. work' \in [Nodes -> Works] /\ work'[n].phase = p /\ (\A m \in Nodes \ {n} : work'[m] = work[m]) /\ UNCHANGED client
      BY <3>1, <3>3, GoesIs
    <3> QED BY <3>1, <3>2, <3>4 DEF OwnInv, Shape
  <2> QED BY <2>1, <2>2, <2>3, <2>4, <2>5 DEF WorkerWrites, Writes
<1> QED BY <1>0, <1>1, WorkOwned

LEMMA ReadsOwned ==
  ASSUME OwnInv, NEW n \in Nodes, WorkerReads(n)
  PROVE  OwnInv'
<1> DEFINE h == Head(wire[n])
           w == work[n]
<1>0. /\ UNCHANGED <<sock, inbox, busy, closing, tails, reserved, recv>> /\ Shape /\ wire[n] # <<>>
      /\ wire[n] \in Seq(Frames) /\ w \in Works
      /\ WaitAck(n, h) \/ WaitMeta(n, h) \/ WaitChunk(n, h) \/ Drain(n, h)
  BY DEF WorkerReads, workerUnchanged, OwnInv, Shape
<1>1. h \in Frames
  BY <1>0, HeadIs
<1> HIDE DEF h
<1>2. ASSUME NEW frames \in Seq(Frames), Replied(n, frames) PROVE wire' \in [Nodes -> Seq(Frames)]
  BY <1>0, <1>2, RepliedTyped
<1>3. <<>> \in Seq(Frames) /\ <<F("ack", None, 0)>> \in Seq(Frames) /\ <<F("nack", None, 0)>> \in Seq(Frames)
      /\ w.i + 1 \in Nat /\ <<F("ack", None, w.i + 1)>> \in Seq(Frames)
  <2>1. w.i + 1 \in Nat
    BY <1>0 DEF Works
  <2>2. F("ack", None, 0) \in Frames /\ F("nack", None, 0) \in Frames /\ F("ack", None, w.i + 1) \in Frames
    BY <2>1, FrameIs
  <2> QED BY <2>1, <2>2
<1>4. wire' \in [Nodes -> Seq(Frames)]
  BY <1>0, <1>2, <1>3 DEF WaitAck, WaitMeta, WaitChunk, Drain
<1>5. /\ w.phase # "none"
      /\ \/ \E result \in {"ok", "error"} : Done(n, result)
         \/ \E p \in Phases, i \in Nat : p # "none" /\ Goes(n, p, i)
         \/ UNCHANGED <<work, client>>
         \/ work' = [work EXCEPT ![n].phase = "fetch", ![n].file = h.f] /\ UNCHANGED client
         \/ \E b \in BOOLEAN : work' = [work EXCEPT ![n].i = w.i + 1, ![n].whole = b] /\ UNCHANGED client
  <2>1. CASE WaitAck(n, h)
    <3>1. "chunks" \in Phases /\ "final" \in Phases /\ h.i \in Nat
      BY <1>1 DEF Phases, Frames
    <3> QED BY <2>1, <3>1 DEF WaitAck
  <2>2. CASE WaitMeta(n, h)
    BY <2>2 DEF WaitMeta
  <2>3. CASE WaitChunk(n, h)
    <3>1. (w.whole /\ h.f = w.file) \in BOOLEAN
      OBVIOUS
    <3> QED BY <2>3, <3>1 DEF WaitChunk
  <2>4. CASE Drain(n, h)
    BY <2>4 DEF Drain
  <2> QED BY <1>0, <2>1, <2>2, <2>3, <2>4
<1>6. /\ work' \in [Nodes -> Works] /\ work'[n].phase # "none" /\ \A m \in Nodes \ {n} : work'[m] = work[m]
      /\ client' \in [Ops -> {"new", "waiting", "requested", "ok", "error", "closed"}]
  <2>1. CASE \E result \in {"ok", "error"} : Done(n, result)
    BY <2>1, DoneIs
  <2>2. CASE \E p \in Phases, i \in Nat : p # "none" /\ Goes(n, p, i)
    BY <1>0, <2>2, GoesIs DEF Shape
  <2>3. CASE UNCHANGED <<work, client>>
    BY <1>0, <1>5, <2>3 DEF Shape
  <2>4. CASE work' = [work EXCEPT ![n].phase = "fetch", ![n].file = h.f] /\ UNCHANGED client
    <3>1. [w EXCEPT !.phase = "fetch", !.file = h.f] \in Works /\ [w EXCEPT !.phase = "fetch", !.file = h.f].phase = "fetch"
      BY <1>0, <1>1 DEF Works, Frames, Phases
    <3>2. work' = [work EXCEPT ![n] = [w EXCEPT !.phase = "fetch", !.file = h.f]]
      BY <1>0, <2>4 DEF Shape
    <3> QED BY <1>0, <2>4, <3>1, <3>2 DEF Shape
  <2>5. CASE \E b \in BOOLEAN : work' = [work EXCEPT ![n].i = w.i + 1, ![n].whole = b] /\ UNCHANGED client
    <3>1. PICK b \in BOOLEAN : work' = [work EXCEPT ![n].i = w.i + 1, ![n].whole = b] /\ UNCHANGED client
      BY <2>5
    <3>2. [w EXCEPT !.i = w.i + 1, !.whole = b] \in Works /\ [w EXCEPT !.i = w.i + 1, !.whole = b].phase = w.phase
      BY <1>0, <1>3 DEF Works
    <3>3. work' = [work EXCEPT ![n] = [w EXCEPT !.i = w.i + 1, !.whole = b]]
      BY <1>0, <3>1 DEF Shape
    <3>4. work \in [Nodes -> Works]
      BY <1>0 DEF Shape
    <3>5. client' \in [Ops -> {"new", "waiting", "requested", "ok", "error", "closed"}]
      BY <1>0, <3>1 DEF Shape
    <3> QED BY <1>5, <3>2, <3>3, <3>4, <3>5
  <2> QED BY <1>5, <2>1, <2>2, <2>3, <2>4, <2>5
<1> QED BY <1>0, <1>4, <1>5, <1>6, WorkOwned

\* A worker that is done gives the link back; its second clear of exec_busy finds it free.
LEMMA EndsOwned ==
  ASSUME OwnInv, NEW n \in Nodes,
         WorkerStops(n) \/ WorkerServed(n) \/ WorkerReleases(n) \/ (WorkerReleasesAgain(n) /\ work[n].phase = "none")
  PROVE  OwnInv'
<1>0. work[n] \in Works /\ work \in [Nodes -> Works] /\ tails[n] \in Nat /\ tails \in [Nodes -> Nat]
      /\ busy \in [Nodes -> BOOLEAN] /\ wire \in [Nodes -> Seq(Frames)] /\ wire[n] \in Seq(Frames)
  BY DEF OwnInv, Shape
<1>1. CASE WorkerStops(n)
  <2>1. work[n].phase # "none" /\ UNCHANGED <<sock, busy, inbox, closing, tails, reserved, recv>> /\ Done(n, "error")
    BY <1>1 DEF WorkerStops, Running, workerUnchanged
  <2>2. wire' \in [Nodes -> Seq(Frames)]
    <3>1. CASE UNCHANGED wire
      BY <1>0, <3>1
    <3>2. CASE Garbled(n) /\ wire' = [wire EXCEPT ![n][1] = F("garbage", None, 0)]
      <4>1. 1 \in 1..Len(wire[n]) /\ F("garbage", None, 0) \in Frames
        BY <1>0, <3>2 DEF Garbled, F, Frames
      <4>2. [wire[n] EXCEPT ![1] = F("garbage", None, 0)] \in Seq(Frames)
        BY <1>0, <4>1, ExceptSeq
      <4>3. wire' = [wire EXCEPT ![n] = [wire[n] EXCEPT ![1] = F("garbage", None, 0)]]
        BY <1>0, <3>2
      <4> QED BY <1>0, <4>2, <4>3
    <3> QED BY <1>1, <3>1, <3>2 DEF WorkerStops
  <2> QED BY <2>1, <2>2, DoneIs, WorkOwned
<1>2. CASE WorkerServed(n)
  <2>1. /\ work[n].phase # "none" /\ UNCHANGED <<sock, wire, busy, inbox, closing, tails, reserved, recv>> /\ Done(n, "ok")
    BY <1>2 DEF WorkerServed, workerUnchanged
  <2> QED BY <1>0, <2>1, DoneIs, WorkOwned
<1>3. CASE WorkerReleases(n)
  <2>1. /\ work' = [work EXCEPT ![n] = NoWork] /\ busy' = [busy EXCEPT ![n] = FALSE] /\ tails' = [tails EXCEPT ![n] = @ + 1]
        /\ UNCHANGED <<sock, wire, inbox, closing, reserved, recv, client, published>>
    BY <1>3 DEF WorkerReleases
  <2>2. /\ work' \in [Nodes -> Works] /\ work'[n].phase = "none" /\ \A m \in Nodes \ {n} : work'[m] = work[m]
    BY <1>0, <2>1, NoWorkIs
  <2>3. busy' \in [Nodes -> BOOLEAN] /\ ~busy'[n] /\ \A m \in Nodes \ {n} : busy'[m] = busy[m]
    BY <1>0, <2>1
  <2>4. tails' \in [Nodes -> Nat] /\ \A m \in Nodes \ {n} : tails'[m] = tails[m]
    BY <1>0, <2>1
  <2>5. Shape'
    BY <2>1, <2>2, <2>3, <2>4 DEF OwnInv, Shape
  <2> QED BY <2>2, <2>3, <2>4, <2>5 DEF OwnInv, Owned
<1>4. CASE WorkerReleasesAgain(n) /\ work[n].phase = "none"
  <2>1. /\ tails[n] > 0 /\ tails' = [tails EXCEPT ![n] = @ - 1] /\ busy' = [busy EXCEPT ![n] = FALSE]
        /\ UNCHANGED <<sock, wire, inbox, closing, work, reserved, recv, client, published>>
    BY <1>4 DEF WorkerReleasesAgain
  <2>2. ~busy[n]
    BY <1>0, <1>4 DEF OwnInv, Owned
  <2>3. busy' = busy
    BY <1>0, <2>1, <2>2
  <2>4. tails' \in [Nodes -> Nat] /\ \A m \in Nodes \ {n} : tails'[m] = tails[m]
    BY <1>0, <2>1
  <2>5. Shape'
    BY <2>1, <2>3, <2>4 DEF OwnInv, Shape
  <2> QED BY <2>1, <2>2, <2>3, <2>4, <2>5 DEF OwnInv, Owned
<1> QED BY <1>1, <1>2, <1>3, <1>4

\* A read of the loop takes frames from the wire into the batch.
LEMMA LoopReadsIs ==
  ASSUME Shape, NEW n \in Nodes, LoopReads(n)
  PROVE  /\ wire' \in [Nodes -> Seq(Frames)] /\ inbox' \in [Nodes -> Seq(Frames)]
         /\ \A m \in Nodes \ {n} : wire'[m] = wire[m] /\ inbox'[m] = inbox[m]
         /\ \E k \in 1..Len(wire[n]) :
              inbox'[n] = SubSeq(wire[n], 1, k) /\ wire'[n] = SubSeq(wire[n], k + 1, Len(wire[n]))
<1>0. wire[n] \in Seq(Frames) /\ wire \in [Nodes -> Seq(Frames)] /\ inbox \in [Nodes -> Seq(Frames)]
  BY DEF Shape
<1>1. PICK k \in 1..Batch :
        /\ k <= Len(wire[n])
        /\ inbox' = [inbox EXCEPT ![n] = SubSeq(wire[n], 1, k)]
        /\ wire' = [wire EXCEPT ![n] = SubSeq(@, k + 1, Len(@))]
  BY DEF LoopReads
<1>2. k \in 1..Len(wire[n]) /\ Len(wire[n]) \in Nat
  BY <1>0, <1>1, OperationsAssumption
<1>3. \A i \in 1..Len(wire[n]) : wire[n][i] \in Frames
  BY <1>0
<1>4. SubSeq(wire[n], 1, k) \in Seq(Frames)
  <2>1. \A i \in 1..k : wire[n][i] \in Frames
    BY <1>2, <1>3
  <2> QED BY <1>2, <2>1, SubSeqProperties
<1>5. SubSeq(wire[n], k + 1, Len(wire[n])) \in Seq(Frames)
  <2>1. \A i \in k + 1..Len(wire[n]) : wire[n][i] \in Frames
    BY <1>2, <1>3
  <2> QED BY <1>2, <2>1, SubSeqProperties
<1> QED BY <1>0, <1>1, <1>2, <1>4, <1>5

LEMMA LoopOwned ==
  ASSUME OwnInv, NEW n \in Nodes, LoopReads(n) \/ LoopReadsHalf(n) \/ LoopCloses(n)
  PROVE  OwnInv'
<1>0. UNCHANGED <<busy, work, tails, client, published>>
  BY DEF LoopReads, LoopReadsHalf, LoopCloses, loopUnchanged
<1>1. Shape'
  <2>1. CASE LoopReads(n)
    <3>1. UNCHANGED <<sock, closing, reserved, recv>>
      BY <2>1 DEF LoopReads
    <3> QED BY <1>0, <2>1, <3>1, LoopReadsIs DEF OwnInv, Shape
  <2>2. CASE LoopReadsHalf(n)
    <3>0. wire[n] \in Seq(Frames) /\ wire[n] # <<>> /\ wire \in [Nodes -> Seq(Frames)]
      BY <2>2 DEF LoopReadsHalf, OwnInv, Shape
    <3>1. 1 \in 1..Len(wire[n]) /\ wire[n][1] \in Frames
      BY <3>0
    <3>2. [wire[n][1] EXCEPT !.half = TRUE] \in Frames
      BY <3>1 DEF Frames
    <3>3. [wire[n] EXCEPT ![1] = [wire[n][1] EXCEPT !.half = TRUE]] \in Seq(Frames)
      BY <3>0, <3>1, <3>2, ExceptSeq
    <3>4. wire' = [wire EXCEPT ![n] = [wire[n] EXCEPT ![1] = [wire[n][1] EXCEPT !.half = TRUE]]]
      BY <2>2, <3>0 DEF LoopReadsHalf
    <3>5. wire' \in [Nodes -> Seq(Frames)]
      BY <3>0, <3>3, <3>4
    <3>6. UNCHANGED <<sock, inbox, closing, reserved, recv>>
      BY <2>2 DEF LoopReadsHalf
    <3> QED BY <1>0, <3>5, <3>6 DEF OwnInv, Shape
  <2>3. CASE LoopCloses(n)
    <3>1. ~busy[n] /\ Close(n)
      BY <2>3 DEF LoopCloses
    <3>2. sock' \in [Nodes -> {"open", "shut", "closed"}] /\ wire' \in [Nodes -> Seq(Frames)]
      BY <3>1, EndedTyped DEF Close, OwnInv
    <3>3. NoRecv \in Recvs /\ <<>> \in Seq(Frames)
      BY DEF NoRecv, Recvs
    <3>4. /\ closing' \in [Nodes -> BOOLEAN] /\ inbox' \in [Nodes -> Seq(Frames)]
          /\ reserved' \in [Nodes -> Ops \cup {None}] /\ recv' \in [Nodes -> Recvs]
      BY <3>1, <3>3 DEF Close, OwnInv, Shape
    <3> QED BY <1>0, <3>2, <3>4 DEF OwnInv, Shape
  <2> QED BY <2>1, <2>2, <2>3
<1> QED BY <1>0, <1>1, SameOwner

\* An answer of the loop.
LEMMA AckedTyped ==
  ASSUME Shape, NEW n \in Nodes, NEW frame \in Frames, Acked(n, frame)
  PROVE  wire' \in [Nodes -> Seq(Frames)] /\ closing' \in [Nodes -> BOOLEAN]
<1>1. CASE busy[n]
  BY <1>1 DEF Acked, Shape
<1>2. CASE ~busy[n]
  BY <1>2, SentTyped DEF Acked, Shape
<1> QED BY <1>1, <1>2

LEMMA DispatchesOwned ==
  ASSUME OwnInv, NEW n \in Nodes, LoopDispatches(n)
  PROVE  OwnInv'
<1> DEFINE h == Head(inbox[n])
<1>0. /\ inbox[n] # <<>> /\ inbox[n] \in Seq(Frames) /\ inbox \in [Nodes -> Seq(Frames)] /\ Shape
      /\ UNCHANGED <<sock, tails, client>> /\ inbox' = [inbox EXCEPT ![n] = Tail(@)]
      /\ OnRequest(n, h) \/ OnMeta(n, h) \/ OnChunk(n, h) \/ OnAck(n, h)
  BY DEF LoopDispatches, Rest, OwnInv, Shape
<1>1. h \in Frames /\ Tail(inbox[n]) \in Seq(Frames)
  BY <1>0, HeadIs
<1>2. h.f \in Ops \cup {None} /\ h.i \in Nat
  BY <1>1 DEF Frames
<1>3. inbox' \in [Nodes -> Seq(Frames)]
  BY <1>0, <1>1
<1> HIDE DEF h
<1>4. CASE OnRequest(n, h)
  <2>1. UNCHANGED <<wire, closing, reserved, recv, published>>
    BY <1>4 DEF OnRequest
  <2>2. CASE UNCHANGED <<busy, work>>
    BY <1>0, <1>3, <2>1, <2>2 DEF OwnInv, Shape, Owned
  <2>3. CASE Lent(n, h.f)
    <3>1. busy' \in [Nodes -> BOOLEAN] /\ work' \in [Nodes -> Works]
      BY <1>2, <2>3, LentIs DEF OwnInv, Shape
    <3>2. Shape'
      BY <1>0, <1>3, <2>1, <3>1 DEF Shape
    <3> QED BY <1>0, <1>2, <2>3, <3>2, NewOwner
  <2> QED BY <1>4, <2>2, <2>3 DEF OnRequest
<1>5. CASE OnMeta(n, h)
  <2>1. F("nack", None, 0) \in Frames /\ F("ack", None, 0) \in Frames
    BY FrameIs
  <2>2. wire' \in [Nodes -> Seq(Frames)] /\ closing' \in [Nodes -> BOOLEAN]
    BY <1>0, <1>5, <2>1, AckedTyped DEF OnMeta
  <2>3. [f |-> h.f, i |-> 0, dir |-> reserved[n], whole |-> TRUE] \in Recvs
    BY <1>0, <1>2 DEF Shape, Recvs
  <2>4. recv' \in [Nodes -> Recvs] /\ reserved' \in [Nodes -> Ops \cup {None}] /\ UNCHANGED <<busy, work>>
    BY <1>0, <1>5, <2>3 DEF OnMeta, Shape
  <2>5. Shape'
    BY <1>0, <1>3, <2>2, <2>4 DEF Shape
  <2> QED BY <1>0, <2>4, <2>5, SameOwner
<1>6. CASE OnChunk(n, h)
  <2> DEFINE r == recv[n]
  <2>0. r \in Recvs /\ r.i + 1 \in Nat
    BY <1>0 DEF Shape, Recvs
  <2>1. F("nack", None, 0) \in Frames /\ F("ack", None, r.i + 1) \in Frames
    BY <2>0, FrameIs
  <2>2. wire' \in [Nodes -> Seq(Frames)] /\ closing' \in [Nodes -> BOOLEAN]
    <3>1. Acked(n, F("ack", None, r.i + 1)) \/ Acked(n, F("nack", None, 0))
      BY <1>6 DEF OnChunk
    <3> QED BY <1>0, <2>1, <3>1, AckedTyped
  <2>3. [r EXCEPT !.i = r.i + 1, !.whole = r.whole /\ h.f = r.f] \in Recvs /\ NoRecv \in Recvs
    BY <2>0 DEF Recvs, NoRecv
  <2>4. /\ recv' = [recv EXCEPT ![n] = [r EXCEPT !.i = r.i + 1, !.whole = r.whole /\ h.f = r.f]] \/ recv' = [recv EXCEPT ![n] = NoRecv]
        /\ UNCHANGED <<busy, work, reserved>>
    BY <1>0, <1>6 DEF OnChunk, Shape
  <2>5. recv' \in [Nodes -> Recvs]
    BY <1>0, <2>3, <2>4 DEF Shape
  <2>6. Shape'
    BY <1>0, <1>3, <2>2, <2>4, <2>5 DEF Shape
  <2> QED BY <1>0, <2>4, <2>6, SameOwner
<1>7. CASE OnAck(n, h)
  <2>1. UNCHANGED <<wire, busy, closing, work, reserved, recv, published>>
    BY <1>7 DEF OnAck
  <2>2. Shape'
    BY <1>0, <1>3, <2>1 DEF Shape
  <2> QED BY <1>0, <2>1, <2>2, SameOwner
<1> QED BY <1>0, <1>4, <1>5, <1>6, <1>7

LEMMA InitOwned == Init => OwnInv
<1> SUFFICES ASSUME Init PROVE OwnInv
  OBVIOUS
<1>1. NoRecv \in Recvs /\ <<>> \in Seq(Frames)
  BY DEF NoRecv, Recvs
<1> QED BY <1>1, NoWorkIs DEF Init, OwnInv, Shape, Owned

LEMMA StepOwned ==
  ASSUME OwnInv, Behaves \/ UNCHANGED vars
  PROVE  OwnInv'
<1>1. ASSUME NEW n \in Nodes, WorkerOf(n) PROVE OwnInv'
  BY <1>1, TakesOwned, WritesOwned, ReadsOwned, EndsOwned DEF WorkerOf, Worker
<1>2. ASSUME NEW n \in Nodes, EventLoop(n) \/ LoopReadsHalf(n) PROVE OwnInv'
  BY <1>2, LoopOwned, DispatchesOwned DEF EventLoop
<1>3. ASSUME UNCHANGED vars PROVE OwnInv'
  BY <1>3 DEF vars, OwnInv, Shape, Owned
<1> QED BY <1>1, <1>2, <1>3, AskOwned, KilledOwned DEF Behaves, Command

\* For any two daemons, operations, batches and number of worker threads, whatever is cancelled, refused, closed or timed
\* out: a task that is queued or runs has the link (design.md, Exclusive TLS ownership), until a worker's second clear of
\* exec_busy, and nothing else, takes it away.
THEOREM ExclusiveCorrect == Spec => []ExclusiveButSecondClear
<1>1. Init => shared \/ OwnInv
  BY InitOwned
<1>2. (shared \/ OwnInv) /\ [Next]_vars => (shared \/ OwnInv)'
  <2> SUFFICES ASSUME shared \/ OwnInv, [Next]_vars, ~shared' PROVE OwnInv'
    OBVIOUS
  <2>1. CASE UNCHANGED vars
    BY <2>1, StepOwned DEF vars
  <2>2. CASE Next
    <3>1. OwnInv /\ ~shared
      BY <2>2 DEF Next, oneUser
    <3>2. Behaves
      BY <2>2 DEF Next, Behaves, WorkerOf, WorkerReleasesAgain
    <3> QED BY <3>1, <3>2, StepOwned
  <2> QED BY <2>1, <2>2
<1>3. (shared \/ OwnInv) => ExclusiveButSecondClear
  BY DEF OwnInv, Owned, Exclusive, ExclusiveButSecondClear
<1> QED BY <1>1, <1>2, <1>3, PTL DEF Spec

\* Where frames, tasks and results come from.
Requests(q) == {q[i].f : i \in {j \in 1..Len(q) : q[j].k = "request"}}
Requested(q, n) == \A f \in Requests(q) : f \in Ops /\ Home[f] = Peer(n) /\ client[f] # "new"

Tasked(n) ==
  LET w == work[n] IN
  w.phase # "none" =>
    /\ w.op \in Ops /\ client[w.op] # "new"
    /\ Home[w.op] = n => Kind[w.op] # "async"
    /\ w.phase \in {"meta", "greet", "chunks", "final"} => Home[w.op] = n /\ Kind[w.op] = "send"
    /\ w.phase \in {"ask", "await", "fetch"} => Home[w.op] = n
    /\ w.phase \in {"serve", "supply", "drain"} => Home[w.op] # n

\* What is not open is not read, and has no task that goes on.
Deaf(n) ==
  /\ sock[n] # "open" => wire[n] = <<>> /\ inbox[n] = <<>>
  /\ work[n].cancelled => sock[n] # "open"

Sources ==
  /\ \A n \in Nodes : Requested(wire[n], n) /\ Requested(inbox[n], n) /\ Tasked(n) /\ Deaf(n)
  /\ \A o \in Ops : client[o] = "ok" => Kind[o] # "async"

-----------------------------------------------------------------------------
(* A link that one daemon's clients have to themselves. *)

\* All operations so far are h's, with a client that waits.
Solo(h) == \A p \in Ops : client[p] # "new" => Home[p] = h /\ Kind[p] # "async"

\* What h has sent and the peer has not handled.
Asked(h) == inbox[Peer(h)] \o wire[Peer(h)]

Acks(q) == \A i \in 1..Len(q) : q[i].k = "ack"
AcksThen(q, k, o) ==
  /\ q # <<>> /\ q[Len(q)].k = k /\ q[Len(q)].f = o
  /\ \A i \in 1..Len(q) : i # Len(q) => q[i].k = "ack"
\* The chunks c, c + 1, ..., j - 1 of o.
ChunksOf(q, o, c, j) ==
  /\ Len(q) = j - c
  /\ \A i \in 1..Len(q) : q[i].k = "chunk" /\ q[i].f = o /\ q[i].i = c + i - 1
\* The FileMeta of o and its first j chunks.
MetaThen(q, o, j) ==
  /\ Len(q) = j + 1 /\ q[1].k = "meta" /\ q[1].f = o
  /\ \A i \in 2..Len(q) : q[i].k = "chunk" /\ q[i].f = o /\ q[i].i = i - 2
One(q, k) == Len(q) = 1 /\ q[1].k = k

Alive(h) == sock[Peer(h)] = "open"
\* The peer's worker has said all it has to say.
Through(h) == work[Peer(h)].phase \in {"none", "drain", "done"}
Supplies(h, o) == work[Peer(h)].phase = "supply" /\ work[Peer(h)].op = o /\ work[Peer(h)].i < Total[o]
Free(h) == recv[Peer(h)] = NoRecv
Takes(h, o) == recv[Peer(h)].f = o /\ recv[Peer(h)].whole

Quiet(h) ==
  /\ work[h].phase \in {"none", "queued", "meta", "ask", "done"}
  /\ wire[h] = <<>>
  /\ Alive(h) => Acks(Asked(h)) /\ Free(h) /\ Through(h)

Greets(h) ==
  LET o == work[h].op IN
  /\ work[h].phase = "greet"
  /\ wire[h] = <<>> \/ One(wire[h], "nack") \/ (One(wire[h], "ack") /\ wire[h][1].i = 0)
  /\ Alive(h) =>
       \/ wire[h] = <<>> /\ AcksThen(Asked(h), "meta", o) /\ Free(h) /\ Through(h)
       \/ One(wire[h], "ack") /\ Asked(h) = <<>> /\ Takes(h, o) /\ recv[Peer(h)].i = 0 /\ work[Peer(h)].phase = "none"
       \/ (wire[h] = <<>> \/ One(wire[h], "nack")) /\ Asked(h) = <<>> /\ Free(h) /\ Through(h)

Pushes(h) ==
  LET o == work[h].op
      i == work[h].i
  IN
  /\ work[h].phase = "chunks" /\ i < Total[o]
  /\ \A p \in 1..Len(wire[h]) : wire[h][p].k = "ack" /\ wire[h][p].i < Total[o]
  /\ Alive(h) =>
       /\ work[Peer(h)].phase = "none"
       /\ Takes(h, o) /\ recv[Peer(h)].i <= i /\ ChunksOf(Asked(h), o, recv[Peer(h)].i, i)

Published(o) == \E p \in published : p[1] = o

\* The ack of the whole file is the last one.
Finishes(h) ==
  LET o == work[h].op IN
  /\ work[h].phase = "final"
  /\ \A p \in 1..Len(wire[h]) :
       /\ wire[h][p].k = "ack"
       /\ wire[h][p].i >= Total[o] =>
            p = Len(wire[h]) /\ Published(o) /\ (Alive(h) => Asked(h) = <<>> /\ Free(h))
  /\ Alive(h) =>
       /\ work[Peer(h)].phase = "none"
       /\ \/ Takes(h, o) /\ recv[Peer(h)].i < Total[o] /\ ChunksOf(Asked(h), o, recv[Peer(h)].i, Total[o])
          \/ Asked(h) = <<>> /\ Free(h)

Awaits(h) ==
  LET o == work[h].op IN
  /\ work[h].phase = "await" /\ work[h].i = 0
  /\ wire[h] = <<>> \/ One(wire[h], "nack") \/ \E j \in 0..Total[o] : MetaThen(wire[h], o, j)
  /\ Alive(h) =>
       /\ Free(h)
       /\ \/ wire[h] = <<>> /\ AcksThen(Asked(h), "request", o) /\ Through(h)
          \/ wire[h] = <<>> /\ Asked(h) = <<>> /\ work[Peer(h)].phase \in {"queued", "serve"} /\ work[Peer(h)].op = o
          \/ Asked(h) = <<>> /\ Supplies(h, o) /\ MetaThen(wire[h], o, work[Peer(h)].i)
          \/ /\ Asked(h) = <<>> /\ Through(h)
             /\ wire[h] = <<>> \/ One(wire[h], "nack") \/ MetaThen(wire[h], o, Total[o])

Fetches(h) ==
  LET o == work[h].op
      i == work[h].i
  IN
  /\ work[h].phase = "fetch" /\ work[h].file = o /\ i < Total[o]
  /\ \E j \in i..Total[o] : ChunksOf(wire[h], o, i, j)
  /\ Alive(h) =>
       /\ Free(h) /\ Acks(Asked(h))
       /\ \/ Supplies(h, o) /\ work[Peer(h)].i >= i /\ ChunksOf(wire[h], o, i, work[Peer(h)].i)
          \/ Through(h) /\ ChunksOf(wire[h], o, i, Total[o])

Talks(h) ==
  /\ inbox[h] = <<>>
  /\ \A p \in 1..Len(wire[h]) : ~wire[h][p].half
  /\ work[Peer(h)].phase # "none" => inbox[Peer(h)] = <<>>
  /\ Quiet(h) \/ Greets(h) \/ Pushes(h) \/ Finishes(h) \/ Awaits(h) \/ Fetches(h)

TalkInv == \A h \in Nodes : Solo(h) /\ sock[h] = "open" => Talks(h)
Kept == \A o \in Ops : client[o] = "ok" /\ Solo(Home[o]) => Delivered(o)

-----------------------------------------------------------------------------
(* Frames, tasks and results come from operations that were issued.        *)

LEMMA RequestsOf ==
  ASSUME NEW q \in Seq(Frames)
  PROVE  /\ Requests(<<>>) = {}
         /\ q # <<>> => Requests(Tail(q)) \subseteq Requests(q) /\ (Head(q).k = "request" => Head(q).f \in Requests(q))
         /\ \A e \in Frames : Requests(Append(q, e)) \subseteq Requests(q) \cup {e.f}
         /\ \A e \in Frames : e.k # "request" => Requests(Append(q, e)) \subseteq Requests(q)
         /\ \A a \in Nat, b \in 0..Len(q) : a > 0 => Requests(SubSeq(q, a, b)) \subseteq Requests(q)
         /\ \A e \in Frames : q # <<>> /\ (e.k = "request" => e = q[1]) => Requests([q EXCEPT ![1] = e]) \subseteq Requests(q)
<1>1. Requests(<<>>) = {}
  BY DEF Requests
<1>2. ASSUME q # <<>> PROVE Requests(Tail(q)) \subseteq Requests(q) /\ (Head(q).k = "request" => Head(q).f \in Requests(q))
  <2>1. Len(Tail(q)) = Len(q) - 1 /\ (\A i \in 1..Len(Tail(q)) : Tail(q)[i] = q[i + 1]) /\ Len(q) \in Nat /\ Len(q) > 0
    BY <1>2, HeadTailProperties
  <2>2. Head(q) = q[1]
    BY <1>2
  <2> QED BY <2>1, <2>2 DEF Requests
<1>3. ASSUME NEW e \in Frames
      PROVE  Requests(Append(q, e)) \subseteq Requests(q) \cup {e.f} /\ (e.k # "request" => Requests(Append(q, e)) \subseteq Requests(q))
  <2>1. /\ Len(Append(q, e)) = Len(q) + 1 /\ Len(q) \in Nat
        /\ \A i \in 1..Len(q) : Append(q, e)[i] = q[i]
        /\ Append(q, e)[Len(q) + 1] = e
    BY AppendProperties
  <2> QED BY <2>1 DEF Requests
<1>4. ASSUME NEW a \in Nat, NEW b \in 0..Len(q), a > 0 PROVE Requests(SubSeq(q, a, b)) \subseteq Requests(q)
  <2>0. Len(q) \in Nat /\ \A i \in a..b : i \in 1..Len(q) /\ q[i] \in Frames
    BY <1>4
  <2>1. /\ Len(SubSeq(q, a, b)) = IF a <= b THEN b - a + 1 ELSE 0
        /\ \A i \in 1..b - a + 1 : SubSeq(q, a, b)[i] = q[a + i - 1]
    BY <2>0, SubSeqProperties
  <2>2. \A i \in 1..Len(SubSeq(q, a, b)) : a + i - 1 \in 1..Len(q) /\ SubSeq(q, a, b)[i] = q[a + i - 1]
    BY <1>4, <2>0, <2>1
  <2> QED BY <2>2 DEF Requests
<1>5. ASSUME NEW e \in Frames, q # <<>>, e.k = "request" => e = q[1] PROVE Requests([q EXCEPT ![1] = e]) \subseteq Requests(q)
  <2>1. /\ 1 \in 1..Len(q) /\ Len([q EXCEPT ![1] = e]) = Len(q)
        /\ \A j \in 1..Len(q) : [q EXCEPT ![1] = e][j] = IF j = 1 THEN e ELSE q[j]
    BY <1>5, ExceptSeq
  <2> QED BY <1>5, <2>1 DEF Requests
<1> QED BY <1>1, <1>2, <1>3, <1>4, <1>5

\* Nobody forgets that an operation was issued.
NeverNew == \A p \in Ops : client[p] # "new" => client'[p] # "new"

LEMMA SoloBefore ==
  ASSUME NeverNew, NEW h \in Nodes, Solo(h)'
  PROVE  Solo(h)
  BY DEF NeverNew, Solo

\* What no step changes but the issue of an operation and a request for one.
LEMMA SameSources ==
  ASSUME Sources, NeverNew, NEW n \in Nodes,
         \A m \in Nodes : Requests(wire'[m]) \subseteq Requests(wire[m])
         /\ Requests(inbox'[m]) \subseteq Requests(inbox[m]) \cup Requests(wire[m]),
         \A m \in Nodes \ {n} : work'[m] = work[m],
         Tasked(n)', \A m \in Nodes : Deaf(m)',
         \A o \in Ops : client'[o] = "ok" => client[o] = "ok" \/ Kind[o] # "async"
  PROVE  Sources'
<1>1. \A m \in Nodes : Requested(wire[m], m)' /\ Requested(inbox[m], m)'
  BY DEF Sources, Requested, NeverNew
<1>2. \A m \in Nodes \ {n} : Tasked(m)'
  BY DEF Sources, Tasked, NeverNew
<1> QED BY <1>1, <1>2 DEF Sources

LEMMA PeerOfPeer == \A n \in Nodes : Peer(Peer(n)) = n
  BY PeerIs

\* What is sent: a frame more for the peer, or none.
LEMMA SentIs ==
  ASSUME Shape, NEW n \in Nodes, NEW frame \in Frames, Sent(n, frame)
  PROVE  /\ \A m \in Nodes \ {Peer(n)} : wire'[m] = wire[m]
         /\ wire'[Peer(n)] = IF sock[Peer(n)] = "open" THEN Append(wire[Peer(n)], frame) ELSE wire[Peer(n)]
         /\ frame.k # "request" => \A m \in Nodes : Requests(wire'[m]) \subseteq Requests(wire[m])
         /\ \A m \in Nodes : wire[m] = <<>> /\ sock[m] # "open" => wire'[m] = <<>>
<1>1. Peer(n) \in Nodes /\ wire[Peer(n)] \in Seq(Frames)
  BY PeerIs DEF Shape
<1>2. /\ \A m \in Nodes \ {Peer(n)} : wire'[m] = wire[m]
      /\ wire'[Peer(n)] = IF sock[Peer(n)] = "open" THEN Append(wire[Peer(n)], frame) ELSE wire[Peer(n)]
  BY <1>1 DEF Sent, Shape
<1>3. frame.k # "request" => Requests(Append(wire[Peer(n)], frame)) \subseteq Requests(wire[Peer(n)])
  BY <1>1, RequestsOf
<1> QED BY <1>1, <1>2, <1>3

\* What is read and answered: at most one answer, and no request.
LEMMA RepliedIs ==
  ASSUME Shape, NEW n \in Nodes, wire[n] # <<>>,
         NEW frames, frames = <<>> \/ \E e \in Frames : e.k # "request" /\ frames = <<e>>,
         Replied(n, frames)
  PROVE  /\ wire'[n] = Tail(wire[n])
         /\ wire'[Peer(n)] = IF sock[Peer(n)] = "open" THEN wire[Peer(n)] \o frames ELSE wire[Peer(n)]
         /\ \A e : frames = <<e>> => wire[Peer(n)] \o frames = Append(wire[Peer(n)], e)
         /\ frames = <<>> => wire'[Peer(n)] = wire[Peer(n)]
         /\ \A m \in Nodes : Requests(wire'[m]) \subseteq Requests(wire[m])
         /\ \A m \in Nodes \ {n} : wire[m] = <<>> /\ sock[m] # "open" => wire'[m] = <<>>
<1>1. Peer(n) \in Nodes /\ Peer(n) # n /\ (\A m \in Nodes : m # n => m = Peer(n))
      /\ wire[Peer(n)] \in Seq(Frames) /\ wire[n] \in Seq(Frames)
  BY PeerIs DEF Shape
<1>2. /\ wire'[n] = Tail(wire[n])
      /\ wire'[Peer(n)] = IF sock[Peer(n)] = "open" THEN wire[Peer(n)] \o frames ELSE wire[Peer(n)]
  BY <1>1 DEF Replied, Shape
<1>3. /\ \A e : wire[Peer(n)] \o <<e>> = Append(wire[Peer(n)], e)
      /\ wire[Peer(n)] \o <<>> = wire[Peer(n)]
  BY <1>1
<1>4. Requests(Tail(wire[n])) \subseteq Requests(wire[n])
  BY <1>1, RequestsOf
<1>5. \A e \in Frames : e.k # "request" => Requests(Append(wire[Peer(n)], e)) \subseteq Requests(wire[Peer(n)])
  BY <1>1, RequestsOf
<1>6. Requests(wire'[Peer(n)]) \subseteq Requests(wire[Peer(n)])
  BY <1>2, <1>3, <1>5
<1> QED BY <1>1, <1>2, <1>3, <1>4, <1>6

LEMMA AskSources ==
  ASSUME OwnInv, Sources, NEW o \in Ops, Ask(o) \/ AskAsync(o)
  PROVE  NeverNew /\ Sources'
<1> DEFINE n == Home[o]
<1>0. n \in Nodes /\ Peer(n) \in Nodes /\ Peer(n) # n /\ Peer(Peer(n)) = n
  BY TotalIs, PeerIs, PeerOfPeer
<1>1. /\ client[o] = "new" /\ client \in [Ops -> {"new", "waiting", "requested", "ok", "error", "closed"}]
      /\ \E what \in {"waiting", "requested", "error", "closed"} : client' = [client EXCEPT ![o] = what]
      /\ work \in [Nodes -> Works]
  BY DEF Ask, AskAsync, Waiting, Told, OwnInv, Shape
<1>2. NeverNew /\ (\A p \in Ops : client'[p] = "ok" => client[p] = "ok") /\ client'[o] # "new"
  BY <1>1 DEF NeverNew
<1>3. CASE Ask(o)
  <2>1. UNCHANGED <<sock, wire, inbox>> /\ Kind[o] # "async"
    BY <1>3 DEF Ask
  <2>2. CASE UNCHANGED work
    BY <1>2, <2>1, <2>2 DEF Sources, Requested, Tasked, Deaf, NeverNew
  <2>3. CASE Lent(n, o)
    <3>1. work'[n] = [NoWork EXCEPT !.op = o, !.phase = "queued"] /\ \A m \in Nodes \ {n} : work'[m] = work[m]
      BY <1>0, <1>1, <2>3 DEF Lent
    <3>2. work'[n].op = o /\ work'[n].phase = "queued" /\ ~work'[n].cancelled
      BY <3>1 DEF NoWork
    <3>3. Tasked(n)'
      BY <1>2, <2>1, <3>2 DEF Tasked
    <3>4. \A m \in Nodes : Deaf(m)'
      BY <2>1, <3>1, <3>2 DEF Deaf, Sources
    <3> QED BY <1>0, <1>2, <2>1, <3>1, <3>3, <3>4, SameSources DEF Sources
  <2> QED BY <1>2, <1>3, <2>2, <2>3 DEF Ask
<1>4. CASE AskAsync(o)
  <2>1. UNCHANGED <<sock, inbox, work>>
    BY <1>4 DEF AskAsync
  <2>2. CASE UNCHANGED wire
    BY <1>2, <2>1, <2>2 DEF Sources, Requested, Tasked, Deaf, NeverNew
  <2>3. CASE Sent(n, F("request", o, 0))
    <3>1. F("request", o, 0) \in Frames /\ F("request", o, 0).f = o
      BY DEF F, Frames
    <3>2. /\ \A m \in Nodes \ {Peer(n)} : wire'[m] = wire[m]
          /\ wire'[Peer(n)] = IF sock[Peer(n)] = "open" THEN Append(wire[Peer(n)], F("request", o, 0)) ELSE wire[Peer(n)]
          /\ \A m \in Nodes : wire[m] = <<>> /\ sock[m] # "open" => wire'[m] = <<>>
      BY <1>0, <2>3, <3>1, SentIs DEF OwnInv
    <3>3. Requests(Append(wire[Peer(n)], F("request", o, 0))) \subseteq Requests(wire[Peer(n)]) \cup {o}
      BY <1>0, <3>1, RequestsOf DEF OwnInv, Shape
    <3>4. \A m \in Nodes : Requests(wire'[m]) \subseteq Requests(wire[m]) \cup (IF m = Peer(n) THEN {o} ELSE {})
      BY <3>2, <3>3
    <3>5. \A m \in Nodes : Requested(wire[m], m)' /\ Requested(inbox[m], m)'
      BY <1>0, <1>2, <2>1, <3>4 DEF Sources, Requested, NeverNew
    <3>6. \A m \in Nodes : Tasked(m)' /\ Deaf(m)'
      BY <1>2, <2>1, <3>2 DEF Sources, Tasked, Deaf, NeverNew
    <3> QED BY <1>2, <3>5, <3>6 DEF Sources
  <2> QED BY <1>2, <1>4, <2>2, <2>3 DEF AskAsync
<1> QED BY <1>3, <1>4

LEMMA KilledSources ==
  ASSUME OwnInv, Sources, NEW n \in Nodes, Cancel(n) \/ Watchdog(n)
  PROVE  NeverNew /\ Sources'
<1>0. work[n] \in Works /\ work \in [Nodes -> Works] /\ sock \in [Nodes -> {"open", "shut", "closed"}] /\ wire \in [Nodes -> Seq(Frames)]
      /\ <<>> \in Seq(Frames)
  BY DEF OwnInv, Shape
<1>1. /\ work' = [work EXCEPT ![n].cancelled = TRUE] /\ sock' = [sock EXCEPT ![n] = "shut"] /\ wire' = [wire EXCEPT ![n] = <<>>]
      /\ UNCHANGED <<inbox, client>> /\ inbox[n] = <<>>
  BY DEF Cancel, Watchdog, Killed, Ended, Loop
<1>2. /\ work'[n] = [work[n] EXCEPT !.cancelled = TRUE]
      /\ \A m \in Nodes \ {n} : work'[m] = work[m] /\ sock'[m] = sock[m] /\ wire'[m] = wire[m]
      /\ sock'[n] = "shut" /\ wire'[n] = <<>>
  BY <1>0, <1>1
<1>3. work'[n].phase = work[n].phase /\ work'[n].op = work[n].op
  BY <1>0, <1>2 DEF Works
<1>4. Requests(<<>>) = {}
  BY <1>0, RequestsOf
<1>5. Tasked(n)' /\ \A m \in Nodes : Deaf(m)'
  BY <1>1, <1>2, <1>3 DEF Sources, Tasked, Deaf
<1>6. NeverNew
  BY <1>1 DEF NeverNew
<1> QED BY <1>1, <1>2, <1>4, <1>5, <1>6, SameSources DEF Sources

\* A result: the task keeps its operation, and the operation's client is told at home.
LEMMA DoneSays ==
  ASSUME OwnInv, NEW n \in Nodes, NEW result \in {"ok", "error"}, Done(n, result)
  PROVE  /\ work'[n].phase = "done" /\ work'[n].op = work[n].op /\ work'[n].cancelled = work[n].cancelled
         /\ \A m \in Nodes \ {n} : work'[m] = work[m]
         /\ NeverNew
         /\ \A o \in Ops : client'[o] = "ok" => client[o] = "ok" \/ (result = "ok" /\ o = work[n].op /\ Home[o] = n)
<1>1. work \in [Nodes -> Works] /\ work[n] \in Works /\ client \in [Ops -> {"new", "waiting", "requested", "ok", "error", "closed"}]
  BY DEF OwnInv, Shape
<1>2. work' = [work EXCEPT ![n] = [work[n] EXCEPT !.phase = "done"]]
  BY <1>1 DEF Done
<1>3. /\ [work[n] EXCEPT !.phase = "done"].phase = "done" /\ [work[n] EXCEPT !.phase = "done"].op = work[n].op
      /\ [work[n] EXCEPT !.phase = "done"].cancelled = work[n].cancelled
  BY <1>1 DEF Works
<1>4. /\ work'[n].phase = "done" /\ work'[n].op = work[n].op /\ work'[n].cancelled = work[n].cancelled
      /\ \A m \in Nodes \ {n} : work'[m] = work[m]
  BY <1>1, <1>2, <1>3
<1>5. client' = IF Home[work[n].op] = n THEN [client EXCEPT ![work[n].op] = result] ELSE client
  BY DEF Done, Told
<1>6. /\ NeverNew
      /\ \A o \in Ops : client'[o] = "ok" => client[o] = "ok" \/ (result = "ok" /\ o = work[n].op /\ Home[o] = n)
  BY <1>1, <1>5 DEF NeverNew
<1> QED BY <1>4, <1>6

LEMMA GoesSays ==
  ASSUME OwnInv, NEW n \in Nodes, NEW p, NEW i, Goes(n, p, i)
  PROVE  /\ work'[n].phase = p /\ work'[n].i = i /\ work'[n].op = work[n].op /\ work'[n].cancelled = work[n].cancelled
         /\ work'[n].file = work[n].file /\ work'[n].whole = work[n].whole
         /\ \A m \in Nodes \ {n} : work'[m] = work[m]
         /\ UNCHANGED client
<1>1. work \in [Nodes -> Works] /\ work[n] \in Works
  BY DEF OwnInv, Shape
<1>2. work' = [work EXCEPT ![n] = [work[n] EXCEPT !.phase = p, !.i = i]] /\ UNCHANGED client
  BY <1>1 DEF Goes
<1> DEFINE w == [work[n] EXCEPT !.phase = p, !.i = i]
<1>3. /\ w.phase = p /\ w.i = i /\ w.op = work[n].op /\ w.cancelled = work[n].cancelled
      /\ w.file = work[n].file /\ w.whole = work[n].whole
  BY <1>1 DEF Works
<1> HIDE DEF w
<1>4. work' = [work EXCEPT ![n] = w]
  BY <1>2 DEF w
<1>5. work'[n] = w /\ \A m \in Nodes \ {n} : work'[m] = work[m]
  BY <1>1, <1>4
<1> QED BY <1>2, <1>3, <1>5

LEMMA TakesSources ==
  ASSUME OwnInv, Sources, NEW n \in Nodes, WorkerTakes(n)
  PROVE  NeverNew /\ Sources'
<1> DEFINE o == work[n].op
<1>1. /\ work[n].phase = "queued" /\ work[n] \in Works /\ work \in [Nodes -> Works]
      /\ client \in [Ops -> {"new", "waiting", "requested", "ok", "error", "closed"}]
      /\ UNCHANGED <<sock, wire, published, inbox, closing, tails, reserved, recv>>
      /\ o \in Ops /\ client[o] # "new" /\ (Home[o] = n => Kind[o] # "async")
  BY DEF WorkerTakes, workerUnchanged, OwnInv, Shape, Sources, Tasked
<1>2. client' = client \/ client' = [client EXCEPT ![o] = "closed"]
  BY DEF WorkerTakes, Told
<1>3. NeverNew /\ \A p \in Ops : client'[p] = "ok" => client[p] = "ok"
  BY <1>1, <1>2 DEF NeverNew
<1>4. /\ \A m \in Nodes \ {n} : work'[m] = work[m]
      /\ \/ work'[n] = NoWork
         \/ ~work[n].cancelled /\ work'[n] = [work[n] EXCEPT !.phase = FirstPhase(n, o)]
  BY <1>1 DEF WorkerTakes
<1>5. work'[n].phase = "none" \/ (work'[n].phase = FirstPhase(n, o) /\ work'[n].op = o /\ ~work[n].cancelled)
  BY <1>1, <1>4 DEF NoWork, Works
<1>6. work'[n].cancelled => work[n].cancelled
  BY <1>1, <1>4 DEF NoWork, Works
<1>7. Home[o] # n \/ Kind[o] \in {"send", "pull"}
  BY <1>1, OperationsAssumption
<1>8. Tasked(n)'
  <2>1. CASE work'[n].phase = "none"
    BY <2>1 DEF Tasked
  <2>2. CASE work'[n].phase = FirstPhase(n, o) /\ work'[n].op = o
    <3>1. client'[o] # "new"
      BY <1>1, <1>3 DEF NeverNew
    <3>2. CASE Home[o] # n
      BY <1>1, <2>2, <3>1, <3>2 DEF Tasked, FirstPhase
    <3>3. CASE Home[o] = n
      BY <1>1, <1>7, <2>2, <3>1, <3>3 DEF Tasked, FirstPhase
    <3> QED BY <3>2, <3>3
  <2> QED BY <1>5, <2>1, <2>2
<1>9. \A m \in Nodes : Deaf(m)'
  BY <1>1, <1>4, <1>6 DEF Sources, Deaf
<1> QED BY <1>1, <1>3, <1>4, <1>8, <1>9, SameSources

\* A task that goes on with its operation.
LEMMA WorkSources ==
  ASSUME OwnInv, Sources, NEW n \in Nodes, NeverNew,
         work[n].phase # "none", work'[n].op = work[n].op, work'[n].cancelled = work[n].cancelled,
         \A m \in Nodes \ {n} : work'[m] = work[m],
         \/ work'[n].phase \in {"done", work[n].phase}
         \/ {work'[n].phase, work[n].phase} \subseteq {"meta", "greet", "chunks", "final"}
         \/ {work'[n].phase, work[n].phase} \subseteq {"ask", "await", "fetch"}
         \/ {work'[n].phase, work[n].phase} \subseteq {"serve", "supply", "drain"},
         UNCHANGED <<sock, inbox>>,
         \A m \in Nodes : Requests(wire'[m]) \subseteq Requests(wire[m]),
         \A m \in Nodes : wire[m] = <<>> /\ sock[m] # "open" => wire'[m] = <<>>,
         \A o \in Ops : client'[o] = "ok" => client[o] = "ok" \/ (o = work[n].op /\ Home[o] = n)
  PROVE  Sources'
<1>1. Tasked(n)
  BY DEF Sources
<1>2. Tasked(n)'
  BY <1>1 DEF Tasked, NeverNew
<1>3. \A m \in Nodes : Deaf(m)'
  <2> SUFFICES ASSUME NEW m \in Nodes PROVE Deaf(m)'
    OBVIOUS
  <2>1. Deaf(m) /\ work'[m].cancelled = work[m].cancelled
    BY DEF Sources
  <2> QED BY <2>1 DEF Deaf
<1>4. \A o \in Ops : client'[o] = "ok" => client[o] = "ok" \/ Kind[o] # "async"
  BY <1>1 DEF Tasked
<1> QED BY <1>2, <1>3, <1>4, SameSources

LEMMA WritesSources ==
  ASSUME OwnInv, Sources, NEW n \in Nodes, WorkerWrites(n)
  PROVE  NeverNew /\ Sources'
<1> DEFINE w == work[n]
           o == w.op
<1>0. /\ w \in Works /\ w.phase # "none" /\ UNCHANGED <<sock, inbox>> /\ Shape
      /\ Peer(n) \in Nodes /\ Peer(n) # n /\ Peer(Peer(n)) = n
  BY PeerIs, PeerOfPeer DEF WorkerWrites, Writes, workerUnchanged, OwnInv, Shape
<1>1. o \in Ops /\ client[o] # "new" /\ (w.phase = "ask" => Home[o] = n)
  BY <1>0 DEF Sources, Tasked
<1>2. CASE w.phase = "ask" /\ Sent(n, F("request", o, 0)) /\ Goes(n, "await", 0)
  <2>1. F("request", o, 0) \in Frames /\ F("request", o, 0).f = o
    BY <1>1 DEF F, Frames
  <2>2. /\ \A m \in Nodes \ {Peer(n)} : wire'[m] = wire[m]
        /\ wire'[Peer(n)] = IF sock[Peer(n)] = "open" THEN Append(wire[Peer(n)], F("request", o, 0)) ELSE wire[Peer(n)]
        /\ \A m \in Nodes : wire[m] = <<>> /\ sock[m] # "open" => wire'[m] = <<>>
    BY <1>0, <1>2, <2>1, SentIs
  <2>3. Requests(Append(wire[Peer(n)], F("request", o, 0))) \subseteq Requests(wire[Peer(n)]) \cup {o}
    BY <1>0, <2>1, RequestsOf DEF Shape
  <2>4. \A m \in Nodes : Requests(wire'[m]) \subseteq Requests(wire[m]) \cup (IF m = Peer(n) THEN {o} ELSE {})
    BY <2>2, <2>3
  <2>5. /\ work'[n].phase = "await" /\ work'[n].op = o /\ work'[n].cancelled = w.cancelled
        /\ (\A m \in Nodes \ {n} : work'[m] = work[m]) /\ UNCHANGED client
    BY <1>2, GoesSays
  <2>6. \A m \in Nodes : Requested(wire[m], m)' /\ Requested(inbox[m], m)'
    BY <1>0, <1>1, <1>2, <2>4, <2>5 DEF Sources, Requested
  <2>7. \A m \in Nodes : Tasked(m)'
    BY <1>0, <1>1, <1>2, <2>5 DEF Sources, Tasked
  <2>8. \A m \in Nodes : Deaf(m)'
    BY <1>0, <2>2, <2>5 DEF Sources, Deaf
  <2> QED BY <2>5, <2>6, <2>7, <2>8 DEF Sources, NeverNew
<1>3. ASSUME NEW frame \in Frames, frame.k # "request", Sent(n, frame),
             \/ Done(n, "error")
             \/ \E p, i : Goes(n, p, i) /\ \/ {p, w.phase} \subseteq {"meta", "greet", "chunks", "final"}
                                           \/ {p, w.phase} \subseteq {"serve", "supply", "drain"}
      PROVE  NeverNew /\ Sources'
  <2>1. /\ \A m \in Nodes : Requests(wire'[m]) \subseteq Requests(wire[m])
        /\ \A m \in Nodes : wire[m] = <<>> /\ sock[m] # "open" => wire'[m] = <<>>
    BY <1>0, <1>3, SentIs
  <2>2. CASE Done(n, "error")
    <3>1. /\ work'[n].phase = "done" /\ work'[n].op = o /\ work'[n].cancelled = w.cancelled
          /\ \A m \in Nodes \ {n} : work'[m] = work[m]
          /\ NeverNew
          /\ \A p \in Ops : client'[p] = "ok" => client[p] = "ok"
      BY <2>2, DoneSays
    <3> QED BY <1>0, <2>1, <3>1, WorkSources
  <2>3. CASE \E p, i : Goes(n, p, i) /\ \/ {p, w.phase} \subseteq {"meta", "greet", "chunks", "final"}
                                        \/ {p, w.phase} \subseteq {"serve", "supply", "drain"}
    <3>1. PICK p, i : Goes(n, p, i) /\ \/ {p, w.phase} \subseteq {"meta", "greet", "chunks", "final"}
                                       \/ {p, w.phase} \subseteq {"serve", "supply", "drain"}
      BY <2>3
    <3>2. /\ work'[n].phase = p /\ work'[n].op = o /\ work'[n].cancelled = w.cancelled
          /\ (\A m \in Nodes \ {n} : work'[m] = work[m]) /\ UNCHANGED client
      BY <3>1, GoesSays
    <3>3. NeverNew /\ \A q \in Ops : client'[q] = "ok" => client[q] = "ok"
      BY <3>2 DEF NeverNew
    <3> QED BY <1>0, <2>1, <3>1, <3>2, <3>3, WorkSources
  <2> QED BY <1>3, <2>2, <2>3
<1>4. /\ F("meta", o, 0) \in Frames /\ F("meta", o, 0).k # "request"
      /\ F("nack", None, 0) \in Frames /\ F("nack", None, 0).k # "request"
      /\ F("chunk", o, w.i) \in Frames /\ F("chunk", o, w.i).k # "request"
  BY <1>0, <1>1 DEF F, Frames, Works
<1>5. CASE w.phase = "meta" /\ Sent(n, F("meta", o, 0)) /\ Goes(n, "greet", 0)
  BY <1>3, <1>4, <1>5
<1>6. CASE w.phase = "serve" /\ Sent(n, F("nack", None, 0)) /\ Done(n, "error")
  BY <1>3, <1>4, <1>6
<1>7. CASE w.phase = "serve" /\ Sent(n, F("meta", o, 0)) /\ Goes(n, "supply", 0)
  BY <1>3, <1>4, <1>7
<1>8. CASE /\ w.phase \in {"chunks", "supply"} /\ Sent(n, F("chunk", o, w.i))
           /\ Goes(n, IF w.i + 1 < Total[o] THEN w.phase ELSE IF w.phase = "chunks" THEN "final" ELSE "drain", w.i + 1)
  <2> DEFINE p == IF w.i + 1 < Total[o] THEN w.phase ELSE IF w.phase = "chunks" THEN "final" ELSE "drain"
  <2>1. {p, w.phase} \subseteq {"meta", "greet", "chunks", "final"} \/ {p, w.phase} \subseteq {"serve", "supply", "drain"}
    BY <1>8
  <2>2. Goes(n, p, w.i + 1)
    BY <1>8
  <2> HIDE DEF p
  <2> QED BY <1>3, <1>4, <1>8, <2>1, <2>2
<1> QED BY <1>2, <1>5, <1>6, <1>7, <1>8 DEF WorkerWrites, Writes

\* What a worker does with a frame.
Heard(n, h) ==
  LET w == work[n] IN
  \/ w.phase \in {"greet", "final", "await", "fetch", "drain"} /\ Done(n, "error")
  \/ w.phase \in {"final", "fetch"} /\ Done(n, "ok")
  \/ w.phase = "greet" /\ \E p \in {"chunks", "final"} : Goes(n, p, h.i)
  \/ w.phase \in {"greet", "final", "await", "fetch", "drain"} /\ UNCHANGED <<work, client>>
  \/ w.phase = "await" /\ work' = [work EXCEPT ![n].phase = "fetch", ![n].file = h.f] /\ UNCHANGED client
  \/ w.phase = "fetch" /\ (\E b : work' = [work EXCEPT ![n].i = w.i + 1, ![n].whole = b]) /\ UNCHANGED client

LEMMA ReadsIs ==
  ASSUME OwnInv, NEW n \in Nodes, WorkerReads(n)
  PROVE  /\ Heard(n, Head(wire[n]))
         /\ \E frames : Replied(n, frames) /\ (frames = <<>> \/ \E e \in Frames : e.k # "request" /\ frames = <<e>>)
         /\ wire[n] # <<>> /\ UNCHANGED <<sock, busy, inbox, closing, tails, reserved, recv>>
<1> DEFINE h == Head(wire[n])
           w == work[n]
<1>0. /\ WaitAck(n, h) \/ WaitMeta(n, h) \/ WaitChunk(n, h) \/ Drain(n, h)
      /\ wire[n] # <<>> /\ UNCHANGED <<sock, busy, inbox, closing, tails, reserved, recv>>
      /\ wire[n] \in Seq(Frames) /\ w \in Works
  BY DEF WorkerReads, workerUnchanged, OwnInv, Shape
<1>1. h \in Frames
  BY <1>0, HeadIs
<1> HIDE DEF h
<1>2. /\ F("ack", None, 0) \in Frames /\ F("ack", None, 0).k # "request"
      /\ F("nack", None, 0) \in Frames /\ F("nack", None, 0).k # "request"
      /\ w.i + 1 \in Nat /\ F("ack", None, w.i + 1) \in Frames /\ F("ack", None, w.i + 1).k # "request"
  <2>1. w.i + 1 \in Nat
    BY <1>0 DEF Works
  <2> QED BY <2>1 DEF F, Frames
<1>3. CASE WaitAck(n, h)
  <2>0. w.phase \in {"greet", "final"} /\ Replied(n, <<>>)
    BY <1>3 DEF WaitAck
  <2>1. ASSUME h.k = "nack" PROVE Heard(n, h)
    <3>1. Done(n, "error")
      BY <1>3, <2>1 DEF WaitAck
    <3> QED BY <2>0, <3>1 DEF Heard
  <2>2. ASSUME h.k = "ack", Enough(w, h.i) PROVE Heard(n, h)
    <3>1. IF w.phase = "final" THEN Done(n, "ok") ELSE Goes(n, IF h.i < Total[w.op] THEN "chunks" ELSE "final", h.i)
      BY <1>3, <2>2 DEF WaitAck
    <3>2. CASE w.phase = "final"
      BY <2>0, <3>1, <3>2 DEF Heard
    <3>3. CASE w.phase # "final"
      <4> DEFINE p == IF h.i < Total[w.op] THEN "chunks" ELSE "final"
      <4>1. p \in {"chunks", "final"} /\ Goes(n, p, h.i) /\ w.phase = "greet"
        BY <2>0, <3>1, <3>3
      <4> HIDE DEF p
      <4> QED BY <4>1 DEF Heard
    <3> QED BY <3>2, <3>3
  <2>3. ASSUME h.k # "nack", ~(h.k = "ack" /\ Enough(w, h.i)) PROVE Heard(n, h)
    <3>1. UNCHANGED <<work, client>>
      BY <1>3, <2>3 DEF WaitAck
    <3> QED BY <2>0, <3>1 DEF Heard
  <2> QED BY <1>0, <2>0, <2>1, <2>2, <2>3 DEF h
<1>4. CASE WaitMeta(n, h)
  <2>0. w.phase = "await"
    BY <1>4 DEF WaitMeta
  <2>1. ASSUME h.k = "nack" PROVE Heard(n, h) /\ Replied(n, <<>>)
    <3>1. Replied(n, <<>>) /\ Done(n, "error")
      BY <1>4, <2>1 DEF WaitMeta
    <3> QED BY <2>0, <3>1 DEF Heard
  <2>2. ASSUME h.k = "meta" PROVE Heard(n, h) /\ Replied(n, <<F("ack", None, 0)>>)
    <3>1. /\ Replied(n, <<F("ack", None, 0)>>)
          /\ work' = [work EXCEPT ![n].phase = "fetch", ![n].file = h.f] /\ UNCHANGED client
      BY <1>4, <2>2 DEF WaitMeta
    <3> QED BY <2>0, <3>1 DEF Heard
  <2>3. ASSUME h.k \notin {"nack", "meta"} PROVE Heard(n, h) /\ Replied(n, <<>>)
    <3>1. Replied(n, <<>>) /\ UNCHANGED <<work, client>>
      BY <1>4, <2>3 DEF WaitMeta
    <3> QED BY <2>0, <3>1 DEF Heard
  <2> QED BY <1>0, <1>2, <2>1, <2>2, <2>3 DEF h
<1>5. CASE WaitChunk(n, h)
  <2>0. w.phase = "fetch"
    BY <1>5 DEF WaitChunk
  <2>1. Replied(n, <<>>) \/ Replied(n, <<F("nack", None, 0)>>) \/ Replied(n, <<F("ack", None, w.i + 1)>>)
    BY <1>5 DEF WaitChunk
  <2>2. \/ Done(n, "error") \/ Done(n, "ok") \/ UNCHANGED <<work, client>>
        \/ (\E b : work' = [work EXCEPT ![n].i = w.i + 1, ![n].whole = b]) /\ UNCHANGED client
    <3> DEFINE b == w.whole /\ h.f = w.file
    <3>1. CASE h.k = "nack" \/ h.k \notin {"nack", "chunk"} \/ ~Fits(h, w.file, w.i)
      BY <1>5, <3>1 DEF WaitChunk
    <3>2. CASE h.k = "chunk" /\ Fits(h, w.file, w.i) /\ w.i + 1 < Total[w.file]
      <4>1. work' = [work EXCEPT ![n].i = w.i + 1, ![n].whole = b] /\ UNCHANGED client
        BY <1>5, <3>2 DEF WaitChunk
      <4> QED BY <4>1
    <3>3. CASE h.k = "chunk" /\ Fits(h, w.file, w.i) /\ ~(w.i + 1 < Total[w.file])
      <4>1. Done(n, IF b THEN "ok" ELSE "error")
        BY <1>5, <3>3 DEF WaitChunk
      <4> QED BY <4>1
    <3> QED BY <3>1, <3>2, <3>3
  <2>3. Heard(n, h)
    BY <2>0, <2>2 DEF Heard
  <2> QED BY <1>0, <1>2, <2>1, <2>3 DEF h
<1>6. CASE Drain(n, h)
  <2>1. w.phase = "drain" /\ Replied(n, <<>>) /\ (Done(n, "error") \/ UNCHANGED <<work, client>>)
    BY <1>6 DEF Drain
  <2>2. Heard(n, h)
    BY <2>1 DEF Heard
  <2> QED BY <1>0, <2>1, <2>2 DEF h
<1> QED BY <1>0, <1>3, <1>4, <1>5, <1>6 DEF h

LEMMA ReadsSources ==
  ASSUME OwnInv, Sources, NEW n \in Nodes, WorkerReads(n)
  PROVE  NeverNew /\ Sources'
<1> DEFINE h == Head(wire[n])
           w == work[n]
<1>1. PICK frames : Replied(n, frames) /\ (frames = <<>> \/ \E e \in Frames : e.k # "request" /\ frames = <<e>>)
  BY ReadsIs
<1>2. Heard(n, h) /\ wire[n] # <<>> /\ UNCHANGED <<sock, inbox>> /\ Shape /\ w \in Works /\ work \in [Nodes -> Works]
  BY ReadsIs DEF OwnInv, Shape
<1>3. /\ wire'[n] = Tail(wire[n])
      /\ \A m \in Nodes : Requests(wire'[m]) \subseteq Requests(wire[m])
      /\ \A m \in Nodes \ {n} : wire[m] = <<>> /\ sock[m] # "open" => wire'[m] = <<>>
  BY <1>1, <1>2, RepliedIs
<1>4. \A m \in Nodes : wire[m] = <<>> /\ sock[m] # "open" => wire'[m] = <<>>
  BY <1>2, <1>3
<1> HIDE DEF h
<1>5. /\ NeverNew /\ w.phase # "none" /\ work'[n].op = w.op /\ work'[n].cancelled = w.cancelled
      /\ \A m \in Nodes \ {n} : work'[m] = work[m]
      /\ \/ work'[n].phase \in {"done", w.phase}
         \/ {work'[n].phase, w.phase} \subseteq {"meta", "greet", "chunks", "final"}
         \/ {work'[n].phase, w.phase} \subseteq {"ask", "await", "fetch"}
      /\ \A o \in Ops : client'[o] = "ok" => client[o] = "ok" \/ (o = w.op /\ Home[o] = n)
  <2>1. CASE w.phase \in {"greet", "final", "await", "fetch", "drain"} /\ (Done(n, "error") \/ Done(n, "ok"))
    BY <2>1, DoneSays
  <2>2. CASE w.phase = "greet" /\ \E p \in {"chunks", "final"} : Goes(n, p, h.i)
    <3>1. PICK p \in {"chunks", "final"} : Goes(n, p, h.i)
      BY <2>2
    <3>2. /\ work'[n].phase = p /\ work'[n].op = w.op /\ work'[n].cancelled = w.cancelled
          /\ (\A m \in Nodes \ {n} : work'[m] = work[m]) /\ UNCHANGED client
      BY <3>1, GoesSays
    <3> QED BY <2>2, <3>1, <3>2 DEF NeverNew
  <2>3. CASE w.phase \in {"greet", "final", "await", "fetch", "drain"} /\ UNCHANGED <<work, client>>
    BY <2>3 DEF NeverNew
  <2>4. CASE w.phase = "await" /\ work' = [work EXCEPT ![n].phase = "fetch", ![n].file = h.f] /\ UNCHANGED client
    <3>1. work'[n] = [w EXCEPT !.phase = "fetch", !.file = h.f] /\ \A m \in Nodes \ {n} : work'[m] = work[m]
      BY <1>2, <2>4
    <3>2. work'[n].phase = "fetch" /\ work'[n].op = w.op /\ work'[n].cancelled = w.cancelled
      BY <1>2, <3>1 DEF Works
    <3> QED BY <2>4, <3>1, <3>2 DEF NeverNew
  <2>5. CASE w.phase = "fetch" /\ (\E b : work' = [work EXCEPT ![n].i = w.i + 1, ![n].whole = b]) /\ UNCHANGED client
    <3>1. PICK b : work' = [work EXCEPT ![n].i = w.i + 1, ![n].whole = b]
      BY <2>5
    <3>2. work'[n] = [w EXCEPT !.i = w.i + 1, !.whole = b] /\ \A m \in Nodes \ {n} : work'[m] = work[m]
      BY <1>2, <3>1
    <3>3. work'[n].phase = w.phase /\ work'[n].op = w.op /\ work'[n].cancelled = w.cancelled
      BY <1>2, <3>2 DEF Works
    <3> QED BY <2>5, <3>2, <3>3 DEF NeverNew
  <2> QED BY <1>2, <2>1, <2>2, <2>3, <2>4, <2>5 DEF Heard
<1> QED BY <1>2, <1>3, <1>4, <1>5, WorkSources

LEMMA StopsSources ==
  ASSUME OwnInv, Sources, NEW n \in Nodes, WorkerStops(n) \/ WorkerServed(n)
  PROVE  NeverNew /\ Sources'
<1>0. wire \in [Nodes -> Seq(Frames)] /\ wire[n] \in Seq(Frames)
  BY DEF OwnInv, Shape
<1>1. \/ WorkerStops(n) /\ Done(n, "error")
      \/ WorkerServed(n) /\ Done(n, "ok")
  BY DEF WorkerStops, WorkerServed
<1>2. /\ work[n].phase # "none" /\ UNCHANGED <<sock, inbox>>
      /\ UNCHANGED wire \/ (wire[n] # <<>> /\ wire' = [wire EXCEPT ![n][1] = F("garbage", None, 0)])
  BY DEF WorkerStops, WorkerServed, workerUnchanged, Running, Garbled
<1>3. /\ \A m \in Nodes : Requests(wire'[m]) \subseteq Requests(wire[m])
      /\ \A m \in Nodes : wire[m] = <<>> /\ sock[m] # "open" => wire'[m] = <<>>
  <2>1. CASE UNCHANGED wire
    BY <2>1
  <2>2. CASE wire[n] # <<>> /\ wire' = [wire EXCEPT ![n][1] = F("garbage", None, 0)]
    <3>1. F("garbage", None, 0) \in Frames /\ F("garbage", None, 0).k # "request"
      BY DEF F, Frames
    <3>2. wire'[n] = [wire[n] EXCEPT ![1] = F("garbage", None, 0)] /\ \A m \in Nodes \ {n} : wire'[m] = wire[m]
      BY <1>0, <2>2
    <3>3. Requests(wire'[n]) \subseteq Requests(wire[n])
      BY <1>0, <2>2, <3>1, <3>2, RequestsOf
    <3> QED BY <2>2, <3>2, <3>3
  <2> QED BY <1>2, <2>1, <2>2
<1>4. /\ work'[n].phase = "done" /\ work'[n].op = work[n].op /\ work'[n].cancelled = work[n].cancelled
      /\ \A m \in Nodes \ {n} : work'[m] = work[m]
      /\ NeverNew
      /\ \A o \in Ops : client'[o] = "ok" => client[o] = "ok" \/ (o = work[n].op /\ Home[o] = n)
  BY <1>1, DoneSays
<1> QED BY <1>2, <1>3, <1>4, WorkSources

LEMMA ReleasesSources ==
  ASSUME OwnInv, Sources, NEW n \in Nodes, WorkerReleases(n) \/ WorkerReleasesAgain(n)
  PROVE  NeverNew /\ Sources'
<1>1. UNCHANGED <<sock, wire, inbox, client>> /\ work \in [Nodes -> Works]
  BY DEF WorkerReleases, WorkerReleasesAgain, OwnInv, Shape
<1>2. \A m \in Nodes : work'[m] = work[m] \/ work'[m] = NoWork
  BY <1>1 DEF WorkerReleases, WorkerReleasesAgain
<1>3. NoWork.phase = "none" /\ ~NoWork.cancelled
  BY DEF NoWork
<1> QED BY <1>1, <1>2, <1>3 DEF Sources, Requested, Tasked, Deaf, NeverNew

LEMMA LoopReadsSources ==
  ASSUME OwnInv, Sources, NEW n \in Nodes, LoopReads(n) \/ LoopReadsHalf(n) \/ LoopCloses(n)
  PROVE  NeverNew /\ Sources'
<1>0. /\ wire \in [Nodes -> Seq(Frames)] /\ wire[n] \in Seq(Frames) /\ inbox \in [Nodes -> Seq(Frames)]
      /\ sock \in [Nodes -> {"open", "shut", "closed"}] /\ <<>> \in Seq(Frames)
  BY DEF OwnInv, Shape
<1>1. UNCHANGED <<work, client>> /\ NeverNew
  BY DEF LoopReads, LoopReadsHalf, LoopCloses, loopUnchanged, NeverNew
<1>2. \A m \in Nodes : Requests(wire'[m]) \subseteq Requests(wire[m])
                       /\ Requests(inbox'[m]) \subseteq Requests(inbox[m]) \cup Requests(wire[m])
  <2>1. CASE LoopReads(n)
    <3>1. PICK k \in 1..Batch : /\ k <= Len(wire[n]) /\ inbox' = [inbox EXCEPT ![n] = SubSeq(wire[n], 1, k)]
                                /\ wire' = [wire EXCEPT ![n] = SubSeq(wire[n], k + 1, Len(wire[n]))]
      BY <1>0, <2>1 DEF LoopReads
    <3>2. /\ k \in 0..Len(wire[n]) /\ k + 1 \in Nat /\ Len(wire[n]) \in 0..Len(wire[n]) /\ 1 \in Nat /\ k + 1 > 0
      BY <1>0, <3>1, OperationsAssumption
    <3>3. Requests(SubSeq(wire[n], 1, k)) \subseteq Requests(wire[n])
      BY <1>0, <3>2, RequestsOf
    <3>4. Requests(SubSeq(wire[n], k + 1, Len(wire[n]))) \subseteq Requests(wire[n])
      BY <1>0, <3>2, RequestsOf
    <3> QED BY <1>0, <3>1, <3>3, <3>4
  <2>2. CASE LoopReadsHalf(n)
    <3> DEFINE e == [wire[n][1] EXCEPT !.half = TRUE]
    <3>1. /\ wire[n] # <<>> /\ Head(wire[n]) = wire[n][1] /\ wire[n][1] \in Frames /\ wire[n][1].k = "chunk"
          /\ wire' = [wire EXCEPT ![n] = [wire[n] EXCEPT ![1] = e]] /\ UNCHANGED inbox
      BY <1>0, <2>2, HeadIs DEF LoopReadsHalf
    <3>2. e \in Frames /\ e.k # "request"
      BY <3>1 DEF Frames
    <3> HIDE DEF e
    <3>3. Requests([wire[n] EXCEPT ![1] = e]) \subseteq Requests(wire[n])
      BY <1>0, <3>1, <3>2, RequestsOf
    <3> QED BY <1>0, <3>1, <3>3
  <2>3. CASE LoopCloses(n)
    <3>1. wire' = [wire EXCEPT ![n] = <<>>] /\ inbox' = [inbox EXCEPT ![n] = <<>>]
      BY <2>3 DEF LoopCloses, Close, Ended
    <3> QED BY <1>0, <3>1, RequestsOf
  <2> QED BY <2>1, <2>2, <2>3
<1>3. \A m \in Nodes : Deaf(m)'
  <2>1. CASE LoopReads(n) \/ LoopReadsHalf(n)
    <3>1. /\ sock[n] = "open" /\ UNCHANGED sock
          /\ \A m \in Nodes \ {n} : wire'[m] = wire[m] /\ inbox'[m] = inbox[m]
      BY <1>0, <2>1 DEF LoopReads, LoopReadsHalf
    <3> QED BY <1>1, <3>1 DEF Sources, Deaf
  <2>2. CASE LoopCloses(n)
    <3>1. /\ wire' = [wire EXCEPT ![n] = <<>>] /\ inbox' = [inbox EXCEPT ![n] = <<>>] /\ sock' = [sock EXCEPT ![n] = "closed"]
      BY <2>2 DEF LoopCloses, Close, Ended
    <3> QED BY <1>0, <1>1, <3>1 DEF Sources, Deaf
  <2> QED BY <2>1, <2>2
<1>4. Tasked(n)'
  BY <1>1 DEF Sources, Tasked
<1> QED BY <1>1, <1>2, <1>3, <1>4, SameSources

\* An answer of the loop: a frame more for the peer, or the link is to close.
LEMMA AckedIs ==
  ASSUME Shape, NEW n \in Nodes, NEW frame \in Frames, frame.k # "request", Acked(n, frame)
  PROVE  /\ busy[n] => UNCHANGED wire
         /\ ~busy[n] => Sent(n, frame)
         /\ \A m \in Nodes : Requests(wire'[m]) \subseteq Requests(wire[m])
         /\ \A m \in Nodes : wire[m] = <<>> /\ sock[m] # "open" => wire'[m] = <<>>
<1>1. CASE busy[n]
  BY <1>1 DEF Acked
<1>2. CASE ~busy[n]
  <2>1. Sent(n, frame)
    BY <1>2 DEF Acked
  <2> QED BY <1>2, <2>1, SentIs
<1> QED BY <1>1, <1>2

\* What the loop answers a chunk or a FileMeta.
LEMMA AnswerIs ==
  ASSUME Shape, NEW n \in Nodes, NEW h \in Frames, OnMeta(n, h) \/ OnChunk(n, h)
  PROVE  \E e \in Frames : e.k # "request" /\ Acked(n, e)
<1>1. F("nack", None, 0) \in Frames /\ F("nack", None, 0).k # "request" /\ F("ack", None, 0) \in Frames /\ F("ack", None, 0).k # "request"
  BY DEF F, Frames
<1>2. CASE OnMeta(n, h)
  <2>1. Acked(n, F("nack", None, 0)) \/ Acked(n, F("ack", None, 0))
    BY <1>2 DEF OnMeta
  <2> QED BY <1>1, <2>1
<1>3. CASE OnChunk(n, h)
  <2>1. recv[n].i + 1 \in Nat
    BY DEF Shape, Recvs
  <2>2. F("ack", None, recv[n].i + 1) \in Frames /\ F("ack", None, recv[n].i + 1).k # "request"
    BY <2>1 DEF F, Frames
  <2>3. Acked(n, F("nack", None, 0)) \/ Acked(n, F("ack", None, recv[n].i + 1))
    BY <1>3 DEF OnChunk
  <2> QED BY <1>1, <2>2, <2>3
<1> QED BY <1>2, <1>3

LEMMA DispatchSources ==
  ASSUME OwnInv, Sources, NEW n \in Nodes, LoopDispatches(n)
  PROVE  NeverNew /\ Sources'
<1> DEFINE h == Head(inbox[n])
<1>0. /\ inbox \in [Nodes -> Seq(Frames)] /\ inbox[n] \in Seq(Frames) /\ inbox[n] # <<>> /\ UNCHANGED <<sock, client>>
      /\ inbox' = [inbox EXCEPT ![n] = Tail(inbox[n])] /\ Shape /\ work \in [Nodes -> Works]
      /\ OnRequest(n, h) \/ OnMeta(n, h) \/ OnChunk(n, h) \/ OnAck(n, h)
  BY DEF LoopDispatches, Rest, OwnInv, Shape
<1>1. h \in Frames /\ NeverNew /\ sock[n] = "open" /\ (h.k = "request" => h.f \in Requests(inbox[n]))
  BY <1>0, HeadIs, RequestsOf DEF NeverNew, Sources, Deaf
<1>2. Requests(Tail(inbox[n])) \subseteq Requests(inbox[n])
  BY <1>0, RequestsOf
<1> HIDE DEF h
<1>3. \A m \in Nodes : Requests(inbox'[m]) \subseteq Requests(inbox[m])
  BY <1>0, <1>2
<1>4. /\ \A m \in Nodes : Requests(wire'[m]) \subseteq Requests(wire[m])
      /\ \A m \in Nodes : wire[m] = <<>> /\ sock[m] # "open" => wire'[m] = <<>>
  <2>1. CASE OnRequest(n, h) \/ OnAck(n, h)
    BY <2>1 DEF OnRequest, OnAck
  <2>2. CASE OnMeta(n, h) \/ OnChunk(n, h)
    BY <1>0, <1>1, <2>2, AnswerIs, AckedIs
  <2> QED BY <1>0, <2>1, <2>2
<1>5. CASE UNCHANGED work
  <2>1. Tasked(n)' /\ \A m \in Nodes : Deaf(m)'
    BY <1>0, <1>1, <1>4, <1>5 DEF Sources, Tasked, Deaf
  <2> QED BY <1>0, <1>1, <1>3, <1>4, <1>5, <2>1, SameSources
<1>6. CASE h.k = "request" /\ Lent(n, h.f)
  <2>1. h.f \in Ops /\ Home[h.f] # n /\ client'[h.f] # "new"
    BY <1>0, <1>1, <1>6, PeerIs DEF Sources, Requested
  <2>2. work'[n] = [NoWork EXCEPT !.op = h.f, !.phase = "queued"] /\ \A m \in Nodes \ {n} : work'[m] = work[m]
    BY <1>0, <1>6 DEF Lent
  <2>3. work'[n].op = h.f /\ work'[n].phase = "queued" /\ ~work'[n].cancelled
    BY <2>2 DEF NoWork
  <2>4. Tasked(n)'
    BY <2>1, <2>3 DEF Tasked
  <2>5. \A m \in Nodes : Deaf(m)'
    BY <1>0, <1>1, <1>4, <2>2, <2>3 DEF Sources, Deaf
  <2> QED BY <1>0, <1>1, <1>3, <1>4, <2>2, <2>4, <2>5, SameSources
<1> QED BY <1>0, <1>5, <1>6 DEF OnRequest, OnMeta, OnChunk, OnAck

LEMMA SourcesKept ==
  ASSUME OwnInv, Sources, Behaves
  PROVE  NeverNew /\ Sources'
<1>1. ASSUME NEW n \in Nodes, WorkerOf(n) PROVE NeverNew /\ Sources'
  BY <1>1, TakesSources, WritesSources, ReadsSources, StopsSources, ReleasesSources DEF WorkerOf, Worker
<1>2. ASSUME NEW n \in Nodes, EventLoop(n) \/ LoopReadsHalf(n) PROVE NeverNew /\ Sources'
  BY <1>2, LoopReadsSources, DispatchSources DEF EventLoop
<1>3. ASSUME Command PROVE NeverNew /\ Sources'
  BY <1>3, AskSources DEF Command
<1> QED BY <1>1, <1>2, <1>3, KilledSources DEF Behaves

-----------------------------------------------------------------------------
(* The shapes of what is on its way.                                       *)

\* The first frame of a queue goes.
LEMMA ShapeTail ==
  ASSUME NEW q \in Seq(Frames), q # <<>>
  PROVE  /\ Tail(q) \in Seq(Frames) /\ Head(q) \in Frames /\ Head(q) = q[1]
         /\ Acks(q) => Head(q).k = "ack" /\ Acks(Tail(q))
         /\ \A k, o : k # "ack" /\ AcksThen(q, k, o) =>
              \/ Head(q).k = "ack" /\ AcksThen(Tail(q), k, o)
              \/ Head(q).k = k /\ Head(q).f = o /\ Tail(q) = <<>>
         /\ \A o : \A c \in Nat, j \in Nat : ChunksOf(q, o, c, j) =>
              Head(q).k = "chunk" /\ Head(q).f = o /\ Head(q).i = c /\ c < j /\ ChunksOf(Tail(q), o, c + 1, j)
         /\ \A o : \A j \in Nat : MetaThen(q, o, j) => Head(q).k = "meta" /\ Head(q).f = o /\ ChunksOf(Tail(q), o, 0, j)
         /\ \A k : One(q, k) => Head(q).k = k /\ Tail(q) = <<>>
         /\ Len(q) = 1 => Tail(q) = <<>>
<1> DEFINE t == Tail(q)
           n == Len(q)
<1>1. /\ Head(q) = q[1] /\ Head(q) \in Frames /\ t \in Seq(Frames) /\ n \in Nat /\ n > 0 /\ Len(t) = n - 1
      /\ \A i \in 1..Len(t) : t[i] = q[i + 1]
  BY HeadTailProperties, HeadIs
<1> HIDE DEF t
<1>2. n = 1 => t = <<>>
  BY <1>1
<1>3. Acks(q) => Head(q).k = "ack" /\ Acks(t)
  BY <1>1 DEF Acks
<1>4. ASSUME NEW k, NEW o, k # "ack", AcksThen(q, k, o)
      PROVE  \/ Head(q).k = "ack" /\ AcksThen(t, k, o)
             \/ Head(q).k = k /\ Head(q).f = o /\ t = <<>>
  <2>1. q[n].k = k /\ q[n].f = o /\ \A i \in 1..n : i # n => q[i].k = "ack"
    BY <1>4 DEF AcksThen
  <2>2. CASE n = 1
    BY <1>1, <1>2, <2>1, <2>2
  <2>3. CASE n # 1
    <3>1. Head(q).k = "ack"
      BY <1>1, <2>1, <2>3
    <3>2. Len(t) = n - 1 /\ Len(t) \in 1..Len(t) /\ t[Len(t)] = q[n] /\ t # <<>>
      BY <1>1, <2>3
    <3>3. \A i \in 1..Len(t) : i # Len(t) => t[i].k = "ack"
      BY <1>1, <2>1, <2>3
    <3>4. AcksThen(t, k, o)
      BY <2>1, <3>2, <3>3 DEF AcksThen
    <3> QED BY <3>1, <3>4
  <2> QED BY <2>2, <2>3
<1>5. ASSUME NEW o, NEW c \in Nat, NEW j \in Nat, ChunksOf(q, o, c, j)
      PROVE  Head(q).k = "chunk" /\ Head(q).f = o /\ Head(q).i = c /\ c < j /\ ChunksOf(t, o, c + 1, j)
  <2>1. n = j - c /\ \A i \in 1..n : q[i].k = "chunk" /\ q[i].f = o /\ q[i].i = c + i - 1
    BY <1>5 DEF ChunksOf
  <2>2. Len(t) = j - (c + 1) /\ c < j
    BY <1>1, <2>1
  <2>3. ASSUME NEW i \in 1..Len(t) PROVE t[i].k = "chunk" /\ t[i].f = o /\ t[i].i = c + 1 + i - 1
    <3>1. i + 1 \in 1..n /\ t[i] = q[i + 1]
      BY <1>1
    <3> QED BY <2>1, <3>1
  <2>4. Head(q).k = "chunk" /\ Head(q).f = o /\ Head(q).i = c
    BY <1>1, <2>1
  <2> QED BY <2>2, <2>3, <2>4 DEF ChunksOf
<1>6. ASSUME NEW o, NEW j \in Nat, MetaThen(q, o, j)
      PROVE  Head(q).k = "meta" /\ Head(q).f = o /\ ChunksOf(t, o, 0, j)
  <2>1. /\ n = j + 1 /\ q[1].k = "meta" /\ q[1].f = o
        /\ \A i \in 2..n : q[i].k = "chunk" /\ q[i].f = o /\ q[i].i = i - 2
    BY <1>6 DEF MetaThen
  <2>2. Len(t) = j - 0
    BY <1>1, <2>1
  <2>3. ASSUME NEW i \in 1..Len(t) PROVE t[i].k = "chunk" /\ t[i].f = o /\ t[i].i = 0 + i - 1
    <3>1. i + 1 \in 2..n /\ t[i] = q[i + 1]
      BY <1>1
    <3> QED BY <2>1, <3>1
  <2> QED BY <1>1, <2>1, <2>2, <2>3 DEF ChunksOf
<1>7. \A k : One(q, k) => Head(q).k = k /\ t = <<>>
  BY <1>1, <1>2 DEF One
<1> QED BY <1>1, <1>2, <1>3, <1>4, <1>5, <1>6, <1>7 DEF t

\* A frame more.
LEMMA ShapeAppend ==
  ASSUME NEW q \in Seq(Frames), NEW e \in Frames
  PROVE  /\ Append(q, e) \in Seq(Frames) /\ Append(q, e) # <<>>
         /\ Acks(q) /\ e.k = "ack" => Acks(Append(q, e))
         /\ Acks(q) => AcksThen(Append(q, e), e.k, e.f)
         /\ \A c \in Nat, j \in Nat : ChunksOf(q, e.f, c, j) /\ e.k = "chunk" /\ e.i = j => ChunksOf(Append(q, e), e.f, c, j + 1)
         /\ \A j \in Nat : MetaThen(q, e.f, j) /\ e.k = "chunk" /\ e.i = j => MetaThen(Append(q, e), e.f, j + 1)
         /\ q = <<>> => One(Append(q, e), e.k) /\ Append(q, e)[1] = e
         /\ q = <<>> /\ e.k = "meta" => MetaThen(Append(q, e), e.f, 0)
<1> DEFINE a == Append(q, e)
           n == Len(q)
<1>1. /\ a \in Seq(Frames) /\ n \in Nat /\ Len(a) = n + 1 /\ a[n + 1] = e /\ \A i \in 1..n : a[i] = q[i]
  BY AppendProperties
<1>2. a # <<>>
  BY <1>1
<1> HIDE DEF a
<1>3. Acks(q) /\ e.k = "ack" => Acks(a)
  BY <1>1 DEF Acks
<1>4. Acks(q) => AcksThen(a, e.k, e.f)
  BY <1>1, <1>2 DEF Acks, AcksThen
<1>5. ASSUME NEW c \in Nat, NEW j \in Nat, ChunksOf(q, e.f, c, j), e.k = "chunk", e.i = j
      PROVE  ChunksOf(a, e.f, c, j + 1)
  <2>1. n = j - c /\ \A i \in 1..n : q[i].k = "chunk" /\ q[i].f = e.f /\ q[i].i = c + i - 1
    BY <1>5 DEF ChunksOf
  <2>2. Len(a) = j + 1 - c
    BY <1>1, <2>1
  <2>3. ASSUME NEW i \in 1..Len(a) PROVE a[i].k = "chunk" /\ a[i].f = e.f /\ a[i].i = c + i - 1
    <3>1. CASE i \in 1..n
      BY <1>1, <2>1, <3>1
    <3>2. CASE i = n + 1
      <4>1. a[i] = e /\ c + i - 1 = j
        BY <1>1, <2>1, <3>2
      <4> QED BY <1>5, <4>1
    <3> QED BY <1>1, <3>1, <3>2
  <2> QED BY <2>2, <2>3 DEF ChunksOf
<1>6. ASSUME NEW j \in Nat, MetaThen(q, e.f, j), e.k = "chunk", e.i = j
      PROVE  MetaThen(a, e.f, j + 1)
  <2>1. /\ n = j + 1 /\ q[1].k = "meta" /\ q[1].f = e.f
        /\ \A i \in 2..n : q[i].k = "chunk" /\ q[i].f = e.f /\ q[i].i = i - 2
    BY <1>6 DEF MetaThen
  <2>2. Len(a) = j + 1 + 1 /\ a[1] = q[1]
    BY <1>1, <2>1
  <2>3. ASSUME NEW i \in 2..Len(a) PROVE a[i].k = "chunk" /\ a[i].f = e.f /\ a[i].i = i - 2
    <3>1. CASE i \in 2..n
      BY <1>1, <2>1, <3>1
    <3>2. CASE i = n + 1
      <4>1. a[i] = e /\ i - 2 = j
        BY <1>1, <2>1, <3>2
      <4> QED BY <1>6, <4>1
    <3> QED BY <1>1, <3>1, <3>2
  <2> QED BY <2>1, <2>2, <2>3 DEF MetaThen
<1>7. q = <<>> => One(a, e.k) /\ a[1] = e
  BY <1>1 DEF One
<1>8. q = <<>> /\ e.k = "meta" => MetaThen(a, e.f, 0)
  BY <1>1 DEF MetaThen
<1> QED BY <1>1, <1>2, <1>3, <1>4, <1>5, <1>6, <1>7, <1>8 DEF a

LEMMA ShapeEmpty ==
  /\ Acks(<<>>)
  /\ \A o : \A c \in Nat : ChunksOf(<<>>, o, c, c)
  /\ \A q \in Seq(Frames) : \A o : \A c \in Nat : ChunksOf(q, o, c, c) => q = <<>>
  /\ \A o : \A c \in Nat, j \in Nat : ChunksOf(<<>>, o, c, j) => c = j
  /\ \A k, o : ~AcksThen(<<>>, k, o) /\ \A j \in Nat : ~MetaThen(<<>>, o, j)
<1>1. Len(<<>>) = 0
  OBVIOUS
<1>2. \A q \in Seq(Frames) : Len(q) = 0 => q = <<>>
  OBVIOUS
<1>3. Acks(<<>>)
  BY <1>1 DEF Acks
<1>4. \A o : \A c \in Nat : ChunksOf(<<>>, o, c, c)
  BY <1>1 DEF ChunksOf
<1>5. \A q \in Seq(Frames) : \A o : \A c \in Nat : ChunksOf(q, o, c, c) => q = <<>>
  BY <1>2 DEF ChunksOf
<1>6. \A o : \A c \in Nat, j \in Nat : ChunksOf(<<>>, o, c, j) => c = j
  BY <1>1 DEF ChunksOf
<1>7. \A k, o : ~AcksThen(<<>>, k, o) /\ \A j \in Nat : ~MetaThen(<<>>, o, j)
  BY <1>1 DEF AcksThen, MetaThen
<1> QED BY <1>3, <1>4, <1>5, <1>6, <1>7

\* The same frames, though half of one may have been read.
Alike(q, s) == Len(q) = Len(s) /\ \A i \in 1..Len(q) : q[i].k = s[i].k /\ q[i].f = s[i].f /\ q[i].i = s[i].i

LEMMA ShapeAlike ==
  ASSUME NEW q \in Seq(Frames), NEW s \in Seq(Frames), Alike(q, s)
  PROVE  /\ Acks(q) => Acks(s)
         /\ \A k, o : AcksThen(q, k, o) => AcksThen(s, k, o)
         /\ \A o, c, j : ChunksOf(q, o, c, j) => ChunksOf(s, o, c, j)
         /\ q = <<>> => s = <<>>
<1>1. Len(q) \in Nat /\ Len(s) = Len(q) /\ (q = <<>> <=> Len(q) = 0) /\ (s = <<>> <=> Len(s) = 0)
  BY DEF Alike
<1>2. q # <<>> => Len(q) \in 1..Len(q)
  BY <1>1
<1> QED BY <1>1, <1>2 DEF Alike, Acks, AcksThen, ChunksOf

-----------------------------------------------------------------------------
(* A conversation, step by step.                                           *)

Talking(h) == OwnInv /\ Sources /\ Solo(h) /\ sock[h] = "open" /\ Talks(h)

LEMMA TalkingIs ==
  ASSUME NEW h \in Nodes, Talking(h)
  PROVE  LET p == Peer(h) IN
         /\ p \in Nodes /\ p # h /\ Peer(p) = h
         /\ wire[h] \in Seq(Frames) /\ wire[p] \in Seq(Frames) /\ inbox[p] \in Seq(Frames) /\ inbox[h] = <<>>
         /\ work[h] \in Works /\ work[p] \in Works /\ recv[p] \in Recvs /\ Asked(h) \in Seq(Frames)
         /\ work[h].phase # "none" => work[h].op \in Ops /\ Home[work[h].op] = h /\ Kind[work[h].op] # "async"
         /\ work[h].phase \in {"none", "queued", "meta", "greet", "chunks", "final", "ask", "await", "fetch", "done"}
         /\ work[p].phase # "none" => work[p].op \in Ops /\ Home[work[p].op] = h
         /\ work[p].phase \in {"none", "queued", "serve", "supply", "drain", "done"}
         /\ ~work[h].cancelled /\ (Alive(h) => ~work[p].cancelled)
         /\ \A o \in Ops : Total[o] \in Nat /\ Total[o] > 0
<1> DEFINE p == Peer(h)
<1>1. p \in Nodes /\ p # h /\ Peer(p) = h
  BY PeerIs, PeerOfPeer
<1> HIDE DEF p
<1>2. /\ wire[h] \in Seq(Frames) /\ wire[p] \in Seq(Frames) /\ inbox[p] \in Seq(Frames)
      /\ work[h] \in Works /\ work[p] \in Works /\ recv[p] \in Recvs
  BY <1>1 DEF Talking, OwnInv, Shape
<1>3. inbox[h] = <<>>
  BY DEF Talking, Talks
<1>4. Asked(h) \in Seq(Frames)
  BY <1>2, ConcatProperties DEF Asked, p
<1>5. Tasked(h) /\ Tasked(p) /\ Deaf(h) /\ Deaf(p)
  BY <1>1 DEF Talking, Sources
<1>6. \A n \in {h, p} : work[n].phase # "none" => work[n].op \in Ops /\ Home[work[n].op] = h /\ Kind[work[n].op] # "async"
  BY <1>1, <1>5 DEF Talking, Solo, Tasked
<1>7. \A n \in {h, p} : work[n].phase \in Phases
  BY <1>2 DEF Works
<1>8. work[h].phase \in {"none", "queued", "meta", "greet", "chunks", "final", "ask", "await", "fetch", "done"}
  BY <1>5, <1>6, <1>7 DEF Tasked, Phases
<1>9. work[p].phase \in {"none", "queued", "serve", "supply", "drain", "done"}
  BY <1>1, <1>5, <1>6, <1>7 DEF Tasked, Phases
<1>10. ~work[h].cancelled /\ (Alive(h) => ~work[p].cancelled)
  BY <1>5 DEF Deaf, Talking, Alive, p
<1> QED BY <1>1, <1>2, <1>3, <1>4, <1>6, <1>8, <1>9, <1>10, TotalIs DEF p

\* What is quiet stays so, whatever h's worker is about to do.
LEMMA QuietTalks ==
  ASSUME NEW h \in Nodes, Talking(h), Quiet(h),
         work'[h].phase \in {"none", "queued", "meta", "ask", "done"},
         wire'[h] = wire[h], inbox'[h] = inbox[h], sock'[Peer(h)] = sock[Peer(h)], wire'[Peer(h)] = wire[Peer(h)],
         inbox'[Peer(h)] = inbox[Peer(h)], recv'[Peer(h)] = recv[Peer(h)], work'[Peer(h)] = work[Peer(h)]
  PROVE  Talks(h)'
<1>1. Quiet(h)'
  BY DEF Quiet, Alive, Asked, Free, Through
<1> QED BY <1>1 DEF Talks, Talking

\* When the peer's end is gone, what is on the way to h is all there is.
LEMMA DeadTalks ==
  ASSUME NEW h \in Nodes, Talking(h), sock'[Peer(h)] # "open",
         wire'[h] = wire[h], inbox'[h] = inbox[h], work'[h] = work[h], UNCHANGED published,
         work'[Peer(h)].phase # "none" => inbox'[Peer(h)] = <<>>
  PROVE  Talks(h)'
<1>1. ~Alive(h)'
  BY DEF Alive
<1>2. /\ Quiet(h) => Quiet(h)'
      /\ Greets(h) => Greets(h)'
      /\ Pushes(h) => Pushes(h)'
      /\ Awaits(h) => Awaits(h)'
      /\ Fetches(h) => Fetches(h)'
  BY <1>1 DEF Quiet, Greets, Pushes, Awaits, Fetches
<1>3. Finishes(h) => Finishes(h)'
  BY <1>1 DEF Finishes, Published
<1> QED BY <1>2, <1>3 DEF Talks, Talking

\* The peer's loop reads, its worker ends: nothing else.
LEMMA SameTalks ==
  ASSUME NEW h \in Nodes, Talking(h),
         wire'[h] = wire[h], inbox'[h] = inbox[h], work'[h] = work[h], sock'[Peer(h)] = sock[Peer(h)],
         recv'[Peer(h)] = recv[Peer(h)], UNCHANGED published,
         Asked(h)' \in Seq(Frames), Alike(Asked(h), Asked(h)'),
         \/ work'[Peer(h)] = work[Peer(h)]
         \/ Through(h) /\ Through(h)' /\ work[Peer(h)].phase # "none",
         work'[Peer(h)].phase # "none" => inbox'[Peer(h)] = <<>>
  PROVE  Talks(h)'
<1>0. Asked(h) \in Seq(Frames)
  BY TalkingIs
<1>1. /\ Acks(Asked(h)) => Acks(Asked(h)')
      /\ \A k, o : AcksThen(Asked(h), k, o) => AcksThen(Asked(h)', k, o)
      /\ \A o, c, j : ChunksOf(Asked(h), o, c, j) => ChunksOf(Asked(h)', o, c, j)
      /\ Asked(h) = <<>> => Asked(h)' = <<>>
  BY <1>0, ShapeAlike
<1> DEFINE A == Asked(h)
           B == Asked(h)'
<1>2. (Alive(h)' <=> Alive(h)) /\ (Free(h)' <=> Free(h)) /\ (\A o : Takes(h, o)' <=> Takes(h, o)) /\ (Through(h) => Through(h)')
  BY DEF Alive, Free, Takes, Through
<1>3. Quiet(h) => Quiet(h)'
  BY <1>1, <1>2 DEF Quiet
<1>4. Greets(h) => Greets(h)'
  BY <1>1, <1>2 DEF Greets
<1>5. Pushes(h) => Pushes(h)'
  BY <1>1, <1>2 DEF Pushes
<1>6. Finishes(h) => Finishes(h)'
  BY <1>1, <1>2 DEF Finishes, Published
<1>7. Awaits(h) => Awaits(h)'
  BY <1>1, <1>2 DEF Awaits, Supplies, Through
<1>8. Fetches(h) => Fetches(h)'
  BY <1>1, <1>2 DEF Fetches, Supplies, Through
<1> QED BY <1>3, <1>4, <1>5, <1>6, <1>7, <1>8 DEF Talks, Talking

\* The ends of a task, at either end.
LEMMA EndsTalk ==
  ASSUME NEW h \in Nodes, Talking(h), NEW n \in Nodes,
         WorkerServed(n) \/ WorkerReleases(n) \/ WorkerReleasesAgain(n)
  PROVE  Talks(h)'
<1> DEFINE p == Peer(h)
<1>0. p \in Nodes /\ p # h /\ (n = h \/ n = p) /\ work \in [Nodes -> Works] /\ Asked(h) \in Seq(Frames)
  BY TalkingIs, PeerIs DEF Talking, OwnInv, Shape
<1>1. UNCHANGED <<sock, wire, inbox, recv, published>>
  BY DEF WorkerServed, WorkerReleases, WorkerReleasesAgain, workerUnchanged
<1>2. Asked(h)' = Asked(h) /\ Alike(Asked(h), Asked(h)')
  BY <1>1 DEF Asked, Alike
<1>3. CASE WorkerReleasesAgain(n)
  <2>1. UNCHANGED work
    BY <1>3 DEF WorkerReleasesAgain
  <2>2. work[p].phase # "none" => inbox[p] = <<>>
    BY DEF Talking, Talks
  <2> QED BY <1>0, <1>1, <1>2, <2>1, <2>2, SameTalks
<1>4. CASE n = h /\ ~WorkerReleasesAgain(n)
  <2>1. work[h].phase = "done" /\ WorkerReleases(h)
    BY <1>4, TalkingIs DEF WorkerServed, WorkerReleases
  <2>2. work'[h] = NoWork /\ work'[p] = work[p]
    BY <1>0, <2>1 DEF WorkerReleases
  <2>3. Quiet(h)
    BY <2>1 DEF Talking, Talks, Greets, Pushes, Finishes, Awaits, Fetches
  <2>4. work'[h].phase = "none"
    BY <2>2 DEF NoWork
  <2> QED BY <1>1, <2>2, <2>3, <2>4, QuietTalks
<1>5. CASE n = p /\ ~WorkerReleasesAgain(n)
  <2>1. /\ work[p].phase \in {"drain", "done"} /\ work'[h] = work[h]
        /\ work'[p] = [work[p] EXCEPT !.phase = "done"] \/ work'[p] = NoWork
    BY <1>0, <1>5 DEF WorkerServed, WorkerReleases, Done
  <2>2. work'[p].phase \in {"none", "done"}
    BY <1>0, <2>1 DEF NoWork, Works
  <2>3. inbox[p] = <<>>
    BY <2>1 DEF Talking, Talks
  <2>4. Through(h) /\ Through(h)'
    BY <2>1, <2>2 DEF Through
  <2> QED BY <1>0, <1>1, <1>2, <2>1, <2>3, <2>4, SameTalks
<1> QED BY <1>0, <1>3, <1>4, <1>5

\* A worker that gives up, at either end.
LEMMA StopsTalk ==
  ASSUME NEW h \in Nodes, Talking(h), NEW n \in Nodes, WorkerStops(n)
  PROVE  Talks(h)'
<1> DEFINE p == Peer(h)
<1>0. /\ p \in Nodes /\ p # h /\ (n = h \/ n = p) /\ work \in [Nodes -> Works] /\ wire \in [Nodes -> Seq(Frames)]
      /\ wire[h] \in Seq(Frames) /\ ~work[h].cancelled /\ sock[h] = "open"
  BY TalkingIs, PeerIs DEF Talking, OwnInv, Shape
<1>1. UNCHANGED <<sock, inbox, recv, published>> /\ Done(n, "error")
  BY DEF WorkerStops, workerUnchanged
<1>2. work'[n].phase = "done" /\ \A m \in Nodes \ {n} : work'[m] = work[m]
  BY <1>1, DoneSays DEF Talking
<1>3. CASE n = h
  <2>1. work[h].phase \in {"greet", "final", "await", "fetch"} /\ ((Eof(h) /\ UNCHANGED wire) \/ Garbled(h))
    BY <1>0, <1>3 DEF WorkerStops
  <2>2. ~Garbled(h)
    <3> SUFFICES ASSUME Garbled(h) PROVE FALSE
      OBVIOUS
    <3>1. wire[h] # <<>> /\ (wire[h][1].half \/ wire[h][1].k = "garbage") /\ Head(wire[h]) = wire[h][1]
      BY <1>0, ShapeTail DEF Garbled, Readable
    <3>2. 1 \in 1..Len(wire[h])
      BY <1>0, <3>1
    <3>3. ~wire[h][1].half
      BY <3>2 DEF Talking, Talks
    <3>4. wire[h][1].k = "garbage"
      BY <3>1, <3>3
    <3>5. ~Quiet(h) /\ ~Greets(h) /\ ~Pushes(h) /\ ~Finishes(h)
      BY <2>1, <3>1, <3>2, <3>4 DEF Quiet, Greets, Pushes, Finishes, One
    <3>6. ~Awaits(h)
      BY <3>1, <3>4 DEF Awaits, One, MetaThen
    <3>7. ~Fetches(h)
      BY <3>2, <3>4 DEF Fetches, ChunksOf
    <3> QED BY <3>5, <3>6, <3>7 DEF Talking, Talks
  <2>3. wire[h] = <<>> /\ wire'[h] = wire[h] /\ sock'[p] # "open"
    BY <1>1, <2>1, <2>2 DEF Eof
  <2>4. Quiet(h)'
    BY <1>2, <1>3, <2>3 DEF Quiet, Alive
  <2>5. work'[p].phase # "none" => inbox'[p] = <<>>
    BY <1>0, <1>1, <1>2, <1>3 DEF Talking, Talks
  <2> QED BY <1>0, <1>1, <2>3, <2>4, <2>5 DEF Talking, Talks
<1>4. CASE n = p
  <2>1. Running(p) /\ (sock[p] # "open" \/ work[p].cancelled) /\ UNCHANGED wire
    BY <1>4, TalkingIs DEF WorkerStops
  <2>2. sock[p] # "open"
    BY <2>1, TalkingIs DEF Alive
  <2>3. inbox[p] = <<>>
    BY <2>1 DEF Running, Talking, Talks
  <2> QED BY <1>0, <1>1, <1>2, <1>4, <2>1, <2>2, <2>3, DeadTalks
<1> QED BY <1>0, <1>3, <1>4

\* A task that a worker takes or skips, at either end.
LEMMA TakesTalk ==
  ASSUME NEW h \in Nodes, Talking(h), NEW n \in Nodes, WorkerTakes(n)
  PROVE  Talks(h)'
<1> DEFINE p == Peer(h)
<1>a. p \in Nodes /\ p # h /\ (n = h \/ n = p) /\ work \in [Nodes -> Works] /\ work[n].phase = "queued"
  BY PeerIs DEF Talking, OwnInv, Shape, WorkerTakes
<1>0. work[n] \in Works /\ ~work[h].cancelled /\ work[n].op \in Ops /\ Home[work[n].op] = h
  BY <1>a, TalkingIs
<1>1. UNCHANGED <<sock, wire, inbox, recv, published>>
  BY DEF WorkerTakes, workerUnchanged
<1>2. CASE n = h
  <2>1. work' = [work EXCEPT ![h].phase = FirstPhase(h, work[h].op)]
    BY <1>a, <1>0, <1>2 DEF WorkerTakes
  <2>2. work'[h] = [work[h] EXCEPT !.phase = FirstPhase(h, work[h].op)] /\ work'[p] = work[p]
    BY <1>a, <1>0, <2>1
  <2>3. FirstPhase(h, work[h].op) \in {"meta", "ask"}
    BY <1>a, <1>0, <1>2 DEF FirstPhase
  <2>4. work'[h].phase \in {"meta", "ask"}
    BY <1>a, <1>0, <1>2, <2>2, <2>3 DEF Works
  <2>5. Quiet(h)
    BY <1>a, <1>0, <1>2 DEF Talking, Talks, Greets, Pushes, Finishes, Awaits, Fetches
  <2> QED BY <1>1, <2>2, <2>4, <2>5, QuietTalks
<1>3. CASE n = p
  <2>0. inbox[p] = <<>>
    BY <1>a, <1>0, <1>3 DEF Talking, Talks
  <2>1. work'[h] = work[h]
    BY <1>a, <1>0, <1>3 DEF WorkerTakes
  <2>2. CASE ~Alive(h)
    BY <1>1, <2>0, <2>1, <2>2, DeadTalks DEF Alive
  <2>3. CASE Alive(h)
    <3>1. ~work[p].cancelled
      BY <2>3, TalkingIs
    <3>2. work' = [work EXCEPT ![p].phase = FirstPhase(p, work[p].op)]
      BY <1>3, <3>1 DEF WorkerTakes
    <3>3. work'[p] = [work[p] EXCEPT !.phase = FirstPhase(p, work[p].op)]
      BY <1>a, <1>0, <1>3, <3>2
    <3>4. FirstPhase(p, work[p].op) = "serve"
      BY <1>a, <1>0, <1>3 DEF FirstPhase
    <3>5. work'[p].phase = "serve" /\ work'[p].op = work[p].op
      BY <1>a, <1>0, <1>3, <3>3, <3>4 DEF Works
    <3>6. /\ work[h].phase = "await" /\ work[h].i = 0 /\ Free(h)
          /\ wire[h] = <<>> /\ Asked(h) = <<>> /\ work[p].op = work[h].op
      BY <1>a, <1>0, <1>3, <2>3 DEF Talking, Talks, Quiet, Greets, Pushes, Finishes, Awaits, Fetches, Through, Supplies
    <3>7. Awaits(h)'
      BY <1>1, <2>1, <3>5, <3>6 DEF Awaits, Free, Asked, Alive
    <3> QED BY <1>1, <2>0, <3>6, <3>7 DEF Talking, Talks
  <2> QED BY <2>2, <2>3
<1> QED BY <1>a, <1>2, <1>3

\* A socket is shut under a worker.
LEMMA KilledTalk ==
  ASSUME NEW h \in Nodes, Talking(h), sock'[h] = "open", NEW n \in Nodes, Cancel(n) \/ Watchdog(n)
  PROVE  Talks(h)'
<1> DEFINE p == Peer(h)
<1>0. /\ p \in Nodes /\ p # h /\ (n = h \/ n = p)
      /\ work \in [Nodes -> Works] /\ wire \in [Nodes -> Seq(Frames)] /\ sock \in [Nodes -> {"open", "shut", "closed"}]
  BY TalkingIs, PeerIs DEF Talking, OwnInv, Shape
<1>1. /\ work' = [work EXCEPT ![n].cancelled = TRUE] /\ sock' = [sock EXCEPT ![n] = "shut"] /\ wire' = [wire EXCEPT ![n] = <<>>]
      /\ UNCHANGED <<inbox, published>> /\ inbox[n] = <<>>
  BY DEF Cancel, Watchdog, Killed, Ended, Loop
<1>2. n = p
  BY <1>0, <1>1
<1>3. sock'[p] = "shut" /\ wire'[h] = wire[h] /\ work'[h] = work[h]
  BY <1>0, <1>1, <1>2
<1> QED BY <1>1, <1>2, <1>3, DeadTalks

\* A command of the client whose link it is.
LEMMA AskTalk ==
  ASSUME NEW h \in Nodes, Talking(h), Solo(h)', NEW o \in Ops, Ask(o) \/ AskAsync(o)
  PROVE  Talks(h)'
<1> DEFINE p == Peer(h)
<1>0. /\ p \in Nodes /\ p # h /\ work \in [Nodes -> Works] /\ Asked(h) \in Seq(Frames)
      /\ client \in [Ops -> {"new", "waiting", "requested", "ok", "error", "closed"}]
  BY TalkingIs, PeerIs DEF Talking, OwnInv, Shape
<1>1. client'[o] # "new"
  BY <1>0 DEF Ask, AskAsync, Told
<1>2. Home[o] = h /\ Ask(o)
  BY <1>1 DEF Solo, AskAsync, Waiting
<1>3. UNCHANGED <<sock, wire, inbox, recv, published>>
  BY <1>2 DEF Ask
<1>4. CASE UNCHANGED work
  <2>1. Asked(h)' = Asked(h) /\ Alike(Asked(h), Asked(h)')
    BY <1>3 DEF Asked, Alike
  <2>2. work[p].phase # "none" => inbox[p] = <<>>
    BY DEF Talking, Talks
  <2> QED BY <1>0, <1>3, <1>4, <2>1, <2>2, SameTalks
<1>5. CASE ~busy[h] /\ Lent(h, o)
  <2>1. work[h].phase = "none"
    BY <1>5 DEF Talking, OwnInv, Owned
  <2>2. work'[h] = [NoWork EXCEPT !.op = o, !.phase = "queued"] /\ work'[p] = work[p]
    BY <1>0, <1>5 DEF Lent
  <2>3. work'[h].phase = "queued"
    BY <2>2 DEF NoWork
  <2>4. Quiet(h)
    BY <2>1 DEF Talking, Talks, Greets, Pushes, Finishes, Awaits, Fetches
  <2> QED BY <1>3, <2>2, <2>3, <2>4, QuietTalks
<1> QED BY <1>2, <1>4, <1>5 DEF Ask

\* A daemon's loop has the link only when its own end is quiet.
LEMMA LoopQuiet ==
  ASSUME NEW h \in Nodes, Talking(h), ~busy[h]
  PROVE  work[h].phase = "none" /\ wire[h] = <<>>
<1>1. work[h].phase = "none"
  BY DEF Talking, OwnInv, Owned
<1> QED BY <1>1 DEF Talking, Talks, Quiet, Greets, Pushes, Finishes, Awaits, Fetches

LEMMA LoopReadsTalk ==
  ASSUME NEW h \in Nodes, Talking(h), sock'[h] = "open", NEW n \in Nodes, LoopReads(n) \/ LoopReadsHalf(n) \/ LoopCloses(n)
  PROVE  Talks(h)'
<1> DEFINE p == Peer(h)
<1>a. p \in Nodes /\ p # h /\ Peer(p) = h /\ (n = h \/ n = p) /\ Asked(h) \in Seq(Frames)
  BY TalkingIs, PeerIs
<1>0. /\ work \in [Nodes -> Works] /\ wire \in [Nodes -> Seq(Frames)] /\ sock \in [Nodes -> {"open", "shut", "closed"}]
      /\ inbox \in [Nodes -> Seq(Frames)] /\ wire[p] \in Seq(Frames) /\ <<>> \in Seq(Frames)
  BY <1>a DEF Talking, OwnInv, Shape
<1>1. UNCHANGED <<work, published>> /\ ~busy[n]
  BY DEF LoopReads, LoopReadsHalf, LoopCloses, loopUnchanged
<1>2. CASE n = h
  <2>1. wire[h] = <<>>
    BY <1>1, <1>2, LoopQuiet
  <2>2. ~LoopReads(h)
    <3>1. Len(wire[h]) = 0
      BY <2>1
    <3> QED BY <3>1, OperationsAssumption DEF LoopReads
  <2>3. ~LoopReadsHalf(h)
    BY <2>1 DEF LoopReadsHalf
  <2>4. ~LoopCloses(h)
    BY <1>a, <1>0, <1>1, <1>2 DEF LoopCloses, Close, Ended
  <2> QED BY <1>2, <2>2, <2>3, <2>4
<1>3. CASE n = p /\ LoopCloses(p)
  <2>1. sock' = [sock EXCEPT ![p] = "closed"] /\ wire' = [wire EXCEPT ![p] = <<>>] /\ inbox' = [inbox EXCEPT ![p] = <<>>]
    BY <1>1, <1>3 DEF LoopCloses, Close, Ended
  <2>2. sock'[p] # "open" /\ wire'[h] = wire[h] /\ inbox'[h] = inbox[h] /\ inbox'[p] = <<>>
    BY <1>a, <1>0, <2>1
  <2> QED BY <1>1, <2>2, DeadTalks
<1>4. CASE n = p /\ (LoopReads(p) \/ LoopReadsHalf(p))
  <2>1. inbox[p] = <<>> /\ UNCHANGED <<sock, recv>>
    BY <1>4 DEF LoopReads, LoopReadsHalf, Loop
  <2>2. work[p].phase = "none"
    BY <1>a, <1>0, <1>1, <1>4 DEF Talking, OwnInv, Owned
  <2>3. Asked(h) = wire[p] /\ Asked(h)' = inbox'[p] \o wire'[p]
    BY <1>a, <1>0, <2>1 DEF Asked
  <2>4. CASE LoopReads(p)
    <3>1. PICK k \in 1..Batch : /\ k <= Len(wire[p]) /\ inbox' = [inbox EXCEPT ![p] = SubSeq(wire[p], 1, k)]
                                /\ wire' = [wire EXCEPT ![p] = SubSeq(wire[p], k + 1, Len(wire[p]))]
      BY <1>a, <1>0, <2>4 DEF LoopReads
    <3>2. k \in 1..Len(wire[p]) /\ Len(wire[p]) \in Nat
      BY <1>a, <1>0, <3>1, OperationsAssumption
    <3>3. inbox'[p] \o wire'[p] = wire[p]
      BY <1>a, <1>0, <3>1, <3>2
    <3>4. Asked(h)' = Asked(h)
      BY <2>3, <3>3
    <3>5. Alike(Asked(h), Asked(h)')
      BY <3>4 DEF Alike
    <3>6. wire'[h] = wire[h] /\ inbox'[h] = inbox[h]
      BY <1>a, <1>0, <3>1
    <3> QED BY <1>a, <1>0, <1>1, <2>1, <2>2, <3>4, <3>5, <3>6, SameTalks
  <2>5. CASE LoopReadsHalf(p)
    <3> DEFINE e == [wire[p][1] EXCEPT !.half = TRUE]
    <3>1. /\ wire[p] # <<>> /\ wire[p][1] \in Frames /\ UNCHANGED inbox
          /\ wire' = [wire EXCEPT ![p] = [wire[p] EXCEPT ![1] = e]]
      BY <1>a, <1>0, <2>5, HeadIs DEF LoopReadsHalf
    <3>2. e \in Frames /\ e.k = wire[p][1].k /\ e.f = wire[p][1].f /\ e.i = wire[p][1].i
      BY <3>1 DEF Frames
    <3> HIDE DEF e
    <3>3. /\ [wire[p] EXCEPT ![1] = e] \in Seq(Frames) /\ Len([wire[p] EXCEPT ![1] = e]) = Len(wire[p])
          /\ \A i \in 1..Len(wire[p]) : [wire[p] EXCEPT ![1] = e][i] = IF i = 1 THEN e ELSE wire[p][i]
      BY <1>a, <1>0, <3>1, <3>2, ExceptSeq
    <3>4. wire'[p] = [wire[p] EXCEPT ![1] = e] /\ wire'[h] = wire[h] /\ inbox'[p] = <<>> /\ inbox'[h] = inbox[h]
      BY <1>a, <1>0, <2>1, <3>1
    <3>5. Asked(h)' = [wire[p] EXCEPT ![1] = e]
      BY <2>3, <3>3, <3>4
    <3>6. Alike(Asked(h), Asked(h)')
      BY <2>3, <3>2, <3>3, <3>5 DEF Alike
    <3> QED BY <1>a, <1>0, <1>1, <2>1, <2>2, <3>3, <3>4, <3>5, <3>6, SameTalks
  <2> QED BY <1>4, <2>4, <2>5
<1> QED BY <1>a, <1>2, <1>3, <1>4

LEMMA ConcatIs ==
  ASSUME NEW q \in Seq(Frames), NEW s \in Seq(Frames)
  PROVE  /\ q \o s \in Seq(Frames) /\ Len(q \o s) = Len(q) + Len(s) /\ Len(q) \in Nat /\ Len(s) \in Nat
         /\ \A i \in 1..Len(q) + Len(s) : (q \o s)[i] = IF i <= Len(q) THEN q[i] ELSE s[i - Len(q)]
  BY ConcatProperties

LEMMA ConcatAppend ==
  ASSUME NEW q \in Seq(Frames), NEW s \in Seq(Frames), NEW e \in Frames
  PROVE  q \o Append(s, e) = Append(q \o s, e)
<1> DEFINE a == Append(s, e)
           c == q \o s
           u == q \o a
           v == Append(c, e)
<1>1. a \in Seq(Frames) /\ Len(a) = Len(s) + 1 /\ a[Len(s) + 1] = e /\ \A i \in 1..Len(s) : a[i] = s[i]
  BY AppendProperties
<1>2. c \in Seq(Frames) /\ Len(c) = Len(q) + Len(s) /\ \A i \in 1..Len(c) : c[i] = IF i <= Len(q) THEN q[i] ELSE s[i - Len(q)]
  <2>1. Len(c) = Len(q) + Len(s)
    BY ConcatIs
  <2> QED BY <2>1, ConcatIs
<1> HIDE DEF a, c
<1>3. u \in Seq(Frames) /\ Len(u) = Len(q) + Len(a) /\ \A i \in 1..Len(u) : u[i] = IF i <= Len(q) THEN q[i] ELSE a[i - Len(q)]
  <2>1. a \in Seq(Frames)
    BY <1>1
  <2>2. Len(u) = Len(q) + Len(a)
    BY <2>1, ConcatIs
  <2> QED BY <2>1, <2>2, ConcatIs
<1>4. v \in Seq(Frames) /\ Len(v) = Len(c) + 1 /\ v[Len(c) + 1] = e /\ \A i \in 1..Len(c) : v[i] = c[i]
  <2>1. c \in Seq(Frames)
    BY <1>2
  <2> QED BY <2>1, AppendProperties
<1> HIDE DEF u, v
<1>5. Len(q) \in Nat /\ Len(s) \in Nat /\ Len(u) = Len(v)
  BY <1>1, <1>2, <1>3, <1>4
<1>6. ASSUME NEW i \in 1..Len(u) PROVE u[i] = v[i]
  <2>0. i \in Nat /\ i >= 1 /\ i <= Len(q) + Len(s) + 1
    BY <1>1, <1>3, <1>5
  <2>1. CASE i <= Len(q)
    <3>1. i \in 1..Len(c)
      BY <1>2, <1>5, <2>0, <2>1
    <3>2. v[i] = q[i]
      BY <1>2, <1>4, <2>1, <3>1
    <3> QED BY <1>3, <2>1, <3>2
  <2>2. CASE i > Len(q) /\ i <= Len(q) + Len(s)
    <3>1. i \in 1..Len(c) /\ i - Len(q) \in 1..Len(s) /\ ~(i <= Len(q))
      BY <1>2, <1>5, <2>0, <2>2
    <3>2. v[i] = s[i - Len(q)]
      BY <1>2, <1>4, <3>1
    <3>3. u[i] = a[i - Len(q)]
      BY <1>3, <3>1
    <3> QED BY <1>1, <3>1, <3>2, <3>3
  <2>3. CASE i = Len(q) + Len(s) + 1
    <3>1. i - Len(q) = Len(s) + 1 /\ i = Len(c) + 1
      BY <1>2, <1>5, <2>3
    <3> QED BY <1>1, <1>3, <1>4, <1>5, <2>3, <3>1
  <2> QED BY <1>5, <2>0, <2>1, <2>2, <2>3
<1>7. u = v
  BY <1>3, <1>4, <1>5, <1>6, SeqEqual
<1> QED BY <1>7 DEF a, c, u, v

\* What h writes, if there is anybody to read it.
LEMMA AskedMore ==
  ASSUME NEW h \in Nodes, Talking(h), NEW e \in Frames, Sent(h, e), UNCHANGED <<sock, inbox>>
  PROVE  wire'[h] = wire[h] /\ (Alive(h) => Asked(h)' = Append(Asked(h), e))
<1> DEFINE p == Peer(h)
<1>1. p \in Nodes /\ p # h /\ wire[p] \in Seq(Frames) /\ inbox[p] \in Seq(Frames)
  BY TalkingIs
<1>2. Shape
  BY DEF Talking, OwnInv
<1>3. wire'[h] = wire[h] /\ wire'[p] = IF sock[p] = "open" THEN Append(wire[p], e) ELSE wire[p]
  BY <1>1, <1>2, SentIs
<1>4. inbox[p] \o Append(wire[p], e) = Append(inbox[p] \o wire[p], e)
  BY <1>1, ConcatAppend
<1> QED BY <1>3, <1>4 DEF Asked, Alive

\* What the peer writes, h will read.
LEMMA HeardMore ==
  ASSUME NEW h \in Nodes, Talking(h), NEW e \in Frames, Sent(Peer(h), e)
  PROVE  wire'[h] = Append(wire[h], e) /\ wire'[Peer(h)] = wire[Peer(h)]
<1> DEFINE p == Peer(h)
<1>1. p \in Nodes /\ p # h /\ Peer(p) = h
  BY TalkingIs
<1>2. Shape /\ sock[h] = "open"
  BY DEF Talking, OwnInv
<1> QED BY <1>1, <1>2, SentIs

LEMMA HomeWritesTalk ==
  ASSUME NEW h \in Nodes, Talking(h), WorkerWrites(h)
  PROVE  Talks(h)'
<1> DEFINE p == Peer(h)
           w == work[h]
           o == w.op
<1>0. /\ p \in Nodes /\ p # h /\ w \in Works /\ recv[p] \in Recvs /\ inbox[h] = <<>> /\ Asked(h) \in Seq(Frames)
      /\ w.phase \in {"none", "queued", "meta", "greet", "chunks", "final", "ask", "await", "fetch", "done"}
      /\ (w.phase # "none" => o \in Ops) /\ \A x \in Ops : Total[x] \in Nat /\ Total[x] > 0
  BY TalkingIs
<1>1. UNCHANGED <<sock, inbox, recv, published>>
  BY DEF WorkerWrites, workerUnchanged
<1>2. /\ Talks(h) /\ OwnInv
      /\ (\A i \in 1..Len(wire[h]) : ~wire[h][i].half) /\ (work[p].phase # "none" => inbox[p] = <<>>)
  BY DEF Talking, Talks
<1>3. ASSUME NEW e \in Frames, Sent(h, e), NEW ph, NEW i, Goes(h, ph, i),
             (Greets(h) \/ Awaits(h) \/ Pushes(h) \/ Finishes(h))'
      PROVE  Talks(h)'
  <2>1. wire'[h] = wire[h] /\ work'[p] = work[p]
    BY <1>0, <1>1, <1>2, <1>3, AskedMore, GoesSays
  <2> QED BY <1>0, <1>1, <1>2, <1>3, <2>1 DEF Talks
<1>4. CASE w.phase = "meta" /\ Sent(h, F("meta", o, 0)) /\ Goes(h, "greet", 0)
  <2> DEFINE e == F("meta", o, 0)
  <2>1. e \in Frames /\ e.k = "meta" /\ e.f = o
    BY <1>0, <1>4 DEF F, Frames
  <2>2. Quiet(h)
    BY <1>2, <1>4 DEF Talks, Greets, Pushes, Finishes, Awaits, Fetches
  <2>3. wire'[h] = wire[h] /\ (Alive(h) => Asked(h)' = Append(Asked(h), e))
    BY <1>1, <1>4, <2>1, AskedMore
  <2>4. work'[h].phase = "greet" /\ work'[h].op = o /\ work'[p] = work[p]
    BY <1>0, <1>2, <1>4, GoesSays
  <2> HIDE DEF e
  <2>5. Alive(h) => AcksThen(Asked(h)', "meta", o)
    BY <1>0, <2>1, <2>2, <2>3, ShapeAppend DEF Quiet
  <2>6. Greets(h)'
    BY <1>1, <2>2, <2>3, <2>4, <2>5 DEF Quiet, Greets, Alive, Free, Through
  <2>7. Sent(h, e)
    BY <1>4 DEF e
  <2> QED BY <1>3, <1>4, <2>1, <2>6, <2>7
<1>5. CASE w.phase = "ask" /\ Sent(h, F("request", o, 0)) /\ Goes(h, "await", 0)
  <2> DEFINE e == F("request", o, 0)
  <2>1. e \in Frames /\ e.k = "request" /\ e.f = o
    BY <1>0, <1>5 DEF F, Frames
  <2>2. Quiet(h)
    BY <1>2, <1>5 DEF Talks, Greets, Pushes, Finishes, Awaits, Fetches
  <2>3. wire'[h] = wire[h] /\ (Alive(h) => Asked(h)' = Append(Asked(h), e))
    BY <1>1, <1>5, <2>1, AskedMore
  <2>4. work'[h].phase = "await" /\ work'[h].op = o /\ work'[h].i = 0 /\ work'[p] = work[p]
    BY <1>0, <1>2, <1>5, GoesSays
  <2> HIDE DEF e
  <2>5. Alive(h) => AcksThen(Asked(h)', "request", o)
    BY <1>0, <2>1, <2>2, <2>3, ShapeAppend DEF Quiet
  <2>6. Awaits(h)'
    BY <1>1, <2>2, <2>3, <2>4, <2>5 DEF Quiet, Awaits, Alive, Free, Through
  <2>7. Sent(h, e)
    BY <1>5 DEF e
  <2> QED BY <1>3, <1>5, <2>1, <2>6, <2>7
<1>6. CASE /\ w.phase = "chunks" /\ Sent(h, F("chunk", o, w.i))
           /\ Goes(h, IF w.i + 1 < Total[o] THEN "chunks" ELSE "final", w.i + 1)
  <2> DEFINE e == F("chunk", o, w.i)
             ph == IF w.i + 1 < Total[o] THEN "chunks" ELSE "final"
             c == recv[p].i
  <2>0. w.i \in Nat /\ c \in Nat /\ Total[o] \in Nat /\ o \in Ops
    BY <1>0, <1>6 DEF Works, Recvs
  <2>1. e \in Frames /\ e.k = "chunk" /\ e.f = o /\ e.i = w.i
    BY <2>0 DEF F, Frames
  <2>2. Pushes(h)
    BY <1>2, <1>6 DEF Talks, Quiet, Greets, Finishes, Awaits, Fetches
  <2>3. wire'[h] = wire[h] /\ (Alive(h) => Asked(h)' = Append(Asked(h), e))
    BY <1>1, <1>6, <2>1, AskedMore
  <2>4. work'[h].phase = ph /\ work'[h].op = o /\ work'[h].i = w.i + 1 /\ work'[p] = work[p]
    BY <1>0, <1>2, <1>6, GoesSays
  <2>5. Sent(h, e) /\ Goes(h, ph, w.i + 1)
    BY <1>6
  <2> HIDE DEF e
  <2>6. /\ w.i < Total[o] /\ (\A i \in 1..Len(wire[h]) : wire[h][i].k = "ack" /\ wire[h][i].i < Total[o])
        /\ Alive(h) => work[p].phase = "none" /\ Takes(h, o) /\ c <= w.i /\ ChunksOf(Asked(h), o, c, w.i)
    BY <2>2 DEF Pushes
  <2>7. Alive(h) => ChunksOf(Asked(h)', o, c, w.i + 1)
    <3>1. \A x \in Nat, j \in Nat : ChunksOf(Asked(h), e.f, x, j) /\ e.i = j => ChunksOf(Append(Asked(h), e), e.f, x, j + 1)
      BY <1>0, <2>1, ShapeAppend
    <3> QED BY <2>0, <2>1, <2>3, <2>6, <3>1
  <2>8. (Alive(h)' <=> Alive(h)) /\ (Takes(h, o)' <=> Takes(h, o)) /\ recv'[p].i = c
    BY <1>1, <2>4 DEF Alive, Takes
  <2>9. CASE w.i + 1 < Total[o]
    <3>1. ph = "chunks" /\ (c <= w.i => c <= w.i + 1)
      BY <2>0, <2>9
    <3>2. Pushes(h)'
      BY <2>3, <2>4, <2>6, <2>7, <2>8, <2>9, <3>1 DEF Pushes
    <3> QED BY <1>3, <2>1, <2>5, <3>2
  <2>10. CASE ~(w.i + 1 < Total[o])
    <3>1. ph = "final" /\ w.i + 1 = Total[o] /\ (c <= w.i => c < Total[o])
      BY <2>0, <2>6, <2>10
    <3>2. \A i \in 1..Len(wire[h]) : ~(wire[h][i].i >= Total[o])
      <4> SUFFICES ASSUME NEW i \in 1..Len(wire[h]) PROVE ~(wire[h][i].i >= Total[o])
        OBVIOUS
      <4>1. wire[h] \in Seq(Frames)
        BY TalkingIs
      <4>2. wire[h][i].i \in Nat
        <5>1. wire[h][i] \in Frames
          BY <4>1
        <5> QED BY <5>1 DEF Frames
      <4>3. wire[h][i].i < Total[o]
        BY <2>6
      <4> QED BY <2>0, <4>2, <4>3
    <3>3. Finishes(h)'
      BY <2>3, <2>4, <2>6, <2>7, <2>8, <3>1, <3>2 DEF Finishes
    <3> QED BY <1>3, <2>1, <2>5, <3>3
  <2> QED BY <2>9, <2>10
<1> QED BY <1>0, <1>4, <1>5, <1>6 DEF WorkerWrites, Writes

LEMMA PeerWritesTalk ==
  ASSUME NEW h \in Nodes, Talking(h), WorkerWrites(Peer(h))
  PROVE  Talks(h)'
<1> DEFINE p == Peer(h)
           w == work[p]
           o == w.op
<1>0. /\ p \in Nodes /\ p # h /\ w \in Works /\ wire[h] \in Seq(Frames) /\ inbox[h] = <<>>
      /\ w.phase \in {"none", "queued", "serve", "supply", "drain", "done"}
      /\ (w.phase # "none" => o \in Ops) /\ \A x \in Ops : Total[x] \in Nat /\ Total[x] > 0
  BY TalkingIs
<1>1. UNCHANGED <<sock, inbox, recv, published>> /\ Alive(h) /\ Alive(h)'
  BY DEF WorkerWrites, workerUnchanged, Alive
<1>2. /\ Talks(h) /\ OwnInv
      /\ (\A i \in 1..Len(wire[h]) : ~wire[h][i].half) /\ (w.phase # "none" => inbox[p] = <<>>)
  BY DEF Talking, Talks
<1>3. ASSUME NEW e \in Frames, ~e.half, Sent(p, e), w.phase # "none", work'[h] = work[h],
             (Awaits(h) \/ Fetches(h))'
      PROVE  Talks(h)'
  <2>1. wire'[h] = Append(wire[h], e)
    BY <1>3, HeardMore
  <2>2. \A i \in 1..Len(wire'[h]) : ~wire'[h][i].half
    <3>1. /\ Len(wire'[h]) = Len(wire[h]) + 1 /\ wire'[h][Len(wire[h]) + 1] = e /\ Len(wire[h]) \in Nat
          /\ \A i \in 1..Len(wire[h]) : wire'[h][i] = wire[h][i]
      BY <1>0, <2>1, AppendProperties
    <3>2. PICK k : k = Len(wire[h])
      OBVIOUS
    <3>3. k \in Nat /\ Len(wire'[h]) = k + 1
      BY <3>1, <3>2
    <3>4. ASSUME NEW i \in 1..k + 1 PROVE ~wire'[h][i].half
      <4>1. i = k + 1 \/ i \in 1..k
        BY <3>3
      <4>2. CASE i = k + 1
        BY <1>3, <3>1, <3>2, <4>2
      <4>3. CASE i \in 1..k
        BY <1>2, <3>1, <3>2, <4>3
      <4> QED BY <4>1, <4>2, <4>3
    <3> QED BY <3>3, <3>4
  <2> QED BY <1>0, <1>1, <1>2, <1>3, <2>2 DEF Talks
<1>4. ASSUME NEW e \in Frames, Sent(p, e) PROVE Asked(h)' = Asked(h)
  BY <1>1, <1>4, HeardMore DEF Asked
<1>5. Free(h)' <=> Free(h)
  BY <1>1 DEF Free
<1>6. CASE w.phase = "serve"
  <2>1. /\ Awaits(h) /\ work[h].phase = "await" /\ work[h].i = 0 /\ Free(h) /\ wire[h] = <<>> /\ Asked(h) = <<>> /\ o = work[h].op
    BY <1>1, <1>2, <1>6 DEF Talks, Quiet, Greets, Pushes, Finishes, Awaits, Fetches, Through, Supplies
  <2>2. CASE Sent(p, F("nack", None, 0)) /\ Done(p, "error")
    <3> DEFINE e == F("nack", None, 0)
    <3>1. e \in Frames /\ e.k = "nack" /\ ~e.half /\ Sent(p, e)
      BY <2>2 DEF F, Frames
    <3>2. work'[p].phase = "done" /\ work'[h] = work[h]
      BY <1>0, <1>2, <2>2, DoneSays
    <3> HIDE DEF e
    <3>3. wire'[h] = Append(wire[h], e) /\ Asked(h)' = <<>>
      BY <1>4, <2>1, <3>1, HeardMore
    <3>4. One(wire'[h], "nack")
      BY <1>0, <2>1, <3>1, <3>3, ShapeAppend
    <3>5. Awaits(h)'
      BY <1>5, <2>1, <3>2, <3>3, <3>4 DEF Awaits, Through
    <3> QED BY <1>3, <1>6, <3>1, <3>2, <3>5
  <2>3. CASE Sent(p, F("meta", o, 0)) /\ Goes(p, "supply", 0)
    <3> DEFINE e == F("meta", o, 0)
    <3>1. e \in Frames /\ e.k = "meta" /\ e.f = o /\ ~e.half /\ Sent(p, e)
      BY <1>0, <1>6, <2>3 DEF F, Frames
    <3>2. work'[p].phase = "supply" /\ work'[p].op = o /\ work'[p].i = 0 /\ work'[h] = work[h]
      BY <1>0, <1>2, <2>3, GoesSays
    <3> HIDE DEF e
    <3>3. wire'[h] = Append(wire[h], e) /\ Asked(h)' = <<>>
      BY <1>4, <2>1, <3>1, HeardMore
    <3>a. wire[h] = <<>> /\ e.k = "meta" => MetaThen(Append(wire[h], e), e.f, 0)
      BY <1>0, <3>1, ShapeAppend
    <3>4. MetaThen(wire'[h], o, 0) /\ 0 \in 0..Total[o] /\ 0 < Total[o]
      BY <1>0, <1>6, <2>1, <3>1, <3>3, <3>a
    <3>5. Awaits(h)'
      BY <1>5, <2>1, <3>2, <3>3, <3>4 DEF Awaits, Supplies
    <3> QED BY <1>3, <1>6, <3>1, <3>2, <3>5
  <2> QED BY <1>6, <2>2, <2>3 DEF WorkerWrites, Writes
<1>7. CASE w.phase = "supply"
  <2> DEFINE e == F("chunk", o, w.i)
             ph == IF w.i + 1 < Total[o] THEN "supply" ELSE "drain"
  <2>0. Sent(p, e) /\ Goes(p, ph, w.i + 1)
    BY <1>7 DEF WorkerWrites, Writes
  <2>1. /\ w.i \in Nat /\ Total[o] \in Nat /\ o \in Ops
        /\ e \in Frames /\ e.k = "chunk" /\ e.f = o /\ e.i = w.i /\ ~e.half
    BY <1>0, <1>7 DEF F, Frames, Works
  <2>2. work'[p].phase = ph /\ work'[p].op = o /\ work'[p].i = w.i + 1 /\ work'[h] = work[h]
    BY <1>0, <1>2, <2>0, GoesSays
  <2> HIDE DEF e
  <2>3. wire'[h] = Append(wire[h], e) /\ Asked(h)' = Asked(h)
    BY <1>4, <2>0, <2>1, HeardMore
  <2>4. (Awaits(h) \/ Fetches(h)) /\ Free(h) /\ o = work[h].op /\ w.i < Total[o]
    BY <1>1, <1>2, <1>7 DEF Talks, Quiet, Greets, Pushes, Finishes, Awaits, Fetches, Through, Supplies
  <2>5. /\ (ph = "supply" /\ w.i + 1 < Total[o]) \/ (ph = "drain" /\ w.i + 1 = Total[o])
        /\ w.i + 1 \in 0..Total[o]
    BY <2>1, <2>4
  <2> HIDE DEF ph
  <2>6. CASE Awaits(h)
    <3>1. Asked(h) = <<>> /\ MetaThen(wire[h], o, w.i) /\ work[h].phase = "await" /\ work[h].i = 0
      BY <1>1, <1>7, <2>4, <2>6 DEF Awaits, Through, Supplies
    <3>2. MetaThen(wire'[h], o, w.i + 1)
      BY <1>0, <2>1, <2>3, <3>1, ShapeAppend
    <3>3. Awaits(h)'
      BY <1>5, <2>2, <2>3, <2>4, <2>5, <3>1, <3>2 DEF Awaits, Supplies, Through
    <3> QED BY <1>3, <1>7, <2>0, <2>1, <2>2, <3>3
  <2>7. CASE Fetches(h)
    <3>0. work[h].i \in Nat
      BY TalkingIs DEF Works
    <3>1. /\ work[h].phase = "fetch" /\ work[h].file = o /\ work[h].i < Total[o] /\ Acks(Asked(h))
          /\ w.i >= work[h].i /\ ChunksOf(wire[h], o, work[h].i, w.i)
      BY <1>1, <1>7, <2>4, <2>7 DEF Fetches, Through, Supplies
    <3>2. ChunksOf(wire'[h], o, work[h].i, w.i + 1)
      BY <1>0, <2>1, <2>3, <3>0, <3>1, ShapeAppend
    <3>3. w.i + 1 \in work[h].i..Total[o] /\ w.i + 1 >= work[h].i
      BY <2>1, <2>5, <3>0, <3>1
    <3>4. Fetches(h)'
      BY <1>5, <2>2, <2>3, <2>4, <2>5, <3>1, <3>2, <3>3 DEF Fetches, Supplies, Through
    <3> QED BY <1>3, <1>7, <2>0, <2>1, <2>2, <3>4
  <2> QED BY <2>4, <2>6, <2>7
<1> QED BY <1>0, <1>6, <1>7 DEF WorkerWrites, Writes

\* What h reads, and what it answers.
LEMMA TakenFrom ==
  ASSUME NEW h \in Nodes, Talking(h), wire[h] # <<>>,
         NEW frames, frames = <<>> \/ \E e \in Frames : e.k # "request" /\ frames = <<e>>,
         Replied(h, frames), UNCHANGED <<sock, inbox>>
  PROVE  /\ wire'[h] = Tail(wire[h]) /\ \A i \in 1..Len(wire'[h]) : ~wire'[h][i].half
         /\ frames = <<>> => Asked(h)' = Asked(h)
         /\ \A e \in Frames : frames = <<e>> /\ Alive(h) => Asked(h)' = Append(Asked(h), e)
<1> DEFINE p == Peer(h)
<1>1. p \in Nodes /\ p # h /\ wire[p] \in Seq(Frames) /\ inbox[p] \in Seq(Frames) /\ wire[h] \in Seq(Frames)
  BY TalkingIs
<1>2. Shape
  BY DEF Talking, OwnInv
<1>3. /\ wire'[h] = Tail(wire[h])
      /\ wire'[p] = IF sock[p] = "open" THEN wire[p] \o frames ELSE wire[p]
      /\ \A e : frames = <<e>> => wire[p] \o frames = Append(wire[p], e)
      /\ frames = <<>> => wire'[p] = wire[p]
  BY <1>2, RepliedIs
<1>4. \A i \in 1..Len(wire'[h]) : ~wire'[h][i].half
  <2>1. /\ Len(wire'[h]) = Len(wire[h]) - 1 /\ Len(wire[h]) \in Nat
        /\ \A i \in 1..Len(wire'[h]) : wire'[h][i] = wire[h][i + 1]
    BY <1>1, <1>3, HeadTailProperties
  <2>2. \A i \in 1..Len(wire[h]) : ~wire[h][i].half
    BY DEF Talking, Talks
  <2> QED BY <2>1, <2>2
<1>5. ASSUME NEW e \in Frames, frames = <<e>>, Alive(h) PROVE Asked(h)' = Append(Asked(h), e)
  <2>1. wire'[p] = Append(wire[p], e)
    BY <1>3, <1>5 DEF Alive
  <2>2. inbox[p] \o Append(wire[p], e) = Append(inbox[p] \o wire[p], e)
    BY <1>1, ConcatAppend
  <2> QED BY <2>1, <2>2 DEF Asked
<1>6. frames = <<>> => Asked(h)' = Asked(h)
  BY <1>3 DEF Asked
<1> QED BY <1>3, <1>4, <1>5, <1>6

LEMMA AcksTalk ==
  ASSUME NEW h \in Nodes, Talking(h), WorkerReads(h), WaitAck(h, Head(wire[h]))
  PROVE  Talks(h)'
<1> DEFINE p == Peer(h)
           w == work[h]
           o == w.op
           m == Head(wire[h])
           t == Tail(wire[h])
<1>0. /\ p \in Nodes /\ p # h /\ w \in Works /\ wire[h] \in Seq(Frames) /\ inbox[h] = <<>> /\ Asked(h) \in Seq(Frames)
      /\ (w.phase # "none" => o \in Ops) /\ \A x \in Ops : Total[x] \in Nat /\ Total[x] > 0
  BY TalkingIs
<1>1. /\ UNCHANGED <<sock, inbox, recv>> /\ wire[h] # <<>>
      /\ w.phase \in {"greet", "final"} /\ Replied(h, <<>>) /\ UNCHANGED published
  BY DEF WorkerReads, workerUnchanged, WaitAck
<1>2. /\ Talks(h) /\ OwnInv /\ o \in Ops
      /\ (work[p].phase # "none" => inbox[p] = <<>>)
  BY <1>0, <1>1 DEF Talking, Talks
<1>3. wire'[h] = t /\ (\A i \in 1..Len(wire'[h]) : ~wire'[h][i].half) /\ Asked(h)' = Asked(h)
  BY <1>1, TakenFrom
<1>4. m \in Frames /\ m = wire[h][1] /\ (\A k : One(wire[h], k) => m.k = k /\ t = <<>>) /\ (Len(wire[h]) = 1 => t = <<>>)
  BY <1>0, <1>1, ShapeTail
<1>5. (Alive(h)' <=> Alive(h)) /\ (Free(h)' <=> Free(h))
  BY <1>1 DEF Alive, Free
<1>6. /\ m.k = "nack" => Done(h, "error")
      /\ m.k = "ack" /\ Enough(w, m.i) =>
           IF w.phase = "final" THEN Done(h, "ok") ELSE Goes(h, IF m.i < Total[o] THEN "chunks" ELSE "final", m.i)
      /\ m.k = "ack" /\ ~Enough(w, m.i) => UNCHANGED work
  BY DEF WaitAck
<1>7. m.i \in Nat
  BY <1>4 DEF Frames
<1> HIDE DEF m, t
<1>8. ASSUME work'[p] = work[p], (Quiet(h) \/ Pushes(h) \/ Finishes(h))' PROVE Talks(h)'
  BY <1>0, <1>1, <1>2, <1>3, <1>8 DEF Talks
<1>9. ASSUME NEW result \in {"ok", "error"}, Done(h, result), t = <<>>, Alive(h) => Asked(h) = <<>> /\ Free(h) /\ Through(h)
      PROVE  Talks(h)'
  <2>1. work'[h].phase = "done" /\ work'[p] = work[p]
    BY <1>0, <1>2, <1>9, DoneSays
  <2>2. Alive(h)' => Acks(Asked(h)') /\ Free(h)' /\ Through(h)'
    BY <1>3, <1>5, <1>9, <2>1, ShapeEmpty DEF Through
  <2>3. Quiet(h)'
    BY <1>3, <1>9, <2>1, <2>2 DEF Quiet
  <2> QED BY <1>8, <2>1, <2>3
<1>10. CASE w.phase = "greet"
  <2>1. Greets(h)
    BY <1>2, <1>10 DEF Talks, Quiet, Pushes, Finishes, Awaits, Fetches
  <2>2. /\ One(wire[h], "nack") \/ (One(wire[h], "ack") /\ m.i = 0)
        /\ t = <<>>
    BY <1>1, <1>4, <2>1 DEF Greets
  <2>3. CASE One(wire[h], "nack")
    <3>1. m.k = "nack"
      BY <1>4, <2>3
    <3>2. Alive(h) => Asked(h) = <<>> /\ Free(h) /\ Through(h)
      BY <1>1, <1>4, <2>1, <3>1 DEF Greets
    <3> QED BY <1>6, <1>9, <2>2, <3>1, <3>2
  <2>4. CASE One(wire[h], "ack") /\ m.i = 0
    <3>1. m.k = "ack"
      BY <1>4, <2>4
    <3>2. Enough(w, m.i)
      BY <1>7, <1>10 DEF Enough
    <3>3. Goes(h, "chunks", 0)
      BY <1>0, <1>2, <1>6, <1>10, <2>4, <3>1, <3>2
    <3>4. work'[h].phase = "chunks" /\ work'[h].i = 0 /\ work'[h].op = o /\ work'[p] = work[p]
      BY <1>0, <1>2, <3>3, GoesSays
    <3>5. Alive(h) => Asked(h) = <<>> /\ Takes(h, o) /\ recv[p].i = 0 /\ work[p].phase = "none"
      BY <1>1, <1>4, <2>1, <3>1 DEF Greets
    <3>6. wire'[h] = <<>> /\ Len(wire'[h]) = 0
      BY <1>3, <2>2
    <3>7. Takes(h, o)' <=> Takes(h, o)
      BY <1>1, <3>4 DEF Takes
    <3>8. ChunksOf(<<>>, o, 0, 0)
      BY ShapeEmpty
    <3>9. Pushes(h)'
      BY <1>0, <1>1, <1>2, <1>3, <1>5, <3>4, <3>5, <3>6, <3>7, <3>8 DEF Pushes
    <3> QED BY <1>8, <3>4, <3>9
  <2> QED BY <2>2, <2>3, <2>4
<1>11. CASE w.phase = "final"
  <2>1. Finishes(h)
    BY <1>2, <1>11 DEF Talks, Quiet, Greets, Pushes, Awaits, Fetches
  <2>2. /\ Len(wire[h]) \in Nat /\ 1 \in 1..Len(wire[h]) /\ Len(t) = Len(wire[h]) - 1
        /\ \A i \in 1..Len(t) : t[i] = wire[h][i + 1]
    BY <1>0, <1>1, HeadTailProperties DEF t
  <2>3. m.k = "ack" /\ (m.i >= Total[o] => 1 = Len(wire[h]) /\ (Alive(h) => Asked(h) = <<>> /\ Free(h)))
    BY <1>4, <2>1, <2>2 DEF Finishes
  <2>4. Enough(w, m.i) <=> m.i >= Total[o]
    BY <1>11 DEF Enough
  <2>5. CASE m.i >= Total[o]
    <3>1. Done(h, "ok") /\ t = <<>>
      BY <1>4, <1>6, <1>11, <2>3, <2>4, <2>5
    <3>2. Alive(h) => Through(h)
      BY <2>1 DEF Finishes, Through
    <3> QED BY <1>9, <2>3, <2>5, <3>1, <3>2
  <2>6. CASE ~(m.i >= Total[o])
    <3>1. UNCHANGED work
      BY <1>6, <2>3, <2>4, <2>6
    <3>2. ASSUME NEW i \in 1..Len(t)
          PROVE  /\ t[i].k = "ack"
                 /\ t[i].i >= Total[o] => i = Len(t) /\ Published(o) /\ (Alive(h) => Asked(h) = <<>> /\ Free(h))
      <4>1. i + 1 \in 1..Len(wire[h]) /\ t[i] = wire[h][i + 1] /\ (i + 1 = Len(wire[h]) => i = Len(t))
        BY <2>2
      <4> QED BY <2>1, <4>1 DEF Finishes
    <3>3. (\A x : Takes(h, x)' <=> Takes(h, x)) /\ (\A x : Published(x)' <=> Published(x))
      BY <1>1 DEF Takes, Published
    <3>4. Finishes(h)'
      BY <1>1, <1>3, <1>5, <2>1, <3>1, <3>2, <3>3 DEF Finishes
    <3> QED BY <1>8, <3>1, <3>4
  <2> QED BY <2>5, <2>6
<1> QED BY <1>1, <1>10, <1>11

LEMMA MetaTalk ==
  ASSUME NEW h \in Nodes, Talking(h), WorkerReads(h), WaitMeta(h, Head(wire[h]))
  PROVE  Talks(h)'
<1> DEFINE p == Peer(h)
           w == work[h]
           o == w.op
           m == Head(wire[h])
           t == Tail(wire[h])
<1>0. /\ p \in Nodes /\ p # h /\ w \in Works /\ work[p] \in Works /\ wire[h] \in Seq(Frames) /\ inbox[h] = <<>> /\ Asked(h) \in Seq(Frames)
      /\ (w.phase # "none" => o \in Ops) /\ \A x \in Ops : Total[x] \in Nat /\ Total[x] > 0
  BY TalkingIs
<1>1. UNCHANGED <<sock, inbox, recv>> /\ wire[h] # <<>> /\ w.phase = "await" /\ UNCHANGED published
  BY DEF WorkerReads, workerUnchanged, WaitMeta
<1>2. /\ Talks(h) /\ OwnInv /\ o \in Ops
      /\ (work[p].phase # "none" => inbox[p] = <<>>)
  BY <1>0, <1>1 DEF Talking, Talks
<1>3. /\ m \in Frames /\ m = wire[h][1] /\ (\A k : One(wire[h], k) => m.k = k /\ t = <<>>)
      /\ \A x : \A j \in Nat : MetaThen(wire[h], x, j) => m.k = "meta" /\ m.f = x /\ ChunksOf(t, x, 0, j)
  BY <1>0, <1>1, ShapeTail
<1>4. Awaits(h)
  BY <1>1, <1>2 DEF Talks, Quiet, Greets, Pushes, Finishes, Fetches
<1>5. (Alive(h)' <=> Alive(h)) /\ (Free(h)' <=> Free(h))
  BY <1>1 DEF Alive, Free
<1>6. /\ m.k = "nack" => Replied(h, <<>>) /\ Done(h, "error")
      /\ m.k = "meta" => /\ Replied(h, <<F("ack", None, 0)>>)
                         /\ work' = [work EXCEPT ![h].phase = "fetch", ![h].file = m.f]
  BY DEF WaitMeta
<1> HIDE DEF m, t
<1>7. CASE One(wire[h], "nack")
  <2>1. Replied(h, <<>>) /\ Done(h, "error") /\ t = <<>>
    BY <1>3, <1>6, <1>7
  <2>2. wire'[h] = t /\ (\A i \in 1..Len(wire'[h]) : ~wire'[h][i].half) /\ Asked(h)' = Asked(h)
    BY <1>1, <2>1, TakenFrom DEF t
  <2>3. work'[h].phase = "done" /\ work'[p] = work[p]
    BY <1>0, <1>2, <2>1, DoneSays
  <2>4. Alive(h) => Free(h) /\ Asked(h) = <<>> /\ Through(h)
    <3>1. \A x : \A j \in Nat : ~MetaThen(wire[h], x, j)
      BY <1>3, <1>7
    <3>2. work[p].i \in Nat /\ work[h].op \in Ops /\ Total[work[h].op] \in Nat
      BY <1>0, <1>2 DEF Works
    <3>3. wire[h] # <<>>
      BY <1>1
    <3> HIDE DEF p, w, o
    <3>4. Alive(h) => ~(Supplies(h, work[h].op) /\ MetaThen(wire[h], work[h].op, work[Peer(h)].i))
      BY <3>1, <3>2 DEF p
    <3> QED BY <1>4, <3>1, <3>2, <3>3, <3>4 DEF Awaits
  <2>5. Quiet(h)'
    BY <1>5, <2>1, <2>2, <2>3, <2>4, ShapeEmpty DEF Quiet, Through
  <2> QED BY <1>0, <1>1, <1>2, <2>2, <2>3, <2>5 DEF Talks
<1>8. CASE \E j \in 0..Total[o] : MetaThen(wire[h], o, j)
  <2> DEFINE e == F("ack", None, 0)
  <2>1. PICK j \in 0..Total[o] : MetaThen(wire[h], o, j)
    BY <1>8
  <2>2. j \in Nat /\ Total[o] \in Nat /\ Total[o] > 0 /\ work[p].i \in Nat
    BY <1>0, <1>2 DEF Works
  <2>3. m.k = "meta" /\ m.f = o /\ ChunksOf(t, o, 0, j)
    BY <1>3, <2>1, <2>2
  <2>4. Replied(h, <<e>>) /\ work' = [work EXCEPT ![h] = [work[h] EXCEPT !.phase = "fetch", !.file = o]]
    <3>1. Replied(h, <<e>>) /\ work' = [work EXCEPT ![h].phase = "fetch", ![h].file = m.f]
      BY <1>6, <2>3
    <3>2. work \in [Nodes -> Works]
      BY <1>2 DEF OwnInv, Shape
    <3> QED BY <2>3, <3>1, <3>2
  <2>5. e \in Frames /\ e.k = "ack" /\ e.k # "request"
    BY DEF F, Frames
  <2> HIDE DEF e
  <2>6. wire'[h] = t /\ (\A i \in 1..Len(wire'[h]) : ~wire'[h][i].half) /\ (Alive(h) => Asked(h)' = Append(Asked(h), e))
    BY <1>1, <2>4, <2>5, TakenFrom DEF t
  <2>7. /\ work'[h].phase = "fetch" /\ work'[h].file = o /\ work'[h].op = o /\ work'[h].i = 0 /\ work'[p] = work[p]
    <3>1. w.i = 0
      BY <1>4 DEF Awaits
    <3>2. work \in [Nodes -> Works]
      BY <1>2 DEF OwnInv, Shape
    <3>3. work'[h] = [work[h] EXCEPT !.phase = "fetch", !.file = o] /\ work'[p] = work[p]
      BY <1>0, <2>4, <3>2
    <3> QED BY <1>0, <3>1, <3>3 DEF Works
  <2>8. /\ Alive(h) => Free(h) /\ Asked(h) = <<>>
        /\ Alive(h) => (Supplies(h, o) /\ MetaThen(wire[h], o, work[p].i)) \/ (Through(h) /\ MetaThen(wire[h], o, Total[o]))
    <3>1. ~One(wire[h], "nack")
      BY <1>3, <2>3
    <3> QED BY <1>1, <1>4, <3>1 DEF Awaits
  <2>9. Alive(h) => Acks(Asked(h)')
    <3>1. Acks(Append(<<>>, e))
      <4>1. <<>> \in Seq(Frames) /\ Acks(<<>>)
        BY ShapeEmpty
      <4> QED BY <2>5, <4>1, ShapeAppend
    <3> QED BY <2>6, <2>8, <3>1
  <2>10. /\ MetaThen(wire[h], o, work[p].i) => ChunksOf(t, o, 0, work[p].i)
         /\ MetaThen(wire[h], o, Total[o]) => ChunksOf(t, o, 0, Total[o])
    BY <1>3, <2>2
  <2>11. (Supplies(h, o)' <=> Supplies(h, o)) /\ (Through(h)' <=> Through(h))
    BY <2>7 DEF Supplies, Through
  <2>12. work[p].i >= 0 /\ 0 < Total[o] /\ j \in 0..Total[o]
    BY <2>2
  <2>13. Fetches(h)'
    BY <1>5, <2>3, <2>6, <2>7, <2>8, <2>9, <2>10, <2>11, <2>12 DEF Fetches
  <2> QED BY <1>0, <1>1, <1>2, <2>6, <2>7, <2>13 DEF Talks
<1> QED BY <1>1, <1>4, <1>7, <1>8 DEF Awaits

LEMMA ChunkTalk ==
  ASSUME NEW h \in Nodes, Talking(h), WorkerReads(h), WaitChunk(h, Head(wire[h]))
  PROVE  Talks(h)'
<1> DEFINE p == Peer(h)
           w == work[h]
           o == w.op
           i == w.i
           m == Head(wire[h])
           t == Tail(wire[h])
           e == F("ack", None, i + 1)
<1>0. /\ p \in Nodes /\ p # h /\ w \in Works /\ work[p] \in Works /\ wire[h] \in Seq(Frames) /\ inbox[h] = <<>> /\ Asked(h) \in Seq(Frames)
      /\ (w.phase # "none" => o \in Ops) /\ \A x \in Ops : Total[x] \in Nat /\ Total[x] > 0
  BY TalkingIs
<1>1. UNCHANGED <<sock, inbox, recv>> /\ wire[h] # <<>> /\ w.phase = "fetch"
  BY DEF WorkerReads, workerUnchanged, WaitChunk
<1>2. /\ Talks(h) /\ OwnInv /\ o \in Ops /\ i \in Nat /\ work[p].i \in Nat /\ Total[o] \in Nat
      /\ (work[p].phase # "none" => inbox[p] = <<>>)
  BY <1>0, <1>1 DEF Talking, Talks, Works
<1>3. \A x : \A c \in Nat, j \in Nat : ChunksOf(wire[h], x, c, j) =>
              m.k = "chunk" /\ m.f = x /\ m.i = c /\ c < j /\ ChunksOf(t, x, c + 1, j)
  BY <1>0, <1>1, ShapeTail
<1>4. Fetches(h)
  BY <1>1, <1>2 DEF Talks, Quiet, Greets, Pushes, Finishes, Awaits
<1>5. (Alive(h)' <=> Alive(h)) /\ (Free(h)' <=> Free(h))
  BY <1>1 DEF Alive, Free
<1>6. PICK j \in i..Total[o] : ChunksOf(wire[h], o, i, j)
  BY <1>4 DEF Fetches
<1>7. j \in Nat /\ i < j /\ j <= Total[o]
  BY <1>2, <1>3, <1>6
<1>8. m.k = "chunk" /\ m.f = o /\ m.i = i /\ ChunksOf(t, o, i + 1, j) /\ w.file = o /\ Fits(m, w.file, i)
  BY <1>2, <1>3, <1>4, <1>6, <1>7 DEF Fetches, Fits
<1>9. /\ Replied(h, <<e>>)
      /\ i + 1 < Total[o] => \E b \in BOOLEAN : work' = [work EXCEPT ![h].i = i + 1, ![h].whole = b]
      /\ ~(i + 1 < Total[o]) => \E result \in {"ok", "error"} : Done(h, result)
  <2> HIDE DEF m, e
  <2>1. (w.whole /\ m.f = w.file) \in BOOLEAN
    BY <1>0 DEF Works
  <2> QED BY <1>8, <2>1 DEF WaitChunk, m, e
<1>10. e \in Frames /\ e.k = "ack" /\ e.k # "request"
  <2>1. i + 1 \in Nat
    BY <1>2
  <2> QED BY <2>1 DEF F, Frames
<1> HIDE DEF m, e
<1>11. wire'[h] = t /\ (\A x \in 1..Len(wire'[h]) : ~wire'[h][x].half) /\ (Alive(h) => Asked(h)' = Append(Asked(h), e))
  BY <1>1, <1>9, <1>10, TakenFrom
<1> HIDE DEF t
<1>12. Alive(h) => /\ Free(h) /\ Acks(Asked(h)')
                   /\ (Supplies(h, o) /\ i < work[p].i /\ ChunksOf(t, o, i + 1, work[p].i)) \/ (Through(h) /\ ChunksOf(t, o, i + 1, Total[o]))
  <2>1. Acks(Asked(h)) => Acks(Append(Asked(h), e))
    BY <1>0, <1>10, ShapeAppend
  <2>2. Alive(h) => /\ Free(h) /\ Acks(Asked(h))
                    /\ (Supplies(h, o) /\ ChunksOf(wire[h], o, i, work[p].i)) \/ (Through(h) /\ ChunksOf(wire[h], o, i, Total[o]))
    BY <1>4 DEF Fetches
  <2> QED BY <1>2, <1>3, <1>11, <2>1, <2>2
<1>13. ASSUME work'[p] = work[p], (Quiet(h) \/ Fetches(h))' PROVE Talks(h)'
  BY <1>0, <1>1, <1>2, <1>11, <1>13 DEF Talks
<1>14. CASE i + 1 < Total[o]
  <2>1. PICK b \in BOOLEAN : work' = [work EXCEPT ![h].i = i + 1, ![h].whole = b]
    BY <1>9, <1>14
  <2>2. work \in [Nodes -> Works]
    BY <1>2 DEF OwnInv, Shape
  <2>3. work'[p] = work[p] /\ work'[h] = [work[h] EXCEPT !.i = i + 1, !.whole = b]
    BY <1>0, <2>1, <2>2
  <2>4. work'[h].i = i + 1 /\ work'[h].phase = "fetch" /\ work'[h].op = o /\ work'[h].file = o
    BY <1>0, <1>1, <1>8, <2>3 DEF Works
  <2>5. (Supplies(h, o)' <=> Supplies(h, o)) /\ (Through(h)' <=> Through(h))
    BY <2>3 DEF Supplies, Through
  <2>6. j \in i + 1 .. Total[o] /\ (i < work[p].i => work[p].i >= i + 1)
    BY <1>2, <1>7
  <2>7. Fetches(h)'
    BY <1>5, <1>8, <1>11, <1>12, <1>14, <2>3, <2>4, <2>5, <2>6 DEF Fetches
  <2> QED BY <1>13, <2>3, <2>7
<1>15. CASE ~(i + 1 < Total[o])
  <2>1. PICK result \in {"ok", "error"} : Done(h, result)
    BY <1>9, <1>15
  <2>2. work'[h].phase = "done" /\ work'[p] = work[p]
    BY <1>0, <1>2, <2>1, DoneSays
  <2>3. j = i + 1
    BY <1>2, <1>7, <1>15
  <2>4. t = <<>>
    <3>1. t \in Seq(Frames) /\ i + 1 \in Nat
      BY <1>0, <1>1, <1>2, ShapeTail DEF t
    <3> QED BY <1>8, <2>3, <3>1, ShapeEmpty
  <2>5. Alive(h) => Through(h)
    <3>1. ~(Supplies(h, o) /\ i < work[p].i)
      BY <1>2, <1>15 DEF Supplies
    <3> QED BY <1>12, <3>1
  <2>6. Quiet(h)'
    BY <1>5, <1>11, <1>12, <2>2, <2>4, <2>5 DEF Quiet, Through
  <2> QED BY <1>13, <2>2, <2>6
<1> QED BY <1>14, <1>15

LEMMA HomeReadsTalk ==
  ASSUME NEW h \in Nodes, Talking(h), WorkerReads(h)
  PROVE  Talks(h)'
<1>1. ~Drain(h, Head(wire[h]))
  BY TalkingIs DEF Drain
<1> QED BY <1>1, AcksTalk, MetaTalk, ChunkTalk DEF WorkerReads

\* What the peer's worker finds when it has served, an answer to somebody else among it.
LEMMA PeerReadsTalk ==
  ASSUME NEW h \in Nodes, Talking(h), WorkerReads(Peer(h))
  PROVE  Talks(h)'
<1> DEFINE p == Peer(h)
           A == Asked(h)
           t == Tail(Asked(h))
<1>0. /\ p \in Nodes /\ p # h /\ Peer(p) = h /\ work[p] \in Works /\ wire[p] \in Seq(Frames) /\ A \in Seq(Frames)
      /\ work[p].phase \in {"none", "queued", "serve", "supply", "drain", "done"}
      /\ wire[h] \in Seq(Frames) /\ inbox[h] = <<>>
  BY TalkingIs
<1>1. /\ UNCHANGED <<sock, inbox, recv, published>> /\ wire[p] # <<>> /\ work[p].phase = "drain" /\ Replied(p, <<>>)
      /\ Done(p, "error") \/ UNCHANGED <<work, client>>
  BY <1>0 DEF WorkerReads, workerUnchanged, WaitAck, WaitMeta, WaitChunk, Drain
<1>2. Talks(h) /\ OwnInv /\ Shape /\ inbox[p] = <<>>
  BY <1>1 DEF Talking, Talks, OwnInv
<1>3. A = wire[p] /\ A # <<>>
  BY <1>0, <1>1, <1>2 DEF Asked
<1>4. wire'[p] = Tail(wire[p]) /\ wire'[h] = wire[h]
  BY <1>0, <1>1, <1>2, RepliedIs
<1>5. Asked(h)' = t
  <2>1. Tail(wire[p]) \in Seq(Frames)
    BY <1>0, <1>1, HeadIs
  <2> QED BY <1>1, <1>2, <1>3, <1>4, <2>1 DEF Asked
<1>6. work'[h] = work[h] /\ work'[p].phase \in {"drain", "done"}
  BY <1>0, <1>1, <1>2, DoneSays
<1>7. /\ Acks(A) => Acks(t)
      /\ \A k, o : k # "ack" /\ AcksThen(A, k, o) => AcksThen(t, k, o) \/ t = <<>>
  BY <1>0, <1>3, ShapeTail
<1>8. Through(h) /\ Through(h)' /\ (Alive(h)' <=> Alive(h)) /\ (Free(h)' <=> Free(h)) /\ \A o : ~Supplies(h, o)
  BY <1>1, <1>6 DEF Through, Alive, Free, Supplies
<1> HIDE DEF A, t
<1>9. Quiet(h) => Quiet(h)'
  BY <1>4, <1>5, <1>6, <1>7, <1>8 DEF Quiet, A
<1>10. Greets(h) => Greets(h)'
  BY <1>1, <1>3, <1>4, <1>5, <1>6, <1>7, <1>8 DEF Greets, A
<1>11. Alive(h)
  BY DEF WorkerReads, Alive
<1>12. ~Pushes(h) /\ ~Finishes(h)
  BY <1>1, <1>11 DEF Pushes, Finishes
<1>13. Awaits(h) => Awaits(h)'
  BY <1>1, <1>3, <1>4, <1>5, <1>6, <1>7, <1>8 DEF Awaits, A
<1>14. Fetches(h) => Fetches(h)'
  BY <1>4, <1>5, <1>6, <1>7, <1>8 DEF Fetches, A
<1>15. (\A i \in 1..Len(wire'[h]) : ~wire'[h][i].half) /\ inbox'[h] = <<>> /\ inbox'[p] = <<>>
  BY <1>0, <1>1, <1>2, <1>4 DEF Talks
<1> QED BY <1>2, <1>9, <1>10, <1>12, <1>13, <1>14, <1>15 DEF Talks

-----------------------------------------------------------------------------
(* What the peer's loop does with what h has sent.                         *)

\* The frame at the head of all that was sent; the link is not lent.
LEMMA DispatchIs ==
  ASSUME NEW h \in Nodes, Talking(h), NEW n \in Nodes, LoopDispatches(n)
  PROVE  LET p == Peer(h)
             m == Head(Asked(h)) IN
         /\ n = p /\ Alive(h) /\ ~busy[p] /\ work[p].phase = "none" /\ inbox[p] # <<>> /\ Asked(h) # <<>>
         /\ m = Head(inbox[p]) /\ m \in Frames
         /\ OnRequest(p, m) \/ OnMeta(p, m) \/ OnChunk(p, m) \/ OnAck(p, m)
         /\ inbox'[h] = <<>> /\ inbox'[p] = Tail(inbox[p]) /\ inbox'[p] \o wire[p] = Tail(Asked(h))
         /\ Tail(Asked(h)) = <<>> => inbox'[p] = <<>>
         /\ UNCHANGED sock
<1> DEFINE p == Peer(h)
           q == inbox[p]
           s == wire[p]
<1>1. p \in Nodes /\ p # h /\ (n = h \/ n = p) /\ inbox[h] = <<>> /\ q \in Seq(Frames) /\ s \in Seq(Frames)
  BY TalkingIs, PeerIs
<1>2. n = p /\ q # <<>>
  BY <1>1 DEF LoopDispatches
<1>3. /\ OnRequest(p, Head(q)) \/ OnMeta(p, Head(q)) \/ OnChunk(p, Head(q)) \/ OnAck(p, Head(q))
      /\ UNCHANGED sock /\ inbox' = [inbox EXCEPT ![p] = Tail(inbox[p])] /\ inbox \in [Nodes -> Seq(Frames)]
  BY <1>2 DEF LoopDispatches, Rest, Talking, OwnInv, Shape
<1>4. inbox'[h] = <<>> /\ inbox'[p] = Tail(q)
  BY <1>1, <1>3
<1>5. Alive(h) /\ work[p].phase = "none" /\ ~busy[p]
  BY <1>1, <1>2 DEF Talking, Talks, Sources, Deaf, Alive, OwnInv, Owned
<1> HIDE DEF q, s
<1>6. Head(q) \in Frames /\ Tail(q) \in Seq(Frames)
  BY <1>1, <1>2, HeadIs
<1>7. q \o s # <<>> /\ Head(q \o s) = Head(q) /\ Tail(q \o s) = Tail(q) \o s
  BY <1>1, <1>2
<1>8. Tail(q) \o s = <<>> => Tail(q) = <<>>
  BY <1>1, <1>6
<1> QED BY <1>2, <1>3, <1>4, <1>5, <1>6, <1>7, <1>8 DEF Asked, q, s

\* An ack is only logged.
LEMMA LogsTalk ==
  ASSUME NEW h \in Nodes, Talking(h), NEW n \in Nodes, LoopDispatches(n), Head(Asked(h)).k \in {"ack", "nack"}
  PROVE  Talks(h)'
<1> DEFINE p == Peer(h)
           m == Head(Asked(h))
           A == Asked(h)
           t == Tail(Asked(h))
<1>0. /\ p \in Nodes /\ p # h /\ A \in Seq(Frames) /\ A # <<>> /\ m.k \in {"ack", "nack"}
      /\ Alive(h) /\ work[p].phase = "none"
      /\ OnRequest(p, m) \/ OnMeta(p, m) \/ OnChunk(p, m) \/ OnAck(p, m)
      /\ inbox'[h] = <<>> /\ inbox'[p] \o wire[p] = t
      /\ UNCHANGED sock
  BY TalkingIs, DispatchIs
<1> HIDE DEF m
<1>1. UNCHANGED <<wire, work, recv, published>>
  BY <1>0 DEF OnRequest, OnMeta, OnChunk, OnAck
<1>2. Asked(h)' = t
  BY <1>0, <1>1 DEF Asked
<1>3. /\ Acks(A) => Acks(t)
      /\ \A k, o : k # "ack" /\ AcksThen(A, k, o) /\ m.k # k => AcksThen(t, k, o)
      /\ \A o : \A c \in Nat, j \in Nat : ChunksOf(A, o, c, j) => m.k = "chunk"
  BY <1>0, ShapeTail DEF m
<1>4. Talks(h)
  BY DEF Talking
<1>5. /\ Alive(h)' <=> Alive(h)
      /\ Free(h)' <=> Free(h)
      /\ Through(h)' <=> Through(h)
  BY <1>0, <1>1 DEF Alive, Free, Through
<1> HIDE DEF A, t
<1>6. Quiet(h) => Quiet(h)'
  BY <1>0, <1>1, <1>2, <1>3, <1>5 DEF Quiet, A
<1>7. Greets(h) => Greets(h)'
  BY <1>0, <1>1, <1>2, <1>3, <1>5 DEF Greets, A
<1>8. ~Pushes(h) /\ ~Finishes(h)
  <2>1. recv[p].i \in Nat /\ work[h].i \in Nat /\ (work[h].phase # "none" => Total[work[h].op] \in Nat)
    <3>1. recv[p] \in Recvs /\ work[h] \in Works /\ (work[h].phase # "none" => work[h].op \in Ops)
      BY TalkingIs
    <3> QED BY <3>1, TotalIs DEF Recvs, Works
  <2> QED BY <1>0, <1>3, <2>1 DEF Pushes, Finishes, A
<1>9. Awaits(h) => Awaits(h)'
  BY <1>0, <1>1, <1>2, <1>3, <1>5 DEF Awaits, Supplies, A
<1>10. Fetches(h) => Fetches(h)'
  BY <1>0, <1>1, <1>2, <1>3, <1>5 DEF Fetches, Supplies, A
<1> QED BY <1>0, <1>1, <1>4, <1>6, <1>7, <1>8, <1>9, <1>10 DEF Talks

\* What is about to be said tells which exchange it belongs to.
LEMMA HeadTells ==
  ASSUME NEW h \in Nodes, Talking(h), Alive(h), work[Peer(h)].phase = "none", Asked(h) # <<>>
  PROVE  LET m == Head(Asked(h))
             t == Tail(Asked(h))
             o == work[h].op
             c == recv[Peer(h)].i IN
         \/ m.k \in {"ack", "nack"}
         \/ m.k = "meta" /\ m.f = o /\ t = <<>> /\ Greets(h) /\ wire[h] = <<>> /\ Free(h)
         \/ m.k = "request" /\ m.f = o /\ t = <<>> /\ Awaits(h) /\ wire[h] = <<>> /\ Free(h)
         \/ /\ m.k = "chunk" /\ m.f = o /\ m.i = c /\ Takes(h, o) /\ Pushes(h)
            /\ c < work[h].i /\ ChunksOf(t, o, c + 1, work[h].i)
         \/ /\ m.k = "chunk" /\ m.f = o /\ m.i = c /\ Takes(h, o) /\ Finishes(h)
            /\ c < Total[o] /\ ChunksOf(t, o, c + 1, Total[o])
<1> DEFINE m == Head(Asked(h))
           t == Tail(Asked(h))
           o == work[h].op
           c == recv[Peer(h)].i
<1>0. Asked(h) \in Seq(Frames) /\ recv[Peer(h)] \in Recvs /\ work[h] \in Works /\ (work[h].phase # "none" => o \in Ops)
  BY TalkingIs
<1>1. c \in Nat /\ work[h].i \in Nat /\ (work[h].phase # "none" => Total[o] \in Nat)
  BY <1>0, TotalIs DEF Recvs, Works
<1>2. /\ Acks(Asked(h)) => m.k = "ack"
      /\ \A k, x : k # "ack" /\ AcksThen(Asked(h), k, x) => m.k = "ack" \/ (m.k = k /\ m.f = x /\ t = <<>>)
      /\ \A x : \A d \in Nat, j \in Nat : ChunksOf(Asked(h), x, d, j) =>
              m.k = "chunk" /\ m.f = x /\ m.i = d /\ d < j /\ ChunksOf(t, x, d + 1, j)
  BY <1>0, ShapeTail
<1> HIDE DEF m, t, c
<1>3. CASE Quiet(h)
  BY <1>2, <1>3 DEF Quiet, m
<1>4. CASE Greets(h)
  BY <1>2, <1>4 DEF Greets, m, t
<1>5. CASE Awaits(h)
  BY <1>2, <1>5 DEF Awaits, Supplies, m, t
<1>6. CASE Fetches(h)
  BY <1>2, <1>6 DEF Fetches, m
<1>7. CASE Pushes(h)
  <2>1. Takes(h, o) /\ ChunksOf(Asked(h), o, c, work[h].i)
    BY <1>7 DEF Pushes, c
  <2>2. m.k = "chunk" /\ m.f = o /\ m.i = c /\ c < work[h].i /\ ChunksOf(t, o, c + 1, work[h].i)
    BY <1>1, <1>2, <2>1
  <2> QED BY <1>7, <2>1, <2>2 DEF m, t, c
<1>8. CASE Finishes(h)
  <2>1. Takes(h, o) /\ ChunksOf(Asked(h), o, c, Total[o]) /\ Total[o] \in Nat
    BY <1>1, <1>8 DEF Finishes, c
  <2>2. m.k = "chunk" /\ m.f = o /\ m.i = c /\ c < Total[o] /\ ChunksOf(t, o, c + 1, Total[o])
    BY <1>1, <1>2, <2>1
  <2> QED BY <1>8, <2>1, <2>2 DEF m, t, c
<1> QED BY <1>3, <1>4, <1>5, <1>6, <1>7, <1>8 DEF Talking, Talks

\* The peer's loop answers with one frame.
LEMMA AnswersTalk ==
  ASSUME NEW h \in Nodes, Talking(h), NEW n \in Nodes, LoopDispatches(n), NEW e \in Frames, Acked(Peer(h), e), UNCHANGED work
  PROVE  /\ wire'[h] = Append(wire[h], e) /\ Asked(h)' = Tail(Asked(h)) /\ (Alive(h)' <=> Alive(h)) /\ (Through(h)' <=> Through(h))
         /\ ~e.half /\ (Quiet(h) \/ Greets(h) \/ Pushes(h) \/ Finishes(h) \/ Awaits(h) \/ Fetches(h))' => Talks(h)'
<1> DEFINE p == Peer(h)
<1>0. /\ p \in Nodes /\ p # h /\ ~busy[p] /\ work[p].phase = "none" /\ inbox'[h] = <<>> /\ inbox'[p] \o wire[p] = Tail(Asked(h))
      /\ UNCHANGED sock /\ wire[h] \in Seq(Frames)
  BY TalkingIs, DispatchIs
<1>1. Sent(p, e)
  BY <1>0 DEF Acked
<1>2. wire'[h] = Append(wire[h], e) /\ wire'[p] = wire[p]
  BY <1>1, HeardMore
<1>3. Asked(h)' = Tail(Asked(h)) /\ (Alive(h)' <=> Alive(h)) /\ (Through(h)' <=> Through(h))
  BY <1>0, <1>2 DEF Asked, Alive, Through
<1>4. ASSUME ~e.half PROVE \A i \in 1..Len(wire'[h]) : ~wire'[h][i].half
  <2>1. /\ Len(wire'[h]) = Len(wire[h]) + 1 /\ wire'[h][Len(wire[h]) + 1] = e /\ Len(wire[h]) \in Nat
        /\ \A i \in 1..Len(wire[h]) : wire'[h][i] = wire[h][i]
    BY <1>0, <1>2, AppendProperties
  <2>2. \A i \in 1..Len(wire[h]) : ~wire[h][i].half
    BY DEF Talking, Talks
  <2> QED BY <1>4, <2>1, <2>2
<1> QED BY <1>0, <1>2, <1>3, <1>4 DEF Talks

\* A FileMeta is accepted or refused.
LEMMA AcceptsTalk ==
  ASSUME NEW h \in Nodes, Talking(h), NEW n \in Nodes, LoopDispatches(n), Head(Asked(h)).k = "meta"
  PROVE  Talks(h)'
<1> DEFINE p == Peer(h)
           m == Head(Asked(h))
           o == work[h].op
           yes == F("ack", None, 0)
           no == F("nack", None, 0)
           r == [f |-> m.f, i |-> 0, dir |-> reserved[p], whole |-> TRUE]
<1>0. /\ p \in Nodes /\ p # h /\ m.k = "meta" /\ Alive(h) /\ work[p].phase = "none" /\ Asked(h) # <<>>
      /\ OnRequest(p, m) \/ OnMeta(p, m) \/ OnChunk(p, m) \/ OnAck(p, m)
      /\ wire[h] \in Seq(Frames)
  BY TalkingIs, DispatchIs
<1>1. m.f = o /\ Tail(Asked(h)) = <<>> /\ Greets(h) /\ wire[h] = <<>> /\ Free(h)
  BY <1>0, HeadTells
<1>2. recv \in [Nodes -> Recvs]
  BY DEF Talking, OwnInv, Shape
<1> HIDE DEF m
<1>3. OnMeta(p, m)
  BY <1>0 DEF OnRequest, OnChunk, OnAck
<1>4. /\ yes \in Frames /\ yes.k = "ack" /\ yes.i = 0 /\ ~yes.half
      /\ no \in Frames /\ no.k = "nack" /\ ~no.half
  BY DEF F, Frames
<1>5. /\ UNCHANGED <<work, published>>
      /\ m.f \in Refused => Acked(p, no) /\ UNCHANGED recv
      /\ m.f \notin Refused => Acked(p, yes) /\ recv' = [recv EXCEPT ![p] = r]
  BY <1>3 DEF OnMeta
<1>6. r.f = o /\ r.i = 0 /\ r.whole
  BY <1>1
<1>7. work[h].phase = "greet"
  BY <1>1 DEF Greets
<1> HIDE DEF yes, no, r
<1>8. CASE m.f \in Refused
  <2>1. wire'[h] = Append(wire[h], no) /\ Asked(h)' = <<>> /\ (Through(h)' <=> Through(h))
    BY <1>1, <1>4, <1>5, <1>8, AnswersTalk
  <2>2. One(wire'[h], "nack")
    BY <1>0, <1>1, <1>4, <2>1, ShapeAppend
  <2>3. Free(h)' /\ Through(h)'
    BY <1>0, <1>1, <1>5, <1>8, <2>1 DEF Free, Through
  <2>4. Greets(h)'
    BY <1>5, <1>7, <2>1, <2>2, <2>3 DEF Greets
  <2> QED BY <1>4, <1>5, <1>8, <2>4, AnswersTalk
<1>9. CASE m.f \notin Refused
  <2>1. wire'[h] = Append(wire[h], yes) /\ Asked(h)' = <<>>
    BY <1>1, <1>4, <1>5, <1>9, AnswersTalk
  <2>2. One(wire'[h], "ack") /\ wire'[h][1].i = 0
    BY <1>0, <1>1, <1>4, <2>1, ShapeAppend
  <2>3. recv'[p] = r /\ work'[h].op = o
    BY <1>0, <1>2, <1>5, <1>9
  <2>4. Takes(h, o)' /\ recv'[p].i = 0
    BY <1>6, <2>3 DEF Takes
  <2>5. Greets(h)'
    BY <1>0, <1>5, <1>7, <2>1, <2>2, <2>3, <2>4 DEF Greets
  <2> QED BY <1>4, <1>5, <1>9, <2>5, AnswersTalk
<1> QED BY <1>8, <1>9

\* A FileRequest is given to a worker, or lost in a crowded pool.
LEMMA LendsTalk ==
  ASSUME NEW h \in Nodes, Talking(h), NEW n \in Nodes, LoopDispatches(n), Head(Asked(h)).k = "request"
  PROVE  Talks(h)'
<1> DEFINE p == Peer(h)
           m == Head(Asked(h))
           o == work[h].op
<1>0. /\ p \in Nodes /\ p # h /\ m.k = "request" /\ Alive(h) /\ work[p].phase = "none" /\ Asked(h) # <<>> /\ ~busy[p]
      /\ OnRequest(p, m) \/ OnMeta(p, m) \/ OnChunk(p, m) \/ OnAck(p, m)
      /\ inbox'[h] = <<>> /\ inbox'[p] \o wire[p] = Tail(Asked(h)) /\ (Tail(Asked(h)) = <<>> => inbox'[p] = <<>>)
      /\ UNCHANGED sock
  BY TalkingIs, DispatchIs
<1>1. m.f = o /\ Tail(Asked(h)) = <<>> /\ Awaits(h) /\ wire[h] = <<>> /\ Free(h)
  BY <1>0, HeadTells
<1>2. work \in [Nodes -> Works] /\ Talks(h)
  BY DEF Talking, OwnInv, Shape
<1> HIDE DEF m
<1>3. OnRequest(p, m)
  BY <1>0 DEF OnMeta, OnChunk, OnAck
<1>4. UNCHANGED <<wire, recv, published>> /\ (Lent(p, o) \/ UNCHANGED work)
  BY <1>0, <1>1, <1>3 DEF OnRequest
<1>5. Asked(h)' = <<>> /\ Free(h)' /\ inbox'[p] = <<>>
  BY <1>0, <1>1, <1>4 DEF Asked, Free
<1>6. work[h].phase = "await" /\ work[h].i = 0
  BY <1>1 DEF Awaits
<1>7. CASE UNCHANGED work
  <2>1. Through(h)'
    BY <1>0, <1>7 DEF Through
  <2>2. Awaits(h)'
    BY <1>1, <1>4, <1>5, <1>6, <1>7, <2>1 DEF Awaits
  <2> QED BY <1>0, <1>2, <1>4, <1>5, <2>2 DEF Talks
<1>8. CASE Lent(p, o)
  <2>1. work'[h] = work[h] /\ work'[p] = [NoWork EXCEPT !.op = o, !.phase = "queued"]
    BY <1>0, <1>2, <1>8 DEF Lent
  <2>2. work'[p].phase = "queued" /\ work'[p].op = o
    BY <2>1 DEF NoWork
  <2>3. Awaits(h)'
    BY <1>1, <1>4, <1>5, <1>6, <2>1, <2>2 DEF Awaits
  <2> QED BY <1>0, <1>2, <1>4, <1>5, <2>3 DEF Talks
<1> QED BY <1>4, <1>7, <1>8

\* A chunk in order: one of many, or the last one, which publishes the file.
LEMMA WritesChunkTalk ==
  ASSUME NEW h \in Nodes, Talking(h), NEW n \in Nodes, LoopDispatches(n), Head(Asked(h)).k = "chunk"
  PROVE  Talks(h)'
<1> DEFINE p == Peer(h)
           m == Head(Asked(h))
           t == Tail(Asked(h))
           o == work[h].op
           r == recv[p]
           c == r.i
           e == F("ack", None, c + 1)
<1>0. /\ p \in Nodes /\ p # h /\ m.k = "chunk" /\ Alive(h) /\ work[p].phase = "none" /\ Asked(h) # <<>> /\ Asked(h) \in Seq(Frames)
      /\ OnRequest(p, m) \/ OnMeta(p, m) \/ OnChunk(p, m) \/ OnAck(p, m)
      /\ wire[h] \in Seq(Frames) /\ r \in Recvs /\ work[h] \in Works
      /\ (work[h].phase # "none" => o \in Ops /\ Total[o] \in Nat)
  BY TalkingIs, DispatchIs
<1>1. /\ m.f = o /\ m.i = c /\ Takes(h, o)
      /\ \/ Pushes(h) /\ c < work[h].i /\ ChunksOf(t, o, c + 1, work[h].i)
         \/ Finishes(h) /\ c < Total[o] /\ ChunksOf(t, o, c + 1, Total[o])
  BY <1>0, HeadTells
<1>2. recv \in [Nodes -> Recvs] /\ c \in Nat /\ work[h].i \in Nat
  BY <1>0 DEF Talking, OwnInv, Shape, Recvs, Works
<1>3. o \in Ops /\ Total[o] \in Nat /\ c < Total[o] /\ r.f = o /\ r.whole
  BY <1>0, <1>1, <1>2 DEF Pushes, Finishes, Takes
<1>4. r # NoRecv /\ t \in Seq(Frames)
  BY <1>0, <1>3, HeadIs, NoneAssumption DEF NoRecv
<1> HIDE DEF m, t, r
<1>5. OnChunk(p, m)
  BY <1>0 DEF OnRequest, OnMeta, OnAck
<1>6. Fits(m, r.f, c)
  BY <1>1, <1>3 DEF Fits
<1>7. /\ UNCHANGED work /\ Acked(p, e)
      /\ c + 1 # Total[o] => recv' = [recv EXCEPT ![p] = [r EXCEPT !.i = c + 1, !.whole = TRUE]] /\ published' = published
      /\ c + 1 = Total[o] => recv' = [recv EXCEPT ![p] = NoRecv] /\ published' = published \cup {<<o, r.dir>>}
  <2>1. (r.whole /\ m.f = r.f) = TRUE
    BY <1>0, <1>1, <1>3 DEF Recvs
  <2> HIDE DEF e
  <2>2. UNCHANGED work
    BY <1>5 DEF OnChunk
  <2>3. Acked(p, e)
    BY <1>3, <1>4, <1>5, <1>6, <2>1 DEF OnChunk, r, e
  <2>4. ASSUME c + 1 # Total[o]
        PROVE  recv' = [recv EXCEPT ![p] = [r EXCEPT !.i = c + 1, !.whole = TRUE]] /\ published' = published
    BY <1>3, <1>4, <1>5, <1>6, <2>1, <2>4 DEF OnChunk, r
  <2>5. ASSUME c + 1 = Total[o]
        PROVE  recv' = [recv EXCEPT ![p] = NoRecv] /\ published' = published \cup {<<o, r.dir>>}
    BY <1>3, <1>4, <1>5, <1>6, <2>1, <2>5 DEF OnChunk, r
  <2> QED BY <2>2, <2>3, <2>4, <2>5
<1>8. e \in Frames /\ e.k = "ack" /\ e.i = c + 1 /\ ~e.half
  <2>1. c + 1 \in Nat
    BY <1>2
  <2> QED BY <2>1 DEF F, Frames
<1> HIDE DEF e
<1>9. wire'[h] = Append(wire[h], e) /\ Asked(h)' = t /\ (Alive(h)' <=> Alive(h))
  BY <1>7, <1>8, AnswersTalk DEF t
<1>10. /\ Len(wire'[h]) = Len(wire[h]) + 1 /\ wire'[h][Len(wire[h]) + 1] = e /\ Len(wire[h]) \in Nat
       /\ \A i \in 1..Len(wire[h]) : wire'[h][i] = wire[h][i]
  BY <1>0, <1>9, AppendProperties
<1>11. c + 1 # Total[o] => recv'[p].i = c + 1 /\ Takes(h, o)'
  <2> SUFFICES ASSUME c + 1 # Total[o] PROVE recv'[p].i = c + 1 /\ Takes(h, o)'
    OBVIOUS
  <2>1. recv'[p] = [r EXCEPT !.i = c + 1, !.whole = TRUE] /\ work'[h].op = o
    BY <1>0, <1>2, <1>7
  <2>2. recv'[p].i = c + 1 /\ recv'[p].f = o /\ recv'[p].whole
    BY <1>0, <1>3, <2>1 DEF Recvs
  <2> QED BY <2>1, <2>2 DEF Takes
<1>12. ASSUME (Pushes(h) \/ Finishes(h))' PROVE Talks(h)'
  BY <1>7, <1>8, <1>12, AnswersTalk
<1>13. CASE Pushes(h) /\ c < work[h].i /\ ChunksOf(t, o, c + 1, work[h].i)
  <2>1. /\ work[h].phase = "chunks" /\ work[h].i < Total[o]
        /\ \A i \in 1..Len(wire[h]) : wire[h][i].k = "ack" /\ wire[h][i].i < Total[o]
    BY <1>13 DEF Pushes
  <2>2. c + 1 # Total[o] /\ c + 1 <= work[h].i /\ c + 1 < Total[o]
    BY <1>2, <1>3, <1>13, <2>1
  <2>3. ASSUME NEW i \in 1..Len(wire'[h]) PROVE wire'[h][i].k = "ack" /\ wire'[h][i].i < Total[o]
    <3>1. CASE i = Len(wire[h]) + 1
      BY <1>8, <1>10, <2>2, <3>1
    <3>2. CASE i # Len(wire[h]) + 1
      <4>1. i \in 1..Len(wire[h])
        BY <1>10, <3>2
      <4> QED BY <1>10, <2>1, <4>1
    <3> QED BY <3>1, <3>2
  <2>4. Pushes(h)'
    BY <1>0, <1>7, <1>9, <1>11, <1>13, <2>1, <2>2, <2>3 DEF Pushes
  <2> QED BY <1>12, <2>4
<1>14. CASE Finishes(h) /\ c < Total[o] /\ ChunksOf(t, o, c + 1, Total[o])
  <2>1. /\ work[h].phase = "final"
        /\ \A i \in 1..Len(wire[h]) : wire[h][i].k = "ack" /\ ~(wire[h][i].i >= Total[o])
    BY <1>0, <1>14 DEF Finishes
  <2>2. CASE c + 1 # Total[o]
    <3>1. c + 1 < Total[o] /\ ~(c + 1 >= Total[o])
      BY <1>2, <1>3, <2>2
    <3>2. ASSUME NEW i \in 1..Len(wire'[h]) PROVE wire'[h][i].k = "ack" /\ ~(wire'[h][i].i >= Total[o])
      <4>1. CASE i = Len(wire[h]) + 1
        BY <1>8, <1>10, <3>1, <4>1
      <4>2. CASE i # Len(wire[h]) + 1
        <5>1. i \in 1..Len(wire[h])
          BY <1>10, <4>2
        <5> QED BY <1>10, <2>1, <5>1
      <4> QED BY <4>1, <4>2
    <3>3. Finishes(h)'
      BY <1>0, <1>7, <1>9, <1>11, <1>14, <2>1, <2>2, <3>1, <3>2 DEF Finishes
    <3> QED BY <1>12, <3>3
  <2>3. CASE c + 1 = Total[o]
    <3>1. recv'[p] = NoRecv
      BY <1>0, <1>2, <1>7, <2>3
    <3>2. Free(h)' /\ Published(o)'
      <4>1. <<o, r.dir>> \in published'
        BY <1>7, <2>3
      <4>2. <<o, r.dir>>[1] = o
        OBVIOUS
      <4>3. Published(o)'
        BY <1>7, <4>1, <4>2 DEF Published
      <4> QED BY <3>1, <4>3 DEF Free
    <3>3. t = <<>>
      BY <1>3, <1>4, <1>14, <2>3, ShapeEmpty
    <3>4. ASSUME NEW i \in 1..Len(wire'[h])
          PROVE  wire'[h][i].k = "ack" /\ (wire'[h][i].i >= Total[o] => i = Len(wire'[h]))
      <4>1. CASE i = Len(wire[h]) + 1
        BY <1>8, <1>10, <4>1
      <4>2. CASE i # Len(wire[h]) + 1
        <5>1. i \in 1..Len(wire[h])
          BY <1>10, <4>2
        <5> QED BY <1>10, <2>1, <5>1
      <4> QED BY <4>1, <4>2
    <3>5. Finishes(h)'
      BY <1>0, <1>7, <1>9, <2>1, <3>2, <3>3, <3>4 DEF Finishes
    <3> QED BY <1>12, <3>5
  <2> QED BY <2>2, <2>3
<1> QED BY <1>1, <1>13, <1>14

LEMMA DispatchTalk ==
  ASSUME NEW h \in Nodes, Talking(h), NEW n \in Nodes, LoopDispatches(n)
  PROVE  Talks(h)'
<1>1. Head(Asked(h)).k \in {"request", "meta", "chunk", "ack", "nack"}
  <2> DEFINE m == Head(Asked(h))
  <2>1. OnRequest(Peer(h), m) \/ OnMeta(Peer(h), m) \/ OnChunk(Peer(h), m) \/ OnAck(Peer(h), m)
    BY DispatchIs
  <2> HIDE DEF m
  <2>2. m.k \in {"request", "meta", "chunk", "ack", "nack"}
    BY <2>1 DEF OnRequest, OnMeta, OnChunk, OnAck
  <2> QED BY <2>2 DEF m
<1> QED BY <1>1, LogsTalk, AcceptsTalk, LendsTalk, WritesChunkTalk

-----------------------------------------------------------------------------
(* The promise kept.                                                       *)

\* A socket that is shut stays so, what is in place stays there.
LEMMA NeverBack ==
  ASSUME OwnInv, Behaves
  PROVE  (\A h \in Nodes : sock'[h] = "open" => sock[h] = "open") /\ published \subseteq published'
<1>0. sock \in [Nodes -> {"open", "shut", "closed"}]
  BY DEF OwnInv, Shape
<1>1. CASE Command
  BY <1>1 DEF Command, Ask, AskAsync
<1>2. ASSUME NEW n \in Nodes, Cancel(n) \/ Watchdog(n)
      PROVE  (\A h \in Nodes : sock'[h] = "open" => sock[h] = "open") /\ published \subseteq published'
  BY <1>0, <1>2 DEF Cancel, Watchdog, Killed, Ended
<1>3. ASSUME NEW n \in Nodes, WorkerOf(n)
      PROVE  UNCHANGED sock /\ published \subseteq published'
  <2>1. CASE WorkerReads(n)
    <3>1. published \subseteq published'
      BY <2>1 DEF WorkerReads, WaitAck, WaitMeta, WaitChunk, Drain
    <3> QED BY <2>1, <3>1 DEF WorkerReads
  <2> QED BY <1>3, <2>1 DEF WorkerOf, Worker, WorkerTakes, WorkerWrites, WorkerStops, WorkerServed, WorkerReleases, WorkerReleasesAgain
<1>4. ASSUME NEW n \in Nodes, EventLoop(n) \/ LoopReadsHalf(n)
      PROVE  (\A h \in Nodes : sock'[h] = "open" => sock[h] = "open") /\ published \subseteq published'
  <2>1. CASE LoopDispatches(n)
    <3>1. published \subseteq published'
      BY <2>1 DEF LoopDispatches, OnRequest, OnMeta, OnChunk, OnAck
    <3> QED BY <2>1, <3>1 DEF LoopDispatches
  <2>2. CASE LoopCloses(n)
    BY <1>0, <2>2 DEF LoopCloses, Close, Ended, loopUnchanged
  <2> QED BY <1>4, <2>1, <2>2 DEF EventLoop, LoopReads, LoopReadsHalf, loopUnchanged
<1> QED BY <1>1, <1>2, <1>3, <1>4 DEF Behaves

LEMMA TalkKept ==
  ASSUME OwnInv, Sources, TalkInv, Behaves
  PROVE  TalkInv'
<1> SUFFICES ASSUME NEW h \in Nodes, Solo(h)', sock'[h] = "open"
             PROVE  Talks(h)'
  BY DEF TalkInv
<1>1. Solo(h)
  BY SourcesKept, SoloBefore
<1>2. Talking(h)
  BY <1>1, NeverBack DEF Talking, TalkInv
<1>3. CASE Command
  BY <1>2, <1>3, AskTalk DEF Command
<1>4. ASSUME NEW n \in Nodes, Cancel(n) \/ Watchdog(n) PROVE Talks(h)'
  BY <1>2, <1>4, KilledTalk
<1>5. ASSUME NEW n \in Nodes, WorkerOf(n) PROVE Talks(h)'
  <2>1. n = h \/ n = Peer(h)
    BY PeerIs
  <2> QED BY <1>2, <1>5, <2>1, TakesTalk, HomeWritesTalk, PeerWritesTalk, HomeReadsTalk, PeerReadsTalk, StopsTalk, EndsTalk DEF WorkerOf, Worker
<1>6. ASSUME NEW n \in Nodes, EventLoop(n) \/ LoopReadsHalf(n) PROVE Talks(h)'
  BY <1>2, <1>6, LoopReadsTalk, DispatchTalk DEF EventLoop
<1> QED BY <1>3, <1>4, <1>5, <1>6 DEF Behaves

\* Who is told OK, by a worker that has read the last ack or written the last chunk.
LEMMA OkIsDelivered ==
  ASSUME NEW n \in Nodes, Talking(n), WorkerReads(n),
         NEW o \in Ops, work[n].op = o, client[o] # "ok", client'[o] = "ok"
  PROVE  Delivered(o)'
<1> DEFINE w == work[n]
           m == Head(wire[n])
<1>0. /\ w \in Works /\ wire[n] \in Seq(Frames) /\ wire[n] # <<>>
      /\ \A x \in Ops : Total[x] \in Nat /\ Total[x] > 0
  BY TalkingIs DEF WorkerReads
<1>1. m = wire[n][1] /\ 1 \in 1..Len(wire[n])
  BY <1>0, ShapeTail
<1>2. Tasked(n) /\ OwnInv /\ Talks(n)
  BY DEF Talking, Sources
<1>3. ASSUME Done(n, "error") PROVE FALSE
  BY <1>2, <1>3, DoneSays
<1> HIDE DEF m
<1>4. CASE WaitAck(n, m)
  <2>1. w.phase = "final" /\ m.k = "ack" /\ Enough(w, m.i) /\ UNCHANGED published
    <3>1. w.phase \in {"greet", "final"} /\ UNCHANGED published
      BY <1>4 DEF WaitAck
    <3>2. CASE m.k = "nack"
      BY <1>3, <1>4, <3>2 DEF WaitAck
    <3>3. CASE m.k = "ack" /\ Enough(w, m.i) /\ w.phase = "greet"
      <4>1. Goes(n, IF m.i < Total[o] THEN "chunks" ELSE "final", m.i)
        BY <1>4, <3>3 DEF WaitAck
      <4> QED BY <4>1 DEF Goes
    <3>4. CASE m.k # "nack" /\ ~(m.k = "ack" /\ Enough(w, m.i))
      <4>1. UNCHANGED client
        BY <1>4, <3>4 DEF WaitAck
      <4> QED BY <4>1
    <3> QED BY <3>1, <3>2, <3>3, <3>4
  <2>2. Finishes(n)
    BY <1>2, <2>1 DEF Talks, Quiet, Greets, Pushes, Awaits, Fetches
  <2>3. m.i >= Total[o]
    BY <2>1 DEF Enough
  <2>4. Published(o)
    BY <1>1, <2>2, <2>3 DEF Finishes
  <2>5. Kind[o] = "send"
    BY <1>2, <2>1 DEF Tasked
  <2> QED BY <2>1, <2>4, <2>5 DEF Published, Delivered
<1>5. CASE WaitMeta(n, m)
  <2>1. ~UNCHANGED client
    OBVIOUS
  <2>2. m.k = "nack" => Done(n, "error")
    BY <1>5 DEF WaitMeta
  <2>3. m.k # "nack" => UNCHANGED client
    BY <1>5 DEF WaitMeta
  <2> QED BY <1>3, <2>1, <2>2, <2>3
<1>6. CASE WaitChunk(n, m)
  <2> DEFINE whole == w.whole /\ m.f = w.file
  <2>1. /\ whole /\ published' = published \cup {<<w.file, o>>}
    <3>1. ~UNCHANGED client
      OBVIOUS
    <3>2. m.k = "chunk" /\ Fits(m, w.file, w.i) /\ ~(w.i + 1 < Total[w.file])
      BY <1>3, <1>6, <3>1 DEF WaitChunk
    <3>3. /\ Done(n, IF whole THEN "ok" ELSE "error")
          /\ published' = published \cup (IF whole THEN {<<w.file, o>>} ELSE {})
      BY <1>6, <3>2 DEF WaitChunk
    <3> QED BY <1>3, <3>3
  <2>2. w.phase = "fetch"
    BY <1>6 DEF WaitChunk
  <2>3. Fetches(n)
    BY <1>2, <2>2 DEF Talks, Quiet, Greets, Pushes, Finishes, Awaits
  <2>4. w.file = o /\ work[n].op = o
    BY <2>3 DEF Fetches
  <2>5. <<o, o>> \in published' /\ <<o, o>>[1] = o /\ <<o, o>>[2] = o
    BY <2>1, <2>4
  <2>6. Delivered(o)'
    <3>1. \A x : <<x, x>> \in published' /\ <<x, x>>[1] = x /\ <<x, x>>[2] = x =>
            \E y \in published' : y[1] = x /\ (Kind[x] = "send" \/ y[2] = x)
      OBVIOUS
    <3> QED BY <2>5, <3>1 DEF Delivered
  <2> QED BY <2>6
<1>7. ~Drain(n, m)
  BY TalkingIs DEF Drain
<1> QED BY <1>4, <1>5, <1>6, <1>7 DEF WorkerReads, m

LEMMA KeptKept ==
  ASSUME OwnInv, Sources, TalkInv, Kept, Behaves
  PROVE  Kept'
<1> SUFFICES ASSUME NEW o \in Ops, client'[o] = "ok", Solo(Home[o])'
             PROVE  Delivered(o)'
  BY DEF Kept
<1>0. Home[o] \in Nodes /\ client \in [Ops -> {"new", "waiting", "requested", "ok", "error", "closed"}]
  BY TotalIs DEF OwnInv, Shape
<1>1. Solo(Home[o])
  BY <1>0, SourcesKept, SoloBefore
<1>2. CASE client[o] = "ok"
  <2>1. Delivered(o)
    BY <1>1, <1>2 DEF Kept
  <2> QED BY <2>1, NeverBack DEF Delivered
<1>3. CASE client[o] # "ok"
  <2>1. ~UNCHANGED client
    BY <1>3
  <2>2. ~Command
    BY <1>0, <1>3 DEF Command, Ask, AskAsync, Told
  <2>3. \A n \in Nodes : ~Cancel(n) /\ ~Watchdog(n) /\ ~EventLoop(n) /\ ~LoopReadsHalf(n)
    BY <2>1 DEF Cancel, Watchdog, EventLoop, LoopReads, LoopReadsHalf, LoopCloses, LoopDispatches, loopUnchanged
  <2>4. PICK n \in Nodes : WorkerOf(n)
    BY <2>2, <2>3 DEF Behaves
  <2>5. ~WorkerTakes(n)
    BY <1>0, <1>3 DEF WorkerTakes, Told
  <2>6. ASSUME Done(n, "error") PROVE FALSE
    BY <1>3, <2>6, DoneSays
  <2>7. ~WorkerWrites(n)
    BY <2>1, <2>6 DEF WorkerWrites, Writes, Goes
  <2>8. ~WorkerStops(n)
    BY <2>6 DEF WorkerStops
  <2>9. ~WorkerServed(n)
    <3> SUFFICES ASSUME WorkerServed(n) PROVE FALSE
      OBVIOUS
    <3>1. work[n].phase = "drain" /\ Done(n, "ok")
      BY DEF WorkerServed
    <3>2. Home[work[n].op] # n
      BY <3>1 DEF Sources, Tasked
    <3> QED BY <2>1, <3>1, <3>2 DEF Done
  <2>10. ~WorkerReleases(n) /\ ~WorkerReleasesAgain(n)
    BY <2>1 DEF WorkerReleases, WorkerReleasesAgain
  <2>11. WorkerReads(n)
    BY <2>4, <2>5, <2>7, <2>8, <2>9, <2>10 DEF WorkerOf, Worker
  <2>12. o = work[n].op /\ Home[o] = n
    <3>1. ASSUME NEW result \in {"ok", "error"}, Done(n, result) PROVE o = work[n].op /\ Home[o] = n
      BY <1>3, <3>1, DoneSays
    <3>2. Done(n, "ok") \/ Done(n, "error")
      BY <2>1, <2>11, ReadsIs DEF Heard, Goes
    <3> QED BY <3>1, <3>2
  <2>13. Talking(n)
    BY <1>1, <2>11, <2>12 DEF Talking, TalkInv, WorkerReads
  <2> QED BY <1>3, <2>11, <2>12, <2>13, OkIsDelivered
<1> QED BY <1>2, <1>3

\* The invariant.
PromiseInv == OwnInv /\ Sources /\ TalkInv /\ Kept

LEMMA InitPromise == Init => PromiseInv
<1> SUFFICES ASSUME Init PROVE PromiseInv
  OBVIOUS
<1>1. OwnInv
  BY InitOwned
<1>2. Requests(<<>>) = {}
  <2>1. Len(<<>>) = 0
    OBVIOUS
  <2> QED BY <2>1 DEF Requests
<1>3. NoWork.phase = "none" /\ ~NoWork.cancelled
  BY DEF NoWork
<1>4. ASSUME NEW n \in Nodes PROVE Requested(wire[n], n) /\ Requested(inbox[n], n) /\ Tasked(n) /\ Deaf(n)
  BY <1>2, <1>3 DEF Init, Requested, Tasked, Deaf
<1>5. Sources /\ Kept
  BY <1>4 DEF Sources, Kept, Init
<1>6. ASSUME NEW h \in Nodes PROVE Talks(h)
  <2> DEFINE p == Peer(h)
  <2>1. p \in Nodes
    BY PeerIs
  <2> HIDE DEF p
  <2>2. /\ wire[h] = <<>> /\ inbox[h] = <<>> /\ wire[p] = <<>> /\ inbox[p] = <<>>
        /\ work[h].phase = "none" /\ work[p].phase = "none" /\ recv[p] = NoRecv
    BY <1>3, <2>1 DEF Init
  <2>3. Asked(h) = <<>> /\ Free(h) /\ Through(h)
    BY <2>2 DEF Asked, Free, Through, p
  <2>4. Quiet(h)
    BY <2>2, <2>3, ShapeEmpty DEF Quiet
  <2>5. Len(wire[h]) = 0
    BY <2>2
  <2> QED BY <2>2, <2>4, <2>5 DEF Talks, p
<1>7. TalkInv
  BY <1>6 DEF TalkInv
<1> QED BY <1>1, <1>5, <1>7 DEF PromiseInv

LEMMA StepPromise ==
  ASSUME PromiseInv, Behaves \/ UNCHANGED vars
  PROVE  PromiseInv'
<1>1. OwnInv'
  BY StepOwned DEF PromiseInv
<1>2. CASE Behaves
  BY <1>1, <1>2, SourcesKept, TalkKept, KeptKept DEF PromiseInv
<1>3. CASE UNCHANGED vars
  <2>1. UNCHANGED <<sock, wire, inbox, work, recv, client, published>>
    BY <1>3 DEF vars
  <2>2. Sources'
    BY <2>1 DEF PromiseInv, Sources, Requested, Tasked, Deaf
  <2>3. ASSUME NEW h \in Nodes PROVE (Solo(h)' <=> Solo(h)) /\ (Talks(h)' <=> Talks(h))
    <3>1. /\ Alive(h)' <=> Alive(h)
          /\ Free(h)' <=> Free(h)
          /\ Through(h)' <=> Through(h)
          /\ \A o : (Supplies(h, o)' <=> Supplies(h, o)) /\ (Takes(h, o)' <=> Takes(h, o)) /\ (Published(o)' <=> Published(o))
          /\ Asked(h)' = Asked(h) /\ (Solo(h)' <=> Solo(h))
      BY <2>1 DEF Alive, Free, Through, Supplies, Takes, Published, Asked, Solo
    <3>2. /\ Quiet(h)' <=> Quiet(h)
          /\ Greets(h)' <=> Greets(h)
          /\ Pushes(h)' <=> Pushes(h)
      BY <2>1, <3>1 DEF Quiet, Greets, Pushes
    <3>3. /\ Finishes(h)' <=> Finishes(h)
          /\ Awaits(h)' <=> Awaits(h)
          /\ Fetches(h)' <=> Fetches(h)
      BY <2>1, <3>1 DEF Finishes, Awaits, Fetches
    <3> QED BY <2>1, <3>1, <3>2, <3>3 DEF Talks
  <2>4. TalkInv'
    BY <2>1, <2>3 DEF PromiseInv, TalkInv
  <2>5. Kept'
    BY <2>1, <2>3, TotalIs DEF PromiseInv, Kept, Delivered
  <2> QED BY <1>1, <2>2, <2>4, <2>5 DEF PromiseInv
<1> QED BY <1>2, <1>3

\* Behaviour is defined so far and the promise kept, or two threads have met after it was.
Promised == IF shared THEN SuccessIsPublishedAlone ELSE PromiseInv

LEMMA PromiseSays == PromiseInv => SuccessIsPublishedAlone
<1> SUFFICES ASSUME PromiseInv, NEW o \in Ops, client[o] = "ok", Alone(o) PROVE Delivered(o)
  BY DEF SuccessIsPublishedAlone
<1>1. Kind[o] # "async"
  BY DEF PromiseInv, Sources
<1>2. Solo(Home[o])
  BY <1>1 DEF Solo, Alone
<1> QED BY <1>2 DEF PromiseInv, Kept

\* One more step, the last one perhaps.
LEMMA StepPromised ==
  ASSUME Promised, [Next]_vars
  PROVE  Promised'
<1>1. CASE UNCHANGED vars
  <2>1. PromiseInv => PromiseInv'
    BY <1>1, StepPromise
  <2>2. SuccessIsPublishedAlone => SuccessIsPublishedAlone'
    BY <1>1 DEF vars, SuccessIsPublishedAlone, Alone, Delivered
  <2> QED BY <1>1, <2>1, <2>2 DEF vars, Promised
<1>2. CASE Next
  <2>1. ~shared /\ PromiseInv
    BY <1>2 DEF Next, oneUser, Promised
  <2>2. CASE Behaves /\ ~shared'
    BY <2>1, <2>2, StepPromise DEF Promised
  <2>3. ASSUME NEW n \in Nodes, WorkerReleasesAgain(n), shared' PROVE Promised'
    <3>1. UNCHANGED <<client, published>>
      BY <2>3 DEF WorkerReleasesAgain
    <3>2. SuccessIsPublishedAlone'
      BY <2>1, <3>1, PromiseSays DEF SuccessIsPublishedAlone, Alone, Delivered
    <3> QED BY <2>3, <3>2 DEF Promised
  <2>4. ASSUME NEW n \in Nodes, WorkerReleasesAgain(n), ~shared' PROVE Promised'
    <3>1. work[n].phase = "none"
      BY <2>4 DEF WorkerReleasesAgain
    <3>2. Behaves
      BY <2>4, <3>1 DEF Behaves, WorkerOf
    <3> QED BY <2>2, <2>4, <3>2
  <2>5. CASE oneUser /\ Command
    <3>1. Behaves /\ ~shared'
      BY <2>5 DEF oneUser, Behaves
    <3> QED BY <2>2, <3>1
  <2>6. ASSUME NEW n \in Nodes, oneUser, Cancel(n) \/ Watchdog(n) \/ Worker(n) \/ EventLoop(n) \/ LoopReadsHalf(n)
        PROVE  Promised'
    <3>1. Behaves /\ ~shared'
      BY <2>6 DEF oneUser, Behaves, WorkerOf
    <3> QED BY <2>2, <3>1
  <2> QED BY <1>2, <2>3, <2>4, <2>5, <2>6 DEF Next
<1> QED BY <1>1, <1>2

\* For any two daemons, operations, files, batches and number of worker threads, whatever is refused, cancelled, timed out
\* or left behind on the link: a client is told OK only of a file that was verified and renamed into place, for a pull at
\* the place it named (protocol.md, File transfer), while no operation of the peer, and no request without a waiting
\* client, shares the link; up to the moment a second clear of exec_busy gives the link two users, if it comes.
THEOREM SuccessCorrect == Spec => []SuccessIsPublishedAlone
<1>1. Init => Promised
  BY InitPromise DEF Init, Promised
<1>2. Promised /\ [Next]_vars => Promised'
  BY StepPromised
<1>3. Promised => SuccessIsPublishedAlone
  BY PromiseSays DEF Promised
<1> QED BY <1>1, <1>2, <1>3, PTL DEF Spec
=============================================================================

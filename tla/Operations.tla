----------------------------- MODULE Operations -----------------------------
(***************************************************************************)
(* Long operations on one established mesh link: a local command (push a   *)
(* file, pull one and wait, ask for one and let the loop receive it) or a  *)
(* FileRequest of the peer makes the event loop lend the link's TLS to a   *)
(* worker thread through exec_busy.  From bs-mesh-support.h (the pool),    *)
(* bs-mesh-transfer.h (the three transports, the loop's file handlers, the *)
(* watchdog) and bs-mesh-cli.h (the IPC commands).                         *)
(*                                                                         *)
(* Frames carry no operation id: an ack or a FileMeta belongs to whoever   *)
(* reads it.  The field f of a frame is the file it is really about, which *)
(* only the checksum comparison and the properties may look at.  A file    *)
(* fits in one batch of kTransferPipelineSize chunks; resuming a partial   *)
(* file is the subject of FileTransfer, redialing that of MeshLink.        *)
(***************************************************************************)
EXTENDS Integers, Sequences

CONSTANTS
  Nodes,         \* the two daemons
  Ops,           \* operations, each issued at most once
  Home,          \* Home[o]: the daemon whose client asks for o
  Kind,          \* Kind[o]: send (FILE_SEND_WAIT), pull (FILE_RECV_WAIT), async (FILE_RECV)
  Total,         \* Total[o]: chunks of o's file
  Refused,       \* operations whose file the other end does not serve or accept
  Batch,         \* bound: frames decoded in one read
  Workers,       \* kLongOperationWorkers
  CrowdedPool,   \* whether other links' operations may fill the queue of 64
  MayCancel      \* whether clients cancel

ASSUME OperationsAssumption ==
  /\ \E x, y \in Nodes : x # y /\ Nodes = {x, y}
  /\ Home \in [Ops -> Nodes]
  /\ Kind \in [Ops -> {"send", "pull", "async"}]
  /\ Total \in [Ops -> Nat \ {0}]
  /\ Refused \subseteq Ops
  /\ Batch \in Nat \ {0}
  /\ Workers \in Nat \ {0}
  /\ {CrowdedPool, MayCancel} \subseteq BOOLEAN

Peer(n) == CHOOSE m \in Nodes : m # n
None == "none"

\* The marker is no operation.
ASSUME NoneAssumption == None \notin Ops

VARIABLES
  sock,      \* each end's socket: open, shut (::shutdown), closed (close_conn)
  wire,      \* frames in flight to each end
  inbox,     \* frames decoded by the loop's last read, not yet dispatched
  busy,      \* exec_busy
  closing,   \* close_requested
  work,      \* the task lent the link: queued, running, done
  tails,     \* workers between their first and second clear of exec_busy
  reserved,  \* pending_recv_dir: the operation whose directory it is
  recv,      \* file_receive
  client,    \* what each operation's IPC client knows
  published, \* files renamed into place: <<file, whose directory>>
  shared     \* (history) a worker's second clear of exec_busy freed a link lent again

vars == <<sock, wire, inbox, busy, closing, work, tails, reserved, recv, client, published, shared>>

Most == CHOOSE t \in {Total[o] : o \in Ops} : \A o \in Ops : Total[o] <= t

Frame == [k : {"request", "meta", "chunk", "ack", "nack", "garbage"}, f : Ops \cup {None},
          i : 0..Most, half : BOOLEAN]
F(k, f, i) == [k |-> k, f |-> f, i |-> i, half |-> FALSE]

Phases == {"none", "queued", "meta", "greet", "chunks", "final", "ask", "await", "fetch",
           "serve", "supply", "drain", "done"}
NoWork == [op |-> None, phase |-> "none", i |-> 0, file |-> None, whole |-> TRUE,
           cancelled |-> FALSE]
NoRecv == [f |-> None, i |-> 0, dir |-> None, whole |-> TRUE]

TypeOK ==
  /\ sock \in [Nodes -> {"open", "shut", "closed"}]
  /\ wire \in [Nodes -> Seq(Frame)]
  /\ inbox \in [Nodes -> Seq(Frame)]
  /\ busy \in [Nodes -> BOOLEAN]
  /\ closing \in [Nodes -> BOOLEAN]
  /\ work \in [Nodes -> [op : Ops \cup {None}, phase : Phases, i : 0..Most, file : Ops \cup {None},
                         whole : BOOLEAN, cancelled : BOOLEAN]]
  /\ tails \in [Nodes -> 0..Workers]
  /\ reserved \in [Nodes -> Ops \cup {None}]
  /\ recv \in [Nodes -> [f : Ops \cup {None}, i : 0..Most, dir : Ops \cup {None}, whole : BOOLEAN]]
  /\ client \in [Ops -> {"new", "waiting", "requested", "ok", "error", "closed"}]
  /\ published \subseteq Ops \X (Ops \cup {None})
  /\ shared \in BOOLEAN

Init ==
  /\ sock = [n \in Nodes |-> "open"]
  /\ wire = [n \in Nodes |-> <<>>]
  /\ inbox = [n \in Nodes |-> <<>>]
  /\ busy = [n \in Nodes |-> FALSE]
  /\ closing = [n \in Nodes |-> FALSE]
  /\ work = [n \in Nodes |-> NoWork]
  /\ tails = [n \in Nodes |-> 0]
  /\ reserved = [n \in Nodes |-> None]
  /\ recv = [n \in Nodes |-> NoRecv]
  /\ client = [o \in Ops |-> "new"]
  /\ published = {}
  /\ shared = FALSE

-----------------------------------------------------------------------------
Running(n) == work[n].phase \notin {"none", "queued", "done"}

\* A frame put on the wire of n; nobody reads what a socket that is not open gets.
Sent(n, frame) ==
  wire' = [wire EXCEPT ![Peer(n)] = IF sock[Peer(n)] = "open" THEN Append(@, frame) ELSE @]

\* Both directions of n's socket end; what was in flight to n is never read.
Ended(n, how) ==
  /\ sock' = [sock EXCEPT ![n] = how]
  /\ wire' = [wire EXCEPT ![n] = <<>>]

\* close_conn: deferred while a worker owns the TLS, else reservation and receive end with it.
Close(n) ==
  IF busy[n]
    THEN /\ closing' = [closing EXCEPT ![n] = TRUE]
         /\ UNCHANGED <<sock, wire, inbox, reserved, recv>>
    ELSE /\ closing' = [closing EXCEPT ![n] = FALSE]
         /\ Ended(n, "closed")
         /\ inbox' = [inbox EXCEPT ![n] = <<>>]
         /\ reserved' = [reserved EXCEPT ![n] = None]
         /\ recv' = [recv EXCEPT ![n] = NoRecv]

\* The loop between two handlers: everything read was dispatched.
Loop(n) == inbox[n] = <<>>

\* exec_busy->exchange(true), fresh tokens, the task in the pool's queue.
Lent(n, o) ==
  /\ busy' = [busy EXCEPT ![n] = TRUE]
  /\ work' = [work EXCEPT ![n] = [NoWork EXCEPT !.op = o, !.phase = "queued"]]

-----------------------------------------------------------------------------
(* The local client's commands, one at a time on the event loop. *)

Waiting(o) == client[o] = "new" /\ Loop(Home[o])
Told(o, what) == client' = [client EXCEPT ![o] = what]

\* FILE_SEND_WAIT, FILE_RECV_WAIT: any open link that is not lent, a receive in progress or not.
Ask(o) ==
  LET n == Home[o] IN
  /\ Waiting(o) /\ Kind[o] # "async"
  /\ \/ /\ sock[n] = "closed" \/ busy[n]
        /\ Told(o, "error")
        /\ UNCHANGED <<busy, work>>
     \/ /\ sock[n] # "closed" /\ ~busy[n]
        /\ Told(o, "waiting")
        /\ Lent(n, o)
     \/ /\ sock[n] # "closed" /\ ~busy[n] /\ CrowdedPool  \* enqueue: full, the fd is closed
        /\ Told(o, "closed")
        /\ UNCHANGED <<busy, work>>
  /\ UNCHANGED <<sock, wire, inbox, closing, tails, reserved, recv, published>>

Idle(n) == sock[n] # "closed" /\ ~busy[n] /\ reserved[n] = None /\ recv[n] = NoRecv

\* FILE_RECV: the next FileMeta's directory is reserved and the request sent.
AskAsync(o) ==
  LET n == Home[o] IN
  /\ Waiting(o) /\ Kind[o] = "async"
  /\ IF Idle(n)
       THEN /\ Told(o, "requested")
            /\ reserved' = [reserved EXCEPT ![n] = o]
            /\ IF sock[n] = "open" THEN Sent(n, F("request", o, 0)) ELSE UNCHANGED wire
       ELSE Told(o, "error") /\ UNCHANGED <<reserved, wire>>
  /\ UNCHANGED <<sock, inbox, busy, closing, work, tails, recv, published>>

\* The worker's token and a shutdown of its socket; the worker frees the link itself.
Killed(n) ==
  /\ work' = [work EXCEPT ![n].cancelled = TRUE]
  /\ Ended(n, "shut")

Cancel(n) ==
  /\ MayCancel /\ Loop(n) /\ busy[n] /\ sock[n] = "open"
  /\ Killed(n)
  /\ UNCHANGED <<inbox, busy, closing, tails, reserved, recv, client, published>>

\* Mutant: the watchdog frees the link itself, as it once did.
WatchdogFrees(n) ==
  /\ Loop(n) /\ busy[n] /\ sock[n] = "open"
  /\ Killed(n)
  /\ closing' = [closing EXCEPT ![n] = TRUE]
  /\ busy' = [busy EXCEPT ![n] = FALSE]
  /\ UNCHANGED <<inbox, tails, reserved, recv, client, published>>

\* check_stale_exec: 90 s without a progress line, the queue's time included.
Watchdog(n) ==
  /\ Loop(n) /\ busy[n] /\ sock[n] = "open"
  /\ Killed(n)
  /\ closing' = [closing EXCEPT ![n] = TRUE]
  /\ UNCHANGED <<inbox, busy, tails, reserved, recv, client, published>>

-----------------------------------------------------------------------------
(* The worker thread. *)

workerUnchanged == UNCHANGED <<inbox, closing, tails, reserved, recv>>

FirstPhase(n, o) ==
  IF Home[o] # n THEN "serve" ELSE IF Kind[o] = "send" THEN "meta" ELSE "ask"

\* Mutant: the skipped task's client is forgotten.
WorkerTakesForgets(n) ==
  LET o == work[n].op IN
  /\ work[n].phase = "queued" /\ tails[n] < Workers
  /\ IF work[n].cancelled
       THEN work' = [work EXCEPT ![n] = NoWork] /\ busy' = [busy EXCEPT ![n] = FALSE]
       ELSE work' = [work EXCEPT ![n].phase = FirstPhase(n, o)] /\ UNCHANGED busy
  /\ UNCHANGED <<sock, wire, client, published>>
  /\ workerUnchanged

\* A queued task whose token is set is skipped: its client is closed without a line.
WorkerTakes(n) ==
  LET o == work[n].op IN
  /\ work[n].phase = "queued" /\ tails[n] < Workers
  /\ IF work[n].cancelled
       THEN /\ work' = [work EXCEPT ![n] = NoWork]
            /\ busy' = [busy EXCEPT ![n] = FALSE]
            /\ IF Home[o] = n THEN Told(o, "closed") ELSE UNCHANGED client
       ELSE /\ work' = [work EXCEPT ![n].phase = FirstPhase(n, o)]
            /\ UNCHANGED <<busy, client>>
  /\ UNCHANGED <<sock, wire, published>>
  /\ workerUnchanged

\* The result: a line to the client that waits, a log entry for the peer's request.
Done(n, result) ==
  /\ work' = [work EXCEPT ![n].phase = "done"]
  /\ IF Home[work[n].op] = n THEN Told(work[n].op, result) ELSE UNCHANGED client

Goes(n, phase, i) ==
  /\ work' = [work EXCEPT ![n].phase = phase, ![n].i = i]
  /\ UNCHANGED client

\* What a worker writes, in the order it writes it; a file of one batch.
Writes(n) ==
  LET w == work[n] IN
  \/ w.phase = "meta" /\ Sent(n, F("meta", w.op, 0)) /\ Goes(n, "greet", 0)
  \/ w.phase = "ask" /\ Sent(n, F("request", w.op, 0)) /\ Goes(n, "await", 0)
  \/ /\ w.phase = "serve"
     /\ IF w.op \in Refused
          THEN Sent(n, F("nack", None, 0)) /\ Done(n, "error")
          ELSE Sent(n, F("meta", w.op, 0)) /\ Goes(n, "supply", 0)
  \/ /\ w.phase \in {"chunks", "supply"}
     /\ Sent(n, F("chunk", w.op, w.i))
     /\ Goes(n, IF w.i + 1 < Total[w.op] THEN w.phase
                ELSE IF w.phase = "chunks" THEN "final" ELSE "drain", w.i + 1)

WorkerWrites(n) ==
  /\ sock[n] = "open"
  /\ Writes(n)
  /\ UNCHANGED <<sock, busy, published>>
  /\ workerUnchanged

\* The frame at the head is consumed, an answer written.
Replied(n, frames) ==
  wire' = [wire EXCEPT ![n] = Tail(@),
                       ![Peer(n)] = IF sock[Peer(n)] = "open" THEN @ \o frames ELSE @]

\* Mutant: any ack will do.
EnoughAny(w, next) == TRUE

\* wait_ack: 0 for the peer's first answer, the end of the batch for the last.
Enough(w, next) == next >= IF w.phase = "greet" THEN 0 ELSE Total[w.op]

\* wait_ack reads on past everything that is neither an ack nor a ping.
WaitAck(n, h) ==
  LET w == work[n] IN
  /\ w.phase \in {"greet", "final"}
  /\ Replied(n, <<>>)
  /\ CASE h.k = "nack" -> Done(n, "error")
       [] h.k = "ack" /\ Enough(w, h.i) ->
            IF w.phase = "final" THEN Done(n, "ok")
            ELSE Goes(n, IF h.i < Total[w.op] THEN "chunks" ELSE "final", h.i)
       [] OTHER -> UNCHANGED <<work, client>>
  /\ UNCHANGED published

\* file_recv_wait_on_transport, waiting for the metadata: the first FileMeta is the answer.
WaitMeta(n, h) ==
  /\ work[n].phase = "await"
  /\ CASE h.k = "nack" -> Replied(n, <<>>) /\ Done(n, "error")
       [] h.k = "meta" ->
            /\ Replied(n, <<F("ack", None, 0)>>)
            /\ work' = [work EXCEPT ![n].phase = "fetch", ![n].file = h.f]
            /\ UNCHANGED client
       [] OTHER -> Replied(n, <<>>) /\ UNCHANGED <<work, client>>
  /\ UNCHANGED published

\* validate_transfer_chunk: in order, of a file with as many chunks.
Fits(h, file, i) == h.i = i /\ Total[h.f] = Total[file]

\* ... and receiving: chunks in order, the checksum, the rename.
WaitChunk(n, h) ==
  LET w == work[n]
      next == w.i + 1
      whole == w.whole /\ h.f = w.file
  IN
  /\ w.phase = "fetch"
  /\ \/ /\ h.k = "nack"
        /\ Replied(n, <<>>) /\ Done(n, "error")
        /\ UNCHANGED published
     \/ /\ h.k \notin {"nack", "chunk"}
        /\ Replied(n, <<>>)
        /\ UNCHANGED <<work, client, published>>
     \/ /\ h.k = "chunk" /\ ~Fits(h, w.file, w.i)
        /\ Replied(n, <<F("nack", None, 0)>>) /\ Done(n, "error")
        /\ UNCHANGED published
     \/ /\ h.k = "chunk" /\ Fits(h, w.file, w.i)
        /\ Replied(n, <<F("ack", None, next)>>)
        /\ IF next < Total[w.file]
             THEN /\ work' = [work EXCEPT ![n].i = next, ![n].whole = whole]
                  /\ UNCHANGED <<client, published>>
             ELSE /\ Done(n, IF whole THEN "ok" ELSE "error")
                  /\ published' = published \cup (IF whole THEN {<<w.file, w.op>>} ELSE {})

\* After its last chunk the serving worker looks at what has arrived, and does not wait.
Drain(n, h) ==
  /\ work[n].phase = "drain"
  /\ Replied(n, <<>>)
  /\ IF h.k = "nack" THEN Done(n, "error") ELSE UNCHANGED <<work, client>>
  /\ UNCHANGED published

\* A frame the loop read half of, or what follows one, is no frame to the worker.
Readable(h) == ~h.half /\ h.k # "garbage"

WorkerReads(n) ==
  LET h == Head(wire[n]) IN
  /\ sock[n] = "open" /\ wire[n] # <<>> /\ Readable(h)
  /\ WaitAck(n, h) \/ WaitMeta(n, h) \/ WaitChunk(n, h) \/ Drain(n, h)
  /\ UNCHANGED <<sock, busy>>
  /\ workerUnchanged

Garbled(n) == wire[n] # <<>> /\ ~Readable(Head(wire[n]))
Eof(n) == wire[n] = <<>> /\ sock[Peer(n)] # "open"

\* The token, a dead socket, the peer's end of stream, bytes that do not parse.
WorkerStops(n) ==
  /\ \/ Running(n) /\ (sock[n] # "open" \/ work[n].cancelled) /\ UNCHANGED wire
     \/ /\ work[n].phase \in {"greet", "final", "await", "fetch"}
        /\ Eof(n) /\ UNCHANGED wire
     \/ /\ work[n].phase \in {"greet", "final", "await", "fetch"}
        /\ Garbled(n)
        /\ wire' = [wire EXCEPT ![n][1] = F("garbage", None, 0)]
  /\ Done(n, "error")
  /\ UNCHANGED <<sock, busy, published>>
  /\ workerUnchanged

WorkerServed(n) ==
  /\ work[n].phase = "drain"
  /\ Done(n, "ok")
  /\ UNCHANGED <<sock, wire, busy, published>>
  /\ workerUnchanged

\* The end of execute_long_operation_task clears exec_busy ...
WorkerReleases(n) ==
  /\ work[n].phase = "done"
  /\ work' = [work EXCEPT ![n] = NoWork]
  /\ busy' = [busy EXCEPT ![n] = FALSE]
  /\ tails' = [tails EXCEPT ![n] = @ + 1]
  /\ UNCHANGED <<sock, wire, inbox, closing, reserved, recv, client, published>>

\* ... and worker_loop clears it again, whoever has the link by then.
WorkerReleasesAgain(n) ==
  /\ tails[n] > 0
  /\ shared' = (work[n].phase # "none")
  /\ tails' = [tails EXCEPT ![n] = @ - 1]
  /\ busy' = [busy EXCEPT ![n] = FALSE]
  /\ UNCHANGED <<sock, wire, inbox, closing, work, reserved, recv, client, published>>

-----------------------------------------------------------------------------
(* The event loop's side of the link: skipped while a worker has it. *)

loopUnchanged == UNCHANGED <<busy, work, tails, client, published>>

\* check_conn_read: what has arrived is decoded, the batch dispatched without a pause.
LoopReads(n) ==
  /\ Loop(n) /\ ~busy[n] /\ sock[n] = "open"
  /\ \E k \in 1..Batch :
       /\ k <= Len(wire[n])
       /\ \A j \in 1..k : wire[n][j].k # "garbage"
       /\ inbox' = [inbox EXCEPT ![n] = SubSeq(wire[n], 1, k)]
       /\ wire' = [wire EXCEPT ![n] = SubSeq(@, k + 1, Len(@))]
  /\ UNCHANGED <<sock, closing, reserved, recv>>
  /\ loopUnchanged

\* Half of a chunk is all there is: rx_buffer keeps it.
LoopReadsHalf(n) ==
  /\ Loop(n) /\ ~busy[n] /\ sock[n] = "open"
  /\ wire[n] # <<>> /\ Head(wire[n]).k = "chunk" /\ ~Head(wire[n]).half
  /\ wire' = [wire EXCEPT ![n][1].half = TRUE]
  /\ UNCHANGED <<sock, inbox, closing, reserved, recv>>
  /\ loopUnchanged

\* End of stream, a read error, bytes that do not parse; a close that had to wait.
LoopCloses(n) ==
  /\ Loop(n) /\ ~busy[n] /\ sock[n] # "closed"
  /\ \/ sock[n] = "shut" \/ closing[n] \/ Eof(n)
     \/ wire[n] # <<>> /\ Head(wire[n]).k = "garbage"
  /\ Close(n)
  /\ loopUnchanged

Rest(n) == inbox' = [inbox EXCEPT ![n] = Tail(@)]

\* enqueue_file_ack: an ack that cannot be queued, a worker having the link, closes it.
Acked(n, frame) ==
  IF busy[n]
    THEN closing' = [closing EXCEPT ![n] = TRUE] /\ UNCHANGED wire
    ELSE Sent(n, frame) /\ UNCHANGED closing

\* Mutant: a request the full queue refuses leaves exec_busy set.
OnRequestStuck(n, h) ==
  /\ h.k = "request"
  /\ busy' = [busy EXCEPT ![n] = TRUE]
  /\ UNCHANGED <<wire, closing, work, reserved, recv, published>>

\* handle_file_request: lend the link, unless a request of the same batch did.
OnRequest(n, h) ==
  /\ h.k = "request"
  /\ \/ busy[n] /\ UNCHANGED <<busy, work>>
     \/ ~busy[n] /\ Lent(n, h.f)
     \/ ~busy[n] /\ CrowdedPool /\ UNCHANGED <<busy, work>>
  /\ UNCHANGED <<wire, closing, reserved, recv, published>>

\* handle_file_meta: whatever file it is, the reserved directory is taken for it.
OnMeta(n, h) ==
  /\ h.k = "meta"
  /\ reserved' = [reserved EXCEPT ![n] = None]
  /\ IF h.f \in Refused
       THEN Acked(n, F("nack", None, 0)) /\ UNCHANGED recv
       ELSE /\ recv' = [recv EXCEPT ![n] = [f |-> h.f, i |-> 0, dir |-> reserved[n], whole |-> TRUE]]
            /\ Acked(n, F("ack", None, 0))
  /\ UNCHANGED <<busy, work, published>>

\* handle_file_chunk: in order, then the checksum and the rename.
OnChunk(n, h) ==
  LET r == recv[n]
      next == r.i + 1
      whole == r.whole /\ h.f = r.f
      fits == r # NoRecv /\ Fits(h, r.f, r.i)
      last == fits /\ next = Total[r.f]
      good == fits /\ (last => whole)
  IN
  /\ h.k = "chunk"
  /\ recv' = [recv EXCEPT ![n] = IF fits /\ ~last THEN [@ EXCEPT !.i = next, !.whole = whole] ELSE NoRecv]
  /\ published' = published \cup (IF last /\ whole THEN {<<r.f, r.dir>>} ELSE {})
  /\ Acked(n, IF good THEN F("ack", None, next) ELSE F("nack", None, 0))
  /\ UNCHANGED <<busy, work, reserved>>

\* handle_file_ack only logs.
OnAck(n, h) ==
  /\ h.k \in {"ack", "nack"}
  /\ UNCHANGED <<wire, busy, closing, work, reserved, recv, published>>

LoopDispatches(n) ==
  LET h == Head(inbox[n]) IN
  /\ inbox[n] # <<>>
  /\ Rest(n)
  /\ OnRequest(n, h) \/ OnMeta(n, h) \/ OnChunk(n, h) \/ OnAck(n, h)
  /\ UNCHANGED <<sock, tails, client>>

-----------------------------------------------------------------------------
\* Two threads on one SSL object are undefined behaviour: the model stops where they would meet,
\* and nothing is said of what follows.
oneUser == ~shared /\ UNCHANGED shared

Command == \E o \in Ops : Ask(o) \/ AskAsync(o)
Worker(n) ==
  \/ WorkerTakes(n) \/ WorkerWrites(n) \/ WorkerReads(n) \/ WorkerStops(n)
  \/ WorkerServed(n) \/ WorkerReleases(n)
EventLoop(n) == LoopReads(n) \/ LoopDispatches(n) \/ LoopCloses(n)

Next ==
  \/ oneUser /\ Command
  \/ \E n \in Nodes :
       \/ oneUser /\ (Cancel(n) \/ Watchdog(n) \/ Worker(n) \/ EventLoop(n) \/ LoopReadsHalf(n))
       \/ ~shared /\ WorkerReleasesAgain(n)

Spec == Init /\ [][Next]_vars

\* Threads are scheduled, the loop comes round, 90 seconds pass.
FairSpec ==
  /\ Spec
  /\ \A n \in Nodes :
       /\ WF_vars(oneUser /\ Worker(n)) /\ WF_vars(~shared /\ WorkerReleasesAgain(n))
       /\ WF_vars(oneUser /\ EventLoop(n)) /\ WF_vars(oneUser /\ Watchdog(n))

-----------------------------------------------------------------------------
\* A task that is queued or runs has the link: the loop and a worker, or two workers, never
\* use one SSL object at once (design.md, Exclusive TLS ownership).  The code breaks this: the
\* loop may lend the link between a worker's two clears of exec_busy.
Exclusive == \A n \in Nodes : work[n].phase # "none" => busy[n]

\* That second clear is the only way: no cancel, watchdog, refused task, close or request of the
\* same batch takes the link from its task.
ExclusiveButSecondClear == Exclusive \/ shared

\* The file o is about is in place; for a pull, at the place its client named.
Delivered(o) == \E p \in published : p[1] = o /\ (Kind[o] = "send" \/ p[2] = o)

\* No operation of the peer, and no request without a waiting client, shares o's link.
Alone(o) ==
  \A p \in Ops \ {o} : client[p] # "new" => Home[p] = Home[o] /\ Kind[p] # "async"

\* A client is told OK only of a file that was verified and renamed into place (protocol.md,
\* File transfer: success is the final OK), whatever a refusal, a cancel or a watchdog leaves
\* behind - while no operation of the peer, and no request without a waiting client, shares the
\* link: a pull takes the first FileMeta it reads, the peer's own push among them.  (Until two
\* threads meet on a link, as everywhere here.)
SuccessIsPublishedAlone == \A o \in Ops : client[o] = "ok" /\ Alone(o) => Delivered(o)

\* No client waits for ever, whatever the peer, the network and other clients do, unless two
\* threads meet on a link.
ClientReleased == \A o \in Ops : client[o] = "waiting" ~> client[o] # "waiting" \/ shared

\* The event loop gets the link back, unless ...
LinkReturned == \A n \in Nodes : busy[n] ~> ~busy[n] \/ shared
=============================================================================

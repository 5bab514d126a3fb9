---------------------------- MODULE FileTransfer ----------------------------
(***************************************************************************)
(* The push half of BridgeSessions file transfer: `bs file send` and       *)
(* `bs cp` processes (bs-mesh-transfer.h, direct_connect_file_send and     *)
(* file_send_wait_on_transport) that send one file each to one daemon      *)
(* (handle_file_meta, handle_file_chunk, close_conn), over connections     *)
(* that may break at any moment.                                           *)
(*                                                                         *)
(* A member of Contents stands for what a file holds and for its SHA-256:  *)
(* two senders, in two modes, may well send the same one.  Chunk k of a    *)
(* file is <<content, k>>, so equality of digests is equality of sequences *)
(* of such pairs.  The wire is a sequence of frames each way per           *)
(* connection; TCP keeps order and loses only suffixes.                    *)
(***************************************************************************)
EXTENDS Integers, Sequences

CONSTANTS
  Senders,      \* sending processes, one file each, to one destination
  Contents,     \* what a source file may hold
  Total,        \* chunks per file
  Window,       \* kTransferPipelineSize: chunks sent between two ack waits
  MaxRetries,   \* kTransferReconnectMax
  MaxSuffix,    \* bound on the ".N" names tried in the inbox
  MaxFaults,    \* bound on link drops, crashes, I/O errors, timeouts and edits
  Overlap       \* may a connection open while another is open at the daemon?

Absent == <<>>                           \* no file of that name

ASSUME ParamsAssumption ==
  /\ Absent \notin Contents
  /\ Total \in Nat \ {0}
  /\ Window \in Nat \ {0}
  /\ MaxRetries \in Nat
  /\ MaxSuffix \in Nat
  /\ MaxFaults \in Nat
  /\ Overlap \in BOOLEAN

\* "inbox": no dest_path; "path": dest_path or direct = 2; "copy": direct = 1.
Modes == {"inbox", "path", "copy"}
Conns == Senders \X (0..MaxRetries)      \* one connection per attempt
Names == 0..MaxSuffix                    \* 0 is the requested path, k its ".k"

Chunk(sum, k) == <<sum, k>>
Hole == <<>>                             \* zeros left by a write past the end
FileOf(sum) == [k \in 1..Total |-> Chunk(sum, k)]

VARIABLES
  \* sender process
  mode,      \* the destination form it was started with
  src,       \* what its source file holds now
  pc,        \* ready, meta, stream, batch, final, ok, failed
  try,       \* attempt
  start,     \* start_chunk of the retry loop
  sum,       \* checksum computed for this attempt
  acked,     \* last_acked: first chunk not yet fully acked
  ci,        \* next chunk index to write
  bend,      \* batch_end
  \* connection, indexed by Conns
  link,      \* unused, up, cut (closed or broken at either end)
  up,        \* frames in flight to the daemon
  down,      \* FileAcks in flight to the sender
  \* daemon: Conn and Conn::file_receive
  rconn,     \* none, open, closed
  rstate,    \* idle, fresh (opened trunc, incremental hash), append (resumed)
  rname,     \* state.path
  rino,      \* the file behind state.file
  rsum,      \* state.checksum
  rcount,    \* state.received_chunks
  hashed,    \* chunks given to state.hasher
  \* daemon disk
  part,      \* file behind <name>.part
  side,      \* checksum in <name>.part.bsmeta
  final,     \* file behind <name>
  data,      \* chunks of each file ever created
  torn,      \* files that end in an incomplete chunk
  \* bookkeeping
  log,       \* <<name, content, sender>> of every "file_recv_complete checksum_ok"
  faults     \* faults so far

senderVars == <<mode, src, pc, try, start, sum, acked, ci, bend>>
wireVars   == <<link, up, down>>
recvVars   == <<rconn, rstate, rname, rino, rsum, rcount, hashed>>
diskVars   == <<part, side, final, data, torn, log>>
vars       == <<senderVars, wireVars, recvVars, diskVars, faults>>

Bodies == Contents \X (1..Total)
Cells  == Bodies \cup {Hole}
Frame  == [type : {"meta"}, sum : Contents, mode : Modes]
            \cup [type : {"chunk"}, idx : 0..Total-1, body : Bodies]
Ack    == [next : 0..Total, error : BOOLEAN]
Stages == {"ready", "meta", "stream", "batch", "final", "ok", "failed"}

SenderTypeOK ==
  /\ mode \in [Senders -> Modes]
  /\ src \in [Senders -> Contents]
  /\ pc \in [Senders -> Stages]
  /\ try \in [Senders -> 0..MaxRetries]
  /\ start \in [Senders -> 0..Total]
  /\ sum \in [Senders -> Contents]
  /\ acked \in [Senders -> 0..Total]
  /\ ci \in [Senders -> 0..Total]
  /\ bend \in [Senders -> 0..Total]

WireTypeOK ==
  /\ link \in [Conns -> {"unused", "up", "cut"}]
  /\ up \in [Conns -> Seq(Frame)]
  /\ down \in [Conns -> Seq(Ack)]

RecvTypeOK ==
  /\ rconn \in [Conns -> {"none", "open", "closed"}]
  /\ rstate \in [Conns -> {"idle", "fresh", "append"}]
  /\ rname \in [Conns -> Names]
  /\ rino \in [Conns -> Conns]
  /\ rsum \in [Conns -> Contents]
  /\ rcount \in [Conns -> 0..Total]
  /\ hashed \in [Conns -> Seq(Bodies)]

DiskTypeOK ==
  /\ part \in [Names -> Conns \cup {Absent}]
  /\ side \in [Names -> Contents \cup {Absent}]
  /\ final \in [Names -> Conns \cup {Absent}]
  /\ data \in [Conns -> Seq(Cells)]
  /\ torn \in SUBSET Conns
  /\ log \in SUBSET (Names \X Contents \X Senders)

TypeOK ==
  /\ SenderTypeOK
  /\ WireTypeOK
  /\ RecvTypeOK
  /\ DiskTypeOK
  /\ faults \in 0..MaxFaults

Init ==
  /\ mode \in [Senders -> Modes]
  /\ src \in [Senders -> Contents]
  /\ pc = [s \in Senders |-> "ready"]
  /\ try = [s \in Senders |-> 0]
  /\ start = [s \in Senders |-> 0]
  /\ sum = src
  /\ acked = [s \in Senders |-> 0]
  /\ ci = [s \in Senders |-> 0]
  /\ bend = [s \in Senders |-> 0]
  /\ link = [c \in Conns |-> "unused"]
  /\ up = [c \in Conns |-> <<>>]
  /\ down = [c \in Conns |-> <<>>]
  /\ rconn = [c \in Conns |-> "none"]
  /\ rstate = [c \in Conns |-> "idle"]
  /\ rname = [c \in Conns |-> 0]
  /\ rino = [c \in Conns |-> c]
  /\ rsum = [c \in Conns |-> src[c[1]]]
  /\ rcount = [c \in Conns |-> 0]
  /\ hashed = [c \in Conns |-> <<>>]
  /\ part = [n \in Names |-> Absent]
  /\ side = [n \in Names |-> Absent]
  /\ final = [n \in Names |-> Absent]
  /\ data = [c \in Conns |-> <<>>]
  /\ torn = {}
  /\ log = {}
  /\ faults = 0

Fault == /\ faults < MaxFaults
         /\ faults' = faults + 1

Smaller(a, b) == IF a < b THEN a ELSE b
Larger(a, b)  == IF a < b THEN b ELSE a

-----------------------------------------------------------------------------
(***************************************************************************)
(* Sender: direct_connect_file_send around file_send_wait_on_transport.    *)
(***************************************************************************)
Conn(s) == <<s, try[s]>>

\* The attempt on connection Conn(s) ended in an error that left resume_hint
\* = hint.  Errors of kind "remote" and "overall" are not retried; an ack
\* error with nothing confirmed gives up; otherwise the loop reconnects, and
\* start_chunk only grows.
Retry(s, kind, hint) ==
  /\ IF \/ kind \in {"remote", "overall"}
        \/ kind = "ack" /\ hint = 0
        \/ try[s] = MaxRetries
     THEN /\ pc' = [pc EXCEPT ![s] = "failed"]
          /\ UNCHANGED <<try, start>>
     ELSE /\ pc' = [pc EXCEPT ![s] = "ready"]
          /\ try' = [try EXCEPT ![s] = @ + 1]
          /\ start' = [start EXCEPT ![s] = Larger(@, hint)]

\* SslCloseGuard: the sender's end goes; frames already written still travel.
HangUp(s) == link' = [link EXCEPT ![Conn(s)] = "cut"]

\* connect_and_hello, hash the file, write FileMeta, wait for its ack.
Connect(s) ==
  /\ pc[s] = "ready"
  /\ Overlap \/ \A c \in Conns : rconn[c] # "open"
  /\ LET c == Conn(s)
         h == src[s]
     IN /\ link' = [link EXCEPT ![c] = "up"]
        /\ rconn' = [rconn EXCEPT ![c] = "open"]
        /\ sum' = [sum EXCEPT ![s] = h]
        /\ up' = [up EXCEPT ![c] = <<[type |-> "meta", sum |-> h, mode |-> mode[s]]>>]
  /\ acked' = [acked EXCEPT ![s] = start[s]]
  /\ pc' = [pc EXCEPT ![s] = "meta"]
  /\ UNCHANGED <<mode, src, try, start, ci, bend, down, rstate, rname, rino,
                 rsum, rcount, hashed, diskVars, faults>>

\* No connection, or one that broke before FileMeta left: try again.
ConnectFails(s) ==
  /\ pc[s] = "ready"
  /\ Fault
  /\ Retry(s, "connect", start[s])
  /\ UNCHANGED <<mode, src, sum, acked, ci, bend, wireVars, recvVars, diskVars>>

\* Mutants: any ack ends the final wait; a batch waits for one chunk too many.
ExpectedAnyFinal(s) == CASE pc[s] = "batch" -> bend[s]
                         [] OTHER           -> 0
ExpectedPastBatch(s) == CASE pc[s] = "meta"  -> 0
                          [] pc[s] = "batch" -> bend[s] + 1
                          [] pc[s] = "final" -> Total

\* The ack wait_ack is after: any for FileMeta, then the end of the batch,
\* then the end of the file.
Expected(s) == CASE pc[s] = "meta"  -> 0
                 [] pc[s] = "batch" -> bend[s]
                 [] pc[s] = "final" -> Total

\* Start the batch that begins at chunk k, or skip to the final wait.
Stream(s, k) ==
  /\ ci' = [ci EXCEPT ![s] = k]
  /\ bend' = [bend EXCEPT ![s] = Smaller(k + Window, Total)]
  /\ pc' = [pc EXCEPT ![s] = IF k < Total THEN "stream" ELSE "final"]

\* One FileAck out of wait_ack.
ReceiveAck(s) ==
  LET c == Conn(s)
      a == Head(down[c])
  IN /\ pc[s] \in {"meta", "batch", "final"}
     /\ down[c] # <<>>
     /\ ~a.error
     /\ down' = [down EXCEPT ![c] = Tail(@)]
     /\ IF a.next >= Expected(s)
        THEN /\ acked' = [acked EXCEPT ![s] = a.next]
             /\ \/ pc[s] = "meta"  /\ Stream(s, Larger(start[s], a.next)) /\ UNCHANGED link
                \/ pc[s] = "batch" /\ Stream(s, bend[s]) /\ UNCHANGED link
                \/ /\ pc[s] = "final"
                   /\ pc' = [pc EXCEPT ![s] = "ok"]
                   /\ HangUp(s)
                   /\ UNCHANGED <<ci, bend>>
        ELSE /\ acked' = [acked EXCEPT ![s] = Larger(@, a.next)]
             /\ UNCHANGED <<pc, ci, bend, link>>
     /\ UNCHANGED <<mode, src, try, start, sum, up, recvVars, diskVars, faults>>

\* "ERROR remote": not retryable.
ReceiveError(s) ==
  LET c == Conn(s)
  IN /\ pc[s] \in {"meta", "batch", "final"}
     /\ down[c] # <<>>
     /\ Head(down[c]).error
     /\ Retry(s, "remote", start[s])
     /\ HangUp(s)
     /\ UNCHANGED <<mode, src, sum, acked, ci, bend, up, down, recvVars, diskVars, faults>>

\* The read under wait_ack fails: "ERROR transfer ack", resume at last_acked.
AckReadFails(s) ==
  /\ pc[s] \in {"meta", "batch", "final"}
  /\ link[Conn(s)] = "cut" /\ down[Conn(s)] = <<>>
  /\ Retry(s, "ack", acked[s])
  /\ UNCHANGED <<mode, src, sum, acked, ci, bend, wireVars, recvVars, diskVars, faults>>

\* wait_ack runs out of time: the idle deadline is retried from last_acked,
\* the overall one is not.
AckTimeout(s) ==
  /\ pc[s] \in {"meta", "batch", "final"}
  /\ Fault
  /\ \E kind \in {"ack", "overall"} : Retry(s, kind, acked[s])
  /\ HangUp(s)
  /\ UNCHANGED <<mode, src, sum, acked, ci, bend, up, down, recvVars, diskVars>>

\* write_frame(FileChunk).  On a link that is already cut the write may still
\* succeed into the socket buffer; the frame is then lost.
SendChunk(s) ==
  LET c == Conn(s)
      frame == [type |-> "chunk", idx |-> ci[s],
                body |-> Chunk(src[s], ci[s] + 1)]
  IN /\ pc[s] = "stream"
     /\ up' = IF link[c] = "up" THEN [up EXCEPT ![c] = Append(@, frame)] ELSE up
     /\ ci' = [ci EXCEPT ![s] = @ + 1]
     /\ pc' = [pc EXCEPT ![s] = IF ci[s] + 1 < bend[s] THEN "stream"
                                ELSE IF bend[s] < Total THEN "batch" ELSE "final"]
     /\ UNCHANGED <<mode, src, try, start, sum, acked, bend, link, down,
                    recvVars, diskVars, faults>>

\* write_frame throws: "ERROR send chunk", mark_resume.
SendResumePoint(s) == IF acked[s] > 0 THEN acked[s] ELSE ci[s]

SendChunkFails(s) ==
  /\ pc[s] = "stream"
  /\ link[Conn(s)] = "cut"
  /\ Retry(s, "chunk", SendResumePoint(s))
  /\ UNCHANGED <<mode, src, sum, acked, ci, bend, wireVars, recvVars, diskVars, faults>>

\* The user saves the source file again while it is being sent.
EditSource(s) ==
  /\ pc[s] \notin {"ok", "failed"}
  /\ Fault
  /\ \E v \in Contents \ {src[s]} : src' = [src EXCEPT ![s] = v]
  /\ UNCHANGED <<mode, pc, try, start, sum, acked, ci, bend, wireVars, recvVars, diskVars>>
-----------------------------------------------------------------------------
(***************************************************************************)
(* Receiver: the daemon's event loop, one frame of one connection a step.  *)
(* A connection carries one FileMeta, so handle_file_meta never finds a    *)
(* receive in progress; every refusal that leaves the disk alone (metadata *)
(* or path invalid, existing destination) is one answer, RefuseMeta.       *)
(***************************************************************************)
Incoming(c, type) == /\ rconn[c] = "open"
                     /\ up[c] # <<>>
                     /\ Head(up[c]).type = type

Consume(c) == up' = [up EXCEPT ![c] = Tail(@)]

\* Mutant: errors are logged but not answered.
SilentError(c, next, error) ==
  down' = IF link[c] = "up" /\ ~error
          THEN [down EXCEPT ![c] = Append(@, [next |-> next, error |-> FALSE])]
          ELSE down

\* enqueue_file_ack.  The sender sees nothing of it once the link is cut.
Reply(c, next, error) ==
  down' = IF link[c] = "up"
          THEN [down EXCEPT ![c] = Append(@, [next |-> next, error |-> error])]
          ELSE down

Taken(n) == final[n] # Absent \/ part[n] # Absent

\* A .part and its sidecar that agree with FileMeta m; the .part ends on a
\* chunk boundary and is neither empty nor complete.
Resumable(n, m) == /\ part[n] # Absent
                   /\ side[n] = m.sum
                   /\ part[n] \notin torn
                   /\ Len(data[part[n]]) \in 1..Total-1

\* Mutant: the suffix loop looks at .part files only.
FreshNameIgnoringFiles(m, n) ==
  IF m.mode = "inbox"
  THEN part[n] = Absent /\ \A k \in Names : k < n => part[k] # Absent
  ELSE n = 0

\* Where a fresh receive goes: the requested path, or in the inbox the first
\* of name, name.1, name.2, ... with neither a file nor a .part.
FreshName(m, n) ==
  IF m.mode = "inbox"
  THEN ~Taken(n) /\ \A k \in Names : k < n => Taken(k)
  ELSE n = 0

RefusedExisting(m) == m.mode = "copy" /\ final[0] # Absent

\* handle_file_meta, resuming: open the .part for append, no hasher.
ResumeReceive(c) ==
  /\ Incoming(c, "meta")
  /\ LET m == Head(up[c])
     IN /\ ~RefusedExisting(m)
        /\ Resumable(0, m)
        /\ rstate' = [rstate EXCEPT ![c] = "append"]
        /\ rname' = [rname EXCEPT ![c] = 0]
        /\ rino' = [rino EXCEPT ![c] = part[0]]
        /\ rsum' = [rsum EXCEPT ![c] = m.sum]
        /\ rcount' = [rcount EXCEPT ![c] = Len(data[part[0]])]
        /\ hashed' = [hashed EXCEPT ![c] = <<>>]
        /\ Reply(c, Len(data[part[0]]), FALSE)
  /\ Consume(c)
  /\ UNCHANGED <<senderVars, link, rconn, diskVars, faults>>

\* handle_file_meta, fresh: truncate or create the .part, write the sidecar,
\* hash as chunks arrive.
FreshReceive(c) ==
  /\ Incoming(c, "meta")
  /\ LET m == Head(up[c])
     IN /\ ~RefusedExisting(m)
        /\ ~Resumable(0, m)
        /\ \E n \in Names :
             LET f == IF part[n] = Absent THEN c ELSE part[n]
             IN /\ FreshName(m, n)
                /\ part' = [part EXCEPT ![n] = f]
                /\ side' = [side EXCEPT ![n] = m.sum]
                /\ data' = [data EXCEPT ![f] = <<>>]
                /\ torn' = torn \ {f}
                /\ rname' = [rname EXCEPT ![c] = n]
                /\ rino' = [rino EXCEPT ![c] = f]
        /\ rstate' = [rstate EXCEPT ![c] = "fresh"]
        /\ rsum' = [rsum EXCEPT ![c] = m.sum]
        /\ rcount' = [rcount EXCEPT ![c] = 0]
        /\ hashed' = [hashed EXCEPT ![c] = <<>>]
  /\ Reply(c, 0, FALSE)
  /\ Consume(c)
  /\ UNCHANGED <<senderVars, link, rconn, final, log, faults>>

\* handle_file_meta, refused: `bs cp` onto an existing file.
RefuseMeta(c) ==
  /\ Incoming(c, "meta")
  /\ RefusedExisting(Head(up[c]))
  /\ Reply(c, 0, TRUE)
  /\ Consume(c)
  /\ UNCHANGED <<senderVars, link, recvVars, diskVars, faults>>

\* handle_file_meta, the .part cannot be opened: it is removed.
InitReceiveFails(c) ==
  /\ Incoming(c, "meta")
  /\ ~RefusedExisting(Head(up[c]))
  /\ Fault
  /\ \E n \in Names :
       /\ IF Resumable(0, Head(up[c])) THEN n = 0 ELSE FreshName(Head(up[c]), n)
       /\ part' = [part EXCEPT ![n] = Absent]
       /\ side' = IF Resumable(0, Head(up[c])) THEN side
                  ELSE [side EXCEPT ![n] = Head(up[c]).sum]
  /\ Reply(c, 0, TRUE)
  /\ Consume(c)
  /\ UNCHANGED <<senderVars, link, recvVars, final, data, torn, log>>

\* handle_file_chunk without a receive in progress.
OrphanChunk(c) ==
  /\ Incoming(c, "chunk")
  /\ rstate[c] = "idle"
  /\ Reply(c, 0, TRUE)
  /\ Consume(c)
  /\ UNCHANGED <<senderVars, link, recvVars, diskVars, faults>>

\* validate_transfer_chunk: chunks come in order.
ValidChunk(c) == Head(up[c]).idx = rcount[c]

\* A receive given up by handle_file_chunk: its .part goes, by name.
AbandonReceive(c) ==
  /\ part' = [part EXCEPT ![rname[c]] = Absent]
  /\ rstate' = [rstate EXCEPT ![c] = "idle"]
  /\ Reply(c, rcount[c], TRUE)
  /\ Consume(c)
  /\ UNCHANGED <<senderVars, link, rconn, rname, rino, rsum, rcount, hashed,
                 side, final, data, torn, log>>

RejectChunk(c) ==
  /\ Incoming(c, "chunk")
  /\ rstate[c] # "idle"
  /\ ~ValidChunk(c)
  /\ AbandonReceive(c)
  /\ UNCHANGED faults

\* The disk refuses the write (or the digest fails).
WriteChunkFails(c) ==
  /\ Incoming(c, "chunk")
  /\ rstate[c] # "idle"
  /\ ValidChunk(c)
  /\ Fault
  /\ AbandonReceive(c)

\* state.file.write: at the stream's own position when opened trunc, at the
\* end of the file when opened app.
WriteAt(d, k, b) == [i \in 1..Larger(Len(d), k) |->
                       IF i = k THEN b ELSE IF i <= Len(d) THEN d[i] ELSE Hole]
Written(c, b) == IF rstate[c] = "fresh" THEN WriteAt(data[rino[c]], rcount[c] + 1, b)
                                        ELSE Append(data[rino[c]], b)
Hashed(c, b)  == IF rstate[c] = "fresh" THEN Append(hashed[c], b) ELSE hashed[c]

StoreChunk(c) ==
  /\ Incoming(c, "chunk")
  /\ rstate[c] # "idle"
  /\ ValidChunk(c)
  /\ rcount[c] + 1 < Total
  /\ data' = [data EXCEPT ![rino[c]] = Written(c, Head(up[c]).body)]
  /\ hashed' = [hashed EXCEPT ![c] = Hashed(c, Head(up[c]).body)]
  /\ rcount' = [rcount EXCEPT ![c] = @ + 1]
  /\ Reply(c, rcount[c] + 1, FALSE)
  /\ Consume(c)
  /\ UNCHANGED <<senderVars, link, rconn, rstate, rname, rino, rsum,
                 part, side, final, torn, log, faults>>

\* Mutant: a resumed file is trusted instead of hashed again from disk.
ChecksumFreshOnly(c, b, d) ==
  rstate[c] = "fresh" => Hashed(c, b) = FileOf(rsum[c])

\* The digest compared with state.checksum at the last chunk, d being the
\* written file: the incremental one, or that of whatever <name>.part now is.
ChecksumOK(c, b, d) ==
  IF rstate[c] = "fresh"
  THEN Hashed(c, b) = FileOf(rsum[c])
  ELSE /\ part[rname[c]] # Absent
       /\ part[rname[c]] \notin torn
       /\ d[part[rname[c]]] = FileOf(rsum[c])

\* The last chunk: verify, rename <name>.part onto <name>, drop the sidecar,
\* final ack.  A missing .part (or, as a fault, the disk) fails the rename.
CompleteReceive(c) ==
  /\ Incoming(c, "chunk")
  /\ rstate[c] # "idle"
  /\ ValidChunk(c)
  /\ rcount[c] + 1 = Total
  /\ LET b == Head(up[c]).body
         n == rname[c]
         d == [data EXCEPT ![rino[c]] = Written(c, b)]
     IN /\ data' = d
        /\ \/ /\ ChecksumOK(c, b, d) /\ part[n] # Absent
              /\ final' = [final EXCEPT ![n] = part[n]]
              /\ log' = log \cup {<<n, rsum[c], c[1]>>}
              /\ Reply(c, Total, FALSE)
              /\ UNCHANGED faults
           \/ /\ ChecksumOK(c, b, d)
              /\ IF part[n] = Absent THEN UNCHANGED faults ELSE Fault
              /\ Reply(c, Total, TRUE)
              /\ UNCHANGED <<final, log>>
           \/ /\ ~ChecksumOK(c, b, d)
              /\ Reply(c, Total, TRUE)
              /\ UNCHANGED <<final, log, faults>>
        /\ part' = [part EXCEPT ![n] = Absent]
        /\ side' = [side EXCEPT ![n] = Absent]
  /\ rstate' = [rstate EXCEPT ![c] = "idle"]
  /\ rcount' = [rcount EXCEPT ![c] = Total]
  /\ hashed' = [hashed EXCEPT ![c] = <<>>]
  /\ Consume(c)
  /\ UNCHANGED <<senderVars, link, rconn, rname, rino, rsum, torn>>

\* close_conn on end of stream: .part and sidecar stay for a resume.
CloseConn(c) ==
  /\ rconn[c] = "open"
  /\ link[c] = "cut"
  /\ up[c] = <<>>
  /\ rconn' = [rconn EXCEPT ![c] = "closed"]
  /\ rstate' = [rstate EXCEPT ![c] = "idle"]
  /\ hashed' = [hashed EXCEPT ![c] = <<>>]
  /\ UNCHANGED <<senderVars, wireVars, rname, rino, rsum, rcount, diskVars, faults>>
-----------------------------------------------------------------------------
(***************************************************************************)
(* Environment.                                                            *)
(***************************************************************************)
\* The connection breaks (or either end closes it): each direction delivers
\* some prefix of what is in flight and nothing more.
LinkCut(c) ==
  /\ link[c] = "up"
  /\ Fault
  /\ link' = [link EXCEPT ![c] = "cut"]
  /\ \E i \in 0..Len(up[c]), j \in 0..Len(down[c]) :
       /\ up' = [up EXCEPT ![c] = SubSeq(@, 1, i)]
       /\ down' = [down EXCEPT ![c] = SubSeq(@, 1, j)]
  /\ UNCHANGED <<senderVars, recvVars, diskVars>>

\* The daemon dies and is restarted: connections and receive states are gone,
\* files stay, and one being written may end inside a chunk.
Crash ==
  /\ Fault
  /\ \E c \in Conns : rconn[c] = "open"
  /\ link' = [c \in Conns |-> IF rconn[c] = "open" THEN "cut" ELSE link[c]]
  /\ up' = [c \in Conns |-> IF rconn[c] = "open" THEN <<>> ELSE up[c]]
  /\ rconn' = [c \in Conns |-> IF rconn[c] = "open" THEN "closed" ELSE rconn[c]]
  /\ rstate' = [c \in Conns |-> "idle"]
  /\ hashed' = [c \in Conns |-> <<>>]
  /\ \E T \in SUBSET {rino[c] : c \in {x \in Conns : rstate[x] # "idle"}} : torn' = torn \cup T
  /\ UNCHANGED <<senderVars, down, rname, rino, rsum, rcount, part, side, final, data, log>>
-----------------------------------------------------------------------------
SenderStep(s) ==
  \/ Connect(s) \/ ReceiveAck(s) \/ ReceiveError(s) \/ AckReadFails(s)
  \/ SendChunk(s) \/ SendChunkFails(s)

ReceiverStep(c) ==
  \/ ResumeReceive(c) \/ FreshReceive(c) \/ RefuseMeta(c)
  \/ OrphanChunk(c) \/ RejectChunk(c) \/ StoreChunk(c) \/ CompleteReceive(c)
  \/ CloseConn(c)

FaultStep ==
  \/ \E s \in Senders : ConnectFails(s) \/ AckTimeout(s) \/ EditSource(s)
  \/ \E c \in Conns : InitReceiveFails(c) \/ WriteChunkFails(c) \/ LinkCut(c)
  \/ Crash

Next ==
  \/ \E s \in Senders : SenderStep(s)
  \/ \E c \in Conns : ReceiverStep(c)
  \/ FaultStep

Spec == Init /\ [][Next]_vars

\* Sender processes run, and the event loop serves every connection.
Fairness == /\ \A s \in Senders : WF_vars(SenderStep(s))
            /\ \A c \in Conns : WF_vars(ReceiverStep(c))
FairSpec == Spec /\ Fairness
-----------------------------------------------------------------------------
(***************************************************************************)
(* Properties.                                                             *)
(***************************************************************************)
\* A published name holds, complete and unmixed, a file whose checksum the
\* daemon verified for that name (docs/design.md: "SHA-256 verification
\* happens before atomic publish").  It can break through a second handle on
\* the same .part, a resume onto the wrong bytes, or a torn tail.
PublishedVerified ==
  \A n \in Names : final[n] # Absent =>
    /\ final[n] \notin torn
    /\ \E h \in Contents, s \in Senders :
         <<n, h, s>> \in log /\ data[final[n]] = FileOf(h)

\* A sender that printed OK had the very content it hashed published, and by
\* its own transfer, in spite of pipelined acks, resumes and reconnects (docs/protocol.md: "The success
\* line for an operator or a script is the final OK").
OKMeansPublished ==
  \A s \in Senders : pc[s] = "ok" => \E n \in Names : <<n, sum[s], s>> \in log

\* Who may replace a file that is there: a transfer asked to, and an inbox
\* transfer that resumes a .part, which then is one such a transfer left.
AskedToReplace == \E s \in Senders : mode[s] = "path"
MayReplace(c) == \/ mode[c[1]] = "path"
                 \/ mode[c[1]] = "inbox" /\ rstate[c] = "append" /\ AskedToReplace

\* With one connection open at a time nothing else replaces a file: an inbox
\* receive finds a free name, `bs cp` without --overwrite is refused, and
\* neither decision, taken at FileMeta, is stale at the rename.  Of the .part
\* files an inbox transfer may resume (the same bytes, whoever left them),
\* one lies next to a published file only if someone was asked to overwrite.
NoClobber ==
  [][\A c \in Conns :
       (rstate[c] # "idle" /\ final[rname[c]] # Absent /\ final'[rname[c]] # final[rname[c]])
         => MayReplace(c)]_vars

\* Without faults every transfer ends in OK, however many chunks are in flight
\* and whatever was left at the destination; only `bs cp` onto a file that is
\* already there may fail.
FaultFreeDelivery ==
  <>(faults > 0 \/ \A s \in Senders : pc[s] = "ok" \/ (pc[s] = "failed" /\ mode[s] = "copy"))

Delivery == INSTANCE VerifiedDelivery WITH
  Content <- FileOf,
  store <- [n \in Names |-> IF final[n] = Absent THEN <<>> ELSE data[final[n]]],
  delivered <- log,
  wanted <- sum,
  result <- [s \in Senders |-> IF pc[s] \in {"ok", "failed"} THEN pc[s] ELSE "pending"]

\* The transfer protocol implements verified delivery, liveness included:
\* every sender ends.
DeliverySpec == Delivery!Spec
=============================================================================

------------------------- MODULE FileTransferProofs -------------------------
(***************************************************************************)
(* Proofs about FileTransfer, for every number of senders, chunks,         *)
(* retries, names and faults.                                              *)
(***************************************************************************)
EXTENDS FileTransfer, SequenceTheorems, TLAPS

\* TypeOK is not inductive alone: a sender writes a chunk only inside its
\* batch.
InBatch == \A s \in Senders : pc[s] = "stream" => ci[s] < bend[s]
TypeInv == TypeOK /\ InBatch

LEMMA InitType == Init => TypeInv
<1> SUFFICES ASSUME Init PROVE TypeInv
  OBVIOUS
<1> USE ParamsAssumption DEF Init
<1>1. SenderTypeOK
  BY DEF SenderTypeOK, Stages
<1>2. WireTypeOK
  BY DEF WireTypeOK
<1>3. RecvTypeOK
  BY DEF RecvTypeOK, Conns, Names
<1>4. DiskTypeOK
  BY DEF DiskTypeOK
<1>5. QED
  BY <1>1, <1>2, <1>3, <1>4 DEF TypeInv, TypeOK, InBatch

\* What a step leaves alone keeps its type.
LEMMA SameType ==
  ASSUME TypeInv
  PROVE  /\ UNCHANGED senderVars => SenderTypeOK' /\ InBatch'
         /\ UNCHANGED wireVars => WireTypeOK'
         /\ UNCHANGED recvVars => RecvTypeOK'
         /\ UNCHANGED diskVars => DiskTypeOK'
<1> USE DEF TypeInv, TypeOK
<1>1. UNCHANGED senderVars => SenderTypeOK' /\ InBatch'
  BY DEF senderVars, SenderTypeOK, InBatch
<1>2. UNCHANGED wireVars => WireTypeOK'
  BY DEF wireVars, WireTypeOK
<1>3. UNCHANGED recvVars => RecvTypeOK'
  BY DEF recvVars, RecvTypeOK
<1>4. UNCHANGED diskVars => DiskTypeOK'
  BY DEF diskVars, DiskTypeOK
<1>5. QED
  BY <1>1, <1>2, <1>3, <1>4

\* Faults only accumulate, up to their bound.
LEMMA FaultCount ==
  ASSUME TypeInv, Fault \/ UNCHANGED faults
  PROVE  faults' \in 0..MaxFaults
BY ParamsAssumption DEF TypeInv, TypeOK, Fault

\* Reading and dropping the head of a queue, and cutting a queue short.
LEMMA Queue ==
  ASSUME NEW S, NEW q \in Seq(S)
  PROVE  /\ q # <<>> => Head(q) \in S /\ Tail(q) \in Seq(S)
         /\ \A i \in 0..Len(q) : SubSeq(q, 1, i) \in Seq(S)
<1>1. q # <<>> => Head(q) \in S /\ Tail(q) \in Seq(S)
  OBVIOUS
<1>2. ASSUME NEW i \in 0..Len(q) PROVE SubSeq(q, 1, i) \in Seq(S)
  <2>1. \A j \in 1..i : q[j] \in S
    OBVIOUS
  <2>2. QED
    BY <2>1
<1>3. QED
  BY <1>1, <1>2

\* What is in a queue after a read or a write.
LEMMA QueueItems ==
  ASSUME NEW S, NEW q \in Seq(S)
  PROVE  /\ \A x : \A i \in 1..Len(Append(q, x)) :
              Append(q, x)[i] = x \/ (i \in 1..Len(q) /\ Append(q, x)[i] = q[i])
         /\ q # <<>> => \A i \in 1..Len(Tail(q)) :
              i + 1 \in 1..Len(q) /\ Tail(q)[i] = q[i + 1]
         /\ q # <<>> => 1 \in 1..Len(q) /\ Head(q) = q[1]
<1>1. ASSUME NEW x, NEW i \in 1..Len(Append(q, x))
      PROVE  Append(q, x)[i] = x \/ (i \in 1..Len(q) /\ Append(q, x)[i] = q[i])
  <2>1. Len(Append(q, x)) = Len(q) + 1 /\ Len(q) \in Nat
    OBVIOUS
  <2>2. CASE i = Len(q) + 1
    BY <2>2
  <2>3. CASE i # Len(q) + 1
    <3>1. i \in 1..Len(q)
      BY <2>1, <2>3
    <3>2. QED
      BY <3>1
  <2>4. QED
    BY <2>2, <2>3
<1>2. ASSUME q # <<>>
      PROVE  /\ \A i \in 1..Len(Tail(q)) : i + 1 \in 1..Len(q) /\ Tail(q)[i] = q[i + 1]
             /\ 1 \in 1..Len(q) /\ Head(q) = q[1]
  BY <1>2
<1>3. QED
  BY <1>1, <1>2

\* Reconnecting stays within the file and within the retries.
LEMMA RetryType ==
  ASSUME TypeInv, NEW s \in Senders, NEW kind, NEW hint \in 0..Total, Retry(s, kind, hint),
         UNCHANGED <<mode, src, sum, acked, ci, bend>>
  PROVE  SenderTypeOK' /\ InBatch'
<1>1. SenderTypeOK /\ InBatch
  BY DEF TypeInv, TypeOK
<1>2. /\ pc \in [Senders -> Stages]
      /\ try \in [Senders -> 0..MaxRetries]
      /\ start \in [Senders -> 0..Total]
      /\ MaxRetries \in Nat /\ Total \in Nat
  BY <1>1, ParamsAssumption DEF SenderTypeOK
<1>3. CASE pc' = [pc EXCEPT ![s] = "failed"] /\ UNCHANGED <<try, start>>
  BY <1>1, <1>2, <1>3 DEF SenderTypeOK, InBatch, Stages
<1>4. CASE /\ try[s] # MaxRetries
           /\ pc' = [pc EXCEPT ![s] = "ready"]
           /\ try' = [try EXCEPT ![s] = @ + 1]
           /\ start' = [start EXCEPT ![s] = Larger(@, hint)]
  <2>1. Larger(start[s], hint) \in 0..Total /\ try[s] + 1 \in 0..MaxRetries
    BY <1>2, <1>4 DEF Larger
  <2>2. try' \in [Senders -> 0..MaxRetries] /\ start' \in [Senders -> 0..Total]
    BY <1>2, <1>4, <2>1
  <2>3. QED
    BY <1>1, <1>2, <1>4, <2>2 DEF SenderTypeOK, InBatch, Stages
<1>5. QED
  BY <1>3, <1>4 DEF Retry

LEMMA HangUpType ==
  ASSUME TypeInv, NEW s \in Senders, HangUp(s) \/ UNCHANGED link
  PROVE  link' \in [Conns -> {"unused", "up", "cut"}]
  BY DEF TypeInv, TypeOK, WireTypeOK, HangUp

LEMMA ConnectType ==
  ASSUME TypeInv, NEW s \in Senders, Connect(s)
  PROVE  TypeInv'
<1> DEFINE h == src[s]
           m == [type |-> "meta", sum |-> h, mode |-> mode[s]]
<1>0. SenderTypeOK /\ WireTypeOK /\ RecvTypeOK
  BY DEF TypeInv, TypeOK
<1>1. Conn(s) \in Conns /\ h \in Contents
  BY <1>0 DEF Conn, Conns, SenderTypeOK
<1>2. m \in Frame
  BY <1>0, <1>1 DEF Frame, SenderTypeOK
<1>3. <<m>> \in Seq(Frame)
  BY <1>2
<1> HIDE DEF m
<1>4. /\ up' = [up EXCEPT ![Conn(s)] = <<m>>]
      /\ sum' = [sum EXCEPT ![s] = h]
  BY DEF Connect, m
<1> HIDE DEF h
<1>5. SenderTypeOK' /\ InBatch'
  BY <1>0, <1>1, <1>4 DEF Connect, SenderTypeOK, InBatch, Stages, TypeInv
<1>6. WireTypeOK' /\ RecvTypeOK'
  <2>1. /\ link' = [link EXCEPT ![Conn(s)] = "up"]
        /\ rconn' = [rconn EXCEPT ![Conn(s)] = "open"]
        /\ UNCHANGED <<down, rstate, rname, rino, rsum, rcount, hashed>>
    BY DEF Connect
  <2>2. WireTypeOK'
    BY <1>0, <1>3, <1>4, <2>1 DEF WireTypeOK
  <2>3. RecvTypeOK'
    BY <1>0, <2>1 DEF RecvTypeOK
  <2>4. QED
    BY <2>2, <2>3
<1>7. QED
  BY <1>5, <1>6, SameType, FaultCount DEF Connect, TypeInv, TypeOK

LEMMA ReceiveAckType ==
  ASSUME TypeInv, NEW s \in Senders, ReceiveAck(s)
  PROVE  TypeInv'
<1> USE ParamsAssumption
<1>0. SenderTypeOK /\ WireTypeOK /\ InBatch
  BY DEF TypeInv, TypeOK
<1>1. Conn(s) \in Conns
  BY <1>0 DEF Conn, Conns, SenderTypeOK
<1>2. /\ Head(down[Conn(s)]) \in Ack
      /\ Tail(down[Conn(s)]) \in Seq(Ack)
  BY <1>0, <1>1, Queue DEF ReceiveAck, WireTypeOK
<1>3. Head(down[Conn(s)]).next \in 0..Total
  BY <1>2 DEF Ack
<1>4. WireTypeOK'
  <2>1. link' \in [Conns -> {"unused", "up", "cut"}]
    BY HangUpType DEF ReceiveAck
  <2>2. UNCHANGED up /\ down' = [down EXCEPT ![Conn(s)] = Tail(@)]
    BY DEF ReceiveAck
  <2>3. QED
    BY <1>0, <1>1, <1>2, <2>1, <2>2 DEF WireTypeOK
<1>5. acked' \in [Senders -> 0..Total]
  BY <1>0, <1>3 DEF ReceiveAck, Larger, SenderTypeOK
<1>6. \/ UNCHANGED <<ci, bend>> /\ pc' \in {pc, [pc EXCEPT ![s] = "ok"]}
      \/ \E k \in 0..Total : Stream(s, k)
  BY <1>0, <1>3 DEF ReceiveAck, Larger, SenderTypeOK
<1>7. /\ pc' \in [Senders -> Stages]
      /\ ci' \in [Senders -> 0..Total]
      /\ bend' \in [Senders -> 0..Total]
      /\ InBatch'
  <2>1. CASE UNCHANGED <<ci, bend>> /\ pc' \in {pc, [pc EXCEPT ![s] = "ok"]}
    BY <1>0, <2>1 DEF SenderTypeOK, InBatch, Stages
  <2>2. CASE \E k \in 0..Total : Stream(s, k)
    <3>1. PICK k \in 0..Total : Stream(s, k)
      BY <2>2
    <3>2. /\ Smaller(k + Window, Total) \in 0..Total
          /\ k < Total => k < Smaller(k + Window, Total)
      BY DEF Smaller
    <3>3. QED
      BY <1>0, <3>1, <3>2 DEF Stream, SenderTypeOK, InBatch, Stages
  <2>3. QED
    BY <1>6, <2>1, <2>2
<1>8. UNCHANGED <<mode, src, try, start, sum, recvVars, diskVars, faults>>
  BY DEF ReceiveAck
<1>9. SenderTypeOK'
  BY <1>0, <1>5, <1>7, <1>8 DEF SenderTypeOK
<1>10. QED
  BY <1>4, <1>7, <1>8, <1>9, SameType, FaultCount DEF TypeInv, TypeOK

LEMMA SendChunkType ==
  ASSUME TypeInv, NEW s \in Senders, SendChunk(s)
  PROVE  TypeInv'
<1> DEFINE f == [type |-> "chunk", idx |-> ci[s],
                 body |-> Chunk(src[s], ci[s] + 1)]
<1> USE ParamsAssumption
<1>0. SenderTypeOK /\ WireTypeOK /\ InBatch
  BY DEF TypeInv, TypeOK
<1>1. /\ ci[s] \in 0..Total-1 /\ ci[s] + 1 \in 1..Total
      /\ Conn(s) \in Conns /\ src[s] \in Contents
  BY <1>0 DEF SendChunk, SenderTypeOK, InBatch, Conn, Conns
<1>2. f \in Frame
  BY <1>1 DEF Frame, Bodies, Chunk
<1> HIDE DEF f
<1>3. up' = up \/ up' = [up EXCEPT ![Conn(s)] = Append(@, f)]
  BY DEF SendChunk, f
<1>4. WireTypeOK'
  BY <1>0, <1>1, <1>2, <1>3 DEF SendChunk, WireTypeOK
<1>5. /\ ci' = [ci EXCEPT ![s] = @ + 1]
      /\ \/ pc' = [pc EXCEPT ![s] = "stream"] /\ ci[s] + 1 < bend[s]
         \/ \E stage \in {"batch", "final"} : pc' = [pc EXCEPT ![s] = stage]
      /\ UNCHANGED <<mode, src, try, start, sum, acked, bend>>
  <2>1. CASE ci[s] + 1 < bend[s]
    BY <2>1 DEF SendChunk
  <2>2. CASE ~(ci[s] + 1 < bend[s])
    BY <2>2 DEF SendChunk
  <2>3. QED
    BY <2>1, <2>2
<1>6. SenderTypeOK' /\ InBatch'
  BY <1>0, <1>1, <1>5 DEF SenderTypeOK, InBatch, Stages
<1>7. QED
  BY <1>4, <1>6, SameType, FaultCount DEF SendChunk, TypeInv, TypeOK

LEMMA SenderType ==
  ASSUME TypeInv, NEW s \in Senders, SenderStep(s)
  PROVE TypeInv'
<1>0. /\ Conn(s) \in Conns /\ start[s] \in 0..Total /\ acked[s] \in 0..Total
      /\ SendResumePoint(s) \in 0..Total
      /\ WireTypeOK
  BY DEF TypeInv, TypeOK, SenderTypeOK, Conn, Conns, SendResumePoint
<1>1. CASE ReceiveError(s)
  <2>1. SenderTypeOK' /\ InBatch'
    BY <1>0, <1>1, RetryType DEF ReceiveError
  <2>2. WireTypeOK'
    BY <1>0, <1>1, HangUpType DEF ReceiveError, WireTypeOK
  <2>3. QED
    BY <1>1, <2>1, <2>2, SameType, FaultCount DEF ReceiveError, TypeInv, TypeOK
<1>2. CASE AckReadFails(s)
  <2>1. SenderTypeOK' /\ InBatch'
    BY <1>0, <1>2, RetryType DEF AckReadFails
  <2>2. QED
    BY <1>2, <2>1, SameType, FaultCount DEF AckReadFails, TypeInv, TypeOK
<1>3. CASE SendChunkFails(s)
  <2>1. SenderTypeOK' /\ InBatch'
    BY <1>0, <1>3, RetryType DEF SendChunkFails
  <2>2. QED
    BY <1>3, <2>1, SameType, FaultCount DEF SendChunkFails, TypeInv, TypeOK
<1>4. QED
  BY <1>1, <1>2, <1>3, ConnectType, ReceiveAckType, SendChunkType DEF SenderStep

\* What the daemon reads off the wire.
LEMMA IncomingFrame ==
  ASSUME WireTypeOK, NEW c \in Conns, NEW type, Incoming(c, type)
  PROVE  /\ Head(up[c]) \in Frame
         /\ Head(up[c]).type = type
         /\ type = "meta" => Head(up[c]).sum \in Contents
         /\ type = "chunk" => Head(up[c]).body \in Bodies
         /\ Consume(c) => up' \in [Conns -> Seq(Frame)]
<1>1. up \in [Conns -> Seq(Frame)] /\ up[c] # <<>> /\ Head(up[c]).type = type
  BY DEF WireTypeOK, Incoming
<1>2. Head(up[c]) \in Frame /\ Tail(up[c]) \in Seq(Frame)
  BY <1>1, Queue
<1>3. /\ type = "meta" => Head(up[c]).sum \in Contents
      /\ type = "chunk" => Head(up[c]).body \in Bodies
  BY <1>1, <1>2 DEF Frame
<1>4. QED
  BY <1>1, <1>2, <1>3 DEF Consume

LEMMA ReplyType ==
  ASSUME WireTypeOK, NEW c \in Conns, NEW next \in 0..Total, NEW error \in BOOLEAN,
         Reply(c, next, error)
  PROVE  down' \in [Conns -> Seq(Ack)]
<1> DEFINE a == [next |-> next, error |-> error]
<1>1. a \in Ack
  BY DEF Ack
<1> HIDE DEF a
<1>2. down' = down \/ down' = [down EXCEPT ![c] = Append(@, a)]
  BY DEF Reply, a
<1>3. down \in [Conns -> Seq(Ack)] /\ Append(down[c], a) \in Seq(Ack)
  BY <1>1 DEF WireTypeOK
<1>4. QED
  BY <1>2, <1>3

\* One frame read and one ack queued.
LEMMA ExchangeType ==
  ASSUME WireTypeOK, NEW c \in Conns, NEW type, Incoming(c, type), Consume(c),
         NEW next \in 0..Total, NEW error \in BOOLEAN, Reply(c, next, error), UNCHANGED link
  PROVE  WireTypeOK'
  BY IncomingFrame, ReplyType DEF WireTypeOK

LEMMA WrittenType ==
  ASSUME RecvTypeOK, DiskTypeOK, NEW c \in Conns, NEW b \in Bodies, rcount[c] < Total
  PROVE  /\ Written(c, b) \in Seq(Cells)
         /\ Hashed(c, b) \in Seq(Bodies)
<1>1. /\ rino[c] \in Conns /\ data[rino[c]] \in Seq(Cells)
      /\ hashed[c] \in Seq(Bodies) /\ rcount[c] \in Nat
  BY ParamsAssumption DEF RecvTypeOK, DiskTypeOK
<1>2. b \in Cells /\ Hole \in Cells
  BY DEF Cells
<1>3. ASSUME NEW d \in Seq(Cells), NEW k \in Nat \ {0}
      PROVE  WriteAt(d, k, b) \in Seq(Cells)
  <2>1. Larger(Len(d), k) \in Nat
    BY DEF Larger
  <2>2. ASSUME NEW i \in 1..Larger(Len(d), k)
        PROVE  (IF i = k THEN b ELSE IF i <= Len(d) THEN d[i] ELSE Hole) \in Cells
    <3>1. i <= Len(d) => d[i] \in Cells
      BY <2>1, <2>2
    <3>2. QED
      BY <3>1, <1>2
  <2>3. QED
    BY <2>1, <2>2, IsASeq DEF WriteAt
<1>4. WriteAt(data[rino[c]], rcount[c] + 1, b) \in Seq(Cells)
  BY <1>1, <1>3
<1>5. Append(data[rino[c]], b) \in Seq(Cells) /\ Append(hashed[c], b) \in Seq(Bodies)
  BY <1>1, <1>2
<1>6. QED
  BY <1>1, <1>4, <1>5 DEF Written, Hashed

LEMMA MetaType ==
  ASSUME TypeInv, NEW c \in Conns, ResumeReceive(c) \/ FreshReceive(c) \/ RefuseMeta(c)
  PROVE  TypeInv'
<1>0. WireTypeOK /\ RecvTypeOK /\ DiskTypeOK /\ Total \in Nat
  BY ParamsAssumption DEF TypeInv, TypeOK
<1>1. CASE ResumeReceive(c)
  <2>1. Incoming(c, "meta") /\ Resumable(0, Head(up[c])) /\ Consume(c) /\ 0 \in Names
    BY <1>1, ParamsAssumption DEF ResumeReceive, Names
  <2>2. part[0] \in Conns /\ Len(data[part[0]]) \in 0..Total
    BY <1>0, <2>1 DEF Resumable, DiskTypeOK
  <2>3. Reply(c, Len(data[part[0]]), FALSE) /\ UNCHANGED link
    BY <1>1 DEF ResumeReceive
  <2>4. WireTypeOK'
    BY <1>0, <2>1, <2>2, <2>3, ExchangeType
  <2>5. Head(up[c]).sum \in Contents
    BY <1>0, <2>1, IncomingFrame
  <2>6. RecvTypeOK'
    BY <1>0, <1>1, <2>1, <2>2, <2>5 DEF ResumeReceive, RecvTypeOK
  <2>7. QED
    BY <1>1, <2>4, <2>6, SameType, FaultCount DEF ResumeReceive, senderVars, TypeInv, TypeOK
<1>2. CASE FreshReceive(c)
  <2>1. /\ Incoming(c, "meta") /\ Consume(c) /\ Reply(c, 0, FALSE)
        /\ UNCHANGED <<senderVars, link, rconn, final, log, faults>>
        /\ rstate' = [rstate EXCEPT ![c] = "fresh"]
        /\ rsum' = [rsum EXCEPT ![c] = Head(up[c]).sum]
        /\ rcount' = [rcount EXCEPT ![c] = 0]
        /\ hashed' = [hashed EXCEPT ![c] = <<>>]
    BY <1>2 DEF FreshReceive
  <2>0. 0 \in 0..Total
    BY <1>0
  <2>a. WireTypeOK'
    BY ONLY <1>0, <2>0, <2>1, ExchangeType
  <2>2. WireTypeOK' /\ Head(up[c]).sum \in Contents
    BY <1>0, <2>1, <2>a, IncomingFrame
  <2>3. PICK n \in Names, f \in Conns :
             /\ part' = [part EXCEPT ![n] = f]
             /\ side' = [side EXCEPT ![n] = Head(up[c]).sum]
             /\ data' = [data EXCEPT ![f] = <<>>]
             /\ torn' = torn \ {f}
             /\ rname' = [rname EXCEPT ![c] = n]
             /\ rino' = [rino EXCEPT ![c] = f]
    BY <1>2, <1>0 DEF FreshReceive, DiskTypeOK
  <2>4. RecvTypeOK'
    BY <1>0, <2>1, <2>2, <2>3 DEF RecvTypeOK
  <2>5. DiskTypeOK'
    BY <1>0, <2>1, <2>2, <2>3 DEF DiskTypeOK
  <2>6. QED
    BY <2>1, <2>2, <2>4, <2>5, SameType, FaultCount DEF senderVars, TypeInv, TypeOK
<1>3. CASE RefuseMeta(c)
  <2>0. Incoming(c, "meta") /\ Consume(c) /\ Reply(c, 0, TRUE) /\ UNCHANGED link
    BY <1>3 DEF RefuseMeta
  <2>z. 0 \in 0..Total
    BY <1>0
  <2>1. WireTypeOK'
    BY <1>0, <2>0, <2>z, ExchangeType
  <2>2. QED
    BY <1>3, <2>1, SameType, FaultCount DEF RefuseMeta, senderVars, TypeInv, TypeOK
<1>4. QED
  BY <1>1, <1>2, <1>3

LEMMA AbandonType ==
  ASSUME TypeInv, NEW c \in Conns, Incoming(c, "chunk"), AbandonReceive(c),
         Fault \/ UNCHANGED faults
  PROVE  TypeInv'
<1>0. WireTypeOK /\ RecvTypeOK /\ DiskTypeOK
  BY DEF TypeInv, TypeOK
<1>1. rcount[c] \in 0..Total
  BY <1>0 DEF RecvTypeOK
<1>2. WireTypeOK'
  BY <1>0, <1>1, ExchangeType DEF AbandonReceive
<1>3. RecvTypeOK' /\ DiskTypeOK'
  BY <1>0 DEF AbandonReceive, RecvTypeOK, DiskTypeOK
<1>4. QED
  BY <1>2, <1>3, SameType, FaultCount DEF AbandonReceive, senderVars, TypeInv, TypeOK

LEMMA StoreType ==
  ASSUME TypeInv, NEW c \in Conns, StoreChunk(c)
  PROVE  TypeInv'
<1>0. WireTypeOK /\ RecvTypeOK /\ DiskTypeOK /\ Total \in Nat
  BY ParamsAssumption DEF TypeInv, TypeOK
<1>1. /\ Incoming(c, "chunk") /\ Consume(c) /\ UNCHANGED link
      /\ rcount[c] + 1 < Total /\ rcount[c] \in 0..Total
      /\ Reply(c, rcount[c] + 1, FALSE)
  BY <1>0 DEF StoreChunk, RecvTypeOK
<1>2. Head(up[c]).body \in Bodies
  BY <1>0, <1>1, IncomingFrame
<1>3. WireTypeOK'
  <2>1. rcount[c] + 1 \in 0..Total
    BY <1>0, <1>1
  <2>2. QED
    BY <1>0, <1>1, <2>1, ExchangeType
<1>4. /\ Written(c, Head(up[c]).body) \in Seq(Cells)
      /\ Hashed(c, Head(up[c]).body) \in Seq(Bodies)
  BY <1>0, <1>1, <1>2, WrittenType
<1>5. RecvTypeOK' /\ DiskTypeOK'
  BY <1>0, <1>1, <1>4 DEF StoreChunk, RecvTypeOK, DiskTypeOK
<1>6. QED
  BY <1>3, <1>5, SameType, FaultCount DEF StoreChunk, senderVars, TypeInv, TypeOK

LEMMA CompleteType ==
  ASSUME TypeInv, NEW c \in Conns, CompleteReceive(c)
  PROVE  TypeInv'
<1> DEFINE w == Written(c, Head(up[c]).body)
<1>0. WireTypeOK /\ RecvTypeOK /\ DiskTypeOK /\ Total \in Nat
  BY ParamsAssumption DEF TypeInv, TypeOK
<1>1. /\ Incoming(c, "chunk") /\ Consume(c) /\ UNCHANGED link
      /\ rcount[c] + 1 = Total /\ rcount[c] \in 0..Total
      /\ rname[c] \in Names /\ rsum[c] \in Contents /\ rino[c] \in Conns
  BY <1>0 DEF CompleteReceive, RecvTypeOK
<1>2. w \in Seq(Cells)
  BY <1>0, <1>1, IncomingFrame, WrittenType
<1>3. \E error \in BOOLEAN : Reply(c, Total, error)
  BY DEF CompleteReceive
<1>4. WireTypeOK'
  BY <1>0, <1>1, <1>3, ExchangeType
<1>5. /\ final' = final \/ (part[rname[c]] # Absent
                             /\ final' = [final EXCEPT ![rname[c]] = part[rname[c]]])
      /\ log' = log \/ log' = log \cup {<<rname[c], rsum[c], c[1]>>}
      /\ Fault \/ UNCHANGED faults
  BY DEF CompleteReceive
<1>6. /\ data' = [data EXCEPT ![rino[c]] = w]
      /\ part' = [part EXCEPT ![rname[c]] = Absent]
      /\ side' = [side EXCEPT ![rname[c]] = Absent]
      /\ rstate' = [rstate EXCEPT ![c] = "idle"]
      /\ rcount' = [rcount EXCEPT ![c] = Total]
      /\ hashed' = [hashed EXCEPT ![c] = <<>>]
      /\ UNCHANGED <<senderVars, rconn, rname, rino, rsum, torn>>
  BY DEF CompleteReceive
<1> HIDE DEF w
<1>7. DiskTypeOK'
  <2>0. c[1] \in Senders
    BY DEF Conns
  <2>1. final' \in [Names -> Conns \cup {Absent}] /\ log' \in SUBSET (Names \X Contents \X Senders)
    BY <1>0, <1>1, <1>5, <2>0 DEF DiskTypeOK
  <2>2. QED
    BY <1>0, <1>1, <1>2, <1>6, <2>1 DEF DiskTypeOK
<1>8. RecvTypeOK'
  BY <1>0, <1>6 DEF RecvTypeOK
<1>9. QED
  BY <1>4, <1>5, <1>6, <1>7, <1>8, SameType, FaultCount DEF senderVars, TypeInv, TypeOK

LEMMA ReceiverType ==
  ASSUME TypeInv, NEW c \in Conns, ReceiverStep(c)
  PROVE TypeInv'
<1>0. WireTypeOK /\ RecvTypeOK /\ Total \in Nat
  BY ParamsAssumption DEF TypeInv, TypeOK
<1>1. CASE OrphanChunk(c)
  <2>1. Incoming(c, "chunk") /\ Consume(c) /\ Reply(c, 0, TRUE) /\ UNCHANGED link
    BY <1>1 DEF OrphanChunk
  <2>2. 0 \in 0..Total
    BY <1>0
  <2>3. WireTypeOK'
    BY <1>0, <2>1, <2>2, ExchangeType
  <2>4. QED
    BY <1>1, <2>3, SameType, FaultCount DEF OrphanChunk, senderVars, TypeInv, TypeOK
<1>2. CASE RejectChunk(c)
  BY <1>2, AbandonType DEF RejectChunk
<1>3. CASE CloseConn(c)
  <2>1. RecvTypeOK'
    BY <1>0, <1>3 DEF CloseConn, RecvTypeOK
  <2>2. QED
    BY <1>3, <2>1, SameType, FaultCount DEF CloseConn, senderVars, TypeInv, TypeOK
<1>4. QED
  BY <1>1, <1>2, <1>3, MetaType, StoreType, CompleteType DEF ReceiverStep

LEMMA FaultType ==
  ASSUME TypeInv, FaultStep
  PROVE TypeInv'
<1>0. SenderTypeOK /\ WireTypeOK /\ RecvTypeOK /\ DiskTypeOK /\ InBatch /\ Total \in Nat
  BY ParamsAssumption DEF TypeInv, TypeOK
<1>1. ASSUME NEW s \in Senders, ConnectFails(s)
      PROVE  TypeInv'
  <2>1. Retry(s, "connect", start[s]) /\ start[s] \in 0..Total
    BY <1>0, <1>1 DEF ConnectFails, SenderTypeOK
  <2>2. SenderTypeOK' /\ InBatch'
    BY <1>1, <2>1, RetryType DEF ConnectFails
  <2>3. QED
    BY <1>1, <2>2, SameType, FaultCount DEF ConnectFails, TypeInv, TypeOK
<1>2. ASSUME NEW s \in Senders, AckTimeout(s)
      PROVE  TypeInv'
  <2>1. PICK kind : Retry(s, kind, acked[s])
    BY <1>2 DEF AckTimeout
  <2>2. SenderTypeOK' /\ InBatch'
    <3>1. acked[s] \in 0..Total
      BY <1>0 DEF SenderTypeOK
    <3>2. UNCHANGED <<mode, src, sum, acked, ci, bend>>
      BY <1>2 DEF AckTimeout
    <3>3. QED
      BY <2>1, <3>1, <3>2, RetryType
  <2>3. WireTypeOK'
    BY <1>0, <1>2, HangUpType DEF AckTimeout, WireTypeOK
  <2>4. QED
    BY <1>2, <2>2, <2>3, SameType, FaultCount DEF AckTimeout, TypeInv, TypeOK
<1>3. ASSUME NEW s \in Senders, EditSource(s)
      PROVE  TypeInv'
  <2>1. src \in [Senders -> Contents]
    BY <1>0 DEF SenderTypeOK, TypeInv, TypeOK
  <2>2. \E v \in Contents : src' = [src EXCEPT ![s] = v]
    BY <1>3 DEF EditSource
  <2>3. src' \in [Senders -> Contents] /\ faults' \in 0..MaxFaults
    BY <1>3, <2>1, <2>2, FaultCount DEF EditSource
  <2>4. SenderTypeOK' /\ InBatch'
    BY <1>0, <1>3, <2>3 DEF EditSource, SenderTypeOK, InBatch
  <2>5. QED
    BY <1>3, <2>3, <2>4, SameType DEF EditSource, TypeInv, TypeOK
<1>4. ASSUME NEW c \in Conns, InitReceiveFails(c)
      PROVE  TypeInv'
  <2>1. Incoming(c, "meta") /\ Consume(c) /\ Reply(c, 0, TRUE) /\ UNCHANGED link
    BY <1>4 DEF InitReceiveFails
  <2>2. 0 \in 0..Total
    BY <1>0
  <2>3. WireTypeOK' /\ Head(up[c]).sum \in Contents
    BY <1>0, <2>1, <2>2, ExchangeType, IncomingFrame
  <2>4. PICK n \in Names : /\ part' = [part EXCEPT ![n] = Absent]
                           /\ side' \in {side, [side EXCEPT ![n] = Head(up[c]).sum]}
    BY <1>4 DEF InitReceiveFails
  <2>5. DiskTypeOK'
    BY <1>0, <1>4, <2>3, <2>4 DEF InitReceiveFails, DiskTypeOK
  <2>6. QED
    BY <1>4, <2>3, <2>5, SameType, FaultCount DEF InitReceiveFails, senderVars, TypeInv, TypeOK
<1>5. ASSUME NEW c \in Conns, WriteChunkFails(c)
      PROVE  TypeInv'
  BY <1>5, AbandonType DEF WriteChunkFails
<1>6. ASSUME NEW c \in Conns, LinkCut(c)
      PROVE  TypeInv'
  <2>1. PICK i \in 0..Len(up[c]), j \in 0..Len(down[c]) :
             /\ up' = [up EXCEPT ![c] = SubSeq(@, 1, i)]
             /\ down' = [down EXCEPT ![c] = SubSeq(@, 1, j)]
    BY <1>6 DEF LinkCut
  <2>2. SubSeq(up[c], 1, i) \in Seq(Frame) /\ SubSeq(down[c], 1, j) \in Seq(Ack)
    BY <1>0, Queue DEF WireTypeOK
  <2>3. WireTypeOK'
    BY <1>0, <1>6, <2>1, <2>2 DEF LinkCut, WireTypeOK
  <2>4. QED
    BY <1>6, <2>3, SameType, FaultCount DEF LinkCut, senderVars, TypeInv, TypeOK
<1>7. ASSUME Crash
      PROVE  TypeInv'
  <2>1. WireTypeOK'
    BY <1>0, <1>7 DEF Crash, WireTypeOK
  <2>2. RecvTypeOK'
    BY <1>0, <1>7 DEF Crash, RecvTypeOK
  <2>3. torn' \in SUBSET Conns
    BY <1>0, <1>7 DEF Crash, RecvTypeOK, DiskTypeOK
  <2>4. DiskTypeOK'
    BY <1>0, <1>7, <2>3 DEF Crash, DiskTypeOK
  <2>5. QED
    BY <1>7, <2>1, <2>2, <2>4, SameType, FaultCount DEF Crash, senderVars, TypeInv, TypeOK
<1>8. QED
  BY <1>1, <1>2, <1>3, <1>4, <1>5, <1>6, <1>7 DEF FaultStep

LEMMA NextType == TypeInv /\ [Next]_vars => TypeInv'
<1>1. ASSUME TypeInv, UNCHANGED vars PROVE TypeInv'
  BY <1>1, SameType, FaultCount DEF vars, senderVars, TypeInv, TypeOK
<1>2. QED
  BY <1>1, SenderType, ReceiverType, FaultType DEF Next

\* Every variable keeps its type, and in particular no index, retry count or
\* acked position ever leaves the file, for any number of senders and chunks.
THEOREM TypeCorrect == Spec => []TypeOK
<1>1. Spec => []TypeInv
  BY InitType, NextType, PTL DEF Spec
<1>2. TypeInv => TypeOK
  BY DEF TypeInv
<1>3. QED
  BY <1>1, <1>2, PTL
-----------------------------------------------------------------------------
(***************************************************************************)
(* OK means published.  A connection carries one checksum from FileMeta to *)
(* the final ack; what it says is only believed by the attempt that opened *)
(* it, and connections not opened yet are empty.                           *)
(***************************************************************************)
Current(c) == c[2] = try[c[1]] /\ pc[c[1]] \notin {"ready", "failed"}
Unopened(c) == c[2] > try[c[1]] \/ (c[2] = try[c[1]] /\ pc[c[1]] = "ready")

Quiet(c) == up[c] = <<>> /\ down[c] = <<>> /\ rstate[c] = "idle"

Published(h, s) == \E n \in Names : <<n, h, s>> \in log

Carries(c, h) ==
  /\ \A i \in 1..Len(up[c]) : up[c][i].type = "meta" => up[c][i].sum = h
  /\ rstate[c] # "idle" => rsum[c] = h
  /\ \A i \in 1..Len(down[c]) :
       (~down[c][i].error /\ down[c][i].next = Total) => Published(h, c[1])

ConnInv == \A c \in Conns : /\ Unopened(c) => Quiet(c)
                            /\ Current(c) => Carries(c, sum[c[1]])

OKInv == TypeInv /\ ConnInv /\ OKMeansPublished

LEMMA InitOK == Init => OKInv
<1> SUFFICES ASSUME Init PROVE OKInv
  OBVIOUS
<1>1. TypeInv
  BY InitType
<1>2. ConnInv
  BY DEF Init, ConnInv, Quiet, Current, Conns
<1>3. QED
  BY <1>1, <1>2 DEF Init, OKInv, OKMeansPublished

\* A step of the daemon on connection c that reads at most one frame and
\* answers with an ack that does not lie.
LEMMA DaemonKeepsOK ==
  ASSUME OKInv, TypeInv', NEW c \in Conns,
         up[c] # <<>>,
         UNCHANGED senderVars,
         log \subseteq log',
         Consume(c),
         \A d \in Conns \ {c} : rstate'[d] = rstate[d] /\ rsum'[d] = rsum[d],
         NEW next, NEW error, Reply(c, next, error),
         \A h \in Contents : Carries(c, h) =>
            /\ rstate'[c] # "idle" => rsum'[c] = h
            /\ (~error /\ next = Total) => Published(h, c[1])'
  PROVE  OKInv'
<1> DEFINE a == [next |-> next, error |-> error]
<1>1. /\ WireTypeOK /\ WireTypeOK' /\ SenderTypeOK
      /\ \A d \in Conns : d[1] \in Senders
  BY DEF OKInv, TypeInv, TypeOK, Conns
<1>2. OKMeansPublished'
  BY DEF OKInv, OKMeansPublished, senderVars
<1>3. ASSUME NEW d \in Conns, d # c
      PROVE  /\ Unopened(d)' => Quiet(d)'
             /\ Current(d)' => Carries(d, sum[d[1]])'
  <2>1. up'[d] = up[d] /\ down'[d] = down[d] /\ rstate'[d] = rstate[d] /\ rsum'[d] = rsum[d]
    BY <1>1, <1>3 DEF Consume, Reply, WireTypeOK
  <2>2. QED
    BY <2>1 DEF OKInv, ConnInv, Unopened, Current, Quiet, Carries, Published, senderVars
<1>4. ~Unopened(c)'
  BY DEF OKInv, ConnInv, Unopened, Quiet, senderVars
<1>5. ASSUME Current(c)' PROVE Carries(c, sum[c[1]])'
  <2> DEFINE h == sum[c[1]]
  <2>1. Carries(c, h) /\ h \in Contents /\ h' = h
    BY <1>1, <1>5 DEF OKInv, ConnInv, Current, SenderTypeOK, senderVars
  <2> HIDE DEF h
  <2>2. up[c] \in Seq(Frame) /\ up'[c] = Tail(up[c])
    BY <1>1 DEF WireTypeOK, Consume
  <2>3. \A i \in 1..Len(up'[c]) : up'[c][i].type = "meta" => up'[c][i].sum = h
    BY <2>1, <2>2 DEF Carries
  <2> HIDE DEF a
  <2>4. down[c] \in Seq(Ack) /\ (down'[c] = down[c] \/ down'[c] = Append(down[c], a))
    BY <1>1 DEF WireTypeOK, Reply, a
  <2>5. a.error = error /\ a.next = next
    BY DEF a
  <2>6. ASSUME NEW i \in 1..Len(down'[c]), ~down'[c][i].error, down'[c][i].next = Total
        PROVE  Published(h, c[1])'
    <3>1. CASE i \in 1..Len(down[c]) /\ down'[c][i] = down[c][i]
      BY <3>1, <2>1, <2>6 DEF Carries, Published
    <3>2. CASE down'[c][i] = a
      BY <3>2, <2>1, <2>5, <2>6
    <3>3. CASE down'[c] = Append(down[c], a)
      BY <3>3, <3>1, <3>2, <2>4, <2>6, QueueItems
    <3>4. QED
      BY <2>4, <2>6, <3>1, <3>3
  <2>7. QED
    BY <2>1, <2>3, <2>6 DEF Carries, h
<1>6. QED
  BY <1>2, <1>3, <1>4, <1>5 DEF OKInv, ConnInv

LEMMA MetaSum ==
  ASSUME WireTypeOK, RecvTypeOK, NEW c \in Conns, Incoming(c, "meta"), NEW h, Carries(c, h),
         rsum' = [rsum EXCEPT ![c] = Head(up[c]).sum]
  PROVE  rsum'[c] = h
<1>1. up[c] \in Seq(Frame) /\ up[c] # <<>> /\ Head(up[c]).type = "meta"
  BY DEF WireTypeOK, Incoming
<1>2. Head(up[c]) = up[c][1] /\ 1 \in 1..Len(up[c])
  BY <1>1
<1>3. Head(up[c]).sum = h
  BY <1>1, <1>2 DEF Carries
<1>4. QED
  BY <1>3 DEF RecvTypeOK

LEMMA ReceiverOK ==
  ASSUME OKInv, TypeInv', NEW c \in Conns, ReceiverStep(c) \/ InitReceiveFails(c) \/ WriteChunkFails(c)
  PROVE  OKInv'
<1>0. /\ WireTypeOK /\ RecvTypeOK /\ DiskTypeOK /\ Total \in Nat \ {0}
  BY ParamsAssumption DEF OKInv, TypeInv, TypeOK
<1>1. CASE ResumeReceive(c)
  <2>1. /\ Incoming(c, "meta") /\ Consume(c) /\ UNCHANGED senderVars /\ UNCHANGED log
        /\ Reply(c, Len(data[part[0]]), FALSE)
        /\ rsum' = [rsum EXCEPT ![c] = Head(up[c]).sum]
        /\ rstate' = [rstate EXCEPT ![c] = "append"]
    BY <1>1 DEF ResumeReceive, diskVars
  <2>a. Len(data[part[0]]) # Total
    BY <1>0, <1>1 DEF ResumeReceive, Resumable
  <2>b. \A d \in Conns \ {c} : rstate'[d] = rstate[d] /\ rsum'[d] = rsum[d]
    BY <1>0, <2>1 DEF RecvTypeOK
  <2>2. ASSUME NEW h \in Contents, Carries(c, h) PROVE rsum'[c] = h
    BY <1>0, <2>1, <2>2, MetaSum
  <2>3. \A h \in Contents : Carries(c, h) =>
            /\ rstate'[c] # "idle" => rsum'[c] = h
            /\ (~FALSE /\ Len(data[part[0]]) = Total) => Published(h, c[1])'
    BY <2>a, <2>2
  <2>4. up[c] # <<>> /\ log \subseteq log'
    BY <2>1 DEF Incoming
  <2>5. QED
    BY <2>1, <2>b, <2>3, <2>4, DaemonKeepsOK
<1>2. CASE FreshReceive(c)
  <2>1. /\ Incoming(c, "meta") /\ Consume(c) /\ UNCHANGED senderVars /\ UNCHANGED log
        /\ Reply(c, 0, FALSE)
        /\ rsum' = [rsum EXCEPT ![c] = Head(up[c]).sum]
        /\ rstate' = [rstate EXCEPT ![c] = "fresh"]
    BY <1>2 DEF FreshReceive
  <2>b. \A d \in Conns \ {c} : rstate'[d] = rstate[d] /\ rsum'[d] = rsum[d]
    BY <1>0, <2>1 DEF RecvTypeOK
  <2>2. ASSUME NEW h \in Contents, Carries(c, h) PROVE rsum'[c] = h
    BY <1>0, <2>1, <2>2, MetaSum
  <2>3. \A h \in Contents : Carries(c, h) =>
            /\ rstate'[c] # "idle" => rsum'[c] = h
            /\ (~FALSE /\ 0 = Total) => Published(h, c[1])'
    BY <1>0, <2>2
  <2>4. up[c] # <<>> /\ log \subseteq log'
    BY <2>1 DEF Incoming
  <2>5. QED
    BY <2>1, <2>b, <2>3, <2>4, DaemonKeepsOK
<1>3. CASE RefuseMeta(c) \/ OrphanChunk(c) \/ InitReceiveFails(c)
  <2>1. /\ up[c] # <<>> /\ Consume(c) /\ UNCHANGED <<senderVars, log, rstate, rsum>>
        /\ Reply(c, 0, TRUE)
    BY <1>3 DEF RefuseMeta, OrphanChunk, InitReceiveFails, Incoming, recvVars, diskVars
  <2>2. QED
    BY <2>1, DaemonKeepsOK DEF Carries
<1>4. CASE RejectChunk(c) \/ WriteChunkFails(c)
  <2>1. /\ up[c] # <<>> /\ Consume(c) /\ UNCHANGED <<senderVars, log, rsum>>
        /\ rstate' = [rstate EXCEPT ![c] = "idle"]
        /\ Reply(c, rcount[c], TRUE)
    BY <1>4 DEF RejectChunk, WriteChunkFails, AbandonReceive, Incoming
  <2>2. rstate'[c] = "idle" /\ \A d \in Conns \ {c} : rstate'[d] = rstate[d] /\ rsum'[d] = rsum[d]
    BY <1>0, <2>1 DEF RecvTypeOK
  <2>3. QED
    BY <2>1, <2>2, DaemonKeepsOK
<1>5. CASE StoreChunk(c)
  <2>1. /\ up[c] # <<>> /\ Consume(c) /\ UNCHANGED <<senderVars, log, rstate, rsum>>
        /\ Reply(c, rcount[c] + 1, FALSE)
    BY <1>5 DEF StoreChunk, Incoming
  <2>2. rcount[c] + 1 # Total
    BY <1>0, <1>5 DEF StoreChunk, RecvTypeOK
  <2>3. \A d \in Conns : rstate'[d] = rstate[d] /\ rsum'[d] = rsum[d]
    BY <2>1
  <2>4. \A h \in Contents : Carries(c, h) =>
            /\ rstate'[c] # "idle" => rsum'[c] = h
            /\ (~FALSE /\ rcount[c] + 1 = Total) => Published(h, c[1])'
    BY <2>1, <2>2 DEF Carries
  <2>5. log \subseteq log' /\ UNCHANGED senderVars
    BY <2>1
  <2>6. QED
    BY <2>1, <2>3, <2>4, <2>5, DaemonKeepsOK
<1>6. CASE CompleteReceive(c)
  <2>1. /\ up[c] # <<>> /\ Consume(c) /\ UNCHANGED <<senderVars, rsum>>
        /\ rstate' = [rstate EXCEPT ![c] = "idle"]
        /\ rname[c] \in Names /\ rstate[c] # "idle"
    BY <1>0, <1>6 DEF CompleteReceive, Incoming, RecvTypeOK
  <2>2. PICK error \in BOOLEAN : /\ Reply(c, Total, error)
                                 /\ ~error => log' = log \cup {<<rname[c], rsum[c], c[1]>>}
                                 /\ error => log' = log
    BY <1>6 DEF CompleteReceive
  <2>3. ASSUME NEW h \in Contents, Carries(c, h), ~error
        PROVE  Published(h, c[1])'
    BY <2>1, <2>2, <2>3 DEF Carries, Published
  <2>4. \A d \in Conns \ {c} : rstate'[d] = rstate[d] /\ rsum'[d] = rsum[d]
    BY <1>0, <2>1 DEF RecvTypeOK
  <2>5. rstate'[c] = "idle"
    BY <1>0, <2>1 DEF RecvTypeOK
  <2>6. log \subseteq log'
    BY <2>2
  <2>7. QED
    BY <2>1, <2>2, <2>3, <2>4, <2>5, <2>6, DaemonKeepsOK
<1>7. CASE CloseConn(c)
  <2>1. UNCHANGED <<senderVars, up, down, rsum, log>> /\ rstate' = [rstate EXCEPT ![c] = "idle"]
    BY <1>7 DEF CloseConn, wireVars, diskVars
  <2>2. QED
    BY <1>0, <2>1 DEF OKInv, ConnInv, OKMeansPublished, Unopened, Current, Quiet, Carries, Published,
                      senderVars, RecvTypeOK
<1>8. QED
  BY <1>1, <1>2, <1>3, <1>4, <1>5, <1>6, <1>7 DEF ReceiverStep

\* An attempt given up: its successor is a connection not opened yet.
LEMMA RetryOK ==
  ASSUME OKInv, TypeInv', NEW s \in Senders, NEW kind, NEW hint, Retry(s, kind, hint),
         UNCHANGED <<sum, up, down, rstate, rsum, log>>
  PROVE  OKInv'
<1>1. /\ pc \in [Senders -> Stages] /\ try \in [Senders -> 0..MaxRetries]
      /\ \A c \in Conns : c[1] \in Senders /\ c[2] \in Nat
      /\ MaxRetries \in Nat
  BY ParamsAssumption DEF OKInv, TypeInv, TypeOK, SenderTypeOK, Conns
<1>2. /\ \A r \in Senders \ {s} : pc'[r] = pc[r] /\ try'[r] = try[r]
      /\ \/ pc'[s] = "failed" /\ try'[s] = try[s]
         \/ pc'[s] = "ready" /\ try'[s] = try[s] + 1
  BY <1>1 DEF Retry
<1>3. ASSUME NEW c \in Conns
      PROVE  (Unopened(c)' => Unopened(c)) /\ (Current(c)' => Current(c))
  BY <1>1, <1>2 DEF Unopened, Current
<1>4. ConnInv'
  BY <1>3 DEF OKInv, ConnInv, Quiet, Carries, Published
<1>5. OKMeansPublished'
  BY <1>2 DEF OKInv, OKMeansPublished
<1>6. QED
  BY <1>4, <1>5 DEF OKInv

\* An attempt that goes on.
LEMMA SameAttempt ==
  ASSUME SenderTypeOK, NEW s \in Senders, UNCHANGED try,
         pc[s] \notin {"ready", "failed"}, pc'[s] \notin {"ready", "failed"},
         \A r \in Senders \ {s} : pc'[r] = pc[r],
         NEW c \in Conns
  PROVE  /\ Unopened(c)' => Unopened(c) /\ c # Conn(s)
         /\ Current(c)' => Current(c)
<1>1. c[1] \in Senders /\ c[2] \in Nat /\ try[s] \in Nat
  BY ParamsAssumption DEF Conns, SenderTypeOK
<1>2. CASE c[1] = s
  <2>1. c = Conn(s) => c[2] = try[s]
    BY DEF Conn
  <2>2. QED
    BY <1>1, <1>2, <2>1 DEF Unopened, Current
<1>3. CASE c[1] # s
  BY <1>1, <1>3 DEF Unopened, Current, Conn
<1>4. QED
  BY <1>2, <1>3

LEMMA SenderOK ==
  ASSUME OKInv, TypeInv', NEW s \in Senders, SenderStep(s)
  PROVE  OKInv'
<1>0. /\ SenderTypeOK /\ WireTypeOK /\ SenderTypeOK' /\ Total \in Nat
      /\ \A c \in Conns : c = <<c[1], c[2]>> /\ c[1] \in Senders /\ c[2] \in Nat
      /\ Conn(s) \in Conns
  BY ParamsAssumption DEF OKInv, TypeInv, TypeOK, SenderTypeOK, Conn, Conns
<1>1. CASE Connect(s)
  <2> DEFINE h == src[s]
             m == [type |-> "meta", sum |-> h, mode |-> mode[s]]
  <2>1. m.sum = h
    OBVIOUS
  <2> HIDE DEF m
  <2>2. /\ up' = [up EXCEPT ![Conn(s)] = <<m>>]
        /\ sum' = [sum EXCEPT ![s] = h]
        /\ pc' = [pc EXCEPT ![s] = "meta"]
        /\ pc[s] = "ready"
        /\ UNCHANGED <<try, down, rstate, rsum, log>>
    BY <1>1 DEF Connect, m, diskVars
  <2> HIDE DEF h
  <2>3. Quiet(Conn(s))
    BY <1>0, <2>2 DEF OKInv, ConnInv, Unopened, Conn
  <2>4. /\ up'[Conn(s)] = <<m>> /\ sum'[s] = h /\ pc'[s] = "meta"
        /\ \A c \in Conns \ {Conn(s)} : up'[c] = up[c]
        /\ \A r \in Senders \ {s} : sum'[r] = sum[r] /\ pc'[r] = pc[r]
    BY <1>0, <2>2 DEF WireTypeOK, SenderTypeOK
  <2>5. ASSUME NEW c \in Conns, c = Conn(s), c[1] = s
        PROVE  Carries(c, sum[c[1]])'
    <3>1. \A i \in 1..Len(up'[c]) : up'[c][i].sum = sum'[c[1]]
      BY <2>1, <2>4, <2>5
    <3>2. down'[c] = <<>> /\ rstate'[c] = "idle"
      BY <2>2, <2>3, <2>5 DEF Quiet
    <3>3. QED
      BY <3>1, <3>2 DEF Carries
  <2>6. ASSUME NEW c \in Conns
        PROVE  (Unopened(c)' => Quiet(c)') /\ (Current(c)' => Carries(c, sum[c[1]])')
    <3>1. CASE c = Conn(s)
      <4>1. c[1] = s /\ c[2] = try[s]
        BY <3>1 DEF Conn
      <4>2. ~Unopened(c)'
        BY <1>0, <4>1, <2>2, <2>4 DEF Unopened, SenderTypeOK
      <4>3. QED
        BY <3>1, <4>1, <4>2, <2>5
    <3>2. CASE c # Conn(s) /\ c[1] = s
      <4>1. c[2] # try[s]
        BY <3>2, <1>0 DEF Conn
      <4>2. QED
        BY <3>2, <4>1, <2>2, <2>4 DEF OKInv, ConnInv, Unopened, Current, Quiet
    <3>3. CASE c[1] # s
      <4>1. c # Conn(s) /\ c[1] \in Senders
        BY <3>3, <1>0 DEF Conn
      <4>2. UNCHANGED <<try, down[c], up[c], pc[c[1]], sum[c[1]], rstate[c], rsum[c], log>>
        BY <4>1, <3>3, <2>2, <2>4
      <4>3. /\ Unopened(c)' => Unopened(c)
            /\ Current(c)' => Current(c)
        BY <4>2 DEF Unopened, Current
      <4>4. /\ Quiet(c) => Quiet(c)'
            /\ Carries(c, sum[c[1]]) => Carries(c, sum[c[1]])'
        BY <4>2 DEF Quiet, Carries, Published
      <4>5. QED
        BY <4>3, <4>4 DEF OKInv, ConnInv
    <3>4. QED
      BY <3>1, <3>2, <3>3
  <2>7. OKMeansPublished'
    BY <2>2, <2>4 DEF OKInv, OKMeansPublished
  <2>8. QED
    BY <2>6, <2>7 DEF OKInv, ConnInv
<1>2. CASE ReceiveAck(s)
  <2>1. PICK a \in Ack : a = Head(down[Conn(s)])
    BY <1>0, <1>2, Queue DEF ReceiveAck, WireTypeOK
  <2>2. /\ down' = [down EXCEPT ![Conn(s)] = Tail(@)]
        /\ down[Conn(s)] # <<>> /\ ~a.error
        /\ UNCHANGED <<try, sum, up, rstate, rsum, log>>
        /\ pc[s] \in {"meta", "batch", "final"}
    BY <1>2, <2>1 DEF ReceiveAck, recvVars, diskVars
  <2>3. /\ \A r \in Senders \ {s} : pc'[r] = pc[r]
        /\ pc'[s] \notin {"ready", "failed"}
    <3>1. pc' = pc \/ \E stage \in {"stream", "final", "ok"} : pc' = [pc EXCEPT ![s] = stage]
      <4>1. \A k : Stream(s, k) => \E stage \in {"stream", "final"} : pc' = [pc EXCEPT ![s] = stage]
        BY DEF Stream
      <4>2. pc' = pc \/ pc' = [pc EXCEPT ![s] = "ok"] \/ \E k : Stream(s, k)
        BY <1>2 DEF ReceiveAck
      <4>3. QED
        BY <4>1, <4>2
    <3>2. pc \in [Senders -> Stages]
      BY <1>0 DEF SenderTypeOK
    <3>3. QED
      BY <3>1, <3>2, <2>2
  <2>4. pc'[s] = "ok" => a.next = Total
    <3>1. CASE pc[s] = "final"
      <4>1. a.next >= Total => a.next = Total
        BY <1>0 DEF Ack
      <4>2. Expected(s) = Total
        BY <3>1 DEF Expected
      <4>3. a.next >= Total \/ pc' = pc
        BY <1>2, <2>1, <4>2 DEF ReceiveAck
      <4>4. QED
        BY <3>1, <4>1, <4>3
    <3>2. CASE pc[s] # "final"
      <4>1. pc' = pc \/ \E k : Stream(s, k)
        BY <1>2, <3>2 DEF ReceiveAck
      <4>2. QED
        BY <1>0, <2>2, <4>1 DEF Stream, SenderTypeOK
    <3>3. QED
      BY <3>1, <3>2
  <2>5. Current(Conn(s)) /\ Conn(s)[1] = s
    BY <2>2 DEF Current, Conn
  <2>6. Carries(Conn(s), sum[s])
    BY <1>0, <2>5 DEF OKInv, ConnInv
  <2>7. a.next = Total => Published(sum[s], s)
    <3>1. down[Conn(s)] \in Seq(Ack)
      BY <1>0 DEF WireTypeOK
    <3>2. a = down[Conn(s)][1] /\ 1 \in 1..Len(down[Conn(s)])
      BY <3>1, <2>1, <2>2
    <3>3. QED
      BY <3>2, <2>2, <2>5, <2>6 DEF Carries
  <2>8. OKMeansPublished'
    BY <2>2, <2>3, <2>4, <2>7 DEF OKInv, OKMeansPublished, Published
  <2>9. ASSUME NEW c \in Conns
        PROVE  /\ Unopened(c)' => Unopened(c) /\ c # Conn(s)
               /\ Current(c)' => Current(c)
    BY <1>0, <2>2, <2>3, SameAttempt
  <2>10. ASSUME NEW c \in Conns, NEW h, Carries(c, h) PROVE Carries(c, h)'
    <3>1. CASE c # Conn(s)
      BY <3>1, <2>2, <2>10, <1>0 DEF Carries, Published, WireTypeOK
    <3>2. CASE c = Conn(s)
      <4>1. down[c] \in Seq(Ack) /\ down'[c] = Tail(down[c])
        BY <1>0, <2>2, <3>2 DEF WireTypeOK
      <4>2. \A i \in 1..Len(down'[c]) : i + 1 \in 1..Len(down[c]) /\ down'[c][i] = down[c][i + 1]
        BY <4>1
      <4>3. Published(h, c[1]) => Published(h, c[1])'
        BY <2>2 DEF Published
      <4>4. UNCHANGED <<up[c], rstate[c], rsum[c]>>
        BY <2>2
      <4>5. QED
        BY <2>10, <4>2, <4>3, <4>4 DEF Carries
    <3>3. QED
      BY <3>1, <3>2
  <2>11. \A c \in Conns \ {Conn(s)} : Quiet(c)' = Quiet(c)
    BY <1>0, <2>2 DEF Quiet, WireTypeOK
  <2>12. QED
    BY <1>0, <2>2, <2>8, <2>9, <2>10, <2>11 DEF OKInv, ConnInv
<1>3. CASE ReceiveError(s)
  BY <1>3, RetryOK DEF ReceiveError, recvVars, diskVars
<1>4. CASE AckReadFails(s)
  BY <1>4, RetryOK DEF AckReadFails, recvVars, diskVars, wireVars
<1>5. CASE SendChunkFails(s)
  BY <1>5, RetryOK DEF SendChunkFails, recvVars, diskVars, wireVars
<1>6. CASE SendChunk(s)
  <2> DEFINE f == [type |-> "chunk", idx |-> ci[s],
                   body |-> Chunk(src[s], ci[s] + 1)]
  <2>1. f.type # "meta"
    OBVIOUS
  <2> HIDE DEF f
  <2>2. /\ up' = up \/ up' = [up EXCEPT ![Conn(s)] = Append(@, f)]
        /\ UNCHANGED <<try, sum, down, rstate, rsum, log>>
        /\ pc[s] = "stream"
        /\ \E stage \in {"stream", "batch", "final"} : pc' = [pc EXCEPT ![s] = stage]
    BY <1>6 DEF SendChunk, f, recvVars, diskVars
  <2>3. /\ \A r \in Senders \ {s} : pc'[r] = pc[r]
        /\ pc'[s] \notin {"ready", "failed", "ok"}
    BY <1>0, <2>2 DEF SenderTypeOK
  <2>4. OKMeansPublished'
    BY <2>2, <2>3 DEF OKInv, OKMeansPublished
  <2>5. ASSUME NEW c \in Conns
        PROVE  /\ Unopened(c)' => Unopened(c) /\ c # Conn(s)
               /\ Current(c)' => Current(c)
    BY <1>0, <2>2, <2>3, SameAttempt
  <2>6. ASSUME NEW c \in Conns, NEW h, Carries(c, h) PROVE Carries(c, h)'
    <3>1. up[c] \in Seq(Frame) /\ (up'[c] = up[c] \/ up'[c] = Append(up[c], f))
      BY <1>0, <2>2 DEF WireTypeOK
    <3>2. \A i \in 1..Len(up'[c]) : up'[c][i].type = "meta" => up'[c][i].sum = h
      BY <2>1, <2>6, <3>1 DEF Carries
    <3>3. QED
      BY <3>2, <2>2, <2>6 DEF Carries, Published
  <2>7. \A c \in Conns \ {Conn(s)} : Quiet(c)' = Quiet(c)
    BY <1>0, <2>2 DEF Quiet, WireTypeOK
  <2>8. QED
    BY <1>0, <2>2, <2>4, <2>5, <2>6, <2>7 DEF OKInv, ConnInv
<1>7. QED
  BY <1>1, <1>2, <1>3, <1>4, <1>5, <1>6 DEF SenderStep

\* Losing frames or a receive state makes no claim.
LEMMA LossOK ==
  ASSUME OKInv, TypeInv', UNCHANGED <<senderVars, rsum, log>>,
         \A c \in Conns : /\ \E i \in 0..Len(up[c]) : up'[c] = SubSeq(up[c], 1, i)
                          /\ \E i \in 0..Len(down[c]) : down'[c] = SubSeq(down[c], 1, i)
                          /\ rstate'[c] \in {"idle", rstate[c]}
  PROVE  OKInv'
<1>1. ASSUME NEW c \in Conns
      PROVE  /\ Quiet(c) => Quiet(c)'
             /\ \A h : Carries(c, h) => Carries(c, h)'
  <2>1. up[c] \in Seq(Frame) /\ down[c] \in Seq(Ack)
    BY DEF OKInv, TypeInv, TypeOK, WireTypeOK
  <2>2. /\ Len(up'[c]) <= Len(up[c]) /\ \A i \in 1..Len(up'[c]) : up'[c][i] = up[c][i]
        /\ up[c] = <<>> => up'[c] = <<>>
    BY <2>1
  <2>3. /\ Len(down'[c]) <= Len(down[c]) /\ \A i \in 1..Len(down'[c]) : down'[c][i] = down[c][i]
        /\ down[c] = <<>> => down'[c] = <<>>
    BY <2>1
  <2>4. /\ \A i \in 1..Len(up'[c]) : i \in 1..Len(up[c])
        /\ \A i \in 1..Len(down'[c]) : i \in 1..Len(down[c])
    BY <2>1, <2>2, <2>3
  <2>5. Quiet(c) => Quiet(c)'
    BY <2>2, <2>3 DEF Quiet
  <2>6. ASSUME NEW h, Carries(c, h) PROVE Carries(c, h)'
    BY <2>2, <2>3, <2>4, <2>6 DEF Carries, Published
  <2>7. QED
    BY <2>5, <2>6
<1>2. QED
  BY <1>1 DEF OKInv, ConnInv, OKMeansPublished, Unopened, Current, senderVars

LEMMA FaultOK ==
  ASSUME OKInv, TypeInv', FaultStep
  PROVE  OKInv'
<1>0. WireTypeOK /\ RecvTypeOK
  BY DEF OKInv, TypeInv, TypeOK
<1>a. ASSUME NEW c \in Conns
      PROVE  /\ up[c] = SubSeq(up[c], 1, Len(up[c])) /\ Len(up[c]) \in 0..Len(up[c])
             /\ <<>> = SubSeq(up[c], 1, 0) /\ 0 \in 0..Len(up[c])
             /\ down[c] = SubSeq(down[c], 1, Len(down[c])) /\ Len(down[c]) \in 0..Len(down[c])
  <2>1. up[c] \in Seq(Frame) /\ down[c] \in Seq(Ack)
    BY <1>0 DEF WireTypeOK
  <2>2. QED
    BY <2>1
<1>1. ASSUME NEW s \in Senders, ConnectFails(s) \/ AckTimeout(s)
      PROVE  OKInv'
  <2>1. \E kind, hint : Retry(s, kind, hint)
    BY <1>1 DEF ConnectFails, AckTimeout
  <2>2. UNCHANGED <<sum, up, down, rstate, rsum, log>>
    BY <1>1 DEF ConnectFails, AckTimeout, wireVars, recvVars, diskVars
  <2>3. QED
    BY <2>1, <2>2, RetryOK
<1>2. ASSUME NEW s \in Senders, EditSource(s)
      PROVE  OKInv'
  BY <1>2 DEF EditSource, OKInv, ConnInv, OKMeansPublished, Unopened, Current, Quiet, Carries, Published,
              wireVars, recvVars, diskVars
<1>3. ASSUME NEW c \in Conns, LinkCut(c)
      PROVE  OKInv'
  <2>1. PICK i \in 0..Len(up[c]), j \in 0..Len(down[c]) :
             /\ up' = [up EXCEPT ![c] = SubSeq(@, 1, i)]
             /\ down' = [down EXCEPT ![c] = SubSeq(@, 1, j)]
    BY <1>3 DEF LinkCut
  <2>2. UNCHANGED <<senderVars, rsum, log, rstate>>
    BY <1>3 DEF LinkCut, recvVars, diskVars
  <2>3. \A d \in Conns : /\ \E k \in 0..Len(up[d]) : up'[d] = SubSeq(up[d], 1, k)
                         /\ \E k \in 0..Len(down[d]) : down'[d] = SubSeq(down[d], 1, k)
    BY <1>0, <1>a, <2>1 DEF WireTypeOK
  <2>4. QED
    BY <2>2, <2>3, LossOK
<1>4. ASSUME Crash
      PROVE  OKInv'
  <2>1. UNCHANGED <<senderVars, rsum, log, down>>
    BY <1>4 DEF Crash
  <2>2. \A c \in Conns : up'[c] \in {up[c], <<>>} /\ rstate'[c] = "idle"
    BY <1>4 DEF Crash
  <2>3. \A d \in Conns : /\ \E k \in 0..Len(up[d]) : up'[d] = SubSeq(up[d], 1, k)
                         /\ \E k \in 0..Len(down[d]) : down'[d] = SubSeq(down[d], 1, k)
    BY <1>a, <2>1, <2>2
  <2>4. QED
    BY <2>1, <2>2, <2>3, LossOK
<1>5. QED
  BY <1>1, <1>2, <1>3, <1>4, ReceiverOK DEF FaultStep

LEMMA NextOK == OKInv /\ [Next]_vars => OKInv'
<1>1. ASSUME OKInv, UNCHANGED vars PROVE OKInv'
  BY <1>1, NextType DEF OKInv, ConnInv, OKMeansPublished, Unopened, Current, Quiet, Carries, Published, vars,
                senderVars, wireVars, recvVars, diskVars
<1>2. ASSUME OKInv, Next PROVE OKInv'
  <2>1. TypeInv'
    BY <1>2, NextType DEF OKInv
  <2>2. QED
    BY <1>2, <2>1, SenderOK, ReceiverOK, FaultOK DEF Next
<1>3. QED
  BY <1>1, <1>2

\* Whatever is lost, retried or resumed, and however many senders run, a
\* sender that printed OK had its checksum verified and published.
THEOREM OKCorrect == Spec => []OKMeansPublished
<1>1. Spec => []OKInv
  BY InitOK, NextOK, PTL DEF Spec
<1>2. OKInv => OKMeansPublished
  BY DEF OKInv
<1>3. QED
  BY <1>1, <1>2, PTL
-----------------------------------------------------------------------------
(***************************************************************************)
(* What is published stays what was verified, as long as the daemon has    *)
(* one connection open at a time.  A file on its disk is written by the    *)
(* one receive in progress, under one name, until it is renamed; a         *)
(* connection that has not delivered its FileMeta has no file yet.         *)
(***************************************************************************)
Unused(f) == \A n \in Names : part[n] # f /\ final[n] # f

HasMeta(q) == \E i \in 1..Len(q) : q[i].type = "meta"

\* A FileMeta comes first and speaks for the sender of the connection.
Opening(q, c) ==
  \A i \in 1..Len(q) : q[i].type = "meta" =>
    i = 1 /\ q[i].mode = mode[c[1]]

SoleOpen == \A c, d \in Conns : rconn[c] = "open" /\ rconn[d] = "open" => c = d

Metas == \A c \in Conns : /\ Opening(up[c], c)
                          /\ Unopened(c) \/ HasMeta(up[c]) => Unused(c)

\* A fresh receive has hashed exactly what it has written.
Exact(c) == /\ data[rino[c]] = hashed[c]
            /\ Len(hashed[c]) = rcount[c]
            /\ rino[c] \notin torn

Receives(c) ==
  /\ rconn[c] = "open" /\ ~HasMeta(up[c])
  /\ part[rname[c]] = rino[c] /\ side[rname[c]] = rsum[c]
  /\ final[rname[c]] # Absent => MayReplace(c)
  /\ rstate[c] = "fresh" => Exact(c)
Receiving == \A c \in Conns : rstate[c] # "idle" => Receives(c)

\* A .part is under no other name, and next to a published file only where
\* some sender may overwrite.
Parts == \A n \in Names : part[n] # Absent =>
  /\ \A m \in Names : part[n] # final[m] /\ (part[m] = part[n] => m = n)
  /\ side[n] # Absent
  /\ final[n] # Absent => AskedToReplace

DiskInv == SoleOpen /\ Metas /\ Receiving /\ Parts /\ PublishedVerified

\* What types say of files and names.
LEMMA DiskFacts ==
  ASSUME TypeInv
  PROVE  /\ \A c \in Conns : c # Absent /\ c[1] \in Senders /\ c = <<c[1], c[2]>>
         /\ \A c \in Conns : rname[c] \in Names /\ rino[c] \in Conns /\ rsum[c] \in Contents
         /\ \A h \in Contents : h # Absent
         /\ 0 \in Names
<1>1. \A c \in Conns : c # Absent /\ c[1] \in Senders /\ c = <<c[1], c[2]>>
  BY DEF Conns, Absent
<1>2. \A c \in Conns : rname[c] \in Names /\ rino[c] \in Conns /\ rsum[c] \in Contents
  BY DEF TypeInv, TypeOK, RecvTypeOK
<1>3. \A h \in Contents : h # Absent
  BY ParamsAssumption
<1>4. 0 \in Names
  BY ParamsAssumption DEF Names
<1>5. QED
  BY <1>1, <1>2, <1>3, <1>4

LEMMA InitDisk == Init => DiskInv
<1> SUFFICES ASSUME Init PROVE DiskInv
  OBVIOUS
<1>1. \A c \in Conns : c # Absent
  BY InitType, DiskFacts
<1>2. SoleOpen /\ Receiving /\ Parts /\ PublishedVerified
  BY DEF Init, SoleOpen, Receiving, Parts, PublishedVerified
<1>3. Metas
  BY <1>1 DEF Init, Metas, Opening, HasMeta, Unused
<1>4. QED
  BY <1>2, <1>3 DEF DiskInv

\* Queues of frames: only the front of one can be a FileMeta.
LEMMA OpeningQueue ==
  ASSUME NEW q \in Seq(Frame), NEW c, Opening(q, c)
  PROVE  /\ q # <<>> => Opening(Tail(q), c) /\ ~HasMeta(Tail(q))
         /\ \A i \in 0..Len(q) : /\ Opening(SubSeq(q, 1, i), c)
                                 /\ HasMeta(SubSeq(q, 1, i)) => HasMeta(q)
         /\ \A f : f.type # "meta" => /\ Opening(Append(q, f), c)
                                      /\ HasMeta(Append(q, f)) => HasMeta(q)
<1>1. ASSUME q # <<>> PROVE Opening(Tail(q), c) /\ ~HasMeta(Tail(q))
  <2>1. \A i \in 1..Len(Tail(q)) : Tail(q)[i].type # "meta"
    <3> SUFFICES ASSUME NEW i \in 1..Len(Tail(q)) PROVE Tail(q)[i].type # "meta"
      OBVIOUS
    <3>1. i + 1 \in 1..Len(q) /\ Tail(q)[i] = q[i + 1]
      BY <1>1, QueueItems
    <3>2. i + 1 # 1
      OBVIOUS
    <3>3. QED
      BY <3>1, <3>2 DEF Opening
  <2>2. QED
    BY <2>1 DEF Opening, HasMeta
<1>2. ASSUME NEW i \in 0..Len(q)
      PROVE  /\ Opening(SubSeq(q, 1, i), c)
             /\ HasMeta(SubSeq(q, 1, i)) => HasMeta(q)
  <2>1. \A j \in 1..Len(SubSeq(q, 1, i)) : j \in 1..Len(q) /\ SubSeq(q, 1, i)[j] = q[j]
    OBVIOUS
  <2>2. QED
    BY <2>1 DEF Opening, HasMeta
<1>3. ASSUME NEW f, f.type # "meta"
      PROVE  /\ Opening(Append(q, f), c)
             /\ HasMeta(Append(q, f)) => HasMeta(q)
  <2>1. \A i \in 1..Len(Append(q, f)) :
          Append(q, f)[i] = f \/ (i \in 1..Len(q) /\ Append(q, f)[i] = q[i])
    BY QueueItems
  <2>2. \A i \in 1..Len(Append(q, f)) : Append(q, f)[i].type = "meta" =>
          i \in 1..Len(q) /\ Append(q, f)[i] = q[i]
    BY <1>3, <2>1
  <2> HIDE <2>1
  <2>3. QED
    BY <2>2 DEF Opening, HasMeta
<1>4. QED
  BY <1>1, <1>2, <1>3

\* A connection that only loses frames or gets chunks keeps what is known of
\* its FileMeta, as long as files stay where they are.
LEMMA MetasKept ==
  ASSUME Metas, UNCHANGED <<mode, part, final>>,
         \A c \in Conns : /\ Opening(up'[c], c)
                          /\ HasMeta(up'[c]) => HasMeta(up[c])
                          /\ Unopened(c)' => Unopened(c)
  PROVE  Metas'
<1> SUFFICES ASSUME NEW c \in Conns
             PROVE  Opening(up[c], c)' /\ (Unopened(c)' \/ HasMeta(up'[c]) => Unused(c)')
  BY DEF Metas, HasMeta
<1>1. Opening(up[c], c)'
  BY DEF Opening
<1>2. Unused(c) => Unused(c)'
  BY DEF Unused
<1>3. QED
  BY <1>1, <1>2 DEF Metas

\* A step of a sender may close an attempt, never reopen one.
LEMMA UnopenedLater ==
  ASSUME TypeInv, NEW s \in Senders,
         \A r \in Senders \ {s} : pc'[r] = pc[r] /\ try'[r] = try[r],
         (pc'[s] # "ready" /\ try'[s] = try[s]) \/ try'[s] = try[s] + 1,
         NEW c \in Conns, Unopened(c)'
  PROVE  Unopened(c)
<1>1. c[1] \in Senders /\ c[2] \in Int /\ try[s] \in Int
  BY ParamsAssumption DEF TypeInv, TypeOK, SenderTypeOK, Conns
<1>2. CASE c[1] = s
  BY <1>1, <1>2 DEF Unopened
<1>3. CASE c[1] # s
  BY <1>1, <1>3 DEF Unopened
<1>4. QED
  BY <1>2, <1>3

\* Only the wire moves, and only frames other than a FileMeta are added.
LEMMA WireDisk ==
  ASSUME TypeInv, DiskInv, UNCHANGED <<mode, sum, recvVars, diskVars>>,
         \A c \in Conns : Unopened(c)' => Unopened(c),
         \A c \in Conns : \/ up'[c] = up[c]
                          \/ \E i \in 0..Len(up[c]) : up'[c] = SubSeq(up[c], 1, i)
                          \/ \E f : f.type # "meta" /\ up'[c] = Append(up[c], f)
                          \/ up[c] # <<>> /\ up'[c] = Tail(up[c])
  PROVE  DiskInv'
<1>1. ASSUME NEW c \in Conns
      PROVE  Opening(up'[c], c) /\ (HasMeta(up'[c]) => HasMeta(up[c]))
  <2>1. up[c] \in Seq(Frame) /\ Opening(up[c], c)
    BY DEF TypeInv, TypeOK, WireTypeOK, DiskInv, Metas
  <2>2. CASE \E i \in 0..Len(up[c]) : up'[c] = SubSeq(up[c], 1, i)
    BY <2>1, <2>2, OpeningQueue
  <2>3. CASE \E f : f.type # "meta" /\ up'[c] = Append(up[c], f)
    <3>1. PICK f : f.type # "meta" /\ up'[c] = Append(up[c], f)
      BY <2>3
    <3>2. QED
      BY ONLY <2>1, <3>1, OpeningQueue
  <2>4. CASE up[c] # <<>> /\ up'[c] = Tail(up[c])
    BY <2>1, <2>4, OpeningQueue
  <2>5. QED
    BY <2>1, <2>2, <2>3, <2>4
<1>2. UNCHANGED <<part, side, final, data, torn, log>>
  BY DEF diskVars
<1>3. UNCHANGED <<rconn, rstate, rname, rino, rsum, rcount, hashed>>
  BY DEF recvVars
<1>4. Metas'
  BY <1>1, <1>2, MetasKept DEF DiskInv
<1>5. Receiving'
  <2>1. ASSUME NEW c \in Conns, rstate'[c] # "idle" PROVE Receives(c)'
    <3>1. Receives(c)
      BY <1>3, <2>1 DEF DiskInv, Receiving
    <3>2. Exact(c) => Exact(c)'
      BY <1>2, <1>3 DEF Exact
    <3>3. ~HasMeta(up'[c])
      BY <1>1, <3>1 DEF Receives
    <3>4. QED
      BY <1>2, <1>3, <3>1, <3>2, <3>3 DEF Receives, HasMeta, MayReplace, AskedToReplace
  <2>2. QED
    BY <2>1 DEF Receiving
<1>6. SoleOpen' /\ Parts' /\ PublishedVerified'
  BY <1>2, <1>3 DEF DiskInv, SoleOpen, Parts, PublishedVerified, AskedToReplace
<1>7. QED
  BY <1>4, <1>5, <1>6 DEF DiskInv

\* A reconnection or a failure, and what it leaves alone.
LEMMA RetryDisk ==
  ASSUME TypeInv, DiskInv, NEW s \in Senders, NEW kind, NEW hint, Retry(s, kind, hint),
         UNCHANGED <<mode, sum, up, recvVars, diskVars>>
  PROVE  DiskInv'
<1>1. /\ \A r \in Senders \ {s} : pc'[r] = pc[r] /\ try'[r] = try[r]
      /\ (pc'[s] # "ready" /\ try'[s] = try[s]) \/ try'[s] = try[s] + 1
  BY DEF Retry, TypeInv, TypeOK, SenderTypeOK
<1>2. \A c \in Conns : Unopened(c)' => Unopened(c)
  BY <1>1, UnopenedLater
<1>3. QED
  BY <1>2, WireDisk

LEMMA SenderDisk ==
  ASSUME ~Overlap, OKInv, DiskInv, NEW s \in Senders, SenderStep(s)
  PROVE  DiskInv'
<1>0. /\ TypeInv /\ SenderTypeOK /\ WireTypeOK /\ RecvTypeOK
      /\ Conn(s) \in Conns /\ Conn(s)[1] = s /\ Conn(s)[2] = try[s]
  BY DEF OKInv, TypeInv, TypeOK, SenderTypeOK, Conn, Conns
<1>1. CASE Connect(s)
  <2> DEFINE h == src[s]
             m == [type |-> "meta", sum |-> h, mode |-> mode[s]]
  <2>1. m.mode = mode[s]
    OBVIOUS
  <2> HIDE DEF m
  <2>2. /\ up' = [up EXCEPT ![Conn(s)] = <<m>>]
        /\ sum' = [sum EXCEPT ![s] = h]
        /\ pc' = [pc EXCEPT ![s] = "meta"]
        /\ rconn' = [rconn EXCEPT ![Conn(s)] = "open"]
        /\ pc[s] = "ready"
        /\ \A c \in Conns : rconn[c] # "open"
        /\ UNCHANGED <<mode, try, rstate, rname, rino, rsum, rcount, hashed>>
        /\ UNCHANGED <<part, side, final, data, torn, log>>
    BY <1>1 DEF Connect, m, diskVars
  <2> HIDE DEF h
  <2>3. \A c \in Conns : rstate[c] = "idle"
    BY <2>2 DEF DiskInv, Receiving, Receives
  <2>4. SoleOpen' /\ Receiving'
    BY <1>0, <2>2, <2>3 DEF SoleOpen, Receiving, RecvTypeOK
  <2>5. Parts' /\ PublishedVerified'
    BY <2>2 DEF DiskInv, Parts, PublishedVerified, AskedToReplace
  <2>6. ASSUME NEW c \in Conns
        PROVE  Opening(up'[c], c) /\ (Unopened(c)' \/ HasMeta(up'[c]) => Unused(c))
    <3>1. Unopened(c)' => Unopened(c)
      <4>1. pc'[s] # "ready" /\ \A r \in Senders \ {s} : pc'[r] = pc[r] /\ try'[r] = try[r]
        BY <1>0, <2>2 DEF SenderTypeOK
      <4>2. QED
        BY <1>0, <2>2, <4>1, UnopenedLater
    <3>2. CASE c = Conn(s)
      <4>1. up'[c] = <<m>> /\ Unopened(c)
        BY <1>0, <2>2, <3>2 DEF WireTypeOK, Unopened
      <4>2. Opening(up'[c], c)
        BY <1>0, <2>1, <3>2, <4>1 DEF Opening
      <4>3. QED
        BY <4>1, <4>2 DEF DiskInv, Metas
    <3>3. CASE c # Conn(s)
      BY <1>0, <2>2, <3>1, <3>3 DEF WireTypeOK, DiskInv, Metas
    <3>4. QED
      BY <3>2, <3>3
  <2>7. Metas'
    BY <2>2, <2>6 DEF Metas, Opening, HasMeta, Unused
  <2>8. QED
    BY <2>4, <2>5, <2>7 DEF DiskInv
<1>2. CASE ReceiveAck(s)
  <2>1. UNCHANGED <<mode, sum, up, try, recvVars, diskVars>>
    BY <1>2 DEF ReceiveAck
  <2>2. /\ \A r \in Senders \ {s} : pc'[r] = pc[r]
        /\ pc'[s] # "ready"
    <3>1. pc' = pc \/ \E stage \in {"stream", "final", "ok"} : pc' = [pc EXCEPT ![s] = stage]
      <4>1. \A k : Stream(s, k) => \E stage \in {"stream", "final"} : pc' = [pc EXCEPT ![s] = stage]
        BY DEF Stream
      <4>2. pc' = pc \/ pc' = [pc EXCEPT ![s] = "ok"] \/ \E k : Stream(s, k)
        BY <1>2 DEF ReceiveAck
      <4>3. QED
        BY <4>1, <4>2
    <3>2. pc[s] # "ready"
      BY <1>2 DEF ReceiveAck
    <3>3. QED
      BY <1>0, <3>1, <3>2 DEF SenderTypeOK
  <2>3. \A c \in Conns : Unopened(c)' => Unopened(c)
    BY <1>0, <2>1, <2>2, UnopenedLater
  <2>4. QED
    BY <1>0, <2>1, <2>3, WireDisk
<1>3. CASE ReceiveError(s) \/ AckReadFails(s) \/ SendChunkFails(s)
  <2>1. /\ \E kind, hint : Retry(s, kind, hint)
        /\ UNCHANGED <<mode, sum, up, recvVars, diskVars>>
    BY <1>3 DEF ReceiveError, AckReadFails, SendChunkFails, wireVars
  <2>2. QED
    BY <1>0, <2>1, RetryDisk
<1>4. CASE SendChunk(s)
  <2> DEFINE f == [type |-> "chunk", idx |-> ci[s],
                   body |-> Chunk(src[s], ci[s] + 1)]
  <2>1. f.type # "meta"
    OBVIOUS
  <2> HIDE DEF f
  <2>2. /\ up' = up \/ up' = [up EXCEPT ![Conn(s)] = Append(@, f)]
        /\ UNCHANGED <<mode, try, sum, recvVars, diskVars>>
        /\ \E stage \in {"stream", "batch", "final"} : pc' = [pc EXCEPT ![s] = stage]
    BY <1>4 DEF SendChunk, f
  <2>3. \A c \in Conns : Unopened(c)' => Unopened(c)
    <3>1. pc'[s] # "ready" /\ \A r \in Senders \ {s} : pc'[r] = pc[r]
      BY <1>0, <2>2 DEF SenderTypeOK
    <3>2. QED
      BY <1>0, <2>2, <3>1, UnopenedLater
  <2>4. \A c \in Conns : up'[c] = up[c] \/ up'[c] = Append(up[c], f)
    BY <1>0, <2>2 DEF WireTypeOK
  <2>5. QED
    BY <1>0, <2>1, <2>2, <2>3, <2>4, WireDisk
<1>5. QED
  BY <1>1, <1>2, <1>3, <1>4 DEF SenderStep

\* Only the one open connection receives.
LEMMA OthersIdle ==
  ASSUME DiskInv, NEW c \in Conns, rconn[c] = "open"
  PROVE  \A d \in Conns \ {c} : rstate[d] = "idle"
BY DEF DiskInv, SoleOpen, Receiving, Receives

\* A frame taken off the wire was the last FileMeta, if it was one; its
\* connection is not one that is yet to be opened.
LEMMA TakenOff ==
  ASSUME OKInv, DiskInv, NEW c \in Conns, up[c] # <<>>, Consume(c)
  PROVE  /\ ~Unopened(c) /\ ~HasMeta(up'[c])
         /\ \A d \in Conns : Opening(up'[d], d)
         /\ \A d \in Conns \ {c} : up'[d] = up[d]
<1>1. up \in [Conns -> Seq(Frame)]
  BY DEF OKInv, TypeInv, TypeOK, WireTypeOK
<1>2. ~Unopened(c)
  BY DEF OKInv, ConnInv, Quiet
<1>3. Opening(up[c], c) /\ up[c] \in Seq(Frame) /\ up'[c] = Tail(up[c])
  BY <1>1 DEF DiskInv, Metas, Consume
<1>4. Opening(up'[c], c) /\ ~HasMeta(up'[c])
  BY <1>3, OpeningQueue
<1>5. \A d \in Conns \ {c} : up'[d] = up[d]
  BY <1>1 DEF Consume
<1>6. QED
  BY <1>2, <1>4, <1>5 DEF DiskInv, Metas

\* What the daemon knows when it reads a FileMeta.
LEMMA MetaRead ==
  ASSUME TypeInv, DiskInv, NEW c \in Conns, Incoming(c, "meta")
  PROVE  /\ rstate[c] = "idle" /\ Unused(c)
         /\ Head(up[c]).mode = mode[c[1]]
         /\ Head(up[c]).sum \in Contents /\ mode[c[1]] \in Modes
<1>1. up[c] \in Seq(Frame) /\ up[c] # <<>> /\ Head(up[c]).type = "meta" /\ WireTypeOK
  BY DEF Incoming, TypeInv, TypeOK, WireTypeOK
<1>2. 1 \in 1..Len(up[c]) /\ Head(up[c]) = up[c][1]
  BY <1>1, QueueItems
<1>3. HasMeta(up[c])
  BY <1>1, <1>2 DEF HasMeta
<1>4. Opening(up[c], c) /\ Unused(c) /\ rstate[c] = "idle"
  BY <1>3 DEF DiskInv, Metas, Receiving, Receives
<1>5. Head(up[c]).sum \in Contents
  BY <1>1, IncomingFrame
<1>6. mode[c[1]] \in Modes
  BY DEF Conns, TypeInv, TypeOK, SenderTypeOK
<1>7. QED
  BY <1>1, <1>2, <1>4, <1>5, <1>6 DEF Opening

\* Publishing is undisturbed while no published file is written.
LEMMA PublishedKept ==
  ASSUME PublishedVerified, UNCHANGED final, log \subseteq log',
         \A n \in Names : final[n] # Absent =>
            /\ data'[final[n]] = data[final[n]]
            /\ final[n] \in torn' => final[n] \in torn
  PROVE  PublishedVerified'
BY DEF PublishedVerified

\* A receive that ends or never begins: its .part may go.
LEMMA GivenUpDisk ==
  ASSUME OKInv, DiskInv, NEW c \in Conns, up[c] # <<>>, Consume(c), rconn[c] = "open",
         rstate'[c] = "idle", \A d \in Conns \ {c} : rstate'[d] = rstate[d],
         UNCHANGED <<mode, try, pc, sum, rconn, final, data, torn, log>>,
         NEW n \in Names, part' = [part EXCEPT ![n] = Absent],
         \A k \in Names \ {n} : side'[k] = side[k]
  PROVE  DiskInv'
<1>0. TypeInv /\ DiskTypeOK
  BY DEF OKInv, TypeInv, TypeOK
<1>1. part'[n] = Absent /\ \A k \in Names \ {n} : part'[k] = part[k]
  BY <1>0 DEF DiskTypeOK
<1>2. Metas'
  <2>1. \A d \in Conns : Opening(up'[d], d)
    BY TakenOff
  <2>2. \A d \in Conns : Unused(d) => Unused(d)'
    BY <1>0, <1>1, DiskFacts DEF Unused
  <2>3. \A d \in Conns : Unopened(d)' \/ HasMeta(up'[d]) => Unopened(d) \/ HasMeta(up[d])
    BY TakenOff DEF Unopened
  <2>4. QED
    BY <2>1, <2>2, <2>3 DEF DiskInv, Metas, Opening, HasMeta
<1>3. SoleOpen' /\ Receiving'
  BY OthersIdle DEF DiskInv, SoleOpen, Receiving
<1>4. Parts'
  BY <1>1 DEF DiskInv, Parts, AskedToReplace
<1>5. PublishedVerified'
  BY PublishedKept DEF DiskInv
<1>6. QED
  BY <1>2, <1>3, <1>4, <1>5 DEF DiskInv

\* A receive that begins on file f under name n.
LEMMA BegunDisk ==
  ASSUME OKInv, DiskInv, NEW c \in Conns, Incoming(c, "meta"), Consume(c),
         UNCHANGED <<senderVars, rconn, final, log>>,
         NEW n \in Names, NEW f \in Conns, f = c \/ part[n] = f,
         part' = [part EXCEPT ![n] = f], side' = [side EXCEPT ![n] = Head(up[c]).sum],
         \A d \in Conns \ {f} : data'[d] = data[d],
         torn' \subseteq torn, f \in torn' => data'[f] = data[f],
         rname'[c] = n, rino'[c] = f, rsum'[c] = Head(up[c]).sum,
         rstate'[c] = "fresh" => Exact(c)',
         \A d \in Conns \ {c} : rstate'[d] = rstate[d],
         final[n] # Absent => MayReplace(c)'
  PROVE  DiskInv'
<1>0. TypeInv /\ DiskTypeOK /\ up[c] # <<>> /\ rconn[c] = "open"
  BY DEF OKInv, TypeInv, TypeOK, Incoming
<1> DEFINE h == Head(up[c]).sum
<1>1. part'[n] = f /\ side'[n] = h
      /\ \A k \in Names \ {n} : part'[k] = part[k] /\ side'[k] = side[k]
  BY <1>0 DEF DiskTypeOK
<1>2. Unused(c) /\ h # Absent
  BY <1>0, MetaRead, DiskFacts
<1> HIDE DEF h
<1>3. Metas'
  <2>1. \A d \in Conns : Opening(up'[d], d)
    BY <1>0, TakenOff
  <2>2. \A d \in Conns \ {c} : Unused(d) => Unused(d)'
    BY <1>1 DEF Unused
  <2>3. \A d \in Conns : Unopened(d)' \/ HasMeta(up'[d]) =>
            d # c /\ (Unopened(d) \/ HasMeta(up[d]))
    BY <1>0, TakenOff DEF Unopened, senderVars
  <2>4. QED
    BY <2>1, <2>2, <2>3 DEF DiskInv, Metas, Opening, HasMeta, senderVars
<1>4. Receiving'
  <2>1. ~HasMeta(up'[c])
    BY <1>0, TakenOff
  <2>2. rstate'[c] # "idle" => Receives(c)'
    BY <1>0, <1>1, <1>2, <2>1 DEF Receives, HasMeta, h
  <2>3. QED
    BY <1>0, <2>2, OthersIdle DEF Receiving
<1>5. \A k \in Names : final[k] # f
  BY <1>0, <1>2, DiskFacts DEF Unused, DiskInv, Parts
<1>6. Parts'
  <2>1. \A k \in Names \ {n} : part[k] # f
    BY <1>0, <1>2, DiskFacts DEF Unused, DiskInv, Parts
  <2>2. final[n] # Absent => AskedToReplace'
    BY <1>0, DiskFacts DEF MayReplace, AskedToReplace
  <2>3. QED
    BY <1>1, <1>2, <1>5, <2>1, <2>2 DEF DiskInv, Parts, senderVars, AskedToReplace
<1>7. PublishedVerified'
  BY <1>5, <1>0, PublishedKept DEF DiskInv, DiskTypeOK
<1>8. SoleOpen'
  BY DEF DiskInv, SoleOpen, senderVars
<1>9. QED
  BY <1>3, <1>4, <1>6, <1>7, <1>8 DEF DiskInv

LEMMA MetaDisk ==
  ASSUME OKInv, DiskInv, NEW c \in Conns, ResumeReceive(c) \/ FreshReceive(c)
  PROVE  DiskInv'
<1>0. /\ TypeInv /\ DiskTypeOK /\ RecvTypeOK /\ Incoming(c, "meta") /\ Consume(c)
      /\ UNCHANGED <<senderVars, rconn, final, log>> /\ ~RefusedExisting(Head(up[c]))
  BY DEF OKInv, TypeInv, TypeOK, ResumeReceive, FreshReceive, diskVars
<1>1. Head(up[c]).mode = mode[c[1]] /\ Head(up[c]).mode \in Modes /\ Head(up[c]).sum \in Contents /\ 0 \in Names
  BY <1>0, MetaRead, DiskFacts
<1>2. CASE ResumeReceive(c)
  <2>1. /\ part[0] # Absent /\ side[0] = Head(up[c]).sum
        /\ UNCHANGED <<part, side, data, torn>>
        /\ rstate' = [rstate EXCEPT ![c] = "append"]
        /\ rname' = [rname EXCEPT ![c] = 0]
        /\ rino' = [rino EXCEPT ![c] = part[0]]
        /\ rsum' = [rsum EXCEPT ![c] = Head(up[c]).sum]
    BY <1>2 DEF ResumeReceive, Resumable, diskVars
  <2>2. part[0] \in Conns
    BY <1>0, <1>1, <2>1 DEF DiskTypeOK
  <2>3. final[0] # Absent => MayReplace(c)'
    BY <1>0, <1>1, <2>1 DEF DiskInv, Parts, RefusedExisting, Modes, MayReplace, AskedToReplace,
                            senderVars, RecvTypeOK
  <2>4. part' = [part EXCEPT ![0] = part[0]] /\ side' = [side EXCEPT ![0] = Head(up[c]).sum]
    BY <1>0, <1>1, <2>1 DEF DiskTypeOK
  <2>5. /\ rname'[c] = 0 /\ rino'[c] = part[0] /\ rsum'[c] = Head(up[c]).sum /\ rstate'[c] = "append"
        /\ \A d \in Conns \ {c} : rstate'[d] = rstate[d]
    BY <1>0, <2>1 DEF RecvTypeOK
  <2>6. (\A d \in Conns : data'[d] = data[d]) /\ torn' \subseteq torn
    BY <2>1
  <2>7. QED
    BY ONLY OKInv, DiskInv, <1>0, <1>1, <2>2, <2>3, <2>4, <2>5, <2>6, BegunDisk
<1>3. CASE FreshReceive(c)
  <2>1. PICK n \in Names, f \in Conns :
             /\ f = IF part[n] = Absent THEN c ELSE part[n]
             /\ FreshName(Head(up[c]), n)
             /\ part' = [part EXCEPT ![n] = f]
             /\ side' = [side EXCEPT ![n] = Head(up[c]).sum]
             /\ data' = [data EXCEPT ![f] = <<>>]
             /\ torn' = torn \ {f}
             /\ rname' = [rname EXCEPT ![c] = n]
             /\ rino' = [rino EXCEPT ![c] = f]
    BY <1>0, <1>3 DEF FreshReceive, DiskTypeOK
  <2>2. /\ rstate' = [rstate EXCEPT ![c] = "fresh"]
        /\ rsum' = [rsum EXCEPT ![c] = Head(up[c]).sum]
        /\ rcount' = [rcount EXCEPT ![c] = 0]
        /\ hashed' = [hashed EXCEPT ![c] = <<>>]
    BY <1>3 DEF FreshReceive
  <2>3. final[n] # Absent => Head(up[c]).mode = "path"
    BY <1>0, <1>1, <2>1 DEF FreshName, Taken, RefusedExisting, Modes
  <2>4. /\ rname'[c] = n /\ rino'[c] = f /\ rsum'[c] = Head(up[c]).sum /\ rstate'[c] = "fresh"
        /\ rcount'[c] = 0 /\ hashed'[c] = <<>>
        /\ \A d \in Conns \ {c} : rstate'[d] = rstate[d]
    BY <1>0, <2>1, <2>2 DEF RecvTypeOK
  <2>5. /\ data'[f] = <<>> /\ \A d \in Conns \ {f} : data'[d] = data[d]
        /\ f \notin torn' /\ torn' \subseteq torn
    BY <1>0, <2>1 DEF DiskTypeOK
  <2>6. Exact(c)'
    BY <2>4, <2>5 DEF Exact
  <2>7. (f = c \/ part[n] = f) /\ (final[n] # Absent => MayReplace(c)')
    BY <1>0, <1>1, <2>1, <2>3 DEF MayReplace, senderVars
  <2>8. QED
    BY ONLY OKInv, DiskInv, <1>0, <2>1, <2>4, <2>5, <2>6, <2>7, BegunDisk
<1>4. QED
  BY <1>2, <1>3

\* A chunk written at the end of a file goes where the hash has it.
LEMMA WrittenExact ==
  ASSUME TypeInv, NEW c \in Conns, NEW b \in Bodies, rstate[c] = "fresh", Exact(c)
  PROVE  Written(c, b) = Hashed(c, b) /\ Len(Hashed(c, b)) = rcount[c] + 1
<1>1. data[rino[c]] = hashed[c] /\ hashed[c] \in Seq(Bodies) /\ Len(hashed[c]) = rcount[c]
  BY DEF Exact, TypeInv, TypeOK, RecvTypeOK
<1>2. Larger(Len(hashed[c]), Len(hashed[c]) + 1) = Len(hashed[c]) + 1
  BY <1>1 DEF Larger
<1>3. WriteAt(hashed[c], Len(hashed[c]) + 1, b) = Append(hashed[c], b)
  <2> DEFINE q == hashed[c]
             w == WriteAt(q, Len(q) + 1, b)
  <2>1. w = [i \in 1..Len(q) + 1 |-> IF i = Len(q) + 1 THEN b ELSE IF i <= Len(q) THEN q[i] ELSE Hole]
    BY <1>2 DEF WriteAt
  <2>2. q \in Seq(Bodies)
    BY <1>1
  <2> HIDE DEF q, w
  <2>3. w \in Seq(Bodies)
    <3>1. \A i \in 1..Len(q) + 1 :
            (IF i = Len(q) + 1 THEN b ELSE IF i <= Len(q) THEN q[i] ELSE Hole) \in Bodies
      BY <2>2
    <3>2. QED
      BY <2>1, <2>2, <3>1, IsASeq
  <2>4. Len(w) = Len(q) + 1
    BY <2>1, <2>2, <2>3
  <2>5. Append(q, b) \in Seq(Bodies) /\ Len(Append(q, b)) = Len(q) + 1
    BY <2>2
  <2>6. \A i \in 1..Len(q) + 1 : w[i] = Append(q, b)[i]
    BY <2>1, <2>2
  <2>7. w = Append(q, b)
    BY <2>3, <2>4, <2>5, <2>6, SeqEqual
  <2>8. QED
    BY <2>7 DEF q, w
<1>4. QED
  BY <1>1, <1>3 DEF Written, Hashed

LEMMA StoreDisk ==
  ASSUME OKInv, DiskInv, NEW c \in Conns, StoreChunk(c)
  PROVE  DiskInv'
<1> DEFINE b == Head(up[c]).body
           w == Written(c, b)
           x == Hashed(c, b)
<1>0. TypeInv /\ DiskTypeOK /\ RecvTypeOK /\ WireTypeOK
  BY DEF OKInv, TypeInv, TypeOK
<1>1. /\ Incoming(c, "chunk") /\ Consume(c) /\ rstate[c] # "idle"
      /\ up[c] # <<>> /\ rconn[c] = "open"
      /\ UNCHANGED <<senderVars, rconn, rstate, rname, rino, rsum, part, side, final, torn, log>>
      /\ data' = [data EXCEPT ![rino[c]] = w]
      /\ hashed' = [hashed EXCEPT ![c] = x]
      /\ rcount' = [rcount EXCEPT ![c] = @ + 1]
  BY DEF StoreChunk, Incoming
<1>2. b \in Bodies
  BY <1>0, <1>1, IncomingFrame
<1>3. rstate[c] = "fresh" => Exact(c) /\ w = x /\ Len(x) = rcount[c] + 1
  BY <1>0, <1>1, <1>2, WrittenExact DEF DiskInv, Receiving, Receives
<1> HIDE DEF w, x
<1>4. /\ data'[rino[c]] = w /\ hashed'[c] = x /\ rcount'[c] = rcount[c] + 1
      /\ \A d \in Conns \ {rino[c]} : data'[d] = data[d]
  BY <1>0, <1>1 DEF DiskTypeOK, RecvTypeOK
<1>5. Receives(c)
  BY <1>1 DEF DiskInv, Receiving
<1>6. Metas'
  <2>1. \A d \in Conns : Opening(up'[d], d) /\ (HasMeta(up'[d]) => HasMeta(up[d]))
    BY <1>1, TakenOff
  <2>2. \A d \in Conns : Unopened(d)' => Unopened(d)
    BY <1>1 DEF Unopened, senderVars
  <2>3. UNCHANGED <<mode, part, final>>
    BY <1>1 DEF senderVars
  <2>4. QED
    BY <2>1, <2>2, <2>3, MetasKept DEF DiskInv
<1>7. Receiving'
  <2>1. ~HasMeta(up'[c])
    BY <1>1, TakenOff
  <2>2. (rstate[c] = "fresh") => Exact(c)'
    BY <1>1, <1>3, <1>4 DEF Exact
  <2>3. Receives(c)'
    BY <1>1, <1>5, <2>1, <2>2 DEF Receives, HasMeta, MayReplace, AskedToReplace, senderVars
  <2>4. \A d \in Conns \ {c} : rstate'[d] = "idle"
    BY <1>1, OthersIdle
  <2>5. QED
    BY <2>3, <2>4 DEF Receiving
<1>8. PublishedVerified'
  <2>1. \A n \in Names : final[n] # Absent => final[n] \in Conns \ {rino[c]}
    BY <1>0, <1>5, DiskFacts DEF DiskInv, Parts, Receives, DiskTypeOK
  <2>2. QED
    BY <1>1, <1>4, <2>1, PublishedKept DEF DiskInv
<1>9. SoleOpen' /\ Parts'
  BY <1>1 DEF DiskInv, SoleOpen, Parts, senderVars, AskedToReplace
<1>10. QED
  BY <1>6, <1>7, <1>8, <1>9 DEF DiskInv

\* The last chunk: what is renamed is what was declared.
LEMMA LastChunk ==
  ASSUME OKInv, DiskInv, NEW c \in Conns, CompleteReceive(c)
  PROVE  /\ up[c] # <<>> /\ Consume(c) /\ rconn[c] = "open" /\ Receives(c)
         /\ \A d \in Conns \ {rino[c]} : data'[d] = data[d]
         /\ \A n \in Names : final[n] # Absent => final[n] \in Conns \ {rino[c]}
         /\ UNCHANGED <<senderVars, rconn, rname, rino, rsum, torn>>
         /\ rstate' = [rstate EXCEPT ![c] = "idle"]
         /\ part' = [part EXCEPT ![rname[c]] = Absent]
         /\ side' = [side EXCEPT ![rname[c]] = Absent]
         /\ \/ UNCHANGED <<final, log>>
            \/ /\ final' = [final EXCEPT ![rname[c]] = rino[c]]
               /\ log' = log \cup {<<rname[c], rsum[c], c[1]>>}
               /\ rino[c] \notin torn /\ data'[rino[c]] = FileOf(rsum[c])
<1> DEFINE b == Head(up[c]).body
           w == Written(c, b)
<1>0. TypeInv /\ DiskTypeOK /\ RecvTypeOK /\ WireTypeOK
  BY DEF OKInv, TypeInv, TypeOK
<1>1. /\ Incoming(c, "chunk") /\ Consume(c) /\ rstate[c] # "idle"
      /\ up[c] # <<>> /\ rconn[c] = "open"
      /\ data' = [data EXCEPT ![rino[c]] = w]
      /\ UNCHANGED <<senderVars, rconn, rname, rino, rsum, torn>>
      /\ rstate' = [rstate EXCEPT ![c] = "idle"]
      /\ part' = [part EXCEPT ![rname[c]] = Absent]
      /\ side' = [side EXCEPT ![rname[c]] = Absent]
  BY DEF CompleteReceive, Incoming
<1>2. Receives(c) /\ b \in Bodies /\ rino[c] \in Conns
  BY <1>0, <1>1, IncomingFrame, DiskFacts DEF DiskInv, Receiving
<1>3. \/ UNCHANGED <<final, log>>
      \/ /\ final' = [final EXCEPT ![rname[c]] = part[rname[c]]]
         /\ log' = log \cup {<<rname[c], rsum[c], c[1]>>}
         /\ ChecksumOK(c, b, [data EXCEPT ![rino[c]] = w])
  BY DEF CompleteReceive
<1>4. rstate[c] = "fresh" => Exact(c) /\ w = Hashed(c, b)
  BY <1>0, <1>2, WrittenExact DEF Receives
<1> HIDE DEF w
<1>5. data'[rino[c]] = w /\ \A d \in Conns \ {rino[c]} : data'[d] = data[d]
  BY <1>0, <1>1, <1>2 DEF DiskTypeOK
<1>6. ChecksumOK(c, b, [data EXCEPT ![rino[c]] = w]) =>
        rino[c] \notin torn /\ data'[rino[c]] = FileOf(rsum[c])
  BY <1>1, <1>2, <1>4, <1>5 DEF ChecksumOK, Receives, Exact
<1>7. \A n \in Names : final[n] # Absent => final[n] \in Conns \ {rino[c]}
  BY <1>0, <1>2, DiskFacts DEF DiskInv, Parts, Receives, DiskTypeOK
<1>8. part[rname[c]] = rino[c]
  BY <1>2 DEF Receives
<1>9. QED
  BY <1>1, <1>2, <1>3, <1>5, <1>6, <1>7, <1>8

LEMMA CompleteDisk ==
  ASSUME OKInv, DiskInv, NEW c \in Conns, CompleteReceive(c)
  PROVE  DiskInv'
<1> DEFINE n == rname[c]
           f == rino[c]
<1>0. TypeInv /\ DiskTypeOK /\ RecvTypeOK /\ n \in Names /\ f \in Conns /\ f # Absent
  BY DiskFacts DEF OKInv, TypeInv, TypeOK
<1>1. part[n] = f
  BY LastChunk DEF Receives
<1> HIDE DEF n, f
<1>2. /\ up[c] # <<>> /\ Consume(c) /\ rconn[c] = "open"
      /\ UNCHANGED <<senderVars, rconn, torn>>
      /\ \A d \in Conns \ {f} : data'[d] = data[d]
      /\ \A k \in Names : final[k] # Absent => final[k] \in Conns \ {f}
  BY LastChunk DEF f
<1>3. /\ rstate'[c] = "idle" /\ \A d \in Conns \ {c} : rstate'[d] = rstate[d]
      /\ part'[n] = Absent /\ \A k \in Names \ {n} : part'[k] = part[k] /\ side'[k] = side[k]
  BY <1>0, LastChunk DEF DiskTypeOK, RecvTypeOK, n
<1>4. \/ UNCHANGED <<final, log>>
      \/ /\ final' = [final EXCEPT ![n] = f]
         /\ log' = log \cup {<<n, rsum[c], c[1]>>}
         /\ f \notin torn /\ data'[f] = FileOf(rsum[c])
  BY LastChunk DEF n, f
<1>5. \A k \in Names : final'[k] = final[k] \/ (k = n /\ final'[k] = f)
  BY <1>0, <1>4 DEF DiskTypeOK
<1>6. Metas'
  <2>1. \A d \in Conns : Opening(up'[d], d) /\ (HasMeta(up'[d]) => HasMeta(up[d]))
    BY <1>2, TakenOff
  <2>2. \A d \in Conns : Unused(d) => Unused(d)'
    BY <1>0, <1>1, <1>3, <1>5, DiskFacts DEF Unused
  <2>3. \A d \in Conns : Unopened(d)' => Unopened(d)
    BY <1>2 DEF Unopened, senderVars
  <2>4. QED
    BY <1>2, <2>1, <2>2, <2>3 DEF DiskInv, Metas, Opening, HasMeta, senderVars
<1>7. Receiving' /\ SoleOpen'
  BY <1>2, <1>3, OthersIdle DEF DiskInv, Receiving, SoleOpen, senderVars
<1>8. Parts'
  <2>1. ASSUME NEW k \in Names, part'[k] # Absent
        PROVE  /\ \A m \in Names : part'[k] # final'[m] /\ (part'[m] = part'[k] => m = k)
               /\ side'[k] # Absent
               /\ final'[k] # Absent => AskedToReplace'
    <3>1. k # n /\ part'[k] = part[k] /\ side'[k] = side[k] /\ final'[k] = final[k]
      BY <1>3, <1>5, <2>1
    <3>2. part[k] # f
      BY <1>0, <1>1, <2>1, <3>1 DEF DiskInv, Parts
    <3>3. \A m \in Names : part'[k] # final'[m] /\ (part'[m] = part'[k] => m = k)
      BY <1>3, <1>5, <2>1, <3>1, <3>2 DEF DiskInv, Parts
    <3>4. QED
      BY <1>2, <2>1, <3>1, <3>3 DEF DiskInv, Parts, senderVars, AskedToReplace
  <2>2. QED
    BY <2>1 DEF Parts
<1>9. PublishedVerified'
  <2>1. CASE UNCHANGED <<final, log>>
    BY <1>2, <2>1, PublishedKept DEF DiskInv
  <2>2. CASE log' = log \cup {<<n, rsum[c], c[1]>>} /\ f \notin torn /\ data'[f] = FileOf(rsum[c])
    <3>1. ASSUME NEW k \in Names, final'[k] # Absent
          PROVE  /\ final'[k] \notin torn'
                 /\ \E h \in Contents, s \in Senders :
                      <<k, h, s>> \in log' /\ data'[final'[k]] = FileOf(h)
      <4>1. CASE k = n /\ final'[k] = f
        BY <1>0, <1>2, <2>2, <4>1, DiskFacts
      <4>2. CASE final'[k] = final[k]
        BY <1>2, <2>2, <3>1, <4>2 DEF DiskInv, PublishedVerified
      <4>3. QED
        BY <1>5, <4>1, <4>2
    <3>2. QED
      BY <3>1 DEF PublishedVerified
  <2>3. QED
    BY <1>4, <2>1, <2>2
<1>10. QED
  BY <1>6, <1>7, <1>8, <1>9 DEF DiskInv

\* A receive in progress ends with its connection; its file stays in place.
LEMMA EndedDisk ==
  ASSUME OKInv, DiskInv, UNCHANGED <<senderVars, part, side, final, data, log>>,
         \A c \in Conns : rconn'[c] = "open" => rconn[c] = "open",
         \A c \in Conns : up'[c] = up[c] \/ up'[c] = <<>>,
         \A c \in Conns : rstate'[c] = "idle" \/
           (rstate'[c] = rstate[c] /\ UNCHANGED <<rconn, up, rname, rino, rsum, rcount, hashed, torn>>),
         \A f \in torn' : f \in torn \/ \E c \in Conns : rstate[c] # "idle" /\ f = rino[c]
  PROVE  DiskInv'
<1>0. TypeInv /\ DiskTypeOK
  BY DEF OKInv, TypeInv, TypeOK
<1>1. UNCHANGED <<mode, try, pc, sum>>
  BY DEF senderVars
<1>2. Metas'
  <2>1. \A c \in Conns : Opening(up'[c], c) /\ (HasMeta(up'[c]) => HasMeta(up[c]))
    BY DEF DiskInv, Metas, Opening, HasMeta
  <2>2. \A c \in Conns : Unopened(c)' => Unopened(c)
    BY <1>1 DEF Unopened
  <2>3. QED
    BY <1>1, <2>1, <2>2, MetasKept DEF DiskInv
<1>3. Receiving'
  <2>1. ASSUME NEW c \in Conns, rstate'[c] # "idle"
        PROVE  Receives(c)'
    <3>1. rstate'[c] = rstate[c] /\ UNCHANGED <<rconn, up, rname, rino, rsum, rcount, hashed, torn>>
      BY <2>1
    <3>2. Receives(c)
      BY <2>1, <3>1 DEF DiskInv, Receiving
    <3>3. QED
      BY <1>1, <3>1, <3>2 DEF Receives, Exact, HasMeta, MayReplace, AskedToReplace
  <2>2. QED
    BY <2>1 DEF Receiving
<1>4. PublishedVerified'
  <2>1. \A n \in Names : final[n] # Absent => (final[n] \in torn' => final[n] \in torn)
    BY <1>0, DiskFacts DEF DiskInv, Receiving, Receives, Parts
  <2>2. QED
    BY <2>1, PublishedKept DEF DiskInv
<1>5. SoleOpen' /\ Parts'
  BY <1>1 DEF DiskInv, SoleOpen, Parts, AskedToReplace
<1>6. QED
  BY <1>2, <1>3, <1>4, <1>5 DEF DiskInv

LEMMA ReceiverDisk ==
  ASSUME OKInv, DiskInv, NEW c \in Conns,
         ReceiverStep(c) \/ InitReceiveFails(c) \/ WriteChunkFails(c)
  PROVE  DiskInv'
<1>0. TypeInv /\ RecvTypeOK /\ WireTypeOK /\ rname[c] \in Names
  BY DiskFacts DEF OKInv, TypeInv, TypeOK
<1>1. CASE ResumeReceive(c) \/ FreshReceive(c)
  BY <1>1, MetaDisk
<1>2. CASE RefuseMeta(c) \/ OrphanChunk(c)
  <2>1. /\ up[c] # <<>> /\ Consume(c)
        /\ UNCHANGED <<senderVars, recvVars, diskVars>>
    BY <1>2 DEF RefuseMeta, OrphanChunk, Incoming
  <2>2. UNCHANGED <<mode, sum, try, pc>>
    BY <2>1 DEF senderVars
  <2>3. \A d \in Conns : up'[d] = up[d] \/ (up[d] # <<>> /\ up'[d] = Tail(up[d]))
    BY <1>0, <2>1 DEF Consume, WireTypeOK
  <2>4. \A d \in Conns : Unopened(d)' => Unopened(d)
    BY <2>2 DEF Unopened
  <2>5. QED
    BY <1>0, <2>1, <2>2, <2>3, <2>4, WireDisk
<1>3. CASE RejectChunk(c) \/ WriteChunkFails(c)
  <2>1. /\ up[c] # <<>> /\ Consume(c) /\ rconn[c] = "open"
        /\ rstate' = [rstate EXCEPT ![c] = "idle"]
        /\ part' = [part EXCEPT ![rname[c]] = Absent]
        /\ UNCHANGED <<senderVars, rconn, side, final, data, torn, log>>
    BY <1>3 DEF RejectChunk, WriteChunkFails, AbandonReceive, Incoming
  <2>2. rstate'[c] = "idle" /\ \A d \in Conns \ {c} : rstate'[d] = rstate[d]
    BY <1>0, <2>1 DEF RecvTypeOK
  <2>3. UNCHANGED <<mode, try, pc, sum, rconn, final, data, torn, log>>
    BY <2>1 DEF senderVars
  <2>4. \A k \in Names \ {rname[c]} : side'[k] = side[k]
    BY <2>1
  <2>5. QED
    BY ONLY OKInv, DiskInv, <1>0, <2>1, <2>2, <2>3, <2>4, GivenUpDisk
<1>4. CASE InitReceiveFails(c)
  <2>1. PICK n \in Names :
             /\ part' = [part EXCEPT ![n] = Absent]
             /\ \/ side' = side
                \/ side' = [side EXCEPT ![n] = Head(up[c]).sum]
    BY <1>4 DEF InitReceiveFails
  <2>2. /\ Incoming(c, "meta") /\ Consume(c)
        /\ UNCHANGED <<senderVars, recvVars, final, data, torn, log>>
    BY <1>4 DEF InitReceiveFails
  <2>3. up[c] # <<>> /\ rconn[c] = "open" /\ rstate[c] = "idle"
    BY <1>0, <2>2, MetaRead DEF Incoming
  <2>4. /\ UNCHANGED <<mode, try, pc, sum, rconn, final, data, torn, log>>
        /\ rstate'[c] = "idle" /\ \A d \in Conns \ {c} : rstate'[d] = rstate[d]
    BY <2>2, <2>3 DEF senderVars, recvVars
  <2>5. \A k \in Names \ {n} : side'[k] = side[k]
    BY <2>1 DEF OKInv, TypeInv, TypeOK, DiskTypeOK
  <2>6. QED
    BY ONLY OKInv, DiskInv, <2>1, <2>2, <2>3, <2>4, <2>5, GivenUpDisk
<1>5. CASE StoreChunk(c)
  BY <1>5, StoreDisk
<1>6. CASE CompleteReceive(c)
  BY <1>6, CompleteDisk
<1>7. CASE CloseConn(c)
  <2>1. /\ UNCHANGED <<senderVars, up, part, side, final, data, torn, log>>
        /\ rconn' = [rconn EXCEPT ![c] = "closed"]
        /\ rstate' = [rstate EXCEPT ![c] = "idle"]
        /\ rconn[c] = "open"
    BY <1>7 DEF CloseConn, wireVars, diskVars
  <2>2. /\ \A d \in Conns : rconn'[d] = "open" => rconn[d] = "open"
        /\ \A d \in Conns : rstate'[d] = "idle"
    BY <1>0, <2>1, OthersIdle DEF RecvTypeOK
  <2>3. \A d \in Conns : up'[d] = up[d] \/ up'[d] = <<>>
    BY <2>1
  <2>4. \A f \in torn' : f \in torn
    BY <2>1
  <2>5. QED
    BY ONLY OKInv, DiskInv, <2>1, <2>2, <2>3, <2>4, EndedDisk
<1>8. QED
  BY <1>1, <1>2, <1>3, <1>4, <1>5, <1>6, <1>7 DEF ReceiverStep

LEMMA FaultDisk ==
  ASSUME OKInv, DiskInv, FaultStep
  PROVE  DiskInv'
<1>0. TypeInv /\ RecvTypeOK /\ WireTypeOK
  BY DEF OKInv, TypeInv, TypeOK
<1>1. ASSUME NEW s \in Senders, ConnectFails(s) \/ AckTimeout(s)
      PROVE  DiskInv'
  <2>1. /\ \E kind, hint : Retry(s, kind, hint)
        /\ UNCHANGED <<mode, sum, up, recvVars, diskVars>>
    BY <1>1 DEF ConnectFails, AckTimeout, wireVars
  <2>2. QED
    BY <1>0, <2>1, RetryDisk
<1>2. ASSUME NEW s \in Senders, EditSource(s)
      PROVE  DiskInv'
  <2>1. UNCHANGED <<mode, sum, try, pc, up, recvVars, diskVars>>
    BY <1>2 DEF EditSource, wireVars
  <2>2. \A c \in Conns : Unopened(c)' => Unopened(c)
    BY <2>1 DEF Unopened
  <2>3. QED
    BY <1>0, <2>1, <2>2, WireDisk
<1>3. ASSUME NEW c \in Conns, LinkCut(c)
      PROVE  DiskInv'
  <2>1. PICK i \in 0..Len(up[c]) : up' = [up EXCEPT ![c] = SubSeq(@, 1, i)]
    BY <1>3 DEF LinkCut
  <2>2. UNCHANGED <<senderVars, recvVars, diskVars>>
    BY <1>3 DEF LinkCut
  <2>3. UNCHANGED <<mode, sum, try, pc>>
    BY <2>2 DEF senderVars
  <2>4. \A d \in Conns : Unopened(d)' => Unopened(d)
    BY <2>3 DEF Unopened
  <2>5. \A d \in Conns : up'[d] = up[d] \/ \E k \in 0..Len(up[d]) : up'[d] = SubSeq(up[d], 1, k)
    BY <1>0, <2>1 DEF WireTypeOK
  <2>6. QED
    BY <1>0, <2>2, <2>3, <2>4, <2>5, WireDisk
<1>4. ASSUME Crash
      PROVE  DiskInv'
  <2>1. /\ UNCHANGED <<senderVars, part, side, final, data, log>>
        /\ \A c \in Conns : rconn'[c] = "open" => rconn[c] = "open"
        /\ \A c \in Conns : up'[c] = up[c] \/ up'[c] = <<>>
        /\ \A c \in Conns : rstate'[c] = "idle"
    BY <1>4 DEF Crash
  <2>2. PICK T \in SUBSET {rino[c] : c \in {x \in Conns : rstate[x] # "idle"}} : torn' = torn \cup T
    BY <1>4 DEF Crash
  <2>3. \A f \in torn' : f \in torn \/ \E c \in Conns : rstate[c] # "idle" /\ f = rino[c]
    BY <2>2
  <2>4. QED
    BY ONLY OKInv, DiskInv, <2>1, <2>3, EndedDisk
<1>5. QED
  BY <1>1, <1>2, <1>3, <1>4, ReceiverDisk DEF FaultStep

LEMMA NextDisk ==
  ASSUME ~Overlap, OKInv, DiskInv, [Next]_vars
  PROVE  DiskInv'
<1>1. CASE UNCHANGED vars
  <2>1. UNCHANGED <<mode, sum, try, pc, up, recvVars, diskVars>>
    BY <1>1 DEF vars, senderVars, wireVars
  <2>2. \A c \in Conns : Unopened(c)' => Unopened(c)
    BY <2>1 DEF Unopened
  <2>3. QED
    BY <2>1, <2>2, WireDisk DEF OKInv
<1>2. CASE Next
  BY <1>2, SenderDisk, ReceiverDisk, FaultDisk DEF Next
<1>3. QED
  BY <1>1, <1>2

LEMMA DiskCorrect == ~Overlap => (Spec => [](OKInv /\ DiskInv))
<1> SUFFICES ASSUME ~Overlap PROVE Spec => [](OKInv /\ DiskInv)
  OBVIOUS
<1>1. Init => OKInv /\ DiskInv
  BY InitOK, InitDisk
<1>2. OKInv /\ DiskInv /\ [Next]_vars => (OKInv /\ DiskInv)'
  BY NextOK, NextDisk
<1>3. QED
  BY <1>1, <1>2, PTL DEF Spec

\* Whatever breaks, crashes or is written twice, a published name holds the
\* complete file whose checksum was verified for it: for every number of
\* senders, chunks, retries and faults, when connections do not overlap.
THEOREM PublishedCorrect == ~Overlap => (Spec => []PublishedVerified)
<1> SUFFICES ASSUME ~Overlap PROVE Spec => []PublishedVerified
  OBVIOUS
<1>1. OKInv /\ DiskInv => PublishedVerified
  BY DEF DiskInv
<1>2. QED
  BY <1>1, DiskCorrect, PTL

\* No step replaces a published file for a receive that may not: the name it
\* was given stays free until its own rename.
THEOREM NoClobberCorrect == ~Overlap => (Spec => NoClobber)
<1> DEFINE Keeps == \A c \in Conns :
       (rstate[c] # "idle" /\ final[rname[c]] # Absent /\ final'[rname[c]] # final[rname[c]])
         => MayReplace(c)
<1> SUFFICES ASSUME ~Overlap PROVE Spec => NoClobber
  OBVIOUS
<1>1. OKInv /\ DiskInv => Keeps
  <2> SUFFICES ASSUME OKInv, DiskInv, NEW c \in Conns, rstate[c] # "idle",
                      final[rname[c]] # Absent
               PROVE  MayReplace(c)
    BY DEF Keeps
  <2>1. Receives(c)
    BY DEF DiskInv, Receiving
  <2>2. rname[c] \in Names /\ rino[c] # Absent
    BY DiskFacts DEF OKInv
  <2>3. QED
    BY <2>1, <2>2 DEF Receives, DiskInv, Parts
<1>2. OKInv /\ DiskInv => [Keeps]_vars
  BY <1>1
<1>3. QED
  BY <1>2, DiskCorrect, PTL DEF NoClobber
-----------------------------------------------------------------------------
(***************************************************************************)
(* FileTransfer implements VerifiedDelivery, step by step: the rename of a *)
(* verified file publishes it, a sender's OK or ERROR is its result, and   *)
(* nothing else shows.                                                     *)
(***************************************************************************)
Store == [n \in Names |-> IF final[n] = Absent THEN <<>> ELSE data[final[n]]]
Result == [s \in Senders |-> IF pc[s] \in {"ok", "failed"} THEN pc[s] ELSE "pending"]

\* A file being written is not one that is published.
LEMMA StoreKept ==
  ASSUME UNCHANGED final,
         \A n \in Names : final[n] # Absent => data'[final[n]] = data[final[n]]
  PROVE  UNCHANGED Store
BY DEF Store

LEMMA StoreStep ==
  ASSUME OKInv, DiskInv, NEW c \in Conns,
         ReceiverStep(c) \/ InitReceiveFails(c) \/ WriteChunkFails(c)
  PROVE  \/ UNCHANGED <<Store, log>>
         \/ \E n \in Names, h \in Contents, s \in Senders :
              /\ Store' = [Store EXCEPT ![n] = FileOf(h)]
              /\ log' = log \cup {<<n, h, s>>}
<1>0. /\ TypeInv /\ DiskTypeOK
      /\ rname[c] \in Names /\ rino[c] \in Conns /\ rsum[c] \in Contents /\ rino[c] # Absent
  BY DiskFacts DEF OKInv, TypeInv, TypeOK
<1>1. CASE FreshReceive(c)
  <2>1. PICK n \in Names :
             data' = [data EXCEPT ![IF part[n] = Absent THEN c ELSE part[n]] = <<>>]
    BY <1>1 DEF FreshReceive
  <2>2. Unused(c) /\ UNCHANGED <<final, log>>
    BY <1>0, <1>1, MetaRead DEF FreshReceive
  <2>3. \A k \in Names : final[k] # Absent => data'[final[k]] = data[final[k]]
    BY <1>0, <2>1, <2>2 DEF Unused, DiskInv, Parts, DiskTypeOK
  <2>4. QED
    BY <2>2, <2>3, StoreKept
<1>2. CASE StoreChunk(c)
  <2>1. /\ UNCHANGED <<final, log>> /\ rstate[c] # "idle"
        /\ \E w : data' = [data EXCEPT ![rino[c]] = w]
    BY <1>2 DEF StoreChunk
  <2>2. \A n \in Names : final[n] # Absent => data'[final[n]] = data[final[n]]
    BY <1>0, <2>1 DEF DiskInv, Receiving, Receives, Parts, DiskTypeOK
  <2>3. QED
    BY <2>1, <2>2, StoreKept
<1>3. CASE CompleteReceive(c)
  <2>1. /\ \A d \in Conns \ {rino[c]} : data'[d] = data[d]
        /\ \A n \in Names : final[n] # Absent => final[n] \in Conns \ {rino[c]}
    BY <1>3, LastChunk
  <2>2. CASE UNCHANGED <<final, log>>
    BY <2>1, <2>2, StoreKept
  <2>3. CASE /\ final' = [final EXCEPT ![rname[c]] = rino[c]]
             /\ log' = log \cup {<<rname[c], rsum[c], c[1]>>}
             /\ data'[rino[c]] = FileOf(rsum[c])
    <3>1. /\ final'[rname[c]] = rino[c]
          /\ \A k \in Names \ {rname[c]} : final'[k] = final[k]
      BY <1>0, <2>3 DEF DiskTypeOK
    <3>2. Store' = [Store EXCEPT ![rname[c]] = FileOf(rsum[c])]
      <4>1. Store'[rname[c]] = FileOf(rsum[c])
        BY <1>0, <2>3, <3>1 DEF Store
      <4>2. \A k \in Names \ {rname[c]} : Store'[k] = Store[k]
        BY <2>1, <3>1 DEF Store
      <4>3. Store = [k \in Names |-> Store[k]] /\ Store' = [k \in Names |-> Store'[k]]
        BY DEF Store
      <4>4. Store' = [k \in Names |-> IF k = rname[c] THEN FileOf(rsum[c]) ELSE Store[k]]
        BY ONLY <4>1, <4>2, <4>3
      <4>5. [Store EXCEPT ![rname[c]] = FileOf(rsum[c])] =
              [k \in Names |-> IF k = rname[c] THEN FileOf(rsum[c]) ELSE Store[k]]
        BY ONLY <4>3
      <4>6. QED
        BY ONLY <4>4, <4>5
    <3>3. c[1] \in Senders
      BY DEF Conns
    <3>4. QED
      BY <1>0, <2>3, <3>2, <3>3
  <2>4. QED
    BY <1>3, <2>2, <2>3, LastChunk
<1>4. CASE ResumeReceive(c) \/ RefuseMeta(c) \/ OrphanChunk(c) \/ RejectChunk(c) \/ CloseConn(c)
           \/ InitReceiveFails(c) \/ WriteChunkFails(c)
  <2>1. UNCHANGED <<final, data, log>>
    BY <1>4 DEF ResumeReceive, RefuseMeta, OrphanChunk, RejectChunk, AbandonReceive, CloseConn,
                InitReceiveFails, WriteChunkFails, diskVars
  <2>2. QED
    BY <2>1 DEF Store
<1>5. QED
  BY <1>1, <1>2, <1>3, <1>4 DEF ReceiverStep

LEMMA ResultStep ==
  ASSUME OKInv, DiskInv, OKMeansPublished', NEW s \in Senders,
         SenderStep(s) \/ ConnectFails(s) \/ AckTimeout(s) \/ EditSource(s)
  PROVE  /\ UNCHANGED <<Store, log>>
         /\ \/ UNCHANGED <<Result, sum>>
            \/ /\ Result[s] = "pending" /\ UNCHANGED Result
               /\ \E h \in Contents : sum' = [sum EXCEPT ![s] = h]
            \/ /\ Result[s] = "pending" /\ Result' = [Result EXCEPT ![s] = "failed"]
               /\ UNCHANGED sum
            \/ /\ Result[s] = "pending" /\ Result' = [Result EXCEPT ![s] = "ok"]
               /\ UNCHANGED sum
               /\ Published(sum[s], s)
<1>0. pc \in [Senders -> Stages]
  BY DEF OKInv, TypeInv, TypeOK, SenderTypeOK
<1>1. UNCHANGED <<final, data, log>>
  BY DEF SenderStep, Connect, ReceiveAck, ReceiveError, AckReadFails, SendChunk, SendChunkFails,
         ConnectFails, AckTimeout, EditSource, diskVars
<1>2. UNCHANGED Store
  BY <1>1 DEF Store
<1>3. \/ UNCHANGED <<pc, sum>>
      \/ /\ pc[s] = "ready" /\ pc' = [pc EXCEPT ![s] = "meta"]
         /\ sum' = [sum EXCEPT ![s] = src[s]]
      \/ /\ pc[s] \notin {"ok", "failed"} /\ UNCHANGED sum
         /\ \E x \in {"ready", "meta", "stream", "batch", "final", "failed"} :
              pc' = [pc EXCEPT ![s] = x]
      \/ pc[s] \notin {"ok", "failed"} /\ pc' = [pc EXCEPT ![s] = "ok"] /\ sum' = sum
  <2>1. CASE /\ \E kind, hint : pc[s] \notin {"ok", "failed"} /\ Retry(s, kind, hint)
             /\ UNCHANGED sum
    BY <2>1 DEF Retry
  <2>2. CASE ReceiveAck(s)
    BY <2>2 DEF ReceiveAck, Stream
  <2>3. CASE SendChunk(s) \/ EditSource(s)
    BY <2>3 DEF SendChunk, EditSource
  <2>4. CASE Connect(s)
    BY <2>4 DEF Connect
  <2>5. QED
    BY <2>1, <2>2, <2>3, <2>4 DEF SenderStep, ReceiveError, AckReadFails, SendChunkFails,
                            ConnectFails, AckTimeout
<1>4. CASE UNCHANGED <<pc, sum>>
  BY <1>1, <1>2, <1>4 DEF Result
<1>5. ASSUME NEW x \in {"ready", "meta", "stream", "batch", "final", "failed"},
             pc[s] \notin {"ok", "failed"}, pc' = [pc EXCEPT ![s] = x]
      PROVE  \/ UNCHANGED Result
             \/ Result[s] = "pending" /\ Result' = [Result EXCEPT ![s] = "failed"]
  <2>1. CASE x = "failed"
    BY <1>0, <1>5, <2>1 DEF Result
  <2>2. CASE x # "failed"
    BY <1>0, <1>5, <2>2 DEF Result
  <2>3. QED
    BY <2>1, <2>2
<1>6. CASE pc[s] \notin {"ok", "failed"} /\ pc' = [pc EXCEPT ![s] = "ok"] /\ sum' = sum
  <2>1. Result[s] = "pending" /\ Result' = [Result EXCEPT ![s] = "ok"]
    BY <1>0, <1>6 DEF Result
  <2>2. pc'[s] = "ok"
    BY <1>0, <1>6
  <2>3. Published(sum[s], s)
    BY <1>1, <1>6, <2>2 DEF OKMeansPublished, Published
  <2>4. QED
    BY <1>1, <1>2, <1>6, <2>1, <2>3
<1>7. ASSUME pc[s] = "ready", pc' = [pc EXCEPT ![s] = "meta"], sum' = [sum EXCEPT ![s] = src[s]]
      PROVE  /\ Result[s] = "pending" /\ UNCHANGED Result
             /\ \E h \in Contents : sum' = [sum EXCEPT ![s] = h]
  <2>1. Result[s] = "pending" /\ UNCHANGED Result
    BY <1>0, <1>7 DEF Result
  <2>2. src[s] \in Contents
    BY DEF OKInv, TypeInv, TypeOK, SenderTypeOK
  <2>3. QED
    BY <1>7, <2>1, <2>2
<1>8. CASE \E x \in {"ready", "meta", "stream", "batch", "final", "failed"} :
             pc[s] \notin {"ok", "failed"} /\ UNCHANGED sum /\ pc' = [pc EXCEPT ![s] = x]
  <2>1. Result[s] = "pending"
    BY <1>8 DEF Result
  <2>2. QED
    BY <1>1, <1>2, <1>5, <1>8, <2>1
<1>9. QED
  BY <1>1, <1>2, <1>3, <1>4, <1>6, <1>7, <1>8

LEMMA InitDelivery == Init => Delivery!Init
<1>1. Init => sum \in [Senders -> Contents]
  BY DEF Init
<1>2. QED
  BY <1>1 DEF Init, Delivery!Init

LEMMA NextDelivery ==
  ASSUME OKInv, DiskInv, OKInv', [Next]_vars
  PROVE  [Delivery!Next]_(Delivery!vars)
<1>1. ASSUME UNCHANGED <<Store, log, Result, sum>> PROVE UNCHANGED Delivery!vars
  BY <1>1 DEF Delivery!vars, Store, Result
<1>2. CASE UNCHANGED vars
  BY <1>1, <1>2 DEF vars, senderVars, diskVars, Store, Result
<1>3. ASSUME NEW c \in Conns, ReceiverStep(c) \/ InitReceiveFails(c) \/ WriteChunkFails(c)
      PROVE  [Delivery!Next]_(Delivery!vars)
  <2>1. UNCHANGED <<Result, sum>>
    BY <1>3 DEF ReceiverStep, ResumeReceive, FreshReceive, RefuseMeta, OrphanChunk, RejectChunk,
                StoreChunk, CompleteReceive, CloseConn, InitReceiveFails, WriteChunkFails,
                AbandonReceive, senderVars, Result
  <2>2. ASSUME NEW n \in Names, NEW h \in Contents, NEW s \in Senders,
               Store' = [Store EXCEPT ![n] = FileOf(h)], log' = log \cup {<<n, h, s>>}
        PROVE  Delivery!Next
    <3>1. Delivery!Publish(n, h, s)
      BY <2>1, <2>2 DEF Delivery!Publish, Store, Result
    <3>2. QED
      BY <3>1 DEF Delivery!Next
  <2>3. QED
    BY <1>1, <1>3, <2>1, <2>2, StoreStep
<1>4. ASSUME NEW s \in Senders, SenderStep(s) \/ ConnectFails(s) \/ AckTimeout(s) \/ EditSource(s)
      PROVE  [Delivery!Next]_(Delivery!vars)
  <2>1. UNCHANGED <<Store, log>>
    BY <1>4, ResultStep DEF OKInv
  <2>2. CASE UNCHANGED <<Result, sum>>
    BY <1>1, <2>1, <2>2
  <2>3. ASSUME NEW h \in Contents, Result[s] = "pending", UNCHANGED Result,
               sum' = [sum EXCEPT ![s] = h]
        PROVE  Delivery!Next
    <3>1. Delivery!Declare(s, h)
      BY <2>1, <2>3 DEF Delivery!Declare, Store, Result
    <3>2. QED
      BY <3>1 DEF Delivery!Next
  <2>4. CASE Result[s] = "pending" /\ Result' = [Result EXCEPT ![s] = "failed"] /\ UNCHANGED sum
    <3>1. Delivery!GiveUp(s)
      BY <2>1, <2>4 DEF Delivery!GiveUp, Store, Result
    <3>2. QED
      BY <3>1 DEF Delivery!Next
  <2>5. CASE /\ Result[s] = "pending" /\ Result' = [Result EXCEPT ![s] = "ok"]
             /\ UNCHANGED sum
             /\ Published(sum[s], s)
    <3>1. Delivery!Succeed(s)
      BY <2>1, <2>5 DEF Delivery!Succeed, Published, Store, Result
    <3>2. QED
      BY <3>1 DEF Delivery!Next
  <2>6. QED
    BY <1>4, <2>2, <2>4, <2>5, <2>3, ResultStep DEF OKInv
<1>5. CASE \/ \E c \in Conns : LinkCut(c)
           \/ Crash
  BY <1>1, <1>5 DEF LinkCut, Crash, senderVars, diskVars, Store, Result
<1>6. QED
  BY <1>2, <1>3, <1>4, <1>5 DEF Next, FaultStep

\* The transfer protocol is a verified delivery: what a receiver's directory
\* shows only ever changes to a whole file that a sender declared, and OK
\* follows publication.  (That every sender ends is left to the runs.)
THEOREM DeliveryCorrect == ~Overlap => (Spec => Delivery!SafeSpec)
<1> SUFFICES ASSUME ~Overlap PROVE Spec => Delivery!SafeSpec
  OBVIOUS
<1>1. OKInv /\ DiskInv /\ OKInv' /\ [Next]_vars => [Delivery!Next]_(Delivery!vars)
  BY NextDelivery
<1>2. QED
  BY <1>1, InitDelivery, DiskCorrect, PTL DEF Spec, Delivery!SafeSpec
=============================================================================

------------------------------- MODULE Codec -------------------------------
(***************************************************************************)
(* The frames of one direction of a mesh link, byte by byte: a Message is  *)
(* serialised and framed (encode), cut into TLS records, read back in      *)
(* pieces that ignore the borders of frames (read_frame_nonblocking during *)
(* the handshake, check_conn_read afterwards), and decoded.                *)
(*                                                                         *)
(* A byte is a number below Base (256 in the program), so that the lengths *)
(* a prefix can hold, the limits of a frame and the byte that means        *)
(* newline are all within reach; headers keep their 6 and 8 bytes.         *)
(*                                                                         *)
(* Serialising and parsing are two tables, one from the serialize_msg      *)
(* overloads and one from the cases of decode, over a small language of    *)
(* field kinds: Put writes a field and Get reads one.                      *)
(***************************************************************************)
EXTENDS Integers, Sequences, SequencesExt

CONSTANTS
  Base,       \* values of a byte
  Newline,    \* the byte '\n', below Base
  Cap32,      \* MAX_FRAME_PAYLOAD_U32
  Threshold,  \* COMPRESSION_THRESHOLD
  IdLen,      \* bytes of a DHT id
  BatchMax,   \* kMaxConversationBatch
  RecordMax,  \* bytes of a TLS record, more than a header has
  Budget      \* kReadBudgetPerTick, more than a record and less than Cap32

VARIABLES
  todo,   \* the messages the sender will still enqueue
  large,  \* the receiver advertised +frm2
  sent,   \* what enqueue_frame accepted
  records, \* the TLS records on their way
  rx,     \* rx_buffer
  phase,  \* "handshake" (PendingHandshake), "link" (Conn) or "closed"
  got     \* what was dispatched

vars == <<todo, large, sent, records, rx, phase, got>>

\* MAX_FRAME_PAYLOAD_U16: what two bytes count.
Cap16 == (Base * Base) - 1

-----------------------------------------------------------------------------
(* The messages.  One is a record of its type, its fields and, when it     *)
(* ends in a list, the fields of every element.                            *)

\* The wire byte of a message type.  A ClipboardMsg always travels as ClipboardGet; a JoinReplyMsg that refuses has
\* fields of its own and is listed apart.
MessageType ==
  [Keystroke |-> 1, Output |-> 2, Resize |-> 3, ClipboardGet |-> 4, Attach |-> 6, Detach |-> 7, SessionList |-> 8,
   ServerInfo |-> 9, Ping |-> 10, Pong |-> 11, Scrollback |-> 12, Signal |-> 13, ProcExited |-> 14,
   ScrollbackAck |-> 15, SessionDied |-> 16, ClipboardEcho |-> 17, ImageData |-> 18, ImageFrame |-> 19,
   ImageAck |-> 20, Hello |-> 21, Gossip |-> 22, SessionSearch |-> 23, SdpOffer |-> 24, SdpAnswer |-> 25,
   DhtFindNode |-> 26, DhtFindValue |-> 27, FileMeta |-> 28, FileChunk |-> 29, FileAck |-> 30, FileRequest |-> 31,
   AttachAck |-> 33, OutputGap |-> 34, ConversationAppend |-> 35, ConversationQuery |-> 36, ConversationBatch |-> 37,
   CuaRequest |-> 38, CuaResponse |-> 39, JoinRequest |-> 40, JoinReply |-> 41, JoinRefusal |-> 41,
   CuaVideoCapture |-> 42, CuaVideoCaptureResult |-> 43, DirectoryEnroll |-> 44]

\* The kinds of fields each serialize_msg writes, in its order: the messages of a session and the Hello.
SessionWrites ==
  [Keystroke |-> <<"rest">>,
   Output |-> <<"flag", "rest">>,
   Resize |-> <<"u16", "u16">>,
   ClipboardGet |-> <<"line", "rest">>,
   ClipboardEcho |-> <<"rest">>,
   ImageData |-> <<"u8", "str16", "blob">>,
   ImageFrame |-> <<"u8", "u32", "u32", "blob">>,
   ImageAck |-> <<>>,
   Attach |-> <<"u16", "u16", "str8", "str8", "str8", "str16", "str16", "u32", "flag", "flag">>,
   Detach |-> <<>>,
   Ping |-> <<>>,
   Pong |-> <<>>,
   ScrollbackAck |-> <<>>,
   SessionList |-> <<>>,
   ServerInfo |-> <<"str16", "str16", "raw8", "str16", "str16_if_any", "str16_if_any">>,
   Scrollback |-> <<"u32", "u32", "rest">>,
   Signal |-> <<"u8", "str16">>,
   ProcExited |-> <<"u32">>,
   SessionDied |-> <<"u32", "u32">>,
   Hello |-> <<"str8", "str8", "str8">>,
   Gossip |-> <<>>]

\* Searches, WebRTC and DHT exchanges, file transfer.
MeshWrites ==
  [SessionSearch |-> <<"str8", "str8", "u16", "u16", "str8">>,
   SdpOffer |-> <<"str8", "str16">>,
   SdpAnswer |-> <<"str8", "str16">>,
   DhtFindNode |-> <<"id", "str8">>,
   DhtFindValue |-> <<"id", "str8">>,
   FileMeta |-> <<"str8", "u64", "str8", "u32", "u32", "placing">>,
   FileChunk |-> <<"u32", "u32", "blob">>,
   FileRequest |-> <<"str16", "u8_if_set">>,
   FileAck |-> <<"u32", "u32", "flag", "str16">>]

\* Attach acknowledgements and gaps, conversations, computer use, joining, the directory.
LaterWrites ==
  [AttachAck |-> <<"u32", "str8", "u16", "u16">>,
   OutputGap |-> <<"u64">>,
   ConversationAppend |-> <<"str8", "u64", "u64", "str8", "u8", "str16">>,
   ConversationQuery |-> <<"str8", "u64">>,
   ConversationBatch |-> <<"str8">>,
   CuaRequest |-> <<"u32", "u8", "u16", "u16", "u8", "u32", "u8", "str8">>,
   CuaResponse |-> <<"u32", "u8", "str8", "u32", "u32", "u8", "blob">>,
   JoinRequest |-> <<"str8", "str8", "str8">>,
   CuaVideoCapture |-> <<"u32", "u8", "u16", "u8", "u16">>,
   CuaVideoCaptureResult |-> <<"u32", "u8", "str8", "str8", "u16", "u16", "u16", "u8">>,
   JoinReply |-> <<"flag", "str8", "str16", "str8", "str8", "str16">>,
   JoinRefusal |-> <<"flag", "str8">>,
   DirectoryEnroll |-> <<"str8", "str8", "str8", "str8", "u64", "rest">>]

Writes ==
  [type \in DOMAIN MessageType |->
     CASE type \in DOMAIN SessionWrites -> SessionWrites[type]
       [] type \in DOMAIN MeshWrites -> MeshWrites[type]
       [] type \in DOMAIN LaterWrites -> LaterWrites[type]]

\* The elements of the list a message ends in.
ItemWrites ==
  [SessionList |-> <<"str8", "str8", "u32">>,
   Hello |-> <<"str8", "str8", "str8", "u32">>,
   Gossip |-> <<"str8", "str8", "str8", "u32">>,
   ConversationBatch |-> <<"str8", "u64", "u64", "str8", "u8", "str16">>]

-----------------------------------------------------------------------------
(* Serializer, encode.                                                     *)

Refused == <<-1>>

\* The n bytes of v, most significant first: of[i] is v shifted i bytes to the right.
Bytes(v, n) ==
  LET of[i \in 0..n] == IF i = 0 THEN v ELSE of[i - 1] \div Base
  IN  [i \in 1..n |-> of[n - i] % Base]

\* The number that some bytes are: of[i] is what the first i of them are.
Number(s) ==
  LET of[i \in 0..Len(s)] == IF i = 0 THEN 0 ELSE (of[i - 1] * Base) + s[i]
  IN  of[Len(s)]

\* A prefix of one byte, or of two, that cannot hold the length throws.
Prefixed(v, n) == IF Len(v) <= (IF n = 1 THEN Base - 1 ELSE Cap16) THEN Bytes(Len(v), n) \o v ELSE Refused

\* A FileMetaMsg ends in dest_path, if it has one, and in mtime and direct, if one of them is set, and then in all three.
Placing(v) ==
  (IF v.dest # <<>> \/ v.mtime # 0 \/ v.direct # 0 THEN Prefixed(v.dest, 2) ELSE <<>>)
    \o (IF v.mtime # 0 \/ v.direct # 0 THEN Bytes(v.mtime, 8) \o <<v.direct>> ELSE <<>>)

\* One field.
Put(kind, v) ==
  CASE kind \in {"u8", "u16", "u32", "u64"} -> Bytes(v, CASE kind = "u8" -> 1 [] kind = "u16" -> 2 [] kind = "u32" -> 4
                                                           [] OTHER -> 8)
    [] kind = "u8_if_set" -> (IF v = 0 THEN <<>> ELSE <<v>>)
    [] kind = "flag" -> <<IF v THEN 1 ELSE 0>>
    [] kind \in {"rest", "raw8", "id"} -> v
    [] kind = "line" -> v \o <<Newline>>
    [] kind = "str8" -> Prefixed(v, 1)
    [] kind = "str16" -> Prefixed(v, 2)
    [] kind = "str16_if_any" -> (IF v = <<>> THEN <<>> ELSE Prefixed(v, 2))
    [] kind = "blob" -> Bytes(Len(v), 4) \o v
    [] kind = "placing" -> Placing(v)

Fields(kinds, vals) == [i \in DOMAIN kinds |-> Put(kinds[i], vals[i])]

Pieces(m) ==
  Fields(Writes[m.type], m.vals)
    \o FlattenSeq([i \in DOMAIN m.items |-> Fields(ItemWrites[m.type], m.items[i])])

Payload(m) == FlattenSeq(Pieces(m))

\* zstd of data that does not shrink: other bytes, and more of them.  Only zstd output can be decompressed.
Zstd(payload) == <<Base>> \o [i \in DOMAIN payload |-> payload[i] + Base]
Unzstd(data) == [i \in 1..(Len(data) - 1) |-> data[i + 1] - Base]

Compressed(payload) == Len(payload) > Threshold
Encoded(payload) == IF Compressed(payload) THEN Zstd(payload) ELSE payload

\* encode throws, and enqueue_frame drops the message, when a prefix overflows, when the payload is longer than a frame
\* may be, or when compression makes it longer than a peer without +frm2 takes.
Encodable(m, allowLarge) ==
  /\ \A i \in DOMAIN Pieces(m) : Pieces(m)[i] # Refused
  /\ Len(Payload(m)) <= (IF allowLarge THEN Cap32 ELSE Cap16)
  /\ Len(Encoded(Payload(m))) <= (IF allowLarge THEN Cap32 ELSE Cap16)

\* The flags FLAG_COMPRESSED, FLAG_CONTROL (everything here is on the control stream) and FLAG_LENGTH_U32.
Encode(m, allowLarge) ==
  LET data == Encoded(Payload(m))
      u32 == allowLarge /\ Len(data) > Cap16
      flags == (IF Compressed(Payload(m)) THEN 1 ELSE 0) + 2 + (IF u32 THEN 8 ELSE 0)
  IN  <<0, 0, MessageType[m.type], flags>> \o Bytes(Len(data), IF u32 THEN 4 ELSE 2) \o data

-----------------------------------------------------------------------------
(* Decoder, decode.                                                        *)

\* The kinds of fields the cases of decode read.  An "opt_" field is read only if the bytes it needs are there.  The
\* types 0x01 to 0x11,
SessionReads ==
  [Keystroke |-> <<"rest">>,
   Output |-> <<"flag", "rest">>,
   Resize |-> <<"u16", "u16">>,
   ClipboardGet |-> <<"line", "rest">>,
   ClipboardEcho |-> <<"rest">>,
   Attach |-> <<"u16", "u16", "str8", "str8", "str8", "opt_str16", "opt_str16", "opt_u32", "opt_flag", "opt_flag">>,
   Detach |-> <<>>,
   SessionList |-> <<>>,
   ServerInfo |-> <<"str16", "str16", "opt_raw8", "opt_str16", "opt_str16", "opt_str16">>]

\* the types 0x0A to 0x1B,
MeshReads ==
  [Ping |-> <<>>,
   Pong |-> <<>>,
   Scrollback |-> <<"u32", "u32", "rest">>,
   Signal |-> <<"u8", "str16">>,
   ProcExited |-> <<"u32">>,
   ScrollbackAck |-> <<>>,
   SessionDied |-> <<"u32", "u32">>,
   ImageData |-> <<"u8", "str16", "blob">>,
   ImageFrame |-> <<"u8", "u32", "u32", "blob">>,
   ImageAck |-> <<>>,
   Hello |-> <<"str8", "str8", "str8">>,
   Gossip |-> <<>>,
   SessionSearch |-> <<"str8", "str8", "u16", "u16", "str8">>,
   SdpOffer |-> <<"str8", "str16">>,
   SdpAnswer |-> <<"str8", "str16">>,
   DhtFindNode |-> <<"id", "str8">>,
   DhtFindValue |-> <<"id", "str8">>]

\* the files,
FileReads ==
  [FileMeta |-> <<"str8", "u64", "str8", "u32", "opt_u32", "opt_placing">>,
   FileChunk |-> <<"u32", "u32", "blob">>,
   FileAck |-> <<"u32", "u32", "flag", "str16">>,
   FileRequest |-> <<"str16", "opt_u8">>]

\* and the types from 0x21 on.
LaterReads ==
  [AttachAck |-> <<"u32", "str8", "u16", "u16">>,
   OutputGap |-> <<"u64">>,
   ConversationAppend |-> <<"str8", "u64", "u64", "str8", "u8", "str16">>,
   ConversationQuery |-> <<"str8", "u64">>,
   ConversationBatch |-> <<"str8">>,
   CuaRequest |-> <<"u32", "u8", "u16", "u16", "u8", "u32", "u8", "str8">>,
   CuaResponse |-> <<"u32", "u8", "str8", "u32", "u32", "u8", "blob">>,
   JoinRequest |-> <<"str8", "opt_str8", "opt_str8">>,
   CuaVideoCapture |-> <<"u32", "u8", "u16", "u8", "u16">>,
   CuaVideoCaptureResult |-> <<"u32", "u8", "str8", "str8", "u16", "u16", "u16", "u8">>,
   JoinReply |-> <<"flag", "str8", "str16", "str8", "str8", "str16">>,
   JoinRefusal |-> <<"flag", "str8">>,
   DirectoryEnroll |-> <<"str8", "str8", "str8", "str8", "u64", "rest">>]

Reads ==
  [type \in DOMAIN MessageType |->
     CASE type \in DOMAIN SessionReads -> SessionReads[type]
       [] type \in DOMAIN MeshReads -> MeshReads[type]
       [] type \in DOMAIN FileReads -> FileReads[type]
       [] type \in DOMAIN LaterReads -> LaterReads[type]]

ItemReads ==
  [SessionList |-> <<"str8", "str8", "u32">>,
   Hello |-> <<"str8", "str8", "str8", "u32">>,
   Gossip |-> <<"str8", "str8", "str8", "u32">>,
   ConversationBatch |-> <<"str8", "u64", "u64", "str8", "u8", "str16">>]

\* The newline-delimited ServerInfo of the releases before 2.0.7.
OldServerInfo == <<"line", "line", "opt_raw8", "opt_str16", "opt_str16", "opt_str16">>

\* A Decoder is what it has read and what is left, or has thrown.
Threw == [ok |-> FALSE, vals |-> <<>>, left |-> <<>>]

\* The Decoder that has also read value, and what is left then.
Had(d, value, left) == [ok |-> TRUE, vals |-> Append(d.vals, value), left |-> left]

\* Read n bytes, which stand for value; ensure() throws when they are not there.
Take(d, n, value) == IF Len(d.left) < n THEN Threw ELSE Had(d, value, SubSeq(d.left, n + 1, Len(d.left)))

First(d, n) == SubSeq(d.left, 1, n)
Uint(d, n) == Take(d, n, Number(First(d, n)))
Raw(d, n) == Take(d, n, First(d, n))

\* A prefix of n bytes and as many bytes as it says.
Counted(d, n) ==
  LET size == n + Number(First(d, n))
  IN  IF Len(d.left) < n THEN Threw ELSE Take(d, size, SubSeq(d.left, n + 1, size))

\* Up to the next newline, which is dropped.
Line(d) ==
  LET nl == {i \in DOMAIN d.left : d.left[i] = Newline}
      end == CHOOSE i \in nl : \A j \in nl : i <= j
  IN  IF nl = {} THEN Threw ELSE Take(d, end, First(d, end - 1))

\* dest_path if two bytes are left, then mtime and direct if nine are.
GetPlacing(d) ==
  LET named == IF Len(d.left) >= 2 THEN Counted(d, 2) ELSE Take(d, 0, <<>>)
      dest == Last(named.vals)
  IN  IF ~named.ok THEN Threw
      ELSE IF Len(named.left) >= 9
      THEN Had(d, [dest |-> dest, mtime |-> Number(First(named, 8)), direct |-> named.left[9]],
               SubSeq(named.left, 10, Len(named.left)))
      ELSE Had(d, [dest |-> dest, mtime |-> 0, direct |-> 0], named.left)

\* What an optional field needs to be read, and its value otherwise.
Needs ==
  [opt_u8 |-> 1, opt_flag |-> 1, opt_u32 |-> 4, opt_raw8 |-> 8, opt_str8 |-> 1, opt_str16 |-> 2, opt_placing |-> 0]
Absent ==
  [opt_u8 |-> 0, opt_flag |-> FALSE, opt_u32 |-> 0, opt_raw8 |-> Bytes(0, 8), opt_str8 |-> <<>>, opt_str16 |-> <<>>]

\* One field.
Get(d, kind) ==
  CASE ~d.ok -> d
    [] d.ok /\ kind \in DOMAIN Needs /\ Len(d.left) < Needs[kind] -> Take(d, 0, Absent[kind])
    [] OTHER ->
         CASE kind \in {"u8", "opt_u8"} -> Uint(d, 1)
           [] kind = "u16" -> Uint(d, 2)
           [] kind \in {"u32", "opt_u32"} -> Uint(d, 4)
           [] kind = "u64" -> Uint(d, 8)
           [] kind \in {"flag", "opt_flag"} -> Take(d, 1, d.left[1] # 0)
           [] kind \in {"raw8", "opt_raw8"} -> Raw(d, 8)
           [] kind = "id" -> Raw(d, IdLen)
           [] kind = "rest" -> Raw(d, Len(d.left))
           [] kind = "line" -> Line(d)
           [] kind \in {"str8", "opt_str8"} -> Counted(d, 1)
           [] kind \in {"str16", "opt_str16"} -> Counted(d, 2)
           [] kind = "blob" -> Counted(d, 4)
           [] kind = "opt_placing" -> GetPlacing(d)

\* All fields: of[i] is the Decoder after i of them.
Parse(left, kinds) ==
  LET of[i \in 0..Len(kinds)] == IF i = 0 THEN [ok |-> TRUE, vals |-> <<>>, left |-> left] ELSE Get(of[i - 1], kinds[i])
  IN  of[Len(kinds)]

\* One more element of a list, unless its last byte has been read; d is the Decoder that read it.
Added(list, d) ==
  IF ~list.ok \/ list.left = <<>> THEN list ELSE [ok |-> d.ok, items |-> Append(list.items, d.vals), left |-> d.left]
Element(list, kinds) == Added(list, Parse(list.left, kinds))

\* The elements of a list, to the last byte: of[i] is what there is after i of them.
Items(left, kinds) ==
  LET of[i \in 0..Len(left)] == IF i = 0 THEN [ok |-> TRUE, items |-> <<>>, left |-> left] ELSE Element(of[i - 1], kinds)
  IN  of[Len(left)]

Nothing == [type |-> "none", vals |-> <<>>, items |-> <<>>]

\* case 0x09: a payload with two newlines in it is an old one.
KindsOf(type, payload) ==
  LET newlines == {i \in DOMAIN payload : payload[i] = Newline}
  IN  IF type = "ServerInfo" /\ \E i, j \in newlines : i # j THEN OldServerInfo ELSE Reads[type]

\* The list behind a parsed head; bytes behind a message without a list are ignored.
ListOf(type, head) ==
  IF head.ok /\ type \in DOMAIN ItemReads THEN Items(head.left, ItemReads[type])
  ELSE [ok |-> head.ok, items |-> <<>>, left |-> head.left]

\* The message a parsed head and its list are.
Message(type, head, list) ==
  IF ~list.ok \/ (type = "ConversationBatch" /\ Len(list.items) > BatchMax) THEN Nothing
  ELSE [type |-> type, vals |-> head.vals, items |-> list.items]

Made(type, head) == Message(type, head, ListOf(type, head))

TypeOf(byte, payload) ==
  IF byte = MessageType["JoinReply"] THEN (IF Head(payload \o <<0>>) # 0 THEN "JoinReply" ELSE "JoinRefusal")
  ELSE CHOOSE type \in DOMAIN MessageType : MessageType[type] = byte

MessageOf(type, payload) == Made(type, Parse(payload, KindsOf(type, payload)))

\* A type byte nobody knows, and compressed data that was not, throw.
Decode(byte, flags, data) ==
  LET zipped == flags % 2 = 1 /\ data # <<>>
      payload == IF zipped THEN Unzstd(data) ELSE data
  IN  IF (zipped /\ data[1] # Base) \/ (\A t \in DOMAIN MessageType : MessageType[t] # byte) THEN Nothing
      ELSE MessageOf(TypeOf(byte, payload), payload)

-----------------------------------------------------------------------------
(* Frames in a buffer.                                                     *)

Large(s) == (s[4] \div 8) % 2 = 1
HeaderSize(s) == IF Large(s) THEN 8 ELSE 6
Length(s) == Number(SubSeq(s, 5, HeaderSize(s)))
FrameSize(s) == HeaderSize(s) + Length(s)

\* frame_header_layout throws: the length has four bytes and the buffer ends before them, or it is over the cap.
BadHeader(s) == Large(s) /\ (Len(s) < 8 \/ Length(s) > Cap32)

\* buffered_bytes_hold_complete_frame.
HoldsFrame(s) == Len(s) >= 6 /\ (BadHeader(s) \/ Len(s) >= FrameSize(s))

\* One more frame, if there is one, whose message is m.  A message that throws loses those behind it, and the handler
\* those before it.
Dispatched(d, m) ==
  LET s == d.left
  IN  IF ~d.ok \/ ~HoldsFrame(s) THEN d
      ELSE IF BadHeader(s) \/ m = Nothing THEN [ok |-> FALSE, msgs |-> <<>>, left |-> s]
      ELSE [ok |-> TRUE, msgs |-> Append(d.msgs, m), left |-> SubSeq(s, FrameSize(s) + 1, Len(s))]
Drain(d) ==
  LET s == d.left
  IN  Dispatched(d, Decode(s[3], s[4], SubSeq(s, HeaderSize(s) + 1, FrameSize(s))))

\* drain_complete_frames: the messages, and the part of a frame that stays.  of[i] is what there is after i frames,
\* which have six bytes or more.
Drained(bytes) ==
  LET most == Len(bytes) \div 6
      of[i \in 0..most] == IF i = 0 THEN [ok |-> TRUE, msgs |-> <<>>, left |-> bytes] ELSE Drain(of[i - 1])
  IN  of[most]

-----------------------------------------------------------------------------
(* The messages the sender may have: every type with its fields empty or   *)
(* set, but for one field that has any of its values, so that every        *)
(* optional tail and every length around a limit occurs.                   *)

Fill(n) == [i \in 1..n |-> 1]
Spot(n, byte) == [i \in 1..n |-> IF i = 2 THEN byte ELSE 1]

\* The values of a field, the empty one and the ordinary one first.
Values(kind) ==
  CASE kind \in {"u8", "u16", "u32", "u64", "u8_if_set"} -> <<0, 1>>
    [] kind = "flag" -> <<FALSE, TRUE>>
    [] kind = "raw8" -> <<Fill(8), Spot(8, Newline)>>
    [] kind = "id" -> <<Fill(IdLen), Spot(IdLen, 0)>>
    [] kind = "line" -> <<<<>>, Fill(2)>>
    [] kind = "str8" -> <<<<>>, Fill(1), Fill(Newline), Fill(Base - 1), Fill(Base)>>
    [] kind \in {"str16", "str16_if_any"} -> <<<<>>, Fill(1), Fill(Newline)>>
    [] kind = "blob" -> <<<<>>, <<Newline, 1>>, Fill(Cap16 + 1)>>
    [] kind = "rest" ->
         <<<<>>, <<Newline, 1>>, Fill(Threshold), Fill(Cap16 - 1), Fill(Cap16), Fill(Cap16 + 1), Fill(Cap32 - 1), Fill(Cap32)>>
    [] kind = "placing" ->
         <<[dest |-> <<>>, mtime |-> 0, direct |-> 0], [dest |-> Fill(1), mtime |-> 0, direct |-> 0],
           [dest |-> <<>>, mtime |-> 1, direct |-> 0], [dest |-> <<>>, mtime |-> 0, direct |-> 1],
           [dest |-> Fill(1), mtime |-> 1, direct |-> 2]>>

Plain(kinds, n) == [i \in DOMAIN kinds |-> Values(kinds[i])[n]]

Near(kinds, vals) == {vals} \cup UNION {{[vals EXCEPT ![i] = v] : v \in ToSet(Values(kinds[i]))} : i \in DOMAIN kinds}

Lists(type) ==
  IF type \notin DOMAIN ItemWrites THEN {<<>>}
  ELSE {<<>>, <<Plain(ItemWrites[type], 1)>>, <<Plain(ItemWrites[type], 2), Plain(ItemWrites[type], 1)>>}

\* broadcast_gossip never leaves host_stats_json empty; the flag of a JoinReplyMsg says which of its forms it is.
Possible(m) ==
  /\ (m.type = "ServerInfo" => m.vals[5] # <<>>)
  /\ (m.type = "JoinReply" => m.vals[1])
  /\ (m.type = "JoinRefusal" => ~m.vals[1])

\* The Hello a link starts with, and a chunk that only +frm2 peers can be sent.
Hello == [type |-> "Hello", vals |-> <<Fill(1), Fill(2), Fill(3)>>, items |-> <<>>]
Chunk == [type |-> "FileChunk", vals |-> <<0, 1, Fill(Cap16 + 1)>>, items |-> <<>>]
Ping == [type |-> "Ping", vals |-> <<>>, items |-> <<>>]

Init ==
  /\ \E type \in DOMAIN Writes :
       \E vals \in Near(Writes[type], Plain(Writes[type], 1)) \cup Near(Writes[type], Plain(Writes[type], 2)),
          items \in Lists(type) :
         LET m == [type |-> type, vals |-> vals, items |-> items]
         IN  Possible(m) /\ todo = <<Hello, m, Chunk, Ping>>
  /\ large \in BOOLEAN
  /\ sent = <<>> /\ records = <<>> /\ rx = <<>> /\ got = <<>>
  /\ phase = "handshake"

-----------------------------------------------------------------------------
\* The records one SSL_write makes of a frame.
Records(frame) ==
  [i \in 1..((Len(frame) + RecordMax - 1) \div RecordMax) |->
     SubSeq(frame, ((i - 1) * RecordMax) + 1, IF i * RecordMax < Len(frame) THEN i * RecordMax ELSE Len(frame))]

\* write_frame_nonblocking for the Hello, which does not know yet what the peer can take, enqueue_frame and
\* flush_tx_queue for what follows; a message that cannot be encoded is dropped.
Send ==
  /\ todo # <<>> /\ phase # "closed"
  /\ todo' = Tail(todo)
  /\ LET allowLarge == large /\ sent # <<>>
     IN  IF Encodable(Head(todo), allowLarge)
         THEN /\ sent' = Append(sent, Head(todo))
              /\ records' = records \o Records(Encode(Head(todo), allowLarge))
         ELSE UNCHANGED <<sent, records>>
  /\ UNCHANGED <<large, rx, phase, got>>

\* read_frame_nonblocking goes on to the end of everything that has arrived.
GreedyRead ==
  /\ phase = "handshake" /\ records # <<>>
  /\ LET bytes == rx \o FlattenSeq(records)
         d == Drained(bytes)
     IN  IF ~HoldsFrame(bytes) THEN rx' = bytes /\ UNCHANGED <<phase, got>>
         ELSE /\ rx' = d.left
              /\ phase' = IF d.ok THEN "link" ELSE "closed"
              /\ got' = SubSeq(d.msgs, 1, 1)
  /\ records' = <<>>
  /\ UNCHANGED <<todo, large, sent>>

\* read_frame_nonblocking reads until the buffer holds a frame, and returns the first message of those it then finds:
\* no record holds bytes of two frames.  The connection it promotes keeps rx_buffer.
HandshakeRead ==
  /\ phase = "handshake" /\ records # <<>>
  /\ LET bytes == rx \o Head(records)
         d == Drained(bytes)
     IN  IF ~HoldsFrame(bytes) THEN rx' = bytes /\ UNCHANGED <<phase, got>>
         ELSE /\ rx' = d.left
              /\ phase' = IF d.ok THEN "link" ELSE "closed"
              /\ got' = SubSeq(d.msgs, 1, 1)
  /\ records' = Tail(records)
  /\ UNCHANGED <<todo, large, sent>>

\* kRxBufferHardCap: a frame and what one SSL_read returns.
RxCap == Cap32 + RecordMax + 8

\* check_conn_read: the records that have arrived, as far as the budget of a tick goes, which may end within a record
\* and leave the rest of it in OpenSSL; then every complete frame is decoded and dispatched.
Tick ==
  /\ phase = "link"
  /\ \E arrived \in 1..Len(records) :
       LET all == FlattenSeq(SubSeq(records, 1, arrived))
           rest == SubSeq(all, Budget + 1, Len(all))
           bytes == rx \o SubSeq(all, 1, IF Len(all) < Budget THEN Len(all) ELSE Budget)
           d == Drained(bytes)
       IN  /\ records' = (IF rest = <<>> THEN <<>> ELSE <<rest>>) \o SubSeq(records, arrived + 1, Len(records))
           /\ IF Len(bytes) > RxCap \/ ~d.ok
              THEN phase' = "closed" /\ rx' = bytes /\ UNCHANGED got
              ELSE rx' = d.left /\ got' = got \o d.msgs /\ UNCHANGED phase
  /\ UNCHANGED <<todo, large, sent>>

Next == Send \/ HandshakeRead \/ Tick

Spec == Init /\ [][Next]_vars

-----------------------------------------------------------------------------
\* A message whose payload the reader takes for the ServerInfo of an old release.
TakenForOld(m) ==
  LET payload == Payload(m)
  IN  m.type = "ServerInfo" /\ \E i, j \in DOMAIN payload : i < j /\ payload[i] = Newline /\ payload[j] = Newline

\* The two ways a link of two honest peers ends: the budget of a tick ends between the sixth and the eighth byte of a
\* frame with a four-byte length, or it reads on behind a frame that nearly fills the buffer.
CutShort ==
  LET left == Drained(rx).left
  IN  Len(rx) > RxCap \/ (Len(left) \in {6, 7} /\ Large(left))

\* What two peers of this release exchange: every message the sender could encode is decoded into what it was, in the
\* order of sending and at the latest when its last byte has been read, whatever the borders of TLS records, of frames
\* and of the reader's ticks, whichever of its optional fields it has and whether it is compressed or not; and the
\* reader closes the link only in the two cases above.  (encode, decode, drain_complete_frames,
\* read_frame_nonblocking, check_conn_read.)
Faithful ==
  (\A i \in DOMAIN sent : ~TakenForOld(sent[i])) =>
    /\ IsPrefix(got, sent)
    /\ (phase = "link" /\ records = <<>> => got = sent)
    /\ (phase = "closed" => CutShort)

\* A node name or version is not taken for the newline-delimited form unless it has a newline in it, as the comment in
\* decode has it: what was dispatched is what was sent.
Understood == IsPrefix(got, sent)
=============================================================================

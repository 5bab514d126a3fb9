--------------------------------- MODULE Ring ---------------------------------
(***************************************************************************)
(* A session's scrollback: RingBuffer of bs-session.h, and the SCROLLBACK  *)
(* command of bs-mesh-cli.h, with which a client follows it.  A byte is    *)
(* its position in the session's output, so what a reader gets says where  *)
(* it comes from.                                                          *)
(***************************************************************************)
EXTENDS Integers, Sequences

CONSTANTS
  Capacity,   \* of the buffer; in the code a power of two
  ReadMax,    \* what one read returns at most
  MaxWrite,   \* what one write appends at most
  MaxTotal    \* bound: what a session writes

ASSUME RingAssumption == Capacity \in Nat \ {0} /\ ReadMax \in Nat \ {0} /\ MaxWrite \in Nat /\ MaxTotal \in Nat

VARIABLES
  buf,     \* the buffer; -1 where nothing has been written
  wp,      \* write_pos_: what has been written in all
  offset   \* where the client goes on

vars == <<buf, wp, offset>>

Slots == 0..Capacity - 1
Least(a, b) == IF a < b THEN a ELSE b
Size == Least(wp, Capacity)

TypeOK == buf \in [Slots -> Int] /\ wp \in Nat /\ offset \in Nat

Init == buf = [j \in Slots |-> -1] /\ wp = 0 /\ offset = 0

-----------------------------------------------------------------------------
\* A write that fills the buffer: of its tail, the oldest byte has the slot of the position it comes to.
Refilled(len) ==
  LET new == wp + len
      idx == new % Capacity
  IN [j \in Slots |-> new - Capacity + (IF j >= idx THEN j - idx ELSE Capacity - idx + j)]

\* Up to the end of the buffer, and the rest from its front.
Appended(len) ==
  LET idx == wp % Capacity
      space == Capacity - idx
  IN [j \in Slots |-> IF j >= idx /\ j < idx + len THEN wp + j - idx
                      ELSE IF j < len - space THEN wp + space + j
                      ELSE buf[j]]

Write(len) ==
  /\ wp + len <= MaxTotal
  /\ buf' = IF len >= Capacity THEN Refilled(len) ELSE Appended(len)
  /\ wp' = wp + len
  /\ UNCHANGED offset

\* n bytes from a position on.
Copied(start, n) ==
  LET idx == start % Capacity
      tail == Capacity - idx
  IN [i \in 1..n |-> IF i <= tail THEN buf[idx + i - 1] ELSE buf[i - tail - 1]]

\* From the oldest to the newest.
Snapshot == Copied(IF wp <= Capacity THEN 0 ELSE wp, Size)

\* Mutant: where the buffer has moved on, the oldest bytes it holds.
StartOldest(since) == IF since < wp - Capacity THEN wp - Capacity ELSE since

\* The position itself, or the oldest that is held, or the newest that one read returns.
Start(since) ==
  LET held == IF since < wp - Capacity THEN wp - Capacity ELSE since
  IN IF wp - held > ReadMax THEN wp - ReadMax ELSE held

ReadSince(since) ==
  IF since >= wp THEN [bytes |-> <<>>, reset |-> FALSE]
  ELSE [bytes |-> Copied(Start(since), Least(ReadMax, wp - Start(since))), reset |-> Start(since) # since]

\* The offset the reply tells: after a reset, the end of the output.
Told(since) ==
  LET r == ReadSince(since) IN IF r.reset THEN wp ELSE since + Len(r.bytes)

Follow == offset' = Told(offset) /\ UNCHANGED <<buf, wp>>

\* Another session takes the name; the client keeps its offset.
Renew ==
  /\ wp > 0
  /\ buf' = [j \in Slots |-> -1] /\ wp' = 0
  /\ UNCHANGED offset

Next == (\E len \in 1..MaxWrite : Write(len)) \/ Follow \/ Renew

Spec == Init /\ [][Next]_vars

-----------------------------------------------------------------------------
(* What the code promises. *)

\* Every byte of the last Capacity is in the slot of its position, through writes that wrap, that fill the buffer and
\* that are larger than it.
Held == \A q \in wp - Size..wp - 1 : buf[q % Capacity] = q

\* What a reader gets ends with the newest byte and has no hole; without RESET it begins where the reader was; and the
\* offset it is told is the next byte it has not seen.
ReadExact ==
  \A since \in 0..wp :
    LET r == ReadSince(since)
        n == Len(r.bytes)
    IN /\ \A i \in 1..n : r.bytes[i] = wp - n + i - 1
       /\ ~r.reset => wp - n = since
       /\ Told(since) = wp

\* A new reader of the whole buffer sees the last Size bytes in order.
SnapshotExact == \A i \in 1..Size : Snapshot[i] = wp - Size + i - 1
=============================================================================

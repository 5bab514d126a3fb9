------------------------------ MODULE HostProofs ------------------------------
(***************************************************************************)
(* What holds of each machine of a host for every value of its constants,  *)
(* and so of the host that runs them: the scrollback buffer, supervised    *)
(* commands, the approval gate of sync pair, an upgrade, and the bytes of  *)
(* a connection: fields, messages, compression, frames and their stream.   *)
(***************************************************************************)
EXTENDS MCHost, SequenceTheorems, FiniteSetTheorems, TLAPS

-----------------------------------------------------------------------------
(* A behaviour of the host is one of each of its machines.                 *)

\* A machine that is not the one that moves keeps its variables.
LEMMA HostRuns == HostSpec => Spec /\ Up!Spec /\ Rn!Spec /\ Pr!Spec
<1>1. HostSpec => HostInit /\ [][HostNext]_hostVars
  BY PTL DEF HostSpec
<1>2. HostInit => Init /\ Up!Init /\ Rn!Init /\ Pr!Init
  BY DEF HostInit
<1>3. [HostNext]_hostVars => [Next]_vars
  BY DEF HostNext, hostVars
<1>4. [HostNext]_hostVars => [Up!Next]_Up!vars
  BY DEF HostNext, hostVars, upgradeVars, Up!vars, Up!files, Up!process, Up!unit, Up!fleet
<1>5. [HostNext]_hostVars => [Rn!Next]_Rn!vars
  BY DEF HostNext, hostVars, runVars, Rn!vars, Rn!processVars
<1>6. [HostNext]_hostVars => [Pr!Next]_Pr!vars
  BY DEF HostNext, hostVars, pairVars, Pr!vars
<1> QED
  BY <1>1, <1>2, <1>3, <1>4, <1>5, <1>6, PTL DEF Spec, Up!Spec, Rn!Spec, Pr!Spec

-----------------------------------------------------------------------------
(* The scrollback buffer: for every capacity and every sequence of writes  *)
(* it holds the newest bytes in their slots, and readers get exactly those. *)

RingInv == TypeOK /\ Held

-----------------------------------------------------------------------------
(* Remainders. *)

\* A number is a multiple of c and a remainder.
LEMMA DivMod ==
  ASSUME NEW c \in Nat \ {0}, NEW x \in Int
  PROVE  x \div c \in Int /\ x % c \in 0..c - 1 /\ x = c * (x \div c) + (x % c)
BY SMT

\* There is only one remainder.
LEMMA ModUnique == \A c \in Nat \ {0}, k \in Int : \A r \in 0..c - 1 : (c * k + r) % c = r
BY SMT

\* The slot d places after the slot of x, where the buffer may wrap between them.
LEMMA ModAdd ==
  ASSUME NEW c \in Nat \ {0}, NEW x \in Int, NEW d \in 0..c - 1
  PROVE  (x + d) % c = IF (x % c) + d < c THEN (x % c) + d ELSE (x % c) + d - c
<1> DEFINE k == x \div c
           r == x % c
<1>1. x = c * k + r /\ k \in Int /\ r \in 0..c - 1
  BY DivMod
<1> HIDE DEF k, r
<1>2. CASE r + d < c
  <2>1. r + d \in 0..c - 1
    BY <1>1, <1>2
  <2>2. (c * k + (r + d)) % c = r + d
    BY <1>1, <2>1, ModUnique
  <2>3. x + d = c * k + (r + d)
    BY <1>1
  <2> QED
    BY <1>2, <2>2, <2>3 DEF r
<1>3. CASE ~(r + d < c)
  <2> DEFINE s == r + d - c
  <2>1. s \in 0..c - 1
    BY <1>1, <1>3
  <2>2. x + d = c * (k + 1) + s
    BY <1>1
  <2> HIDE DEF s
  <2>3. (c * (k + 1) + s) % c = s
    BY <1>1, <2>1, ModUnique
  <2>4. (x + d) % c = r + d - c
    BY <2>2, <2>3 DEF s
  <2> QED
    BY <1>3, <2>4 DEF r
<1> QED
  BY <1>2, <1>3

\* A position and the one a whole buffer later have the same slot.
LEMMA ModPeriod ==
  ASSUME NEW c \in Nat \ {0}, NEW x \in Int
  PROVE  (x + c) % c = x % c
<1> DEFINE k == x \div c
           r == x % c
<1>1. x = c * k + r /\ k \in Int /\ r \in 0..c - 1
  BY DivMod
<1> HIDE DEF k, r
<1>2. (c * (k + 1) + r) % c = r
  BY <1>1, ModUnique
<1>3. x + c = c * (k + 1) + r
  BY <1>1
<1> QED
  BY <1>2, <1>3 DEF r

-----------------------------------------------------------------------------
(* Writes. *)

\* A write that fills the buffer leaves the newest Capacity bytes, each in its slot.
LEMMA RefilledHolds ==
  ASSUME RingInv, NEW len \in Nat, len >= Capacity,
         NEW q \in wp + len - Capacity..wp + len - 1
  PROVE  Refilled(len)[q % Capacity] = q
<1> DEFINE C == Capacity
           new == wp + len
           x == new - C
           d == q - x
           idx == new % C
<1>1. C \in Nat \ {0} /\ wp \in Nat
  BY RingAssumption DEF RingInv, TypeOK
<1>2. x \in Int /\ new = x + C /\ d \in 0..C - 1 /\ q = x + d
  BY <1>1
<1>3. x % C = idx /\ idx \in 0..C - 1
  BY <1>1, <1>2, ModPeriod, DivMod
<1>4. q % C = IF idx + d < C THEN idx + d ELSE idx + d - C
  <2>1. (x + d) % C = IF (x % C) + d < C THEN (x % C) + d ELSE (x % C) + d - C
    BY <1>1, <1>2, ModAdd
  <2> QED
    BY <1>2, <1>3, <2>1
<1>5. Refilled(len) = [j \in 0..C - 1 |-> x + (IF j >= idx THEN j - idx ELSE C - idx + j)]
  BY DEF Refilled, Slots
<1> HIDE DEF C, new, x, d, idx
<1>6. \A j : j = (IF idx + d < C THEN idx + d ELSE idx + d - C) => Refilled(len)[j] = x + d
  BY <1>1, <1>2, <1>3, <1>5
<1>7. Refilled(len)[q % C] = x + d
  BY <1>4, <1>6
<1> QED
  BY <1>2, <1>7 DEF C

\* A shorter write puts its bytes into their slots and leaves alone the older ones that are still held.
LEMMA AppendedHolds ==
  ASSUME RingInv, NEW len \in Nat, len < Capacity,
         NEW q \in Int, q >= 0, q >= wp + len - Capacity, q < wp + len
  PROVE  Appended(len)[q % Capacity] = q
<1> DEFINE C == Capacity
           idx == wp % C
<1>1. C \in Nat \ {0} /\ wp \in Nat /\ buf \in [0..C - 1 -> Int]
  BY RingAssumption DEF RingInv, TypeOK, Slots
<1>2. idx \in 0..C - 1
  BY <1>1, DivMod
<1>3. Appended(len) = [j \in 0..C - 1 |-> IF j >= idx /\ j < idx + len THEN wp + j - idx
                                          ELSE IF j < len - (C - idx) THEN wp + (C - idx) + j
                                          ELSE buf[j]]
  BY DEF Appended, Slots
<1>4. q \in wp - Size..wp - 1 => buf[q % C] = q
  BY DEF RingInv, Held
<1>5. len < C /\ q >= wp + len - C
  OBVIOUS
<1> HIDE DEF idx
<1>6. CASE q >= wp
  <2> DEFINE d == q - wp
  <2>1. wp \in Int /\ d \in 0..C - 1 /\ d < len /\ q = wp + d
    BY <1>1, <1>5, <1>6
  <2> HIDE DEF C, d
  <2>2. q % C = IF idx + d < C THEN idx + d ELSE idx + d - C
    <3>1. (wp + d) % C = IF (wp % C) + d < C THEN (wp % C) + d ELSE (wp % C) + d - C
      BY <1>1, <2>1, ModAdd
    <3> QED
      BY <2>1, <3>1 DEF idx
  <2>3. CASE idx + d < C
    <3>1. idx + d \in 0..C - 1 /\ idx + d >= idx /\ idx + d < idx + len /\ wp + (idx + d) - idx = wp + d
      BY <1>1, <1>2, <2>1, <2>3
    <3>2. Appended(len)[idx + d] = wp + d
      BY <1>3, <3>1
    <3> QED
      BY <2>1, <2>2, <2>3, <3>2 DEF C
  <2>4. CASE ~(idx + d < C)
    <3> DEFINE j == idx + d - C
    <3>1. /\ j \in 0..C - 1 /\ ~(j >= idx) /\ j < len - (C - idx)
          /\ wp + (C - idx) + j = wp + d
      BY <1>1, <1>2, <2>1, <2>4
    <3> HIDE DEF j
    <3>2. Appended(len)[j] = wp + d
      BY <1>3, <3>1
    <3> QED
      BY <2>1, <2>2, <2>4, <3>2 DEF j, C
  <2> QED
    BY <2>3, <2>4
<1>7. CASE q < wp
  <2> DEFINE x == wp - C
             d == q - x
  <2>1. x \in Int /\ wp = x + C /\ d \in 0..C - 1 /\ d >= len /\ q = x + d
    BY <1>1, <1>5, <1>7
  <2>2. x % C = idx
    BY <1>1, <2>1, ModPeriod DEF idx
  <2>3. q % C = IF idx + d < C THEN idx + d ELSE idx + d - C
    <3>1. (x + d) % C = IF (x % C) + d < C THEN (x % C) + d ELSE (x % C) + d - C
      BY <1>1, <2>1, ModAdd
    <3> QED
      BY <2>1, <2>2, <3>1
  <2>4. buf[q % C] = q
    BY <1>1, <1>4, <1>5, <1>7 DEF Size, Least
  <2> HIDE DEF C, d, x
  <2>5. q % C \in 0..C - 1 /\ ~(q % C >= idx /\ q % C < idx + len) /\ ~(q % C < len - (C - idx))
    BY <1>1, <1>2, <2>1, <2>3
  <2>6. Appended(len)[q % C] = buf[q % C]
    BY <1>3, <2>5
  <2> QED
    BY <2>4, <2>6 DEF C
<1> QED
  BY <1>1, <1>6, <1>7

\* What a write leaves in the buffer is in the type of the buffer.
LEMMA WriteTyped ==
  ASSUME RingInv, NEW len \in Nat
  PROVE  Refilled(len) \in [Slots -> Int] /\ Appended(len) \in [Slots -> Int]
<1>1. Capacity \in Nat \ {0} /\ wp \in Nat /\ buf \in [Slots -> Int]
  BY RingAssumption DEF RingInv, TypeOK
<1>2. (wp + len) % Capacity \in Int /\ wp % Capacity \in Int
  BY <1>1, DivMod
<1> QED
  BY <1>1, <1>2 DEF Refilled, Appended, Slots

-----------------------------------------------------------------------------
\* The type of the buffer, and that it holds the newest Capacity bytes, each in the slot of its position: for every
\* capacity and every write.
LEMMA RingTyped == Spec => []RingInv
<1>1. Init => RingInv
  BY RingAssumption DEF Init, RingInv, TypeOK, Held, Size, Least, Slots
<1>2. RingInv /\ [Next]_vars => RingInv'
  <2> SUFFICES ASSUME RingInv, [Next]_vars PROVE RingInv'
    OBVIOUS
  <2>0. Capacity \in Nat \ {0} /\ wp \in Nat /\ offset \in Nat
    BY RingAssumption DEF RingInv, TypeOK
  <2>1. ASSUME NEW len \in 1..MaxWrite, Write(len) PROVE RingInv'
    <3>1. len \in Nat /\ wp' = wp + len /\ offset' = offset
      BY <2>1, RingAssumption DEF Write
    <3>2. TypeOK'
      BY <2>0, <2>1, <3>1, WriteTyped DEF Write, TypeOK
    <3>3. ASSUME NEW q \in wp' - Size'..wp' - 1 PROVE buf'[q % Capacity] = q
      <4>1. q \in Int /\ q >= 0 /\ q >= wp + len - Capacity /\ q < wp + len
        BY <2>0, <3>1, <3>3 DEF Size, Least
      <4>2. CASE len >= Capacity
        <5>1. q \in wp + len - Capacity..wp + len - 1
          BY <2>0, <3>1, <4>1
        <5> QED
          BY <2>1, <3>1, <4>2, <5>1, RefilledHolds DEF Write
      <4>3. CASE ~(len >= Capacity)
        <5>1. len < Capacity
          BY <2>0, <3>1, <4>3
        <5> QED
          BY <2>1, <3>1, <4>1, <4>3, <5>1, AppendedHolds DEF Write
      <4> QED
        BY <4>2, <4>3
    <3> QED
      BY <3>2, <3>3 DEF RingInv, Held
  <2>2. CASE Follow
    <3>1. offset' \in Nat
      BY <2>0, <2>2, RingAssumption DEF Follow, Told, ReadSince, Start, Copied, Least
    <3> QED
      BY <2>2, <3>1 DEF Follow, RingInv, TypeOK, Held, Size
  <2>3. CASE Renew
    BY <2>0, <2>3 DEF Renew, RingInv, TypeOK, Held, Size, Least, Slots
  <2>4. CASE UNCHANGED vars
    BY <2>4 DEF vars, RingInv, TypeOK, Held, Size
  <2> QED
    BY <2>1, <2>2, <2>3, <2>4 DEF Next
<1> QED
  BY <1>1, <1>2, PTL DEF Spec

\* The buffer holds the newest Capacity bytes, each in the slot of its position, whatever the writes were.
THEOREM RingCorrect == Spec => []Held
<1>1. RingInv => Held
  BY DEF RingInv
<1> QED
  BY <1>1, RingTyped, PTL

-----------------------------------------------------------------------------
(* Readers. *)

\* n bytes that the buffer holds, copied from a position on, are the bytes of that position and the next ones.
LEMMA CopiedExact ==
  ASSUME RingInv, NEW start \in Nat, NEW n \in Nat, start + n <= wp, start >= wp - Capacity,
         NEW i \in 1..n
  PROVE  Copied(start, n)[i] = start + i - 1
<1> DEFINE C == Capacity
           idx == start % C
           d == i - 1
<1>1. C \in Nat \ {0} /\ wp \in Nat /\ start \in Int /\ idx \in 0..C - 1
  BY RingAssumption, DivMod DEF RingInv, TypeOK
<1>2. n \in Nat /\ n <= C /\ i \in 1..n /\ d \in 0..C - 1 /\ i = d + 1
  BY <1>1
<1>3. Copied(start, n)[i] = IF i <= C - idx THEN buf[idx + i - 1] ELSE buf[i - (C - idx) - 1]
  BY DEF Copied
<1>4. buf[(start + d) % C] = start + d
  <2>1. start + d \in wp - Size..wp - 1
    BY <1>1, <1>2 DEF Size, Least
  <2> QED
    BY <2>1 DEF RingInv, Held
<1> HIDE DEF C, d, idx
<1>5. (start + d) % C = IF idx + d < C THEN idx + d ELSE idx + d - C
  BY <1>1, <1>2, ModAdd DEF idx
<1>6. CASE idx + d < C
  <2>1. i <= C - idx /\ idx + i - 1 = idx + d /\ start + i - 1 = start + d
    BY <1>1, <1>2, <1>6
  <2> QED
    BY <1>3, <1>4, <1>5, <1>6, <2>1
<1>7. CASE ~(idx + d < C)
  <2>1. ~(i <= C - idx) /\ i - (C - idx) - 1 = idx + d - C /\ start + i - 1 = start + d
    BY <1>1, <1>2, <1>7
  <2> QED
    BY <1>3, <1>4, <1>5, <1>7, <2>1
<1> QED
  BY <1>6, <1>7

\* A copy has the length that was asked for.
LEMMA CopiedLength == \A start, n : n \in Nat => Len(Copied(start, n)) = n
BY DEF Copied

\* Where a reader who is behind is started: not before what is held, and not further back than one read goes.
LEMMA StartBounds ==
  ASSUME RingInv, NEW since \in 0..wp - 1
  PROVE  /\ Start(since) \in since..wp - 1 /\ Start(since) >= wp - Capacity
         /\ wp - Start(since) <= ReadMax
<1>1. Capacity \in Nat \ {0} /\ ReadMax \in Nat \ {0} /\ wp \in Nat
  BY RingAssumption DEF RingInv, TypeOK
<1> QED
  BY <1>1 DEF Start

\* Every reader gets the newest bytes without a hole, and is told the offset of the next byte.
THEOREM ReadersCorrect == HostSpec => []ReadExact
<1>1. RingInv => ReadExact
  <2> SUFFICES ASSUME RingInv, NEW since \in 0..wp
               PROVE  LET r == ReadSince(since)
                          n == Len(r.bytes)
                      IN /\ \A i \in 1..n : r.bytes[i] = wp - n + i - 1
                         /\ ~r.reset => wp - n = since
                         /\ Told(since) = wp
    BY DEF ReadExact
  <2>0. Capacity \in Nat \ {0} /\ ReadMax \in Nat \ {0} /\ wp \in Nat
    BY RingAssumption DEF RingInv, TypeOK
  <2>1. CASE since >= wp
    <3>1. ReadSince(since) = [bytes |-> <<>>, reset |-> FALSE] /\ since = wp
      BY <2>0, <2>1 DEF ReadSince
    <3> QED
      BY <2>0, <3>1 DEF Told
  <2>2. CASE ~(since >= wp)
    <3> DEFINE start == Start(since)
               n == wp - start
               bytes == Copied(start, n)
               moved == start # since
    <3>1. since \in 0..wp - 1
      BY <2>0, <2>2
    <3>2. /\ start \in since..wp - 1 /\ start >= wp - Capacity /\ n <= ReadMax
      BY <3>1, StartBounds
    <3>3. ReadSince(since) = [bytes |-> bytes, reset |-> moved]
      BY <2>0, <2>2, <3>2 DEF ReadSince, Least
    <3> HIDE DEF start, moved
    <3>4. start \in Nat /\ n \in Nat /\ start + n <= wp
      BY <2>0, <3>1, <3>2
    <3>5. \A i \in 1..n : bytes[i] = start + i - 1
      BY <3>2, <3>4, CopiedExact
    <3>6. Len(bytes) = n
      BY <3>4, CopiedLength
    <3> HIDE DEF bytes
    <3>7. ReadSince(since).bytes = bytes /\ (ReadSince(since).reset <=> start # since)
      <4>1. ReadSince(since).bytes = bytes /\ ReadSince(since).reset = moved
        BY <3>3
      <4>2. moved <=> start # since
        BY Zenon DEF moved
      <4> QED
        BY <4>1, <4>2, Zenon
    <3>8. wp - n = start /\ since + n = wp + since - start
      BY <2>0, <3>1, <3>2, <3>4
    <3>9. Told(since) = wp
      <4>1. CASE start # since
        BY <3>7, <4>1 DEF Told
      <4>2. CASE start = since
        <5>1. Told(since) = since + Len(bytes)
          BY <3>7, <4>2 DEF Told
        <5>2. since + n = wp
          BY <2>0, <3>1, <4>2
        <5> QED
          BY <3>6, <5>1, <5>2
      <4> QED
        BY <4>1, <4>2
    <3>10. \A i \in 1..n : bytes[i] = wp - n + i - 1
      BY <2>0, <3>4, <3>5
    <3>11. ~ReadSince(since).reset => wp - n = since
      BY <3>7, <3>8
    <3> HIDE DEF n
    <3> QED
      BY <3>6, <3>7, <3>9, <3>10, <3>11
  <2> QED
    BY <2>1, <2>2
<1>2. Spec => []RingInv
  BY RingTyped
<1> QED
  BY <1>1, <1>2, HostRuns, PTL

\* A copy of the whole buffer gives the last bytes in their order, before and after the buffer has wrapped.
THEOREM SnapshotCorrect == Spec => []SnapshotExact
<1>1. RingInv => SnapshotExact
  <2> SUFFICES ASSUME RingInv, NEW i \in 1..Size PROVE Snapshot[i] = wp - Size + i - 1
    BY DEF SnapshotExact
  <2>0. Capacity \in Nat \ {0} /\ wp \in Nat
    BY RingAssumption DEF RingInv, TypeOK
  <2>1. CASE wp <= Capacity
    <3>1. Size = wp /\ Snapshot = Copied(0, wp) /\ i \in 1..wp
      BY <2>0, <2>1 DEF Snapshot, Size, Least
    <3>2. Copied(0, wp)[i] = 0 + i - 1
      BY <2>0, <2>1, <3>1, CopiedExact
    <3> QED
      BY <2>0, <3>1, <3>2
  <2>2. CASE ~(wp <= Capacity)
    <3> DEFINE start == wp - Capacity
    <3>1. Size = Capacity /\ Snapshot = Copied(wp, Capacity) /\ i \in 1..Capacity
      BY <2>0, <2>2 DEF Snapshot, Size, Least
    <3>2. start \in Nat /\ wp = start + Capacity
      BY <2>0, <2>2
    <3>3. wp % Capacity = start % Capacity
      <4>1. start \in Int /\ Capacity \in Nat \ {0}
        BY <2>0, <3>2
      <4> HIDE DEF start
      <4>2. (start + Capacity) % Capacity = start % Capacity
        BY <4>1, ModPeriod
      <4> QED
        BY <3>2, <4>2
    <3>4. Copied(wp, Capacity) = Copied(start, Capacity)
      BY <3>3 DEF Copied
    <3>5. Copied(start, Capacity)[i] = start + i - 1
      BY <2>0, <3>1, <3>2, CopiedExact
    <3> QED
      BY <2>0, <3>1, <3>4, <3>5
  <2> QED
    BY <2>1, <2>2
<1> QED
  BY <1>1, RingTyped, PTL

-----------------------------------------------------------------------------
(* Supervised commands: for any services, pids, deaths of the daemon,      *)
(* failing saves and strangers, a process of a service is the one both     *)
(* lists name, in memory and on disk, but for those a daemon forked that   *)
(* died before it saved.                                                   *)

\* TypeOK without the bound of restart_count, on which nothing here depends.
Entry == [desired : {"absent", "running", "stopped"}, pid : Pids \cup {Rn!NoPid},
          count : Nat, waits : BOOLEAN]
Processes == [Pids -> {"free", "runs", "zombie", "stranger"}]
Owners == [Pids -> Services \cup {"none"}]

\* The list names every process of a service but those excused, and means it to run.
Listed(list, excused) ==
  \A p \in Pids \ excused : proc[p] = "runs" =>
    /\ owner[p] \in Services
    /\ list[owner[p]].desired = "running" /\ list[owner[p]].pid = p

\* While the daemon is down the disk alone names them, and no save is under way.
RunInv ==
  /\ mem \in [Services -> Entry] /\ disk \in [Services -> Entry]
  /\ proc \in Processes /\ owner \in Owners
  /\ \A p \in fresh \cup lost : p \in Pids /\ proc[p] = "runs"
  /\ ~up => fresh = {}
  /\ Listed(disk, fresh \cup lost) /\ (up => Listed(mem, lost))

\* No process has the pid that stands for none.
NoneIsNobody == Rn!NoPid \notin Pids

-----------------------------------------------------------------------------
\* Spawning what is due and has no process leaves a list that names everything, and on disk
\* what was named there.
LEMMA SpawnedListed ==
  ASSUME RunInv, NoneIsNobody, NEW due \in SUBSET Services, NEW list \in [Services -> Entry],
         Listed(list, lost), \A s \in due : list[s].desired = "running" /\ list[s].pid = Rn!NoPid,
         Rn!Spawned(due, list), Rn!Handles, lost' = lost
  PROVE  RunInv'
<1>1. PICK pid \in [due -> {p \in Pids : proc[p] = "free"}] :
        /\ \A s, t \in due : s # t => pid[s] # pid[t]
        /\ mem' = [s \in Services |->
                     IF s \in due THEN [list[s] EXCEPT !.pid = pid[s], !.count = 0, !.waits = FALSE]
                     ELSE list[s]]
        /\ proc' = [p \in Pids |-> IF \E s \in due : pid[s] = p THEN "runs" ELSE proc[p]]
        /\ owner' = [p \in Pids |->
                       IF \E s \in due : pid[s] = p THEN CHOOSE s \in due : pid[s] = p ELSE owner[p]]
        /\ fresh' = fresh \cup {pid[s] : s \in due}
  BY DEF Rn!Spawned
<1>2. mem' \in [Services -> Entry]
  <2>1. ASSUME NEW s \in due PROVE [list[s] EXCEPT !.pid = pid[s], !.count = 0, !.waits = FALSE] \in Entry
    <3>1. list[s] \in Entry /\ pid[s] \in Pids
      BY <1>1
    <3> QED BY ONLY <3>1 DEF Entry
  <2>2. ASSUME NEW s \in Services \ due PROVE list[s] \in Entry
    OBVIOUS
  <2> QED BY <1>1, <2>1, <2>2
<1>3. proc' \in Processes
  BY <1>1 DEF RunInv, Processes
<1>4. owner' \in Owners
  <2> SUFFICES ASSUME NEW p \in Pids PROVE owner'[p] \in Services \cup {"none"}
    BY <1>1 DEF Owners
  <2>1. CASE \E s \in due : pid[s] = p
    <3>1. (CHOOSE s \in due : pid[s] = p) \in due
      BY <2>1
    <3> QED
      BY <1>1, <2>1, <3>1
  <2>2. CASE ~\E s \in due : pid[s] = p
    BY <1>1, <2>2 DEF RunInv, Owners
  <2> QED
    BY <2>1, <2>2
<1>5. disk' = disk /\ up'
  BY DEF Rn!Handles
<1>6. ASSUME NEW p \in Pids, ~\E s \in due : pid[s] = p
      PROVE  proc'[p] = proc[p] /\ owner'[p] = owner[p] /\ (p \in fresh' <=> p \in fresh)
  BY <1>1, <1>6
<1>7. ASSUME NEW s \in due PROVE pid[s] \in Pids /\ proc'[pid[s]] = "runs" /\ pid[s] \in fresh'
  BY <1>1, <1>7
<1>8. \A p \in fresh' \cup lost' : p \in Pids /\ proc'[p] = "runs"
  <2> SUFFICES ASSUME NEW p \in fresh' \cup lost' PROVE p \in Pids /\ proc'[p] = "runs"
    OBVIOUS
  <2>1. CASE \E s \in due : pid[s] = p
    BY <1>7, <2>1
  <2>2. CASE ~\E s \in due : pid[s] = p
    <3>1. p \in fresh \cup lost
      BY <1>1, <2>2
    <3>2. p \in Pids /\ proc[p] = "runs"
      BY <3>1 DEF RunInv
    <3> QED
      BY <1>6, <2>2, <3>2
  <2> QED
    BY <2>1, <2>2
<1>9. Listed(mem, lost)'
  <2> SUFFICES ASSUME NEW p \in Pids \ lost, proc'[p] = "runs"
               PROVE  /\ owner'[p] \in Services
                      /\ mem'[owner'[p]].desired = "running" /\ mem'[owner'[p]].pid = p
    BY DEF Listed
  <2>1. CASE \E s \in due : pid[s] = p
    <3> DEFINE s == CHOOSE s \in due : pid[s] = p
    <3>1. s \in due /\ pid[s] = p
      BY <2>1
    <3>2. owner'[p] = s
      BY <1>1, <2>1
    <3> HIDE DEF s
    <3>3. mem'[s] = [list[s] EXCEPT !.pid = pid[s], !.count = 0, !.waits = FALSE]
      BY <1>1, <3>1
    <3> QED
      BY <3>1, <3>2, <3>3 DEF Entry
  <2>2. CASE ~\E s \in due : pid[s] = p
    <3>1. proc[p] = "runs" /\ owner'[p] = owner[p]
      BY <1>6, <2>2
    <3>2. owner[p] \in Services /\ list[owner[p]].desired = "running" /\ list[owner[p]].pid = p
      BY <3>1 DEF Listed
    <3>3. owner[p] \notin due
      BY <3>2 DEF NoneIsNobody
    <3> QED
      BY <1>1, <3>1, <3>2, <3>3
  <2> QED
    BY <2>1, <2>2
<1>10. Listed(disk, fresh \cup lost)'
  <2> SUFFICES ASSUME NEW p \in Pids \ (fresh' \cup lost), proc'[p] = "runs"
               PROVE  /\ owner'[p] \in Services
                      /\ disk[owner'[p]].desired = "running" /\ disk[owner'[p]].pid = p
    BY <1>5 DEF Listed
  <2>1. ~\E s \in due : pid[s] = p
    BY <1>7
  <2>2. proc[p] = "runs" /\ owner'[p] = owner[p] /\ p \notin fresh \cup lost
    BY <1>6, <2>1
  <2> QED
    BY <2>2 DEF RunInv, Listed
<1> QED
  BY <1>2, <1>3, <1>4, <1>5, <1>8, <1>9, <1>10 DEF RunInv

\* A failure leaves an entry of the list an entry.
LEMMA DecidedEntry ==
  ASSUME NEW m \in Entry
  PROVE  Rn!Decided(m) \in Entry
<1> DEFINE n == m.count + 1
<1>1. n \in Nat
  BY DEF Entry
<1>2. Rn!Decided(m) = IF n > GiveUp
                     THEN [m EXCEPT !.desired = "stopped", !.pid = Rn!NoPid, !.count = n]
                     ELSE [m EXCEPT !.pid = Rn!NoPid, !.count = n, !.waits = TRUE]
  BY DEF Rn!Decided
<1> HIDE DEF n
<1>3. [m EXCEPT !.desired = "stopped", !.pid = Rn!NoPid, !.count = n] \in Entry
  BY <1>1 DEF Entry
<1>4. [m EXCEPT !.pid = Rn!NoPid, !.count = n, !.waits = TRUE] \in Entry
  BY <1>1 DEF Entry
<1> QED
  BY <1>2, <1>3, <1>4

\* The service that is started has no process, as nobody knows it.
LEMMA StartKeeps ==
  ASSUME RunInv, NoneIsNobody, NEW s \in Services, Rn!Start(s)
  PROVE  RunInv'
<1> DEFINE new == [Rn!Absent EXCEPT !.desired = "running"]
           list == [mem EXCEPT ![s] = new]
<1>1. new \in Entry /\ new.desired = "running" /\ new.pid = Rn!NoPid
  BY DEF Rn!Absent, Entry
<1>2. list \in [Services -> Entry]
  BY <1>1 DEF RunInv
<1>3. Listed(list, lost)
  <2> SUFFICES ASSUME NEW p \in Pids \ lost, proc[p] = "runs"
               PROVE  /\ owner[p] \in Services
                      /\ list[owner[p]].desired = "running" /\ list[owner[p]].pid = p
    BY DEF Listed
  <2>1. owner[p] \in Services /\ mem[owner[p]].desired = "running" /\ mem[owner[p]].pid = p
    BY DEF Rn!Start, Rn!Handles, RunInv, Listed
  <2>2. owner[p] # s
    BY <2>1 DEF Rn!Start, Rn!Absent
  <2> QED
    BY <2>1, <2>2 DEF RunInv
<1>4. \A t \in {s} : list[t].desired = "running" /\ list[t].pid = Rn!NoPid
  BY <1>1 DEF RunInv
<1>5. Rn!Spawned({s}, list) /\ Rn!Handles /\ lost' = lost
  BY DEF Rn!Start
<1> HIDE DEF list
<1> QED
  BY <1>2, <1>3, <1>4, <1>5, SpawnedListed

\* A service whose process lives is skipped, and one that is due has none.
LEMMA TickKeeps ==
  ASSUME RunInv, NoneIsNobody, Rn!Tick
  PROVE  RunInv'
<1> DEFINE first == [s \in Services |-> IF Rn!Skipped(mem[s]) THEN mem[s] ELSE Rn!Decided(mem[s])]
           due == {s \in Services : first[s].desired = "running" /\ first[s].pid = Rn!NoPid /\ (Jumps \/ ~first[s].waits)}
<1>1. first \in [Services -> Entry]
  <2> SUFFICES ASSUME NEW s \in Services PROVE first[s] \in Entry
    OBVIOUS
  <2>1. mem[s] \in Entry
    BY DEF RunInv
  <2>2. Rn!Decided(mem[s]) \in Entry
    BY <2>1, DecidedEntry
  <2> QED
    BY <2>1, <2>2
<1>2. Listed(first, lost)
  <2> SUFFICES ASSUME NEW p \in Pids \ lost, proc[p] = "runs"
               PROVE  /\ owner[p] \in Services
                      /\ first[owner[p]].desired = "running" /\ first[owner[p]].pid = p
    BY DEF Listed
  <2>1. owner[p] \in Services /\ mem[owner[p]].desired = "running" /\ mem[owner[p]].pid = p
    BY DEF Rn!Tick, Rn!Handles, RunInv, Listed
  <2>2. Rn!Skipped(mem[owner[p]])
    BY <2>1 DEF Rn!Skipped, Rn!Alive, NoneIsNobody
  <2> QED
    BY <2>1, <2>2
<1>3. PICK started \in SUBSET due : Rn!Spawned(started, first)
  BY DEF Rn!Tick
<1>4. Rn!Handles /\ lost' = lost
  BY DEF Rn!Tick
<1>5. started \in SUBSET Services /\ \A s \in started : first[s].desired = "running" /\ first[s].pid = Rn!NoPid
  OBVIOUS
<1> HIDE DEF first, due
<1> QED
  BY <1>1, <1>2, <1>3, <1>4, <1>5, SpawnedListed

\* The only process the stopped service can have is the one that is killed, but for one that is lost.
LEMMA StopKeeps ==
  ASSUME RunInv, NoneIsNobody, NEW s \in Services, Rn!Stop(s)
  PROVE  RunInv'
<1> DEFINE new == [Rn!Absent EXCEPT !.desired = "stopped"]
<1>0. PICK q : q = mem[s].pid
  OBVIOUS
<1>1. new \in Entry
  BY DEF Rn!Absent, Entry
<1>2. mem' = [mem EXCEPT ![s] = new] /\ up /\ up' /\ disk' = disk
  BY DEF Rn!Stop, Rn!Handles
<1>3. mem' \in [Services -> Entry]
  BY <1>1, <1>2 DEF RunInv
<1>4. \/ /\ Rn!Alive(q) /\ proc' = [proc EXCEPT ![q] = "free"] /\ owner' = [owner EXCEPT ![q] = "none"]
         /\ fresh' = fresh \ {q} /\ lost' = lost \ {q}
      \/ ~Rn!Alive(q) /\ proc' = proc /\ owner' = owner /\ fresh' = fresh /\ lost' = lost
  BY <1>0 DEF Rn!Stop, Rn!Gone
<1>5. proc' \in Processes /\ owner' \in Owners
  BY <1>4 DEF RunInv, Processes, Owners
<1>6. ASSUME NEW p \in Pids, proc'[p] = "runs"
      PROVE  /\ proc[p] = "runs" /\ owner'[p] = owner[p] /\ ~(Rn!Alive(q) /\ p = q)
             /\ (p \in fresh' <=> p \in fresh) /\ (p \in lost' <=> p \in lost)
  BY <1>4, <1>6 DEF RunInv, Processes, Owners
<1>7. \A p \in fresh' \cup lost' : p \in Pids /\ proc'[p] = "runs"
  BY <1>4 DEF RunInv, Processes
<1>8. Listed(mem, lost)'
  <2> SUFFICES ASSUME NEW p \in Pids \ lost', proc'[p] = "runs"
               PROVE  /\ owner'[p] \in Services
                      /\ mem'[owner'[p]].desired = "running" /\ mem'[owner'[p]].pid = p
    BY DEF Listed
  <2>1. proc[p] = "runs" /\ owner'[p] = owner[p] /\ ~(Rn!Alive(q) /\ p = q) /\ p \notin lost
    BY <1>6
  <2>2. owner[p] \in Services /\ mem[owner[p]].desired = "running" /\ mem[owner[p]].pid = p
    BY <1>2, <2>1 DEF RunInv, Listed
  <2>3. owner[p] # s
    BY <1>0, <2>1, <2>2 DEF Rn!Alive, NoneIsNobody
  <2> QED
    BY <1>2, <2>1, <2>2, <2>3 DEF RunInv
<1>9. Listed(disk, fresh \cup lost)'
  <2> SUFFICES ASSUME NEW p \in Pids \ (fresh' \cup lost'), proc'[p] = "runs"
               PROVE  /\ owner'[p] \in Services
                      /\ disk[owner'[p]].desired = "running" /\ disk[owner'[p]].pid = p
    BY <1>2 DEF Listed
  <2>1. proc[p] = "runs" /\ owner'[p] = owner[p] /\ p \notin fresh \cup lost
    BY <1>6
  <2> QED
    BY <2>1 DEF RunInv, Listed
<1> QED
  BY <1>2, <1>3, <1>5, <1>7, <1>8, <1>9 DEF RunInv

\* A save that succeeds makes the two lists one; one that fails changes nothing.
LEMMA SavesKeeps ==
  ASSUME RunInv, Rn!Saves, up
  PROVE  RunInv'
<1>1. UNCHANGED <<up, mem, proc, owner, lost>> /\ Rn!Saved
  BY DEF Rn!Saves
<1>2. CASE disk' = mem /\ fresh' = {}
  <2>1. Listed(disk, fresh \cup lost)' /\ Listed(mem, lost)'
    BY <1>1, <1>2 DEF RunInv, Listed
  <2> QED
    BY <1>1, <1>2, <2>1 DEF RunInv
<1>3. CASE UNCHANGED <<disk, fresh>>
  BY <1>1, <1>3 DEF RunInv, Listed
<1> QED
  BY <1>1, <1>2, <1>3 DEF Rn!Saved

\* What the system does to processes, and the daemon's death and return.
LEMMA OthersKeep ==
  ASSUME RunInv,
         \/ \E s \in Services : Rn!Elapse(s)
         \/ \E p \in Pids : Rn!Exits(p) \/ Rn!Stranger(p)
         \/ Rn!Dies \/ Rn!Returns \/ UNCHANGED Rn!vars
  PROVE  RunInv'
<1>1. ASSUME NEW s \in Services, Rn!Elapse(s) PROVE RunInv'
  <2>1. mem' = [mem EXCEPT ![s].waits = FALSE] /\ UNCHANGED <<up, disk, proc, owner, fresh, lost>>
    BY <1>1 DEF Rn!Elapse, Rn!processVars
  <2>2. mem[s] \in Entry
    BY DEF RunInv
  <2>3. /\ mem' \in [Services -> Entry]
        /\ \A t \in Services : mem'[t].desired = mem[t].desired /\ mem'[t].pid = mem[t].pid
    BY <2>1, <2>2 DEF RunInv, Entry
  <2> QED
    BY <2>1, <2>3 DEF RunInv, Listed
<1>2. ASSUME NEW p \in Pids, Rn!Exits(p) \/ Rn!Stranger(p) PROVE RunInv'
  <2>1. proc' \in Processes /\ owner' \in Owners
    BY <1>2 DEF Rn!Exits, Rn!Stranger, Rn!Gone, RunInv, Processes, Owners
  <2>2. \A q \in Pids : proc'[q] = "runs" => /\ proc[q] = "runs" /\ owner'[q] = owner[q]
                                             /\ (q \in fresh' <=> q \in fresh) /\ (q \in lost' <=> q \in lost)
    BY <1>2 DEF Rn!Exits, Rn!Stranger, Rn!Gone, RunInv, Processes, Owners
  <2>3. \A q \in fresh' \cup lost' : q \in Pids /\ proc'[q] = "runs"
    BY <1>2 DEF Rn!Exits, Rn!Stranger, Rn!Gone, RunInv, Processes
  <2>4. UNCHANGED <<up, mem, disk>> /\ (fresh = {} => fresh' = {})
    BY <1>2 DEF Rn!Exits, Rn!Stranger, Rn!Gone
  <2>5. Listed(disk, fresh \cup lost)' /\ (up => Listed(mem, lost)')
    BY <2>2, <2>4 DEF RunInv, Listed
  <2> QED
    BY <2>1, <2>3, <2>4, <2>5 DEF RunInv
<1>3. CASE Rn!Dies
  <2>1. /\ proc' \in Processes /\ owner' = owner /\ disk' = disk /\ ~up'
        /\ \A q \in Pids : proc'[q] = "runs" <=> proc[q] = "runs"
    BY <1>3 DEF Rn!Dies, RunInv, Processes
  <2>2. mem' \in [Services -> Entry]
    BY <1>3 DEF Rn!Dies, Rn!Absent, Entry
  <2>3. lost' = lost \cup fresh /\ fresh' = {}
    BY <1>3 DEF Rn!Dies
  <2>4. Listed(disk, fresh \cup lost)'
    BY <2>1, <2>3 DEF RunInv, Listed
  <2> QED
    BY <2>1, <2>2, <2>3, <2>4 DEF RunInv
<1>4. CASE Rn!Returns
  <2>1. mem' = disk /\ fresh = {} /\ up' /\ UNCHANGED <<disk, proc, owner, fresh, lost>>
    BY <1>4 DEF Rn!Returns, Rn!processVars, RunInv
  <2> QED
    BY <2>1 DEF RunInv, Listed
<1>5. CASE UNCHANGED Rn!vars
  BY <1>5 DEF Rn!vars, Rn!processVars, RunInv, Listed
<1> QED
  BY <1>1, <1>2, <1>3, <1>4, <1>5

-----------------------------------------------------------------------------
\* No process of a supervised service is forgotten or doubled across deaths of the daemon at any
\* point, between a fork and the save too, whether run_services_save succeeds or fails, but for
\* those a daemon forked that died before a save succeeded: for any services and pids, as long as
\* pid 0, which stands for none, is nobody's (NoneForgotten).
THEOREM ForgottenCorrect == NoneIsNobody => (HostSpec => []NoneForgotten)
<1> SUFFICES ASSUME NoneIsNobody PROVE HostSpec => []NoneForgotten
  OBVIOUS
<1>1. Rn!Init => RunInv /\ ~saving
  BY DEF Rn!Init, RunInv, Entry, Rn!Absent, Processes, Owners, Listed
<1>2. RunInv /\ (saving => up) /\ [Rn!Next]_Rn!vars => RunInv'
  BY StartKeeps, StopKeeps, TickKeeps, SavesKeeps, OthersKeep DEF Rn!Next, Rn!Saves
<1>3. (saving => up) /\ [Rn!Next]_Rn!vars => (saving => up)'
  BY DEF Rn!Next, Rn!vars, Rn!processVars, Rn!Start, Rn!Stop, Rn!Tick, Rn!Handles, Rn!Elapse, Rn!Exits,
         Rn!Stranger, Rn!Saves, Rn!Dies, Rn!Returns
<1>4. RunInv => NoneForgotten
  BY DEF RunInv, Listed, NoneForgotten, Rn!NoneForgotten, Rn!Runs
<1> QED
  BY <1>1, <1>2, <1>3, <1>4, HostRuns, PTL DEF Rn!Spec

-----------------------------------------------------------------------------
(* The approval gate of bs sync pair, for any folder, any names held       *)
(* secret, any pairs and any number of sends that fail.                    *)

Shape ==
  /\ remote \in [Ids -> SUBSET Files] /\ agreed \in [Ids -> SUBSET Files]
  /\ pairs \in [Ids -> [exists : BOOLEAN, approved : BOOLEAN]]
  /\ manifest \in [Ids -> [exists : BOOLEAN, ops : SUBSET Files]]
  /\ cmd \in [at : {"idle", "listed", "written", "sending"}, id : Ids \cup {0}, approve : BOOLEAN, ops : SUBSET Files]
  /\ local \subseteq Files

\* A command that runs is about a pair.
About == cmd = Pr!Idle \/ (cmd.at # "idle" /\ cmd.id \in Ids)

\* What no scan lists is in no manifest.
NoSecrets == cmd.ops \cap Secrets = {} /\ \A i \in Ids : manifest[i].ops \cap Secrets = {}

\* Under an approval lies a manifest that was approved, and before one nothing is sent.
Covered(i) ==
  /\ ~pairs[i].exists => ~pairs[i].approved
  /\ ~pairs[i].approved => remote[i] = {}
  /\ pairs[i].approved /\ manifest[i].exists => manifest[i].ops \subseteq agreed[i]
  /\ remote[i] \subseteq agreed[i] \ Secrets

\* What the running command found when it began is still so.
PairHeld ==
  /\ cmd.at \in {"listed", "written"} => ~pairs[cmd.id].exists
  /\ cmd.at = "written" /\ cmd.approve => ~manifest[cmd.id].exists
  /\ cmd.at = "sending" => pairs[cmd.id].approved /\ cmd.ops \subseteq agreed[cmd.id]

GateInv == Shape /\ About /\ NoSecrets /\ (\A i \in Ids : Covered(i)) /\ PairHeld

-----------------------------------------------------------------------------
\* At the start there are no pairs (an empty state/ directory).
LEMMA InitGate == Pr!Init => GateInv
  BY DEF Pr!Init, GateInv, Shape, About, NoSecrets, Covered, PairHeld, Pr!NoPair, Pr!NoManifest, Pr!Idle

\* bs sync init, up to its scan: secrets are left out, the id is new.
LEMMA InitPairKeeps ==
  ASSUME GateInv, NEW i \in Ids, NEW approve \in BOOLEAN, Pr!InitPair(i, approve)
  PROVE  GateInv'
<1>1. Shape' /\ About'
  BY DEF GateInv, Shape, About, Pr!InitPair, Pr!Scanned, Pr!disk
<1>2. NoSecrets'
  BY DEF GateInv, NoSecrets, Pr!InitPair, Pr!Scanned, Pr!disk
<1>3. \A j \in Ids : Covered(j)'
  BY DEF GateInv, Covered, Pr!InitPair, Pr!disk
<1>4. PairHeld'
  BY DEF GateInv, PairHeld, Pr!InitPair, Pr!NewIds, Pr!disk
<1> QED BY <1>1, <1>2, <1>3, <1>4 DEF GateInv

\* Writing the manifest of a pair that does not exist yet.
LEMMA WriteManifestKeeps ==
  ASSUME GateInv, Pr!WriteManifest
  PROVE  GateInv'
<1>0. /\ cmd.id \in Ids /\ ~pairs[cmd.id].exists
      /\ Pr!NewManifest \in [exists : BOOLEAN, ops : SUBSET Files]
      /\ Pr!NewManifest.ops \cap Secrets = {} /\ (cmd.approve => ~Pr!NewManifest.exists)
  BY DEF GateInv, Shape, About, NoSecrets, PairHeld, Pr!WriteManifest, Pr!NewManifest, Pr!NoManifest, Pr!Idle
<1> HIDE DEF Pr!NewManifest
<1>1. Shape' /\ About'
  BY <1>0 DEF GateInv, Shape, About, Pr!WriteManifest
<1>2. NoSecrets'
  BY <1>0 DEF GateInv, Shape, NoSecrets, Pr!WriteManifest
<1>3. \A j \in Ids : Covered(j)'
  BY <1>0 DEF GateInv, Shape, Covered, Pr!WriteManifest
<1>4. PairHeld'
  BY <1>0 DEF GateInv, Shape, PairHeld, Pr!WriteManifest
<1> QED BY <1>1, <1>2, <1>3, <1>4 DEF GateInv

\* Adding the pair: with --approve it has no manifest, without it no approval.
LEMMA WritePairsKeeps ==
  ASSUME GateInv, Pr!WritePairs
  PROVE  GateInv'
<1>0. cmd.id \in Ids /\ ~pairs[cmd.id].exists /\ (cmd.approve => ~manifest[cmd.id].exists)
  BY DEF GateInv, About, PairHeld, Pr!WritePairs, Pr!Idle
<1>1. Shape' /\ About'
  BY <1>0 DEF GateInv, Shape, About, Pr!WritePairs, Pr!Idle
<1>2. NoSecrets'
  BY DEF GateInv, NoSecrets, Pr!WritePairs, Pr!Idle
<1>3. ASSUME NEW j \in Ids PROVE Covered(j)'
  <2>1. CASE j = cmd.id
    BY <1>0, <2>1 DEF GateInv, Shape, Covered, Pr!WritePairs
  <2>2. CASE j # cmd.id
    BY <1>0, <2>2 DEF GateInv, Shape, Covered, Pr!WritePairs
  <2> QED BY <2>1, <2>2
<1>4. PairHeld'
  BY DEF PairHeld, Pr!WritePairs, Pr!Idle
<1> QED BY <1>1, <1>2, <1>3, <1>4 DEF GateInv

\* bs sync approve: what is approved is the manifest as it lies there.
LEMMA ApproveKeeps ==
  ASSUME GateInv, NEW i \in Ids, Pr!Approve(i)
  PROVE  GateInv'
<1>1. Shape' /\ About'
  BY DEF GateInv, Shape, About, Pr!Approve
<1>2. NoSecrets'
  BY DEF GateInv, NoSecrets, Pr!Approve
<1>3. ASSUME NEW j \in Ids PROVE Covered(j)'
  <2>1. CASE j = i
    BY <2>1 DEF GateInv, Shape, Covered, Pr!Approve
  <2>2. CASE j # i
    BY <2>2 DEF GateInv, Shape, Covered, Pr!Approve
  <2> QED BY <2>1, <2>2
<1>4. PairHeld'
  BY DEF PairHeld, Pr!Approve, Pr!Idle
<1> QED BY <1>1, <1>2, <1>3, <1>4 DEF GateInv

\* bs sync run, from its first look to its last write.
LEMMA RunKeeps ==
  ASSUME GateInv, NEW i \in Ids, Pr!Run(i)
  PROVE  GateInv'
<1>1. Shape' /\ About'
  BY DEF GateInv, Shape, About, Pr!Run, Pr!disk
<1>2. NoSecrets'
  BY DEF GateInv, NoSecrets, Pr!Run, Pr!disk
<1>3. \A j \in Ids : Covered(j)'
  BY DEF GateInv, Covered, Pr!Run, Pr!disk
<1>4. PairHeld'
  BY DEF GateInv, Covered, PairHeld, Pr!Run, Pr!disk
<1> QED BY <1>1, <1>2, <1>3, <1>4 DEF GateInv

LEMMA SendKeeps ==
  ASSUME GateInv, NEW f \in Files, Pr!Send(f)
  PROVE  GateInv'
<1>0. /\ cmd.at = "sending" /\ cmd.id \in Ids /\ pairs[cmd.id].approved
      /\ f \in agreed[cmd.id] /\ f \notin Secrets
  BY DEF GateInv, About, NoSecrets, PairHeld, Pr!Send, Pr!Idle
<1>a. /\ remote' = remote \/ remote' = [remote EXCEPT ![cmd.id] = @ \cup {f}]
      /\ cmd' = [cmd EXCEPT !.ops = @ \ {f}]
      /\ UNCHANGED <<local, pairs, manifest, agreed>>
  BY DEF Pr!Send, Pr!disk
<1>1. Shape' /\ About'
  BY <1>0, <1>a DEF GateInv, Shape, About
<1>2. NoSecrets'
  BY <1>a DEF GateInv, Shape, NoSecrets
<1>3. ASSUME NEW j \in Ids PROVE Covered(j)'
  BY <1>0, <1>a DEF GateInv, Shape, Covered
<1>4. PairHeld'
  BY <1>0, <1>a DEF GateInv, Shape, PairHeld
<1> QED BY <1>1, <1>2, <1>3, <1>4 DEF GateInv

LEMMA SentKeeps ==
  ASSUME GateInv, Pr!Sent
  PROVE  GateInv'
<1>0. cmd.id \in Ids /\ pairs[cmd.id].approved
  BY DEF GateInv, About, PairHeld, Pr!Sent, Pr!Idle
<1>1. Shape' /\ About'
  BY <1>0 DEF GateInv, Shape, About, Pr!Sent, Pr!Idle, Pr!NoManifest
<1>2. NoSecrets'
  BY <1>0 DEF GateInv, Shape, NoSecrets, Pr!Sent, Pr!Idle, Pr!NoManifest
<1>3. ASSUME NEW j \in Ids PROVE Covered(j)'
  BY <1>0 DEF GateInv, Shape, Covered, Pr!Sent, Pr!NoManifest
<1>4. PairHeld'
  BY DEF PairHeld, Pr!Sent, Pr!Idle
<1> QED BY <1>1, <1>2, <1>3, <1>4 DEF GateInv

\* A command killed between two of its writes, an edit of the folder.
LEMMA KilledKeeps ==
  ASSUME GateInv, Pr!Killed
  PROVE  GateInv'
<1>0. /\ manifest' = manifest \/ manifest' = [manifest EXCEPT ![cmd.id] = Pr!NoManifest]
      /\ cmd.id \in Ids
  BY DEF GateInv, Shape, About, Pr!Killed, Pr!Idle
<1>1. Shape' /\ About'
  <2>1. Pr!Idle \in [at : {"idle", "listed", "written", "sending"}, id : Ids \cup {0}, approve : BOOLEAN, ops : SUBSET Files]
    BY DEF Pr!Idle
  <2>2. Pr!NoManifest \in [exists : BOOLEAN, ops : SUBSET Files]
    BY DEF Pr!NoManifest
  <2>3. manifest' \in [Ids -> [exists : BOOLEAN, ops : SUBSET Files]]
    BY <1>0, <2>2 DEF GateInv, Shape
  <2> QED BY <2>1, <2>3 DEF GateInv, Shape, About, Pr!Killed
<1>2. NoSecrets'
  BY <1>0 DEF GateInv, Shape, NoSecrets, Pr!Killed, Pr!Idle, Pr!NoManifest
<1>3. ASSUME NEW j \in Ids PROVE Covered(j)'
  BY <1>0 DEF GateInv, Shape, Covered, Pr!Killed, Pr!NoManifest
<1>4. PairHeld'
  BY DEF PairHeld, Pr!Killed, Pr!Idle
<1> QED BY <1>1, <1>2, <1>3, <1>4 DEF GateInv

LEMMA EditKeeps ==
  ASSUME GateInv, NEW f \in Files, Pr!Edit(f)
  PROVE  GateInv'
  BY DEF GateInv, Shape, About, NoSecrets, Covered, PairHeld, Pr!Edit, Pr!disk

-----------------------------------------------------------------------------
\* Whatever commands run, in whatever order, and wherever they are killed, nothing is sent for a pair but paths that
\* somebody has approved for it, and no secret (bs-sync-pair.h, and the sync commands of main.cpp).
THEOREM GateCorrect == HostSpec => []GateHolds
<1>1. Pr!Init => GateInv
  BY InitGate
<1>2. GateInv /\ [Pr!Next]_Pr!vars => GateInv'
  <2> SUFFICES ASSUME GateInv, [Pr!Next]_Pr!vars PROVE GateInv'
    OBVIOUS
  <2>1. CASE \E i \in Ids : \E approve \in BOOLEAN : Pr!InitPair(i, approve)
    BY <2>1, InitPairKeeps
  <2>2. CASE \E i \in Ids : Pr!Approve(i)
    BY <2>2, ApproveKeeps
  <2>3. CASE \E i \in Ids : Pr!Run(i)
    BY <2>3, RunKeeps
  <2>4. CASE Pr!WriteManifest
    BY <2>4, WriteManifestKeeps
  <2>5. CASE Pr!WritePairs
    BY <2>5, WritePairsKeeps
  <2>6. CASE Pr!Sent
    BY <2>6, SentKeeps
  <2>7. CASE Pr!Killed
    BY <2>7, KilledKeeps
  <2>8. CASE \E f \in Files : Pr!Send(f)
    BY <2>8, SendKeeps
  <2>9. CASE \E f \in Files : Pr!Edit(f)
    BY <2>9, EditKeeps
  <2>10. CASE UNCHANGED Pr!vars
    BY <2>10 DEF GateInv, Shape, About, NoSecrets, Covered, PairHeld, Pr!vars
  <2> QED BY <2>1, <2>2, <2>3, <2>4, <2>5, <2>6, <2>7, <2>8, <2>9, <2>10 DEF Pr!Next
<1>3. GateInv => GateHolds
  BY DEF GateInv, Covered, GateHolds, Pr!GateHolds
<1> QED BY <1>1, <1>2, <1>3, HostRuns, PTL DEF Pr!Spec

-----------------------------------------------------------------------------
(* A host that one upgrade command works on can always be started: for any *)
(* release the server may publish, any number of probes of the watchdog,   *)
(* any deaths, and with the unit, the directory and the fleet in any state. *)

\* One command, no bin.old from an earlier one, a tag that names some release.
Alone ==
  /\ \E u \in Upgraders : Upgraders = {u}
  /\ Leftovers \subseteq {"none"}
  /\ Releases \subseteq {"old", "new", "silent", "older"}

\* Binaries that are genuine and not older than the one that ran.
Sound == {"old", "new", "silent"}

\* A download that was accepted lies at tmp from here on.
Fetched == {"fetched", "armed", "masked", "stopped", "moved", "installed", "unmasked",
            "started", "verified", "undone", "reopened"}

\* Two names, at most one of them vacant.
Disk ==
  /\ release \in Releases
  /\ {bin, saved} \subseteq Sound \cup {"none"}
  /\ bin # "none" \/ saved # "none"

\* What each process may rely on: its download is sound, and once it has verified the binary it may remove the saved one.
Worked(u) ==
  /\ pc[u] \in Fetched => tmp[u] \in Sound
  /\ pc[u] = "verified" => bin # "none"

SoundInv ==
  /\ Disk /\ daemon \in Sound \cup {"none"}
  /\ pc \in [Upgraders -> Up!Ends \cup Up!Steps] /\ tmp \in [Upgraders -> Up!Binaries]
  /\ \A u \in Upgraders : Worked(u)

-----------------------------------------------------------------------------
\* Putting bin.old back leaves a binary at bin_path (main.cpp, the two roll backs; bs-upgrade-watchdog.h).
LEMMA RestoredSound ==
  ASSUME Disk, Up!Restored, release' = release
  PROVE  Disk' /\ (bin # "none" => bin' # "none")
  BY DEF Disk, Up!Restored

\* A download that passes the checks (main.cpp: never backward, SHA256SUMS, --version).
LEMMA AcceptedSound ==
  ASSUME Alone, Disk, NEW d \in {release, "tampered"}, Up!NotOlder(d), Up!Genuine(d)
  PROVE  d \in Sound
  BY DEF Alone, Disk, Up!NotOlder, Up!Genuine, Sound

\* A step that touches no file, starts nothing and gets no further than the download.
LEMMA QuietStep ==
  ASSUME SoundInv, UNCHANGED <<bin, saved, release, tmp>>, daemon' = daemon \/ daemon' = "none",
         NEW u \in Upgraders, NEW there \in Up!Ends \cup Up!Steps, pc' = [pc EXCEPT ![u] = there],
         there \in Fetched => pc[u] \in Fetched, there = "verified" => bin # "none"
  PROVE  SoundInv'
  BY DEF SoundInv, Disk, Worked, Sound

\* The same where no upgrade moves at all.
LEMMA StillStep ==
  ASSUME SoundInv, UNCHANGED <<bin, saved, release, tmp, pc>>, daemon' \in Sound \cup {"none"}
  PROVE  SoundInv'
  BY DEF SoundInv, Disk, Worked

-----------------------------------------------------------------------------
LEMMA FetchSound ==
  ASSUME Alone, SoundInv, NEW u \in Upgraders, Up!Fetch(u)
  PROVE  SoundInv'
<1>1. CASE Up!At(u, "begun", "refused") /\ UNCHANGED tmp
  BY <1>1, QuietStep DEF Up!Fetch, Up!At, Up!files, Up!unit, Up!Ends, Up!Steps, Fetched
<1>2. CASE \E d \in {release, "tampered"} :
             Up!NotOlder(d) /\ Up!Genuine(d) /\ Up!At(u, "begun", "fetched") /\ tmp' = [tmp EXCEPT ![u] = d]
  <2>1. PICK d \in {release, "tampered"} :
          Up!NotOlder(d) /\ Up!Genuine(d) /\ Up!At(u, "begun", "fetched") /\ tmp' = [tmp EXCEPT ![u] = d]
    BY <1>2
  <2>2. d \in Sound
    BY <2>1, AcceptedSound DEF SoundInv
  <2>3. pc' = [pc EXCEPT ![u] = "fetched"] /\ UNCHANGED <<bin, saved, release, daemon>>
    BY <2>1 DEF Up!Fetch, Up!At, Up!files, Up!unit
  <2>4. pc' \in [Upgraders -> Up!Ends \cup Up!Steps] /\ tmp' \in [Upgraders -> Up!Binaries]
    BY <2>1, <2>2, <2>3 DEF SoundInv, Up!Steps, Sound, Up!Binaries
  <2>5. \A v \in Upgraders : Worked(v)'
    BY <2>1, <2>2, <2>3 DEF SoundInv, Worked
  <2> QED BY <2>3, <2>4, <2>5 DEF SoundInv, Disk
<1> QED BY <1>1, <1>2 DEF Up!Fetch

\* Arm, Mask, Stop, Unmask, and the end: no file changes.
LEMMA QuietSound ==
  ASSUME SoundInv, NEW u \in Upgraders, Up!Arm(u) \/ Up!Mask(u) \/ Up!Stop(u) \/ Up!Unmask(u) \/ Up!Crash(u)
  PROVE  SoundInv'
<1>1. CASE Up!Arm(u)
  BY <1>1, QuietStep DEF Up!Arm, Up!At, Up!files, Up!unit, Up!Ends, Up!Steps, Fetched
<1>2. CASE Up!Mask(u)
  BY <1>2, QuietStep DEF Up!Mask, Up!At, Up!files, Up!Ends, Up!Steps, Fetched
<1>3. CASE Up!Stop(u)
  <2>1. PICK there \in {"dead", "stopped"} : Up!At(u, "masked", there)
    BY <1>3 DEF Up!Stop
  <2> QED BY <1>3, <2>1, QuietStep DEF Up!Stop, Up!At, Up!files, Up!Ends, Up!Steps, Fetched
<1>4. CASE Up!Unmask(u)
  <2>1. PICK there \in {"unmasked", "reopened"} : Up!At(u, "installed", there) \/ Up!At(u, "undone", there)
    BY <1>4 DEF Up!Unmask
  <2> QED BY <1>4, <2>1, QuietStep DEF Up!Unmask, Up!At, Up!files, Up!Ends, Up!Steps, Fetched
<1>5. CASE Up!Crash(u)
  BY <1>5, QuietStep DEF Up!Crash, Up!files, Up!unit, Up!Ends, Up!Steps, Fetched
<1> QED BY <1>1, <1>2, <1>3, <1>4, <1>5

\* The swap. Another command at its last step would be in the way here: there is none.
LEMMA MoveOldSound ==
  ASSUME Alone, SoundInv, NEW u \in Upgraders, Up!MoveOld(u)
  PROVE  SoundInv'
<1>1. pc[u] = "stopped" /\ pc' = [pc EXCEPT ![u] = "moved"] /\ UNCHANGED <<release, tmp, daemon>>
  BY DEF Up!MoveOld, Up!At, Up!unit
<1>2. Disk'
  BY <1>1 DEF SoundInv, Disk, Up!MoveOld, Sound
<1>3. pc' \in [Upgraders -> Up!Ends \cup Up!Steps]
  BY <1>1 DEF SoundInv, Up!Steps
<1>4. Upgraders = {u}
  BY DEF Alone
<1>5. Worked(u)'
  BY <1>1 DEF SoundInv, Worked, Fetched
<1> QED BY <1>1, <1>2, <1>3, <1>4, <1>5 DEF SoundInv

LEMMA InstallSound ==
  ASSUME Alone, SoundInv, NEW u \in Upgraders, Up!Install(u)
  PROVE  SoundInv'
<1>1. PICK there \in {"installed", "undone"} : pc' = [pc EXCEPT ![u] = there]
  BY DEF Up!Install, Up!At
<1>2. pc[u] = "moved" /\ UNCHANGED <<release, tmp, daemon>>
  BY DEF Up!Install, Up!At, Up!unit
<1>3. tmp[u] \in Sound
  BY <1>2 DEF SoundInv, Worked, Fetched
<1>4. Disk'
  <2>1. CASE bin' = tmp[u] /\ UNCHANGED saved
    BY <1>2, <1>3, <2>1 DEF SoundInv, Disk, Sound
  <2>2. CASE Up!Restored
    BY <1>2, <2>2, RestoredSound DEF SoundInv
  <2> QED BY <2>1, <2>2 DEF Up!Install
<1>5. pc' \in [Upgraders -> Up!Ends \cup Up!Steps]
  BY <1>1 DEF SoundInv, Up!Steps
<1>6. Upgraders = {u}
  BY DEF Alone
<1>7. Worked(u)'
  BY <1>1, <1>2, <1>3 DEF SoundInv, Worked
<1> QED BY <1>2, <1>4, <1>5, <1>6, <1>7 DEF SoundInv

\* What is started is what lies at bin_path, or the command's own executable.
LEMMA StartSound ==
  ASSUME SoundInv, NEW u \in Upgraders, Up!Start(u)
  PROVE  SoundInv'
<1>1. PICK there \in {"started", "failed"} :
        pc' = [pc EXCEPT ![u] = there] /\ pc[u] \in {"unmasked", "reopened"}
  BY DEF Up!Start, Up!At
<1>2. UNCHANGED <<bin, saved, release, tmp>> /\ daemon' \in Sound \cup {"none"}
  BY DEF Up!Start, Up!files, SoundInv, Disk
<1>3. pc' \in [Upgraders -> Up!Ends \cup Up!Steps]
  BY <1>1 DEF SoundInv, Up!Ends, Up!Steps
<1>4. \A v \in Upgraders : Worked(v)'
  BY <1>1, <1>2 DEF SoundInv, Worked, Fetched
<1> QED BY <1>2, <1>3, <1>4 DEF SoundInv, Disk

LEMMA VerifySound ==
  ASSUME Alone, SoundInv, NEW u \in Upgraders, Up!Verify(u)
  PROVE  SoundInv'
<1>1. pc[u] = "started" /\ tmp[u] \in Sound /\ UNCHANGED <<release, tmp, daemon>>
  BY DEF Up!Verify, Up!At, Up!unit, SoundInv, Worked, Fetched
<1>2. Upgraders = {u}
  BY DEF Alone
<1>3. CASE bin = tmp[u] /\ Up!At(u, "started", "verified") /\ UNCHANGED <<bin, saved>>
  <2>1. bin # "none"
    BY <1>1, <1>3 DEF Sound
  <2> QED BY <1>1, <1>3, <2>1, QuietStep DEF Up!At, Up!Ends, Up!Steps, Fetched
<1>4. CASE Up!At(u, "started", "undone") /\ Up!Restored
  <2>1. Disk'
    BY <1>1, <1>4, RestoredSound DEF SoundInv
  <2>2. pc' = [pc EXCEPT ![u] = "undone"] /\ pc' \in [Upgraders -> Up!Ends \cup Up!Steps]
    BY <1>4 DEF Up!At, SoundInv, Up!Steps
  <2>3. Worked(u)'
    BY <1>1, <2>2 DEF SoundInv, Worked
  <2> QED BY <1>1, <1>2, <2>1, <2>2, <2>3 DEF SoundInv
<1> QED BY <1>3, <1>4 DEF Up!Verify

\* bin.old goes only while a binary lies at bin_path.
LEMMA CleanUpSound ==
  ASSUME SoundInv, NEW u \in Upgraders, Up!CleanUp(u)
  PROVE  SoundInv'
<1>1. /\ pc[u] = "verified" /\ pc' = [pc EXCEPT ![u] = "done"]
      /\ bin # "none" /\ saved' \in {"none", saved} /\ UNCHANGED <<bin, release, tmp, daemon>>
  BY DEF Up!CleanUp, Up!At, Up!unit, SoundInv, Worked
<1>2. pc' \in [Upgraders -> Up!Ends \cup Up!Steps]
  BY <1>1 DEF SoundInv, Up!Ends
<1>3. \A v \in Upgraders : Worked(v)'
  BY <1>1 DEF SoundInv, Worked, Fetched
<1> QED BY <1>1, <1>2, <1>3 DEF SoundInv, Disk

\* The watchdog.
LEMMA WatchdogSound ==
  ASSUME SoundInv, NEW u \in Upgraders, Up!Watchdog(u)
  PROVE  SoundInv'
<1>1. CASE Up!Probe(u)
  BY <1>1, StillStep DEF Up!Probe, Up!files, Up!unit, SoundInv
<1>2. CASE Up!RollBack(u)
  <2>1. UNCHANGED <<release, tmp, pc>> /\ Up!Restored
    BY <1>2 DEF Up!RollBack
  <2>2. Disk' /\ (bin # "none" => bin' # "none")
    BY <2>1, RestoredSound DEF SoundInv
  <2>3. daemon' \in Sound \cup {"none"}
    BY <1>2, <2>2 DEF Up!RollBack, Up!Started, SoundInv, Disk
  <2>4. \A v \in Upgraders : Worked(v)'
    BY <2>1, <2>2 DEF SoundInv, Worked
  <2> QED BY <2>1, <2>2, <2>3, <2>4 DEF SoundInv
<1> QED BY <1>1, <1>2 DEF Up!Watchdog

\* A command that begins, and what goes on around it.
LEMMA BeginsSound ==
  ASSUME SoundInv, NEW u \in Upgraders, NEW session \in BOOLEAN, Up!Begins(u, session)
  PROVE  SoundInv'
  BY QuietStep DEF Up!Begins, Up!At, Up!files, Up!unit, Up!Ends, Up!Steps, Fetched

LEMMA AroundSound ==
  ASSUME SoundInv, Up!Restart \/ Up!Repin \/ Up!Reload \/ Up!Schedule \/ Up!Execute
  PROVE  SoundInv'
<1>1. CASE Up!Restart
  BY <1>1, StillStep DEF Up!Restart, Up!files, Up!process, SoundInv, Disk
<1>2. CASE Up!Repin \/ Up!Reload \/ Up!Schedule
  BY <1>2, StillStep DEF Up!Repin, Up!Reload, Up!Schedule, Up!files, Up!process, Up!unit, SoundInv
<1>3. CASE Up!Execute
  <2>1. CASE \E u \in Upgraders : Up!Begins(u, TRUE)
    BY <2>1, BeginsSound
  <2>2. CASE UNCHANGED <<Up!files, Up!process, Up!unit>>
    BY <2>2, StillStep DEF Up!files, Up!process, Up!unit, SoundInv
  <2> QED BY <1>3, <2>1, <2>2 DEF Up!Execute
<1> QED BY <1>1, <1>2, <1>3

-----------------------------------------------------------------------------
\* Wherever the one upgrade command is killed, and whatever its watchdog does meanwhile, a genuine binary no older than the
\* one that ran lies at bin_path or at bin.old, and nothing else is ever run (main.cpp, Self-update: verified, atomic swap,
\* never backward).  With two commands at once it is not so.
THEOREM StartableCorrect == Alone => (HostSpec => []Startable)
<1> SUFFICES ASSUME Alone PROVE HostSpec => []Startable
  OBVIOUS
<1>1. Up!Init => SoundInv
  BY DEF Alone, Up!Init, SoundInv, Disk, Worked, Sound, Fetched, Up!Ends, Up!Steps, Up!Binaries
<1>2. SoundInv /\ [Up!Next]_Up!vars => SoundInv'
  <2> SUFFICES ASSUME SoundInv, [Up!Next]_Up!vars PROVE SoundInv'
    OBVIOUS
  <2>1. CASE \E u \in Upgraders : Up!Asked(u)
    BY <2>1, BeginsSound DEF Up!Asked
  <2>2. CASE \E u \in Upgraders : Up!Upgrader(u)
    BY <2>2, FetchSound, QuietSound, MoveOldSound, InstallSound, StartSound, VerifySound, CleanUpSound DEF Up!Upgrader
  <2>3. CASE \E u \in Upgraders : Up!Crash(u)
    BY <2>3, QuietSound
  <2>4. CASE \E u \in Upgraders : Up!Watchdog(u)
    BY <2>4, WatchdogSound
  <2>5. CASE Up!Restart \/ Up!Repin \/ Up!Reload \/ Up!Schedule \/ Up!Execute
    BY <2>5, AroundSound
  <2>6. CASE UNCHANGED Up!vars
    BY <2>6, StillStep DEF Up!vars, Up!files, Up!process, Up!unit, SoundInv
  <2> QED BY <2>1, <2>2, <2>3, <2>4, <2>5, <2>6 DEF Up!Next
<1>3. SoundInv => Startable
  BY DEF SoundInv, Disk, Sound, Startable, Up!Startable
<1> QED BY <1>1, <1>2, <1>3, HostRuns, PTL DEF Up!Spec

-----------------------------------------------------------------------------
(* Induction on numbers, for want of a schema: a set of them that has 0 and, with a number, the next has them all. *)

Below(T, k) == {j \in T : j <= k}

\* A set of numbers that is not empty has a least one: of its finite parts Below(T, k), one has no other within it.
LEMMA LeastOf ==
  ASSUME NEW T \in SUBSET Nat, T # {}
  PROVE  \E k \in T : \A j \in T : k <= j
<1> DEFINE parts == {Below(T, k) : k \in T}
<1>1. IsWellFoundedOn(StrictSubsetOrdering(T), FiniteSubsetsOf(T))
  BY FS_StrictSubsetOrderingWellFounded
<1>2. ASSUME NEW k \in T PROVE Below(T, k) \in FiniteSubsetsOf(T)
  <2>1. Below(T, k) \in SUBSET Nat /\ Below(T, k) \in SUBSET T /\ k \in Nat /\ \A s \in Below(T, k) : s <= k
    BY DEF Below
  <2>2. IsFiniteSet(Below(T, k))
    BY <2>1, FS_BoundedSetOfNaturals
  <2> QED BY <2>1, <2>2 DEF FiniteSubsetsOf
<1>3. parts \subseteq FiniteSubsetsOf(T) /\ parts # {}
  BY <1>2
<1> HIDE DEF parts
<1>4. PICK X \in parts : \A Y \in parts : ~(<<Y, X>> \in StrictSubsetOrdering(T))
  BY <1>1, <1>3, WFMin
<1>5. PICK k \in T : X = Below(T, k)
  BY DEF parts
<1>6. ASSUME NEW j \in T PROVE k <= j
  <2> SUFFICES ASSUME ~(k <= j) PROVE FALSE
    OBVIOUS
  <2>1. j <= k /\ j \in Nat /\ k \in Nat
    OBVIOUS
  <2>2. Below(T, j) \in parts
    BY DEF parts
  <2>3. ASSUME NEW i \in Below(T, j) PROVE i \in Below(T, k)
    <3>1. i \in T /\ i <= j /\ i \in Nat
      BY DEF Below
    <3>2. i <= k
      BY <3>1, <2>1
    <3> QED BY <3>1, <3>2 DEF Below
  <2>4. k \in Below(T, k) /\ k \notin Below(T, j)
    BY <2>1 DEF Below
  <2>5. Below(T, j) \in SUBSET T /\ Below(T, k) \in SUBSET T
    BY DEF Below
  <2>6. <<Below(T, j), Below(T, k)>> \in StrictSubsetOrdering(T)
    BY <2>3, <2>4, <2>5 DEF StrictSubsetOrdering
  <2> QED BY <1>4, <1>5, <2>2, <2>6
<1> QED BY <1>6

\* A set of numbers that has 0 and, with a number, the next has them all.
LEMMA Inductive ==
  ASSUME NEW T \in SUBSET Nat, 0 \in T, \A n \in T : n + 1 \in T
  PROVE  T = Nat
<1>1. SUFFICES ASSUME Nat \ T # {} PROVE FALSE
  OBVIOUS
<1>2. PICK k \in Nat \ T : \A j \in Nat \ T : k <= j
  BY <1>1, LeastOf
<1>3. k # 0 /\ k - 1 \in Nat /\ k - 1 < k
  BY <1>2
<1>4. k - 1 \in T
  BY <1>2, <1>3
<1> QED BY <1>2, <1>3, <1>4

-----------------------------------------------------------------------------
(* What FlattenSeq computes. *)

-----------------------------------------------------------------------------
(* What the recursive definitions of the codec compute. *)

Step(rule, s, x, i) ==
  CASE rule = "join" -> x \o s[i]
    [] rule = "shift" -> x \div Base
    [] rule = "number" -> (x * Base) + s[i]
    [] rule = "fields" -> Co!Get(x, s[i])
    [] rule = "elements" -> Co!Element(x, s)
    [] rule = "frames" -> Co!Drain(x)

Iterates(rule, s, a, f, n) == f = [i \in 0..n |-> IF i = 0 THEN a ELSE Step(rule, s, f[i - 1], i)]

\* What is defined by a first value and a rule for the next exists, for any number of steps.
LEMMA IterationExists ==
  ASSUME NEW rule, NEW s, NEW a, NEW n \in Nat
  PROVE  \E f : Iterates(rule, s, a, f, n)
<1> DEFINE T == {m \in Nat : \E f : Iterates(rule, s, a, f, m)}
<1>1. 0 \in T
  <2> DEFINE g == [i \in 0..0 |-> a]
  <2>1. g = [i \in 0..0 |-> IF i = 0 THEN a ELSE Step(rule, s, g[i - 1], i)]
    OBVIOUS
  <2> HIDE DEF g
  <2>2. Iterates(rule, s, a, g, 0)
    BY <2>1 DEF Iterates
  <2> QED BY <2>2
<1>2. ASSUME NEW m \in T PROVE m + 1 \in T
  <2>1. PICK f : Iterates(rule, s, a, f, m)
    OBVIOUS
  <2> DEFINE g == [i \in 0..m + 1 |-> IF i \in 0..m THEN f[i] ELSE Step(rule, s, f[i - 1], i)]
  <2>2. \A i \in 0..m : f[i] = IF i = 0 THEN a ELSE Step(rule, s, f[i - 1], i)
    BY <2>1 DEF Iterates
  <2>3. ASSUME NEW i \in 0..m + 1 PROVE g[i] = IF i = 0 THEN a ELSE Step(rule, s, g[i - 1], i)
    <3>1. i # 0 => i - 1 \in 0..m /\ i - 1 \in 0..m + 1
      OBVIOUS
    <3>2. i # 0 => g[i - 1] = f[i - 1]
      BY <3>1
    <3>3. g[i] = IF i \in 0..m THEN f[i] ELSE Step(rule, s, f[i - 1], i)
      OBVIOUS
    <3>4. 0 \in 0..m
      OBVIOUS
    <3> HIDE DEF g
    <3> QED BY <2>2, <3>1, <3>2, <3>3, <3>4
  <2>4. g = [i \in 0..m + 1 |-> g[i]]
    OBVIOUS
  <2> HIDE DEF g
  <2>5. Iterates(rule, s, a, g, m + 1)
    BY <2>3, <2>4 DEF Iterates
  <2> QED BY <2>5
<1>3. T \subseteq Nat
  OBVIOUS
<1> HIDE DEF T
<1>4. T = Nat
  BY <1>1, <1>2, <1>3, Inductive
<1> QED BY <1>4 DEF T

Shifts(v, f, n) == \A i \in 0..n : f[i] = IF i = 0 THEN v ELSE f[i - 1] \div Base

\* The bytes of a number are the remainders of its shifts.
IsShifted(v, n) == \E f : Shifts(v, f, n) /\ Co!Bytes(v, n) = [i \in 1..n |-> f[n - i] % Base]

LEMMA BytesAre ==
  ASSUME NEW v, NEW n \in Nat
  PROVE  IsShifted(v, n)
<1> DEFINE h == CHOOSE f : f = [i \in 0..n |-> IF i = 0 THEN v ELSE f[i - 1] \div Base]
<1>1. PICK f : Iterates("shift", <<>>, v, f, n)
  BY IterationExists
<1>2. f = [i \in 0..n |-> IF i = 0 THEN v ELSE f[i - 1] \div Base]
  BY <1>1 DEF Iterates, Step
<1>3. h = [i \in 0..n |-> IF i = 0 THEN v ELSE h[i - 1] \div Base]
  BY <1>2
<1>4. Co!Bytes(v, n) = [i \in 1..n |-> h[n - i] % Base]
  BY DEF Co!Bytes
<1>5. Shifts(v, h, n)
  BY <1>3 DEF Shifts
<1> HIDE DEF h
<1> QED BY <1>4, <1>5 DEF IsShifted

Counts(s, f) == \A i \in 0..Len(s) : f[i] = IF i = 0 THEN 0 ELSE (f[i - 1] * Base) + s[i]

\* The number that some bytes are is counted up byte by byte.
LEMMA NumberIs ==
  ASSUME NEW s, Len(s) \in Nat
  PROVE  \E f : Counts(s, f) /\ Co!Number(s) = f[Len(s)]
<1> DEFINE h == CHOOSE f : f = [i \in 0..Len(s) |-> IF i = 0 THEN 0 ELSE (f[i - 1] * Base) + s[i]]
<1>1. PICK f : Iterates("number", s, 0, f, Len(s))
  BY IterationExists
<1>2. f = [i \in 0..Len(s) |-> IF i = 0 THEN 0 ELSE (f[i - 1] * Base) + s[i]]
  BY <1>1 DEF Iterates, Step
<1>3. h = [i \in 0..Len(s) |-> IF i = 0 THEN 0 ELSE (h[i - 1] * Base) + s[i]]
  BY <1>2
<1>4. Co!Number(s) = h[Len(s)]
  BY DEF Co!Number
<1>5. Counts(s, h)
  BY <1>3 DEF Counts
<1> QED BY <1>4, <1>5

Reading(left, kinds, f) ==
  \A i \in 0..Len(kinds) : f[i] = IF i = 0 THEN [ok |-> TRUE, vals |-> <<>>, left |-> left] ELSE Co!Get(f[i - 1], kinds[i])

\* A head is parsed field by field,
LEMMA ParseIs ==
  ASSUME NEW left, NEW kinds, Len(kinds) \in Nat
  PROVE  \E f : Reading(left, kinds, f) /\ Co!Parse(left, kinds) = f[Len(kinds)]
<1> DEFINE a == [ok |-> TRUE, vals |-> <<>>, left |-> left]
           h == CHOOSE f : f = [i \in 0..Len(kinds) |-> IF i = 0 THEN a ELSE Co!Get(f[i - 1], kinds[i])]
<1>1. PICK f : Iterates("fields", kinds, a, f, Len(kinds))
  BY IterationExists
<1>2. f = [i \in 0..Len(kinds) |-> IF i = 0 THEN a ELSE Co!Get(f[i - 1], kinds[i])]
  BY <1>1 DEF Iterates, Step
<1>3. h = [i \in 0..Len(kinds) |-> IF i = 0 THEN a ELSE Co!Get(h[i - 1], kinds[i])]
  BY <1>2
<1>4. Co!Parse(left, kinds) = h[Len(kinds)]
  BY DEF Co!Parse
<1>5. Reading(left, kinds, h)
  BY <1>3 DEF Reading
<1> QED BY <1>4, <1>5

Listing(left, kinds, f) ==
  \A i \in 0..Len(left) : f[i] = IF i = 0 THEN [ok |-> TRUE, items |-> <<>>, left |-> left] ELSE Co!Element(f[i - 1], kinds)

\* a list element by element,
LEMMA ItemsAre ==
  ASSUME NEW left, NEW kinds, Len(left) \in Nat
  PROVE  \E f : Listing(left, kinds, f) /\ Co!Items(left, kinds) = f[Len(left)]
<1> DEFINE a == [ok |-> TRUE, items |-> <<>>, left |-> left]
           h == CHOOSE f : f = [i \in 0..Len(left) |-> IF i = 0 THEN a ELSE Co!Element(f[i - 1], kinds)]
<1>1. PICK f : Iterates("elements", kinds, a, f, Len(left))
  BY IterationExists
<1>2. f = [i \in 0..Len(left) |-> IF i = 0 THEN a ELSE Co!Element(f[i - 1], kinds)]
  BY <1>1 DEF Iterates, Step
<1>3. h = [i \in 0..Len(left) |-> IF i = 0 THEN a ELSE Co!Element(h[i - 1], kinds)]
  BY <1>2
<1>4. Co!Items(left, kinds) = h[Len(left)]
  BY DEF Co!Items
<1>5. Listing(left, kinds, h)
  BY <1>3 DEF Listing
<1> QED BY <1>4, <1>5

Draining(bytes, f) ==
  \A i \in 0..(Len(bytes) \div 6) : f[i] = IF i = 0 THEN [ok |-> TRUE, msgs |-> <<>>, left |-> bytes] ELSE Co!Drain(f[i - 1])

\* and a buffer frame by frame.
LEMMA DrainedIs ==
  ASSUME NEW bytes, Len(bytes) \in Nat
  PROVE  \E f : Draining(bytes, f) /\ Co!Drained(bytes) = f[Len(bytes) \div 6]
<1> DEFINE a == [ok |-> TRUE, msgs |-> <<>>, left |-> bytes]
           most == Len(bytes) \div 6
           h == CHOOSE f : f = [i \in 0..most |-> IF i = 0 THEN a ELSE Co!Drain(f[i - 1])]
<1>0. most \in Nat
  OBVIOUS
<1>1. PICK f : Iterates("frames", <<>>, a, f, most)
  BY <1>0, IterationExists
<1>2. f = [i \in 0..most |-> IF i = 0 THEN a ELSE Co!Drain(f[i - 1])]
  BY <1>1 DEF Iterates, Step
<1>3. h = [i \in 0..most |-> IF i = 0 THEN a ELSE Co!Drain(h[i - 1])]
  BY <1>2
<1>4. Co!Drained(bytes) = h[most]
  BY DEF Co!Drained
<1>5. Draining(bytes, h)
  BY <1>3 DEF Draining
<1> QED BY <1>4, <1>5

\* What the first i sequences of s are together.
Sums(s, f) == f[0] = <<>> /\ \A i \in 1..Len(s) : f[i] = f[i - 1] \o s[i]

\* FlattenSeq puts the sequences of s behind each other.
LEMMA FlattenIs ==
  ASSUME NEW S, NEW s \in Seq(Seq(S))
  PROVE  \E f : Sums(s, f) /\ Co!FlattenSeq(s) = f[Len(s)] /\ \A i \in 0..Len(s) : f[i] \in Seq(S)
<1> DEFINE n == Len(s)
           h == CHOOSE f : f = [i \in 1..n |-> IF i = 1 THEN s[i] ELSE f[i - 1] \o s[i]]
           f == [i \in 0..n |-> IF i = 0 THEN <<>> ELSE h[i]]
<1>0. n \in Nat /\ \A i \in 1..n : s[i] \in Seq(S)
  OBVIOUS
<1>1. PICK g : Iterates("join", s, <<>>, g, n)
  BY <1>0, IterationExists
<1>2. \A i \in 0..n : g[i] = IF i = 0 THEN <<>> ELSE g[i - 1] \o s[i]
  BY <1>1 DEF Iterates, Step
<1>3. [i \in 1..n |-> g[i]] = [i \in 1..n |-> IF i = 1 THEN s[i] ELSE [j \in 1..n |-> g[j]][i - 1] \o s[i]]
  <2> SUFFICES ASSUME NEW i \in 1..n PROVE g[i] = IF i = 1 THEN s[i] ELSE [j \in 1..n |-> g[j]][i - 1] \o s[i]
    OBVIOUS
  <2>1. CASE i = 1
    <3>1. i \in 0..n /\ 0 \in 0..n /\ i - 1 = 0 /\ i # 0
      BY <1>0, <2>1
    <3>2. g[i] = <<>> \o s[i]
      BY <1>2, <3>1
    <3>3. <<>> \o s[i] = s[i]
      BY <1>0, ConcatEmptySeq
    <3> QED BY <2>1, <3>2, <3>3
  <2>2. CASE i # 1
    <3>1. i \in 0..n /\ i - 1 \in 1..n /\ i # 0
      BY <1>0, <2>2
    <3> QED BY <1>2, <2>2, <3>1
  <2> QED BY <2>1, <2>2
<1>4. h = [i \in 1..n |-> IF i = 1 THEN s[i] ELSE h[i - 1] \o s[i]]
  BY <1>3
<1> HIDE DEF h
<1>5. \A i \in 1..n : h[i] = IF i = 1 THEN s[i] ELSE h[i - 1] \o s[i]
  BY <1>4
<1>6. f[0] = <<>> /\ \A i \in 1..n : f[i] = h[i] /\ f[i - 1] = IF i = 1 THEN <<>> ELSE h[i - 1]
  BY <1>0
<1> HIDE DEF f
<1>7. ASSUME NEW i \in 1..n PROVE f[i] = f[i - 1] \o s[i]
  <2>1. <<>> \o s[i] = s[i]
    BY <1>0, ConcatEmptySeq
  <2> QED BY <1>5, <1>6, <2>1
<1>8. Co!FlattenSeq(s) = f[n]
  <2>1. CASE n = 0
    <3>1. s = <<>>
      BY <2>1
    <3> QED BY <1>6, <2>1, <3>1 DEF Co!FlattenSeq
  <2>2. CASE n # 0
    <3>1. Co!FlattenSeq(s) = h[n]
      BY <2>2 DEF Co!FlattenSeq, h
    <3> QED BY <1>0, <1>6, <2>2, <3>1
  <2> QED BY <2>1, <2>2
<1> DEFINE T == {m \in Nat : m <= n => f[m] \in Seq(S)}
<1>9. 0 \in T
  <2>1. f[0] \in Seq(S)
    BY <1>6
  <2> QED BY <2>1
<1>10. ASSUME NEW m \in T PROVE m + 1 \in T
  <2> SUFFICES ASSUME m + 1 <= n PROVE f[m + 1] \in Seq(S)
    OBVIOUS
  <2>1. m <= n /\ m + 1 \in 1..n /\ (m + 1) - 1 = m
    BY <1>0
  <2>2. f[m] \in Seq(S) /\ f[m + 1] = f[m] \o s[m + 1] /\ s[m + 1] \in Seq(S)
    BY <1>0, <1>7, <2>1
  <2> QED BY <2>2, ConcatProperties
<1>11. T \subseteq Nat
  OBVIOUS
<1>12. T = Nat
  <2> HIDE DEF T
  <2> QED BY <1>9, <1>10, <1>11, Inductive
<1>13. \A i \in 0..n : f[i] \in Seq(S)
  BY <1>0, <1>12
<1>14. Sums(s, f)
  BY <1>6, <1>7 DEF Sums
<1> QED BY <1>8, <1>13, <1>14

Agree(s, t, n) ==
  Len(s) \in Nat /\ Len(t) \in Nat /\ n <= Len(s) /\ n <= Len(t) /\ \A i \in 1..n : s[i] = t[i]

\* Sequences that agree on a beginning have the same sums there.
LEMMA SumsAgree ==
  ASSUME NEW s, NEW t, NEW f, NEW g, NEW n \in Nat, Sums(s, f) /\ Sums(t, g) /\ Agree(s, t, n)
  PROVE  f[n] = g[n]
<1>0. /\ Sums(s, f) /\ Sums(t, g) /\ Len(s) \in Nat /\ Len(t) \in Nat
      /\ n <= Len(s) /\ n <= Len(t) /\ \A i \in 1..n : s[i] = t[i]
  BY DEF Agree
<1> DEFINE T == {m \in Nat : m <= n => f[m] = g[m]}
<1>1. 0 \in T
  BY <1>0 DEF Sums
<1>2. ASSUME NEW m \in T PROVE m + 1 \in T
  <2> SUFFICES ASSUME m + 1 <= n PROVE f[m + 1] = g[m + 1]
    OBVIOUS
  <2>1. m <= n /\ m + 1 \in 1..n /\ m + 1 \in 1..Len(s) /\ m + 1 \in 1..Len(t) /\ (m + 1) - 1 = m
    BY <1>0
  <2>2. f[m] = g[m]
    BY <2>1
  <2> QED BY <1>0, <2>1, <2>2 DEF Sums
<1>3. T \subseteq Nat
  OBVIOUS
<1>4. T = Nat
  <2> HIDE DEF T
  <2> QED BY <1>1, <1>2, <1>3, Inductive
<1> QED BY <1>4

\* So it makes a sequence,
LEMMA FlattenType ==
  ASSUME NEW S, NEW s \in Seq(Seq(S))
  PROVE  Co!FlattenSeq(s) \in Seq(S)
<1>1. PICK f : Sums(s, f) /\ Co!FlattenSeq(s) = f[Len(s)] /\ \A i \in 0..Len(s) : f[i] \in Seq(S)
  BY FlattenIs
<1> QED BY <1>1

LEMMA FlattenEmpty == Co!FlattenSeq(<<>>) = <<>>
BY DEF Co!FlattenSeq

\* which another one makes longer,
LEMMA FlattenAppend ==
  ASSUME NEW S, NEW s \in Seq(Seq(S)), NEW x \in Seq(S)
  PROVE  Co!FlattenSeq(Append(s, x)) = Co!FlattenSeq(s) \o x
<1> DEFINE t == Append(s, x)
           n == Len(s)
<1>0. t \in Seq(Seq(S)) /\ Len(t) = n + 1 /\ t[n + 1] = x /\ n \in Nat /\ \A i \in 1..n : t[i] = s[i]
  BY AppendProperties
<1>1. PICK f : Sums(s, f) /\ Co!FlattenSeq(s) = f[Len(s)]
  BY FlattenIs
<1> HIDE DEF t
<1>2. PICK g : Sums(t, g) /\ Co!FlattenSeq(t) = g[Len(t)]
  BY <1>0, FlattenIs
<1>3. f[n] = g[n]
  <2>1. Agree(s, t, n)
    <3> HIDE DEF n
    <3>1. n \in Nat /\ Len(t) = n + 1 /\ Len(s) = n
      BY <1>0 DEF n
    <3>2. \A i \in 1..n : s[i] = t[i]
      BY <1>0
    <3> QED BY <3>1, <3>2 DEF Agree
  <2>2. Sums(s, f) /\ Sums(t, g) /\ n \in Nat
    BY <1>0, <1>1, <1>2
  <2> HIDE DEF n
  <2> QED BY <2>1, <2>2, SumsAgree
<1>4. n + 1 \in 1..Len(t) /\ (n + 1) - 1 = n
  BY <1>0
<1>5. g[n + 1] = g[n] \o x
  BY <1>0, <1>2, <1>4 DEF Sums
<1> QED BY <1>0, <1>1, <1>2, <1>3, <1>5 DEF t

\* Three sequences may be joined in either order.
Joins(a, b, c) == (a \o b) \o c = a \o (b \o c)

LEMMA Associative ==
  ASSUME NEW S, NEW s \in Seq(S), NEW t \in Seq(S), NEW u \in Seq(S)
  PROVE  Joins(s, t, u)
<1>1. (s \o t) \o u = s \o (t \o u)
  BY ConcatAssociative
<1> QED BY ONLY <1>1 DEF Joins

LEMMA JoinBytes ==
  ASSUME NEW a \in Seq(Int), NEW b \in Seq(Int), NEW c \in Seq(Int)
  PROVE  Joins(a, b, c)
BY Associative

LEMMA JoinRecords ==
  ASSUME NEW a \in Seq(Seq(Int)), NEW b \in Seq(Seq(Int)), NEW c \in Seq(Seq(Int))
  PROVE  Joins(a, b, c)
BY Associative

\* Sequences, by their length and elements.
LEMMA SameSeq ==
  ASSUME NEW S, NEW s \in Seq(S), NEW t \in Seq(S), Len(s) = Len(t), \A i \in 1..Len(t) : s[i] = t[i]
  PROVE  s = t
OBVIOUS

LEMMA JoinType ==
  ASSUME NEW S, NEW a \in Seq(S), NEW b \in Seq(S)
  PROVE  /\ (a \o b) \in Seq(S) /\ Len(a \o b) = Len(a) + Len(b)
         /\ \A i \in 1..Len(a) : (a \o b)[i] = a[i]
         /\ \A i \in 1..Len(b) : (a \o b)[Len(a) + i] = b[i]
OBVIOUS

LEMMA PartOf ==
  ASSUME NEW S, NEW x \in Seq(S), NEW k \in Nat, NEW l \in Nat, k + l <= Len(x)
  PROVE  /\ SubSeq(x, k + 1, k + l) \in Seq(S) /\ Len(SubSeq(x, k + 1, k + l)) = l
         /\ \A i \in 1..l : SubSeq(x, k + 1, k + l)[i] = x[k + i]
OBVIOUS

\* What starts with bytes starts with the first of them.
LEMMA SameFront ==
  ASSUME NEW x \in Seq(Int), Len(x) >= 1, NEW u \in Seq(Int), NEW a, a = x \o u
  PROVE  a \in Seq(Int) /\ Len(a) >= 1 /\ a[1] = x[1]
<1>1. PICK k, l : k = Len(x) /\ l = Len(u)
  OBVIOUS
<1>2. k \in Nat /\ l \in Nat /\ k >= 1
  BY <1>1
<1>3. a \in Seq(Int) /\ Len(a) = k + l /\ \A i \in 1..k : a[i] = x[i]
  BY <1>1, JoinType
<1>4. 1 \in 1..k /\ k + l >= 1
  BY ONLY <1>2
<1> QED BY ONLY <1>3, <1>4

LEMMA OneLonger ==
  ASSUME NEW S, NEW s \in Seq(S), NEW x \in S
  PROVE  /\ Append(s, x) \in Seq(S) /\ Len(Append(s, x)) = Len(s) + 1 /\ Append(s, x)[Len(s) + 1] = x
         /\ \A i \in 1..Len(s) : Append(s, x)[i] = s[i]
OBVIOUS

\* and two lists of them give what each gives.
LEMMA FlattenConcat ==
  ASSUME NEW S, NEW s \in Seq(Seq(S)), NEW t \in Seq(Seq(S))
  PROVE  Co!FlattenSeq(s \o t) = Co!FlattenSeq(s) \o Co!FlattenSeq(t)
<1> DEFINE T == {n \in Nat : \A u \in Seq(Seq(S)) : Len(u) = n => Co!FlattenSeq(s \o u) = Co!FlattenSeq(s) \o Co!FlattenSeq(u)}
<1>1. 0 \in T
  <2> SUFFICES ASSUME NEW u \in Seq(Seq(S)), Len(u) = 0 PROVE Co!FlattenSeq(s \o u) = Co!FlattenSeq(s) \o Co!FlattenSeq(u)
    OBVIOUS
  <2>1. u = <<>>
    BY EmptySeq
  <2>2. s \o u = s
    BY <2>1, ConcatEmptySeq
  <2>3. Co!FlattenSeq(u) = <<>>
    BY <2>1, FlattenEmpty
  <2>4. Co!FlattenSeq(s) \in Seq(S)
    BY FlattenType
  <2>5. Co!FlattenSeq(s) \o <<>> = Co!FlattenSeq(s)
    BY <2>4, ConcatEmptySeq
  <2> QED BY <2>2, <2>3, <2>5
<1>2. ASSUME NEW n \in T PROVE n + 1 \in T
  <2> SUFFICES ASSUME NEW u \in Seq(Seq(S)), Len(u) = n + 1 PROVE Co!FlattenSeq(s \o u) = Co!FlattenSeq(s) \o Co!FlattenSeq(u)
    OBVIOUS
  <2> DEFINE v == SubSeq(u, 1, n)
             x == u[n + 1]
  <2>1. v \in Seq(Seq(S)) /\ Len(v) = n /\ x \in Seq(S) /\ u = Append(v, x)
    OBVIOUS
  <2> HIDE DEF v, x
  <2>2. Co!FlattenSeq(s \o v) = Co!FlattenSeq(s) \o Co!FlattenSeq(v)
    BY <2>1
  <2>3. s \o u = Append(s \o v, x) /\ s \o v \in Seq(Seq(S))
    BY <2>1
  <2>4. Co!FlattenSeq(s \o u) = Co!FlattenSeq(s \o v) \o x
    BY <2>1, <2>3, FlattenAppend
  <2>5. Co!FlattenSeq(u) = Co!FlattenSeq(v) \o x
    BY <2>1, FlattenAppend
  <2>6. Co!FlattenSeq(s) \in Seq(S) /\ Co!FlattenSeq(v) \in Seq(S)
    BY <2>1, FlattenType
  <2>7. (Co!FlattenSeq(s) \o Co!FlattenSeq(v)) \o x = Co!FlattenSeq(s) \o (Co!FlattenSeq(v) \o x)
    <3> DEFINE a == Co!FlattenSeq(s)
               b == Co!FlattenSeq(v)
    <3>1. a \in Seq(S) /\ b \in Seq(S) /\ x \in Seq(S)
      BY <2>1, <2>6
    <3> HIDE DEF a, b, T
    <3>2. Joins(a, b, x)
      BY ONLY <3>1, Associative
    <3>3. (a \o b) \o x = a \o (b \o x)
      BY ONLY <3>2 DEF Joins
    <3> QED BY ONLY <3>3 DEF a, b
  <2> QED BY <2>2, <2>4, <2>5, <2>7
<1>3. T \subseteq Nat
  OBVIOUS
<1>4. T = Nat
  <2> HIDE DEF T
  <2> QED BY <1>1, <1>2, <1>3, Inductive
<1>5. Len(t) \in Nat
  OBVIOUS
<1> QED BY <1>4, <1>5

LEMMA FlattenOne ==
  ASSUME NEW S, NEW x \in Seq(S)
  PROVE  Co!FlattenSeq(<<x>>) = x
<1>1. <<>> \in Seq(Seq(S)) /\ Append(<<>>, x) = <<x>>
  OBVIOUS
<1>2. Co!FlattenSeq(Append(<<>>, x)) = Co!FlattenSeq(<<>>) \o x
  BY <1>1, FlattenAppend
<1>3. <<>> \o x = x
  BY ConcatEmptySeq
<1> QED BY <1>1, <1>2, <1>3, FlattenEmpty

LEMMA FlattenTail ==
  ASSUME NEW S, NEW s \in Seq(Seq(S)), s # <<>>
  PROVE  Co!FlattenSeq(s) = Head(s) \o Co!FlattenSeq(Tail(s))
<1>1. <<Head(s)>> \in Seq(Seq(S)) /\ Tail(s) \in Seq(Seq(S)) /\ s = <<Head(s)>> \o Tail(s) /\ Head(s) \in Seq(S)
  OBVIOUS
<1>2. Co!FlattenSeq(<<Head(s)>> \o Tail(s)) = Co!FlattenSeq(<<Head(s)>>) \o Co!FlattenSeq(Tail(s))
  BY <1>1, FlattenConcat
<1> QED BY <1>1, <1>2, FlattenOne

-----------------------------------------------------------------------------
(* Numbers and their bytes. *)

LEMMA Times ==
  ASSUME NEW c \in Nat, NEW x \in Int, NEW y \in Int, x <= y
  PROVE  c * x <= c * y
BY SMT

LEMMA DivBelow ==
  ASSUME NEW v \in Nat, NEW m \in Int, v < Base * m
  PROVE  v \div Base \in Nat /\ v \div Base < m
<1>1. Base \in Nat \ {0}
  BY CodecAssumption
<1> DEFINE q == v \div Base
           r == v % Base
<1>2. q \in Int /\ r \in 0..Base - 1 /\ v = Base * q + r
  BY <1>1, DivMod
<1> HIDE DEF q, r
<1>3. q < m
  <2> SUFFICES ASSUME m <= q PROVE FALSE
    BY <1>2
  <2>1. Base * m <= Base * q
    BY <1>1, <1>2, Times
  <2>2. Base * m \in Int /\ Base * q \in Int
    BY <1>1, <1>2
  <2> QED BY <1>2, <2>1, <2>2
<1>4. q >= 0
  <2> SUFFICES ASSUME q <= -1 PROVE FALSE
    BY <1>2
  <2>1. Base * q <= Base * (-1)
    BY <1>1, <1>2, Times
  <2>2. Base * (-1) = -Base /\ Base * q \in Int
    BY <1>1, <1>2
  <2> QED BY <1>1, <1>2, <2>1, <2>2
<1> QED BY <1>2, <1>3, <1>4 DEF q

\* The values that n bytes can hold.
Fits(v, n) ==
  \/ n = 1 /\ v < Base
  \/ n = 2 /\ v < Base * Base
  \/ n = 4 /\ v < Base * (Base * (Base * Base))
  \/ n = 8 /\ v \in {0, 1}

\* n bytes suffice for a number that fits in them: nothing is left after n shifts,
LEMMA ShiftsOut ==
  ASSUME NEW v \in Nat, NEW n \in {1, 2, 4, 8}, Fits(v, n), NEW f, Shifts(v, f, n)
  PROVE  f[n] = 0 /\ \A i \in 0..n : f[i] \in Nat
<1>1. Base \in Nat /\ Base >= 2
  BY CodecAssumption
<1>2. ASSUME NEW i \in 0..n - 1 PROVE f[i + 1] = f[i] \div Base
  <2>1. i + 1 \in 0..n /\ i + 1 # 0 /\ (i + 1) - 1 = i
    BY <1>1
  <2> QED BY <2>1 DEF Shifts
<1>3. f[0] = v
  BY DEF Shifts
<1>4. \A x \in {0, 1} : x \div Base = 0
  <2>1. 0 < Base * 1 /\ 1 < Base * 1
    BY <1>1
  <2> QED BY <2>1, DivBelow
<1>5. CASE n = 1
  <2>1. f[1] = v \div Base
    BY <1>2, <1>3, <1>5
  <2>2. v < Base * 1
    BY <1>1, <1>5 DEF Fits
  <2>3. v \div Base \in Nat /\ v \div Base < 1
    BY <2>2, DivBelow
  <2>4. f[1] = 0
    BY <2>1, <2>3
  <2>5. \A i \in 0..1 : i = 0 \/ i = 1
    OBVIOUS
  <2> QED BY <1>3, <1>5, <2>4, <2>5
<1>6. CASE n = 2
  <2>1. f[1] = v \div Base /\ f[2] = f[1] \div Base
    BY <1>2, <1>3, <1>6
  <2>2. v < Base * Base
    BY <1>1, <1>6 DEF Fits
  <2>3. f[1] \in Nat /\ f[1] < Base
    BY <1>1, <2>1, <2>2, DivBelow
  <2>4. f[1] < Base * 1
    BY <1>1, <2>3
  <2>5. f[2] \in Nat /\ f[2] < 1
    BY <2>1, <2>3, <2>4, DivBelow
  <2>6. f[2] = 0
    BY <2>5
  <2>7. \A i \in 0..2 : i = 0 \/ i = 1 \/ i = 2
    OBVIOUS
  <2> QED BY <1>3, <1>6, <2>3, <2>6, <2>7
<1>7. CASE n = 4
  <2>1. f[1] = v \div Base /\ f[2] = f[1] \div Base /\ f[3] = f[2] \div Base /\ f[4] = f[3] \div Base
    BY <1>2, <1>3, <1>7
  <2>2. v < Base * (Base * (Base * Base)) /\ Base * Base \in Int /\ Base * (Base * Base) \in Int
    BY <1>1, <1>7 DEF Fits
  <2>3. f[1] \in Nat /\ f[1] < Base * (Base * Base)
    BY <1>1, <2>1, <2>2, DivBelow
  <2>4. f[2] \in Nat /\ f[2] < Base * Base
    BY <1>1, <2>1, <2>2, <2>3, DivBelow
  <2>5. f[3] \in Nat /\ f[3] < Base
    BY <1>1, <2>1, <2>4, DivBelow
  <2>6. f[3] < Base * 1
    BY <1>1, <2>5
  <2>7. f[4] \in Nat /\ f[4] < 1
    BY <2>1, <2>5, <2>6, DivBelow
  <2>8. f[4] = 0
    BY <2>7
  <2>9. \A i \in 0..4 : i = 0 \/ i = 1 \/ i = 2 \/ i = 3 \/ i = 4
    OBVIOUS
  <2> QED BY <1>3, <1>7, <2>3, <2>4, <2>5, <2>8, <2>9
<1>8. CASE n = 8
  <2> DEFINE T == {m \in Nat : m <= 8 /\ m # 0 => f[m] = 0}
  <2>1. 0 \in T
    OBVIOUS
  <2>2. ASSUME NEW m \in T PROVE m + 1 \in T
    <3> SUFFICES ASSUME m + 1 <= 8 PROVE f[m + 1] = 0
      OBVIOUS
    <3>1. m \in 0..n - 1 /\ f[m + 1] = f[m] \div Base
      BY <1>2, <1>8
    <3>2. f[m] \in {0, 1}
      BY <1>3, <1>8 DEF Fits
    <3> QED BY <1>4, <3>1, <3>2
  <2>3. T \subseteq Nat
    OBVIOUS
  <2>4. T = Nat
    <3> HIDE DEF T
    <3> QED BY <2>1, <2>2, <2>3, Inductive
  <2>5. \A m \in 1..8 : f[m] = 0
    BY <2>4
  <2>6. \A i \in 0..8 : i = 0 \/ i \in 1..8
    OBVIOUS
  <2> QED BY <1>3, <1>8, <2>5, <2>6
<1> QED BY <1>5, <1>6, <1>7, <1>8

\* and Number gives back what Bytes made.
LEMMA NumberBytes ==
  ASSUME NEW v \in Nat, NEW n \in {1, 2, 4, 8}, Fits(v, n)
  PROVE  Co!Bytes(v, n) \in Seq(Int) /\ Len(Co!Bytes(v, n)) = n /\ Co!Number(Co!Bytes(v, n)) = v
<1>0. n \in Nat /\ Base \in Nat \ {0}
  BY CodecAssumption
<1>1. PICK f : Shifts(v, f, n) /\ Co!Bytes(v, n) = [i \in 1..n |-> f[n - i] % Base]
  <2>1. IsShifted(v, n)
    BY ONLY <1>0, BytesAre
  <2> QED BY ONLY <2>1 DEF IsShifted
<1>2. f[n] = 0 /\ \A i \in 0..n : f[i] \in Nat
  BY <1>1, ShiftsOut
<1> DEFINE b == Co!Bytes(v, n)
<1>3. ASSUME NEW i \in 1..n PROVE f[n - i] % Base \in 0..Base - 1 /\ f[n - i] = Base * (f[n - i] \div Base) + (f[n - i] % Base) /\ f[n - (i - 1)] = f[n - i] \div Base
  <2>1. n - i \in 0..n /\ n - (i - 1) \in 0..n /\ n - (i - 1) # 0 /\ (n - (i - 1)) - 1 = n - i
    BY <1>0
  <2>2. f[n - i] \in Int
    BY <1>2, <2>1
  <2> QED BY <1>0, <1>1, <2>1, <2>2, DivMod DEF Shifts
<1>4. b = [i \in 1..n |-> f[n - i] % Base]
  BY <1>1
<1> HIDE DEF b
<1>5. b \in Seq(Int) /\ Len(b) = n /\ \A i \in 1..n : b[i] = f[n - i] % Base
  <2>1. \A i \in 1..n : f[n - i] % Base \in Int
    BY <1>3
  <2>2. b \in [1..n -> Int]
    BY <1>4, <2>1
  <2> QED BY <1>0, <1>4, <2>2
<1>6. PICK g : Counts(b, g) /\ Co!Number(b) = g[Len(b)]
  BY <1>0, <1>5, NumberIs
<1> DEFINE T == {m \in Nat : m <= n => g[m] = f[n - m]}
<1>7. 0 \in T
  BY <1>0, <1>2, <1>5, <1>6 DEF Counts
<1>8. ASSUME NEW m \in T PROVE m + 1 \in T
  <2> SUFFICES ASSUME m + 1 <= n PROVE g[m + 1] = f[n - (m + 1)]
    OBVIOUS
  <2> DEFINE k == m + 1
             q == f[n - k] \div Base
             r == f[n - k] % Base
  <2>1. k \in 1..n /\ k \in 0..Len(b) /\ k # 0 /\ k - 1 = m /\ m <= n
    BY <1>0, <1>5
  <2>2. g[m] = f[n - m]
    BY <2>1
  <2>3. g[k] = (g[m] * Base) + b[k]
    BY <1>6, <2>1 DEF Counts
  <2>4. g[m] = q /\ b[k] = r /\ f[n - k] = Base * q + r
    BY <1>3, <1>5, <2>1, <2>2
  <2>5. q \in Int /\ r \in Int
    <3>1. n - k \in 0..n
      BY <1>0, <2>1
    <3>2. f[n - k] \in Int
      BY <1>2, <3>1
    <3> DEFINE x == f[n - k]
    <3> HIDE DEF x
    <3>3. x \in Int
      BY <3>2 DEF x
    <3>4. x \div Base \in Int /\ x % Base \in 0..Base - 1
      BY <1>0, <3>3, DivMod
    <3>5. x \div Base \in Int /\ x % Base \in Int
      BY <1>0, <3>4
    <3> QED BY <3>5 DEF x
  <2> HIDE DEF q, r, k
  <2>6. q * Base = Base * q /\ Base * q \in Int
    BY <1>0, <2>5
  <2> QED BY <2>3, <2>4, <2>5, <2>6 DEF k
<1>9. T \subseteq Nat
  OBVIOUS
<1>10. T = Nat
  <2> HIDE DEF T
  <2> QED BY <1>7, <1>8, <1>9, Inductive
<1>11. g[n] = f[n - n] /\ n - n = 0
  BY <1>0, <1>10
<1>12. g[n] = v
  BY <1>1, <1>0, <1>11 DEF Shifts
<1> QED BY <1>5, <1>6, <1>12 DEF b

-----------------------------------------------------------------------------
(* One field. *)

\* A Decoder that has not thrown.
Reader(vals, left) == [ok |-> TRUE, vals |-> vals, left |-> left]

\* What a field of a kind may hold.
Valid(kind, v) ==
  CASE kind \in {"u8", "u16", "u32", "u64", "u8_if_set"} -> v \in {0, 1}
    [] kind = "flag" -> v \in BOOLEAN
    [] kind = "raw8" -> v \in Seq(Int) /\ Len(v) = 8
    [] kind = "id" -> v \in Seq(Int) /\ Len(v) = IdLen
    [] kind = "line" -> v \in Seq(Int) /\ \A i \in 1..Len(v) : v[i] # Newline
    [] kind \in {"str8", "str16", "str16_if_any", "blob", "rest"} -> v \in Seq(Int)
    [] kind = "placing" -> v \in [dest : Seq(Int), mtime : {0, 1}, direct : Int] /\ Len(v.dest) <= 1

Vals == Int \cup BOOLEAN \cup Seq(Int) \cup [dest : Seq(Int), mtime : {0, 1}, direct : Int]

\* The kind of field decode reads for one that serialize_msg writes.
Same == {"u8", "u16", "u32", "u64", "flag", "raw8", "id", "line", "str8", "str16", "blob", "rest"}
ReadAs(w) ==
  (IF w \in Same THEN {w} ELSE {})
    \cup (CASE w = "u32" -> {"opt_u32"}
            [] w = "flag" -> {"opt_flag"}
            [] w = "raw8" -> {"opt_raw8"}
            [] w = "str8" -> {"opt_str8"}
            [] w \in {"str16", "str16_if_any"} -> {"opt_str16"}
            [] w = "u8_if_set" -> {"opt_u8"}
            [] w = "placing" -> {"opt_placing"}
            [] OTHER -> {})
Kinds == Same \cup {"str16_if_any", "u8_if_set", "placing"}

\* A field that only the end of the payload bounds.
Ends(w, v) == w \in {"rest", "u8_if_set", "placing"} \/ (w = "str16_if_any" /\ v = <<>>)

\* What encode checks of a field.
Fine(w, v) == Co!Put(w, v) # Co!Refused /\ (w = "blob" => Fits(Len(v), 4))

\* The reader takes exactly what was put.
LEMMA TakeExact ==
  ASSUME NEW vals, NEW x \in Seq(Int), NEW t \in Seq(Int), NEW value
  PROVE  Co!Take(Reader(vals, x \o t), Len(x), value) = Reader(Append(vals, value), t)
<1> DEFINE y == x \o t
           n == Len(x)
<1>1. ~(Len(y) < n) /\ SubSeq(y, n + 1, Len(y)) = t
  OBVIOUS
<1> HIDE DEF y, n
<1>2. Co!Take(Reader(vals, y), n, value) = Reader(Append(vals, value), t)
  BY <1>1 DEF Co!Take, Co!Had, Reader
<1> QED BY <1>2 DEF y, n

LEMMA FirstExact ==
  ASSUME NEW vals, NEW x \in Seq(Int), NEW t \in Seq(Int)
  PROVE  Co!First(Reader(vals, x \o t), Len(x)) = x
BY DEF Co!First, Reader

LEMMA RawExact ==
  ASSUME NEW vals, NEW x \in Seq(Int), NEW t \in Seq(Int)
  PROVE  Co!Raw(Reader(vals, x \o t), Len(x)) = Reader(Append(vals, x), t)
BY TakeExact, FirstExact DEF Co!Raw

LEMMA UintExact ==
  ASSUME NEW vals, NEW v \in Nat, NEW n \in {1, 2, 4, 8}, Fits(v, n), NEW t \in Seq(Int)
  PROVE  Co!Uint(Reader(vals, Co!Bytes(v, n) \o t), n) = Reader(Append(vals, v), t)
<1> DEFINE x == Co!Bytes(v, n)
<1>1. x \in Seq(Int) /\ Len(x) = n /\ Co!Number(x) = v
  BY NumberBytes
<1> HIDE DEF x
<1>2. Co!Take(Reader(vals, x \o t), n, v) = Reader(Append(vals, v), t)
  BY <1>1, TakeExact
<1>3. Co!First(Reader(vals, x \o t), n) = x
  BY <1>1, FirstExact
<1>4. Co!Uint(Reader(vals, x \o t), n) = Reader(Append(vals, v), t)
  BY <1>1, <1>2, <1>3 DEF Co!Uint
<1> QED BY <1>4 DEF x

\* A prefix says how many bytes belong to the field, and the reader takes those.
LEMMA CountedExact ==
  ASSUME NEW vals, NEW n \in {1, 2, 4}, NEW v \in Seq(Int), Fits(Len(v), n), NEW t \in Seq(Int)
  PROVE  /\ Co!Bytes(Len(v), n) \o v \in Seq(Int)
         /\ Co!Counted(Reader(vals, (Co!Bytes(Len(v), n) \o v) \o t), n) = Reader(Append(vals, v), t)
<1> DEFINE p == Co!Bytes(Len(v), n)
           x == p \o v
           d == Reader(vals, x \o t)
<1>0. Len(v) \in Nat /\ n \in {1, 2, 4, 8} /\ n \in Nat
  OBVIOUS
<1>1. p \in Seq(Int) /\ Len(p) = n /\ Co!Number(p) = Len(v) /\ Len(v) \in Nat /\ n \in Nat
  BY <1>0, NumberBytes
<1> HIDE DEF p
<1>2. x \in Seq(Int) /\ Len(x) = n + Len(v) /\ x \o t = p \o (v \o t) /\ v \o t \in Seq(Int)
  <2>0. p \in Seq(Int) /\ v \in Seq(Int) /\ t \in Seq(Int) /\ Len(p) = n
    BY <1>1
  <2>1. (p \o v) \in Seq(Int) /\ Len(p \o v) = Len(p) + Len(v)
    BY ONLY <2>0, JoinType
  <2>2. (v \o t) \in Seq(Int)
    BY ONLY <2>0, JoinType
  <2>3. Joins(p, v, t)
    BY ONLY <2>0, JoinBytes
  <2>4. (p \o v) \o t = p \o (v \o t)
    BY ONLY <2>3 DEF Joins
  <2> QED BY ONLY <2>0, <2>1, <2>2, <2>4
<1>3. Co!First(d, n) = p
  <2>1. Co!First(Reader(vals, p \o (v \o t)), Len(p)) = p
    BY <1>1, <1>2, FirstExact
  <2> QED BY <1>1, <1>2, <2>1
<1>4. Len(d.left) >= n /\ SubSeq(d.left, n + 1, n + Len(v)) = v
  <2>1. d.left = p \o (v \o t)
    BY <1>2 DEF Reader
  <2>2. Len(p \o (v \o t)) >= n
    BY <1>1, <1>2
  <2>3. SubSeq(p \o (v \o t), n + 1, n + Len(v)) = v
    BY <1>1, <1>2
  <2> QED BY <2>1, <2>2, <2>3
<1>5. Co!Take(Reader(vals, x \o t), Len(x), v) = Reader(Append(vals, v), t)
  <2>1. x \in Seq(Int) /\ t \in Seq(Int)
    BY <1>2
  <2> HIDE DEF x, d
  <2> QED BY ONLY <2>1, TakeExact
<1>6. ~(Len(d.left) < n)
  <2>1. d.left = x \o t
    BY DEF Reader
  <2>2. Len(x \o t) >= n /\ Len(x \o t) \in Nat
    BY <1>1, <1>2
  <2> QED BY <1>1, <2>1, <2>2
<1>7. Co!Counted(d, n) = Co!Take(d, n + Len(v), v)
  <2> HIDE DEF d, x
  <2> QED BY <1>1, <1>3, <1>4, <1>6 DEF Co!Counted
<1> QED BY <1>2, <1>5, <1>7 DEF p

\* A prefix that holds the length.
LEMMA PrefixedFits ==
  ASSUME NEW v \in Seq(Int), NEW n \in {1, 2}, Co!Prefixed(v, n) # Co!Refused
  PROVE  Fits(Len(v), n) /\ Co!Prefixed(v, n) = Co!Bytes(Len(v), n) \o v
<1>1. Base \in Nat /\ Len(v) \in Nat /\ Base * Base \in Nat
  BY CodecAssumption
<1>2. CASE n = 1
  <2>1. Len(v) <= Base - 1 /\ Co!Prefixed(v, n) = Co!Bytes(Len(v), n) \o v
    BY <1>2 DEF Co!Prefixed
  <2>2. Len(v) < Base
    BY <1>1, <2>1
  <2> QED BY <1>2, <2>1, <2>2 DEF Fits
<1>3. CASE n = 2
  <2>1. Len(v) <= Co!Cap16 /\ Co!Prefixed(v, n) = Co!Bytes(Len(v), n) \o v
    BY <1>3 DEF Co!Prefixed
  <2>2. Len(v) < Base * Base
    BY <1>1, <2>1 DEF Co!Cap16
  <2> QED BY <1>3, <2>1, <2>2 DEF Fits
<1> QED BY <1>2, <1>3

\* Prefixed refuses a length its prefix cannot hold, and is read back otherwise.
LEMMA PrefixedExact ==
  ASSUME NEW vals, NEW n \in {1, 2}, NEW v \in Seq(Int), Co!Prefixed(v, n) # Co!Refused, NEW t \in Seq(Int)
  PROVE  /\ Co!Prefixed(v, n) \in Seq(Int) /\ Len(Co!Prefixed(v, n)) >= n
         /\ Co!Counted(Reader(vals, Co!Prefixed(v, n) \o t), n) = Reader(Append(vals, v), t)
<1>1. Fits(Len(v), n) /\ Co!Prefixed(v, n) = Co!Bytes(Len(v), n) \o v
  BY PrefixedFits
<1>2. Co!Bytes(Len(v), n) \in Seq(Int) /\ Len(Co!Bytes(Len(v), n)) = n
  <2>1. Len(v) \in Nat /\ n \in {1, 2, 4, 8}
    OBVIOUS
  <2> QED BY <1>1, <2>1, NumberBytes
<1>3. /\ Co!Bytes(Len(v), n) \o v \in Seq(Int)
      /\ Co!Counted(Reader(vals, (Co!Bytes(Len(v), n) \o v) \o t), n) = Reader(Append(vals, v), t)
  BY <1>1, CountedExact
<1>4. Len(Co!Bytes(Len(v), n) \o v) >= n
  <2> DEFINE b == Co!Bytes(Len(v), n)
  <2> HIDE DEF b
  <2>1. b \in Seq(Int) /\ Len(b) = n
    BY <1>2 DEF b
  <2>2. Len(b \o v) >= n
    BY <2>1
  <2> QED BY <2>2 DEF b
<1> QED BY <1>1, <1>3, <1>4

\* A field of a kind that is always read,
LEMMA GetAlways ==
  ASSUME NEW vals, NEW s
  PROVE  LET d == Reader(vals, s) IN
         /\ Co!Get(d, "u8") = Co!Uint(d, 1)
         /\ Co!Get(d, "u16") = Co!Uint(d, 2)
         /\ Co!Get(d, "u32") = Co!Uint(d, 4)
         /\ Co!Get(d, "u64") = Co!Uint(d, 8)
         /\ Co!Get(d, "flag") = Co!Take(d, 1, s[1] # 0)
         /\ Co!Get(d, "raw8") = Co!Raw(d, 8)
         /\ Co!Get(d, "id") = Co!Raw(d, IdLen)
         /\ Co!Get(d, "rest") = Co!Raw(d, Len(s))
         /\ Co!Get(d, "line") = Co!Line(d)
         /\ Co!Get(d, "str8") = Co!Counted(d, 1)
         /\ Co!Get(d, "str16") = Co!Counted(d, 2)
         /\ Co!Get(d, "blob") = Co!Counted(d, 4)
<1> DEFINE d == Reader(vals, s)
<1>1. d.ok = TRUE /\ d.left = s
  BY DEF Reader
<1> HIDE DEF d
<1>2. DOMAIN Co!Needs = {"opt_u8", "opt_flag", "opt_u32", "opt_raw8", "opt_str8", "opt_str16", "opt_placing"}
  BY DEF Co!Needs
<1>3. Co!Get(d, "u8") = Co!Uint(d, 1)
  BY <1>1, <1>2 DEF Co!Get
<1>4. Co!Get(d, "u16") = Co!Uint(d, 2)
  BY <1>1, <1>2 DEF Co!Get
<1>5. Co!Get(d, "u32") = Co!Uint(d, 4)
  BY <1>1, <1>2 DEF Co!Get
<1>6. Co!Get(d, "u64") = Co!Uint(d, 8)
  BY <1>1, <1>2 DEF Co!Get
<1>7. Co!Get(d, "flag") = Co!Take(d, 1, s[1] # 0)
  BY <1>1, <1>2 DEF Co!Get
<1>8. Co!Get(d, "raw8") = Co!Raw(d, 8)
  BY <1>1, <1>2 DEF Co!Get
<1>9. Co!Get(d, "id") = Co!Raw(d, IdLen)
  BY <1>1, <1>2 DEF Co!Get
<1>10. Co!Get(d, "rest") = Co!Raw(d, Len(s))
  BY <1>1, <1>2 DEF Co!Get
<1>11. Co!Get(d, "line") = Co!Line(d)
  BY <1>1, <1>2 DEF Co!Get
<1>12. Co!Get(d, "str8") = Co!Counted(d, 1)
  BY <1>1, <1>2 DEF Co!Get
<1>13. Co!Get(d, "str16") = Co!Counted(d, 2)
  BY <1>1, <1>2 DEF Co!Get
<1>14. Co!Get(d, "blob") = Co!Counted(d, 4)
  BY <1>1, <1>2 DEF Co!Get
<1> QED BY <1>3, <1>4, <1>5, <1>6, <1>7, <1>8, <1>9, <1>10, <1>11, <1>12, <1>13, <1>14 DEF d

\* and one that is read only if its bytes are there.
LEMMA GetOptional ==
  ASSUME NEW vals, NEW s, Len(s) \in Nat
  PROVE  LET d == Reader(vals, s) IN
         /\ Co!Get(d, "opt_u8") = IF Len(s) < 1 THEN Co!Take(d, 0, 0) ELSE Co!Uint(d, 1)
         /\ Len(s) >= 1 => Co!Get(d, "opt_flag") = Co!Take(d, 1, s[1] # 0)
         /\ Len(s) >= 4 => Co!Get(d, "opt_u32") = Co!Uint(d, 4)
         /\ Len(s) >= 8 => Co!Get(d, "opt_raw8") = Co!Raw(d, 8)
         /\ Len(s) >= 1 => Co!Get(d, "opt_str8") = Co!Counted(d, 1)
         /\ Co!Get(d, "opt_str16") = IF Len(s) < 2 THEN Co!Take(d, 0, <<>>) ELSE Co!Counted(d, 2)
         /\ Co!Get(d, "opt_placing") = Co!GetPlacing(d)
<1> DEFINE d == Reader(vals, s)
<1>1. d.ok = TRUE /\ d.left = s
  BY DEF Reader
<1> HIDE DEF d
<1>2. DOMAIN Co!Needs = {"opt_u8", "opt_flag", "opt_u32", "opt_raw8", "opt_str8", "opt_str16", "opt_placing"}
  BY DEF Co!Needs
<1>3. /\ Co!Needs["opt_u8"] = 1 /\ Co!Needs["opt_flag"] = 1 /\ Co!Needs["opt_u32"] = 4 /\ Co!Needs["opt_raw8"] = 8
      /\ Co!Needs["opt_str8"] = 1 /\ Co!Needs["opt_str16"] = 2 /\ Co!Needs["opt_placing"] = 0
      /\ Co!Absent["opt_u8"] = 0 /\ Co!Absent["opt_str16"] = <<>>
  BY DEF Co!Needs, Co!Absent
<1>4. Co!Get(d, "opt_u8") = IF Len(s) < 1 THEN Co!Take(d, 0, 0) ELSE Co!Uint(d, 1)
  BY <1>1, <1>2, <1>3 DEF Co!Get
<1>5. Len(s) >= 1 => Co!Get(d, "opt_flag") = Co!Take(d, 1, s[1] # 0)
  BY <1>1, <1>2, <1>3 DEF Co!Get
<1>6. Len(s) >= 4 => Co!Get(d, "opt_u32") = Co!Uint(d, 4)
  BY <1>1, <1>2, <1>3 DEF Co!Get
<1>7. Len(s) >= 8 => Co!Get(d, "opt_raw8") = Co!Raw(d, 8)
  BY <1>1, <1>2, <1>3 DEF Co!Get
<1>8. Len(s) >= 1 => Co!Get(d, "opt_str8") = Co!Counted(d, 1)
  BY <1>1, <1>2, <1>3 DEF Co!Get
<1>9. Co!Get(d, "opt_str16") = IF Len(s) < 2 THEN Co!Take(d, 0, <<>>) ELSE Co!Counted(d, 2)
  BY <1>1, <1>2, <1>3 DEF Co!Get
<1>10. Co!Get(d, "opt_placing") = Co!GetPlacing(d)
  BY <1>1, <1>2, <1>3 DEF Co!Get
<1> QED BY <1>4, <1>5, <1>6, <1>7, <1>8, <1>9, <1>10 DEF d

LEMMA SmallFits ==
  ASSUME NEW v \in {0, 1}, NEW n \in {1, 2, 4, 8}
  PROVE  v \in Nat /\ Fits(v, n)
<1>1. Base \in Nat /\ Base >= 2
  BY CodecAssumption
<1>2. \A x \in Nat : x >= 2 => Base * x \in Nat /\ Base * x >= 2
  <2> SUFFICES ASSUME NEW x \in Nat, x >= 2 PROVE Base * x \in Nat /\ Base * x >= 2
    OBVIOUS
  <2>1. Base * 1 <= Base * x
    BY <1>1, Times
  <2> QED BY <1>1, <2>1
<1>3. Base * Base \in Nat /\ Base * Base >= 2
  BY <1>1, <1>2
<1>4. Base * (Base * Base) \in Nat /\ Base * (Base * Base) >= 2
  BY <1>2, <1>3
<1>5. Base * (Base * (Base * Base)) \in Nat /\ Base * (Base * (Base * Base)) >= 2
  BY <1>2, <1>4
<1> QED BY <1>1, <1>3, <1>5 DEF Fits

LEMMA NumberOne ==
  ASSUME NEW b \in Int
  PROVE  Co!Number(<<b>>) = b
<1>1. Len(<<b>>) = 1 /\ <<b>>[1] = b
  OBVIOUS
<1>2. PICK f : Counts(<<b>>, f) /\ Co!Number(<<b>>) = f[Len(<<b>>)]
  BY <1>1, NumberIs
<1>3. f[0] = 0 /\ f[1] = (f[0] * Base) + b
  <2>1. 0 \in 0..Len(<<b>>) /\ 1 \in 0..Len(<<b>>) /\ 1 # 0 /\ 1 - 1 = 0
    BY <1>1
  <2>2. f[1] = (f[1 - 1] * Base) + <<b>>[1]
    BY <1>2, <2>1 DEF Counts
  <2> QED BY <1>1, <1>2, <2>1, <2>2 DEF Counts
<1>4. 0 * Base = 0
  BY CodecAssumption
<1> QED BY <1>1, <1>2, <1>3, <1>4

\* What decode makes of a field, and what it leaves.
Understands(vals, w, v, r, t) ==
  Co!Put(w, v) \in Seq(Int) /\ Co!Get(Reader(vals, Co!Put(w, v) \o t), r) = Reader(Append(vals, v), t)

\* Get after Put, kind by kind: the numbers,
LEMMA NumberField ==
  ASSUME NEW vals, NEW t \in Seq(Int), NEW w \in {"u8", "u16", "u32", "u64"}, NEW v \in {0, 1}, NEW r \in ReadAs(w)
  PROVE  Understands(vals, w, v, r, t)
<1> DEFINE n == CASE w = "u8" -> 1 [] w = "u16" -> 2 [] w = "u32" -> 4 [] OTHER -> 8
           b == Co!Bytes(v, n)
           s == b \o t
<1>1. n \in {1, 2, 4, 8} /\ Co!Put(w, v) = b
  BY DEF Co!Put
<1>2. v \in Nat /\ Fits(v, n)
  BY <1>1, SmallFits
<1>3. b \in Seq(Int) /\ Len(b) = n /\ Co!Uint(Reader(vals, b \o t), n) = Reader(Append(vals, v), t)
  <2> HIDE DEF n
  <2>1. v \in Nat /\ n \in {1, 2, 4, 8} /\ Fits(v, n) /\ t \in Seq(Int)
    BY <1>1, <1>2
  <2>2. Co!Bytes(v, n) \in Seq(Int) /\ Len(Co!Bytes(v, n)) = n
    BY ONLY <2>1, NumberBytes
  <2>3. Co!Uint(Reader(vals, Co!Bytes(v, n) \o t), n) = Reader(Append(vals, v), t)
    BY ONLY <2>1, UintExact
  <2> QED BY ONLY <2>2, <2>3 DEF b
<1> HIDE DEF b
<1>4. Len(s) \in Nat /\ Len(s) >= n
  <2> HIDE DEF n
  <2>1. Len(b \o t) \in Nat /\ Len(b \o t) >= Len(b)
    BY <1>3
  <2> QED BY <1>3, <2>1
<1> HIDE DEF s
<1>5. Co!Get(Reader(vals, s), r) = Co!Uint(Reader(vals, s), n)
  <2>1. CASE w = "u8"
    BY <2>1, GetAlways DEF ReadAs, Same
  <2>2. CASE w = "u16"
    BY <2>2, GetAlways DEF ReadAs, Same
  <2>3. CASE w = "u32"
    BY <1>4, <2>3, GetAlways, GetOptional DEF ReadAs, Same
  <2>4. CASE w = "u64"
    BY <2>4, GetAlways DEF ReadAs, Same
  <2> QED BY <2>1, <2>2, <2>3, <2>4
<1> QED BY <1>1, <1>3, <1>5 DEF Understands, s

\* a flag,
LEMMA FlagField ==
  ASSUME NEW vals, NEW t \in Seq(Int), NEW v \in BOOLEAN, NEW r \in ReadAs("flag")
  PROVE  Understands(vals, "flag", v, r, t)
<1> DEFINE b == IF v THEN 1 ELSE 0
           s == <<b>> \o t
<1>1. Co!Put("flag", v) = <<b>> /\ <<b>> \in Seq(Int) /\ Len(<<b>>) = 1
  BY DEF Co!Put
<1>2. b \in Int /\ (b # 0) = v
  OBVIOUS
<1> HIDE DEF b
<1>3. Len(s) \in Nat /\ Len(s) >= 1 /\ s[1] = b
  BY <1>1, <1>2
<1>4. Co!Take(Reader(vals, s), 1, v) = Reader(Append(vals, v), t)
  BY <1>1, TakeExact
<1> HIDE DEF s
<1>5. r \in {"flag", "opt_flag"}
  BY DEF ReadAs, Same
<1>6. Co!Get(Reader(vals, s), r) = Co!Take(Reader(vals, s), 1, s[1] # 0)
  BY <1>3, <1>5, GetAlways, GetOptional
<1>7. Co!Get(Reader(vals, s), r) = Co!Take(Reader(vals, s), 1, v)
  <2>1. (s[1] # 0) = v
    BY <1>2, <1>3
  <2> QED BY <1>6, <2>1
<1> QED BY <1>1, <1>4, <1>7 DEF Understands, s

\* bytes of a known number, or to the end of the payload,
LEMMA RawField ==
  ASSUME NEW vals, NEW t \in Seq(Int), NEW w \in {"raw8", "id", "rest"}, NEW v, Valid(w, v), NEW r \in ReadAs(w),
         w = "rest" => t = <<>>
  PROVE  Understands(vals, w, v, r, t)
<1> DEFINE s == v \o t
           n == Len(v)
<1>1. v \in Seq(Int) /\ Co!Put(w, v) = v /\ (w = "raw8" => n = 8) /\ (w = "id" => n = IdLen) /\ n \in Nat
  <2>1. CASE w = "raw8"
    BY <2>1 DEF Valid, Co!Put
  <2>2. CASE w = "id"
    BY <2>2 DEF Valid, Co!Put
  <2>3. CASE w = "rest"
    BY <2>3 DEF Valid, Co!Put
  <2> QED BY <2>1, <2>2, <2>3
<1>2. Co!Raw(Reader(vals, s), n) = Reader(Append(vals, v), t)
  BY <1>1, RawExact
<1>3. Len(s) \in Nat /\ Len(s) >= n /\ (t = <<>> => Len(s) = n)
  BY <1>1
<1> HIDE DEF s, n
<1>4. Co!Get(Reader(vals, s), r) = Co!Raw(Reader(vals, s), n)
  <2>1. CASE w = "raw8"
    <3>1. n = 8 /\ r \in {"raw8", "opt_raw8"}
      BY <1>1, <2>1 DEF ReadAs, Same
    <3> QED BY <1>3, <3>1, GetAlways, GetOptional
  <2>2. CASE w = "id"
    <3>1. n = IdLen /\ r = "id"
      BY <1>1, <2>2 DEF ReadAs, Same
    <3> QED BY <3>1, GetAlways
  <2>3. CASE w = "rest"
    <3>1. n = Len(s) /\ r = "rest"
      BY <1>3, <2>3 DEF ReadAs, Same
    <3> QED BY <3>1, GetAlways
  <2> QED BY <2>1, <2>2, <2>3
<1> QED BY <1>1, <1>2, <1>4 DEF Understands, s

\* a line,
LEMMA LineField ==
  ASSUME NEW vals, NEW t \in Seq(Int), NEW v, Valid("line", v), NEW r \in ReadAs("line")
  PROVE  Understands(vals, "line", v, r, t)
<1> DEFINE x == v \o <<Newline>>
           s == x \o t
           n == Len(v)
<1>1. v \in Seq(Int) /\ (\A i \in 1..n : v[i] # Newline) /\ Co!Put("line", v) = x /\ r = "line"
  BY DEF Valid, Co!Put, ReadAs, Same
<1>2. Newline \in Int /\ n \in Nat
  BY <1>1, CodecAssumption
<1>3. x \in Seq(Int) /\ Len(x) = n + 1 /\ s \in Seq(Int) /\ Len(s) >= n + 1 /\ Len(s) \in Nat
  BY <1>1, <1>2
<1>4. s[n + 1] = Newline /\ \A i \in 1..n : s[i] = v[i]
  BY <1>1, <1>2
<1>5. SubSeq(s, 1, n) = v
  BY <1>1, <1>2
<1>6. Co!Take(Reader(vals, s), n + 1, v) = Reader(Append(vals, v), t)
  <2>1. Co!Take(Reader(vals, x \o t), Len(x), v) = Reader(Append(vals, v), t)
    BY <1>3, TakeExact
  <2> QED BY <1>3, <2>1
<1> DEFINE nl == {i \in 1..Len(s) : s[i] = Newline}
<1>7. DOMAIN s = 1..Len(s)
  BY <1>3
<1> HIDE DEF s, x, n
<1>8. n + 1 \in nl /\ \A i \in nl : i \in Nat /\ n + 1 <= i
  <2>1. n + 1 \in nl
    BY <1>2, <1>3, <1>4
  <2>2. ASSUME NEW i \in nl PROVE i \in Nat /\ n + 1 <= i
    <3>1. i \in 1..Len(s) /\ s[i] = Newline
      OBVIOUS
    <3>2. i \notin 1..n
      BY <1>1, <1>4, <3>1
    <3> QED BY <1>2, <1>3, <3>1, <3>2
  <2> QED BY <2>1, <2>2
<1> DEFINE end == CHOOSE i \in nl : \A j \in nl : i <= j
<1>9. end \in nl /\ \A j \in nl : end <= j
  BY <1>8
<1>10. end = n + 1
  BY <1>2, <1>8, <1>9
<1>11. nl = {i \in DOMAIN s : s[i] = Newline} /\ nl # {}
  BY <1>7, <1>8
<1>12. Co!Line(Reader(vals, s)) = Co!Take(Reader(vals, s), n + 1, v)
  <2>1. Reader(vals, s).left = s
    BY DEF Reader
  <2>2. Co!First(Reader(vals, s), (n + 1) - 1) = v
    BY <1>2, <1>5, <2>1 DEF Co!First
  <2> DEFINE d == Reader(vals, s)
  <2>3. Co!Line(d) = Co!Take(d, end, Co!First(d, end - 1))
    <3> HIDE DEF d
    <3>1. d.left = s
      BY <2>1 DEF d
    <3>2. {i \in DOMAIN d.left : d.left[i] = Newline} = nl
      BY <1>11, <3>1
    <3> HIDE DEF nl
    <3> QED BY <1>11, <3>2 DEF Co!Line
  <2> QED BY <1>10, <2>2, <2>3
<1>13. Co!Get(Reader(vals, s), "line") = Co!Line(Reader(vals, s))
  BY GetAlways
<1> QED BY <1>1, <1>3, <1>6, <1>12, <1>13 DEF Understands, s

\* a string or a blob,
LEMMA CountedField ==
  ASSUME NEW vals, NEW t \in Seq(Int), NEW w \in {"str8", "str16", "str16_if_any", "blob"}, NEW v \in Seq(Int),
         w = "str16_if_any" => v # <<>>, Fine(w, v), NEW r \in ReadAs(w)
  PROVE  Understands(vals, w, v, r, t)
<1>1. CASE w = "blob"
  <2> DEFINE b == Co!Bytes(Len(v), 4)
  <2>1. Fits(Len(v), 4) /\ Co!Put(w, v) = b \o v /\ r = "blob"
    BY <1>1 DEF Fine, Co!Put, ReadAs, Same
  <2>2. b \o v \in Seq(Int) /\ Co!Counted(Reader(vals, (b \o v) \o t), 4) = Reader(Append(vals, v), t)
    BY <2>1, CountedExact
  <2> DEFINE s == (b \o v) \o t
  <2> HIDE DEF s
  <2>3. Co!Get(Reader(vals, s), "blob") = Co!Counted(Reader(vals, s), 4)
    BY GetAlways
  <2> QED BY <2>1, <2>2, <2>3 DEF Understands, s
<1>2. CASE w # "blob"
  <2> DEFINE n == IF w = "str8" THEN 1 ELSE 2
             p == Co!Prefixed(v, n)
             s == p \o t
  <2>1. n \in {1, 2} /\ Co!Put(w, v) = p
    <3>1. CASE w = "str8"
      BY <3>1 DEF Co!Put
    <3>2. CASE w = "str16"
      BY <3>2 DEF Co!Put
    <3>3. CASE w = "str16_if_any"
      BY <3>3 DEF Co!Put
    <3> QED BY <1>2, <3>1, <3>2, <3>3
  <2>2. p # Co!Refused
    BY <2>1 DEF Fine
  <2>3. p \in Seq(Int) /\ Len(p) >= n /\ Co!Counted(Reader(vals, p \o t), n) = Reader(Append(vals, v), t)
    <3> HIDE DEF n
    <3> QED BY <2>1, <2>2, PrefixedExact
  <2>4. Len(s) \in Nat /\ Len(s) >= n
    <3> HIDE DEF p, n
    <3>1. Len(p \o t) \in Nat /\ Len(p \o t) >= Len(p) /\ Len(p) \in Nat
      BY <2>3
    <3>2. n \in Nat
      BY <2>1
    <3> QED BY <2>3, <3>1, <3>2
  <2> HIDE DEF s, p
  <2>5. Co!Get(Reader(vals, s), r) = Co!Counted(Reader(vals, s), n)
    <3>1. CASE w = "str8"
      <4>1. r \in {"str8", "opt_str8"} /\ n = 1
        BY <3>1 DEF ReadAs, Same
      <4> QED BY <2>4, <4>1, GetAlways, GetOptional
    <3>2. CASE w \in {"str16", "str16_if_any"}
      <4>1. r \in {"str16", "opt_str16"} /\ n = 2
        BY <3>2 DEF ReadAs, Same
      <4> QED BY <2>4, <4>1, GetAlways, GetOptional
    <3> QED BY <1>2, <3>1, <3>2
  <2> QED BY <2>1, <2>3, <2>5 DEF Understands, s
<1> QED BY <1>1, <1>2

LEMMA TakeNone ==
  ASSUME NEW vals, NEW value
  PROVE  Co!Take(Reader(vals, <<>>), 0, value) = Reader(Append(vals, value), <<>>)
<1>1. <<>> \in Seq(Int) /\ <<>> \o <<>> = <<>> /\ Len(<<>>) = 0
  OBVIOUS
<1>2. Co!Take(Reader(vals, <<>> \o <<>>), Len(<<>>), value) = Reader(Append(vals, value), <<>>)
  BY <1>1, TakeExact
<1> QED BY <1>1, <1>2

\* An optional field at the end of a payload that has none.
LEMMA AbsentField ==
  ASSUME NEW vals
  PROVE  Understands(vals, "str16_if_any", <<>>, "opt_str16", <<>>) /\ Understands(vals, "u8_if_set", 0, "opt_u8", <<>>)
<1>1. <<>> \in Seq(Int) /\ <<>> \o <<>> = <<>> /\ Len(<<>>) = 0
  OBVIOUS
<1>2. Co!Put("str16_if_any", <<>>) = <<>> /\ Co!Put("u8_if_set", 0) = <<>>
  BY DEF Co!Put
<1>3. /\ Co!Get(Reader(vals, <<>>), "opt_str16") = Co!Take(Reader(vals, <<>>), 0, <<>>)
      /\ Co!Get(Reader(vals, <<>>), "opt_u8") = Co!Take(Reader(vals, <<>>), 0, 0)
  BY <1>1, GetOptional
<1> QED BY <1>1, <1>2, <1>3, TakeNone DEF Understands

\* a byte that is written only if it is set,
LEMMA SetField ==
  ASSUME NEW vals
  PROVE  Understands(vals, "u8_if_set", 1, "opt_u8", <<>>)
<1>0. Co!Put("u8_if_set", 1) = <<1>>
  <2>1. Co!Put("u8_if_set", 1) = IF 1 = 0 THEN <<>> ELSE <<1>>
    BY DEF Co!Put
  <2> QED BY <2>1
<1>1. Co!Put("u8_if_set", 1) = <<1>> /\ <<1>> \in Seq(Int) /\ Len(<<1>>) = 1 /\ <<1>> \o <<>> = <<1>> /\ <<>> \in Seq(Int)
  BY <1>0
<1>2. Co!Get(Reader(vals, <<1>>), "opt_u8") = Co!Uint(Reader(vals, <<1>>), 1)
  BY <1>1, GetOptional
<1>3. Co!First(Reader(vals, <<1>>), 1) = <<1>>
  <2>1. Co!First(Reader(vals, <<1>> \o <<>>), Len(<<1>>)) = <<1>>
    BY <1>1, FirstExact
  <2> QED BY <1>1, <2>1
<1>4. Co!Take(Reader(vals, <<1>>), 1, 1) = Reader(Append(vals, 1), <<>>)
  <2>1. Co!Take(Reader(vals, <<1>> \o <<>>), Len(<<1>>), 1) = Reader(Append(vals, 1), <<>>)
    BY <1>1, TakeExact
  <2> QED BY <1>1, <2>1
<1>5. Co!Number(<<1>>) = 1
  BY NumberOne
<1>6. Co!Uint(Reader(vals, <<1>>), 1) = Reader(Append(vals, 1), <<>>)
  BY <1>3, <1>4, <1>5 DEF Co!Uint
<1> QED BY <1>1, <1>2, <1>6 DEF Understands

LEMMA PlacingRead ==
  ASSUME NEW vals \in Seq(Vals), NEW dest \in Seq(Int), NEW s \in Seq(Int), NEW t \in Seq(Int),
         Len(s) >= 2 => Co!Counted(Reader(vals, s), 2) = Reader(Append(vals, dest), t),
         Len(s) < 2 => s = <<>> /\ t = <<>> /\ dest = <<>>
  PROVE  Co!Get(Reader(vals, s), "opt_placing") =
           IF Len(t) >= 9
           THEN Reader(Append(vals, [dest |-> dest, mtime |-> Co!Number(SubSeq(t, 1, 8)), direct |-> t[9]]), SubSeq(t, 10, Len(t)))
           ELSE Reader(Append(vals, [dest |-> dest, mtime |-> 0, direct |-> 0]), t)
<1> DEFINE d == Reader(vals, s)
           named == Reader(Append(vals, dest), t)
<1>1. Co!Last(Append(vals, dest)) = dest
  <2>1. dest \in Vals
    BY DEF Vals
  <2> QED BY <2>1 DEF Co!Last
<1>2. d.left = s /\ d.vals = vals /\ named.left = t /\ named.ok = TRUE /\ named.vals = Append(vals, dest)
  BY DEF Reader
<1>3. (IF Len(s) >= 2 THEN Co!Counted(d, 2) ELSE Co!Take(d, 0, <<>>)) = named
  <2>1. CASE Len(s) >= 2
    BY <2>1
  <2>2. CASE ~(Len(s) >= 2)
    <3>1. Len(s) < 2
      BY <2>2
    <3> QED BY <2>2, <3>1, TakeNone
  <2> QED BY <2>1, <2>2
<1>4. Co!Get(d, "opt_placing") = Co!GetPlacing(d)
  <2>1. Len(s) \in Nat
    OBVIOUS
  <2> QED BY <2>1, GetOptional
<1> DEFINE whole == [dest |-> dest, mtime |-> Co!Number(SubSeq(t, 1, 8)), direct |-> t[9]]
           short == [dest |-> dest, mtime |-> 0, direct |-> 0]
<1>5. Co!First(named, 8) = SubSeq(t, 1, 8)
  BY <1>2 DEF Co!First
<1>6. \A value, left : Co!Had(d, value, left) = Reader(Append(vals, value), left)
  BY <1>2 DEF Co!Had, Reader
<1> HIDE DEF d, named
<1>7. Co!GetPlacing(d) = IF Len(t) >= 9 THEN Co!Had(d, whole, SubSeq(t, 10, Len(t))) ELSE Co!Had(d, short, t)
  BY <1>1, <1>2, <1>3, <1>5 DEF Co!GetPlacing
<1> HIDE DEF whole, short
<1>8. Co!Get(d, "opt_placing") = IF Len(t) >= 9 THEN Reader(Append(vals, whole), SubSeq(t, 10, Len(t))) ELSE Reader(Append(vals, short), t)
  BY <1>4, <1>6, <1>7
<1> QED BY <1>8 DEF d, whole, short

LEMMA SmallPrefix ==
  ASSUME NEW dest \in Seq(Int), Len(dest) <= 1
  PROVE  Co!Prefixed(dest, 2) # Co!Refused
<1> DEFINE n == Len(dest)
<1>1. n \in Nat /\ n <= Co!Cap16 /\ Fits(n, 2)
  <2>1. Base \in Nat /\ Base >= 2 /\ Base * 2 <= Base * Base /\ Base * Base \in Nat
    BY CodecAssumption, Times
  <2>2. n \in Nat /\ n <= 1
    OBVIOUS
  <2> HIDE DEF n
  <2> QED BY <2>1, <2>2 DEF Fits, Co!Cap16
<1>2. PICK b \in Seq(Int) : b = Co!Bytes(n, 2) /\ Len(b) = 2
  BY <1>1, NumberBytes
<1>3. Co!Prefixed(dest, 2) = b \o dest
  BY <1>1, <1>2 DEF Co!Prefixed
<1> HIDE DEF n
<1>4. Len(b \o dest) >= 2
  BY <1>2
<1>5. Len(Co!Refused) = 1
  BY DEF Co!Refused
<1> QED BY <1>3, <1>4, <1>5

LEMMA OneMore ==
  ASSUME NEW b \in Seq(Int), NEW x \in Int
  PROVE  LET t == b \o <<x>>
         IN  t \in Seq(Int) /\ Len(t) = Len(b) + 1 /\ SubSeq(t, 1, Len(b)) = b /\ t[Len(b) + 1] = x
<1>1. <<x>> \in Seq(Int) /\ Len(<<x>>) = 1 /\ <<x>>[1] = x
  OBVIOUS
<1>2. PICK u \in Seq(Int) : u = <<x>>
  BY <1>1
<1>3. b \o u \in Seq(Int) /\ Len(b \o u) = Len(b) + Len(u) /\ SubSeq(b \o u, 1, Len(b)) = b
  OBVIOUS
<1>4. \A i \in 1..Len(b) + Len(u) : (b \o u)[i] = IF i <= Len(b) THEN b[i] ELSE u[i - Len(b)]
  BY ConcatProperties
<1>5. Len(u) = 1 /\ u[1] = x
  BY <1>1, <1>2
<1>6. (b \o u)[Len(b) + 1] = x
  <2>1. Len(b) \in Nat
    OBVIOUS
  <2>2. Len(b) + 1 \in 1..Len(b) + Len(u) /\ ~(Len(b) + 1 <= Len(b)) /\ (Len(b) + 1) - Len(b) = 1
    BY <1>5, <2>1
  <2> QED BY <1>4, <1>5, <2>2
<1>7. b \o u = b \o <<x>>
  BY <1>2
<1> QED BY <1>3, <1>5, <1>6, <1>7

LEMMA NineBytes ==
  ASSUME NEW b \in Seq(Int), Len(b) = 8, NEW x \in Int
  PROVE  LET t == b \o <<x>>
         IN  t \in Seq(Int) /\ Len(t) = 9 /\ SubSeq(t, 1, 8) = b /\ t[9] = x /\ SubSeq(t, 10, Len(t)) = <<>>
<1> DEFINE t == b \o <<x>>
<1>1. t \in Seq(Int) /\ Len(t) = Len(b) + 1 /\ SubSeq(t, 1, Len(b)) = b /\ t[Len(b) + 1] = x
  BY OneMore
<1> HIDE DEF t
<1>2. t \in Seq(Int) /\ Len(t) = 9 /\ SubSeq(t, 1, 8) = b /\ t[9] = x
  BY <1>1
<1>3. SubSeq(t, 10, Len(t)) = <<>>
  BY <1>2
<1> QED BY <1>2, <1>3 DEF t

\* and the tail of a FileMetaMsg.
LEMMA PlacingField ==
  ASSUME NEW vals \in Seq(Vals), NEW dest \in Seq(Int), Len(dest) <= 1, NEW m \in {0, 1}, NEW x \in Int,
         NEW v, v = [dest |-> dest, mtime |-> m, direct |-> x]
  PROVE  Understands(vals, "placing", v, "opt_placing", <<>>)
<1> DEFINE p == Co!Prefixed(dest, 2)
           b == Co!Bytes(m, 8)
<1>1. v.dest = dest /\ v.mtime = m /\ v.direct = x
  OBVIOUS
<1>2. b \in Seq(Int) /\ Len(b) = 8 /\ Co!Number(b) = m
  BY SmallFits, NumberBytes
<1>3. ASSUME NEW t \in Seq(Int)
      PROVE  p \in Seq(Int) /\ Len(p) >= 2 /\ Co!Counted(Reader(vals, p \o t), 2) = Reader(Append(vals, dest), t)
  BY SmallPrefix, PrefixedExact
<1>4. Co!Put("placing", v) = (IF dest # <<>> \/ m # 0 \/ x # 0 THEN p ELSE <<>>) \o (IF m # 0 \/ x # 0 THEN b \o <<x>> ELSE <<>>)
  BY <1>1 DEF Co!Put, Co!Placing
<1>5. <<>> \in Seq(Int) /\ Len(<<>>) = 0 /\ <<>> \o <<>> = <<>> /\ p \in Seq(Int) /\ Len(p) >= 2
  BY <1>3
<1> HIDE DEF p, b
<1>6. CASE m = 0 /\ x = 0 /\ dest = <<>>
  <2>1. Co!Put("placing", v) = <<>>
    BY <1>4, <1>5, <1>6
  <2>2. Co!Get(Reader(vals, <<>>), "opt_placing") = Reader(Append(vals, [dest |-> dest, mtime |-> 0, direct |-> 0]), <<>>)
    <3>1. (Len(<<>>) >= 2 => Co!Counted(Reader(vals, <<>>), 2) = Reader(Append(vals, dest), <<>>)) /\ ~(Len(<<>>) >= 9)
      BY <1>5
    <3> QED BY <1>5, <1>6, <3>1, PlacingRead
  <2> QED BY <1>5, <1>6, <2>1, <2>2 DEF Understands
<1>7. CASE m = 0 /\ x = 0 /\ dest # <<>>
  <2>1. Co!Put("placing", v) = p /\ p \o <<>> = p
    BY <1>4, <1>5, <1>7
  <2>2. Co!Counted(Reader(vals, p), 2) = Reader(Append(vals, dest), <<>>)
    BY <1>3, <1>5, <2>1
  <2>3. Co!Get(Reader(vals, p), "opt_placing") = Reader(Append(vals, [dest |-> dest, mtime |-> 0, direct |-> 0]), <<>>)
    <3>1. ~(Len(p) < 2) /\ ~(Len(<<>>) >= 9)
      BY <1>5
    <3> QED BY <1>5, <2>2, <3>1, PlacingRead
  <2> QED BY <1>5, <1>7, <2>1, <2>3 DEF Understands
<1>8. CASE ~(m = 0 /\ x = 0)
  <2> DEFINE t == b \o <<x>>
             s == p \o t
  <2>1. t \in Seq(Int) /\ Len(t) = 9 /\ SubSeq(t, 1, 8) = b /\ t[9] = x /\ SubSeq(t, 10, Len(t)) = <<>>
    BY <1>2, NineBytes
  <2> HIDE DEF t
  <2>2. Co!Put("placing", v) = s
    BY <1>4, <1>8 DEF t
  <2>3. s \in Seq(Int) /\ Len(s) >= 2 /\ s \o <<>> = s /\ Len(s) \in Nat
    BY <1>5, <2>1
  <2>4. Co!Counted(Reader(vals, s), 2) = Reader(Append(vals, dest), t)
    BY <1>3, <2>1
  <2> HIDE DEF s
  <2>5. Co!Get(Reader(vals, s), "opt_placing") = Reader(Append(vals, [dest |-> dest, mtime |-> m, direct |-> x]), <<>>)
    <3>1. ~(Len(s) < 2) /\ Len(t) >= 9
      BY <2>1, <2>3
    <3>2. Co!Get(Reader(vals, s), "opt_placing")
            = Reader(Append(vals, [dest |-> dest, mtime |-> Co!Number(SubSeq(t, 1, 8)), direct |-> t[9]]), SubSeq(t, 10, Len(t)))
      BY <2>1, <2>3, <2>4, <3>1, PlacingRead
    <3> QED BY <1>2, <2>1, <3>2
  <2> QED BY <2>2, <2>3, <2>5 DEF Understands
<1> QED BY <1>6, <1>7, <1>8

\* What serialize_msg writes, decode reads back.
LEMMA GetPut ==
  ASSUME NEW vals \in Seq(Vals), NEW t \in Seq(Int), NEW w \in Kinds, NEW v, Valid(w, v), Fine(w, v), NEW r \in ReadAs(w),
         Ends(w, v) => t = <<>>
  PROVE  Understands(vals, w, v, r, t) /\ v \in Vals
<1>1. CASE w \in {"u8", "u16", "u32", "u64"}
  <2>1. v \in {0, 1}
    BY <1>1 DEF Valid
  <2>2. v \in Vals
    BY <2>1 DEF Vals
  <2>3. Understands(vals, w, v, r, t)
    BY <1>1, <2>1, NumberField
  <2> QED BY <2>2, <2>3
<1>2. CASE w = "flag"
  <2>1. v \in BOOLEAN
    BY <1>2 DEF Valid
  <2> QED BY <1>2, <2>1, FlagField DEF Vals
<1>3. CASE w \in {"raw8", "id", "rest"}
  <2>1. v \in Seq(Int) /\ (w = "rest" => t = <<>>)
    BY <1>3 DEF Valid, Ends
  <2> QED BY <1>3, <2>1, RawField DEF Vals
<1>4. CASE w = "line"
  <2>1. v \in Seq(Int)
    BY <1>4 DEF Valid
  <2> QED BY <1>4, <2>1, LineField DEF Vals
<1>5. CASE w \in {"str8", "str16", "blob"} \/ (w = "str16_if_any" /\ v # <<>>)
  <2>1. v \in Seq(Int)
    BY <1>5 DEF Valid
  <2>2. w \in {"str8", "str16", "str16_if_any", "blob"} /\ (w = "str16_if_any" => v # <<>>)
    BY <1>5
  <2> QED BY <2>1, <2>2, CountedField DEF Vals
<1>6. CASE w = "str16_if_any" /\ v = <<>>
  <2>1. t = <<>> /\ r = "opt_str16" /\ v \in Seq(Int)
    BY <1>6 DEF Ends, ReadAs, Same
  <2> QED BY <1>6, <2>1, AbsentField DEF Vals
<1>7. CASE w = "u8_if_set"
  <2>1. t = <<>> /\ r = "opt_u8" /\ v \in {0, 1}
    BY <1>7 DEF Ends, ReadAs, Same, Valid
  <2>2. v \in Vals
    BY <2>1 DEF Vals
  <2> QED BY <1>7, <2>1, <2>2, AbsentField, SetField
<1>8. CASE w = "placing"
  <2>1. t = <<>> /\ r = "opt_placing" /\ v \in [dest : Seq(Int), mtime : {0, 1}, direct : Int] /\ Len(v.dest) <= 1
    BY <1>8 DEF Ends, ReadAs, Same, Valid
  <2>2. v.dest \in Seq(Int) /\ v.mtime \in {0, 1} /\ v.direct \in Int /\ v = [dest |-> v.dest, mtime |-> v.mtime, direct |-> v.direct]
    BY <2>1
  <2>3. Understands(vals, "placing", v, "opt_placing", <<>>)
    BY <2>1, <2>2, PlacingField
  <2> QED BY <1>8, <2>1, <2>3 DEF Vals
<1>9. \/ w \in {"u8", "u16", "u32", "u64"} \/ w = "flag" \/ w \in {"raw8", "id", "rest"} \/ w = "line"
      \/ w \in {"str8", "str16", "blob"} \/ (w = "str16_if_any" /\ v # <<>>) \/ (w = "str16_if_any" /\ v = <<>>)
      \/ w = "u8_if_set" \/ w = "placing"
  BY DEF Kinds, Same
<1> HIDE DEF Understands, Vals
<1> QED BY <1>1, <1>2, <1>3, <1>4, <1>5, <1>6, <1>7, <1>8, <1>9

-----------------------------------------------------------------------------
(* All fields of a message, and the elements of a list. *)

\* Fields that one side writes and the other reads, in front of t.
Paired(writes, reads, vals, t) ==
  /\ Len(writes) \in Nat /\ DOMAIN writes = 1..Len(writes) /\ Len(reads) = Len(writes)
  /\ vals \in Seq(Vals) /\ Len(vals) = Len(writes)
  /\ \A i \in 1..Len(writes) :
       /\ writes[i] \in Kinds /\ reads[i] \in ReadAs(writes[i])
       /\ Valid(writes[i], vals[i]) /\ Fine(writes[i], vals[i])
       /\ Ends(writes[i], vals[i]) => i = Len(writes) /\ t = <<>>

\* The bytes of some fields.
LEMMA FieldsType ==
  ASSUME NEW writes, NEW reads, NEW vals, NEW t, Paired(writes, reads, vals, t)
  PROVE  Co!Fields(writes, vals) \in Seq(Seq(Int)) /\ Len(Co!Fields(writes, vals)) = Len(writes)
<1> DEFINE n == Len(writes)
<1>1. ASSUME NEW i \in 1..n PROVE Co!Put(writes[i], vals[i]) \in Seq(Int)
  <2>1. <<>> \in Seq(Vals) /\ <<>> \in Seq(Int)
    OBVIOUS
  <2>2. writes[i] \in Kinds /\ reads[i] \in ReadAs(writes[i]) /\ Valid(writes[i], vals[i]) /\ Fine(writes[i], vals[i])
    BY DEF Paired
  <2>3. Understands(<<>>, writes[i], vals[i], reads[i], <<>>)
    BY <2>1, <2>2, GetPut
  <2> QED BY <2>3 DEF Understands
<1>2. Co!Fields(writes, vals) = [i \in 1..n |-> Co!Put(writes[i], vals[i])] /\ n \in Nat
  BY DEF Paired, Co!Fields
<1>3. Co!Fields(writes, vals) \in [1..n -> Seq(Int)]
  BY <1>1, <1>2
<1> QED BY <1>2, <1>3

\* What the pieces behind the first i are together.
Behind(p, i) == Co!FlattenSeq(SubSeq(p, i + 1, Len(p)))

\* What is behind the first i sequences: all of them, the next and what is behind it, nothing.
LEMMA BehindIs ==
  ASSUME NEW S, NEW p \in Seq(Seq(S))
  PROVE  /\ Behind(p, 0) = Co!FlattenSeq(p) /\ Behind(p, Len(p)) = <<>>
         /\ \A i \in 0..Len(p) : Behind(p, i) \in Seq(S)
         /\ \A i \in 0..Len(p) - 1 : Behind(p, i) = p[i + 1] \o Behind(p, i + 1)
<1>1. Behind(p, 0) = Co!FlattenSeq(p)
  <2>1. SubSeq(p, 1, Len(p)) = p /\ 0 + 1 = 1
    OBVIOUS
  <2> QED BY <2>1 DEF Behind
<1>2. Behind(p, Len(p)) = <<>>
  <2>1. SubSeq(p, Len(p) + 1, Len(p)) = <<>>
    OBVIOUS
  <2> QED BY <2>1, FlattenEmpty DEF Behind
<1>3. ASSUME NEW i \in 0..Len(p) PROVE Behind(p, i) \in Seq(S)
  <2>1. SubSeq(p, i + 1, Len(p)) \in Seq(Seq(S))
    OBVIOUS
  <2> QED BY <2>1, FlattenType DEF Behind
<1>4. ASSUME NEW i \in 0..Len(p) - 1 PROVE Behind(p, i) = p[i + 1] \o Behind(p, i + 1)
  <2>1. i + 1 \in 1..Len(p) /\ Len(p) \in 1..Len(p) /\ i + 1 <= Len(p) /\ (i + 1) + 1 = i + 2
    OBVIOUS
  <2>2. PICK u : u = SubSeq(p, i + 1, Len(p))
    OBVIOUS
  <2>3. u \in Seq(Seq(S)) /\ Len(u) = Len(p) - i
    BY <2>1, <2>2
  <2>4. u # <<>> /\ Head(u) = p[i + 1] /\ Tail(u) = SubSeq(p, (i + 1) + 1, Len(p))
    <3>1. Head(u) = p[i + 1] /\ Tail(u) = SubSeq(p, (i + 1) + 1, Len(p))
      BY <2>1, <2>2, HeadTailOfSubSeq
    <3> QED BY <2>1, <2>3, <3>1
  <2>5. Co!FlattenSeq(u) = Head(u) \o Co!FlattenSeq(Tail(u))
    BY <2>3, <2>4, FlattenTail
  <2> QED BY <2>2, <2>4, <2>5 DEF Behind
<1> QED BY <1>1, <1>2, <1>3, <1>4

\* Fields that were put are parsed into their values, and what follows them is left.
LEMMA ParsePut ==
  ASSUME NEW writes, NEW reads, NEW vals, NEW t \in Seq(Int), Paired(writes, reads, vals, t)
  PROVE  Co!Parse(Co!FlattenSeq(Co!Fields(writes, vals)) \o t, reads) = Reader(vals, t)
<1>1. PICK p, n : p = Co!Fields(writes, vals) /\ n = Len(writes)
  OBVIOUS
<1>2. p \in Seq(Seq(Int)) /\ Len(p) = n /\ n \in Nat
  BY <1>1, FieldsType DEF Paired
<1>3. \A i \in 1..n : p[i] = Co!Put(writes[i], vals[i])
  BY <1>1 DEF Paired, Co!Fields
<1>4. vals \in Seq(Vals) /\ Len(vals) = n /\ Len(reads) = n
  BY <1>1 DEF Paired
<1>5. PICK a : a = Co!FlattenSeq(p) \o t
  OBVIOUS
<1>6. PICK f : Reading(a, reads, f) /\ Co!Parse(a, reads) = f[Len(reads)]
  BY <1>2, <1>4, ParseIs
<1>7. f[0] = Reader(<<>>, a) /\ \A i \in 0..n - 1 : f[i + 1] = Co!Get(f[i], reads[i + 1])
  <2>1. 0 \in 0..Len(reads) /\ \A i \in 0..n - 1 : i + 1 \in 0..Len(reads) /\ i + 1 # 0 /\ (i + 1) - 1 = i
    BY <1>2, <1>4
  <2> QED BY <1>6, <2>1 DEF Reading, Reader
<1> DEFINE T == {i \in Nat : i <= n => f[i] = Reader(SubSeq(vals, 1, i), Behind(p, i) \o t)}
<1>8. 0 \in T
  <2>1. SubSeq(vals, 1, 0) = <<>>
    BY <1>4
  <2>2. Behind(p, 0) = Co!FlattenSeq(p)
    BY <1>2, BehindIs
  <2> QED BY <1>5, <1>7, <2>1, <2>2
<1>9. ASSUME NEW i \in T PROVE i + 1 \in T
  <2> SUFFICES ASSUME i + 1 <= n PROVE f[i + 1] = Reader(SubSeq(vals, 1, i + 1), Behind(p, i + 1) \o t)
    OBVIOUS
  <2>1. i \in 0..n - 1 /\ i + 1 \in 1..n /\ i + 1 \in 0..n
    BY <1>2
  <2>2. PICK had, w, v, r, b, q : had = SubSeq(vals, 1, i) /\ w = writes[i + 1] /\ v = vals[i + 1] /\ r = reads[i + 1]
                                  /\ b = Behind(p, i + 1) /\ q = b \o t
    OBVIOUS
  <2>3. p[i + 1] = Co!Put(w, v) /\ p[i + 1] \in Seq(Int)
    BY <1>2, <1>3, <2>1, <2>2
  <2>4. b \in Seq(Int) /\ (i + 1 = n => b = <<>>) /\ Behind(p, i) = p[i + 1] \o b
    BY <1>2, <2>1, <2>2, BehindIs
  <2>5. f[i] = Reader(had, (p[i + 1] \o b) \o t)
    <3>1. i \in T /\ i <= n /\ i \in Nat
      BY <2>1, <1>2
    <3>2. f[i] = Reader(SubSeq(vals, 1, i), Behind(p, i) \o t)
      BY <3>1
    <3> QED BY ONLY <3>2, <2>2, <2>4
  <2>6. (p[i + 1] \o b) \o t = p[i + 1] \o q
    <3>1. PICK z : z = p[i + 1]
      OBVIOUS
    <3>2. z \in Seq(Int) /\ b \in Seq(Int) /\ t \in Seq(Int)
      BY <2>3, <2>4, <3>1
    <3>3. Joins(z, b, t)
      BY ONLY <3>2, Associative
    <3>4. (z \o b) \o t = z \o (b \o t)
      BY ONLY <3>3 DEF Joins
    <3> QED BY ONLY <3>1, <3>4, <2>2
  <2>7. had \in Seq(Vals) /\ Append(had, v) = SubSeq(vals, 1, i + 1)
    BY <1>4, <2>1, <2>2
  <2>8. w \in Kinds /\ r \in ReadAs(w) /\ Valid(w, v) /\ Fine(w, v) /\ (Ends(w, v) => i + 1 = n /\ t = <<>>)
    BY <1>1, <2>1, <2>2 DEF Paired
  <2>9. q \in Seq(Int) /\ (Ends(w, v) => q = <<>>)
    <3>1. q \in Seq(Int)
      BY <2>2, <2>4
    <3>2. ASSUME Ends(w, v) PROVE q = <<>>
      BY <2>2, <2>4, <2>8, <3>2
    <3> QED BY <3>1, <3>2
  <2>10. Understands(had, w, v, r, q)
    BY <2>7, <2>8, <2>9, GetPut
  <2>11. Co!Get(Reader(had, Co!Put(w, v) \o q), r) = Reader(Append(had, v), q)
    BY <2>10 DEF Understands
  <2>12. f[i + 1] = Co!Get(f[i], r)
    BY <1>7, <2>1, <2>2
  <2> QED BY <2>2, <2>3, <2>5, <2>6, <2>7, <2>11, <2>12
<1>10. T \subseteq Nat
  OBVIOUS
<1>11. T = Nat
  <2> HIDE DEF T
  <2> QED BY <1>8, <1>9, <1>10, Inductive
<1>12. f[n] = Reader(SubSeq(vals, 1, n), Behind(p, n) \o t)
  BY <1>2, <1>11
<1>13. SubSeq(vals, 1, n) = vals
  BY <1>4
<1>14. Behind(p, n) \o t = t
  <2>1. Behind(p, n) = <<>>
    BY <1>2, BehindIs
  <2> QED BY <2>1
<1> QED BY <1>1, <1>4, <1>5, <1>6, <1>12, <1>13, <1>14

\* The elements of a list: each starts with a string and can be read whatever follows.
Itemized(writes, reads, items) ==
  /\ Len(writes) \in Nat \ {0} /\ writes[1] = "str8"
  /\ \A k \in 1..Len(writes) : writes[k] \in {"str8", "str16", "u8", "u32", "u64"}
  /\ items \in Seq(Seq(Vals)) /\ \A i \in 1..Len(items) : Paired(writes, reads, items[i], <<>>)

\* The fields of an element pair off with the kinds that are read, whatever follows.
LEMMA ElementPaired ==
  ASSUME NEW writes, NEW reads, NEW items, Itemized(writes, reads, items), NEW i \in 1..Len(items), NEW t
  PROVE  Paired(writes, reads, items[i], t)
<1>1. Paired(writes, reads, items[i], <<>>)
  BY DEF Itemized
<1>2. ASSUME NEW k \in 1..Len(writes) PROVE ~Ends(writes[k], items[i][k])
  BY DEF Itemized, Ends
<1> QED BY <1>1, <1>2 DEF Paired

\* What the elements are as bytes.
ElementBytes(writes, vals) == Co!FlattenSeq(Co!Fields(writes, vals))

LEMMA ElementBytesType ==
  ASSUME NEW writes, NEW reads, NEW items, Itemized(writes, reads, items), NEW i \in 1..Len(items)
  PROVE  ElementBytes(writes, items[i]) \in Seq(Int) /\ Len(ElementBytes(writes, items[i])) >= 1
<1>1. Paired(writes, reads, items[i], <<>>)
  BY ElementPaired
<1>2. PICK p : p = Co!Fields(writes, items[i])
  OBVIOUS
<1>3. p \in Seq(Seq(Int)) /\ Len(p) = Len(writes) /\ p # <<>>
  <2>1. p \in Seq(Seq(Int)) /\ Len(p) = Len(writes)
    BY <1>1, <1>2, FieldsType
  <2>2. Len(writes) \in Nat \ {0}
    BY DEF Itemized
  <2> QED BY <2>1, <2>2
<1>4. PICK x, y : x = Head(p) /\ y = Co!FlattenSeq(Tail(p))
  OBVIOUS
<1>5. x \in Seq(Int) /\ y \in Seq(Int)
  <2>1. Tail(p) \in Seq(Seq(Int)) /\ Head(p) \in Seq(Int)
    BY <1>3
  <2> QED BY <1>4, <2>1, FlattenType
<1>6. Co!FlattenSeq(p) = x \o y
  BY <1>3, <1>4, FlattenTail
<1>7. Len(x) >= 1
  <2>1. PICK v : v = items[i][1]
    OBVIOUS
  <2>2. 1 \in 1..Len(writes) /\ 1 \in DOMAIN writes /\ writes[1] = "str8"
    <3>1. Len(writes) \in Nat \ {0} /\ writes[1] = "str8"
      BY DEF Itemized
    <3>2. DOMAIN writes = 1..Len(writes)
      BY <1>1 DEF Paired
    <3> QED BY ONLY <3>1, <3>2
  <2>3. Valid("str8", v) /\ Fine("str8", v)
    BY <1>1, <2>1, <2>2 DEF Paired
  <2>4. x = Co!Put("str8", v)
    BY <1>2, <1>3, <1>4, <2>1, <2>2 DEF Co!Fields
  <2>5. v \in Seq(Int) /\ Co!Put("str8", v) = Co!Prefixed(v, 1)
    BY <2>3 DEF Valid, Co!Put
  <2>6. Co!Prefixed(v, 1) # Co!Refused
    BY <2>3, <2>5 DEF Fine
  <2>7. Len(v) <= Base - 1 /\ Co!Prefixed(v, 1) = Co!Bytes(Len(v), 1) \o v
    BY <2>6 DEF Co!Prefixed
  <2>8. Len(v) \in Nat /\ Fits(Len(v), 1)
    BY <2>5, <2>7, CodecAssumption DEF Fits
  <2>9. Co!Bytes(Len(v), 1) \in Seq(Int) /\ Len(Co!Bytes(Len(v), 1)) = 1
    BY <2>8, NumberBytes
  <2>10. Len(Co!Bytes(Len(v), 1) \o v) = Len(Co!Bytes(Len(v), 1)) + Len(v)
    BY <2>5, <2>9, JoinType
  <2>11. x = Co!Bytes(Len(v), 1) \o v
    BY <2>4, <2>5, <2>7
  <2>12. PICK b : b = Co!Bytes(Len(v), 1)
    OBVIOUS
  <2>13. PICK h, k, l : h = Len(x) /\ k = Len(b) /\ l = Len(v)
    OBVIOUS
  <2>14. k = 1 /\ l \in Nat
    BY ONLY <2>8, <2>9, <2>12, <2>13
  <2>15. h = k + l
    BY ONLY <2>10, <2>11, <2>12, <2>13
  <2>16. h >= 1
    BY ONLY <2>14, <2>15
  <2> QED BY ONLY <2>13, <2>16
<1> QED BY <1>2, <1>5, <1>6, <1>7 DEF ElementBytes

\* The pieces of all elements, one after the other, and the bytes behind the first i elements.
ElementPieces(writes, items) == [i \in DOMAIN items |-> Co!Fields(writes, items[i])]
BytesBehind(writes, items, i) == Co!FlattenSeq(Behind(ElementPieces(writes, items), i))

LEMMA BytesBehindIs ==
  ASSUME NEW writes, NEW reads, NEW items, Itemized(writes, reads, items)
  PROVE  /\ Co!FlattenSeq(ElementPieces(writes, items)) \in Seq(Seq(Int))
         /\ BytesBehind(writes, items, 0) = Co!FlattenSeq(Co!FlattenSeq(ElementPieces(writes, items)))
         /\ BytesBehind(writes, items, Len(items)) = <<>>
         /\ \A i \in 0..Len(items) : BytesBehind(writes, items, i) \in Seq(Int)
         /\ \A i \in 0..Len(items) - 1 :
              BytesBehind(writes, items, i) = ElementBytes(writes, items[i + 1]) \o BytesBehind(writes, items, i + 1)
<1>1. PICK q : q = ElementPieces(writes, items)
  OBVIOUS
<1>2. q \in Seq(Seq(Seq(Int))) /\ Len(q) = Len(items) /\ \A i \in 1..Len(items) : q[i] = Co!Fields(writes, items[i])
  <2>1. DOMAIN items = 1..Len(items) /\ Len(items) \in Nat
    BY DEF Itemized
  <2>2. ASSUME NEW i \in 1..Len(items) PROVE Co!Fields(writes, items[i]) \in Seq(Seq(Int))
    BY ElementPaired, FieldsType
  <2>3. q = [i \in 1..Len(items) |-> Co!Fields(writes, items[i])]
    BY <1>1, <2>1 DEF ElementPieces
  <2> QED BY <2>1, <2>2, <2>3
<1>3. /\ Behind(q, 0) = Co!FlattenSeq(q) /\ Behind(q, Len(q)) = <<>>
      /\ \A i \in 0..Len(q) : Behind(q, i) \in Seq(Seq(Int))
      /\ \A i \in 0..Len(q) - 1 : Behind(q, i) = q[i + 1] \o Behind(q, i + 1)
  BY <1>2, BehindIs
<1>4. Co!FlattenSeq(q) \in Seq(Seq(Int))
  BY <1>2, FlattenType
<1>5. \A i \in 0..Len(q) : Co!FlattenSeq(Behind(q, i)) \in Seq(Int)
  BY <1>3, FlattenType
<1>6. ASSUME NEW i \in 0..Len(q) - 1
      PROVE  Co!FlattenSeq(Behind(q, i)) = Co!FlattenSeq(q[i + 1]) \o Co!FlattenSeq(Behind(q, i + 1))
  <2>1. i + 1 \in 1..Len(q) /\ i + 1 \in 0..Len(q)
    BY <1>2
  <2>2. q[i + 1] \in Seq(Seq(Int)) /\ Behind(q, i + 1) \in Seq(Seq(Int)) /\ Behind(q, i) = q[i + 1] \o Behind(q, i + 1)
    <3>1. q[i + 1] \in Seq(Seq(Int))
      BY ONLY <1>2, <2>1
    <3> QED BY ONLY <1>3, <2>1, <3>1, i \in 0..Len(q) - 1
  <2> QED BY <2>2, FlattenConcat
<1>7. Co!FlattenSeq(Behind(q, Len(q))) = <<>>
  BY <1>3, FlattenEmpty
<1>8. \A i \in 0..Len(items) - 1 : ElementBytes(writes, items[i + 1]) = Co!FlattenSeq(q[i + 1])
  <2> SUFFICES ASSUME NEW i \in 0..Len(items) - 1 PROVE ElementBytes(writes, items[i + 1]) = Co!FlattenSeq(q[i + 1])
    OBVIOUS
  <2>1. Len(items) \in Nat
    BY <1>2
  <2>2. i + 1 \in 1..Len(items)
    BY <2>1
  <2> QED BY <1>2, <2>2 DEF ElementBytes
<1> QED BY <1>1, <1>2, <1>3, <1>4, <1>5, <1>6, <1>7, <1>8 DEF BytesBehind

\* Every element takes at least a byte.
LEMMA ManyBytes ==
  ASSUME NEW writes, NEW reads, NEW items, Itemized(writes, reads, items)
  PROVE  Len(items) <= Len(BytesBehind(writes, items, 0))
<1> DEFINE n == Len(items)
           T == {k \in Nat : k <= n => k <= Len(BytesBehind(writes, items, n - k))}
<1>1. n \in Nat
  BY DEF Itemized
<1>2. 0 \in T
  <2>1. BytesBehind(writes, items, n) = <<>> /\ n - 0 = n
    BY <1>1, BytesBehindIs
  <2> QED BY <2>1
<1>3. ASSUME NEW k \in T PROVE k + 1 \in T
  <2> SUFFICES ASSUME k + 1 <= n PROVE k + 1 <= Len(BytesBehind(writes, items, n - (k + 1)))
    OBVIOUS
  <2>1. PICK i : i = n - (k + 1)
    OBVIOUS
  <2>2. i \in 0..n - 1 /\ i + 1 = n - k /\ i + 1 \in 1..n /\ i + 1 \in 0..n /\ i \in 0..n
    BY <1>1, <2>1
  <2>3. PICK x, y, z : x = ElementBytes(writes, items[i + 1]) /\ y = BytesBehind(writes, items, i + 1) /\ z = BytesBehind(writes, items, i)
    OBVIOUS
  <2>4. z = x \o y /\ x \in Seq(Int) /\ y \in Seq(Int) /\ Len(x) >= 1
    BY <2>2, <2>3, BytesBehindIs, ElementBytesType
  <2>5. k <= Len(y)
    <3>1. k <= n
      BY <1>1
    <3> QED BY <2>2, <2>3, <3>1
  <2>6. Len(z) >= k + 1
    <3>1. Len(z) = Len(x) + Len(y) /\ Len(x) \in Nat /\ Len(y) \in Nat
      BY ONLY <2>4
    <3> QED BY ONLY <3>1, <2>4, <2>5, k \in Nat
  <2> QED BY <2>1, <2>3, <2>6
<1>4. T = Nat
  <2>1. T \subseteq Nat
    OBVIOUS
  <2> HIDE DEF T
  <2> QED BY <1>2, <1>3, <2>1, Inductive
<1>5. n \in T /\ n - n = 0
  BY <1>1, <1>4
<1> QED BY <1>5

\* A list of which some elements have been read.
Lister(items, left) == [ok |-> TRUE, items |-> items, left |-> left]

\* A list is read to its last byte into the elements it was made of.
LEMMA ItemsPut ==
  ASSUME NEW writes, NEW reads, NEW items, Itemized(writes, reads, items)
  PROVE  Co!Items(BytesBehind(writes, items, 0), reads) = Lister(items, <<>>)
<1>1. PICK a, n : a = BytesBehind(writes, items, 0) /\ n = Len(items)
  OBVIOUS
<1>2. n \in Nat /\ items \in Seq(Seq(Vals))
  BY <1>1 DEF Itemized
<1>3. a \in Seq(Int) /\ Len(a) \in Nat /\ n <= Len(a)
  <2>1. 0 \in 0..Len(items)
    BY <1>1, <1>2
  <2>2. a \in Seq(Int)
    BY <1>1, <2>1, BytesBehindIs
  <2>3. n <= Len(a)
    BY <1>1, ManyBytes
  <2> QED BY <2>2, <2>3
<1>4. PICK f : Listing(a, reads, f) /\ Co!Items(a, reads) = f[Len(a)]
  BY <1>3, ItemsAre
<1>5. f[0] = Lister(<<>>, a) /\ \A i \in 0..Len(a) - 1 : f[i + 1] = Co!Element(f[i], reads)
  <2>1. 0 \in 0..Len(a) /\ \A i \in 0..Len(a) - 1 : i + 1 \in 0..Len(a) /\ i + 1 # 0 /\ (i + 1) - 1 = i
    BY <1>3
  <2> QED BY <1>4, <2>1 DEF Listing, Lister
<1> DEFINE T == {i \in Nat : i <= n => f[i] = Lister(SubSeq(items, 1, i), BytesBehind(writes, items, i))}
<1>6. 0 \in T
  <2>1. SubSeq(items, 1, 0) = <<>>
    BY <1>2
  <2> QED BY <1>1, <1>5, <2>1
<1>7. ASSUME NEW i \in T PROVE i + 1 \in T
  <2> SUFFICES ASSUME i + 1 <= n PROVE f[i + 1] = Lister(SubSeq(items, 1, i + 1), BytesBehind(writes, items, i + 1))
    OBVIOUS
  <2>1. i \in 0..n - 1 /\ i + 1 \in 1..n /\ i \in 0..Len(a) - 1 /\ i <= n /\ i \in Nat /\ i + 1 \in 0..n
    BY <1>2, <1>3
  <2>2. PICK had, v, x, y, z : had = SubSeq(items, 1, i) /\ v = items[i + 1] /\ x = ElementBytes(writes, items[i + 1])
                               /\ y = BytesBehind(writes, items, i + 1) /\ z = BytesBehind(writes, items, i)
    OBVIOUS
  <2>3. f[i] = Lister(had, z)
    BY <2>1, <2>2
  <2>4. z = x \o y /\ x \in Seq(Int) /\ y \in Seq(Int) /\ Len(x) >= 1
    BY <1>1, <2>1, <2>2, BytesBehindIs, ElementBytesType
  <2>5. z # <<>>
    <3>1. Len(z) = Len(x) + Len(y) /\ Len(y) >= 0 /\ Len(x) \in Nat
      BY ONLY <2>4
    <3>2. Len(z) # 0
      BY ONLY <3>1, <2>4
    <3> QED BY ONLY <3>2
  <2>6. Co!Parse(z, reads) = Reader(v, y)
    <3>1. Paired(writes, reads, v, y)
      BY <1>1, <2>1, <2>2, ElementPaired
    <3>2. Co!Parse(ElementBytes(writes, v) \o y, reads) = Reader(v, y)
      BY <3>1, <2>4, ParsePut DEF ElementBytes
    <3> QED BY <2>2, <2>4, <3>2
  <2>7. Co!Element(Lister(had, z), reads) = Lister(Append(had, v), y)
    <3>1. PICK list, d : list = Lister(had, z) /\ d = Co!Parse(z, reads)
      OBVIOUS
    <3>2. list.ok = TRUE /\ list.items = had /\ list.left = z
      BY ONLY <3>1 DEF Lister
    <3>3. d.ok = TRUE /\ d.vals = v /\ d.left = y
      BY ONLY <3>1, <2>6 DEF Reader
    <3>4. Co!Element(list, reads) = [ok |-> d.ok, items |-> Append(list.items, d.vals), left |-> d.left]
      BY ONLY <2>5, <3>1, <3>2 DEF Co!Element, Co!Added
    <3> QED BY ONLY <3>1, <3>2, <3>3, <3>4 DEF Lister
  <2>8. Append(had, v) = SubSeq(items, 1, i + 1)
    BY <1>1, <1>2, <2>1, <2>2
  <2> QED BY <1>5, <2>1, <2>2, <2>3, <2>7, <2>8
<1>8. T = Nat
  <2>1. T \subseteq Nat
    OBVIOUS
  <2> HIDE DEF T
  <2> QED BY <1>6, <1>7, <2>1, Inductive
<1>9. f[n] = Lister(items, <<>>)
  <2>1. f[n] = Lister(SubSeq(items, 1, n), BytesBehind(writes, items, n))
    BY <1>2, <1>8
  <2>2. SubSeq(items, 1, n) = items
    BY <1>1, <1>2
  <2>3. BytesBehind(writes, items, n) = <<>>
    BY <1>1, BytesBehindIs
  <2> QED BY <2>1, <2>2, <2>3
<1> DEFINE R == {k \in Nat : n + k <= Len(a) => f[n + k] = Lister(items, <<>>)}
<1>10. 0 \in R
  <2>1. n + 0 = n
    BY <1>2
  <2> QED BY <1>9, <2>1
<1>11. ASSUME NEW k \in R PROVE k + 1 \in R
  <2> SUFFICES ASSUME n + (k + 1) <= Len(a) PROVE f[n + (k + 1)] = Lister(items, <<>>)
    OBVIOUS
  <2>1. n + k \in 0..Len(a) - 1 /\ n + (k + 1) = (n + k) + 1 /\ n + k <= Len(a) /\ k \in Nat
    BY <1>2, <1>3
  <2>2. f[n + k] = Lister(items, <<>>)
    BY <2>1
  <2>3. Co!Element(Lister(items, <<>>), reads) = Lister(items, <<>>)
    BY DEF Co!Element, Co!Added, Lister
  <2> QED BY <1>5, <2>1, <2>2, <2>3
<1>12. R = Nat
  <2>1. R \subseteq Nat
    OBVIOUS
  <2> HIDE DEF R
  <2> QED BY <1>10, <1>11, <2>1, Inductive
<1>13. f[Len(a)] = Lister(items, <<>>)
  <2>1. PICK k : k = Len(a) - n
    OBVIOUS
  <2>2. k \in Nat /\ n + k = Len(a)
    BY <1>2, <1>3, <2>1
  <2>3. k \in R
    BY <1>12, <2>2
  <2> QED BY <1>3, <2>2, <2>3
<1> QED BY <1>1, <1>4, <1>13

-----------------------------------------------------------------------------
(* The two tables agree. *)

\* The types of the parts of the writer's table, and of the reader's.
SessionTypes ==
  {"Keystroke", "Output", "Resize", "ClipboardGet", "ClipboardEcho", "ImageData", "ImageFrame", "ImageAck",
   "Attach", "Detach", "Ping", "Pong", "ScrollbackAck", "SessionList", "ServerInfo", "Scrollback", "Signal",
   "ProcExited", "SessionDied", "Hello", "Gossip"}
MeshTypes ==
  {"SessionSearch", "SdpOffer", "SdpAnswer", "DhtFindNode", "DhtFindValue", "FileMeta", "FileChunk",
   "FileRequest", "FileAck"}
LaterTypes ==
  {"AttachAck", "OutputGap", "ConversationAppend", "ConversationQuery", "ConversationBatch", "CuaRequest",
   "CuaResponse", "JoinRequest", "CuaVideoCapture", "CuaVideoCaptureResult", "JoinReply", "JoinRefusal",
   "DirectoryEnroll"}
EarlyRead ==
  {"Keystroke", "Output", "Resize", "ClipboardGet", "ClipboardEcho", "Attach", "Detach", "SessionList",
   "ServerInfo"}
MeshRead ==
  {"Ping", "Pong", "Scrollback", "Signal", "ProcExited", "ScrollbackAck", "SessionDied", "ImageData",
   "ImageFrame", "ImageAck", "Hello", "Gossip", "SessionSearch", "SdpOffer", "SdpAnswer", "DhtFindNode",
   "DhtFindValue"}
FileRead ==
  {"FileMeta", "FileChunk", "FileAck", "FileRequest"}
AllTypes == SessionTypes \cup MeshTypes \cup LaterTypes

\* What the tables are about.
LEMMA TypesAre ==
  /\ DOMAIN Co!SessionWrites = SessionTypes /\ DOMAIN Co!MeshWrites = MeshTypes /\ DOMAIN Co!LaterWrites = LaterTypes
  /\ DOMAIN Co!SessionReads = EarlyRead /\ DOMAIN Co!MeshReads = MeshRead /\ DOMAIN Co!FileReads = FileRead
  /\ DOMAIN Co!LaterReads = LaterTypes /\ DOMAIN Co!MessageType = AllTypes
<1>1. DOMAIN Co!SessionWrites = SessionTypes
  BY DEF Co!SessionWrites, SessionTypes
<1>2. DOMAIN Co!MeshWrites = MeshTypes
  BY DEF Co!MeshWrites, MeshTypes
<1>3. DOMAIN Co!LaterWrites = LaterTypes
  BY DEF Co!LaterWrites, LaterTypes
<1>4. DOMAIN Co!SessionReads = EarlyRead
  BY DEF Co!SessionReads, EarlyRead
<1>5. DOMAIN Co!MeshReads = MeshRead
  BY DEF Co!MeshReads, MeshRead
<1>6. DOMAIN Co!FileReads = FileRead
  BY DEF Co!FileReads, FileRead
<1>7. DOMAIN Co!LaterReads = LaterTypes
  BY DEF Co!LaterReads, LaterTypes
<1>8. DOMAIN Co!MessageType = AllTypes
  BY DEF Co!MessageType, AllTypes, SessionTypes, MeshTypes, LaterTypes
<1> QED BY <1>1, <1>2, <1>3, <1>4, <1>5, <1>6, <1>7, <1>8

\* The tables are those of their parts.
LEMMA TablesAre ==
  /\ DOMAIN Co!Writes = AllTypes /\ DOMAIN Co!Reads = AllTypes
  /\ \A type \in SessionTypes : Co!Writes[type] = Co!SessionWrites[type]
  /\ \A type \in MeshTypes : Co!Writes[type] = Co!MeshWrites[type]
  /\ \A type \in LaterTypes : Co!Writes[type] = Co!LaterWrites[type]
  /\ \A type \in EarlyRead : Co!Reads[type] = Co!SessionReads[type]
  /\ \A type \in MeshRead : Co!Reads[type] = Co!MeshReads[type]
  /\ \A type \in FileRead : Co!Reads[type] = Co!FileReads[type]
  /\ \A type \in LaterTypes : Co!Reads[type] = Co!LaterReads[type]
<1>1. PICK a, b, c : a = Co!SessionWrites /\ b = Co!MeshWrites /\ c = Co!LaterWrites
  OBVIOUS
<1>2. PICK x, y, z, u : x = Co!SessionReads /\ y = Co!MeshReads /\ z = Co!FileReads /\ u = Co!LaterReads
  OBVIOUS
<1>3. Co!Writes = [type \in AllTypes |->
        CASE type \in SessionTypes -> a[type] [] type \in MeshTypes -> b[type] [] type \in LaterTypes -> c[type]]
  BY <1>1, TypesAre DEF Co!Writes
<1>4. Co!Reads = [type \in AllTypes |->
        CASE type \in EarlyRead -> x[type] [] type \in MeshRead -> y[type] [] type \in FileRead -> z[type]
          [] type \in LaterTypes -> u[type]]
  BY <1>2, TypesAre DEF Co!Reads
<1>5. /\ SessionTypes \cap MeshTypes = {} /\ SessionTypes \cap LaterTypes = {} /\ MeshTypes \cap LaterTypes = {}
  BY DEF SessionTypes, LaterTypes, MeshTypes
<1>6. /\ EarlyRead \cap MeshRead = {} /\ EarlyRead \cap FileRead = {} /\ EarlyRead \cap LaterTypes = {}
      /\ MeshRead \cap FileRead = {} /\ MeshRead \cap LaterTypes = {} /\ FileRead \cap LaterTypes = {}
  BY DEF EarlyRead, MeshRead, FileRead, LaterTypes
<1>7. EarlyRead \cup MeshRead \cup FileRead = SessionTypes \cup MeshTypes
  BY DEF EarlyRead, MeshRead, FileRead, SessionTypes, MeshTypes
<1>8. DOMAIN Co!Writes = AllTypes /\ DOMAIN Co!Reads = AllTypes
  BY <1>3, <1>4
<1>9. /\ \A type \in SessionTypes : Co!Writes[type] = a[type]
      /\ \A type \in MeshTypes : Co!Writes[type] = b[type]
      /\ \A type \in LaterTypes : Co!Writes[type] = c[type]
  BY <1>3, <1>5 DEF AllTypes
<1>10. /\ \A type \in EarlyRead : Co!Reads[type] = x[type]
       /\ \A type \in MeshRead : Co!Reads[type] = y[type]
       /\ \A type \in FileRead : Co!Reads[type] = z[type]
       /\ \A type \in LaterTypes : Co!Reads[type] = u[type]
  BY <1>4, <1>6, <1>7 DEF AllTypes
<1> QED BY <1>1, <1>2, <1>8, <1>9, <1>10

\* What the reader reads is what the writer writes, and what only the end of the payload bounds comes last, unless it is
\* the fifth field of a ServerInfo, and never before a list.
ListTypes == {"SessionList", "Hello", "Gossip", "ConversationBatch"}
Pairing(type, w, r) ==
  /\ Len(w) \in Nat /\ DOMAIN w = 1..Len(w) /\ Len(r) = Len(w)
  /\ \A i \in 1..Len(w) :
       /\ w[i] \in Kinds /\ r[i] \in ReadAs(w[i])
       /\ w[i] \in {"rest", "u8_if_set", "placing"} => i = Len(w) /\ type \notin ListTypes
       /\ w[i] = "str16_if_any" => type = "ServerInfo" /\ (i = 5 \/ i = Len(w))

\* Every kind that decode reads is one for the kind that serialize_msg wrote: in the messages of a session,
LEMMA EarlyPaired ==
  ASSUME NEW type \in EarlyRead
  PROVE  Pairing(type, Co!Writes[type], Co!Reads[type])
<1>1. CASE type = "Keystroke"
  <2>1. Co!Writes[type] = Co!SessionWrites[type] /\ Co!Reads[type] = Co!SessionReads[type]
    BY <1>1, TablesAre DEF EarlyRead, SessionTypes
  <2> QED BY <1>1, <2>1 DEF Co!SessionWrites, Co!SessionReads, Pairing, ListTypes, Kinds, ReadAs, Same
<1>2. CASE type = "Output"
  <2>1. Co!Writes[type] = Co!SessionWrites[type] /\ Co!Reads[type] = Co!SessionReads[type]
    BY <1>2, TablesAre DEF EarlyRead, SessionTypes
  <2> QED BY <1>2, <2>1 DEF Co!SessionWrites, Co!SessionReads, Pairing, ListTypes, Kinds, ReadAs, Same
<1>3. CASE type = "Resize"
  <2>1. Co!Writes[type] = Co!SessionWrites[type] /\ Co!Reads[type] = Co!SessionReads[type]
    BY <1>3, TablesAre DEF EarlyRead, SessionTypes
  <2> QED BY <1>3, <2>1 DEF Co!SessionWrites, Co!SessionReads, Pairing, ListTypes, Kinds, ReadAs, Same
<1>4. CASE type = "ClipboardGet"
  <2>1. Co!Writes[type] = Co!SessionWrites[type] /\ Co!Reads[type] = Co!SessionReads[type]
    BY <1>4, TablesAre DEF EarlyRead, SessionTypes
  <2> QED BY <1>4, <2>1 DEF Co!SessionWrites, Co!SessionReads, Pairing, ListTypes, Kinds, ReadAs, Same
<1>5. CASE type = "ClipboardEcho"
  <2>1. Co!Writes[type] = Co!SessionWrites[type] /\ Co!Reads[type] = Co!SessionReads[type]
    BY <1>5, TablesAre DEF EarlyRead, SessionTypes
  <2> QED BY <1>5, <2>1 DEF Co!SessionWrites, Co!SessionReads, Pairing, ListTypes, Kinds, ReadAs, Same
<1>6. CASE type = "Attach"
  <2>1. Co!Writes[type] = Co!SessionWrites[type] /\ Co!Reads[type] = Co!SessionReads[type]
    BY <1>6, TablesAre DEF EarlyRead, SessionTypes
  <2> QED BY <1>6, <2>1 DEF Co!SessionWrites, Co!SessionReads, Pairing, ListTypes, Kinds, ReadAs, Same
<1>7. CASE type = "Detach"
  <2>1. Co!Writes[type] = Co!SessionWrites[type] /\ Co!Reads[type] = Co!SessionReads[type]
    BY <1>7, TablesAre DEF EarlyRead, SessionTypes
  <2> QED BY <1>7, <2>1 DEF Co!SessionWrites, Co!SessionReads, Pairing, ListTypes, Kinds, ReadAs, Same
<1>8. CASE type = "SessionList"
  <2>1. Co!Writes[type] = Co!SessionWrites[type] /\ Co!Reads[type] = Co!SessionReads[type]
    BY <1>8, TablesAre DEF EarlyRead, SessionTypes
  <2> QED BY <1>8, <2>1 DEF Co!SessionWrites, Co!SessionReads, Pairing, ListTypes, Kinds, ReadAs, Same
<1>9. CASE type = "ServerInfo"
  <2>1. Co!Writes[type] = Co!SessionWrites[type] /\ Co!Reads[type] = Co!SessionReads[type]
    BY <1>9, TablesAre DEF EarlyRead, SessionTypes
  <2> QED BY <1>9, <2>1 DEF Co!SessionWrites, Co!SessionReads, Pairing, ListTypes, Kinds, ReadAs, Same
<1> QED BY <1>1, <1>2, <1>3, <1>4, <1>5, <1>6, <1>7, <1>8, <1>9 DEF EarlyRead

\* in those of the mesh,
LEMMA MeshPaired ==
  ASSUME NEW type \in MeshRead
  PROVE  Pairing(type, Co!Writes[type], Co!Reads[type])
<1>1. CASE type = "Ping"
  <2>1. Co!Writes[type] = Co!SessionWrites[type] /\ Co!Reads[type] = Co!MeshReads[type]
    BY <1>1, TablesAre DEF MeshRead, SessionTypes
  <2> QED BY <1>1, <2>1 DEF Co!SessionWrites, Co!MeshReads, Pairing, ListTypes, Kinds, ReadAs, Same
<1>2. CASE type = "Pong"
  <2>1. Co!Writes[type] = Co!SessionWrites[type] /\ Co!Reads[type] = Co!MeshReads[type]
    BY <1>2, TablesAre DEF MeshRead, SessionTypes
  <2> QED BY <1>2, <2>1 DEF Co!SessionWrites, Co!MeshReads, Pairing, ListTypes, Kinds, ReadAs, Same
<1>3. CASE type = "Scrollback"
  <2>1. Co!Writes[type] = Co!SessionWrites[type] /\ Co!Reads[type] = Co!MeshReads[type]
    BY <1>3, TablesAre DEF MeshRead, SessionTypes
  <2> QED BY <1>3, <2>1 DEF Co!SessionWrites, Co!MeshReads, Pairing, ListTypes, Kinds, ReadAs, Same
<1>4. CASE type = "Signal"
  <2>1. Co!Writes[type] = Co!SessionWrites[type] /\ Co!Reads[type] = Co!MeshReads[type]
    BY <1>4, TablesAre DEF MeshRead, SessionTypes
  <2> QED BY <1>4, <2>1 DEF Co!SessionWrites, Co!MeshReads, Pairing, ListTypes, Kinds, ReadAs, Same
<1>5. CASE type = "ProcExited"
  <2>1. Co!Writes[type] = Co!SessionWrites[type] /\ Co!Reads[type] = Co!MeshReads[type]
    BY <1>5, TablesAre DEF MeshRead, SessionTypes
  <2> QED BY <1>5, <2>1 DEF Co!SessionWrites, Co!MeshReads, Pairing, ListTypes, Kinds, ReadAs, Same
<1>6. CASE type = "ScrollbackAck"
  <2>1. Co!Writes[type] = Co!SessionWrites[type] /\ Co!Reads[type] = Co!MeshReads[type]
    BY <1>6, TablesAre DEF MeshRead, SessionTypes
  <2> QED BY <1>6, <2>1 DEF Co!SessionWrites, Co!MeshReads, Pairing, ListTypes, Kinds, ReadAs, Same
<1>7. CASE type = "SessionDied"
  <2>1. Co!Writes[type] = Co!SessionWrites[type] /\ Co!Reads[type] = Co!MeshReads[type]
    BY <1>7, TablesAre DEF MeshRead, SessionTypes
  <2> QED BY <1>7, <2>1 DEF Co!SessionWrites, Co!MeshReads, Pairing, ListTypes, Kinds, ReadAs, Same
<1>8. CASE type = "ImageData"
  <2>1. Co!Writes[type] = Co!SessionWrites[type] /\ Co!Reads[type] = Co!MeshReads[type]
    BY <1>8, TablesAre DEF MeshRead, SessionTypes
  <2> QED BY <1>8, <2>1 DEF Co!SessionWrites, Co!MeshReads, Pairing, ListTypes, Kinds, ReadAs, Same
<1>9. CASE type = "ImageFrame"
  <2>1. Co!Writes[type] = Co!SessionWrites[type] /\ Co!Reads[type] = Co!MeshReads[type]
    BY <1>9, TablesAre DEF MeshRead, SessionTypes
  <2> QED BY <1>9, <2>1 DEF Co!SessionWrites, Co!MeshReads, Pairing, ListTypes, Kinds, ReadAs, Same
<1>10. CASE type = "ImageAck"
  <2>1. Co!Writes[type] = Co!SessionWrites[type] /\ Co!Reads[type] = Co!MeshReads[type]
    BY <1>10, TablesAre DEF MeshRead, SessionTypes
  <2> QED BY <1>10, <2>1 DEF Co!SessionWrites, Co!MeshReads, Pairing, ListTypes, Kinds, ReadAs, Same
<1>11. CASE type = "Hello"
  <2>1. Co!Writes[type] = Co!SessionWrites[type] /\ Co!Reads[type] = Co!MeshReads[type]
    BY <1>11, TablesAre DEF MeshRead, SessionTypes
  <2> QED BY <1>11, <2>1 DEF Co!SessionWrites, Co!MeshReads, Pairing, ListTypes, Kinds, ReadAs, Same
<1>12. CASE type = "Gossip"
  <2>1. Co!Writes[type] = Co!SessionWrites[type] /\ Co!Reads[type] = Co!MeshReads[type]
    BY <1>12, TablesAre DEF MeshRead, SessionTypes
  <2> QED BY <1>12, <2>1 DEF Co!SessionWrites, Co!MeshReads, Pairing, ListTypes, Kinds, ReadAs, Same
<1>13. CASE type = "SessionSearch"
  <2>1. Co!Writes[type] = Co!MeshWrites[type] /\ Co!Reads[type] = Co!MeshReads[type]
    BY <1>13, TablesAre DEF MeshRead, MeshTypes
  <2> QED BY <1>13, <2>1 DEF Co!MeshWrites, Co!MeshReads, Pairing, ListTypes, Kinds, ReadAs, Same
<1>14. CASE type = "SdpOffer"
  <2>1. Co!Writes[type] = Co!MeshWrites[type] /\ Co!Reads[type] = Co!MeshReads[type]
    BY <1>14, TablesAre DEF MeshRead, MeshTypes
  <2> QED BY <1>14, <2>1 DEF Co!MeshWrites, Co!MeshReads, Pairing, ListTypes, Kinds, ReadAs, Same
<1>15. CASE type = "SdpAnswer"
  <2>1. Co!Writes[type] = Co!MeshWrites[type] /\ Co!Reads[type] = Co!MeshReads[type]
    BY <1>15, TablesAre DEF MeshRead, MeshTypes
  <2> QED BY <1>15, <2>1 DEF Co!MeshWrites, Co!MeshReads, Pairing, ListTypes, Kinds, ReadAs, Same
<1>16. CASE type = "DhtFindNode"
  <2>1. Co!Writes[type] = Co!MeshWrites[type] /\ Co!Reads[type] = Co!MeshReads[type]
    BY <1>16, TablesAre DEF MeshRead, MeshTypes
  <2> QED BY <1>16, <2>1 DEF Co!MeshWrites, Co!MeshReads, Pairing, ListTypes, Kinds, ReadAs, Same
<1>17. CASE type = "DhtFindValue"
  <2>1. Co!Writes[type] = Co!MeshWrites[type] /\ Co!Reads[type] = Co!MeshReads[type]
    BY <1>17, TablesAre DEF MeshRead, MeshTypes
  <2> QED BY <1>17, <2>1 DEF Co!MeshWrites, Co!MeshReads, Pairing, ListTypes, Kinds, ReadAs, Same
<1> QED BY <1>1, <1>2, <1>3, <1>4, <1>5, <1>6, <1>7, <1>8, <1>9, <1>10, <1>11, <1>12, <1>13, <1>14, <1>15, <1>16, <1>17 DEF MeshRead

\* of files,
LEMMA FilePaired ==
  ASSUME NEW type \in FileRead
  PROVE  Pairing(type, Co!Writes[type], Co!Reads[type])
<1>1. CASE type = "FileMeta"
  <2>1. Co!Writes[type] = Co!MeshWrites[type] /\ Co!Reads[type] = Co!FileReads[type]
    BY <1>1, TablesAre DEF FileRead, MeshTypes
  <2> QED BY <1>1, <2>1 DEF Co!MeshWrites, Co!FileReads, Pairing, ListTypes, Kinds, ReadAs, Same
<1>2. CASE type = "FileChunk"
  <2>1. Co!Writes[type] = Co!MeshWrites[type] /\ Co!Reads[type] = Co!FileReads[type]
    BY <1>2, TablesAre DEF FileRead, MeshTypes
  <2> QED BY <1>2, <2>1 DEF Co!MeshWrites, Co!FileReads, Pairing, ListTypes, Kinds, ReadAs, Same
<1>3. CASE type = "FileAck"
  <2>1. Co!Writes[type] = Co!MeshWrites[type] /\ Co!Reads[type] = Co!FileReads[type]
    BY <1>3, TablesAre DEF FileRead, MeshTypes
  <2> QED BY <1>3, <2>1 DEF Co!MeshWrites, Co!FileReads, Pairing, ListTypes, Kinds, ReadAs, Same
<1>4. CASE type = "FileRequest"
  <2>1. Co!Writes[type] = Co!MeshWrites[type] /\ Co!Reads[type] = Co!FileReads[type]
    BY <1>4, TablesAre DEF FileRead, MeshTypes
  <2> QED BY <1>4, <2>1 DEF Co!MeshWrites, Co!FileReads, Pairing, ListTypes, Kinds, ReadAs, Same
<1> QED BY <1>1, <1>2, <1>3, <1>4 DEF FileRead

\* and in the later ones.
LEMMA LaterPaired ==
  ASSUME NEW type \in LaterTypes
  PROVE  Pairing(type, Co!Writes[type], Co!Reads[type])
<1>1. CASE type = "AttachAck"
  <2>1. Co!Writes[type] = Co!LaterWrites[type] /\ Co!Reads[type] = Co!LaterReads[type]
    BY <1>1, TablesAre DEF LaterTypes
  <2> QED BY <1>1, <2>1 DEF Co!LaterWrites, Co!LaterReads, Pairing, ListTypes, Kinds, ReadAs, Same
<1>2. CASE type = "OutputGap"
  <2>1. Co!Writes[type] = Co!LaterWrites[type] /\ Co!Reads[type] = Co!LaterReads[type]
    BY <1>2, TablesAre DEF LaterTypes
  <2> QED BY <1>2, <2>1 DEF Co!LaterWrites, Co!LaterReads, Pairing, ListTypes, Kinds, ReadAs, Same
<1>3. CASE type = "ConversationAppend"
  <2>1. Co!Writes[type] = Co!LaterWrites[type] /\ Co!Reads[type] = Co!LaterReads[type]
    BY <1>3, TablesAre DEF LaterTypes
  <2> QED BY <1>3, <2>1 DEF Co!LaterWrites, Co!LaterReads, Pairing, ListTypes, Kinds, ReadAs, Same
<1>4. CASE type = "ConversationQuery"
  <2>1. Co!Writes[type] = Co!LaterWrites[type] /\ Co!Reads[type] = Co!LaterReads[type]
    BY <1>4, TablesAre DEF LaterTypes
  <2> QED BY <1>4, <2>1 DEF Co!LaterWrites, Co!LaterReads, Pairing, ListTypes, Kinds, ReadAs, Same
<1>5. CASE type = "ConversationBatch"
  <2>1. Co!Writes[type] = Co!LaterWrites[type] /\ Co!Reads[type] = Co!LaterReads[type]
    BY <1>5, TablesAre DEF LaterTypes
  <2> QED BY <1>5, <2>1 DEF Co!LaterWrites, Co!LaterReads, Pairing, ListTypes, Kinds, ReadAs, Same
<1>6. CASE type = "CuaRequest"
  <2>1. Co!Writes[type] = Co!LaterWrites[type] /\ Co!Reads[type] = Co!LaterReads[type]
    BY <1>6, TablesAre DEF LaterTypes
  <2> QED BY <1>6, <2>1 DEF Co!LaterWrites, Co!LaterReads, Pairing, ListTypes, Kinds, ReadAs, Same
<1>7. CASE type = "CuaResponse"
  <2>1. Co!Writes[type] = Co!LaterWrites[type] /\ Co!Reads[type] = Co!LaterReads[type]
    BY <1>7, TablesAre DEF LaterTypes
  <2> QED BY <1>7, <2>1 DEF Co!LaterWrites, Co!LaterReads, Pairing, ListTypes, Kinds, ReadAs, Same
<1>8. CASE type = "JoinRequest"
  <2>1. Co!Writes[type] = Co!LaterWrites[type] /\ Co!Reads[type] = Co!LaterReads[type]
    BY <1>8, TablesAre DEF LaterTypes
  <2> QED BY <1>8, <2>1 DEF Co!LaterWrites, Co!LaterReads, Pairing, ListTypes, Kinds, ReadAs, Same
<1>9. CASE type = "CuaVideoCapture"
  <2>1. Co!Writes[type] = Co!LaterWrites[type] /\ Co!Reads[type] = Co!LaterReads[type]
    BY <1>9, TablesAre DEF LaterTypes
  <2> QED BY <1>9, <2>1 DEF Co!LaterWrites, Co!LaterReads, Pairing, ListTypes, Kinds, ReadAs, Same
<1>10. CASE type = "CuaVideoCaptureResult"
  <2>1. Co!Writes[type] = Co!LaterWrites[type] /\ Co!Reads[type] = Co!LaterReads[type]
    BY <1>10, TablesAre DEF LaterTypes
  <2> QED BY <1>10, <2>1 DEF Co!LaterWrites, Co!LaterReads, Pairing, ListTypes, Kinds, ReadAs, Same
<1>11. CASE type = "JoinReply"
  <2>1. Co!Writes[type] = Co!LaterWrites[type] /\ Co!Reads[type] = Co!LaterReads[type]
    BY <1>11, TablesAre DEF LaterTypes
  <2> QED BY <1>11, <2>1 DEF Co!LaterWrites, Co!LaterReads, Pairing, ListTypes, Kinds, ReadAs, Same
<1>12. CASE type = "JoinRefusal"
  <2>1. Co!Writes[type] = Co!LaterWrites[type] /\ Co!Reads[type] = Co!LaterReads[type]
    BY <1>12, TablesAre DEF LaterTypes
  <2> QED BY <1>12, <2>1 DEF Co!LaterWrites, Co!LaterReads, Pairing, ListTypes, Kinds, ReadAs, Same
<1>13. CASE type = "DirectoryEnroll"
  <2>1. Co!Writes[type] = Co!LaterWrites[type] /\ Co!Reads[type] = Co!LaterReads[type]
    BY <1>13, TablesAre DEF LaterTypes
  <2> QED BY <1>13, <2>1 DEF Co!LaterWrites, Co!LaterReads, Pairing, ListTypes, Kinds, ReadAs, Same
<1> QED BY <1>1, <1>2, <1>3, <1>4, <1>5, <1>6, <1>7, <1>8, <1>9, <1>10, <1>11, <1>12, <1>13 DEF LaterTypes

-----------------------------------------------------------------------------
(* What encode accepts, the decoder's fields can be read from. *)

LEMMA BlobBytes ==
  ASSUME NEW v \in Nat
  PROVE  Co!Bytes(v, 4) \in Seq(Int) /\ Len(Co!Bytes(v, 4)) = 4
<1>1. Base \in Nat \ {0}
  BY CodecAssumption
<1>2. PICK n : n = 4
  OBVIOUS
<1>3. n \in Nat
  BY <1>2
<1>4. PICK f : Shifts(v, f, n) /\ Co!Bytes(v, n) = [i \in 1..n |-> f[n - i] % Base]
  <2>1. IsShifted(v, n)
    BY ONLY <1>3, BytesAre
  <2> QED BY ONLY <2>1 DEF IsShifted
<1>5. f[0] = v /\ f[1] = f[0] \div Base /\ f[2] = f[1] \div Base /\ f[3] = f[2] \div Base
  BY <1>2, <1>4 DEF Shifts
<1>6. f[0] \in Int /\ f[1] \in Int /\ f[2] \in Int /\ f[3] \in Int
  <2>1. f[0] \in Int
    BY <1>5
  <2>2. f[1] \in Int
    BY <1>1, <1>5, <2>1, DivMod
  <2>3. f[2] \in Int
    BY <1>1, <1>5, <2>2, DivMod
  <2>4. f[3] \in Int
    BY <1>1, <1>5, <2>3, DivMod
  <2> QED BY <2>1, <2>2, <2>3, <2>4
<1>7. ASSUME NEW i \in 1..n PROVE f[n - i] % Base \in Int
  <2>1. f[n - i] \in Int
    BY <1>2, <1>6
  <2> QED BY <1>1, <2>1, DivMod
<1>8. Co!Bytes(v, n) \in Seq(Int) /\ Len(Co!Bytes(v, n)) = n
  <2>1. PICK b : b = Co!Bytes(v, n)
    OBVIOUS
  <2>2. b = [i \in 1..n |-> f[n - i] % Base]
    BY <1>4, <2>1
  <2>3. b \in [1..n -> Int]
    BY <1>7, <2>2
  <2>4. b \in Seq(Int) /\ Len(b) = n
    BY ONLY <1>3, <2>3
  <2> QED BY <2>1, <2>4
<1> QED BY <1>2, <1>8

\* A field is bytes, or refused.
LEMMA PutType ==
  ASSUME NEW w \in Kinds, NEW r \in ReadAs(w), NEW v, Valid(w, v)
  PROVE  Co!Put(w, v) \in Seq(Int)
<1>1. CASE Co!Put(w, v) = Co!Refused
  BY <1>1 DEF Co!Refused
<1>2. CASE w = "blob"
  <2>1. v \in Seq(Int) /\ Len(v) \in Nat
    BY <1>2 DEF Valid
  <2>2. Co!Put(w, v) = Co!Bytes(Len(v), 4) \o v
    BY <1>2 DEF Co!Put
  <2> QED BY <2>1, <2>2, BlobBytes
<1>3. CASE Co!Put(w, v) # Co!Refused /\ w # "blob"
  <2>1. Fine(w, v)
    BY <1>3 DEF Fine
  <2>2. <<>> \in Seq(Vals) /\ <<>> \in Seq(Int)
    OBVIOUS
  <2>3. Understands(<<>>, w, v, r, <<>>)
    BY <2>1, <2>2, GetPut
  <2> QED BY <2>3 DEF Understands
<1> QED BY <1>1, <1>2, <1>3

\* What is behind some pieces is part of what they are together.
LEMMA BehindWithin ==
  ASSUME NEW S, NEW p \in Seq(Seq(S)), NEW k \in 0..Len(p)
  PROVE  /\ Len(Behind(p, k)) <= Len(Behind(p, 0))
         /\ \A i \in 1..Len(Behind(p, k)) : \E j \in 1..Len(Behind(p, 0)) : Behind(p, 0)[j] = Behind(p, k)[i]
<1> DEFINE Q(l) == /\ Len(Behind(p, l)) <= Len(Behind(p, 0))
                   /\ \A i \in 1..Len(Behind(p, l)) : \E j \in 1..Len(Behind(p, 0)) : Behind(p, 0)[j] = Behind(p, l)[i]
           T == {l \in Nat : l <= Len(p) => Q(l)}
<1>1. Behind(p, 0) \in Seq(S)
  <2>1. 0 \in 0..Len(p)
    OBVIOUS
  <2> QED BY <2>1, BehindIs
<1>2. 0 \in T
  BY <1>1
<1>3. ASSUME NEW l \in T PROVE l + 1 \in T
  <2> SUFFICES ASSUME l + 1 <= Len(p) PROVE Q(l + 1)
    OBVIOUS
  <2>1. l \in 0..Len(p) - 1 /\ l + 1 \in 0..Len(p) /\ l + 1 \in 1..Len(p) /\ l <= Len(p) /\ l \in 0..Len(p)
    OBVIOUS
  <2>2. Q(l)
    BY <2>1
  <2>3. PICK a, b, c, x : a = Behind(p, 0) /\ b = Behind(p, l) /\ c = Behind(p, l + 1) /\ x = p[l + 1]
    OBVIOUS
  <2>4. a \in Seq(S) /\ b \in Seq(S) /\ c \in Seq(S) /\ x \in Seq(S) /\ b = x \o c
    <3>1. Behind(p, l) \in Seq(S) /\ Behind(p, l + 1) \in Seq(S) /\ Behind(p, l) = p[l + 1] \o Behind(p, l + 1)
      BY <2>1, BehindIs
    <3>2. p[l + 1] \in Seq(S)
      BY <2>1
    <3> QED BY <1>1, <2>3, <3>1, <3>2
  <2>5. Len(b) <= Len(a) /\ \A i \in 1..Len(b) : \E j \in 1..Len(a) : a[j] = b[i]
    BY <2>2, <2>3
  <2>6. Len(b) = Len(x) + Len(c) /\ Len(c) \in Nat /\ Len(x) \in Nat /\ Len(a) \in Nat
    BY ONLY <2>4
  <2>7. Len(c) <= Len(a)
    BY ONLY <2>5, <2>6
  <2>8. ASSUME NEW i \in 1..Len(c) PROVE \E j \in 1..Len(a) : a[j] = c[i]
    <3>1. PICK h : h = Len(x) + i
      OBVIOUS
    <3>2. h \in 1..Len(b)
      BY ONLY <2>6, <3>1, i \in 1..Len(c)
    <3>3. b[h] = c[i]
      BY ONLY <2>4, <2>6, <3>1, i \in 1..Len(c)
    <3> QED BY <2>5, <3>2, <3>3
  <2> QED BY <2>3, <2>7, <2>8
<1>4. T = Nat
  <2>1. T \subseteq Nat
    OBVIOUS
  <2> HIDE DEF T
  <2> QED BY <1>2, <1>3, <2>1, Inductive
<1>5. Q(k)
  BY <1>4
<1> QED BY <1>5

\* A piece of a payload is not longer than the payload, and its bytes are among those of the payload.
LEMMA PieceWithin ==
  ASSUME NEW S, NEW p \in Seq(Seq(S)), NEW k \in 1..Len(p)
  PROVE  /\ Len(p[k]) <= Len(Co!FlattenSeq(p))
         /\ \A i \in 1..Len(p[k]) : \E j \in 1..Len(Co!FlattenSeq(p)) : Co!FlattenSeq(p)[j] = p[k][i]
<1>1. PICK l, a, b, c, x : l = k - 1 /\ a = Behind(p, 0) /\ b = Behind(p, l) /\ c = Behind(p, l + 1) /\ x = p[l + 1]
  OBVIOUS
<1>2. l \in 0..Len(p) - 1 /\ l \in 0..Len(p) /\ l + 1 = k /\ l + 1 \in 0..Len(p) /\ 0 \in 0..Len(p) /\ l + 1 \in 1..Len(p)
  BY <1>1
<1>3. a \in Seq(S) /\ b \in Seq(S) /\ c \in Seq(S) /\ x \in Seq(S) /\ b = x \o c /\ a = Co!FlattenSeq(p)
  <2>1. /\ Behind(p, l) \in Seq(S) /\ Behind(p, l + 1) \in Seq(S) /\ Behind(p, l) = p[l + 1] \o Behind(p, l + 1)
        /\ Behind(p, 0) \in Seq(S) /\ Behind(p, 0) = Co!FlattenSeq(p)
    BY <1>2, BehindIs
  <2>2. p[l + 1] \in Seq(S)
    BY <1>2
  <2> QED BY <1>1, <2>1, <2>2
<1>4. Len(b) <= Len(a) /\ \A i \in 1..Len(b) : \E j \in 1..Len(a) : a[j] = b[i]
  <2>1. /\ Len(Behind(p, l)) <= Len(Behind(p, 0))
        /\ \A i \in 1..Len(Behind(p, l)) : \E j \in 1..Len(Behind(p, 0)) : Behind(p, 0)[j] = Behind(p, l)[i]
    BY <1>2, BehindWithin
  <2> QED BY <1>1, <2>1
<1>5. Len(b) = Len(x) + Len(c) /\ Len(c) \in Nat /\ Len(x) \in Nat /\ Len(a) \in Nat
  BY ONLY <1>3
<1>6. Len(x) <= Len(a)
  BY ONLY <1>4, <1>5
<1>7. ASSUME NEW i \in 1..Len(x) PROVE \E j \in 1..Len(a) : a[j] = x[i]
  <2>1. i \in 1..Len(b) /\ b[i] = x[i]
    BY ONLY <1>3, <1>5, i \in 1..Len(x)
  <2> QED BY <1>4, <2>1
<1> QED BY <1>1, <1>2, <1>3, <1>6, <1>7

\* The two tables agree on every type,
LEMMA PairedTables ==
  ASSUME NEW type \in AllTypes
  PROVE  Pairing(type, Co!Writes[type], Co!Reads[type])
<1>1. AllTypes \subseteq EarlyRead \cup MeshRead \cup FileRead \cup LaterTypes
  BY DEF AllTypes, SessionTypes, MeshTypes, EarlyRead, MeshRead, FileRead
<1>2. type \in EarlyRead \/ type \in MeshRead \/ type \in FileRead \/ type \in LaterTypes
  BY <1>1
<1> QED BY <1>2, EarlyPaired, MeshPaired, FilePaired, LaterPaired

\* What Itemized says of the two tables.
ItemPairing(w, r) ==
  /\ Len(w) \in Nat \ {0} /\ DOMAIN w = 1..Len(w) /\ Len(r) = Len(w) /\ w[1] = "str8"
  /\ \A k \in 1..Len(w) : w[k] \in {"str8", "str16", "u8", "u32", "u64"} /\ w[k] \in Kinds /\ r[k] \in ReadAs(w[k])

\* and on the elements of every list.
LEMMA ItemTables ==
  /\ DOMAIN Co!ItemWrites = ListTypes /\ DOMAIN Co!ItemReads = ListTypes
  /\ \A type \in ListTypes : ItemPairing(Co!ItemWrites[type], Co!ItemReads[type])
<1>1. DOMAIN Co!ItemWrites = ListTypes
  BY DEF Co!ItemWrites, ListTypes
<1>2. DOMAIN Co!ItemReads = ListTypes
  BY DEF Co!ItemReads, ListTypes
<1>3. ASSUME NEW type \in ListTypes PROVE ItemPairing(Co!ItemWrites[type], Co!ItemReads[type])
  <2>1. CASE type = "SessionList"
    BY <2>1 DEF Co!ItemWrites, Co!ItemReads, ItemPairing, Kinds, ReadAs, Same
  <2>2. CASE type = "Hello"
    BY <2>2 DEF Co!ItemWrites, Co!ItemReads, ItemPairing, Kinds, ReadAs, Same
  <2>3. CASE type = "Gossip"
    BY <2>3 DEF Co!ItemWrites, Co!ItemReads, ItemPairing, Kinds, ReadAs, Same
  <2>4. CASE type = "ConversationBatch"
    BY <2>4 DEF Co!ItemWrites, Co!ItemReads, ItemPairing, Kinds, ReadAs, Same
  <2> QED BY <2>1, <2>2, <2>3, <2>4 DEF ListTypes
<1> QED BY <1>1, <1>2, <1>3

\* A message that the sender may have.
Permitted(m) ==
  /\ m.type \in AllTypes /\ m = [type |-> m.type, vals |-> m.vals, items |-> m.items] /\ Co!Possible(m)
  /\ m.vals \in Seq(Vals) /\ Len(m.vals) = Len(Co!Writes[m.type])
  /\ \A i \in 1..Len(m.vals) : Valid(Co!Writes[m.type][i], m.vals[i])
  /\ m.items \in Seq(Seq(Vals)) /\ Len(m.items) <= 2 /\ (m.type \notin ListTypes => m.items = <<>>)
  /\ m.type \in ListTypes =>
       \A k \in 1..Len(m.items) :
         /\ Len(m.items[k]) = Len(Co!ItemWrites[m.type])
         /\ \A i \in 1..Len(m.items[k]) : Valid(Co!ItemWrites[m.type][i], m.items[k][i])

HeadPieces(m) == Co!Fields(Co!Writes[m.type], m.vals)
ListPieces(m) == ElementPieces(Co!ItemWrites[m.type], m.items)
ListBytes(m) == Co!FlattenSeq(Co!FlattenSeq(ListPieces(m)))

\* The pieces of a message are those of its head and those of its list.
LEMMA PiecesType ==
  ASSUME NEW m, Permitted(m)
  PROVE  /\ HeadPieces(m) \in Seq(Seq(Int)) /\ Len(HeadPieces(m)) = Len(Co!Writes[m.type])
         /\ ListPieces(m) \in Seq(Seq(Seq(Int))) /\ Len(ListPieces(m)) = Len(m.items)
         /\ Co!Pieces(m) = HeadPieces(m) \o Co!FlattenSeq(ListPieces(m))
<1>1. PICK w, r, n : w = Co!Writes[m.type] /\ r = Co!Reads[m.type] /\ n = Len(w)
  OBVIOUS
<1>2. Pairing(m.type, w, r)
  BY <1>1, PairedTables DEF Permitted
<1>3. n \in Nat /\ DOMAIN w = 1..n
  BY <1>1, <1>2 DEF Pairing
<1>4. ASSUME NEW i \in 1..n PROVE Co!Put(w[i], m.vals[i]) \in Seq(Int)
  <2>1. w[i] \in Kinds /\ r[i] \in ReadAs(w[i])
    BY <1>1, <1>2 DEF Pairing
  <2>2. Valid(w[i], m.vals[i])
    BY <1>1 DEF Permitted
  <2> QED BY <2>1, <2>2, PutType
<1>5. HeadPieces(m) = [i \in 1..n |-> Co!Put(w[i], m.vals[i])]
  BY <1>1, <1>3 DEF HeadPieces, Co!Fields
<1>6. HeadPieces(m) \in Seq(Seq(Int)) /\ Len(HeadPieces(m)) = n
  <2>1. HeadPieces(m) \in [1..n -> Seq(Int)]
    BY <1>4, <1>5
  <2> QED BY <1>3, <2>1
<1>7. DOMAIN m.items = 1..Len(m.items) /\ Len(m.items) \in Nat
  BY DEF Permitted
<1>8. ASSUME NEW k \in 1..Len(m.items) PROVE Co!Fields(Co!ItemWrites[m.type], m.items[k]) \in Seq(Seq(Int))
  <2>1. PICK v, x, y : v = m.items[k] /\ x = Co!ItemWrites[m.type] /\ y = Co!ItemReads[m.type]
    OBVIOUS
  <2>2. m.type \in ListTypes
    <3>1. m.items # <<>>
      BY <1>7
    <3> QED BY <3>1 DEF Permitted
  <2>3. ItemPairing(x, y)
    BY <2>1, <2>2, ItemTables
  <2>4. Len(x) \in Nat /\ DOMAIN x = 1..Len(x)
    BY <2>3 DEF ItemPairing
  <2>5. ASSUME NEW i \in 1..Len(x) PROVE Co!Put(x[i], v[i]) \in Seq(Int)
    <3>1. x[i] \in Kinds /\ y[i] \in ReadAs(x[i])
      BY <2>3 DEF ItemPairing
    <3>2. Valid(x[i], v[i])
      BY <2>1, <2>2 DEF Permitted
    <3> QED BY <3>1, <3>2, PutType
  <2>6. Co!Fields(x, v) = [i \in 1..Len(x) |-> Co!Put(x[i], v[i])]
    BY <2>4 DEF Co!Fields
  <2>7. Co!Fields(x, v) \in [1..Len(x) -> Seq(Int)]
    BY <2>5, <2>6
  <2>8. Co!Fields(x, v) \in Seq(Seq(Int))
    BY <2>4, <2>7
  <2> QED BY <2>1, <2>8
<1>9. ListPieces(m) \in Seq(Seq(Seq(Int))) /\ Len(ListPieces(m)) = Len(m.items)
  <2>1. ListPieces(m) = [k \in 1..Len(m.items) |-> Co!Fields(Co!ItemWrites[m.type], m.items[k])]
    BY <1>7 DEF ListPieces, ElementPieces
  <2>2. ListPieces(m) \in [1..Len(m.items) -> Seq(Seq(Int))]
    BY <1>8, <2>1
  <2> QED BY <1>7, <2>2
<1>10. Co!Pieces(m) = HeadPieces(m) \o Co!FlattenSeq(ListPieces(m))
  BY DEF Co!Pieces, HeadPieces, ListPieces, ElementPieces
<1> QED BY <1>1, <1>6, <1>9, <1>10

\* A message whose fields encode takes.
Written(m) ==
  /\ Permitted(m) /\ (\A i \in DOMAIN Co!Pieces(m) : Co!Pieces(m)[i] # Co!Refused)
  /\ Fits(Len(Co!Payload(m)), 4)

\* Its payload is the bytes of the two, one behind the other.
LEMMA PayloadIs ==
  ASSUME NEW m, Permitted(m)
  PROVE  /\ Co!Pieces(m) \in Seq(Seq(Int)) /\ Co!Payload(m) \in Seq(Int)
         /\ Co!FlattenSeq(HeadPieces(m)) \in Seq(Int) /\ ListBytes(m) \in Seq(Int)
         /\ Co!Payload(m) = Co!FlattenSeq(HeadPieces(m)) \o ListBytes(m)
<1>1. PICK p, q, z : p = HeadPieces(m) /\ q = ListPieces(m) /\ z = Co!FlattenSeq(q)
  OBVIOUS
<1>2. p \in Seq(Seq(Int)) /\ q \in Seq(Seq(Seq(Int))) /\ Co!Pieces(m) = p \o z
  BY <1>1, PiecesType
<1>3. z \in Seq(Seq(Int))
  BY <1>1, <1>2, FlattenType
<1>4. p \o z \in Seq(Seq(Int))
  BY <1>2, <1>3
<1>5. Co!FlattenSeq(p) \in Seq(Int) /\ Co!FlattenSeq(z) \in Seq(Int) /\ Co!FlattenSeq(p \o z) \in Seq(Int)
  BY <1>2, <1>3, <1>4, FlattenType
<1>6. Co!FlattenSeq(p \o z) = Co!FlattenSeq(p) \o Co!FlattenSeq(z)
  BY <1>2, <1>3, FlattenConcat
<1> QED BY <1>1, <1>2, <1>4, <1>5, <1>6 DEF Co!Payload, ListBytes

\* No field of the head was refused, and no blob is longer than its prefix can say.
LEMMA HeadFine ==
  ASSUME NEW m, Written(m), NEW i \in 1..Len(m.vals)
  PROVE  Fine(Co!Writes[m.type][i], m.vals[i])
<1>1. PICK p, z, s, w, v : p = HeadPieces(m) /\ z = Co!FlattenSeq(ListPieces(m)) /\ s = Co!Pieces(m) /\ w = Co!Writes[m.type][i]
                           /\ v = m.vals[i]
  OBVIOUS
<1>2. Permitted(m)
  BY DEF Written
<1>3. p \in Seq(Seq(Int)) /\ Len(p) = Len(m.vals) /\ s = p \o z
  <2>1. Len(m.vals) = Len(Co!Writes[m.type])
    BY <1>2 DEF Permitted
  <2> QED BY <1>1, <1>2, <2>1, PiecesType
<1>4. z \in Seq(Seq(Int)) /\ s \in Seq(Seq(Int))
  <2>1. z \in Seq(Seq(Int))
    BY <1>1, <1>2, PiecesType, FlattenType
  <2> QED BY <1>1, <1>2, <2>1, PayloadIs
<1>5. i \in 1..Len(s) /\ s[i] = p[i]
  BY ONLY <1>3, <1>4, i \in 1..Len(m.vals)
<1>6. p[i] = Co!Put(w, v)
  <2>1. Pairing(m.type, Co!Writes[m.type], Co!Reads[m.type]) /\ Len(m.vals) = Len(Co!Writes[m.type])
    BY <1>2, PairedTables DEF Permitted
  <2>2. i \in DOMAIN Co!Writes[m.type]
    BY <2>1 DEF Pairing
  <2> QED BY <1>1, <2>2 DEF HeadPieces, Co!Fields
<1>7. Co!Put(w, v) # Co!Refused
  <2>1. i \in DOMAIN s
    BY <1>4, <1>5
  <2> QED BY <1>1, <1>5, <1>6, <2>1 DEF Written
<1>8. ASSUME w = "blob" PROVE Fits(Len(v), 4)
  <2>1. v \in Seq(Int)
    BY <1>1, <1>2, <1>8 DEF Permitted, Valid
  <2>2. Co!Put(w, v) = Co!Bytes(Len(v), 4) \o v
    BY <1>8 DEF Co!Put
  <2>3. PICK b : b = Co!Bytes(Len(v), 4)
    OBVIOUS
  <2>4. b \in Seq(Int) /\ Len(b) = 4 /\ s[i] = b \o v
    <3>1. Len(v) \in Nat
      BY <2>1
    <3> QED BY <1>5, <1>6, <2>2, <2>3, <3>1, BlobBytes
  <2>5. Len(s[i]) = 4 + Len(v) /\ Len(v) \in Nat
    <3>1. b \in Seq(Int)
      BY <2>4
    <3>2. Len(b \o v) = Len(b) + Len(v) /\ Len(v) \in Nat
      BY ONLY <2>1, <3>1
    <3> QED BY <2>4, <3>2
  <2>6. Len(s[i]) <= Len(Co!FlattenSeq(s))
    BY <1>4, <1>5, PieceWithin
  <2>7. PICK l : l = Len(Co!FlattenSeq(s))
    OBVIOUS
  <2>8. l \in Nat /\ Fits(l, 4)
    BY <1>1, <1>2, <2>7, PayloadIs DEF Written, Co!Payload
  <2>9. Base \in Nat /\ Base * (Base * (Base * Base)) \in Nat
    BY CodecAssumption
  <2>10. l < Base * (Base * (Base * Base))
    BY <2>8 DEF Fits
  <2>11. Len(v) < Base * (Base * (Base * Base))
    <3>1. PICK c : c = Base * (Base * (Base * Base))
      OBVIOUS
    <3> QED BY <2>5, <2>6, <2>7, <2>8, <2>9, <2>10, <3>1
  <2> QED BY <2>11 DEF Fits
<1> QED BY <1>1, <1>7, <1>8 DEF Fine

\* The fields of a head pair off with the kinds that are read.
LEMMA HeadPaired ==
  ASSUME NEW m, Written(m)
  PROVE  Paired(Co!Writes[m.type], Co!Reads[m.type], m.vals, ListBytes(m))
<1>1. PICK w, r, n : w = Co!Writes[m.type] /\ r = Co!Reads[m.type] /\ n = Len(w)
  OBVIOUS
<1>2. Permitted(m)
  BY DEF Written
<1>3. Pairing(m.type, w, r)
  BY <1>1, <1>2, PairedTables DEF Permitted
<1>4. m.vals \in Seq(Vals) /\ Len(m.vals) = n
  BY <1>1, <1>2 DEF Permitted
<1>5. m.type \notin ListTypes => ListBytes(m) = <<>>
  <2> SUFFICES ASSUME m.type \notin ListTypes PROVE ListBytes(m) = <<>>
    OBVIOUS
  <2>1. Len(m.items) = 0
    BY <1>2 DEF Permitted
  <2>2. ListPieces(m) = <<>>
    BY <1>2, <2>1, PiecesType
  <2> QED BY <2>2, FlattenEmpty DEF ListBytes
<1>6. ASSUME NEW i \in 1..n PROVE /\ w[i] \in Kinds /\ r[i] \in ReadAs(w[i])
                                  /\ Valid(w[i], m.vals[i]) /\ Fine(w[i], m.vals[i])
                                  /\ Ends(w[i], m.vals[i]) => i = n /\ ListBytes(m) = <<>>
  <2>1. w[i] \in Kinds /\ r[i] \in ReadAs(w[i])
    BY <1>1, <1>3 DEF Pairing
  <2>2. Valid(w[i], m.vals[i])
    BY <1>1, <1>2, <1>4 DEF Permitted
  <2>3. Fine(w[i], m.vals[i])
    BY <1>1, <1>4, HeadFine
  <2>4. ASSUME Ends(w[i], m.vals[i]) PROVE i = n /\ ListBytes(m) = <<>>
    <3>1. CASE w[i] \in {"rest", "u8_if_set", "placing"}
      BY <1>1, <1>3, <1>5, <3>1 DEF Pairing
    <3>2. CASE w[i] = "str16_if_any" /\ m.vals[i] = <<>>
      <4>1. m.type = "ServerInfo" /\ (i = 5 \/ i = n)
        BY <1>1, <1>3, <3>2 DEF Pairing
      <4>2. i # 5
        BY <1>2, <3>2, <4>1 DEF Permitted, Co!Possible
      <4>3. m.type \notin ListTypes
        BY <4>1 DEF ListTypes
      <4> QED BY <1>5, <4>1, <4>2, <4>3
    <3> QED BY <2>4, <3>1, <3>2 DEF Ends
  <2> QED BY <2>1, <2>2, <2>3, <2>4
<1>7. n \in Nat /\ DOMAIN w = 1..n /\ Len(r) = n
  BY <1>1, <1>3 DEF Pairing
<1> QED BY <1>1, <1>4, <1>6, <1>7 DEF Paired

\* So do those of the elements of its list.
LEMMA ItemsListed ==
  ASSUME NEW m, Written(m), m.type \in ListTypes
  PROVE  Itemized(Co!ItemWrites[m.type], Co!ItemReads[m.type], m.items)
<1>1. PICK w, r, n : w = Co!ItemWrites[m.type] /\ r = Co!ItemReads[m.type] /\ n = Len(w)
  OBVIOUS
<1>2. Permitted(m)
  BY DEF Written
<1>3. ItemPairing(w, r)
  BY <1>1, ItemTables
<1>4. PICK p, q, z, s : p = HeadPieces(m) /\ q = ListPieces(m) /\ z = Co!FlattenSeq(q) /\ s = Co!Pieces(m)
  OBVIOUS
<1>5. p \in Seq(Seq(Int)) /\ q \in Seq(Seq(Seq(Int))) /\ s = p \o z /\ Len(q) = Len(m.items)
  BY <1>2, <1>4, PiecesType
<1>6. z \in Seq(Seq(Int))
  BY <1>4, <1>5, FlattenType
<1>7. n \in Nat /\ DOMAIN w = 1..n /\ Len(r) = n
  BY <1>1, <1>3 DEF ItemPairing
<1>8. ASSUME NEW k \in 1..Len(m.items), NEW i \in 1..n PROVE Fine(w[i], m.items[k][i])
  <2>1. PICK x, y : x = q[k] /\ y = Co!Put(w[i], m.items[k][i])
    OBVIOUS
  <2>2. DOMAIN m.items = 1..Len(m.items)
    BY <1>2 DEF Permitted
  <2>3. x = Co!Fields(w, m.items[k])
    BY <1>1, <1>4, <2>1, <2>2 DEF ListPieces, ElementPieces
  <2>4. x[i] = y /\ Len(x) = n
    <3>1. x = [j \in 1..n |-> Co!Put(w[j], m.items[k][j])]
      BY <1>7, <2>3 DEF Co!Fields
    <3>2. k \in 1..Len(q) /\ x \in Seq(Seq(Int))
      BY <1>5, <2>1
    <3> QED BY <1>7, <2>1, <3>1, <3>2
  <2>5. k \in 1..Len(q) /\ i \in 1..Len(q[k])
    BY <1>5, <2>1, <2>4
  <2>6. PICK j \in 1..Len(Co!FlattenSeq(q)) : Co!FlattenSeq(q)[j] = q[k][i]
    BY <1>5, <2>5, PieceWithin
  <2>7. j \in 1..Len(z) /\ z[j] = y
    BY <1>4, <2>1, <2>4, <2>6
  <2>8. PICK l : l = Len(p) + j
    OBVIOUS
  <2>9. l \in DOMAIN s /\ s[l] = z[j]
    BY ONLY <1>5, <1>6, <2>7, <2>8
  <2>10. y # Co!Refused
    BY <1>4, <2>7, <2>9 DEF Written
  <2>11. w[i] # "blob"
    BY <1>1, <1>3 DEF ItemPairing
  <2> QED BY <2>1, <2>10, <2>11 DEF Fine
<1>9. ASSUME NEW k \in 1..Len(m.items) PROVE Paired(w, r, m.items[k], <<>>)
  <2>1. m.items[k] \in Seq(Vals) /\ Len(m.items[k]) = n
    BY <1>1, <1>2 DEF Permitted
  <2>2. ASSUME NEW i \in 1..n PROVE /\ w[i] \in Kinds /\ r[i] \in ReadAs(w[i]) /\ Valid(w[i], m.items[k][i])
                                    /\ Fine(w[i], m.items[k][i]) /\ ~Ends(w[i], m.items[k][i])
    <3>1. w[i] \in Kinds /\ r[i] \in ReadAs(w[i]) /\ w[i] \in {"str8", "str16", "u8", "u32", "u64"}
      BY <1>1, <1>3 DEF ItemPairing
    <3>2. Valid(w[i], m.items[k][i])
      BY <1>1, <1>2, <2>1 DEF Permitted
    <3>3. ~Ends(w[i], m.items[k][i])
      BY <3>1 DEF Ends
    <3> QED BY <1>8, <3>1, <3>2, <3>3
  <2> QED BY <1>1, <1>7, <2>1, <2>2 DEF Paired
<1>10. m.items \in Seq(Seq(Vals))
  BY <1>2 DEF Permitted
<1>11. Len(w) \in Nat \ {0} /\ w[1] = "str8" /\ \A k \in 1..Len(w) : w[k] \in {"str8", "str16", "u8", "u32", "u64"}
  BY <1>3 DEF ItemPairing
<1> QED BY <1>1, <1>9, <1>10, <1>11 DEF Itemized

\* decode of the payload is the message, if it reads the payload as what it is.
LEMMA MessageExact ==
  ASSUME NEW m, Written(m), Co!KindsOf(m.type, Co!Payload(m)) = Co!Reads[m.type]
  PROVE  Co!MessageOf(m.type, Co!Payload(m)) = m
<1>1. PICK a, t, head : a = Co!Payload(m) /\ t = ListBytes(m) /\ head = Co!Parse(a, Co!Reads[m.type])
  OBVIOUS
<1>2. Permitted(m)
  BY DEF Written
<1>3. t \in Seq(Int) /\ a = Co!FlattenSeq(HeadPieces(m)) \o t
  BY <1>1, <1>2, PayloadIs
<1>4. head = Reader(m.vals, t)
  <2>1. Paired(Co!Writes[m.type], Co!Reads[m.type], m.vals, t)
    BY <1>1, HeadPaired
  <2>2. Co!Parse(Co!FlattenSeq(Co!Fields(Co!Writes[m.type], m.vals)) \o t, Co!Reads[m.type]) = Reader(m.vals, t)
    BY <1>3, <2>1, ParsePut
  <2> QED BY <1>1, <1>3, <2>2 DEF HeadPieces
<1>5. head.ok = TRUE /\ head.vals = m.vals /\ head.left = t
  BY <1>4 DEF Reader
<1>6. PICK list : list = Co!ListOf(m.type, head)
  OBVIOUS
<1>7. list.ok = TRUE /\ list.items = m.items
  <2>1. CASE m.type \in ListTypes
    <3>1. Itemized(Co!ItemWrites[m.type], Co!ItemReads[m.type], m.items)
      BY <2>1, ItemsListed
    <3>2. t = BytesBehind(Co!ItemWrites[m.type], m.items, 0)
      BY <1>1, <3>1, BytesBehindIs DEF ListBytes, ListPieces
    <3>3. Co!Items(t, Co!ItemReads[m.type]) = Lister(m.items, <<>>)
      BY <3>1, <3>2, ItemsPut
    <3>4. list = Co!Items(t, Co!ItemReads[m.type])
      BY <1>5, <1>6, <2>1, ItemTables DEF Co!ListOf
    <3> QED BY <3>3, <3>4 DEF Lister
  <2>2. CASE m.type \notin ListTypes
    <3>1. list = [ok |-> head.ok, items |-> <<>>, left |-> head.left]
      BY <1>6, <2>2, ItemTables DEF Co!ListOf
    <3>2. m.items = <<>>
      BY <1>2, <2>2 DEF Permitted
    <3> QED BY <1>5, <3>1, <3>2
  <2> QED BY <2>1, <2>2
<1>8. Len(m.items) <= BatchMax
  <2>1. Len(m.items) \in Nat /\ Len(m.items) <= 2
    BY <1>2 DEF Permitted
  <2> QED BY <2>1, CodecAssumption
<1>9. Len(m.items) \in Nat /\ BatchMax \in Nat
  BY <1>2, CodecAssumption DEF Permitted
<1>10. ~(Len(list.items) > BatchMax)
  BY <1>7, <1>8, <1>9
<1>11. Co!MessageOf(m.type, a) = Co!Message(m.type, head, list)
  BY <1>1, <1>6 DEF Co!MessageOf, Co!Made
<1>12. Co!Message(m.type, head, list) = [type |-> m.type, vals |-> head.vals, items |-> list.items]
  BY <1>7, <1>10 DEF Co!Message
<1> QED BY <1>1, <1>2, <1>5, <1>7, <1>11, <1>12 DEF Permitted

-----------------------------------------------------------------------------
(* The frame of a message. *)

\* Two types with one byte are the two forms of a JoinReplyMsg.
LEMMA BytesOfTypes ==
  /\ \A type \in AllTypes : Co!MessageType[type] \in 1..44
  /\ Co!MessageType["JoinReply"] = 41 /\ Co!MessageType["JoinRefusal"] = 41
  /\ \A a, b \in AllTypes :
       Co!MessageType[a] = Co!MessageType[b] => a = b \/ (a \in {"JoinReply", "JoinRefusal"} /\ b \in {"JoinReply", "JoinRefusal"})
<1>1. \A type \in AllTypes : Co!MessageType[type] \in 1..44
  BY DEF Co!MessageType, AllTypes, SessionTypes, MeshTypes, LaterTypes
<1>2. Co!MessageType["JoinReply"] = 41 /\ Co!MessageType["JoinRefusal"] = 41
  BY DEF Co!MessageType
<1>3. ASSUME NEW a \in AllTypes, NEW b \in AllTypes, Co!MessageType[a] = Co!MessageType[b]
      PROVE  a = b \/ (a \in {"JoinReply", "JoinRefusal"} /\ b \in {"JoinReply", "JoinRefusal"})
  BY <1>3 DEF Co!MessageType, AllTypes, SessionTypes, MeshTypes, LaterTypes
<1> QED BY <1>1, <1>2, <1>3

\* The first byte of a JoinReplyMsg says which of its forms it is.
LEMMA JoinFlag ==
  ASSUME NEW m, Written(m), m.type \in {"JoinReply", "JoinRefusal"}
  PROVE  Head(Co!Payload(m) \o <<0>>) = IF m.type = "JoinReply" THEN 1 ELSE 0
<1>1. Permitted(m)
  BY DEF Written
<1>2. PICK p, t, x : p = HeadPieces(m) /\ t = ListBytes(m) /\ x = <<IF m.type = "JoinReply" THEN 1 ELSE 0>>
  OBVIOUS
<1>3. Co!Writes[m.type][1] = "flag" /\ Len(Co!Writes[m.type]) \in Nat /\ Len(Co!Writes[m.type]) >= 2
      /\ DOMAIN Co!Writes[m.type] = 1..Len(Co!Writes[m.type])
  <2>1. m.type \in LaterTypes
    BY DEF LaterTypes
  <2>2. Co!Writes[m.type] = Co!LaterWrites[m.type]
    BY <2>1, TablesAre
  <2>3. CASE m.type = "JoinReply"
    BY <2>2, <2>3 DEF Co!LaterWrites
  <2>4. CASE m.type = "JoinRefusal"
    BY <2>2, <2>4 DEF Co!LaterWrites
  <2> QED BY <2>3, <2>4
<1>4. p \in Seq(Seq(Int)) /\ Len(p) = Len(Co!Writes[m.type]) /\ t \in Seq(Int) /\ Co!Payload(m) = Co!FlattenSeq(p) \o t
  BY <1>1, <1>2, PiecesType, PayloadIs
<1>5. p # <<>> /\ Head(p) = p[1]
  BY <1>3, <1>4
<1>6. p[1] = x
  <2>1. 1 \in DOMAIN Co!Writes[m.type]
    BY <1>3
  <2>2. p[1] = Co!Put("flag", m.vals[1])
    BY <1>2, <1>3, <2>1 DEF HeadPieces, Co!Fields
  <2>3. Co!Put("flag", m.vals[1]) = <<IF m.vals[1] THEN 1 ELSE 0>>
    BY DEF Co!Put
  <2>4. (m.type = "JoinReply" => m.vals[1]) /\ (m.type = "JoinRefusal" => ~m.vals[1])
    BY <1>1 DEF Permitted, Co!Possible
  <2>5. CASE m.type = "JoinReply"
    BY <1>2, <2>2, <2>3, <2>4, <2>5
  <2>6. CASE m.type = "JoinRefusal"
    BY <1>2, <2>2, <2>3, <2>4, <2>6
  <2> QED BY <2>5, <2>6
<1>7. PICK u, y : u = Co!FlattenSeq(Tail(p)) /\ y = Co!FlattenSeq(p)
  OBVIOUS
<1>8. x \in Seq(Int) /\ Len(x) = 1 /\ x[1] = IF m.type = "JoinReply" THEN 1 ELSE 0
  BY <1>2
<1>9. u \in Seq(Int) /\ y = x \o u
  <2>1. Tail(p) \in Seq(Seq(Int))
    BY <1>4, <1>5
  <2>2. u \in Seq(Int)
    BY <1>7, <2>1, FlattenType
  <2>3. y = Head(p) \o u
    BY <1>4, <1>5, <1>7, FlattenTail
  <2> QED BY <1>5, <1>6, <2>2, <2>3
<1>10. PICK z : z = (y \o t) \o <<0>>
  OBVIOUS
<1>11. z = ((x \o u) \o t) \o <<0>>
  BY <1>9, <1>10
<1>12. Head(z) = x[1]
  <2>1. x \in Seq(Int) /\ u \in Seq(Int) /\ t \in Seq(Int) /\ Len(x) >= 1
    BY <1>4, <1>8, <1>9
  <2>2. PICK a : a = x \o u
    OBVIOUS
  <2>3. a \in Seq(Int) /\ Len(a) >= 1 /\ a[1] = x[1]
    BY ONLY <2>1, <2>2, SameFront
  <2>5. PICK b : b = a \o t
    OBVIOUS
  <2>6. b \in Seq(Int) /\ Len(b) >= 1 /\ b[1] = a[1]
    BY ONLY <2>1, <2>3, <2>5, SameFront
  <2>7. z = b \o <<0>>
    BY <1>11, <2>2, <2>5
  <2>8. <<0>> \in Seq(Int)
    OBVIOUS
  <2>9. z \in Seq(Int) /\ Len(z) >= 1 /\ z[1] = b[1]
    BY ONLY <2>6, <2>7, <2>8, SameFront
  <2>10. Head(z) = z[1]
    BY ONLY <2>9
  <2> QED BY ONLY <2>3, <2>6, <2>9, <2>10
<1> QED BY <1>4, <1>7, <1>8, <1>10, <1>12

\* The byte and the payload of a message give its type.
LEMMA TypeExact ==
  ASSUME NEW m, Written(m)
  PROVE  /\ Co!TypeOf(Co!MessageType[m.type], Co!Payload(m)) = m.type
         /\ Co!MessageType[m.type] \in Int
         /\ \E t \in DOMAIN Co!MessageType : Co!MessageType[t] = Co!MessageType[m.type]
<1>1. m.type \in AllTypes /\ DOMAIN Co!MessageType = AllTypes
  BY TypesAre DEF Written, Permitted
<1>2. Co!MessageType[m.type] \in Int
  BY <1>1, BytesOfTypes
<1>3. CASE Co!MessageType[m.type] = 41
  <2>1. m.type \in {"JoinReply", "JoinRefusal"}
    <3>1. "JoinReply" \in AllTypes
      BY DEF AllTypes, LaterTypes
    <3> QED BY <1>1, <1>3, <3>1, BytesOfTypes
  <2>2. Head(Co!Payload(m) \o <<0>>) = IF m.type = "JoinReply" THEN 1 ELSE 0
    BY <2>1, JoinFlag
  <2>3. Co!TypeOf(Co!MessageType[m.type], Co!Payload(m))
          = IF Head(Co!Payload(m) \o <<0>>) # 0 THEN "JoinReply" ELSE "JoinRefusal"
    BY <1>3, BytesOfTypes DEF Co!TypeOf
  <2> QED BY <1>1, <1>2, <2>1, <2>2, <2>3
<1>4. CASE Co!MessageType[m.type] # 41
  <2>1. m.type \notin {"JoinReply", "JoinRefusal"}
    BY <1>4, BytesOfTypes
  <2>2. \A t \in AllTypes : Co!MessageType[t] = Co!MessageType[m.type] => t = m.type
    BY <1>1, <2>1, BytesOfTypes
  <2>3. Co!TypeOf(Co!MessageType[m.type], Co!Payload(m))
          = CHOOSE type \in AllTypes : Co!MessageType[type] = Co!MessageType[m.type]
    BY <1>1, <1>4, BytesOfTypes DEF Co!TypeOf
  <2> QED BY <1>1, <1>2, <2>2, <2>3
<1> QED BY <1>3, <1>4

\* A message the sender may have and encode takes, and that is not taken for one of an old release.
Sendable(m, allow) == Permitted(m) /\ Co!Encodable(m, allow) /\ ~Co!TakenForOld(m)

\* The caps fit in the prefixes.
LEMMA CapsFit ==
  /\ Co!Cap16 \in Nat /\ \A l \in Nat : l <= Co!Cap16 => Fits(l, 2) /\ Fits(l, 4)
  /\ Cap32 \in Nat /\ \A l \in Nat : l <= Cap32 => Fits(l, 4)
<1>1. Base \in Nat /\ Base >= 2 /\ Cap32 \in Nat /\ Cap32 < Base * (Base * (Base * Base))
  BY CodecAssumption
<1>2. ASSUME NEW x \in Nat PROVE Base * x \in Nat /\ x <= Base * x
  <2>1. x * 1 <= x * Base
    BY <1>1, Times
  <2>2. x * 1 = x /\ x * Base = Base * x
    BY <1>1
  <2> QED BY <1>1, <2>1, <2>2
<1>3. PICK a, b, c : a = Base * Base /\ b = Base * a /\ c = Base * b
  OBVIOUS
<1>4. a \in Nat /\ b \in Nat /\ c \in Nat /\ Base <= a /\ a <= b /\ b <= c
  BY <1>1, <1>2, <1>3
<1>5. c = Base * (Base * (Base * Base))
  BY <1>3
<1>6. Co!Cap16 = a - 1
  BY <1>3 DEF Co!Cap16
<1>7. Co!Cap16 \in Nat
  BY <1>1, <1>4, <1>6
<1>8. ASSUME NEW l \in Nat, l <= Co!Cap16 PROVE Fits(l, 2) /\ Fits(l, 4)
  <2>1. l < a /\ l < c
    BY <1>4, <1>6, <1>8
  <2> QED BY <1>3, <1>5, <2>1 DEF Fits
<1>9. ASSUME NEW l \in Nat, l <= Cap32 PROVE Fits(l, 4)
  <2>1. l < c
    BY <1>1, <1>4, <1>5, <1>9
  <2> QED BY <1>5, <2>1 DEF Fits
<1> QED BY <1>1, <1>7, <1>8, <1>9

\* What encode accepts is written as the reader expects it.
LEMMA SendableWritten ==
  ASSUME NEW m, NEW allow \in BOOLEAN, Sendable(m, allow)
  PROVE  Written(m) /\ Co!Payload(m) \in Seq(Int) /\ Co!KindsOf(m.type, Co!Payload(m)) = Co!Reads[m.type]
<1>1. PICK a : a = Co!Payload(m)
  OBVIOUS
<1>2. Permitted(m) /\ Co!Encodable(m, allow) /\ ~Co!TakenForOld(m)
  BY DEF Sendable
<1>3. a \in Seq(Int) /\ Len(a) \in Nat
  <2>1. a \in Seq(Int)
    BY <1>1, <1>2, PayloadIs
  <2> QED BY <2>1
<1>4. Fits(Len(a), 4)
  <2>1. Len(a) <= Co!Cap16 \/ Len(a) <= Cap32
    BY <1>1, <1>2 DEF Co!Encodable
  <2> QED BY <1>3, <2>1, CapsFit
<1>5. Written(m)
  BY <1>1, <1>2, <1>4 DEF Written, Co!Encodable
<1>6. Co!KindsOf(m.type, a) = Co!Reads[m.type]
  <2> DEFINE newlines == {i \in DOMAIN a : a[i] = Newline}
  <2>1. SUFFICES ASSUME m.type = "ServerInfo", NEW i \in newlines, NEW j \in newlines, i # j PROVE FALSE
    BY DEF Co!KindsOf
  <2>2. i \in Int /\ j \in Int
    BY <1>3
  <2>3. i < j \/ j < i
    BY <2>1, <2>2
  <2>4. i \in DOMAIN a /\ j \in DOMAIN a /\ a[i] = Newline /\ a[j] = Newline
    OBVIOUS
  <2> QED BY <1>1, <1>2, <2>1, <2>3, <2>4 DEF Co!TakenForOld
<1> QED BY <1>1, <1>3, <1>5, <1>6

\* The data of a frame, and whether its length has four bytes.
Data(m) == Co!Encoded(Co!Payload(m))
Wide(m, allow) == allow /\ Len(Data(m)) > Co!Cap16
Width(m, allow) == IF Wide(m, allow) THEN 4 ELSE 2

\* What zstd made is what it was, once decompressed.
LEMMA Unzipped ==
  ASSUME NEW a \in Seq(Int), a # <<>>
  PROVE  /\ Co!Zstd(a) \in Seq(Int) /\ Co!Zstd(a) # <<>> /\ Co!Zstd(a)[1] = Base
         /\ Co!Unzstd(Co!Zstd(a)) = a
<1>1. PICK n, h, z, s : n = Len(a) /\ h = <<Base>> /\ z = [i \in 1..n |-> a[i] + Base] /\ s = h \o z
  OBVIOUS
<1>2. n \in Nat /\ \A i \in 1..n : a[i] \in Int
  BY <1>1
<1>3. Base \in Nat
  BY CodecAssumption
<1>4. z \in [1..n -> Int]
  BY <1>1, <1>2, <1>3
<1>5. z \in Seq(Int) /\ Len(z) = n /\ \A i \in 1..n : z[i] = a[i] + Base
  <2>1. z \in Seq(Int) /\ Len(z) = n
    BY ONLY <1>2, <1>4
  <2>2. \A i \in 1..n : z[i] = a[i] + Base
    BY <1>1
  <2> QED BY <2>1, <2>2
<1>6. h \in Seq(Int) /\ Len(h) = 1 /\ h[1] = Base
  BY <1>1, <1>3
<1>7. Co!Zstd(a) = s
  BY <1>1 DEF Co!Zstd
<1>8. s \in Seq(Int) /\ Len(h \o z) = Len(h) + Len(z) /\ s[1] = h[1] /\ \A i \in 1..Len(z) : (h \o z)[Len(h) + i] = z[i]
  BY ONLY <1>1, <1>5, <1>6
<1>9. Len(s) = 1 + n /\ \A i \in 1..n : s[i + 1] = z[i]
  <2>1. Len(s) = 1 + n
    BY <1>1, <1>5, <1>6, <1>8
  <2>2. ASSUME NEW i \in 1..n PROVE s[i + 1] = z[i]
    <3>1. (h \o z)[Len(h) + i] = z[i]
      BY <1>5, <1>8
    <3>2. Len(h) + i = i + 1
      BY <1>6, <1>2
    <3> QED BY <1>1, <3>1, <3>2
  <2> QED BY <2>1, <2>2
<1>10. Co!Unzstd(s) = [i \in 1..n |-> s[i + 1] - Base]
  <2>1. Len(s) - 1 = n
    BY <1>2, <1>9
  <2> QED BY <2>1 DEF Co!Unzstd
<1>11. ASSUME NEW i \in 1..n PROVE s[i + 1] - Base = a[i]
  BY <1>2, <1>3, <1>5, <1>9
<1>12. a = [i \in 1..n |-> a[i]]
  BY <1>1
<1>13. Co!Unzstd(s) = a
  BY <1>10, <1>11, <1>12
<1>14. s # <<>>
  BY <1>2, <1>9
<1> QED BY <1>6, <1>7, <1>8, <1>13, <1>14

\* The data of a frame fits in the prefix encode chose.
LEMMA DataType ==
  ASSUME NEW m, NEW allow \in BOOLEAN, Sendable(m, allow)
  PROVE  /\ Data(m) \in Seq(Int) /\ (Wide(m, allow) => Len(Data(m)) <= Cap32) /\ (~Wide(m, allow) => Len(Data(m)) <= Co!Cap16)
         /\ Fits(Len(Data(m)), Width(m, allow))
<1>1. PICK a, d : a = Co!Payload(m) /\ d = Data(m)
  OBVIOUS
<1>2. a \in Seq(Int)
  BY <1>1, SendableWritten
<1>3. Threshold \in Nat
  BY CodecAssumption
<1>4. d \in Seq(Int)
  <2>1. CASE Co!Compressed(a)
    <3>1. a # <<>>
      BY <1>2, <1>3, <2>1 DEF Co!Compressed
    <3>2. d = Co!Zstd(a)
      BY <1>1, <2>1 DEF Data, Co!Encoded
    <3> QED BY <1>2, <3>1, <3>2, Unzipped
  <2>2. CASE ~Co!Compressed(a)
    BY <1>1, <1>2, <2>2 DEF Data, Co!Encoded
  <2> QED BY <2>1, <2>2
<1>5. Len(d) \in Nat
  BY <1>4
<1>6. Len(d) <= (IF allow THEN Cap32 ELSE Co!Cap16)
  BY <1>1 DEF Sendable, Co!Encodable, Data
<1>7. Co!Cap16 \in Nat /\ Cap32 \in Nat
  BY CapsFit
<1>8. CASE Wide(m, allow)
  <2>1. allow /\ Width(m, allow) = 4
    BY <1>8 DEF Wide, Width
  <2>2. Len(d) <= Cap32
    BY <1>6, <2>1
  <2> QED BY <1>1, <1>4, <1>5, <1>8, <2>1, <2>2, CapsFit
<1>9. CASE ~Wide(m, allow)
  <2>1. Width(m, allow) = 2
    BY <1>9 DEF Width
  <2>2. Len(d) <= Co!Cap16
    BY <1>1, <1>5, <1>6, <1>7, <1>9 DEF Wide
  <2> QED BY <1>1, <1>4, <1>5, <1>9, <2>1, <2>2, CapsFit
<1> QED BY <1>8, <1>9

\* The four bytes in front of the length.
Flags(m, allow) == (IF Co!Compressed(Co!Payload(m)) THEN 1 ELSE 0) + 2 + (IF Wide(m, allow) THEN 8 ELSE 0)
Front(m, allow) == <<0, 0, Co!MessageType[m.type], Flags(m, allow)>>
LengthBytes(m, allow) == Co!Bytes(Len(Data(m)), Width(m, allow))

\* The flags say whether the length has four bytes and whether the data is compressed.
LEMMA FlagsAre ==
  ASSUME NEW m, NEW allow \in BOOLEAN
  PROVE  /\ Flags(m, allow) \in Int
         /\ ((Flags(m, allow) \div 8) % 2 = 1) <=> Wide(m, allow)
         /\ (Flags(m, allow) % 2 = 1) <=> Co!Compressed(Co!Payload(m))
<1>1. Wide(m, allow) \in BOOLEAN /\ Co!Compressed(Co!Payload(m)) \in BOOLEAN
  BY DEF Wide, Co!Compressed
<1>2. CASE Wide(m, allow) /\ Co!Compressed(Co!Payload(m))
  <2>1. Flags(m, allow) = 11 /\ 11 \div 8 = 1 /\ 11 % 2 = 1 /\ 1 % 2 = 1
    BY <1>2 DEF Flags
  <2> QED BY <1>2, <2>1
<1>3. CASE Wide(m, allow) /\ ~Co!Compressed(Co!Payload(m))
  <2>1. Flags(m, allow) = 10 /\ 10 \div 8 = 1 /\ 10 % 2 = 0 /\ 1 % 2 = 1
    BY <1>3 DEF Flags
  <2> QED BY <1>3, <2>1
<1>4. CASE ~Wide(m, allow) /\ Co!Compressed(Co!Payload(m))
  <2>1. Flags(m, allow) = 3 /\ 3 \div 8 = 0 /\ 3 % 2 = 1 /\ 0 % 2 = 0
    BY <1>4 DEF Flags
  <2> QED BY <1>4, <2>1
<1>5. CASE ~Wide(m, allow) /\ ~Co!Compressed(Co!Payload(m))
  <2>1. Flags(m, allow) = 2 /\ 2 \div 8 = 0 /\ 2 % 2 = 0 /\ 0 % 2 = 0
    BY <1>5 DEF Flags
  <2> QED BY <1>5, <2>1
<1> QED BY <1>1, <1>2, <1>3, <1>4, <1>5

\* The bytes of two sequences one after the other,
LEMMA TwoParts ==
  ASSUME NEW a \in Seq(Int), NEW b \in Seq(Int)
  PROVE  /\ (a \o b) \in Seq(Int) /\ Len(a \o b) = Len(a) + Len(b)
         /\ \A i \in 1..Len(a) : (a \o b)[i] = a[i]
         /\ \A i \in 1..Len(b) : (a \o b)[Len(a) + i] = b[i]
OBVIOUS

\* and of three one after the other.
Three(a, b, c, x) ==
  /\ x \in Seq(Int) /\ Len(x) = (Len(a) + Len(b)) + Len(c)
  /\ \A i \in 1..Len(a) : x[i] = a[i]
  /\ \A i \in 1..Len(b) : x[Len(a) + i] = b[i]
  /\ \A i \in 1..Len(c) : x[(Len(a) + Len(b)) + i] = c[i]

LEMMA ThreeParts ==
  ASSUME NEW a \in Seq(Int), NEW b \in Seq(Int), NEW c \in Seq(Int), NEW x, x = (a \o b) \o c
  PROVE  Three(a, b, c, x)
<1>1. PICK y : y = a \o b
  OBVIOUS
<1>2. y \in Seq(Int) /\ Len(y) = Len(a) + Len(b) /\ (\A i \in 1..Len(a) : y[i] = a[i]) /\ \A i \in 1..Len(b) : y[Len(a) + i] = b[i]
  BY <1>1, TwoParts
<1>3. x = y \o c
  BY <1>1
<1>4. x \in Seq(Int) /\ Len(x) = Len(y) + Len(c) /\ (\A i \in 1..Len(y) : x[i] = y[i]) /\ \A i \in 1..Len(c) : x[Len(y) + i] = c[i]
  <2>1. y \in Seq(Int)
    BY <1>2
  <2> QED BY <1>3, <2>1, TwoParts
<1>5. Len(a) \in Nat /\ Len(b) \in Nat /\ Len(c) \in Nat
  OBVIOUS
<1>6. ASSUME NEW i \in 1..Len(a) PROVE x[i] = a[i]
  <2>1. i \in 1..Len(y)
    BY <1>2, <1>5
  <2> QED BY <1>2, <1>4, <2>1
<1>7. ASSUME NEW i \in 1..Len(b) PROVE x[Len(a) + i] = b[i]
  <2>1. Len(a) + i \in 1..Len(y)
    BY <1>2, <1>5
  <2> QED BY <1>2, <1>4, <2>1
<1>8. ASSUME NEW i \in 1..Len(c) PROVE x[(Len(a) + Len(b)) + i] = c[i]
  BY <1>2, <1>4
<1>9. Len(x) = (Len(a) + Len(b)) + Len(c)
  BY <1>2, <1>4
<1> QED BY ONLY <1>4, <1>6, <1>7, <1>8, <1>9 DEF Three

\* A frame is four bytes, the length of its data and the data.
LEMMA EncodeParts ==
  ASSUME NEW m, NEW allow \in BOOLEAN, Sendable(m, allow)
  PROVE  /\ Co!Encode(m, allow) \in Seq(Int)
         /\ Len(Co!Encode(m, allow)) = (4 + Width(m, allow)) + Len(Data(m))
         /\ Co!Encode(m, allow)[3] = Co!MessageType[m.type] /\ Co!Encode(m, allow)[4] = Flags(m, allow)
         /\ LengthBytes(m, allow) \in Seq(Int) /\ Len(LengthBytes(m, allow)) = Width(m, allow)
         /\ Co!Number(LengthBytes(m, allow)) = Len(Data(m))
         /\ \A i \in 1..Width(m, allow) : Co!Encode(m, allow)[4 + i] = LengthBytes(m, allow)[i]
         /\ \A i \in 1..Len(Data(m)) : Co!Encode(m, allow)[(4 + Width(m, allow)) + i] = Data(m)[i]
<1>1. PICK a, b, d, e, n : a = Front(m, allow) /\ b = LengthBytes(m, allow) /\ d = Data(m) /\ e = Co!Encode(m, allow)
                           /\ n = Width(m, allow)
  OBVIOUS
<1>2. a \in Seq(Int) /\ Len(a) = 4 /\ a[3] = Co!MessageType[m.type] /\ a[4] = Flags(m, allow)
  <2>1. Co!MessageType[m.type] \in Int
    BY SendableWritten, TypeExact
  <2>2. Flags(m, allow) \in Int
    BY FlagsAre
  <2> QED BY <1>1, <2>1, <2>2 DEF Front
<1>3. d \in Seq(Int) /\ Len(d) \in Nat /\ Fits(Len(d), n)
  <2>1. d \in Seq(Int) /\ Fits(Len(d), n)
    BY <1>1, DataType
  <2> QED BY <2>1
<1>4. b \in Seq(Int) /\ Len(b) = n /\ Co!Number(b) = Len(d)
  <2>1. n \in {1, 2, 4, 8}
    BY <1>1 DEF Width
  <2>2. b = Co!Bytes(Len(d), n)
    BY <1>1 DEF LengthBytes
  <2> QED BY <1>3, <2>1, <2>2, NumberBytes
<1>5. e = (a \o b) \o d
  BY <1>1 DEF Co!Encode, Front, Flags, LengthBytes, Width, Wide, Data
<1>6. /\ e \in Seq(Int) /\ Len(e) = (Len(a) + Len(b)) + Len(d)
      /\ \A i \in 1..Len(a) : e[i] = a[i]
      /\ \A i \in 1..Len(b) : e[Len(a) + i] = b[i]
      /\ \A i \in 1..Len(d) : e[(Len(a) + Len(b)) + i] = d[i]
  <2>1. a \in Seq(Int) /\ b \in Seq(Int) /\ d \in Seq(Int)
    BY <1>2, <1>3, <1>4
  <2>2. Three(a, b, d, e)
    BY ONLY <1>5, <2>1, ThreeParts
  <2> QED BY ONLY <2>2 DEF Three
<1>7. 3 \in 1..Len(a) /\ 4 \in 1..Len(a)
  BY <1>2
<1>8. e[3] = a[3] /\ e[4] = a[4]
  BY <1>6, <1>7
<1>9. Len(e) = (4 + n) + Len(d)
  BY <1>2, <1>4, <1>6
<1>10. (\A i \in 1..n : e[4 + i] = b[i]) /\ \A i \in 1..Len(d) : e[(4 + n) + i] = d[i]
  BY <1>2, <1>4, <1>6
<1> QED BY <1>1, <1>2, <1>4, <1>6, <1>8, <1>9, <1>10

LEMMA SameBytes ==
  ASSUME NEW s \in Seq(Int), NEW t \in Seq(Int), Len(s) = Len(t), \A i \in 1..Len(t) : s[i] = t[i]
  PROVE  s = t
OBVIOUS

LEMMA PartIs ==
  ASSUME NEW x \in Seq(Int), NEW k \in Nat, NEW l \in Nat, k + l <= Len(x)
  PROVE  /\ SubSeq(x, k + 1, k + l) \in Seq(Int) /\ Len(SubSeq(x, k + 1, k + l)) = l
         /\ \A i \in 1..l : SubSeq(x, k + 1, k + l)[i] = x[k + i]
BY PartOf

\* Bytes in two parts.
Splits(x, a, b) == a \in Seq(Int) /\ b \in Seq(Int) /\ x = a \o b

\* What a buffer has in common with a frame it starts with, or with the part of it that has arrived.
Starts(x, e) == x \in Seq(Int) /\ \A i \in 1..Len(x) : i <= Len(e) => x[i] = e[i]

\* A buffer that starts with the header of a frame says how long the frame is.
LEMMA HeaderIs ==
  ASSUME NEW m, NEW allow \in BOOLEAN, Sendable(m, allow), NEW x, Starts(x, Co!Encode(m, allow)), Len(x) >= 6
  PROVE  /\ Co!Large(x) <=> Wide(m, allow)
         /\ (Wide(m, allow) => Len(x) >= 8) =>
              /\ Co!HeaderSize(x) = 4 + Width(m, allow) /\ Co!Length(x) = Len(Data(m))
              /\ Co!FrameSize(x) = Len(Co!Encode(m, allow)) /\ ~Co!BadHeader(x)
<1>1. PICK b, d, e, n : b = LengthBytes(m, allow) /\ d = Data(m) /\ e = Co!Encode(m, allow) /\ n = Width(m, allow)
  OBVIOUS
<1>2. /\ e \in Seq(Int) /\ Len(e) = (4 + n) + Len(d) /\ e[4] = Flags(m, allow) /\ b \in Seq(Int) /\ Len(b) = n
      /\ Co!Number(b) = Len(d) /\ \A i \in 1..n : e[4 + i] = b[i]
  BY <1>1, EncodeParts
<1>3. d \in Seq(Int) /\ Len(d) \in Nat /\ (Wide(m, allow) => Len(d) <= Cap32)
  <2>1. d \in Seq(Int) /\ (Wide(m, allow) => Len(d) <= Cap32)
    BY <1>1, DataType
  <2> QED BY <2>1
<1>4. n \in {2, 4} /\ (n = 4 <=> Wide(m, allow))
  BY <1>1 DEF Width
<1>5. x \in Seq(Int) /\ Len(x) \in Nat /\ \A i \in 1..Len(x) : i <= Len(e) => x[i] = e[i]
  BY <1>1 DEF Starts
<1>6. x[4] = Flags(m, allow)
  <2>1. PICK h, k, l : h = Len(x) /\ k = Len(e) /\ l = Len(d)
    OBVIOUS
  <2>2. h \in Nat /\ h >= 6 /\ k = (4 + n) + l /\ l \in Nat /\ n \in {2, 4}
    BY <1>2, <1>3, <1>4, <1>5, <2>1
  <2>3. 4 \in 1..h /\ 4 <= k
    BY ONLY <2>2
  <2> QED BY <1>2, <1>5, <2>1, <2>3
<1>7. Co!Large(x) <=> Wide(m, allow)
  BY <1>6, FlagsAre DEF Co!Large
<1>8. ASSUME Wide(m, allow) => Len(x) >= 8
      PROVE  /\ Co!HeaderSize(x) = 4 + n /\ Co!Length(x) = Len(d)
             /\ Co!FrameSize(x) = Len(e) /\ ~Co!BadHeader(x)
  <2>1. Co!HeaderSize(x) = 4 + n
    BY <1>4, <1>7 DEF Co!HeaderSize
  <2>2. 4 + n <= Len(x) /\ 4 + n <= Len(e)
    BY <1>2, <1>3, <1>4, <1>5, <1>8
  <2>3. SubSeq(x, 5, 4 + n) = b
    <3>1. PICK s : s = SubSeq(x, 5, 4 + n)
      OBVIOUS
    <3>2. s \in Seq(Int) /\ Len(s) = n /\ \A i \in 1..n : s[i] = x[4 + i]
      BY <1>4, <1>5, <2>2, <3>1
    <3>3. ASSUME NEW i \in 1..n PROVE x[4 + i] = b[i]
      <4>1. 4 + i \in 1..Len(x) /\ 4 + i <= Len(e)
        <5>1. n \in Nat /\ Len(x) \in Nat /\ Len(e) \in Nat
          BY <1>2, <1>4, <1>5
        <5> QED BY ONLY <2>2, <5>1, i \in 1..n
      <4> QED BY <1>2, <1>5, <4>1
    <3>4. s = b
      <4>1. s \in Seq(Int) /\ b \in Seq(Int) /\ Len(s) = Len(b) /\ \A i \in 1..Len(b) : s[i] = b[i]
        BY <1>2, <3>2, <3>3
      <4> QED BY ONLY <4>1, SameBytes
    <3> QED BY <3>1, <3>4
  <2>4. Co!Length(x) = Len(d)
    BY <1>2, <2>1, <2>3 DEF Co!Length
  <2>5. Co!FrameSize(x) = Len(e)
    BY <1>2, <2>1, <2>4 DEF Co!FrameSize
  <2>6. ~Co!BadHeader(x)
    <3>1. CASE Wide(m, allow)
      <4>1. ~(Len(x) < 8)
        BY <1>5, <1>8, <3>1
      <4>2. ~(Len(d) > Cap32)
        BY <1>3, <3>1, CapsFit
      <4> QED BY <2>4, <4>1, <4>2 DEF Co!BadHeader
    <3>2. CASE ~Wide(m, allow)
      BY <1>7, <3>2 DEF Co!BadHeader
    <3> QED BY <3>1, <3>2
  <2> QED BY <2>1, <2>4, <2>5, <2>6
<1> QED BY <1>1, <1>7, <1>8

\* A whole frame is decoded into its message, and what is behind it is left.
LEMMA DrainWhole ==
  ASSUME NEW m, NEW allow \in BOOLEAN, Sendable(m, allow), NEW y, NEW t, Splits(y.left, Co!Encode(m, allow), t)
  PROVE  /\ Len(y.left) >= 6 /\ Co!HoldsFrame(y.left)
         /\ y.ok = TRUE => Co!Drain(y) = [ok |-> TRUE, msgs |-> Append(y.msgs, m), left |-> t]
<1>0. PICK x : x = y.left
  OBVIOUS
<1>1. PICK e, d, n, l : e = Co!Encode(m, allow) /\ d = Data(m) /\ n = Width(m, allow) /\ l = Len(d)
  OBVIOUS
<1>20. t \in Seq(Int) /\ x = e \o t
  BY <1>1, <1>0 DEF Splits
<1>2. /\ e \in Seq(Int) /\ Len(e) = (4 + n) + l /\ e[3] = Co!MessageType[m.type] /\ e[4] = Flags(m, allow)
      /\ \A i \in 1..l : e[(4 + n) + i] = d[i]
  BY <1>1, EncodeParts
<1>3. d \in Seq(Int) /\ l \in Nat
  <2>1. d \in Seq(Int)
    BY <1>1, DataType
  <2> QED BY <1>1, <2>1
<1>4. n \in {2, 4} /\ (n = 4 <=> Wide(m, allow))
  BY <1>1 DEF Width
<1>5. x \in Seq(Int) /\ Len(x) = Len(e) + Len(t) /\ (\A i \in 1..Len(e) : x[i] = e[i]) /\ \A i \in 1..Len(t) : x[Len(e) + i] = t[i]
  <2>1. e \in Seq(Int) /\ t \in Seq(Int)
    BY <1>2, <1>20
  <2>2. /\ (e \o t) \in Seq(Int) /\ Len(e \o t) = Len(e) + Len(t) /\ (\A i \in 1..Len(e) : (e \o t)[i] = e[i])
        /\ \A i \in 1..Len(t) : (e \o t)[Len(e) + i] = t[i]
    BY ONLY <2>1, TwoParts
  <2> QED BY ONLY <1>20, <2>2
<1>6. Len(x) \in Nat /\ Len(t) \in Nat /\ Len(e) \in Nat /\ Len(x) >= Len(e) /\ Len(x) >= 6 /\ (n = 4 => Len(x) >= 8)
  <2>1. Len(t) \in Nat
    BY <1>20
  <2> QED BY <1>2, <1>3, <1>4, <1>5, <2>1
<1>7. Starts(x, e)
  BY <1>5, <1>6 DEF Starts
<1>8. Co!HeaderSize(x) = 4 + n /\ Co!Length(x) = l /\ Co!FrameSize(x) = Len(e) /\ ~Co!BadHeader(x)
  BY <1>1, <1>4, <1>6, <1>7, HeaderIs
<1>9. Co!HoldsFrame(x)
  BY <1>6, <1>8 DEF Co!HoldsFrame
<1>10. x[3] = Co!MessageType[m.type] /\ x[4] = Flags(m, allow)
  <2>1. 3 \in 1..Len(e) /\ 4 \in 1..Len(e)
    BY <1>2, <1>3, <1>4
  <2> QED BY <1>2, <1>5, <2>1
<1>11. SubSeq(x, (4 + n) + 1, Len(e)) = d
  <2>1. PICK s : s = SubSeq(x, (4 + n) + 1, Len(e))
    OBVIOUS
  <2>2. s \in Seq(Int) /\ Len(s) = l /\ \A i \in 1..l : s[i] = x[(4 + n) + i]
    <3>1. x \in Seq(Int) /\ Len(e) \in Nat /\ n \in Nat /\ Len(e) <= Len(x)
      BY <1>4, <1>5, <1>6
    <3>2. PICK k : k = 4 + n
      OBVIOUS
    <3>3. k \in Nat /\ k + l = Len(e) /\ k + l <= Len(x)
      BY <1>2, <1>3, <3>1, <3>2
    <3>4. s = SubSeq(x, k + 1, k + l)
      BY <2>1, <3>2, <3>3
    <3>5. s \in Seq(Int) /\ Len(s) = l /\ \A i \in 1..l : s[i] = x[k + i]
      <4>1. /\ SubSeq(x, k + 1, k + l) \in Seq(Int) /\ Len(SubSeq(x, k + 1, k + l)) = l
            /\ \A i \in 1..l : SubSeq(x, k + 1, k + l)[i] = x[k + i]
        BY ONLY <1>3, <3>1, <3>3, PartIs
      <4> QED BY <3>4, <4>1
    <3> QED BY <3>2, <3>5
  <2>3. ASSUME NEW i \in 1..l PROVE x[(4 + n) + i] = d[i]
    <3>1. i \in 1..l /\ l \in Nat /\ (n = 2 \/ n = 4) /\ Len(e) = (4 + n) + l
      BY <1>2, <1>3, <1>4
    <3>2. PICK k : k = Len(e)
      OBVIOUS
    <3>3. k = (4 + n) + l
      BY ONLY <3>1, <3>2
    <3>4. (4 + n) + i \in 1..k
      BY ONLY <3>1, <3>3
    <3> QED BY <1>2, <1>5, <3>2, <3>4
  <2>4. s = d
    <3>1. s \in Seq(Int) /\ d \in Seq(Int) /\ Len(s) = Len(d) /\ \A i \in 1..Len(d) : s[i] = d[i]
      BY <1>1, <1>3, <2>2, <2>3
    <3> QED BY ONLY <3>1, SameBytes
  <2> QED BY <2>1, <2>4
<1>12. SubSeq(x, Len(e) + 1, Len(x)) = t
  <2>1. PICK s : s = SubSeq(x, Len(e) + 1, Len(x))
    OBVIOUS
  <2>2. s \in Seq(Int) /\ Len(s) = Len(t) /\ \A i \in 1..Len(t) : s[i] = x[Len(e) + i]
    <3>1. PICK k, h : k = Len(e) /\ h = Len(t)
      OBVIOUS
    <3>2. x \in Seq(Int) /\ k \in Nat /\ h \in Nat /\ k + h = Len(x) /\ k + h <= Len(x)
      BY <1>5, <1>6, <3>1
    <3>3. s = SubSeq(x, k + 1, k + h)
      BY ONLY <2>1, <3>1, <3>2
    <3>4. /\ SubSeq(x, k + 1, k + h) \in Seq(Int) /\ Len(SubSeq(x, k + 1, k + h)) = h
          /\ \A i \in 1..h : SubSeq(x, k + 1, k + h)[i] = x[k + i]
      BY ONLY <3>2, PartIs
    <3> QED BY ONLY <3>1, <3>3, <3>4
  <2>3. s = t
    <3>1. s \in Seq(Int) /\ t \in Seq(Int) /\ Len(s) = Len(t) /\ \A i \in 1..Len(t) : s[i] = t[i]
      BY <1>20, <1>5, <2>2
    <3> QED BY ONLY <3>1, SameBytes
  <2> QED BY <2>1, <2>3
<1>13. Co!Decode(x[3], x[4], d) = m
  <2>1. PICK a : a = Co!Payload(m)
    OBVIOUS
  <2>2. a \in Seq(Int) /\ Written(m) /\ Co!KindsOf(m.type, a) = Co!Reads[m.type]
    BY <2>1, SendableWritten
  <2>3. Co!MessageOf(m.type, a) = m
    BY <2>1, <2>2, MessageExact
  <2>4. Co!TypeOf(x[3], a) = m.type /\ ~(\A h \in DOMAIN Co!MessageType : Co!MessageType[h] # x[3])
    BY <1>10, <2>1, <2>2, TypeExact
  <2>5. CASE Co!Compressed(a)
    <3>1. a # <<>>
      BY <2>2, <2>5, CodecAssumption DEF Co!Compressed
    <3>2. d = Co!Zstd(a)
      BY <1>1, <2>1, <2>5 DEF Data, Co!Encoded
    <3>3. d # <<>> /\ d[1] = Base /\ Co!Unzstd(d) = a
      BY <2>2, <3>1, <3>2, Unzipped
    <3>4. x[4] % 2 = 1
      BY <1>10, <2>1, <2>5, FlagsAre
    <3>5. Co!Decode(x[3], x[4], d) = Co!MessageOf(Co!TypeOf(x[3], a), a)
      BY <2>4, <3>3, <3>4 DEF Co!Decode
    <3> QED BY <2>3, <2>4, <3>5
  <2>6. CASE ~Co!Compressed(a)
    <3>1. d = a
      BY <1>1, <2>1, <2>6 DEF Data, Co!Encoded
    <3>2. ~(x[4] % 2 = 1)
      BY <1>10, <2>1, <2>6, FlagsAre
    <3>3. Co!Decode(x[3], x[4], d) = Co!MessageOf(Co!TypeOf(x[3], a), a)
      BY <2>4, <3>1, <3>2 DEF Co!Decode
    <3> QED BY <2>3, <2>4, <3>3
  <2> QED BY <2>5, <2>6
<1>14. m # Co!Nothing
  <2>1. m.type \in AllTypes
    BY DEF Sendable, Permitted
  <2>2. m.type # "none"
    BY <2>1 DEF AllTypes, SessionTypes, MeshTypes, LaterTypes
  <2> QED BY <2>2 DEF Co!Nothing
<1>15. ASSUME y.ok = TRUE
       PROVE  Co!Drain(y) = [ok |-> TRUE, msgs |-> Append(y.msgs, m), left |-> t]
  <2>1. Co!Decode(x[3], x[4], SubSeq(x, Co!HeaderSize(x) + 1, Co!FrameSize(x))) = m
    BY <1>8, <1>11, <1>13
  <2>2. Co!Drain(y) = [ok |-> TRUE, msgs |-> Append(y.msgs, m), left |-> SubSeq(x, Co!FrameSize(x) + 1, Len(x))]
    BY <1>0, <1>8, <1>9, <1>14, <1>15, <2>1 DEF Co!Drain, Co!Dispatched
  <2> QED BY <1>8, <1>12, <2>2
<1> QED BY <1>0, <1>6, <1>9, <1>15

\* Of a part of a frame nothing is decoded; the reader gives up if the part ends within a length of four bytes.
LEMMA DrainPart ==
  ASSUME NEW m, NEW allow \in BOOLEAN, Sendable(m, allow), NEW x, Starts(x, Co!Encode(m, allow)),
         Len(x) < Len(Co!Encode(m, allow)), Co!HoldsFrame(x)
  PROVE  Wide(m, allow) /\ Co!Large(x) /\ Len(x) \in {6, 7} /\ Co!BadHeader(x)
<1>1. PICK l : l = Len(x)
  OBVIOUS
<1>2. x \in Seq(Int) /\ l \in Nat /\ l >= 6 /\ (Co!BadHeader(x) \/ l >= Co!FrameSize(x))
  BY <1>1 DEF Starts, Co!HoldsFrame
<1>3. /\ Co!Large(x) <=> Wide(m, allow)
      /\ (Wide(m, allow) => l >= 8) => Co!FrameSize(x) = Len(Co!Encode(m, allow)) /\ ~Co!BadHeader(x)
  BY <1>1, <1>2, HeaderIs
<1>4. Len(Co!Encode(m, allow)) \in Nat
  BY EncodeParts
<1>5. ~(Wide(m, allow) => l >= 8)
  <2> SUFFICES ASSUME Wide(m, allow) => l >= 8 PROVE FALSE
    OBVIOUS
  <2> QED BY <1>1, <1>2, <1>3, <1>4
<1>6. l \in {6, 7}
  BY <1>2, <1>5
<1>7. Co!BadHeader(x)
  <2>1. l < 8
    BY <1>6
  <2> QED BY <1>1, <1>3, <1>5, <2>1 DEF Co!BadHeader
<1> QED BY <1>1, <1>3, <1>5, <1>6, <1>7

\* Two ways to cut the same bytes in two.
LEMMA Cut ==
  ASSUME NEW x, NEW a, NEW b, NEW c, NEW d, Splits(x, a, b), Splits(x, c, d)
  PROVE  /\ Len(a) >= Len(c) => \E t : Splits(a, c, t) /\ Splits(d, t, b)
         /\ Len(a) <= Len(c) => \A i \in 1..Len(a) : a[i] = c[i]
<1>0. a \in Seq(Int) /\ b \in Seq(Int) /\ c \in Seq(Int) /\ d \in Seq(Int) /\ x = a \o b
  BY DEF Splits
<1>1. PICK y : y = c \o d
  OBVIOUS
<1>2. x = y
  BY <1>1 DEF Splits
<1>3. /\ x \in Seq(Int) /\ Len(x) = Len(a) + Len(b) /\ (\A i \in 1..Len(a) : x[i] = a[i]) /\ \A i \in 1..Len(b) : x[Len(a) + i] = b[i]
      /\ y \in Seq(Int) /\ Len(y) = Len(c) + Len(d) /\ (\A i \in 1..Len(c) : y[i] = c[i]) /\ \A i \in 1..Len(d) : y[Len(c) + i] = d[i]
  BY <1>0, <1>1, TwoParts
<1>4. PICK k, l, m, n : k = Len(a) /\ l = Len(b) /\ m = Len(c) /\ n = Len(d)
  OBVIOUS
<1>5. k \in Nat /\ l \in Nat /\ m \in Nat /\ n \in Nat /\ k + l = m + n
  <2>1. k \in Nat /\ l \in Nat /\ m \in Nat /\ n \in Nat
    BY <1>0, <1>4
  <2>2. Len(x) = k + l /\ Len(y) = m + n
    BY <1>3, <1>4
  <2> QED BY <1>2, <2>1, <2>2
<1>6. ASSUME k >= m PROVE \E t : Splits(a, c, t) /\ Splits(d, t, b)
  <2>0. PICK t : t = SubSeq(a, m + 1, k)
    OBVIOUS
  <2>2. t \in Seq(Int) /\ Len(t) = k - m /\ \A i \in 1..(k - m) : t[i] = a[m + i]
    <3>1. a \in Seq(Int) /\ k = Len(a)
      BY <1>0, <1>4
    <3>2. PICK e \in Nat : e = k - m
      BY <1>5, <1>6
    <3>3. m \in Nat /\ m + e = k /\ m + e <= Len(a)
      BY <1>5, <3>1, <3>2
    <3>4. t = SubSeq(a, m + 1, m + e)
      BY <2>0, <3>3
    <3>5. /\ SubSeq(a, m + 1, m + e) \in Seq(Int) /\ Len(SubSeq(a, m + 1, m + e)) = e
          /\ \A i \in 1..e : SubSeq(a, m + 1, m + e)[i] = a[m + i]
      BY ONLY <3>1, <3>2, <3>3, PartOf
    <3>6. t \in Seq(Int) /\ Len(t) = e /\ \A i \in 1..e : t[i] = a[m + i]
      BY ONLY <3>4, <3>5
    <3> QED BY ONLY <3>2, <3>6
  <2>1. PICK u, v : u = c \o t /\ v = t \o b
    OBVIOUS
  <2>3. /\ u \in Seq(Int) /\ Len(u) = m + Len(t) /\ (\A i \in 1..m : u[i] = c[i]) /\ \A i \in 1..Len(t) : u[m + i] = t[i]
        /\ v \in Seq(Int) /\ Len(v) = Len(t) + l /\ (\A i \in 1..Len(t) : v[i] = t[i]) /\ \A i \in 1..l : v[Len(t) + i] = b[i]
    <3>1. t \in Seq(Int) /\ b \in Seq(Int) /\ c \in Seq(Int) /\ m = Len(c) /\ l = Len(b)
      BY <1>0, <1>4, <2>2
    <3>2. u \in Seq(Int) /\ Len(u) = m + Len(t) /\ (\A i \in 1..m : u[i] = c[i]) /\ \A i \in 1..Len(t) : u[m + i] = t[i]
      BY ONLY <2>1, <3>1, TwoParts
    <3>3. v \in Seq(Int) /\ Len(v) = Len(t) + l /\ (\A i \in 1..Len(t) : v[i] = t[i]) /\ \A i \in 1..l : v[Len(t) + i] = b[i]
      BY ONLY <2>1, <3>1, TwoParts
    <3> QED BY <3>2, <3>3
  <2>4. Len(u) = k /\ Len(v) = n
    BY <1>5, <2>2, <2>3
  <2>5. ASSUME NEW i \in 1..k PROVE a[i] = u[i]
    <3>1. CASE i <= m
      <4>1. i \in 1..m
        BY <1>5, <3>1
      <4> QED BY <1>2, <1>3, <1>4, <2>3, <4>1
    <3>2. CASE ~(i <= m)
      <4>1. PICK j : j = i - m
        OBVIOUS
      <4>2. j \in 1..(k - m) /\ m + j = i
        BY <1>5, <3>2, <4>1
      <4> QED BY <2>2, <2>3, <4>2
    <3> QED BY <3>1, <3>2
  <2>6. ASSUME NEW i \in 1..n PROVE v[i] = d[i]
    <3>1. y[m + i] = d[i]
      BY <1>3, <1>4
    <3>2. CASE i <= k - m
      <4>1. i \in 1..(k - m) /\ m + i \in 1..k
        BY <1>5, <1>6, <3>2
      <4> QED BY <1>2, <1>3, <1>4, <2>2, <2>3, <3>1, <4>1
    <3>3. CASE ~(i <= k - m)
      <4>1. PICK j : j = i - (k - m)
        OBVIOUS
      <4>2. j \in 1..l /\ (k - m) + j = i /\ k + j = m + i
        BY <1>5, <1>6, <3>3, <4>1
      <4>3. PICK h : h = k - m
        OBVIOUS
      <4>4. Len(t) = h /\ Len(a) = k /\ Len(b) = l
        BY <1>4, <2>2, <4>3
      <4>5. v[h + j] = b[j]
        BY ONLY <2>3, <4>2, <4>4
      <4>6. x[k + j] = b[j]
        BY ONLY <1>3, <4>2, <4>4
      <4> QED BY ONLY <1>2, <3>1, <4>2, <4>3, <4>5, <4>6
    <3> QED BY <3>2, <3>3
  <2>7. a = u
    <3>1. a \in Seq(Int) /\ u \in Seq(Int) /\ Len(a) = Len(u) /\ \A i \in 1..Len(u) : a[i] = u[i]
      BY <1>0, <1>4, <2>3, <2>4, <2>5
    <3> QED BY ONLY <3>1, SameBytes
  <2>8. v = d
    <3>1. v \in Seq(Int) /\ d \in Seq(Int) /\ Len(v) = Len(d) /\ \A i \in 1..Len(d) : v[i] = d[i]
      BY <1>0, <1>4, <2>3, <2>4, <2>6
    <3> QED BY ONLY <3>1, SameBytes
  <2> QED BY <1>0, <2>1, <2>2, <2>7, <2>8 DEF Splits
<1>7. ASSUME k <= m PROVE \A i \in 1..k : a[i] = c[i]
  <2> SUFFICES ASSUME NEW i \in 1..k PROVE a[i] = c[i]
    OBVIOUS
  <2>1. i \in 1..m
    BY <1>5, <1>7
  <2> QED BY <1>2, <1>3, <1>4, <2>1
<1> QED BY <1>4, <1>6, <1>7

-----------------------------------------------------------------------------
(* The frames of a direction, and what is drained of a part of them. *)

Messages == [type : AllTypes, vals : Seq(Vals), items : Seq(Seq(Vals))]

\* The Hello goes out before the peer has said what it takes.
Allowed(lg, i) == lg /\ i # 1
Stream(ms, lg) == ms \in Seq(Messages) /\ lg \in BOOLEAN /\ \A i \in 1..Len(ms) : Sendable(ms[i], Allowed(lg, i))
Frames(ms, lg) == [i \in DOMAIN ms |-> Co!Encode(ms[i], Allowed(lg, i))]

\* Every frame of a stream is bytes.
LEMMA FramesType ==
  ASSUME NEW ms, NEW lg, Stream(ms, lg)
  PROVE  /\ Frames(ms, lg) \in Seq(Seq(Int)) /\ Len(Frames(ms, lg)) = Len(ms) /\ Len(ms) \in Nat
         /\ \A i \in 1..Len(ms) : /\ Frames(ms, lg)[i] = Co!Encode(ms[i], Allowed(lg, i)) /\ Frames(ms, lg)[i] \in Seq(Int)
                                  /\ Sendable(ms[i], Allowed(lg, i)) /\ Allowed(lg, i) \in BOOLEAN
<1>1. PICK n : n = Len(ms)
  OBVIOUS
<1>2. n \in Nat /\ DOMAIN ms = 1..n
  BY <1>1 DEF Stream
<1>3. \A i \in 1..n : Allowed(lg, i) \in BOOLEAN /\ Sendable(ms[i], Allowed(lg, i))
  BY <1>1 DEF Stream, Allowed
<1>4. \A i \in 1..n : Co!Encode(ms[i], Allowed(lg, i)) \in Seq(Int)
  BY <1>3, EncodeParts
<1>5. Frames(ms, lg) = [i \in 1..n |-> Co!Encode(ms[i], Allowed(lg, i))]
  BY <1>2 DEF Frames
<1>6. Frames(ms, lg) \in [1..n -> Seq(Int)]
  BY <1>4, <1>5
<1>7. Frames(ms, lg) \in Seq(Seq(Int)) /\ Len(Frames(ms, lg)) = n
  BY ONLY <1>2, <1>6
<1> QED BY <1>1, <1>2, <1>3, <1>4, <1>5, <1>7

\* The Decoder of drain_complete_frames, in front of rest, when it has taken i frames behind the first j and goes on;
\* when it has stopped; and when it has given up.
Drainer(ms, j, k, y) == [ok |-> TRUE, msgs |-> SubSeq(ms, j + 1, k), left |-> y]
Moving(ms, lg, j, rest, d, i, size) ==
  j + i <= Len(ms) /\ \E y \in Seq(Int) : /\ d = Drainer(ms, j, j + i, y) /\ y \o rest = Behind(Frames(ms, lg), j + i)
                                          /\ 6 * i + Len(y) <= size
Stopped(ms, lg, j, rest, d) ==
  \E k \in j..Len(ms), y \in Seq(Int) :
    d = Drainer(ms, j, k, y) /\ y \o rest = Behind(Frames(ms, lg), k) /\ ~Co!HoldsFrame(y)
Failed(d) == d.ok = FALSE /\ Co!Large(d.left) /\ Len(d.left) \in {6, 7}

\* Without a frame in it a buffer stays what it is,
LEMMA DrainStays ==
  ASSUME NEW d, ~d.ok \/ ~Co!HoldsFrame(d.left)
  PROVE  Co!Drain(d) = d
BY DEF Co!Drain, Co!Dispatched

\* and so does one that was drained, or that failed.
LEMMA StoppedStays ==
  ASSUME NEW ms, NEW lg, NEW j, NEW rest, NEW d, Stopped(ms, lg, j, rest, d) \/ Failed(d)
  PROVE  Co!Drain(d) = d
<1>1. CASE Stopped(ms, lg, j, rest, d)
  <2>1. PICK k \in j..Len(ms), y \in Seq(Int) :
          d = Drainer(ms, j, k, y) /\ y \o rest = Behind(Frames(ms, lg), k) /\ ~Co!HoldsFrame(y)
    BY <1>1 DEF Stopped
  <2>2. d.left = y
    BY <2>1 DEF Drainer
  <2> QED BY <2>1, <2>2, DrainStays
<1>2. CASE Failed(d)
  BY <1>2, DrainStays DEF Failed
<1> QED BY <1>1, <1>2

LEMMA OneTaken ==
  ASSUME NEW S, NEW s \in Seq(S), NEW j \in Nat, NEW k \in Nat, j <= k, k + 1 <= Len(s)
  PROVE  Append(SubSeq(s, j + 1, k), s[k + 1]) = SubSeq(s, j + 1, k + 1)
<1>1. PICK a, b, x, n : a = SubSeq(s, j + 1, k) /\ b = SubSeq(s, j + 1, k + 1) /\ x = s[k + 1] /\ n = k - j
  OBVIOUS
<1>2. n \in Nat /\ j + n = k /\ Len(s) \in Nat
  BY <1>1
<1>3. a \in Seq(S) /\ Len(a) = n /\ \A i \in 1..n : a[i] = s[j + i]
  BY <1>1, <1>2
<1>4. b \in Seq(S) /\ Len(b) = n + 1 /\ \A i \in 1..(n + 1) : b[i] = s[j + i]
  BY <1>1, <1>2
<1>5. x \in S
  BY <1>1
<1>6. PICK c : c = Append(a, x)
  OBVIOUS
<1>7. c \in Seq(S) /\ Len(c) = n + 1 /\ c[n + 1] = x /\ \A i \in 1..n : c[i] = a[i]
  BY ONLY <1>2, <1>3, <1>5, <1>6
<1>8. ASSUME NEW i \in 1..(n + 1) PROVE c[i] = b[i]
  <2>1. CASE i \in 1..n
    BY <1>2, <1>3, <1>4, <1>7, <2>1
  <2>2. CASE i = n + 1
    <3>1. j + i = k + 1
      BY <1>2, <2>2
    <3> QED BY <1>1, <1>2, <1>4, <1>7, <2>2, <3>1
  <2> QED BY <1>2, <2>1, <2>2
<1>9. c = b
  BY ONLY <1>4, <1>7, <1>8
<1> QED BY <1>1, <1>6, <1>9

\* Draining one more frame gives the next message of the stream, or the end of what is there.
LEMMA DrainStep ==
  ASSUME NEW ms, NEW lg, Stream(ms, lg), NEW j \in Nat, NEW rest \in Seq(Int), NEW i \in Nat, NEW size \in Nat, NEW d,
         Moving(ms, lg, j, rest, d, i, size)
  PROVE  \/ Moving(ms, lg, j, rest, Co!Drain(d), i + 1, size)
         \/ Stopped(ms, lg, j, rest, Co!Drain(d)) \/ Failed(Co!Drain(d))
<1>1. PICK p, n, k : p = Frames(ms, lg) /\ n = Len(ms) /\ k = j + i
  OBVIOUS
<1>2. p \in Seq(Seq(Int)) /\ Len(p) = n /\ n \in Nat
  BY <1>1, FramesType
<1>3. k \in 0..n /\ k \in j..n /\ k <= n
  BY <1>1, <1>2 DEF Moving
<1>4. PICK y \in Seq(Int) : d = Drainer(ms, j, k, y) /\ y \o rest = Behind(p, k) /\ 6 * i + Len(y) <= size
  BY <1>1 DEF Moving
<1>5. d.ok = TRUE /\ d.left = y /\ d.msgs = SubSeq(ms, j + 1, k)
  BY <1>4 DEF Drainer
<1>6. CASE ~Co!HoldsFrame(y)
  <2>1. Co!Drain(d) = d
    BY <1>5, <1>6, DrainStays
  <2>2. Stopped(ms, lg, j, rest, d)
    BY <1>1, <1>3, <1>4, <1>6 DEF Stopped
  <2> QED BY <2>1, <2>2
<1>7. CASE Co!HoldsFrame(y)
  <2>1. k # n
    <3> SUFFICES ASSUME k = n PROVE FALSE
      OBVIOUS
    <3>1. Behind(p, n) = <<>>
      BY <1>2, BehindIs
    <3>2. y \o rest = <<>>
      BY <1>4, <3>1
    <3>3. Len(y \o rest) = Len(y) + Len(rest) /\ Len(y) \in Nat /\ Len(rest) \in Nat
      OBVIOUS
    <3>4. Len(y) = 0
      BY <3>2, <3>3
    <3> QED BY <1>7, <3>4 DEF Co!HoldsFrame
  <2>2. k \in 0..n - 1 /\ k + 1 \in 1..n /\ k + 1 \in 0..n /\ k + 1 \in j..n
    BY <1>2, <1>3, <2>1
  <2>3. PICK e, b, m, allow : e = p[k + 1] /\ b = Behind(p, k + 1) /\ m = ms[k + 1] /\ allow = Allowed(lg, k + 1)
    OBVIOUS
  <2>4. e = Co!Encode(m, allow) /\ Sendable(m, allow) /\ allow \in BOOLEAN /\ e \in Seq(Int)
    BY <1>1, <2>2, <2>3, FramesType
  <2>5. Splits(y \o rest, y, rest) /\ Splits(y \o rest, e, b)
    <3>1. Behind(p, k) = p[k + 1] \o Behind(p, k + 1) /\ Behind(p, k + 1) \in Seq(Int)
      BY <1>2, <2>2, BehindIs
    <3> QED BY <1>4, <2>3, <2>4, <3>1 DEF Splits
  <2>6. CASE Len(y) >= Len(e)
    <3>1. PICK t : Splits(y, e, t) /\ Splits(b, t, rest)
      BY <2>5, <2>6, Cut
    <3>2. Co!Drain(d) = [ok |-> TRUE, msgs |-> Append(SubSeq(ms, j + 1, k), m), left |-> t]
      <4>1. Splits(d.left, Co!Encode(m, allow), t)
        BY <1>5, <2>4, <3>1
      <4>3. Co!Drain(d) = [ok |-> TRUE, msgs |-> Append(d.msgs, m), left |-> t]
        BY <1>5, <2>4, <4>1, DrainWhole
      <4> QED BY <1>5, <4>3
    <3>3. Append(SubSeq(ms, j + 1, k), m) = SubSeq(ms, j + 1, k + 1)
      <4>1. ms \in Seq(Messages)
        BY DEF Stream
      <4>2. k \in Nat /\ j <= k /\ k + 1 <= Len(ms)
        BY <1>1, <1>2, <1>3, <2>2
      <4> QED BY <2>3, <4>1, <4>2, OneTaken
    <3>4. Co!Drain(d) = Drainer(ms, j, k + 1, t)
      BY <3>2, <3>3 DEF Drainer
    <3>5. 6 * (i + 1) + Len(t) <= size
      <4>1. Len(e) >= 6
        <5>1. Len(e) = (4 + Width(m, allow)) + Len(Data(m)) /\ Data(m) \in Seq(Int)
          BY <2>4, EncodeParts, DataType
        <5>2. Len(Data(m)) \in Nat
          BY <5>1
        <5>3. Width(m, allow) \in {2, 4}
          BY DEF Width
        <5> QED BY <5>1, <5>2, <5>3
      <4>2. t \in Seq(Int) /\ y = e \o t
        BY <3>1 DEF Splits
      <4>3. Len(y) = Len(e) + Len(t) /\ Len(e) \in Nat /\ Len(t) \in Nat
        BY <2>4, <4>2, TwoParts
      <4> QED BY <1>4, <4>1, <4>3
    <3>6. k + 1 = j + (i + 1) /\ k + 1 <= n
      BY <1>1, <2>2
    <3>7. t \in Seq(Int) /\ t \o rest = Behind(p, k + 1)
      BY <2>3, <3>1 DEF Splits
    <3> QED BY <1>1, <3>4, <3>5, <3>6, <3>7 DEF Moving
  <2>7. CASE ~(Len(y) >= Len(e))
    <3>1. Len(y) < Len(e) /\ Len(y) <= Len(e)
      BY <2>4, <2>7
    <3>2. \A h \in 1..Len(y) : y[h] = e[h]
      BY <2>5, <3>1, Cut
    <3>3. Starts(y, e)
      BY <3>2 DEF Starts
    <3>4. Co!Large(y) /\ Len(y) \in {6, 7} /\ Co!BadHeader(y)
      BY <1>7, <2>4, <3>1, <3>3, DrainPart
    <3>5. Co!Drain(d) = [ok |-> FALSE, msgs |-> <<>>, left |-> y]
      BY <1>5, <1>7, <3>4 DEF Co!Drain, Co!Dispatched
    <3>6. Co!Drain(d).ok = FALSE /\ Co!Drain(d).left = y
      BY <3>5
    <3> QED BY <3>4, <3>6 DEF Failed
  <2> QED BY <2>6, <2>7
<1> QED BY <1>6, <1>7

\* drain_complete_frames takes the whole frames in a buffer and leaves a part of one, or ends within a long header.
LEMMA DrainedExact ==
  ASSUME NEW ms, NEW lg, Stream(ms, lg), NEW j \in 0..Len(ms), NEW rest \in Seq(Int), NEW bytes \in Seq(Int),
         bytes \o rest = Behind(Frames(ms, lg), j)
  PROVE  Stopped(ms, lg, j, rest, Co!Drained(bytes)) \/ Failed(Co!Drained(bytes))
<1>1. PICK size, most : size = Len(bytes) /\ most = Len(bytes) \div 6
  OBVIOUS
<1>2. size \in Nat /\ most \in Nat /\ size < 6 * (most + 1)
  BY <1>1
<1>3. PICK f : Draining(bytes, f) /\ Co!Drained(bytes) = f[most]
  BY <1>1, <1>2, DrainedIs
<1>4. Len(ms) \in Nat /\ j \in Nat
  <2>1. Len(ms) \in Nat
    BY FramesType
  <2> QED BY <2>1
<1>5. f[0] = [ok |-> TRUE, msgs |-> <<>>, left |-> bytes] /\ \A i \in 0..most - 1 : f[i + 1] = Co!Drain(f[i])
  <2>1. 0 \in 0..most /\ \A i \in 0..most - 1 : i + 1 \in 0..most /\ i + 1 # 0 /\ (i + 1) - 1 = i
    BY <1>2
  <2> QED BY <1>1, <1>3, <2>1 DEF Draining
<1> DEFINE T == {i \in Nat : i <= most => \/ Moving(ms, lg, j, rest, f[i], i, size)
                                         \/ Stopped(ms, lg, j, rest, f[i]) \/ Failed(f[i])}
<1>6. 0 \in T
  <2>1. SubSeq(ms, j + 1, j) = <<>>
    <3>1. ms \in Seq(Messages)
      BY DEF Stream
    <3> QED BY <1>4, <3>1
  <2>2. j + 0 = j /\ j <= Len(ms) /\ 6 * 0 + Len(bytes) <= size
    BY <1>1, <1>2, <1>4
  <2>3. f[0] = Drainer(ms, j, j, bytes)
    BY <1>5, <2>1 DEF Drainer
  <2>4. Moving(ms, lg, j, rest, f[0], 0, size)
    BY <2>2, <2>3 DEF Moving
  <2> QED BY <2>4
<1>7. ASSUME NEW i \in T PROVE i + 1 \in T
  <2> SUFFICES ASSUME i + 1 <= most
               PROVE  \/ Moving(ms, lg, j, rest, f[i + 1], i + 1, size)
                      \/ Stopped(ms, lg, j, rest, f[i + 1]) \/ Failed(f[i + 1])
    OBVIOUS
  <2>1. i \in Nat /\ i \in 0..most - 1 /\ i <= most
    BY <1>2
  <2>2. f[i + 1] = Co!Drain(f[i])
    BY <1>5, <2>1
  <2>3. Moving(ms, lg, j, rest, f[i], i, size) \/ Stopped(ms, lg, j, rest, f[i]) \/ Failed(f[i])
    BY <2>1
  <2>4. CASE Moving(ms, lg, j, rest, f[i], i, size)
    BY <1>2, <1>4, <2>1, <2>2, <2>4, DrainStep
  <2>5. CASE Stopped(ms, lg, j, rest, f[i]) \/ Failed(f[i])
    <3>1. f[i + 1] = f[i]
      BY <2>2, <2>5, StoppedStays
    <3> QED BY <2>5, <3>1
  <2> QED BY <2>3, <2>4, <2>5
<1>8. T = Nat
  <2>1. T \subseteq Nat
    OBVIOUS
  <2> HIDE DEF T
  <2> QED BY <1>6, <1>7, <2>1, Inductive
<1>9. Moving(ms, lg, j, rest, f[most], most, size) \/ Stopped(ms, lg, j, rest, f[most]) \/ Failed(f[most])
  BY <1>2, <1>8
<1>10. ASSUME Moving(ms, lg, j, rest, f[most], most, size) PROVE Stopped(ms, lg, j, rest, f[most])
  <2>1. PICK k : k = j + most
    OBVIOUS
  <2>2. k \in j..Len(ms)
    BY <1>2, <1>4, <1>10, <2>1 DEF Moving
  <2>3. PICK y \in Seq(Int) : f[most] = Drainer(ms, j, k, y) /\ y \o rest = Behind(Frames(ms, lg), k) /\ 6 * most + Len(y) <= size
    BY <1>10, <2>1 DEF Moving
  <2>4. Len(y) \in Nat
    OBVIOUS
  <2>5. ~(Len(y) >= 6)
    BY <1>2, <2>3, <2>4
  <2>6. ~Co!HoldsFrame(y)
    BY <2>5 DEF Co!HoldsFrame
  <2> QED BY <2>2, <2>3, <2>6 DEF Stopped
<1> QED BY <1>3, <1>9, <1>10

\* Two parts of a sequence that follow each other.
LEMMA JoinParts ==
  ASSUME NEW S, NEW x \in Seq(S), NEW k \in Nat, NEW l \in Nat, k <= l, l <= Len(x)
  PROVE  SubSeq(x, 1, k) \o SubSeq(x, k + 1, l) = SubSeq(x, 1, l)
<1>1. PICK a, b, c, h, n : /\ a = SubSeq(x, 1, k) /\ b = SubSeq(x, k + 1, l) /\ c = SubSeq(x, 1, l)
                           /\ h = l - k /\ n = Len(x)
  OBVIOUS
<1>2. h \in Nat /\ k + h = l /\ n \in Nat /\ 0 + k = k /\ 0 + l = l /\ k <= n /\ k + h <= n
  BY <1>1
<1>3. a \in Seq(S) /\ Len(a) = k /\ \A i \in 1..k : a[i] = x[i]
  <2>1. a = SubSeq(x, 0 + 1, 0 + k) /\ 0 + k <= Len(x)
    BY <1>1, <1>2
  <2>2. a \in Seq(S) /\ Len(a) = k /\ \A i \in 1..k : a[i] = x[0 + i]
    BY <2>1, PartOf
  <2> QED BY <2>2
<1>4. b \in Seq(S) /\ Len(b) = h /\ \A i \in 1..h : b[i] = x[k + i]
  <2>1. b = SubSeq(x, k + 1, k + h) /\ k + h <= Len(x)
    BY <1>1, <1>2
  <2> QED BY <1>2, <2>1, PartOf
<1>5. c \in Seq(S) /\ Len(c) = l /\ \A i \in 1..l : c[i] = x[i]
  <2>1. c = SubSeq(x, 0 + 1, 0 + l) /\ 0 + l <= Len(x)
    BY <1>1, <1>2
  <2>2. c \in Seq(S) /\ Len(c) = l /\ \A i \in 1..l : c[i] = x[0 + i]
    BY <2>1, PartOf
  <2>3. \A i \in 1..l : 0 + i = i
    OBVIOUS
  <2> QED BY ONLY <2>2, <2>3
<1>6. PICK y : y = a \o b
  OBVIOUS
<1>7. y \in Seq(S) /\ Len(y) = k + h /\ (\A i \in 1..k : y[i] = a[i]) /\ \A i \in 1..h : y[k + i] = b[i]
  <2>1. a \in Seq(S) /\ b \in Seq(S)
    BY <1>3, <1>4
  <2>2. /\ y \in Seq(S) /\ Len(y) = Len(a) + Len(b) /\ (\A i \in 1..Len(a) : y[i] = a[i])
        /\ \A i \in 1..Len(b) : y[Len(a) + i] = b[i]
    BY ONLY <1>6, <2>1, JoinType
  <2> QED BY <1>3, <1>4, <2>2
<1>8. ASSUME NEW i \in 1..l PROVE y[i] = c[i]
  <2>1. CASE i <= k
    <3>1. i \in 1..k
      BY <2>1
    <3> QED BY <1>3, <1>5, <1>7, <3>1
  <2>2. CASE ~(i <= k)
    <3>1. PICK j : j = i - k
      OBVIOUS
    <3>2. j \in 1..h /\ k + j = i
      BY <1>2, <2>2, <3>1
    <3> QED BY <1>4, <1>5, <1>7, <3>2
  <2> QED BY <2>1, <2>2
<1>9. y = c
  <2>1. y \in Seq(S) /\ c \in Seq(S) /\ Len(y) = Len(c) /\ \A i \in 1..Len(c) : y[i] = c[i]
    BY <1>2, <1>5, <1>7, <1>8
  <2> QED BY ONLY <2>1, SameSeq
<1> QED BY <1>1, <1>6, <1>9

\* Where the first i records of a frame end.
Edge(frame, i) == IF i * RecordMax < Len(frame) THEN i * RecordMax ELSE Len(frame)

\* The records of a frame hold its bytes.
LEMMA RecordsJoin ==
  ASSUME NEW frame \in Seq(Int)
  PROVE  /\ Co!Records(frame) \in Seq(Seq(Int)) /\ Co!FlattenSeq(Co!Records(frame)) = frame
         /\ Len(frame) >= 1 => Len(Co!Records(frame)) >= 1
<1>1. PICK s, l, c : s = Co!Records(frame) /\ l = Len(frame) /\ c = (l + RecordMax - 1) \div RecordMax
  OBVIOUS
<1>2. l \in Nat /\ RecordMax \in Nat \ {0}
  BY <1>1, CodecAssumption
<1>3. c \in Int /\ l + RecordMax - 1 = RecordMax * c + ((l + RecordMax - 1) % RecordMax)
      /\ (l + RecordMax - 1) % RecordMax \in 0..RecordMax - 1
  <2>1. PICK z : z = l + RecordMax - 1
    OBVIOUS
  <2>2. z \in Int /\ c = z \div RecordMax
    BY <1>1, <1>2, <2>1
  <2>3. c \in Int /\ z % RecordMax \in 0..RecordMax - 1 /\ z = RecordMax * c + (z % RecordMax)
    BY <1>2, <2>2, DivMod
  <2> QED BY <2>1, <2>3
<1>4. c \in Nat
  <2> SUFFICES ASSUME c <= -1 PROVE FALSE
    BY <1>3
  <2>1. RecordMax * c <= RecordMax * (-1)
    BY <1>2, <1>3, Times
  <2> QED BY <1>2, <1>3, <2>1
<1>5. RecordMax * c >= l /\ RecordMax * c <= l + RecordMax - 1
  <2>1. RecordMax * c \in Int
    BY <1>2, <1>4
  <2> QED BY <1>2, <1>3, <2>1
<1>6. ASSUME NEW i \in Nat, i + 1 <= c
      PROVE  i * RecordMax \in Nat /\ (i + 1) * RecordMax = i * RecordMax + RecordMax /\ i * RecordMax < l
  <2>1. RecordMax * (i + 1) <= RecordMax * c
    BY <1>2, <1>4, <1>6, Times
  <2>2. RecordMax * (i + 1) = i * RecordMax + RecordMax /\ (i + 1) * RecordMax = i * RecordMax + RecordMax /\ i * RecordMax \in Nat
    BY <1>2
  <2> QED BY <1>2, <1>4, <1>5, <2>1, <2>2
<1>7. ASSUME NEW i \in Nat, i + 1 <= c
      PROVE  /\ Edge(frame, i) = i * RecordMax /\ Edge(frame, i) \in Nat /\ Edge(frame, i + 1) \in Nat
             /\ Edge(frame, i) <= Edge(frame, i + 1) /\ Edge(frame, i + 1) <= l
  BY <1>1, <1>2, <1>6, <1>7 DEF Edge
<1>8. \A i \in Nat : i + 1 <= c => s[i + 1] = SubSeq(frame, Edge(frame, i) + 1, Edge(frame, i + 1))
  <2> SUFFICES ASSUME NEW i \in Nat, i + 1 <= c PROVE s[i + 1] = SubSeq(frame, Edge(frame, i) + 1, Edge(frame, i + 1))
    OBVIOUS
  <2>1. s = [h \in 1..c |-> SubSeq(frame, ((h - 1) * RecordMax) + 1, IF h * RecordMax < l THEN h * RecordMax ELSE l)]
    BY <1>1 DEF Co!Records
  <2>2. i + 1 \in 1..c /\ (i + 1) - 1 = i
    BY <1>4
  <2>3. s[i + 1] = SubSeq(frame, (i * RecordMax) + 1, IF (i + 1) * RecordMax < l THEN (i + 1) * RecordMax ELSE l)
    BY <2>1, <2>2
  <2> QED BY <1>1, <1>7, <2>3 DEF Edge
<1>9. s \in Seq(Seq(Int)) /\ Len(s) = c
  <2>1. DOMAIN s = 1..c /\ s = [h \in 1..c |-> s[h]]
    BY <1>1 DEF Co!Records
  <2>2. ASSUME NEW h \in 1..c PROVE s[h] \in Seq(Int)
    <3>1. PICK i : i = h - 1
      OBVIOUS
    <3>2. i \in Nat /\ i + 1 = h /\ i + 1 <= c
      BY <1>4, <3>1
    <3>3. PICK a, b : a = Edge(frame, i) /\ b = Edge(frame, i + 1)
      OBVIOUS
    <3>4. a \in Nat /\ b \in Nat /\ b <= Len(frame) /\ s[h] = SubSeq(frame, a + 1, b)
      BY <1>1, <1>7, <1>8, <3>2, <3>3
    <3> QED BY <3>4
  <2>3. s \in [1..c -> Seq(Int)]
    BY <2>1, <2>2
  <2> QED BY ONLY <1>4, <2>3
<1>10. PICK f : Sums(s, f) /\ Co!FlattenSeq(s) = f[Len(s)]
  BY <1>9, FlattenIs
<1> DEFINE T == {i \in Nat : i <= c => f[i] = SubSeq(frame, 1, Edge(frame, i))}
<1>11. 0 \in T
  <2>1. f[0] = <<>>
    BY <1>10 DEF Sums
  <2>2. Edge(frame, 0) = 0
    <3>1. 0 * RecordMax = 0
      BY <1>2
    <3> QED BY <1>1, <1>2, <3>1 DEF Edge
  <2>3. SubSeq(frame, 1, 0) = <<>>
    OBVIOUS
  <2> QED BY <2>1, <2>2, <2>3
<1>12. ASSUME NEW i \in T PROVE i + 1 \in T
  <2> SUFFICES ASSUME i + 1 <= c PROVE f[i + 1] = SubSeq(frame, 1, Edge(frame, i + 1))
    OBVIOUS
  <2>1. i \in Nat /\ i <= c /\ i + 1 \in 1..c /\ (i + 1) - 1 = i
    BY <1>4
  <2>2. f[i] = SubSeq(frame, 1, Edge(frame, i))
    BY <2>1
  <2>3. f[i + 1] = f[i] \o s[i + 1]
    BY <1>9, <1>10, <2>1 DEF Sums
  <2>4. s[i + 1] = SubSeq(frame, Edge(frame, i) + 1, Edge(frame, i + 1))
    BY <1>8, <2>1
  <2>5. Edge(frame, i) \in Nat /\ Edge(frame, i + 1) \in Nat /\ Edge(frame, i) <= Edge(frame, i + 1) /\ Edge(frame, i + 1) <= Len(frame)
    BY <1>1, <1>7, <2>1
  <2>6. SubSeq(frame, 1, Edge(frame, i)) \o SubSeq(frame, Edge(frame, i) + 1, Edge(frame, i + 1)) = SubSeq(frame, 1, Edge(frame, i + 1))
    BY <2>5, JoinParts
  <2> QED BY <2>2, <2>3, <2>4, <2>6
<1>13. T = Nat
  <2>1. T \subseteq Nat
    OBVIOUS
  <2> HIDE DEF T
  <2> QED BY <1>11, <1>12, <2>1, Inductive
<1>14. f[c] = SubSeq(frame, 1, Edge(frame, c))
  BY <1>4, <1>13
<1>15. Edge(frame, c) = l
  <2>1. c * RecordMax = RecordMax * c /\ RecordMax * c \in Int
    BY <1>2, <1>4
  <2>2. ~(c * RecordMax < l)
    BY <1>2, <1>5, <2>1
  <2> QED BY <1>1, <2>2 DEF Edge
<1>16. SubSeq(frame, 1, l) = frame
  BY <1>1
<1>17. ASSUME l >= 1 PROVE c >= 1
  <2> SUFFICES ASSUME c = 0 PROVE FALSE
    BY <1>4
  <2>1. RecordMax * 0 = 0
    BY <1>2
  <2> QED BY <1>2, <1>5, <1>17, <2>1
<1> QED BY <1>1, <1>9, <1>10, <1>14, <1>15, <1>16, <1>17

-----------------------------------------------------------------------------
(* The messages the sender starts with. *)

\* The bytes of the values.
LEMMA FillType ==
  ASSUME NEW n \in Int, NEW byte \in Int
  PROVE  /\ Co!Fill(n) \in Seq(Int) /\ (n >= 0 => Len(Co!Fill(n)) = n) /\ \A i \in 1..Len(Co!Fill(n)) : Co!Fill(n)[i] = 1
         /\ Co!Spot(n, byte) \in Seq(Int) /\ (n >= 0 => Len(Co!Spot(n, byte)) = n)
<1>1. PICK f, s : f = Co!Fill(n) /\ s = Co!Spot(n, byte)
  OBVIOUS
<1>2. PICK k \in Nat : 1..n = 1..k /\ (n >= 0 => k = n)
  <2>1. CASE n >= 0
    BY <2>1
  <2>2. CASE ~(n >= 0)
    <3>1. 1..n = {} /\ 1..0 = {} /\ 0 \in Nat
      BY <2>2
    <3> QED BY <2>2, <3>1
  <2> QED BY <2>1, <2>2
<1>3. f = [i \in 1..k |-> 1] /\ s = [i \in 1..k |-> IF i = 2 THEN byte ELSE 1]
  BY <1>1, <1>2 DEF Co!Fill, Co!Spot
<1>4. f \in [1..k -> Int] /\ s \in [1..k -> Int] /\ \A i \in 1..k : f[i] = 1
  BY <1>3
<1>5. f \in Seq(Int) /\ Len(f) = k /\ s \in Seq(Int) /\ Len(s) = k
  BY ONLY <1>2, <1>4
<1> QED BY <1>1, <1>2, <1>4, <1>5

Suits(w, v) == Valid(w, v) /\ v \in Vals
Choice(w, s) == DOMAIN s = 1..Len(s) /\ Len(s) \in Nat /\ Len(s) >= 2 /\ \A i \in 1..Len(s) : Suits(w, s[i])

LEMMA BytesSuit ==
  ASSUME NEW w \in {"str8", "str16", "str16_if_any", "blob", "rest"}, NEW v \in Seq(Int)
  PROVE  Suits(w, v)
BY DEF Suits, Valid, Vals

\* Every kind has two values or more, and every one can be written.
LEMMA ValuesSuit ==
  ASSUME NEW w \in Kinds
  PROVE  Choice(w, Co!Values(w))
<1>0. /\ 8 \in Int /\ 2 \in Int /\ 1 \in Int /\ IdLen \in Int /\ Newline \in Int /\ Base - 1 \in Int /\ Base \in Int /\ 0 \in Int
      /\ Co!Cap16 + 1 \in Int /\ Co!Cap16 - 1 \in Int /\ Co!Cap16 \in Int /\ Threshold \in Int /\ Cap32 - 1 \in Int /\ Cap32 \in Int
      /\ IdLen >= 0
  BY CodecAssumption, CapsFit
<1>1. CASE w \in {"u8", "u16", "u32", "u64", "u8_if_set"}
  <2>1. Co!Values(w) = <<0, 1>>
    BY <1>1 DEF Co!Values
  <2>2. ASSUME NEW v \in {0, 1} PROVE Suits(w, v)
    <3>1. v \in Vals
      BY DEF Vals
    <3>2. Valid(w, v)
      BY <1>1 DEF Valid
    <3> QED BY <3>1, <3>2 DEF Suits
  <2>3. Suits(w, 0) /\ Suits(w, 1)
    BY <2>2
  <2> QED BY <2>1, <2>3 DEF Choice
<1>2. CASE w = "flag"
  <2>1. Co!Values(w) = <<FALSE, TRUE>>
    BY <1>2 DEF Co!Values
  <2>2. Suits(w, FALSE) /\ Suits(w, TRUE)
    BY <1>2 DEF Suits, Valid, Vals
  <2>3. PICK s : s = <<FALSE, TRUE>>
    OBVIOUS
  <2>4. DOMAIN s = 1..2 /\ Len(s) = 2 /\ s[1] = FALSE /\ s[2] = TRUE
    BY <2>3
  <2>5. \A i \in 1..2 : i = 1 \/ i = 2
    OBVIOUS
  <2>6. \A i \in 1..2 : Suits(w, s[i])
    BY <2>2, <2>4, <2>5
  <2>7. Len(s) = 2 /\ 2 \in Nat /\ 2 >= 2 /\ DOMAIN s = 1..Len(s)
    BY <2>4
  <2>8. Choice(w, s)
    BY <2>6, <2>7 DEF Choice
  <2> QED BY <2>1, <2>3, <2>8
<1>3. CASE w = "raw8"
  <2>0. PICK n \in Int : n = 8 /\ n >= 0
    BY <1>0
  <2>1. PICK a, b : a = Co!Fill(n) /\ b = Co!Spot(n, Newline)
    OBVIOUS
  <2>2. a \in Seq(Int) /\ Len(a) = 8 /\ b \in Seq(Int) /\ Len(b) = 8
    BY <1>0, <2>0, <2>1, FillType
  <2>3. Co!Values(w) = <<a, b>>
    BY <1>3, <2>0, <2>1 DEF Co!Values
  <2>4. Suits(w, a) /\ Suits(w, b)
    BY <1>3, <2>2 DEF Suits, Valid, Vals
  <2> QED BY <2>3, <2>4 DEF Choice
<1>4. CASE w = "id"
  <2>1. PICK a, b : a = Co!Fill(IdLen) /\ b = Co!Spot(IdLen, 0)
    OBVIOUS
  <2>2. a \in Seq(Int) /\ Len(a) = IdLen /\ b \in Seq(Int) /\ Len(b) = IdLen
    BY <1>0, <2>1, FillType
  <2>3. Co!Values(w) = <<a, b>>
    BY <1>4, <2>1 DEF Co!Values
  <2>4. Suits(w, a) /\ Suits(w, b)
    BY <1>4, <2>2 DEF Suits, Valid, Vals
  <2> QED BY <2>3, <2>4 DEF Choice
<1>5. CASE w = "line"
  <2>1. PICK a, b : a = <<>> /\ b = Co!Fill(2)
    OBVIOUS
  <2>2. b \in Seq(Int) /\ \A i \in 1..Len(b) : b[i] # Newline
    BY <1>0, <2>1, FillType, CodecAssumption
  <2>3. Co!Values(w) = <<a, b>>
    BY <1>5, <2>1 DEF Co!Values
  <2>4. Suits(w, a) /\ Suits(w, b)
    BY <1>5, <2>1, <2>2 DEF Suits, Valid, Vals
  <2> QED BY <2>3, <2>4 DEF Choice
<1>6. CASE w = "str8"
  <2>1. PICK a, b, c, d, e : a = <<>> /\ b = Co!Fill(1) /\ c = Co!Fill(Newline) /\ d = Co!Fill(Base - 1) /\ e = Co!Fill(Base)
    OBVIOUS
  <2>2. a \in Seq(Int) /\ b \in Seq(Int) /\ c \in Seq(Int) /\ d \in Seq(Int) /\ e \in Seq(Int)
    BY <1>0, <2>1, FillType
  <2>3. Co!Values(w) = <<a, b, c, d, e>>
    BY <1>6, <2>1 DEF Co!Values
  <2>4. Suits(w, a) /\ Suits(w, b) /\ Suits(w, c) /\ Suits(w, d) /\ Suits(w, e)
    BY <1>6, <2>2, BytesSuit
  <2> QED BY <2>3, <2>4 DEF Choice
<1>7. CASE w \in {"str16", "str16_if_any"}
  <2>1. PICK a, b, c : a = <<>> /\ b = Co!Fill(1) /\ c = Co!Fill(Newline)
    OBVIOUS
  <2>2. a \in Seq(Int) /\ b \in Seq(Int) /\ c \in Seq(Int)
    BY <1>0, <2>1, FillType
  <2>3. Co!Values(w) = <<a, b, c>>
    BY <1>7, <2>1 DEF Co!Values
  <2>4. Suits(w, a) /\ Suits(w, b) /\ Suits(w, c)
    BY <1>7, <2>2, BytesSuit
  <2> QED BY <2>3, <2>4 DEF Choice
<1>8. CASE w = "blob"
  <2>1. PICK a, b, c : a = <<>> /\ b = <<Newline, 1>> /\ c = Co!Fill(Co!Cap16 + 1)
    OBVIOUS
  <2>2. a \in Seq(Int) /\ b \in Seq(Int) /\ c \in Seq(Int)
    BY <1>0, <2>1, FillType
  <2>3. Co!Values(w) = <<a, b, c>>
    BY <1>8, <2>1 DEF Co!Values
  <2>4. Suits(w, a) /\ Suits(w, b) /\ Suits(w, c)
    BY <1>8, <2>2, BytesSuit
  <2> QED BY <2>3, <2>4 DEF Choice
<1>9. CASE w = "rest"
  <2>1. PICK a, b, c, d, e, f, g, h :
          /\ a = <<>> /\ b = <<Newline, 1>> /\ c = Co!Fill(Threshold) /\ d = Co!Fill(Co!Cap16 - 1) /\ e = Co!Fill(Co!Cap16)
          /\ f = Co!Fill(Co!Cap16 + 1) /\ g = Co!Fill(Cap32 - 1) /\ h = Co!Fill(Cap32)
    OBVIOUS
  <2>2. /\ a \in Seq(Int) /\ b \in Seq(Int) /\ c \in Seq(Int) /\ d \in Seq(Int) /\ e \in Seq(Int) /\ f \in Seq(Int)
        /\ g \in Seq(Int) /\ h \in Seq(Int)
    BY <1>0, <2>1, FillType
  <2>3. Co!Values(w) = <<a, b, c, d, e, f, g, h>>
    BY <1>9, <2>1 DEF Co!Values
  <2>4. Suits(w, a) /\ Suits(w, b) /\ Suits(w, c) /\ Suits(w, d) /\ Suits(w, e) /\ Suits(w, f) /\ Suits(w, g) /\ Suits(w, h)
    BY <1>9, <2>2, BytesSuit
  <2> QED BY <2>3, <2>4 DEF Choice
<1>10. CASE w = "placing"
  <2>0. PICK n \in Int : n = 1 /\ n >= 0
    BY <1>0
  <2>1. PICK z, x : z = <<>> /\ x = Co!Fill(n)
    OBVIOUS
  <2>2. z \in Seq(Int) /\ Len(z) <= 1 /\ x \in Seq(Int) /\ Len(x) <= 1
    <3>1. x \in Seq(Int) /\ Len(x) = 1
      BY <2>0, <2>1, FillType, <1>0
    <3>2. z \in Seq(Int) /\ Len(z) = 0
      BY <2>1
    <3> QED BY <3>1, <3>2
  <2>3. ASSUME NEW p, NEW q \in {z, x}, NEW k \in {0, 1}, NEW l \in {0, 1, 2}, p = [dest |-> q, mtime |-> k, direct |-> l]
        PROVE  Suits(w, p)
    <3>1. q \in Seq(Int) /\ Len(q) <= 1
      BY <2>2
    <3>2. p \in [dest : Seq(Int), mtime : {0, 1}, direct : Int] /\ Len(p.dest) <= 1
      BY <2>3, <3>1
    <3> QED BY <1>10, <3>2 DEF Suits, Valid, Vals
  <2>4. PICK a, b, c, d, e :
          /\ a = [dest |-> z, mtime |-> 0, direct |-> 0] /\ b = [dest |-> x, mtime |-> 0, direct |-> 0]
          /\ c = [dest |-> z, mtime |-> 1, direct |-> 0] /\ d = [dest |-> z, mtime |-> 0, direct |-> 1]
          /\ e = [dest |-> x, mtime |-> 1, direct |-> 2]
    OBVIOUS
  <2>5. Co!Values(w) = <<a, b, c, d, e>>
    BY <1>10, <2>0, <2>1, <2>4 DEF Co!Values
  <2>6. Suits(w, a) /\ Suits(w, b) /\ Suits(w, c) /\ Suits(w, d) /\ Suits(w, e)
    BY <2>3, <2>4
  <2> QED BY <2>5, <2>6 DEF Choice
<1> QED BY <1>1, <1>2, <1>3, <1>4, <1>5, <1>6, <1>7, <1>8, <1>9, <1>10 DEF Kinds, Same

Filled(kinds, l, vals) == vals \in Seq(Vals) /\ Len(vals) = l /\ \A i \in 1..l : Valid(kinds[i], vals[i])

LEMMA FilledBy ==
  ASSUME NEW kinds, NEW l \in Nat, NEW vals, vals = [i \in 1..l |-> vals[i]], \A i \in 1..l : Suits(kinds[i], vals[i])
  PROVE  Filled(kinds, l, vals)
<1>1. \A i \in 1..l : vals[i] \in Vals /\ Valid(kinds[i], vals[i])
  BY DEF Suits
<1>2. vals \in [1..l -> Vals]
  BY <1>1
<1>3. vals \in Seq(Vals) /\ Len(vals) = l
  BY ONLY <1>2, l \in Nat
<1> QED BY <1>1, <1>3 DEF Filled

\* The empty and the ordinary values of some kinds,
LEMMA PlainFilled ==
  ASSUME NEW kinds, NEW l \in Nat, DOMAIN kinds = 1..l, \A i \in 1..l : kinds[i] \in Kinds, NEW n \in {1, 2}
  PROVE  Filled(kinds, l, Co!Plain(kinds, n))
<1>1. PICK v : v = Co!Plain(kinds, n)
  OBVIOUS
<1>2. v = [i \in 1..l |-> Co!Values(kinds[i])[n]]
  BY <1>1 DEF Co!Plain
<1>3. ASSUME NEW i \in 1..l PROVE Suits(kinds[i], v[i])
  <2>1. PICK s : s = Co!Values(kinds[i])
    OBVIOUS
  <2>2. Choice(kinds[i], s)
    BY <2>1, ValuesSuit
  <2>3. n \in 1..Len(s)
    BY <2>2 DEF Choice
  <2>4. Suits(kinds[i], s[n])
    BY <2>2, <2>3 DEF Choice
  <2> QED BY <1>2, <2>1, <2>4
<1>4. v = [i \in 1..l |-> v[i]]
  BY <1>2
<1> QED BY <1>1, <1>3, <1>4, FilledBy

\* and those that differ in one field.
LEMMA NearFilled ==
  ASSUME NEW kinds, NEW l \in Nat, DOMAIN kinds = 1..l, \A i \in 1..l : kinds[i] \in Kinds, NEW vals, Filled(kinds, l, vals),
         NEW v \in Co!Near(kinds, vals)
  PROVE  Filled(kinds, l, v)
<1>0. DOMAIN vals = 1..l /\ \A i \in 1..l : Suits(kinds[i], vals[i])
  BY DEF Filled, Suits
<1>1. CASE v = vals
  BY <1>1
<1>2. CASE v # vals
  <2>1. PICK i \in 1..l : v \in {[vals EXCEPT ![i] = u] : u \in Co!ToSet(Co!Values(kinds[i]))}
    BY <1>2 DEF Co!Near
  <2>2. PICK u \in Co!ToSet(Co!Values(kinds[i])) : v = [vals EXCEPT ![i] = u]
    BY <2>1
  <2>3. PICK s : s = Co!Values(kinds[i])
    OBVIOUS
  <2>4. Choice(kinds[i], s)
    BY <2>3, ValuesSuit
  <2>5. PICK k \in 1..Len(s) : u = s[k]
    BY <2>2, <2>3, <2>4 DEF Co!ToSet, Choice
  <2>6. Suits(kinds[i], u)
    BY <2>4, <2>5 DEF Choice
  <2>7. DOMAIN v = 1..l /\ \A j \in 1..l : v[j] = IF j = i THEN u ELSE vals[j]
    BY <1>0, <2>2
  <2>8. v = [j \in 1..l |-> v[j]]
    BY <1>0, <2>2
  <2>9. \A j \in 1..l : Suits(kinds[j], v[j])
    BY <1>0, <2>6, <2>7
  <2> QED BY <2>8, <2>9, FilledBy
<1> QED BY <1>1, <1>2

LEMMA WritesAre ==
  ASSUME NEW type \in AllTypes
  PROVE  /\ Len(Co!Writes[type]) \in Nat /\ DOMAIN Co!Writes[type] = 1..Len(Co!Writes[type])
         /\ \A i \in 1..Len(Co!Writes[type]) : Co!Writes[type][i] \in Kinds
BY PairedTables DEF Pairing

\* The items of a message that Permitted allows.
Listable(type, items) ==
  /\ items \in Seq(Seq(Vals)) /\ Len(items) <= 2 /\ (type \notin ListTypes => items = <<>>)
  /\ type \in ListTypes =>
       \A k \in 1..Len(items) :
         /\ Len(items[k]) = Len(Co!ItemWrites[type])
         /\ \A i \in 1..Len(items[k]) : Valid(Co!ItemWrites[type][i], items[k][i])

LEMMA NoneListable ==
  ASSUME NEW type
  PROVE  Listable(type, <<>>)
BY DEF Listable

\* The lists a message may end in.
LEMMA ListsListable ==
  ASSUME NEW type \in AllTypes, NEW items \in Co!Lists(type)
  PROVE  Listable(type, items)
<1>1. CASE type \notin ListTypes
  <2>1. items = <<>>
    BY <1>1, ItemTables DEF Co!Lists
  <2> QED BY <2>1, NoneListable
<1>2. CASE type \in ListTypes
  <2>1. PICK w, l : w = Co!ItemWrites[type] /\ l = Len(w)
    OBVIOUS
  <2>2. l \in Nat /\ DOMAIN w = 1..l /\ \A i \in 1..l : w[i] \in Kinds
    BY <1>2, <2>1, ItemTables DEF ItemPairing
  <2>3. PICK a, b : a = Co!Plain(w, 1) /\ b = Co!Plain(w, 2)
    OBVIOUS
  <2>4. Filled(w, l, a) /\ Filled(w, l, b)
    <3>1. ASSUME NEW n \in {1, 2} PROVE Filled(w, l, Co!Plain(w, n))
      BY <2>2, PlainFilled
    <3> QED BY <2>3, <3>1
  <2>5. items = <<>> \/ items = <<a>> \/ items = <<b, a>>
    BY <1>2, <2>1, <2>3, ItemTables DEF Co!Lists
  <2>6. a \in Seq(Vals) /\ b \in Seq(Vals)
    BY <2>4 DEF Filled
  <2>7. items \in Seq(Seq(Vals)) /\ Len(items) <= 2 /\ \A k \in 1..Len(items) : items[k] = a \/ items[k] = b
    <3>1. CASE items = <<>>
      BY <3>1
    <3>2. CASE items = <<a>>
      BY <2>6, <3>2
    <3>3. CASE items = <<b, a>>
      BY <2>6, <3>3
    <3> QED BY <2>5, <3>1, <3>2, <3>3
  <2>8. ASSUME NEW k \in 1..Len(items) PROVE Filled(w, l, items[k])
    BY <2>4, <2>7
  <2>9. \A k \in 1..Len(items) : Len(items[k]) = l /\ \A i \in 1..Len(items[k]) : Valid(w[i], items[k][i])
    BY <2>8 DEF Filled
  <2> QED BY <1>2, <2>1, <2>7, <2>9 DEF Listable
<1> QED BY <1>1, <1>2

\* So a message the sender starts with is one that can be written.
LEMMA SoundIs ==
  ASSUME NEW type \in AllTypes, NEW vals, NEW items, Filled(Co!Writes[type], Len(Co!Writes[type]), vals),
         Listable(type, items), NEW m, m = [type |-> type, vals |-> vals, items |-> items], Co!Possible(m)
  PROVE  Permitted(m)
<1>1. m.type = type /\ m.vals = vals /\ m.items = items
  OBVIOUS
<1>2. PICK w : w = Co!Writes[type]
  OBVIOUS
<1>3. vals \in Seq(Vals) /\ Len(vals) = Len(w) /\ \A i \in 1..Len(vals) : Valid(w[i], vals[i])
  BY <1>2 DEF Filled
<1> QED BY <1>1, <1>2, <1>3 DEF Permitted, Listable

LEMMA HelloSound ==
  Permitted(Co!Hello) /\ Permitted(Co!Chunk) /\ Permitted(Co!Ping)
<1>1. /\ "Hello" \in AllTypes /\ "Hello" \in SessionTypes /\ "Ping" \in AllTypes /\ "Ping" \in SessionTypes
      /\ "FileChunk" \in AllTypes /\ "FileChunk" \in MeshTypes
  BY DEF AllTypes, SessionTypes, MeshTypes
<1>2. Co!Writes["Hello"] = <<"str8", "str8", "str8">>
  BY <1>1, TablesAre DEF Co!SessionWrites
<1>3. Co!Writes["Ping"] = <<>>
  BY <1>1, TablesAre DEF Co!SessionWrites
<1>4. Co!Writes["FileChunk"] = <<"u32", "u32", "blob">>
  BY <1>1, TablesAre DEF Co!MeshWrites
<1>5. Permitted(Co!Hello)
  <2>1. PICK a, b, c, n, k : n = 2 /\ k = 3 /\ a = Co!Fill(1) /\ b = Co!Fill(n) /\ c = Co!Fill(k)
    OBVIOUS
  <2>2. PICK l : l = 1
    OBVIOUS
  <2>3. l \in Int /\ n \in Int /\ k \in Int /\ a = Co!Fill(l)
    BY <2>1, <2>2
  <2>4. a \in Seq(Int) /\ b \in Seq(Int) /\ c \in Seq(Int)
    BY <2>1, <2>3, FillType
  <2>5. a \in Vals /\ b \in Vals /\ c \in Vals
    BY <2>4 DEF Vals
  <2>6. Valid("str8", a) /\ Valid("str8", b) /\ Valid("str8", c)
    BY <2>4 DEF Valid
  <2>7. PICK v, w : v = <<a, b, c>> /\ w = <<"str8", "str8", "str8">>
    OBVIOUS
  <2>8. v \in Seq(Vals) /\ Len(v) = 3 /\ Len(w) = 3 /\ v[1] = a /\ v[2] = b /\ v[3] = c
    BY <2>5, <2>7
  <2>9. \A i \in 1..3 : i = 1 \/ i = 2 \/ i = 3
    OBVIOUS
  <2>10. \A i \in 1..3 : w[i] = "str8" /\ Valid("str8", v[i])
    BY <2>6, <2>7, <2>8, <2>9
  <2>11. Filled(w, Len(w), v)
    BY <2>8, <2>10 DEF Filled
  <2>12. Co!Hello = [type |-> "Hello", vals |-> v, items |-> <<>>]
    BY <2>1, <2>7 DEF Co!Hello
  <2>13. Co!Possible(Co!Hello)
    BY <2>12 DEF Co!Possible
  <2> QED BY <1>1, <1>2, <2>7, <2>11, <2>12, <2>13, NoneListable, SoundIs
<1>6. Permitted(Co!Chunk)
  <2>1. PICK c : c = Co!Fill(Co!Cap16 + 1)
    OBVIOUS
  <2>2. Co!Cap16 + 1 \in Int /\ 0 \in Int
    BY CapsFit
  <2>3. c \in Seq(Int)
    BY <2>1, <2>2, FillType
  <2>4. PICK x, y : x = 0 /\ y = 1
    OBVIOUS
  <2>5. x \in Vals /\ y \in Vals /\ c \in Vals
    BY <2>3, <2>4 DEF Vals
  <2>6. Valid("u32", x) /\ Valid("u32", y) /\ Valid("blob", c)
    BY <2>3, <2>4 DEF Valid
  <2>7. PICK v, w : v = <<x, y, c>> /\ w = <<"u32", "u32", "blob">>
    OBVIOUS
  <2>8. /\ v \in Seq(Vals) /\ Len(v) = 3 /\ Len(w) = 3 /\ v[1] = x /\ v[2] = y /\ v[3] = c
        /\ w[1] = "u32" /\ w[2] = "u32" /\ w[3] = "blob"
    BY <2>5, <2>7
  <2>9. \A i \in 1..3 : i = 1 \/ i = 2 \/ i = 3
    OBVIOUS
  <2>10. \A i \in 1..3 : Valid(w[i], v[i])
    BY <2>6, <2>8, <2>9
  <2>11. Filled(w, Len(w), v)
    BY <2>8, <2>10 DEF Filled
  <2>12. Co!Chunk = [type |-> "FileChunk", vals |-> v, items |-> <<>>]
    BY <2>1, <2>4, <2>7 DEF Co!Chunk
  <2>13. Co!Possible(Co!Chunk)
    BY <2>12 DEF Co!Possible
  <2> QED BY <1>1, <1>4, <2>7, <2>11, <2>12, <2>13, NoneListable, SoundIs
<1>7. Permitted(Co!Ping)
  <2>1. PICK v : v = <<>>
    OBVIOUS
  <2>2. Filled(v, Len(v), v)
    BY <2>1 DEF Filled
  <2>3. Co!Ping = [type |-> "Ping", vals |-> v, items |-> <<>>]
    BY <2>1 DEF Co!Ping
  <2>4. Co!Possible(Co!Ping)
    BY <2>3 DEF Co!Possible
  <2> QED BY <1>1, <1>3, <2>1, <2>2, <2>3, <2>4, NoneListable, SoundIs
<1> QED BY <1>5, <1>6, <1>7

\* What the sender has left to send.
Sendings(s) == s \in Seq(Messages) /\ \A i \in 1..Len(s) : Permitted(s[i])

LEMMA SoundType ==
  ASSUME NEW m, Permitted(m)
  PROVE  m \in Messages
BY DEF Permitted, Messages

\* What there is at first.
LEMMA CodecStarts ==
  ASSUME Co!Init
  PROVE  /\ Sendings(todo) /\ large \in BOOLEAN /\ sent = <<>> /\ records = <<>> /\ rx = <<>> /\ got = <<>>
         /\ phase = "handshake"
<1>0. PICK type \in AllTypes :
        \E vals \in Co!Near(Co!Writes[type], Co!Plain(Co!Writes[type], 1))
                      \cup Co!Near(Co!Writes[type], Co!Plain(Co!Writes[type], 2)),
           items \in Co!Lists(type) :
          LET m == [type |-> type, vals |-> vals, items |-> items]
          IN  Co!Possible(m) /\ todo = <<Co!Hello, m, Co!Chunk, Co!Ping>>
  BY TablesAre DEF Co!Init
<1>1. PICK vals \in Co!Near(Co!Writes[type], Co!Plain(Co!Writes[type], 1))
                      \cup Co!Near(Co!Writes[type], Co!Plain(Co!Writes[type], 2)),
           items \in Co!Lists(type) :
        LET m == [type |-> type, vals |-> vals, items |-> items]
        IN  Co!Possible(m) /\ todo = <<Co!Hello, m, Co!Chunk, Co!Ping>>
  BY <1>0
<1>2. PICK m : m = [type |-> type, vals |-> vals, items |-> items]
  OBVIOUS
<1>3. Co!Possible(m) /\ todo = <<Co!Hello, m, Co!Chunk, Co!Ping>>
  BY <1>1, <1>2
<1>4. Filled(Co!Writes[type], Len(Co!Writes[type]), vals)
  <2>1. PICK n \in {1, 2} : vals \in Co!Near(Co!Writes[type], Co!Plain(Co!Writes[type], n))
    OBVIOUS
  <2>2. PICK w, l, v : w = Co!Writes[type] /\ l = Len(w) /\ v = Co!Plain(w, n)
    OBVIOUS
  <2>3. l \in Nat /\ DOMAIN w = 1..l /\ \A i \in 1..l : w[i] \in Kinds
    BY <2>2, WritesAre
  <2>4. Filled(w, l, v)
    BY <2>2, <2>3, PlainFilled
  <2>5. vals \in Co!Near(w, v)
    BY <2>1, <2>2
  <2> QED BY <2>2, <2>3, <2>4, <2>5, NearFilled
<1>5. Permitted(m)
  BY <1>2, <1>3, <1>4, ListsListable, SoundIs
<1>6. PICK a, b, c : a = Co!Hello /\ b = Co!Chunk /\ c = Co!Ping
  OBVIOUS
<1>7. Permitted(a) /\ Permitted(b) /\ Permitted(c)
  BY <1>6, HelloSound
<1>8. a \in Messages /\ b \in Messages /\ c \in Messages /\ m \in Messages
  BY <1>5, <1>7, SoundType
<1>9. PICK s : s = <<a, m, b, c>>
  OBVIOUS
<1>10. s \in Seq(Messages) /\ Len(s) = 4 /\ \A i \in 1..Len(s) : s[i] = a \/ s[i] = m \/ s[i] = b \/ s[i] = c
  BY <1>8, <1>9
<1>11. Sendings(s)
  BY <1>5, <1>7, <1>10 DEF Sendings
<1> QED BY <1>3, <1>6, <1>9, <1>11 DEF Co!Init

-----------------------------------------------------------------------------
(* One direction of a link, from the enqueue of a message to its dispatch. *)

\* One more frame comes behind those there are.
LEMMA BehindGrow ==
  ASSUME NEW S, NEW p \in Seq(Seq(S)), NEW e \in Seq(S), NEW j \in 0..Len(p)
  PROVE  Behind(Append(p, e), j) = Behind(p, j) \o e
<1>1. PICK q, u, n : q = Append(p, e) /\ u = SubSeq(p, j + 1, Len(p)) /\ n = Len(p)
  OBVIOUS
<1>2. q \in Seq(Seq(S)) /\ Len(q) = n + 1 /\ n \in Nat /\ u \in Seq(Seq(S)) /\ j \in 0..n
  BY <1>1
<1>3. SubSeq(q, j + 1, n + 1) = Append(u, e)
  <2>1. PICK v, w : v = SubSeq(q, j + 1, n + 1) /\ w = Append(u, e)
    OBVIOUS
  <2>2. q[n + 1] = e /\ \A i \in 1..n : q[i] = p[i]
    BY <1>1
  <2>3. PICK l \in Nat : l = n - j /\ j + l = n
    BY <1>2
  <2>4. Len(u) = l /\ \A i \in 1..l : u[i] = p[j + i]
    <3>1. j \in Nat /\ j + l <= Len(p) /\ u = SubSeq(p, j + 1, j + l)
      BY <1>1, <1>2, <2>3
    <3>0. p \in Seq(Seq(S)) /\ l \in Nat
      BY <2>3
    <3>2. Len(SubSeq(p, j + 1, j + l)) = l /\ \A i \in 1..l : SubSeq(p, j + 1, j + l)[i] = p[j + i]
      BY ONLY <3>0, <3>1, PartOf
    <3> QED BY ONLY <3>1, <3>2
  <2>5. v \in Seq(Seq(S)) /\ Len(v) = l + 1 /\ \A i \in 1..(l + 1) : v[i] = q[j + i]
    <3>1. PICK h \in Nat : h = l + 1
      BY <2>3
    <3>2. j \in Nat /\ j + h = n + 1 /\ j + h <= Len(q)
      BY <1>2, <2>3, <3>1
    <3>3. v = SubSeq(q, j + 1, j + h)
      BY <2>1, <3>2
    <3>4. v \in Seq(Seq(S)) /\ Len(v) = h /\ \A i \in 1..h : v[i] = q[j + i]
      BY <1>2, <3>2, <3>3, PartOf
    <3> QED BY <3>1, <3>4
  <2>6. w \in Seq(Seq(S)) /\ Len(w) = l + 1 /\ w[l + 1] = e /\ \A i \in 1..l : w[i] = u[i]
    <3>1. /\ w \in Seq(Seq(S)) /\ Len(w) = Len(u) + 1 /\ w[Len(u) + 1] = e
          /\ \A i \in 1..Len(u) : w[i] = u[i]
      BY <1>2, <2>1, OneLonger
    <3> QED BY <2>4, <3>1
  <2>7. ASSUME NEW i \in 1..(l + 1) PROVE v[i] = w[i]
    <3>1. CASE i = l + 1
      <4>1. j + i = n + 1
        BY <1>2, <2>3, <3>1
      <4> QED BY <2>2, <2>5, <2>6, <3>1, <4>1
    <3>2. CASE i # l + 1
      <4>1. i \in 1..l /\ j + i \in 1..n
        BY <1>2, <2>3, <3>2
      <4> QED BY <2>2, <2>4, <2>5, <2>6, <4>1
    <3> QED BY <3>1, <3>2
  <2>8. v = w
    BY ONLY <2>3, <2>5, <2>6, <2>7
  <2> QED BY <2>1, <2>8
<1>4. Co!FlattenSeq(Append(u, e)) = Co!FlattenSeq(u) \o e
  BY <1>2, FlattenAppend
<1> QED BY <1>1, <1>2, <1>3, <1>4 DEF Behind

\* The frames of a stream that one message was added to.
LEMMA FramesGrow ==
  ASSUME NEW ms, NEW lg, NEW m, Stream(ms, lg), Stream(Append(ms, m), lg)
  PROVE  /\ Frames(Append(ms, m), lg) = Append(Frames(ms, lg), Co!Encode(m, Allowed(lg, Len(ms) + 1)))
         /\ Co!Encode(m, Allowed(lg, Len(ms) + 1)) \in Seq(Int)
         /\ Sendable(m, Allowed(lg, Len(ms) + 1))
<1>1. PICK n, q, p, r, e : /\ n = Len(ms) /\ q = Append(ms, m) /\ p = Frames(ms, lg) /\ r = Frames(q, lg)
                           /\ e = Co!Encode(m, Allowed(lg, n + 1))
  OBVIOUS
<1>2. ms \in Seq(Messages) /\ n \in Nat
  BY <1>1 DEF Stream
<1>3. Len(q) = n + 1 /\ q[n + 1] = m /\ \A i \in 1..n : q[i] = ms[i]
  BY <1>1, <1>2
<1>4. p \in Seq(Seq(Int)) /\ Len(p) = n /\ \A i \in 1..n : p[i] = Co!Encode(ms[i], Allowed(lg, i))
  BY <1>1, FramesType
<1>5. /\ r \in Seq(Seq(Int)) /\ Len(r) = n + 1
      /\ \A i \in 1..(n + 1) : r[i] = Co!Encode(q[i], Allowed(lg, i)) /\ r[i] \in Seq(Int) /\ Sendable(q[i], Allowed(lg, i))
  BY <1>1, <1>3, FramesType
<1>6. r[n + 1] = e /\ e \in Seq(Int) /\ Sendable(m, Allowed(lg, n + 1))
  <2>1. n + 1 \in 1..(n + 1)
    BY <1>2
  <2>2. r[n + 1] = Co!Encode(q[n + 1], Allowed(lg, n + 1)) /\ r[n + 1] \in Seq(Int) /\ Sendable(q[n + 1], Allowed(lg, n + 1))
    BY <1>5, <2>1
  <2> QED BY <1>1, <1>3, <2>2
<1>7. \A i \in 1..n : r[i] = p[i]
  BY <1>2, <1>3, <1>4, <1>5
<1>8. r = Append(p, e)
  <2>1. PICK s : s = Append(p, e)
    OBVIOUS
  <2>2. s \in Seq(Seq(Int)) /\ Len(s) = n + 1 /\ s[n + 1] = e /\ \A i \in 1..n : s[i] = p[i]
    BY <1>4, <1>6, <2>1
  <2>3. \A i \in 1..(n + 1) : r[i] = s[i]
    BY <1>2, <1>6, <1>7, <2>2
  <2>4. r = s
    BY ONLY <1>2, <1>5, <2>2, <2>3
  <2> QED BY <2>1, <2>4
<1> QED BY <1>1, <1>6, <1>8

\* A buffer that is one whole frame.
LEMMA OneDrained ==
  ASSUME NEW m, NEW allow \in BOOLEAN, Sendable(m, allow)
  PROVE  /\ Co!Encode(m, allow) \in Seq(Int) /\ Co!HoldsFrame(Co!Encode(m, allow)) /\ Len(Co!Encode(m, allow)) >= 6
         /\ Co!Drained(Co!Encode(m, allow)) = [ok |-> TRUE, msgs |-> <<m>>, left |-> <<>>]
<1>1. PICK e, t, a, b : /\ e = Co!Encode(m, allow) /\ t = <<>> /\ a = [ok |-> TRUE, msgs |-> <<>>, left |-> e]
                        /\ b = [ok |-> TRUE, msgs |-> <<m>>, left |-> t]
  OBVIOUS
<1>2. e \in Seq(Int)
  BY <1>1, EncodeParts
<1>3. Splits(e, e, t)
  BY <1>1, <1>2 DEF Splits
<1>4. a.left = e /\ a.ok = TRUE /\ a.msgs = <<>>
  BY <1>1
<1>5. Splits(a.left, Co!Encode(m, allow), t)
  BY <1>1, <1>3, <1>4
<1>6. /\ Len(e) >= 6 /\ Co!HoldsFrame(e)
      /\ Co!Drain(a) = [ok |-> TRUE, msgs |-> Append(a.msgs, m), left |-> t]
  BY <1>4, <1>5, DrainWhole
<1>7. Append(<<>>, m) = <<m>>
  OBVIOUS
<1>8. Co!Drain(a) = b
  BY <1>1, <1>4, <1>6, <1>7
<1>9. Co!Drain(b) = b
  <2>1. b.left = <<>>
    BY <1>1
  <2>2. Len(b.left) = 0
    BY <2>1
  <2>3. ~Co!HoldsFrame(b.left)
    BY <2>2 DEF Co!HoldsFrame
  <2> QED BY <2>3, DrainStays
<1>10. PICK most : most = Len(e) \div 6
  OBVIOUS
<1>11. Len(e) \in Nat /\ most \in Nat /\ most >= 1
  BY <1>2, <1>6, <1>10
<1>12. PICK f : Draining(e, f) /\ Co!Drained(e) = f[most]
  BY <1>10, <1>11, DrainedIs
<1>13. f[0] = a /\ \A i \in 0..most - 1 : f[i + 1] = Co!Drain(f[i])
  <2>1. 0 \in 0..most /\ \A i \in 0..most - 1 : i + 1 \in 0..most /\ i + 1 # 0 /\ (i + 1) - 1 = i
    BY <1>11
  <2> QED BY <1>1, <1>10, <1>12, <2>1 DEF Draining
<1> DEFINE T == {i \in Nat : i + 1 <= most => f[i + 1] = b}
<1>14. 0 \in T
  <2>1. 0 \in 0..most - 1
    BY <1>11
  <2>2. f[0 + 1] = b
    BY <1>8, <1>13, <2>1
  <2> QED BY <2>2
<1>15. ASSUME NEW i \in T PROVE i + 1 \in T
  <2> SUFFICES ASSUME (i + 1) + 1 <= most PROVE f[(i + 1) + 1] = b
    OBVIOUS
  <2>1. i \in Nat /\ i + 1 \in 0..most - 1 /\ i + 1 <= most
    BY <1>11
  <2>2. f[(i + 1) + 1] = Co!Drain(f[i + 1])
    BY <1>13, <2>1
  <2> QED BY <1>9, <2>1, <2>2
<1>16. T = Nat
  <2>1. T \subseteq Nat
    OBVIOUS
  <2> HIDE DEF T
  <2> QED BY <1>14, <1>15, <2>1, Inductive
<1>17. f[most] = b
  <2>1. PICK i \in Nat : i + 1 = most
    <3>1. most - 1 \in Nat /\ (most - 1) + 1 = most
      BY <1>11
    <3> QED BY <3>1
  <2>2. i \in T
    BY <1>16
  <2>3. i + 1 <= most
    BY <1>11, <2>1
  <2> QED BY <2>1, <2>2, <2>3
<1> QED BY <1>1, <1>2, <1>6, <1>12, <1>17

\* CutShort of a buffer.
Short(x) ==
  LET left == Co!Drained(x).left
  IN  Len(x) > Co!RxCap \/ (Len(left) \in {6, 7} /\ Co!Large(left))

\* During the handshake some records make the first frame whole, and the others hold what is behind it.
Arriving(p, rs, x) ==
  \E u \in Seq(Seq(Int)), v \in Seq(Seq(Int)) :
    rs = u \o v /\ u # <<>> /\ x \o Co!FlattenSeq(u) = p[1] /\ Co!FlattenSeq(v) = Behind(p, 1)

\* What is read and what is on its way are the frames behind the messages that were dispatched.
Linked(s, lg, rs, x, ph, g) ==
  \E j \in 0..Len(s) :
    /\ g = SubSeq(s, 1, j)
    /\ ph = "handshake" => j = 0 /\ (s = <<>> => x = <<>> /\ rs = <<>>) /\ (s # <<>> => Arriving(Frames(s, lg), rs, x))
    /\ ph = "link" => x \o Co!FlattenSeq(rs) = Behind(Frames(s, lg), j) /\ ~Co!HoldsFrame(x)
    /\ ph = "closed" => Short(x)

\* The first frame is on its way when its records are,
LEMMA FirstSent ==
  ASSUME NEW e \in Seq(Int), Len(e) >= 6
  PROVE  Arriving(<<e>>, Co!Records(e), <<>>)
<1>1. PICK r, p, v : r = Co!Records(e) /\ p = <<e>> /\ v = <<>>
  OBVIOUS
<1>2. r \in Seq(Seq(Int)) /\ Co!FlattenSeq(r) = e /\ Len(r) >= 1
  <2>1. Len(e) >= 1
    OBVIOUS
  <2> QED BY <1>1, <2>1, RecordsJoin
<1>3. v \in Seq(Seq(Int)) /\ r = r \o v /\ r # <<>> /\ v \o e = e
  BY <1>1, <1>2
<1>4. Co!FlattenSeq(v) = <<>>
  BY <1>1, FlattenEmpty
<1>5. p \in Seq(Seq(Int)) /\ Len(p) = 1 /\ p[1] = e
  BY <1>1
<1>6. Behind(p, 1) = <<>>
  <2>1. Behind(p, Len(p)) = <<>>
    BY <1>5, BehindIs
  <2> QED BY <1>5, <2>1
<1>7. Arriving(p, r, v)
  BY <1>2, <1>3, <1>4, <1>5, <1>6 DEF Arriving
<1> QED BY <1>1, <1>7

\* and stays it when more are sent.
LEMMA MoreSent ==
  ASSUME NEW p \in Seq(Seq(Int)), Len(p) >= 1, NEW e \in Seq(Int), NEW rs \in Seq(Seq(Int)), NEW x, Arriving(p, rs, x)
  PROVE  Arriving(Append(p, e), rs \o Co!Records(e), x)
<1>1. PICK u \in Seq(Seq(Int)), v \in Seq(Seq(Int)) :
        rs = u \o v /\ u # <<>> /\ x \o Co!FlattenSeq(u) = p[1] /\ Co!FlattenSeq(v) = Behind(p, 1)
  BY DEF Arriving
<1>2. PICK r, q, z, w : r = Co!Records(e) /\ q = Append(p, e) /\ z = rs \o r /\ w = v \o r
  OBVIOUS
<1>3. r \in Seq(Seq(Int)) /\ Co!FlattenSeq(r) = e
  BY <1>2, RecordsJoin
<1>4. w \in Seq(Seq(Int))
  BY <1>2, <1>3
<1>5. z = u \o w
  <2>1. u \in Seq(Seq(Int)) /\ v \in Seq(Seq(Int)) /\ r \in Seq(Seq(Int))
    BY <1>3
  <2>2. Joins(u, v, r)
    BY ONLY <2>1, JoinRecords
  <2>3. (u \o v) \o r = u \o (v \o r)
    BY ONLY <2>2 DEF Joins
  <2> QED BY <1>1, <1>2, <2>3
<1>6. Co!FlattenSeq(w) = Co!FlattenSeq(v) \o e
  BY <1>2, <1>3, FlattenConcat
<1>7. q[1] = p[1]
  BY <1>2
<1>8. 1 \in 0..Len(p)
  OBVIOUS
<1>9. Behind(q, 1) = Behind(p, 1) \o e
  BY <1>2, <1>8, BehindGrow
<1> QED BY <1>1, <1>2, <1>4, <1>5, <1>6, <1>7, <1>9 DEF Arriving

\* Sending keeps a link whole,
LEMMA LinkedSend ==
  ASSUME NEW s, NEW lg, NEW m, Stream(s, lg), Stream(Append(s, m), lg), NEW rs \in Seq(Seq(Int)), NEW x \in Seq(Int),
         NEW ph \in {"handshake", "link"}, NEW g, Linked(s, lg, rs, x, ph, g)
  PROVE  Linked(Append(s, m), lg, rs \o Co!Records(Co!Encode(m, Allowed(lg, Len(s) + 1))), x, ph, g)
<1>1. PICK e, t, p, q, r, z : /\ e = Co!Encode(m, Allowed(lg, Len(s) + 1)) /\ t = Append(s, m) /\ p = Frames(s, lg)
                              /\ q = Frames(t, lg) /\ r = Co!Records(e) /\ z = rs \o r
  OBVIOUS
<1>2. PICK j \in 0..Len(s) :
        /\ g = SubSeq(s, 1, j)
        /\ ph = "handshake" => j = 0 /\ (s = <<>> => x = <<>> /\ rs = <<>>) /\ (s # <<>> => Arriving(p, rs, x))
        /\ ph = "link" => x \o Co!FlattenSeq(rs) = Behind(p, j) /\ ~Co!HoldsFrame(x)
  BY <1>1 DEF Linked
<1>3. q = Append(p, e) /\ e \in Seq(Int) /\ Sendable(m, Allowed(lg, Len(s) + 1))
  BY <1>1, FramesGrow
<1>4. p \in Seq(Seq(Int)) /\ Len(p) = Len(s) /\ Len(s) \in Nat
  BY <1>1, FramesType
<1>5. r \in Seq(Seq(Int)) /\ Co!FlattenSeq(r) = e
  BY <1>1, <1>3, RecordsJoin
<1>6. s \in Seq(Messages) /\ lg \in BOOLEAN
  BY DEF Stream
<1>7. g = SubSeq(t, 1, j) /\ j \in 0..Len(t) /\ t # <<>>
  <2>1. t \in Seq(Messages) /\ Len(t) = Len(s) + 1
    BY <1>1 DEF Stream
  <2>2. \A i \in 1..Len(s) : t[i] = s[i]
    BY <1>1, <1>6
  <2>3. PICK u, v, k : u = SubSeq(t, k + 1, k + j) /\ v = SubSeq(s, k + 1, k + j) /\ k = 0
    OBVIOUS
  <2>4. k \in Nat /\ j \in Nat /\ k + j <= Len(s) /\ k + j <= Len(t) /\ k + 1 = 1 /\ k + j = j
    BY <1>4, <2>1, <2>3
  <2>5. u \in Seq(Messages) /\ Len(u) = j /\ \A i \in 1..j : u[i] = t[k + i]
    BY <2>1, <2>3, <2>4, PartOf
  <2>6. v \in Seq(Messages) /\ Len(v) = j /\ \A i \in 1..j : v[i] = s[k + i]
    BY <1>6, <2>3, <2>4, PartOf
  <2>7. \A i \in 1..j : k + i \in 1..Len(s)
    BY <1>4, <2>3
  <2>8. \A i \in 1..Len(v) : u[i] = v[i]
    BY <2>2, <2>5, <2>6, <2>7
  <2>9. u = v
    BY <2>5, <2>6, <2>8, SameSeq
  <2>10. t # <<>>
    BY <1>4, <2>1
  <2> QED BY <1>2, <1>4, <2>1, <2>3, <2>4, <2>9, <2>10
<1>8. ASSUME ph = "handshake" PROVE j = 0 /\ Arriving(q, z, x)
  <2>1. CASE s = <<>>
    <3>1. x = <<>> /\ rs = <<>>
      BY <1>2, <1>8, <2>1
    <3>2. z = r
      BY <1>1, <1>5, <3>1
    <3>3. Len(p) = 0
      BY <1>4, <2>1
    <3>4. q = <<e>>
      BY <1>3, <1>4, <3>3
    <3>5. Len(e) >= 6
      <4>1. Allowed(lg, Len(s) + 1) \in BOOLEAN
        BY <1>6 DEF Allowed
      <4> QED BY <1>1, <1>3, <4>1, OneDrained
    <3>6. Arriving(<<e>>, r, <<>>)
      BY <1>1, <1>3, <3>5, FirstSent
    <3> QED BY <1>2, <1>8, <3>1, <3>2, <3>4, <3>6
  <2>2. CASE s # <<>>
    <3>1. Len(p) >= 1
      BY <1>4, <1>6, <2>2
    <3>2. Arriving(p, rs, x)
      BY <1>2, <1>8, <2>2
    <3>3. Arriving(Append(p, e), rs \o Co!Records(e), x)
      BY <1>3, <1>4, <3>1, <3>2, MoreSent
    <3> QED BY <1>1, <1>2, <1>3, <1>8, <3>3
  <2> QED BY <2>1, <2>2
<1>9. ASSUME ph = "link" PROVE x \o Co!FlattenSeq(z) = Behind(q, j) /\ ~Co!HoldsFrame(x)
  <2>1. PICK a, b : a = Co!FlattenSeq(rs) /\ b = Behind(p, j)
    OBVIOUS
  <2>2. a \in Seq(Int)
    BY <2>1, FlattenType
  <2>3. Co!FlattenSeq(z) = a \o e
    BY <1>1, <1>5, <2>1, FlattenConcat
  <2>4. Behind(q, j) = b \o e
    BY <1>3, <1>4, <2>1, BehindGrow
  <2>5. x \o a = b
    BY <1>2, <1>9, <2>1
  <2>6. (x \o a) \o e = x \o (a \o e)
    <3>1. x \in Seq(Int) /\ a \in Seq(Int) /\ e \in Seq(Int)
      BY <1>3, <2>2
    <3>2. Joins(x, a, e)
      BY ONLY <3>1, JoinBytes
    <3> QED BY ONLY <3>2 DEF Joins
  <2> QED BY <1>2, <1>9, <2>3, <2>4, <2>5, <2>6
<1>10. Linked(t, lg, z, x, ph, g)
  BY <1>1, <1>7, <1>8, <1>9 DEF Linked
<1> QED BY <1>1, <1>10

\* so does a read of the handshake, which never fails,
LEMMA LinkedHandshake ==
  ASSUME NEW s, NEW lg, Stream(s, lg), NEW rs \in Seq(Seq(Int)), rs # <<>>, NEW x \in Seq(Int), NEW g,
         Linked(s, lg, rs, x, "handshake", g), NEW bytes, bytes = x \o Head(rs)
  PROVE  /\ ~Co!HoldsFrame(bytes) => Linked(s, lg, Tail(rs), bytes, "handshake", g)
         /\ Co!HoldsFrame(bytes) => /\ Co!Drained(bytes).ok = TRUE /\ Co!Drained(bytes).left \in Seq(Int)
                                    /\ Linked(s, lg, Tail(rs), Co!Drained(bytes).left, "link", SubSeq(Co!Drained(bytes).msgs, 1, 1))
<1>1. PICK p : p = Frames(s, lg)
  OBVIOUS
<1>2. g = SubSeq(s, 1, 0) /\ s # <<>> /\ Arriving(p, rs, x)
  BY <1>1 DEF Linked
<1>3. PICK u \in Seq(Seq(Int)), v \in Seq(Seq(Int)) :
        rs = u \o v /\ u # <<>> /\ x \o Co!FlattenSeq(u) = p[1] /\ Co!FlattenSeq(v) = Behind(p, 1)
  BY <1>2 DEF Arriving
<1>4. PICK h, w, rest : h = Head(u) /\ w = Tail(u) /\ rest = Co!FlattenSeq(w)
  OBVIOUS
<1>5. h \in Seq(Int) /\ w \in Seq(Seq(Int)) /\ Head(rs) = h /\ Tail(rs) = w \o v
  BY <1>3, <1>4
<1>6. rest \in Seq(Int) /\ Co!FlattenSeq(u) = h \o rest
  BY <1>3, <1>4, <1>5, FlattenType, FlattenTail
<1>7. bytes = x \o h /\ bytes \in Seq(Int)
  <2>1. x \in Seq(Int) /\ h \in Seq(Int)
    BY <1>5
  <2>2. (x \o h) \in Seq(Int)
    BY ONLY <2>1
  <2>3. bytes = x \o h
    BY <1>5
  <2> QED BY <2>2, <2>3
<1>8. bytes \o rest = p[1]
  <2>1. x \in Seq(Int) /\ h \in Seq(Int) /\ rest \in Seq(Int)
    BY <1>5, <1>6
  <2>2. Joins(x, h, rest)
    BY ONLY <2>1, JoinBytes
  <2>3. (x \o h) \o rest = x \o (h \o rest)
    BY ONLY <2>2 DEF Joins
  <2> QED BY <1>3, <1>6, <1>7, <2>3
<1>9. PICK m, a, e, n : m = s[1] /\ a = Allowed(lg, 1) /\ e = Co!Encode(m, a) /\ n = Len(s)
  OBVIOUS
<1>10. /\ n \in Nat /\ n >= 1 /\ p \in Seq(Seq(Int)) /\ Len(p) = n /\ p[1] = e /\ Sendable(m, a) /\ a \in BOOLEAN
       /\ s \in Seq(Messages) /\ lg \in BOOLEAN
  <2>1. s \in Seq(Messages) /\ lg \in BOOLEAN
    BY DEF Stream
  <2>2. n \in Nat /\ n >= 1 /\ 1 \in 1..n
    BY <1>2, <1>9, <2>1
  <2> QED BY <1>1, <1>9, <2>1, <2>2, FramesType
<1>11. a = FALSE
  BY <1>9, <1>10 DEF Allowed
<1>12. e \in Seq(Int) /\ Co!HoldsFrame(e) /\ Len(e) >= 6 /\ Co!Drained(e) = [ok |-> TRUE, msgs |-> <<m>>, left |-> <<>>]
  BY <1>9, <1>10, OneDrained
<1>13. CASE rest = <<>>
  <2>1. bytes = e
    BY <1>7, <1>8, <1>10, <1>13
  <2>2. PICK d : d = Co!Drained(bytes)
    OBVIOUS
  <2>3. d.ok = TRUE /\ d.msgs = <<m>> /\ d.left = <<>>
    BY <1>12, <2>1, <2>2
  <2>4. SubSeq(d.msgs, 1, 1) = SubSeq(s, 1, 1)
    <3>1. PICK b, c : b = SubSeq(d.msgs, 1, 1) /\ c = SubSeq(s, 1, 1)
      OBVIOUS
    <3>2. m \in Messages /\ d.msgs \in Seq(Messages) /\ Len(d.msgs) = 1 /\ d.msgs[1] = m
      BY <1>9, <1>10, <2>3
    <3>3. b \in Seq(Messages) /\ Len(b) = 1 /\ b[1] = m
      BY <3>1, <3>2
    <3>4. c \in Seq(Messages) /\ Len(c) = 1 /\ c[1] = m
      BY <1>9, <1>10, <3>1
    <3>5. \A i \in 1..Len(c) : b[i] = c[i]
      <4>1. \A i \in 1..Len(c) : i = 1
        BY <3>4
      <4> QED BY <3>3, <3>4, <4>1
    <3>6. b = c
      BY <3>3, <3>4, <3>5, SameSeq
    <3> QED BY <3>1, <3>6
  <2>5. d.left \o Co!FlattenSeq(Tail(rs)) = Behind(p, 1)
    <3>1. Co!FlattenSeq(w \o v) = rest \o Co!FlattenSeq(v)
      BY <1>4, <1>5, FlattenConcat
    <3>2. PICK b : b = Behind(p, 1)
      OBVIOUS
    <3>3. 1 \in 0..Len(p)
      BY <1>10
    <3>4. b \in Seq(Int)
      BY <1>10, <3>2, <3>3, BehindIs
    <3>5. <<>> \o (<<>> \o b) = b
      BY <3>4
    <3> QED BY <1>3, <1>5, <1>13, <2>3, <3>1, <3>2, <3>5
  <2>6. ~Co!HoldsFrame(d.left)
    <3>1. Len(d.left) = 0
      BY <2>3
    <3> QED BY <3>1 DEF Co!HoldsFrame
  <2>7. 1 \in 0..Len(s)
    BY <1>9, <1>10
  <2>8. Linked(s, lg, Tail(rs), d.left, "link", SubSeq(d.msgs, 1, 1))
    BY <1>1, <2>4, <2>5, <2>6, <2>7 DEF Linked
  <2>9. <<>> \in Seq(Int)
    OBVIOUS
  <2> QED BY <1>12, <2>1, <2>2, <2>3, <2>8, <2>9
<1>14. CASE rest # <<>>
  <2>1. Len(e) = Len(bytes) + Len(rest) /\ Len(rest) >= 1 /\ Len(bytes) \in Nat /\ \A i \in 1..Len(bytes) : e[i] = bytes[i]
    <3>1. Len(rest) >= 1
      BY <1>6, <1>14
    <3>2. bytes \in Seq(Int) /\ rest \in Seq(Int)
      BY <1>6, <1>7
    <3>3. Len(bytes \o rest) = Len(bytes) + Len(rest) /\ \A i \in 1..Len(bytes) : (bytes \o rest)[i] = bytes[i]
      BY ONLY <3>2, TwoParts
    <3>4. bytes \o rest = e
      BY <1>8, <1>10
    <3>5. Len(bytes) \in Nat
      BY ONLY <3>2
    <3> QED BY <3>1, <3>3, <3>4, <3>5
  <2>2. Len(bytes) < Len(e) /\ Starts(bytes, e)
    <3>1. Len(bytes) < Len(e)
      BY <1>6, <2>1
    <3> QED BY <1>7, <2>1, <3>1 DEF Starts
  <2>3. ~Co!HoldsFrame(bytes)
    <3>1. Co!HoldsFrame(bytes) => Wide(m, a)
      BY <1>9, <1>10, <2>2, DrainPart
    <3> QED BY <1>11, <3>1 DEF Wide
  <2>4. w # <<>>
    BY <1>4, <1>14, FlattenEmpty
  <2>5. bytes \o Co!FlattenSeq(w) = p[1]
    BY <1>4, <1>8
  <2>6. Arriving(p, Tail(rs), bytes)
    BY <1>3, <1>5, <2>4, <2>5 DEF Arriving
  <2>7. 0 \in 0..Len(s)
    BY <1>9, <1>10
  <2>8. Linked(s, lg, Tail(rs), bytes, "handshake", g)
    BY <1>1, <1>2, <2>6, <2>7 DEF Linked
  <2> QED BY <2>3, <2>8
<1> QED BY <1>13, <1>14

LEMMA SplitSeq ==
  ASSUME NEW S, NEW x \in Seq(S), NEW k \in Nat, k <= Len(x)
  PROVE  /\ SubSeq(x, 1, k) \in Seq(S) /\ SubSeq(x, k + 1, Len(x)) \in Seq(S)
         /\ SubSeq(x, 1, k) \o SubSeq(x, k + 1, Len(x)) = x
<1>1. PICK n \in Nat : n = Len(x) /\ k <= n
  OBVIOUS
<1>2. SubSeq(x, 1, k) \o SubSeq(x, k + 1, n) = SubSeq(x, 1, n)
  <2>1. x \in Seq(S) /\ k \in Nat /\ n \in Nat /\ k <= n /\ n <= Len(x)
    BY <1>1
  <2> QED BY ONLY <2>1, JoinParts
<1>3. SubSeq(x, 1, n) = x /\ SubSeq(x, 1, k) \in Seq(S) /\ SubSeq(x, k + 1, n) \in Seq(S)
  BY <1>1
<1> QED BY <1>1, <1>2, <1>3

\* A tick reads a piece of what has arrived, and leaves the rest of a record.
LEMMA ReadPiece ==
  ASSUME NEW all \in Seq(Int)
  PROVE  /\ SubSeq(all, 1, IF Len(all) < Budget THEN Len(all) ELSE Budget) \in Seq(Int)
         /\ SubSeq(all, Budget + 1, Len(all)) \in Seq(Int)
         /\ SubSeq(all, 1, IF Len(all) < Budget THEN Len(all) ELSE Budget) \o SubSeq(all, Budget + 1, Len(all)) = all
<1>1. Budget \in Nat /\ Len(all) \in Nat
  BY CodecAssumption
<1>2. CASE Len(all) < Budget
  <2>1. SubSeq(all, Budget + 1, Len(all)) = <<>>
    BY <1>1, <1>2
  <2>2. PICK h : h = SubSeq(all, 1, IF Len(all) < Budget THEN Len(all) ELSE Budget)
    OBVIOUS
  <2>3. h = all
    BY <1>2, <2>2
  <2>4. <<>> \in Seq(Int) /\ all \o <<>> = all
    OBVIOUS
  <2> QED BY <2>1, <2>2, <2>3, <2>4
<1>3. CASE ~(Len(all) < Budget)
  <2>1. Budget <= Len(all)
    BY <1>1, <1>3
  <2> QED BY <1>1, <1>3, <2>1, SplitSeq
<1> QED BY <1>2, <1>3

\* What a tick has in its hands.
Ticked(rs, x, arrived, all, rest, bytes, left, d) ==
  /\ arrived \in 1..Len(rs) /\ all = Co!FlattenSeq(SubSeq(rs, 1, arrived)) /\ rest = SubSeq(all, Budget + 1, Len(all))
  /\ bytes = x \o SubSeq(all, 1, IF Len(all) < Budget THEN Len(all) ELSE Budget)
  /\ left = (IF rest = <<>> THEN <<>> ELSE <<rest>>) \o SubSeq(rs, arrived + 1, Len(rs))
  /\ d = Co!Drained(bytes)

\* and a tick, which fails only where a frame of the wide kind is cut.
LEMMA LinkedTick ==
  ASSUME NEW s, NEW lg, Stream(s, lg), NEW rs \in Seq(Seq(Int)), NEW x \in Seq(Int), NEW g, Linked(s, lg, rs, x, "link", g),
         NEW arrived, NEW all, NEW rest, NEW bytes, NEW left, NEW d, Ticked(rs, x, arrived, all, rest, bytes, left, d)
  PROVE  /\ left \in Seq(Seq(Int)) /\ bytes \in Seq(Int)
         /\ (Len(bytes) > Co!RxCap \/ ~d.ok) => Linked(s, lg, left, bytes, "closed", g)
         /\ d.ok => d.left \in Seq(Int) /\ Linked(s, lg, left, d.left, "link", g \o d.msgs)
<1>0. /\ arrived \in 1..Len(rs) /\ all = Co!FlattenSeq(SubSeq(rs, 1, arrived)) /\ rest = SubSeq(all, Budget + 1, Len(all))
      /\ bytes = x \o SubSeq(all, 1, IF Len(all) < Budget THEN Len(all) ELSE Budget)
      /\ left = (IF rest = <<>> THEN <<>> ELSE <<rest>>) \o SubSeq(rs, arrived + 1, Len(rs))
      /\ d = Co!Drained(bytes)
  BY DEF Ticked
<1>1. PICK p, u, v, h, fv : /\ p = Frames(s, lg) /\ u = SubSeq(rs, 1, arrived) /\ v = SubSeq(rs, arrived + 1, Len(rs))
                            /\ h = SubSeq(all, 1, IF Len(all) < Budget THEN Len(all) ELSE Budget) /\ fv = Co!FlattenSeq(v)
  OBVIOUS
<1>2. PICK j \in 0..Len(s) : g = SubSeq(s, 1, j) /\ x \o Co!FlattenSeq(rs) = Behind(p, j) /\ ~Co!HoldsFrame(x)
  BY <1>1 DEF Linked
<1>3. u \in Seq(Seq(Int)) /\ v \in Seq(Seq(Int)) /\ u \o v = rs
  <2>1. arrived \in Nat /\ arrived <= Len(rs)
    BY <1>0
  <2> QED BY <1>1, <2>1, SplitSeq
<1>4. all \in Seq(Int) /\ fv \in Seq(Int) /\ Co!FlattenSeq(rs) = all \o fv
  <2>1. Co!FlattenSeq(u \o v) = Co!FlattenSeq(u) \o Co!FlattenSeq(v)
    BY <1>3, FlattenConcat
  <2>2. Co!FlattenSeq(u) \in Seq(Int) /\ Co!FlattenSeq(v) \in Seq(Int)
    BY <1>3, FlattenType
  <2> QED BY <1>0, <1>1, <1>3, <2>1, <2>2
<1>5. h \in Seq(Int) /\ rest \in Seq(Int) /\ h \o rest = all
  BY <1>0, <1>1, <1>4, ReadPiece
<1>6. left \in Seq(Seq(Int)) /\ Co!FlattenSeq(left) = rest \o fv
  <2>1. CASE rest = <<>>
    <3>1. left = v
      <4>1. left = <<>> \o v
        BY <1>0, <1>1, <2>1
      <4>2. <<>> \o v = v
        BY <1>3
      <4> QED BY <4>1, <4>2
    <3>2. <<>> \o fv = fv
      BY <1>4
    <3> QED BY <1>1, <1>3, <2>1, <3>1, <3>2
  <2>2. CASE rest # <<>>
    <3>1. PICK o : o = <<rest>>
      OBVIOUS
    <3>2. o \in Seq(Seq(Int)) /\ left = o \o v
      <4>1. left = <<rest>> \o v
        BY <1>0, <1>1, <2>2
      <4>2. rest \in Seq(Int)
        BY <1>5
      <4>3. <<rest>> \in Seq(Seq(Int))
        BY ONLY <4>2
      <4> QED BY <3>1, <4>1, <4>3
    <3>3. Co!FlattenSeq(o) = rest
      BY <1>5, <3>1, FlattenOne
    <3>4. Co!FlattenSeq(o \o v) = Co!FlattenSeq(o) \o Co!FlattenSeq(v)
      BY <1>3, <3>2, FlattenConcat
    <3>5. (o \o v) \in Seq(Seq(Int))
      BY <1>3, <3>2
    <3> QED BY <1>1, <3>2, <3>3, <3>4, <3>5
  <2> QED BY <2>1, <2>2
<1>7. PICK more : more = rest \o fv
  OBVIOUS
<1>8. more \in Seq(Int) /\ bytes \in Seq(Int) /\ bytes = x \o h
  <2>1. x \in Seq(Int) /\ h \in Seq(Int) /\ rest \in Seq(Int) /\ fv \in Seq(Int)
    BY <1>4, <1>5
  <2>2. (x \o h) \in Seq(Int) /\ (rest \o fv) \in Seq(Int)
    BY ONLY <2>1
  <2>3. bytes = x \o h
    BY <1>0, <1>1
  <2> QED BY <1>7, <2>2, <2>3
<1>9. bytes \o more = Behind(p, j)
  <2>1. x \in Seq(Int) /\ h \in Seq(Int) /\ rest \in Seq(Int) /\ fv \in Seq(Int) /\ more \in Seq(Int)
    BY <1>4, <1>5, <1>8
  <2>2. Joins(x, h, more) /\ Joins(h, rest, fv)
    BY ONLY <2>1, JoinBytes
  <2>3. (x \o h) \o more = x \o (h \o more) /\ (h \o rest) \o fv = h \o (rest \o fv)
    BY ONLY <2>2 DEF Joins
  <2> QED BY <1>2, <1>4, <1>5, <1>7, <1>8, <2>3
<1>10. Stopped(s, lg, j, more, d) \/ Failed(d)
  BY <1>0, <1>1, <1>8, <1>9, DrainedExact
<1>11. ASSUME Len(bytes) > Co!RxCap \/ ~d.ok PROVE Linked(s, lg, left, bytes, "closed", g)
  <2>1. CASE Len(bytes) > Co!RxCap
    <3>1. Short(bytes)
      BY <2>1 DEF Short
    <3> QED BY <1>2, <3>1 DEF Linked
  <2>2. CASE ~d.ok
    <3>1. ~Stopped(s, lg, j, more, d)
      <4>1. \A k, y : d = Drainer(s, j, k, y) => d.ok = TRUE
        BY DEF Drainer
      <4> QED BY <2>2, <4>1 DEF Stopped
    <3>2. Failed(d)
      BY <1>10, <3>1
    <3>3. Short(bytes)
      BY <1>0, <3>2 DEF Short, Failed
    <3> QED BY <1>2, <3>3 DEF Linked
  <2> QED BY <1>11, <2>1, <2>2
<1>12. ASSUME d.ok PROVE d.left \in Seq(Int) /\ Linked(s, lg, left, d.left, "link", g \o d.msgs)
  <2>1. Stopped(s, lg, j, more, d)
    BY <1>10, <1>12 DEF Failed
  <2>2. PICK k \in j..Len(s), y \in Seq(Int) : d = Drainer(s, j, k, y) /\ y \o more = Behind(p, k) /\ ~Co!HoldsFrame(y)
    BY <1>1, <2>1 DEF Stopped
  <2>3. d.left = y /\ d.msgs = SubSeq(s, j + 1, k)
    BY <2>2 DEF Drainer
  <2>4. s \in Seq(Messages) /\ Len(s) \in Nat /\ j \in Nat /\ k \in Nat /\ j <= k /\ k <= Len(s)
    <3>1. s \in Seq(Messages)
      BY DEF Stream
    <3>2. Len(s) \in Nat
      BY ONLY <3>1
    <3> QED BY <3>1, <3>2
  <2>5. g \o d.msgs = SubSeq(s, 1, k)
    <3>1. SubSeq(s, 1, j) \o SubSeq(s, j + 1, k) = SubSeq(s, 1, k)
      BY <2>4, JoinParts
    <3> QED BY <1>2, <2>3, <3>1
  <2>6. y \o Co!FlattenSeq(left) = Behind(p, k) /\ k \in 0..Len(s)
    <3>1. Co!FlattenSeq(left) = more
      BY <1>6, <1>7
    <3>2. k \in 0..Len(s)
      BY ONLY <2>4
    <3> QED BY <2>2, <3>1, <3>2
  <2> QED BY <1>1, <2>2, <2>3, <2>5, <2>6 DEF Linked
<1> QED BY <1>6, <1>8, <1>11, <1>12

Honest == \A i \in DOMAIN sent : ~Co!TakenForOld(sent[i])
Carried == records \in Seq(Seq(Int)) /\ rx \in Seq(Int) /\ Linked(sent, large, records, rx, phase, got)

ByteInv ==
  /\ Sendings(todo) /\ large \in BOOLEAN /\ phase \in {"handshake", "link", "closed"}
  /\ sent \in Seq(Messages) /\ \A i \in 1..Len(sent) : Permitted(sent[i]) /\ Co!Encodable(sent[i], Allowed(large, i))
  /\ Honest => Carried

\* What was sent is a stream, if nothing in it is taken for an old ServerInfo.
LEMMA HonestStream ==
  ASSUME ByteInv, Honest
  PROVE  Stream(sent, large) /\ Carried
<1>1. DOMAIN sent = 1..Len(sent)
  BY DEF ByteInv
<1>2. \A i \in 1..Len(sent) : Sendable(sent[i], Allowed(large, i))
  BY <1>1 DEF ByteInv, Honest, Sendable
<1> QED BY <1>2 DEF ByteInv, Stream

\* The invariant, action by action.
LEMMA ByteStarts ==
  ASSUME Co!Init
  PROVE  ByteInv
<1>1. /\ Sendings(todo) /\ large \in BOOLEAN /\ sent = <<>> /\ records = <<>> /\ rx = <<>> /\ got = <<>>
      /\ phase = "handshake"
  BY CodecStarts
<1>2. Len(sent) = 0 /\ SubSeq(sent, 1, 0) = <<>> /\ sent \in Seq(Messages)
  BY <1>1
<1>3. Linked(sent, large, records, rx, phase, got)
  <2>1. 0 \in 0..Len(sent)
    BY <1>2
  <2> QED BY <1>1, <1>2, <2>1 DEF Linked
<1>4. records \in Seq(Seq(Int)) /\ rx \in Seq(Int)
  BY <1>1
<1> QED BY <1>1, <1>2, <1>3, <1>4 DEF ByteInv, Carried

LEMMA ByteSend ==
  ASSUME ByteInv, Co!Send
  PROVE  ByteInv'
<1>1. PICK m, allow, e : m = Head(todo) /\ allow = Allowed(large, Len(sent) + 1) /\ e = Co!Encode(m, allow)
  OBVIOUS
<1>2. todo # <<>> /\ phase # "closed" /\ todo' = Tail(todo) /\ UNCHANGED <<large, rx, phase, got>>
  BY DEF Co!Send
<1>3. Sendings(todo) /\ sent \in Seq(Messages) /\ Len(sent) \in Nat /\ large \in BOOLEAN
  BY DEF ByteInv
<1>4. Permitted(m) /\ m \in Messages
  <2>1. todo \in Seq(Messages) /\ 1 \in 1..Len(todo) /\ m = todo[1]
    BY <1>1, <1>2, <1>3 DEF Sendings
  <2> QED BY <1>3, <2>1, SoundType DEF Sendings
<1>5. Sendings(todo')
  <2>1. PICK t, n : t = Tail(todo) /\ n = Len(todo)
    OBVIOUS
  <2>2. t \in Seq(Messages) /\ Len(t) = n - 1 /\ n \in Nat /\ \A i \in 1..(n - 1) : t[i] = todo[i + 1]
    BY <1>2, <1>3, <2>1 DEF Sendings
  <2>3. \A i \in 1..(n - 1) : i + 1 \in 1..n
    BY <2>2
  <2>4. \A i \in 1..Len(t) : Permitted(t[i])
    BY <1>3, <2>1, <2>2, <2>3 DEF Sendings
  <2> QED BY <1>2, <2>1, <2>2, <2>4 DEF Sendings
<1>6. (large /\ sent # <<>>) = allow
  <2>1. sent # <<>> <=> Len(sent) + 1 # 1
    BY <1>3
  <2> QED BY <1>1, <1>3, <2>1 DEF Allowed
<1>7. CASE ~Co!Encodable(m, allow)
  <2>1. UNCHANGED <<sent, records>>
    BY <1>1, <1>6, <1>7 DEF Co!Send
  <2> QED BY <1>2, <1>5, <2>1 DEF ByteInv, Honest, Carried
<1>8. CASE Co!Encodable(m, allow)
  <2>1. sent' = Append(sent, m) /\ records' = records \o Co!Records(e)
    BY <1>1, <1>6, <1>8 DEF Co!Send
  <2>2. PICK n : n = Len(sent)
    OBVIOUS
  <2>3. n \in Nat /\ sent' \in Seq(Messages) /\ Len(sent') = n + 1 /\ sent'[n + 1] = m /\ \A i \in 1..n : sent'[i] = sent[i]
    BY <1>3, <1>4, <2>1, <2>2
  <2>4. ASSUME NEW i \in 1..(n + 1) PROVE Permitted(sent'[i]) /\ Co!Encodable(sent'[i], Allowed(large, i))
    <3>1. CASE i = n + 1
      BY <1>1, <1>4, <1>8, <2>2, <2>3, <3>1
    <3>2. CASE i # n + 1
      <4>1. i \in 1..n
        BY <2>3, <3>2
      <4> QED BY <2>2, <2>3, <4>1 DEF ByteInv
    <3> QED BY <3>1, <3>2
  <2>5. ASSUME Honest' PROVE Carried'
    <3>1. \A i \in 1..(n + 1) : ~Co!TakenForOld(sent'[i])
      BY <2>3, <2>5 DEF Honest
    <3>2. Honest
      <4>1. DOMAIN sent = 1..n /\ \A i \in 1..n : i \in 1..(n + 1)
        BY <1>3, <2>2, <2>3
      <4> QED BY <2>3, <3>1, <4>1 DEF Honest
    <3>3. Stream(sent, large) /\ Carried
      BY <3>2, HonestStream
    <3>4. Stream(Append(sent, m), large)
      <4>1. \A i \in 1..Len(sent') : Sendable(sent'[i], Allowed(large, i))
        BY <2>3, <2>4, <3>1 DEF Sendable
      <4>2. Stream(sent', large)
        BY <1>3, <2>3, <4>1 DEF Stream
      <4> QED BY <2>1, <4>2
    <3>5. phase \in {"handshake", "link"}
      BY <1>2 DEF ByteInv
    <3>6. Linked(Append(sent, m), large, records \o Co!Records(e), rx, phase, got)
      <4>1. records \in Seq(Seq(Int)) /\ rx \in Seq(Int) /\ Linked(sent, large, records, rx, phase, got)
        BY <3>3 DEF Carried
      <4> QED BY <1>1, <3>3, <3>4, <3>5, <4>1, LinkedSend
    <3>7. records' \in Seq(Seq(Int))
      <4>1. e \in Seq(Int)
        BY <1>1, <3>3, <3>4, FramesGrow
      <4>2. Co!Records(e) \in Seq(Seq(Int))
        BY <4>1, RecordsJoin
      <4>3. records \in Seq(Seq(Int))
        BY <3>3 DEF Carried
      <4> QED BY <2>1, <4>2, <4>3
    <3> QED BY <1>2, <2>1, <3>3, <3>6, <3>7 DEF Carried
  <2>6. sent' \in Seq(Messages) /\ \A i \in 1..Len(sent') : Permitted(sent'[i]) /\ Co!Encodable(sent'[i], Allowed(large, i))
    BY <2>3, <2>4
  <2> QED BY <1>2, <1>3, <1>5, <2>5, <2>6 DEF ByteInv
<1> QED BY <1>7, <1>8

\* A step of the reader.
LEMMA ByteRead ==
  ASSUME ByteInv, UNCHANGED <<todo, large, sent>>, phase' \in {"handshake", "link", "closed"},
         Stream(sent, large) /\ Carried => Carried'
  PROVE  ByteInv'
<1>1. Honest' => Honest
  BY DEF Honest
<1>2. Honest' => Carried'
  BY <1>1, HonestStream
<1> QED BY <1>2 DEF ByteInv

LEMMA ByteHandshake ==
  ASSUME ByteInv, Co!HandshakeRead
  PROVE  ByteInv'
<1>1. PICK bytes, d : bytes = rx \o Head(records) /\ d = Co!Drained(bytes)
  OBVIOUS
<1>2. phase = "handshake" /\ records # <<>> /\ records' = Tail(records) /\ UNCHANGED <<todo, large, sent>>
  BY DEF Co!HandshakeRead
<1>3. /\ ~Co!HoldsFrame(bytes) => rx' = bytes /\ UNCHANGED <<phase, got>>
      /\ Co!HoldsFrame(bytes) => rx' = d.left /\ phase' = (IF d.ok THEN "link" ELSE "closed") /\ got' = SubSeq(d.msgs, 1, 1)
  BY <1>1 DEF Co!HandshakeRead
<1>4. phase' \in {"handshake", "link", "closed"}
  BY <1>2, <1>3
<1>5. ASSUME Stream(sent, large), Carried PROVE Carried'
  <2>1. records \in Seq(Seq(Int)) /\ rx \in Seq(Int) /\ Linked(sent, large, records, rx, "handshake", got)
    BY <1>2, <1>5 DEF Carried
  <2>2. /\ ~Co!HoldsFrame(bytes) => Linked(sent, large, Tail(records), bytes, "handshake", got)
        /\ Co!HoldsFrame(bytes) => /\ Co!Drained(bytes).ok = TRUE /\ Co!Drained(bytes).left \in Seq(Int)
                                   /\ Linked(sent, large, Tail(records), Co!Drained(bytes).left, "link",
                                             SubSeq(Co!Drained(bytes).msgs, 1, 1))
    BY <1>1, <1>2, <1>5, <2>1, LinkedHandshake
  <2>3. Tail(records) \in Seq(Seq(Int)) /\ bytes \in Seq(Int)
    <3>1. Head(records) \in Seq(Int) /\ Tail(records) \in Seq(Seq(Int))
      BY <1>2, <2>1
    <3>2. (rx \o Head(records)) \in Seq(Int)
      BY <2>1, <3>1, TwoParts
    <3> QED BY <1>1, <3>1, <3>2
  <2>4. CASE ~Co!HoldsFrame(bytes)
    BY <1>2, <1>3, <2>2, <2>3, <2>4 DEF Carried
  <2>5. CASE Co!HoldsFrame(bytes)
    BY <1>1, <1>2, <1>3, <2>2, <2>3, <2>5 DEF Carried
  <2> QED BY <2>4, <2>5
<1> QED BY <1>2, <1>4, <1>5, ByteRead

LEMMA ByteTick ==
  ASSUME ByteInv, Co!Tick
  PROVE  ByteInv'
<1>1. phase = "link" /\ UNCHANGED <<todo, large, sent>>
  BY DEF Co!Tick
<1>2. PICK arrived \in 1..Len(records) :
        LET all == Co!FlattenSeq(SubSeq(records, 1, arrived))
            rest == SubSeq(all, Budget + 1, Len(all))
            bytes == rx \o SubSeq(all, 1, IF Len(all) < Budget THEN Len(all) ELSE Budget)
            d == Co!Drained(bytes)
        IN  /\ records' = (IF rest = <<>> THEN <<>> ELSE <<rest>>) \o SubSeq(records, arrived + 1, Len(records))
            /\ IF Len(bytes) > Co!RxCap \/ ~d.ok
               THEN phase' = "closed" /\ rx' = bytes /\ UNCHANGED got
               ELSE rx' = d.left /\ got' = got \o d.msgs /\ UNCHANGED phase
  BY DEF Co!Tick
<1>3. PICK all : all = Co!FlattenSeq(SubSeq(records, 1, arrived))
  OBVIOUS
<1>4. PICK rest, bytes : /\ rest = SubSeq(all, Budget + 1, Len(all))
                         /\ bytes = rx \o SubSeq(all, 1, IF Len(all) < Budget THEN Len(all) ELSE Budget)
  OBVIOUS
<1>5. PICK d, left : /\ d = Co!Drained(bytes)
                     /\ left = (IF rest = <<>> THEN <<>> ELSE <<rest>>) \o SubSeq(records, arrived + 1, Len(records))
  OBVIOUS
<1>6. /\ records' = left
      /\ IF Len(bytes) > Co!RxCap \/ ~d.ok
         THEN phase' = "closed" /\ rx' = bytes /\ UNCHANGED got
         ELSE rx' = d.left /\ got' = got \o d.msgs /\ UNCHANGED phase
  BY <1>2, <1>3, <1>4, <1>5
<1>7. phase' \in {"handshake", "link", "closed"}
  BY <1>1, <1>6
<1>8. ASSUME Stream(sent, large), Carried PROVE Carried'
  <2>1. records \in Seq(Seq(Int)) /\ rx \in Seq(Int) /\ Linked(sent, large, records, rx, "link", got)
    BY <1>1, <1>8 DEF Carried
  <2>2. Ticked(records, rx, arrived, all, rest, bytes, left, d)
    BY <1>3, <1>4, <1>5 DEF Ticked
  <2>3. /\ left \in Seq(Seq(Int)) /\ bytes \in Seq(Int)
        /\ (Len(bytes) > Co!RxCap \/ ~d.ok) => Linked(sent, large, left, bytes, "closed", got)
        /\ d.ok => d.left \in Seq(Int) /\ Linked(sent, large, left, d.left, "link", got \o d.msgs)
    BY <1>8, <2>1, <2>2, LinkedTick
  <2>4. CASE Len(bytes) > Co!RxCap \/ ~d.ok
    BY <1>1, <1>6, <2>3, <2>4 DEF Carried
  <2>5. CASE ~(Len(bytes) > Co!RxCap \/ ~d.ok)
    BY <1>1, <1>6, <2>3, <2>5 DEF Carried
  <2> QED BY <2>4, <2>5
<1> QED BY <1>1, <1>7, <1>8, ByteRead

\* The invariant says what was promised.
LEMMA ByteFaithful ==
  ASSUME ByteInv
  PROVE  Faithful
<1>1. SUFFICES ASSUME Honest
               PROVE  /\ Co!IsPrefix(got, sent)
                      /\ (phase = "link" /\ records = <<>> => got = sent)
                      /\ (phase = "closed" => Co!CutShort)
  BY DEF Faithful, Co!Faithful, Honest
<1>2. Stream(sent, large) /\ Carried
  BY <1>1, HonestStream
<1>3. PICK p : p = Frames(sent, large)
  OBVIOUS
<1>4. PICK j \in 0..Len(sent) :
        /\ got = SubSeq(sent, 1, j)
        /\ phase = "link" => rx \o Co!FlattenSeq(records) = Behind(p, j) /\ ~Co!HoldsFrame(rx)
        /\ phase = "closed" => Short(rx)
  BY <1>2, <1>3 DEF Carried, Linked
<1>5. sent \in Seq(Messages) /\ rx \in Seq(Int) /\ Len(sent) \in Nat /\ j \in Nat /\ j <= Len(sent)
  BY <1>2 DEF Stream, Carried
<1>6. Co!IsPrefix(got, sent)
  <2>1. Len(got) = j
    BY <1>4, <1>5
  <2>2. SubSeq(got, 1, j) = got
    <3>1. got \in Seq(Messages)
      BY <1>4, <1>5
    <3> QED BY <2>1, <3>1
  <2> QED BY <1>4, <1>5, <2>1, <2>2 DEF Co!IsPrefix
<1>7. ASSUME phase = "link", records = <<>> PROVE got = sent
  <2>1. rx = Behind(p, j)
    <3>1. rx \o <<>> = rx
      BY <1>5
    <3> QED BY <1>4, <1>7, <3>1, FlattenEmpty
  <2>2. j = Len(sent)
    <3>1. SUFFICES ASSUME j < Len(sent) PROVE FALSE
      BY <1>5
    <3>2. PICK i : i = j + 1
      OBVIOUS
    <3>3. i \in 1..Len(sent) /\ j \in 0..Len(sent) - 1 /\ i \in 0..Len(sent)
      BY <1>5, <3>1, <3>2
    <3>4. p \in Seq(Seq(Int)) /\ Len(p) = Len(sent)
      BY <1>2, <1>3, FramesType
    <3>5. PICK m, a, e, t : m = sent[i] /\ a = Allowed(large, i) /\ e = Co!Encode(m, a) /\ t = Behind(p, i)
      OBVIOUS
    <3>6. p[i] = e /\ e \in Seq(Int) /\ Sendable(m, a) /\ a \in BOOLEAN
      BY <1>2, <1>3, <3>3, <3>5, FramesType
    <3>7. rx = e \o t /\ t \in Seq(Int)
      BY <2>1, <3>2, <3>3, <3>4, <3>5, <3>6, BehindIs
    <3>8. PICK y : y = [left |-> rx]
      OBVIOUS
    <3>9. y.left = rx /\ Splits(y.left, Co!Encode(m, a), t)
      BY <3>5, <3>6, <3>7, <3>8 DEF Splits
    <3>10. Co!HoldsFrame(y.left)
      BY <3>6, <3>9, DrainWhole
    <3> QED BY <1>4, <1>7, <3>9, <3>10
  <2> QED BY <1>4, <1>5, <2>2
<1>8. ASSUME phase = "closed" PROVE Co!CutShort
  BY <1>4, <1>8 DEF Short, Co!CutShort
<1> QED BY <1>6, <1>7, <1>8

\* What two peers of this release exchange is decoded into what it was, in the order of sending, whatever the borders
\* of records, frames and ticks (encode, decode, drain_complete_frames, read_frame_nonblocking, check_conn_read): for
\* every Base, cap, threshold, size of a record and budget of a tick, and every message the sender may start with.
THEOREM FaithfulCorrect == HostSpec => []Faithful
<1> DEFINE Inv == /\ machine = "codec" => ByteInv
                  /\ machine # "codec" => sent = <<>> /\ got = <<>> /\ phase = "handshake"
<1>1. HostSpec => HostInit /\ [][HostNext]_hostVars
  BY PTL DEF HostSpec
<1>2. HostInit => Inv
  BY ByteStarts DEF HostInit, NoBytes
<1>3. Inv /\ [HostNext]_hostVars => Inv'
  <2> SUFFICES ASSUME Inv, [HostNext]_hostVars PROVE Inv'
    OBVIOUS
  <2>1. CASE UNCHANGED <<machine, byteVars>>
    <3>1. UNCHANGED <<machine, todo, large, sent, records, rx, phase, got>>
      BY <2>1 DEF byteVars
    <3> QED BY <3>1 DEF ByteInv, Honest, Carried
  <2>2. CASE UNCHANGED machine /\ machine = "codec" /\ Co!Next
    <3>1. ByteInv
      BY <2>2
    <3>2. ByteInv'
      BY <2>2, <3>1, ByteSend, ByteHandshake, ByteTick DEF Co!Next
    <3> QED BY <2>2, <3>2
  <2>3. UNCHANGED <<machine, byteVars>> \/ (UNCHANGED machine /\ machine = "codec" /\ Co!Next)
    BY DEF HostNext, hostVars
  <2> QED BY <2>1, <2>2, <2>3
<1>4. Inv => Faithful
  <2>1. CASE machine = "codec"
    BY <2>1, ByteFaithful
  <2>2. CASE machine # "codec"
    <3> SUFFICES ASSUME sent = <<>>, got = <<>>, phase = "handshake" PROVE Co!Faithful
      BY <2>2 DEF Faithful
    <3>1. Co!IsPrefix(<<>>, <<>>)
      BY DEF Co!IsPrefix
    <3> QED BY <3>1 DEF Co!Faithful
  <2> QED BY <2>1, <2>2
<1> QED
  <2> HIDE DEF Inv
  <2> QED BY <1>1, <1>2, <1>3, <1>4, PTL
=============================================================================

--------------------------- MODULE MeshLinkProofs ---------------------------
(***************************************************************************)
(* For any number of links: while a worker owns the TLS of a link, no      *)
(* handler of the event loop closes that link; and as long as nothing has  *)
(* failed, the two ends never drop each other's last link.                 *)
(***************************************************************************)
EXTENDS MeshLink, FiniteSetTheorems, TLAPS

\* Ends e and owners B such that every owned link is a mesh link: inductive
\* once it carries the types of the two variables it relates.
Owned(e, B) == /\ e \in [Links -> [Nodes -> EndStates]]
               /\ B \in [Nodes -> SUBSET Links]
               /\ \A n \in Nodes : \A l \in B[n] : e[l][n] = "mesh"

OwnInv == Owned(end, busy)

\* The links resolve_duplicates drops now are nobody's.
LEMMA ResolveSparesBusy ==
  ASSUME NEW n, NEW q, NEW e
  PROVE  \A l \in Resolve(n, q, e).dropped : l \notin busy[n]
BY DEF Resolve, Busy

\* Changing one end of one link no worker owns keeps the claim.
LEMMA SetEnd ==
  ASSUME NEW e, NEW B, Owned(e, B), NEW n \in Nodes, NEW l, NEW x \in EndStates,
         l \notin B[n] \/ x = "mesh"
  PROVE  Owned([e EXCEPT ![l][n] = x], B)
<1> DEFINE f == [e EXCEPT ![l][n] = x]
<1>1. /\ e \in [Links -> [Nodes -> EndStates]]
      /\ B \in [Nodes -> SUBSET Links]
      /\ \A m \in Nodes : \A k \in B[m] : e[k][m] = "mesh"
  BY DEF Owned
<1>2. f \in [Links -> [Nodes -> EndStates]]
  BY <1>1
<1>3. ASSUME NEW m \in Nodes, NEW k \in B[m] PROVE f[k][m] = "mesh"
  <2>1. k \in Links /\ e[k][m] = "mesh"
    BY <1>1
  <2>2. CASE k = l /\ m = n
    <3>1. f[k][m] = x
      BY <1>1, <2>1, <2>2
    <3> QED BY <3>1, <2>2, <1>3
  <2>3. CASE ~(k = l /\ m = n)
    <3>1. f[k][m] = e[k][m]
      BY <1>1, <2>1, <2>3
    <3> QED BY <3>1, <2>1
  <2> QED BY <2>2, <2>3
<1> HIDE DEF f
<1>4. Owned(f, B)
  BY <1>1, <1>2, <1>3 DEF Owned
<1> QED BY <1>4 DEF f

\* Closing one end of links no worker owns keeps the claim.
LEMMA CloseEnds ==
  ASSUME NEW e, NEW B, Owned(e, B), NEW n \in Nodes, NEW D,
         \A l \in D : l \notin B[n]
  PROVE  Owned(Closed(e, n, D), B)
<1> DEFINE f == Closed(e, n, D)
<1>1. /\ e \in [Links -> [Nodes -> EndStates]]
      /\ B \in [Nodes -> SUBSET Links]
      /\ \A m \in Nodes : \A l \in B[m] : e[l][m] = "mesh"
  BY DEF Owned
<1>2. "closed" \in EndStates
  BY DEF EndStates
<1>3. f \in [Links -> [Nodes -> EndStates]]
  BY <1>1, <1>2 DEF Closed
<1>4. ASSUME NEW m \in Nodes, NEW l \in B[m] PROVE f[l][m] = "mesh"
  <2>1. l \in Links /\ e[l][m] = "mesh"
    BY <1>1
  <2>2. l \in D => m # n
    BY <1>4
  <2>3. f[l][m] = e[l][m]
    BY <1>1, <2>1, <2>2 DEF Closed
  <2> QED BY <2>1, <2>3
<1> HIDE DEF f
<1>5. Owned(f, B)
  BY <1>1, <1>3, <1>4 DEF Owned
<1> QED BY <1>5 DEF f

\* Install reuses only links that are over, and no owned link is.
LEMMA InstallOwned ==
  ASSUME NEW e, NEW w, Owned(e, busy'), Install(e, w)
  PROVE  OwnInv'
<1>1. /\ e \in [Links -> [Nodes -> EndStates]]
      /\ busy' \in [Nodes -> SUBSET Links]
      /\ \A m \in Nodes : \A l \in busy'[m] : e[l][m] = "mesh"
  BY DEF Owned
<1>2. end' = [l \in Links |-> IF Over(e, l) THEN [n \in Nodes |-> "none"] ELSE e[l]]
  BY DEF Install
<1>3. end' \in [Links -> [Nodes -> EndStates]]
  BY <1>1, <1>2 DEF EndStates
<1>4. ASSUME NEW m \in Nodes, NEW l \in busy'[m] PROVE end'[l][m] = "mesh"
  <2>1. l \in Links /\ e[l][m] = "mesh"
    BY <1>1
  <2>2. ~Over(e, l)
    BY <2>1 DEF Over
  <2>3. end'[l] = e[l]
    BY <1>2, <2>1, <2>2
  <2> QED BY <2>1, <2>3
<1> QED BY <1>1, <1>3, <1>4 DEF OwnInv, Owned
-----------------------------------------------------------------------------
LEMMA OwnInit == Init => OwnInv
BY DEF Init, OwnInv, Owned, EndStates

LEMMA PromoteOwned ==
  ASSUME OwnInv, NEW n \in Nodes, NEW l \in Links, NEW w,
         end[l][n] # "mesh", Promote(n, l, w)
  PROVE  OwnInv'
<1> DEFINE q == conns[n] \cup ({x \in Links : Live(n, x)} \X {l})
           e == [end EXCEPT ![l][n] = "unknown"]
           r == Resolve(n, q, e)
<1>1. busy' = busy
  BY DEF Promote
<1>2. Install(Closed(e, n, r.dropped), w)
  BY DEF Promote
<1>3. Owned(end, busy)
  BY DEF OwnInv
<1>4. l \notin busy[n]
  BY <1>3 DEF Owned
<1>5. "unknown" \in EndStates
  BY DEF EndStates
<1>6. Owned(e, busy)
  BY <1>3, <1>4, <1>5, SetEnd
<1>7. \A x \in r.dropped : x \notin busy[n]
  BY ResolveSparesBusy
<1> HIDE DEF r, e
<1>8. Owned(Closed(e, n, r.dropped), busy)
  BY <1>6, <1>7, CloseEnds
<1> QED BY <1>1, <1>2, <1>8, InstallOwned

\* Handlers that set one end of a link no worker owns, through Install.
LEMMA SetOwned ==
  ASSUME OwnInv, NEW n \in Nodes, NEW l \in Links, NEW x \in EndStates, NEW w,
         ~Busy(n, l) \/ x = "mesh", busy' = busy,
         Install([end EXCEPT ![l][n] = x], w)
  PROVE  OwnInv'
<1>1. Owned(end, busy)
  BY DEF OwnInv
<1>2. l \notin busy[n] \/ x = "mesh"
  BY DEF Busy
<1>3. Owned([end EXCEPT ![l][n] = x], busy)
  BY <1>1, <1>2, SetEnd
<1> QED BY <1>3, InstallOwned

\* Handlers that close links no worker owns.
LEMMA CloseOwned ==
  ASSUME OwnInv, NEW n \in Nodes, NEW D, NEW w,
         \A l \in D : ~Busy(n, l), busy' = busy,
         Install(Closed(end, n, D), w)
  PROVE  OwnInv'
<1>1. Owned(end, busy)
  BY DEF OwnInv
<1>2. \A l \in D : l \notin busy[n]
  BY DEF Busy
<1>3. Owned(Closed(end, n, D), busy)
  BY <1>1, <1>2, CloseEnds
<1> QED BY <1>3, InstallOwned

\* An end that is not a mesh end is nobody's.
LEMMA NotMeshFree ==
  ASSUME OwnInv, NEW n \in Nodes, NEW l, end[l][n] # "mesh"
  PROVE  ~Busy(n, l)
BY DEF OwnInv, Owned, Busy

\* Starting a dial takes an unused link.
LEMMA DialOwned ==
  ASSUME OwnInv, NEW n \in Nodes, busy' = busy, StartHandshake(n) \/ UNCHANGED end
  PROVE  OwnInv'
<1>1. Owned(end, busy)
  BY DEF OwnInv
<1>2. CASE UNCHANGED end
  BY <1>1, <1>2 DEF OwnInv
<1>3. CASE StartHandshake(n)
  <2>1. CASE UNCHANGED end
    BY <1>1, <2>1 DEF OwnInv
  <2>2. ASSUME NEW l \in Links, Over(end, l), end' = [end EXCEPT ![l][n] = "dialing"]
        PROVE  OwnInv'
    <3>1. end[l][n] # "mesh"
      BY <2>2 DEF Over
    <3>2. l \notin busy[n]
      BY <1>1, <3>1 DEF Owned
    <3>3. "dialing" \in EndStates
      BY DEF EndStates
    <3>4. Owned([end EXCEPT ![l][n] = "dialing"], busy)
      BY <1>1, <3>2, <3>3, SetEnd
    <3>5. Owned(end', busy')
      BY <2>2, <3>4
    <3> QED BY <3>5 DEF OwnInv
  <2> QED BY <1>3, <2>1, <2>2 DEF StartHandshake
<1> QED BY <1>2, <1>3

LEMMA HandshakeOwned ==
  ASSUME OwnInv, NEW n \in Nodes, NEW l \in Links, HandshakeStep(n, l)
  PROVE  OwnInv'
<1> USE DEF handshakeUnchanged
<1>1. CASE Accept(n, l)
  <2> DEFINE x == IF Cardinality({k \in Links : end[k][n] = "pending"}) >= MaxFromSource
                  THEN "closed" ELSE "pending"
  <2>1. x \in EndStates
    BY DEF EndStates
  <2>2. ~Busy(n, l)
    BY <1>1, NotMeshFree DEF Accept
  <2>3. busy' = busy /\ Install([end EXCEPT ![l][n] = x], wire)
    BY <1>1 DEF Accept
  <2> HIDE DEF x
  <2> QED BY <2>1, <2>2, <2>3, SetOwned
<1>2. CASE WriteHello(n, l)
  <2>1. "greeted" \in EndStates
    BY DEF EndStates
  <2>2. ~Busy(n, l)
    BY <1>2, NotMeshFree DEF WriteHello
  <2>3. busy' = busy /\ Install([end EXCEPT ![l][n] = "greeted"], Sent(wire, n, l, "hello"))
    BY <1>2 DEF WriteHello
  <2> QED BY <2>1, <2>2, <2>3, SetOwned
<1>3. CASE ServerHello(n, l)
  BY <1>3, PromoteOwned DEF ServerHello
<1>4. CASE ClientHello(n, l)
  BY <1>4, PromoteOwned DEF ClientHello
<1>5. CASE HandshakeFails(n, l)
  <2>1. ~Busy(n, l)
    BY <1>5, NotMeshFree DEF HandshakeFails, Handshaking
  <2>2. busy' = busy /\ Install(Closed(end, n, {l}), wire)
    BY <1>5 DEF HandshakeFails
  <2> QED BY <2>1, <2>2, CloseOwned
<1>6. CASE HandshakeDeadline(n, l)
  <2>1. ~Busy(n, l)
    BY <1>6, NotMeshFree DEF HandshakeDeadline, Handshaking
  <2>2. busy' = busy /\ Install(Closed(end, n, {l}), wire)
    BY <1>6 DEF HandshakeDeadline
  <2> QED BY <2>1, <2>2, CloseOwned
<1> QED BY <1>1, <1>2, <1>3, <1>4, <1>5, <1>6 DEF HandshakeStep

LEMMA LinkOwned ==
  ASSUME OwnInv, NEW n \in Nodes, NEW l \in Links, LinkStep(n, l)
  PROVE  OwnInv'
<1> USE DEF connUnchanged
<1>1. CASE Read(n, l)
  <2>1. "mesh" \in EndStates
    BY DEF EndStates
  <2> DEFINE w == [wire EXCEPT ![l][n] = @ \ {"frame"}]
  <2>2. ~Busy(n, l) /\ busy' = busy /\ Install([end EXCEPT ![l][n] = "mesh"], w)
    BY <1>1 DEF Read
  <2> HIDE DEF w
  <2> QED BY <2>1, <2>2, SetOwned
<1>2. CASE ReadEof(n, l)
  <2>1. ~Busy(n, l) /\ busy' = busy /\ Install(Closed(end, n, {l}), wire)
    BY <1>2 DEF ReadEof, CloseConn
  <2> QED BY <2>1, CloseOwned
<1>3. CASE PongTimeout(n, l)
  <2>1. ~Busy(n, l) /\ busy' = busy /\ Install(Closed(end, n, {l}), wire)
    BY <1>3 DEF PongTimeout, CloseConn
  <2> QED BY <2>1, CloseOwned
<1> QED BY <1>1, <1>2, <1>3 DEF LinkStep

LEMMA LoopOwned ==
  ASSUME OwnInv, NEW n \in Nodes,
         DialStep(n) \/ Broadcast(n) \/ CleanDeadConns(n) \/ Reconnect(n) \/ Crash(n)
  PROVE  OwnInv'
<1>0. Owned(end, busy)
  BY DEF OwnInv
<1>1. CASE DialStep(n)
  <2>1. busy' = busy /\ (StartHandshake(n) \/ UNCHANGED end)
    BY <1>1 DEF DialStep, Dial, Defer, Probe, TryDial
  <2> QED BY <2>1, DialOwned
<1>2. CASE Broadcast(n)
  BY <1>0, <1>2 DEF Broadcast, connUnchanged, OwnInv
<1>3. CASE CleanDeadConns(n)
  <2> DEFINE done == {l \in closing[n] : ~Busy(n, l)}
             e == Closed(end, n, done)
             r == Resolve(n, Without(conns[n], done), e)
  <2>1. busy' = busy /\ Install(Closed(e, n, r.dropped), wire)
    BY <1>3 DEF CleanDeadConns, connUnchanged
  <2>2. \A l \in done : l \notin busy[n]
    BY DEF Busy
  <2>3. \A l \in r.dropped : l \notin busy[n]
    BY ResolveSparesBusy
  <2> HIDE DEF done, r
  <2>4. Owned(e, busy)
    BY <1>0, <2>2, CloseEnds
  <2> HIDE DEF e
  <2>5. Owned(Closed(e, n, r.dropped), busy)
    BY <2>3, <2>4, CloseEnds
  <2> QED BY <2>1, <2>5, InstallOwned
<1>4. CASE Reconnect(n)
  <2> DEFINE D == {l \in Links : end[l][n] = "mesh"}
             e == Closed(end, n, D)
  <2>1. busy' = busy
    BY <1>4 DEF Reconnect
  <2>2. \A l \in D : l \notin busy[n]
    BY <1>4 DEF Reconnect, Busy
  <2>3. Owned(e, busy)
    BY <1>0, <2>2, CloseEnds
  <2>4. CASE Install(e, wire)
    BY <2>1, <2>3, <2>4, InstallOwned
  <2>5. ASSUME NEW l \in Links, Over(e, l),
               Install([e EXCEPT ![l] = [m \in Nodes |-> IF m = n THEN "dialing" ELSE "none"]],
                       wire)
        PROVE  OwnInv'
    <3> DEFINE f == [e EXCEPT ![l] = [m \in Nodes |-> IF m = n THEN "dialing" ELSE "none"]]
    <3>1. /\ e \in [Links -> [Nodes -> EndStates]]
          /\ busy \in [Nodes -> SUBSET Links]
          /\ \A m \in Nodes : \A k \in busy[m] : e[k][m] = "mesh"
      BY <2>3 DEF Owned
    <3>2. \A m \in Nodes : l \notin busy[m]
      BY <2>5, <3>1 DEF Over
    <3> HIDE DEF e
    <3>3. f \in [Links -> [Nodes -> EndStates]]
      BY <3>1 DEF EndStates
    <3>4. \A m \in Nodes : \A k \in busy[m] : f[k][m] = "mesh"
      BY <3>1, <3>2
    <3> HIDE DEF f
    <3>5. Owned(f, busy)
      BY <3>1, <3>3, <3>4 DEF Owned
    <3>6. Install(f, wire)
      BY <2>5 DEF f
    <3> QED BY <2>1, <3>5, <3>6, InstallOwned
  <2> QED BY <1>4, <2>4, <2>5 DEF Reconnect
<1>5. CASE Crash(n)
  <2> DEFINE D == {l \in Links : Live(n, l) \/ Handshaking(n, l)}
             B == [busy EXCEPT ![n] = {}]
  <2>1. busy' = B /\ Install(Closed(end, n, D), wire)
    BY <1>5 DEF Crash
  <2>2. Owned(end, B)
    BY <1>0 DEF Owned
  <2>3. B[n] = {}
    BY <1>0 DEF Owned
  <2> HIDE DEF B, D
  <2>4. Owned(Closed(end, n, D), B)
    BY <2>2, <2>3, CloseEnds
  <2> QED BY <2>1, <2>4, InstallOwned
<1> QED BY <1>1, <1>2, <1>3, <1>4, <1>5

LEMMA OwnNext == OwnInv /\ [Next]_vars => OwnInv'
<1> SUFFICES ASSUME OwnInv, [Next]_vars PROVE OwnInv'
  OBVIOUS
<1>0. Owned(end, busy)
  BY DEF OwnInv
<1>1. CASE UNCHANGED <<end, busy>>
  BY <1>0, <1>1 DEF OwnInv
<1>2. ASSUME NEW n \in Nodes,
             DialStep(n) \/ Broadcast(n) \/ CleanDeadConns(n) \/ Reconnect(n) \/ Crash(n)
      PROVE  OwnInv'
  BY <1>2, LoopOwned
<1>3. ASSUME NEW n \in Nodes, AcceptWindowEnds(n) \/ HoldEnds(n) \/ CooldownEnds(n)
      PROVE  OwnInv'
  BY <1>1, <1>3 DEF AcceptWindowEnds, HoldEnds, CooldownEnds
<1>4. ASSUME NEW n \in Nodes, NEW l \in Links, HandshakeStep(n, l) \/ LinkStep(n, l)
      PROVE  OwnInv'
  BY <1>4, HandshakeOwned, LinkOwned
<1>5. ASSUME NEW n \in Nodes, NEW l \in Links, Borrow(n, l)
      PROVE  OwnInv'
  BY <1>0, <1>5 DEF Borrow, OwnInv, Owned
<1>6. ASSUME NEW n \in Nodes, NEW l \in Links, Release(n, l)
      PROVE  OwnInv'
  BY <1>0, <1>6 DEF Release, OwnInv, Owned
<1>7. ASSUME NEW l \in Links, LinkDies(l)
      PROVE  OwnInv'
  BY <1>1, <1>7 DEF LinkDies
<1>8. CASE UNCHANGED vars
  BY <1>1, <1>8 DEF vars
<1> QED BY <1>2, <1>3, <1>4, <1>5, <1>6, <1>7, <1>8 DEF Next

\* Whatever the interleaving of dials, duplicates, heartbeats, reconnects,
\* deferred closes and crashes, a link whose TLS a worker owns stays open at
\* that end: the event loop never frees a transport a worker is using.
THEOREM OwnershipCorrect == Spec => []OwnedStaysOpen
<1>1. OwnInv => OwnedStaysOpen
  BY DEF OwnInv, Owned, OwnedStaysOpen
<1> QED BY <1>1, OwnInit, OwnNext, PTL DEF Spec
-----------------------------------------------------------------------------
(***************************************************************************)
(* As long as nothing has failed, a joined pair stays joined.  The links   *)
(* the smaller key dialed are never dropped once they are accepted, and a  *)
(* daemon closes any other only for one of those, or after the other end   *)
(* has closed it.                                                          *)
(***************************************************************************)
Away == {"none", "closed"}
LiveStates == {"unknown", "mesh"}

\* The links both ends want to keep: those the smaller key dialed.
Survives(l) == l[1] < Peer(l[1])

\* How far the two ends of a link can be apart: d at the daemon that dialed, o
\* at the one that accepted.
ShapeAt(e, w, l) ==
  LET d == e[l][l[1]]
      o == e[l][Peer(l[1])]
  IN /\ d # "pending"
     /\ o \notin {"dialing", "greeted"}
     /\ o = "pending" => d \in {"dialing", "greeted"}
     /\ d \in LiveStates => o \in LiveStates \cup {"closed"}
     /\ "hello" \in w[l][l[1]] => o \in LiveStates \cup {"closed"}
     /\ o = "mesh" \/ "frame" \in w[l][Peer(l[1])] => d \in LiveStates \cup {"closed"}
     /\ o \notin Away => d # "none"
     /\ Survives(l) => /\ o \notin Away => d \notin Away
                       /\ d \in LiveStates \cup {"greeted"} => o \notin Away

\* A daemon has one dial at a time.
OneDial(e) == \A k, l \in Links :
  k[1] = l[1] /\ e[k][k[1]] \notin Away /\ e[l][l[1]] \notin Away => k = l

\* The order relates live links; of two links the peer dialed, it has closed
\* the older.
Order(e, q) == \A n \in Nodes : \A p \in q[n] :
  /\ p[1] # p[2]
  /\ e[p[1]][n] \in LiveStates /\ e[p[2]][n] \in LiveStates
  /\ p[1][1] = Peer(n) /\ p[2][1] = Peer(n) => e[p[1]][Peer(n)] \in Away

\* The links daemon n may close.
Excused(e, n, l) ==
  /\ ~Survives(l)
  /\ \/ e[l][Peer(n)] = "closed"
     \/ \E k \in Links : Survives(k) /\ e[k][n] = "mesh"

Waiting(e, c) == \A n \in Nodes : \A l \in c[n] : e[l][n] = "mesh" /\ Excused(e, n, l)

Typed(e, w, q, c) ==
  /\ e \in [Links -> [Nodes -> EndStates]]
  /\ w \in [Links -> [Nodes -> SUBSET {"hello", "frame"}]]
  /\ q \in [Nodes -> SUBSET (Links \X Links)]
  /\ c \in [Nodes -> SUBSET Links]

Calm(e, w, q, c) ==
  /\ Typed(e, w, q, c)
  /\ \A l \in Links : ShapeAt(e, w, l)
  /\ OneDial(e)
  /\ Order(e, q)
  /\ Waiting(e, c)

Fresh(e) == \A l \in Links : Over(e, l) => \A n \in Nodes : e[l][n] = "none"

JoinedIn(e) == \E l \in Links : \A n \in Nodes : e[l][n] \in LiveStates

CalmInv == /\ faults \in Nat
           /\ faults = 0 => /\ cut = {}
                            /\ Calm(end, wire, conns, closing)
                            /\ Fresh(end)

LEMMA Peers ==
  /\ \A n \in Nodes : /\ n \in Nat /\ Peer(n) \in Nodes /\ Peer(n) # n /\ Peer(Peer(n)) = n
                      /\ \A m \in Nodes : m = n \/ m = Peer(n)
  /\ \A l \in Links : l[1] \in Nodes
<1>1. /\ Nodes \subseteq Nat /\ IsFiniteSet(Nodes) /\ Cardinality(Nodes) = 2
      /\ Links \subseteq Nodes \X Nat
  BY ParamsAssumption
<1>2. ASSUME NEW n \in Nodes
      PROVE  \E m : m # n /\ Nodes = {n, m}
  <2>1. IsFiniteSet(Nodes \ {n}) /\ Cardinality(Nodes \ {n}) = 1
    BY <1>1, FS_RemoveElement
  <2>2. PICK m : Nodes \ {n} = {m}
    BY <2>1, FS_Singleton
  <2> QED BY <2>2
<1>3. ASSUME NEW n \in Nodes
      PROVE  Peer(n) \in Nodes /\ Peer(n) # n
  BY <1>2 DEF Peer
<1>4. ASSUME NEW n \in Nodes, NEW m \in Nodes
      PROVE  m = n \/ m = Peer(n)
  BY <1>2, <1>3
<1>5. ASSUME NEW n \in Nodes
      PROVE  Peer(Peer(n)) = n
  BY <1>3, <1>4
<1> QED BY <1>1, <1>3, <1>4, <1>5

LEMMA WantedSurvives ==
  ASSUME NEW n \in Nodes, NEW l \in Links
  PROVE  Wanted(n, l) <=> Survives(l)
<1>1. CASE l[1] = n
  BY <1>1 DEF Wanted, Dials, Survives
<1>2. CASE l[1] = Peer(n)
  BY <1>2, Peers DEF Wanted, Dials, Survives
<1> QED BY <1>1, <1>2, Peers

\* Two links that survive were dialed by the same daemon, and so were two that
\* do not.
LEMMA SameDialer ==
  ASSUME NEW k \in Links, NEW l \in Links, Survives(k) <=> Survives(l)
  PROVE  k[1] = l[1]
BY Peers DEF Survives

\* What resolve_duplicates closes, now or later, is a mesh link that met a
\* wanted one, or the older of two that are wanted alike.
LEMMA Duel ==
  ASSUME NEW n, NEW q, NEW e,
         NEW x \in Resolve(n, q, e).dropped \cup Resolve(n, q, e).deferred
  PROVE  /\ x \in Links /\ e[x][n] = "mesh"
         /\ \E y \in Links : /\ e[y][n] = "mesh"
                             /\ \/ Wanted(n, y) /\ ~Wanted(n, x)
                                \/ (Wanted(n, x) => Wanted(n, y)) /\ <<x, y>> \in q
<1> DEFINE mesh == {l \in Links : e[l][n] = "mesh"}
           Older(l) == {k \in mesh : <<k, l>> \in q}
<1>1. PICK l \in mesh : \E k \in Older(l) : x = Drop(n, k, l)
  BY DEF Resolve
<1>2. PICK k \in Older(l) : x = Drop(n, k, l)
  BY <1>1
<1>3. k \in Links /\ e[k][n] = "mesh" /\ <<k, l>> \in q /\ l \in Links /\ e[l][n] = "mesh"
  BY <1>2
<1>4. CASE Wanted(n, k) /\ ~Wanted(n, l)
  <2>1. x = l
    BY <1>2, <1>4 DEF Drop
  <2> QED BY <2>1, <1>3, <1>4
<1>5. CASE ~(Wanted(n, k) /\ ~Wanted(n, l))
  <2>1. x = k
    BY <1>2, <1>5 DEF Drop
  <2> QED BY <2>1, <1>3, <1>5
<1> QED BY <1>4, <1>5

\* The links resolve_duplicates closes may be closed.
LEMMA LoserExcused ==
  ASSUME NEW e, NEW w, NEW q, NEW c, Calm(e, w, q, c), NEW n \in Nodes,
         NEW x \in Resolve(n, q[n], e).dropped \cup Resolve(n, q[n], e).deferred
  PROVE  x \in Links /\ e[x][n] = "mesh" /\ Excused(e, n, x)
<1>1. /\ x \in Links /\ e[x][n] = "mesh"
      /\ \E y \in Links : /\ e[y][n] = "mesh"
                          /\ \/ Wanted(n, y) /\ ~Wanted(n, x)
                             \/ (Wanted(n, x) => Wanted(n, y)) /\ <<x, y>> \in q[n]
  BY Duel
<1>2. PICK y \in Links : /\ e[y][n] = "mesh"
                         /\ \/ Survives(y) /\ ~Survives(x)
                            \/ (Survives(x) => Survives(y)) /\ <<x, y>> \in q[n]
  BY <1>1, WantedSurvives
<1>3. CASE Survives(y) /\ ~Survives(x)
  BY <1>1, <1>2, <1>3 DEF Excused
<1>4. CASE (Survives(x) <=> Survives(y)) /\ <<x, y>> \in q[n]
  <2>1. x[1] = y[1] /\ x[1] \in Nodes
    BY <1>1, <1>4, SameDialer, Peers
  <2>2. x # y /\ (x[1] = Peer(n) /\ y[1] = Peer(n) => e[x][Peer(n)] \in Away)
    BY <1>4 DEF Calm, Order
  <2>3. x[1] # n
    BY <1>1, <1>2, <2>1, <2>2 DEF Calm, OneDial, Away
  <2>4. x[1] = Peer(n) /\ n = Peer(x[1])
    BY <2>1, <2>3, Peers
  <2>5. ShapeAt(e, w, x) /\ ShapeAt(e, w, y)
    BY <1>1 DEF Calm
  <2>6. e[x][Peer(n)] = "closed"
    BY <1>1, <2>1, <2>2, <2>4, <2>5 DEF ShapeAt, Away, LiveStates
  <2>7. ~Survives(x)
    BY <1>1, <2>4, <2>5, <2>6 DEF ShapeAt, Away
  <2> QED BY <1>1, <2>6, <2>7 DEF Excused
<1> QED BY <1>2, <1>3, <1>4

\* Install changes only links that are over.
LEMMA InstallEnds ==
  ASSUME NEW e, NEW w, e \in [Links -> [Nodes -> EndStates]],
         w \in [Links -> [Nodes -> SUBSET {"hello", "frame"}]], Install(e, w)
  PROVE  /\ end' \in [Links -> [Nodes -> EndStates]]
         /\ wire' \in [Links -> [Nodes -> SUBSET {"hello", "frame"}]]
         /\ \A l \in Links : \A n \in Nodes :
              /\ Over(e, l) => end'[l][n] = "none"
              /\ ~Over(e, l) => end'[l][n] = e[l][n]
              /\ e[l][n] \notin Away => end'[l][n] = e[l][n]
              /\ wire'[l][n] = IF e[l][n] \in Away THEN {} ELSE w[l][n]
         /\ Fresh(end')
<1>1. end' = [l \in Links |-> IF Over(e, l) THEN [n \in Nodes |-> "none"] ELSE e[l]]
  BY DEF Install
<1>2. wire' = [l \in Links |-> [n \in Nodes |->
                 IF e[l][n] \in Away THEN {} ELSE w[l][n]]]
  BY DEF Install, Away
<1>3. end' \in [Links -> [Nodes -> EndStates]]
  BY <1>1 DEF EndStates
<1>4. wire' \in [Links -> [Nodes -> SUBSET {"hello", "frame"}]]
  BY <1>2
<1>5. ASSUME NEW l \in Links, NEW n \in Nodes
      PROVE  /\ Over(e, l) => end'[l][n] = "none"
             /\ ~Over(e, l) => end'[l][n] = e[l][n]
             /\ e[l][n] \notin Away => end'[l][n] = e[l][n]
             /\ wire'[l][n] = IF e[l][n] \in Away THEN {} ELSE w[l][n]
  BY <1>1, <1>2 DEF Over, Away
<1>6. Fresh(end')
  BY <1>1 DEF Fresh, Over
<1> QED BY <1>3, <1>4, <1>5, <1>6

\* Whatever holds of the ends a handler chose holds of the ends it installs.
LEMMA InstallCalm ==
  ASSUME NEW e, NEW w, NEW q, NEW c, Calm(e, w, q, c), Install(e, w)
  PROVE  /\ Calm(end', wire', q, c) /\ Fresh(end')
         /\ JoinedIn(e) => JoinedIn(end')
<1> DEFINE f == end'
           v == wire'
<1>1. Typed(e, w, q, c) /\ OneDial(e) /\ Order(e, q) /\ Waiting(e, c)
  BY DEF Calm
<1>2. /\ f \in [Links -> [Nodes -> EndStates]]
      /\ v \in [Links -> [Nodes -> SUBSET {"hello", "frame"}]]
      /\ \A l \in Links : \A n \in Nodes :
           /\ Over(e, l) => f[l][n] = "none"
           /\ ~Over(e, l) => f[l][n] = e[l][n]
           /\ e[l][n] \notin Away => f[l][n] = e[l][n]
           /\ v[l][n] = IF e[l][n] \in Away THEN {} ELSE w[l][n]
      /\ Fresh(f)
  BY <1>1, InstallEnds DEF Typed
<1> HIDE DEF f, v
<1>3. Typed(f, v, q, c)
  BY <1>1, <1>2 DEF Typed
<1>4. ASSUME NEW l \in Links
      PROVE  ShapeAt(f, v, l)
  <2>1. l[1] \in Nodes /\ Peer(l[1]) \in Nodes
    BY Peers
  <2>2. ShapeAt(e, w, l)
    BY DEF Calm
  <2>3. CASE Over(e, l)
    <3>1. f[l][l[1]] = "none" /\ f[l][Peer(l[1])] = "none"
      BY <1>2, <2>1, <2>3
    <3>2. v[l][l[1]] = {} /\ v[l][Peer(l[1])] = {}
      BY <1>2, <2>1, <2>3 DEF Over, Away
    <3> QED BY <3>1, <3>2 DEF ShapeAt, Away, LiveStates
  <2>4. CASE ~Over(e, l)
    <3>1. f[l][l[1]] = e[l][l[1]] /\ f[l][Peer(l[1])] = e[l][Peer(l[1])]
      BY <1>2, <2>1, <2>4
    <3>2. v[l][l[1]] \subseteq w[l][l[1]] /\ v[l][Peer(l[1])] \subseteq w[l][Peer(l[1])]
      BY <1>2, <2>1
    <3> QED BY <2>2, <3>1, <3>2 DEF ShapeAt
  <2> QED BY <2>3, <2>4
<1>5. \A l \in Links : \A n \in Nodes : f[l][n] \notin Away => f[l][n] = e[l][n]
  BY <1>2 DEF Away
<1>6. \A l \in Links : \A n \in Nodes : e[l][n] \in LiveStates => f[l][n] = e[l][n] /\ ~Over(e, l)
  BY <1>2 DEF Away, LiveStates, Over
<1>7. OneDial(f)
  BY <1>1, <1>5, Peers DEF OneDial
<1>8. Order(f, q)
  <2> SUFFICES ASSUME NEW n \in Nodes, NEW p \in q[n]
               PROVE  /\ p[1] # p[2]
                      /\ f[p[1]][n] \in LiveStates /\ f[p[2]][n] \in LiveStates
                      /\ p[1][1] = Peer(n) /\ p[2][1] = Peer(n) => f[p[1]][Peer(n)] \in Away
    BY DEF Order
  <2>1. p[1] \in Links /\ p[2] \in Links /\ Peer(n) \in Nodes
    BY <1>1, Peers DEF Typed
  <2>2. /\ p[1] # p[2]
        /\ e[p[1]][n] \in LiveStates /\ e[p[2]][n] \in LiveStates
        /\ p[1][1] = Peer(n) /\ p[2][1] = Peer(n) => e[p[1]][Peer(n)] \in Away
    BY <1>1 DEF Order
  <2> QED BY <2>1, <2>2, <1>5, <1>6
<1>9. Waiting(f, c)
  <2> SUFFICES ASSUME NEW n \in Nodes, NEW l \in c[n]
               PROVE  f[l][n] = "mesh" /\ Excused(f, n, l)
    BY DEF Waiting
  <2>1. l \in Links /\ Peer(n) \in Nodes
    BY <1>1, Peers DEF Typed
  <2>2. e[l][n] = "mesh" /\ Excused(e, n, l)
    BY <1>1 DEF Waiting
  <2>3. f[l][n] = "mesh" /\ ~Over(e, l)
    BY <1>6, <2>1, <2>2 DEF LiveStates
  <2>4. e[l][Peer(n)] = "closed" => f[l][Peer(n)] = "closed"
    BY <1>2, <2>1, <2>3
  <2>5. \A k \in Links : e[k][n] = "mesh" => f[k][n] = "mesh"
    BY <1>6 DEF LiveStates
  <2> QED BY <2>2, <2>3, <2>4, <2>5 DEF Excused
<1>10. Calm(f, v, q, c)
  BY <1>3, <1>4, <1>7, <1>8, <1>9 DEF Calm
<1>11. JoinedIn(e) => JoinedIn(f)
  BY <1>6 DEF JoinedIn
<1> QED BY <1>2, <1>10, <1>11 DEF f, v

\* One end of one link changes: enough that the link keeps its shape, that no
\* connection closes and that only an idle daemon dials.
Turn(e, w, n, l, x, f, v) ==
  /\ x \in EndStates
  /\ f = [e EXCEPT ![l][n] = x]
  /\ v \in [Links -> [Nodes -> SUBSET {"hello", "frame"}]]
  /\ \A k \in Links \ {l} : v[k] = w[k]
  /\ ShapeAt(f, v, l)
  /\ e[l][n] \in LiveStates => x \in LiveStates
  /\ e[l][n] = "mesh" => x = "mesh"
  /\ e[l][n] = "closed" => x = "closed"
  /\ e[l][n] \in Away /\ x \notin Away =>
       /\ e[l][Peer(n)] \notin LiveStates
       /\ l[1] = n => \A k \in Links : k[1] = n => e[k][n] \in Away

LEMMA SetCalm ==
  ASSUME NEW e, NEW w, NEW q, NEW c, Calm(e, w, q, c),
         NEW n \in Nodes, NEW l \in Links, NEW x, NEW f, NEW v,
         Turn(e, w, n, l, x, f, v)
  PROVE  Calm(f, v, q, c) /\ (JoinedIn(e) => JoinedIn(f))
<1> USE DEF Turn
<1>1. Typed(e, w, q, c) /\ OneDial(e) /\ Order(e, q) /\ Waiting(e, c)
  BY DEF Calm
<1>2. /\ f \in [Links -> [Nodes -> EndStates]]
      /\ f[l][n] = x
      /\ \A k \in Links \ {l} : f[k] = e[k]
      /\ \A k \in Links : \A m \in Nodes : k # l \/ m # n => f[k][m] = e[k][m]
  BY <1>1 DEF Typed
<1>3. \A k \in Links : ShapeAt(f, v, k)
  <2>1. ASSUME NEW k \in Links \ {l} PROVE ShapeAt(f, v, k)
    <3>1. f[k] = e[k] /\ v[k] = w[k] /\ ShapeAt(e, w, k)
      BY <1>2 DEF Calm
    <3> QED BY <3>1 DEF ShapeAt
  <2> QED BY <2>1
<1>4. OneDial(f)
  <2> SUFFICES ASSUME NEW k \in Links, NEW j \in Links, k[1] = j[1],
                      f[k][k[1]] \notin Away, f[j][j[1]] \notin Away
               PROVE  k = j
    BY DEF OneDial
  <2>1. k[1] \in Nodes
    BY Peers
  <2>2. CASE e[k][k[1]] \notin Away /\ e[j][j[1]] \notin Away
    BY <1>1, <2>2 DEF OneDial
  <2>3. CASE e[k][k[1]] \in Away
    <3>1. k = l /\ k[1] = n /\ x \notin Away
      BY <1>2, <2>1, <2>3
    <3>2. e[j][n] \in Away
      BY <2>3, <3>1
    <3>3. j = l
      BY <1>2, <3>1, <3>2
    <3> QED BY <3>1, <3>3
  <2>4. CASE e[j][j[1]] \in Away
    <3>1. j = l /\ j[1] = n /\ x \notin Away
      BY <1>2, <2>1, <2>4
    <3>2. e[k][n] \in Away
      BY <2>4, <3>1
    <3>3. k = l
      BY <1>2, <3>1, <3>2
    <3> QED BY <3>1, <3>3
  <2> QED BY <2>2, <2>3, <2>4
<1>5. \A k \in Links : \A m \in Nodes :
        /\ e[k][m] \in LiveStates => f[k][m] \in LiveStates
        /\ e[k][m] = "mesh" => f[k][m] = "mesh"
        /\ e[k][m] = "closed" => f[k][m] = "closed"
  BY <1>2
<1>6. Order(f, q)
  <2> SUFFICES ASSUME NEW m \in Nodes, NEW p \in q[m]
               PROVE  /\ p[1] # p[2]
                      /\ f[p[1]][m] \in LiveStates /\ f[p[2]][m] \in LiveStates
                      /\ p[1][1] = Peer(m) /\ p[2][1] = Peer(m) => f[p[1]][Peer(m)] \in Away
    BY DEF Order
  <2>1. p[1] \in Links /\ p[2] \in Links /\ Peer(m) \in Nodes /\ Peer(Peer(m)) = m
    BY <1>1, Peers DEF Typed
  <2>2. /\ p[1] # p[2]
        /\ e[p[1]][m] \in LiveStates /\ e[p[2]][m] \in LiveStates
        /\ p[1][1] = Peer(m) /\ p[2][1] = Peer(m) => e[p[1]][Peer(m)] \in Away
    BY <1>1 DEF Order
  <2>3. e[p[1]][Peer(m)] \in Away => f[p[1]][Peer(m)] \in Away
    <3>1. CASE p[1] = l /\ Peer(m) = n
      BY <1>2, <2>1, <2>2, <3>1
    <3>2. CASE ~(p[1] = l /\ Peer(m) = n)
      BY <1>2, <2>1, <3>2
    <3> QED BY <3>1, <3>2
  <2> QED BY <1>5, <2>1, <2>2, <2>3
<1>7. Waiting(f, c)
  <2> SUFFICES ASSUME NEW m \in Nodes, NEW k \in c[m]
               PROVE  f[k][m] = "mesh" /\ Excused(f, m, k)
    BY DEF Waiting
  <2>1. k \in Links /\ Peer(m) \in Nodes
    BY <1>1, Peers DEF Typed
  <2>2. e[k][m] = "mesh" /\ Excused(e, m, k)
    BY <1>1 DEF Waiting
  <2> QED BY <1>5, <2>1, <2>2 DEF Excused
<1>8. Typed(f, v, q, c)
  BY <1>1, <1>2 DEF Typed
<1>9. Calm(f, v, q, c)
  BY <1>3, <1>4, <1>6, <1>7, <1>8 DEF Calm
<1>10. JoinedIn(e) => JoinedIn(f)
  BY <1>5 DEF JoinedIn
<1> QED BY <1>9, <1>10

\* Connections that may be closed are closed.
LEMMA CloseCalm ==
  ASSUME NEW e, NEW w, NEW q, NEW c, Calm(e, w, q, c), NEW n \in Nodes, NEW D,
         \A l \in D : l \in Links /\ e[l][n] \in LiveStates /\ Excused(e, n, l)
  PROVE  LET f == Closed(e, n, D)
         IN /\ Calm(f, w, [q EXCEPT ![n] = Without(@, D)], [c EXCEPT ![n] = @ \ D])
            /\ JoinedIn(e) => JoinedIn(f)
<1> DEFINE f == Closed(e, n, D)
           s == [q EXCEPT ![n] = Without(@, D)]
           d == [c EXCEPT ![n] = @ \ D]
<1>1. Typed(e, w, q, c) /\ OneDial(e) /\ Order(e, q) /\ Waiting(e, c)
  BY DEF Calm
<1>2. /\ f \in [Links -> [Nodes -> EndStates]]
      /\ \A k \in Links : \A m \in Nodes :
           f[k][m] = IF k \in D /\ m = n THEN "closed" ELSE e[k][m]
  BY <1>1 DEF Typed, Closed, EndStates
<1>3. /\ s \in [Nodes -> SUBSET (Links \X Links)]
      /\ \A m \in Nodes : s[m] \subseteq q[m]
      /\ \A p \in s[n] : p[1] \notin D /\ p[2] \notin D
  BY <1>1 DEF Typed, Without
<1>4. /\ d \in [Nodes -> SUBSET Links]
      /\ \A m \in Nodes : d[m] \subseteq c[m]
      /\ \A l \in d[n] : l \notin D
  BY <1>1 DEF Typed
<1> HIDE DEF f, s, d
<1>5. \A l \in Links : ShapeAt(f, w, l)
  <2> SUFFICES ASSUME NEW l \in Links PROVE ShapeAt(f, w, l)
    OBVIOUS
  <2>1. l[1] \in Nodes /\ Peer(l[1]) \in Nodes /\ Peer(l[1]) # l[1]
    BY Peers
  <2>2. ShapeAt(e, w, l)
    BY DEF Calm
  <2>3. CASE l \notin D
    <3>1. f[l][l[1]] = e[l][l[1]] /\ f[l][Peer(l[1])] = e[l][Peer(l[1])]
      BY <1>2, <2>1, <2>3
    <3> QED BY <2>2, <3>1 DEF ShapeAt
  <2>4. CASE l \in D /\ n = l[1]
    <3>1. f[l][l[1]] = "closed" /\ f[l][Peer(l[1])] = e[l][Peer(l[1])]
      BY <1>2, <2>1, <2>4
    <3>2. e[l][l[1]] \in LiveStates /\ ~Survives(l)
      BY <2>4 DEF Excused
    <3> QED BY <2>2, <3>1, <3>2 DEF ShapeAt, Away, LiveStates
  <2>5. CASE l \in D /\ n = Peer(l[1])
    <3>1. f[l][l[1]] = e[l][l[1]] /\ f[l][Peer(l[1])] = "closed"
      BY <1>2, <2>1, <2>5
    <3>2. e[l][Peer(l[1])] \in LiveStates /\ ~Survives(l)
      BY <2>5 DEF Excused
    <3> QED BY <2>2, <3>1, <3>2 DEF ShapeAt, Away, LiveStates
  <2> QED BY <2>1, <2>3, <2>4, <2>5, Peers
<1>6. \A k \in Links : \A m \in Nodes :
        /\ e[k][m] \in Away => f[k][m] \in Away
        /\ e[k][m] = "closed" => f[k][m] = "closed"
        /\ f[k][m] \notin Away => e[k][m] \notin Away
  BY <1>2 DEF Away
<1>7. OneDial(f)
  BY <1>1, <1>6, Peers DEF OneDial
<1>8. Order(f, s)
  <2> SUFFICES ASSUME NEW m \in Nodes, NEW p \in s[m]
               PROVE  /\ p[1] # p[2]
                      /\ f[p[1]][m] \in LiveStates /\ f[p[2]][m] \in LiveStates
                      /\ p[1][1] = Peer(m) /\ p[2][1] = Peer(m) => f[p[1]][Peer(m)] \in Away
    BY DEF Order
  <2>1. p[1] \in Links /\ p[2] \in Links /\ Peer(m) \in Nodes
    BY <1>3, Peers
  <2>2. /\ p[1] # p[2]
        /\ e[p[1]][m] \in LiveStates /\ e[p[2]][m] \in LiveStates
        /\ p[1][1] = Peer(m) /\ p[2][1] = Peer(m) => e[p[1]][Peer(m)] \in Away
    BY <1>1, <1>3 DEF Order
  <2>3. f[p[1]][m] = e[p[1]][m] /\ f[p[2]][m] = e[p[2]][m]
    BY <1>2, <1>3, <2>1
  <2> QED BY <1>6, <2>1, <2>2, <2>3
<1>9. \A k \in Links : Survives(k) => k \notin D
  BY DEF Excused
<1>10. \A k \in Links : \A m \in Nodes : Survives(k) => f[k][m] = e[k][m]
  BY <1>2, <1>9
<1>11. Waiting(f, d)
  <2> SUFFICES ASSUME NEW m \in Nodes, NEW k \in d[m]
               PROVE  f[k][m] = "mesh" /\ Excused(f, m, k)
    BY DEF Waiting
  <2>1. k \in Links /\ Peer(m) \in Nodes
    BY <1>4, Peers
  <2>2. e[k][m] = "mesh" /\ Excused(e, m, k)
    BY <1>1, <1>4 DEF Waiting
  <2>3. f[k][m] = "mesh"
    BY <1>2, <1>4, <2>1, <2>2
  <2> QED BY <1>6, <1>10, <2>1, <2>2, <2>3 DEF Excused
<1>12. Calm(f, w, s, d)
  BY <1>1, <1>2, <1>3, <1>4, <1>5, <1>7, <1>8, <1>11 DEF Calm, Typed
<1>13. JoinedIn(e) => JoinedIn(f)
  <2> SUFFICES ASSUME NEW l \in Links, \A m \in Nodes : e[l][m] \in LiveStates
               PROVE  JoinedIn(f)
    BY DEF JoinedIn
  <2>1. CASE l \notin D
    <3>1. \A m \in Nodes : f[l][m] \in LiveStates
      BY <1>2, <2>1
    <3> QED BY <3>1 DEF JoinedIn
  <2>2. CASE l \in D
    <3>1. e[l][Peer(n)] # "closed"
      BY Peers DEF LiveStates
    <3>2. PICK k \in Links : Survives(k) /\ e[k][n] = "mesh"
      BY <2>2, <3>1 DEF Excused
    <3>3. ShapeAt(e, w, k) /\ k[1] \in Nodes
      BY Peers DEF Calm
    <3>4. e[k][k[1]] \in LiveStates /\ e[k][Peer(k[1])] \in LiveStates
      <4>1. CASE n = k[1]
        BY <3>2, <3>3, <4>1 DEF ShapeAt, Away, LiveStates
      <4>2. CASE n = Peer(k[1])
        BY <3>2, <3>3, <4>2 DEF ShapeAt, Away, LiveStates
      <4> QED BY <3>3, <4>1, <4>2, Peers
    <3>5. \A m \in Nodes : f[k][m] \in LiveStates
      BY <1>10, <3>2, <3>3, <3>4, Peers
    <3> QED BY <3>5 DEF JoinedIn
  <2> QED BY <2>1, <2>2
<1> QED BY <1>12, <1>13 DEF f, s, d
-----------------------------------------------------------------------------
\* What a step without a failure leaves behind.
StaysCalm == /\ cut' = {}
             /\ Calm(end', wire', conns', closing')
             /\ Fresh(end')
             /\ JoinedIn(end) => JoinedIn(end')

Quiet == /\ cut = {}
         /\ Calm(end, wire, conns, closing)
         /\ Fresh(end)

\* resolve_duplicates, its drops and its deferred drops.
LEMMA ResolveCalm ==
  ASSUME NEW e, NEW w, NEW q, NEW c, Calm(e, w, q, c), NEW n \in Nodes, cut = {},
         LET r == Resolve(n, q[n], e)
         IN /\ Install(Closed(e, n, r.dropped), w)
            /\ conns' = [q EXCEPT ![n] = Without(q[n], r.dropped)]
            /\ closing' = [c EXCEPT ![n] = (c[n] \cup r.deferred) \ r.dropped],
         JoinedIn(end) => JoinedIn(e)
  PROVE  StaysCalm
<1> DEFINE r == Resolve(n, q[n], e)
           d == [c EXCEPT ![n] = c[n] \cup r.deferred]
           f == Closed(e, n, r.dropped)
<1>1. \A x \in r.dropped \cup r.deferred :
        x \in Links /\ e[x][n] = "mesh" /\ Excused(e, n, x)
  BY LoserExcused
<1>2. /\ Install(f, w)
      /\ conns' = [q EXCEPT ![n] = Without(q[n], r.dropped)]
      /\ closing' = [c EXCEPT ![n] = (c[n] \cup r.deferred) \ r.dropped]
  OBVIOUS
<1>3. Typed(e, w, q, c) /\ Waiting(e, c)
  BY DEF Calm
<1> DEFINE D == r.dropped
           E == r.deferred
<1>4. /\ \A x \in D : x \in Links /\ e[x][n] \in LiveStates /\ Excused(e, n, x)
      /\ \A x \in E : x \in Links /\ e[x][n] = "mesh" /\ Excused(e, n, x)
  BY <1>1 DEF LiveStates
<1> HIDE DEF r
<1>5. Calm(e, w, q, d)
  <2>1. d \in [Nodes -> SUBSET Links]
    BY <1>3, <1>4 DEF Typed
  <2>2. Waiting(e, d)
    <3> SUFFICES ASSUME NEW m \in Nodes, NEW k \in d[m]
                 PROVE  e[k][m] = "mesh" /\ Excused(e, m, k)
      BY DEF Waiting
    <3>1. k \in c[m] \/ (m = n /\ k \in E)
      BY <1>3 DEF Typed
    <3> QED BY <1>3, <1>4, <3>1 DEF Waiting
  <2> HIDE DEF d
  <2> QED BY <1>3, <2>1, <2>2 DEF Calm, Typed
<1>6. closing' = [d EXCEPT ![n] = @ \ D] /\ conns' = [q EXCEPT ![n] = Without(@, D)]
  BY <1>2, <1>3 DEF Typed
<1> HIDE DEF d, D, E
<1>7. /\ Calm(Closed(e, n, D), w, [q EXCEPT ![n] = Without(@, D)], [d EXCEPT ![n] = @ \ D])
      /\ JoinedIn(e) => JoinedIn(Closed(e, n, D))
  BY <1>4, <1>5, CloseCalm
<1>8. Calm(Closed(e, n, D), w, conns', closing')
  BY <1>6, <1>7
<1>9. Install(Closed(e, n, D), w)
  BY <1>2 DEF D
<1>10. /\ Calm(end', wire', conns', closing') /\ Fresh(end')
       /\ JoinedIn(Closed(e, n, D)) => JoinedIn(end')
  BY <1>8, <1>9, InstallCalm
<1>11. cut' = {}
  BY <1>9 DEF Install
<1> QED BY <1>7, <1>10, <1>11 DEF StaysCalm

\* A handler that sets one end of one link and no more.
LEMMA SetStays ==
  ASSUME Quiet, NEW n \in Nodes, NEW l \in Links, NEW x, NEW f, NEW v,
         Turn(end, wire, n, l, x, f, v),
         Install(f, v), UNCHANGED <<conns, closing>>
  PROVE  StaysCalm
<1>1. Calm(end, wire, conns, closing)
  BY DEF Quiet
<1>2. Calm(f, v, conns, closing) /\ (JoinedIn(end) => JoinedIn(f))
  BY <1>1, SetCalm
<1>3. /\ Calm(end', wire', conns, closing) /\ Fresh(end')
      /\ JoinedIn(f) => JoinedIn(end')
  BY <1>2, InstallCalm
<1>4. cut' = {}
  BY DEF Install, Quiet
<1>5. conns' = conns /\ closing' = closing
  OBVIOUS
<1> QED BY <1>2, <1>3, <1>4, <1>5 DEF StaysCalm

\* A message sent on a link that works.
LEMMA SentWire ==
  ASSUME NEW w, w \in [Links -> [Nodes -> SUBSET {"hello", "frame"}]], cut = {},
         NEW n \in Nodes, NEW l \in Links, NEW msg \in {"hello", "frame"},
         NEW v, v = Sent(w, n, l, msg)
  PROVE  /\ v \in [Links -> [Nodes -> SUBSET {"hello", "frame"}]]
         /\ \A k \in Links \ {l} : v[k] = w[k]
         /\ v[l][n] = w[l][n] /\ v[l][Peer(n)] = w[l][Peer(n)] \cup {msg}
BY Peers DEF Sent

\* Which end of a link node n is.
LEMMA WhichEnd ==
  ASSUME NEW n \in Nodes, NEW l \in Links
  PROVE  \/ l[1] = n /\ Peer(l[1]) = Peer(n)
         \/ l[1] = Peer(n) /\ Peer(l[1]) = n /\ l[1] # n
BY Peers

LEMMA AcceptCalm ==
  ASSUME Quiet, NEW n \in Nodes, NEW l \in Links, Accept(n, l)
  PROVE  StaysCalm
<1> DEFINE x == IF Cardinality({k \in Links : end[k][n] = "pending"}) >= MaxFromSource
                THEN "closed" ELSE "pending"
           f == [end EXCEPT ![l][n] = x]
<1>1. /\ end[l][Peer(n)] = "dialing" /\ end[l][n] = "none"
      /\ Install(f, wire) /\ UNCHANGED <<conns, closing>>
  BY DEF Accept, handshakeUnchanged
<1>2. Typed(end, wire, conns, closing) /\ ShapeAt(end, wire, l)
  BY DEF Quiet, Calm
<1>3. x \in {"closed", "pending"} /\ x \in EndStates
  BY DEF EndStates
<1> HIDE DEF x
<1>4. f[l][n] = x /\ f[l][Peer(n)] = "dialing"
  BY <1>1, <1>2, Peers DEF Typed
<1>5. l[1] = Peer(n) /\ Peer(l[1]) = n /\ l[1] # n
  BY <1>1, <1>2, WhichEnd DEF ShapeAt
<1> HIDE DEF f
<1>6. ShapeAt(f, wire, l)
  BY <1>1, <1>2, <1>3, <1>4, <1>5 DEF ShapeAt, Away, LiveStates
<1>7. Turn(end, wire, n, l, x, f, wire)
  <2>1. wire \in [Links -> [Nodes -> SUBSET {"hello", "frame"}]]
    BY <1>2 DEF Typed
  <2>2. f = [end EXCEPT ![l][n] = x]
    BY DEF f
  <2> QED BY <1>1, <1>3, <1>5, <1>6, <2>1, <2>2 DEF Turn, LiveStates
<1> QED BY <1>1, <1>7, SetStays

LEMMA WriteHelloCalm ==
  ASSUME Quiet, NEW n \in Nodes, NEW l \in Links, WriteHello(n, l)
  PROVE  StaysCalm
<1> DEFINE f == [end EXCEPT ![l][n] = "greeted"]
           v == Sent(wire, n, l, "hello")
<1>1. /\ end[l][n] = "dialing" /\ end[l][Peer(n)] = "pending"
      /\ Install(f, v) /\ UNCHANGED <<conns, closing>>
  BY DEF WriteHello, handshakeUnchanged
<1>2. Typed(end, wire, conns, closing) /\ ShapeAt(end, wire, l) /\ cut = {}
  BY DEF Quiet, Calm
<1>3. "greeted" \in EndStates
  BY DEF EndStates
<1>4. f[l][n] = "greeted" /\ f[l][Peer(n)] = "pending"
  BY <1>1, <1>2, Peers DEF Typed
<1>5. l[1] = n /\ Peer(l[1]) = Peer(n)
  BY <1>1, <1>2, WhichEnd DEF ShapeAt
<1>6. /\ v \in [Links -> [Nodes -> SUBSET {"hello", "frame"}]]
      /\ \A k \in Links \ {l} : v[k] = wire[k]
      /\ v[l][n] = wire[l][n] /\ v[l][Peer(n)] = wire[l][Peer(n)] \cup {"hello"}
  BY <1>2, SentWire DEF Typed
<1> HIDE DEF f, v
<1>7. ShapeAt(f, v, l)
  BY <1>1, <1>2, <1>4, <1>5, <1>6 DEF ShapeAt, Away, LiveStates
<1>8. Turn(end, wire, n, l, "greeted", f, v)
  <2>1. f = [end EXCEPT ![l][n] = "greeted"]
    BY DEF f
  <2> QED BY <1>1, <1>3, <1>6, <1>7, <2>1 DEF Turn, LiveStates, Away
<1> QED BY <1>1, <1>8, SetStays

LEMMA FailsCalm ==
  ASSUME Quiet, NEW n \in Nodes, NEW l \in Links, HandshakeFails(n, l)
  PROVE  StaysCalm
<1> DEFINE f == [end EXCEPT ![l][n] = "closed"]
<1>1. /\ end[l][n] \in {"dialing", "greeted", "pending"} /\ end[l][Peer(n)] = "closed"
      /\ Install(Closed(end, n, {l}), wire) /\ UNCHANGED <<conns, closing>>
  BY DEF HandshakeFails, handshakeUnchanged, Handshaking
<1>2. Typed(end, wire, conns, closing) /\ ShapeAt(end, wire, l)
  BY DEF Quiet, Calm
<1>3. "closed" \in EndStates
  BY DEF EndStates
<1>4. f[l][n] = "closed" /\ f[l][Peer(n)] = "closed"
  BY <1>1, <1>2, Peers DEF Typed
<1>5. l[1] = n /\ Peer(l[1]) = Peer(n)
  BY <1>1, <1>2, WhichEnd DEF ShapeAt
<1>6. Closed(end, n, {l}) = f
  BY <1>2 DEF Closed, Typed
<1> HIDE DEF f
<1>7. ShapeAt(f, wire, l)
  BY <1>1, <1>2, <1>4, <1>5 DEF ShapeAt, Away, LiveStates
<1>8. Turn(end, wire, n, l, "closed", f, wire)
  <2>1. wire \in [Links -> [Nodes -> SUBSET {"hello", "frame"}]]
    BY <1>2 DEF Typed
  <2>2. f = [end EXCEPT ![l][n] = "closed"]
    BY DEF f
  <2> QED BY <1>1, <1>3, <1>7, <2>1, <2>2 DEF Turn, LiveStates, Away
<1>9. Install(f, wire)
  BY <1>1, <1>6
<1> QED BY <1>1, <1>8, <1>9, SetStays

LEMMA ReadCalm ==
  ASSUME Quiet, NEW n \in Nodes, NEW l \in Links, Read(n, l)
  PROVE  StaysCalm
<1> DEFINE f == [end EXCEPT ![l][n] = "mesh"]
           v == [wire EXCEPT ![l][n] = @ \ {"frame"}]
<1>1. /\ end[l][n] \in LiveStates /\ "frame" \in wire[l][n]
      /\ Install(f, v) /\ UNCHANGED <<conns, closing>>
  BY DEF Read, Live, LiveStates
<1>2. /\ f = [end EXCEPT ![l][n] = "mesh"]
      /\ v = [wire EXCEPT ![l][n] = wire[l][n] \ {"frame"}]
  OBVIOUS
<1> HIDE DEF f, v
<1>3. Typed(end, wire, conns, closing) /\ ShapeAt(end, wire, l)
  BY DEF Quiet, Calm
<1>4. /\ end \in [Links -> [Nodes -> EndStates]]
      /\ wire \in [Links -> [Nodes -> SUBSET {"hello", "frame"}]]
  BY <1>3 DEF Typed
<1>5. "mesh" \in EndStates /\ "mesh" \in LiveStates
  BY DEF EndStates, LiveStates
<1>6. f[l][n] = "mesh" /\ f[l][Peer(n)] = end[l][Peer(n)]
  BY <1>2, <1>4, Peers
<1>7. /\ v \in [Links -> [Nodes -> SUBSET {"hello", "frame"}]]
      /\ \A k \in Links \ {l} : v[k] = wire[k]
      /\ v[l][n] = wire[l][n] \ {"frame"} /\ v[l][Peer(n)] = wire[l][Peer(n)]
  BY <1>2, <1>4, Peers
<1>8. ShapeAt(f, v, l)
  <2>1. CASE l[1] = n /\ Peer(l[1]) = Peer(n)
    BY <1>1, <1>3, <1>6, <1>7, <2>1 DEF ShapeAt, Away, LiveStates
  <2>2. CASE l[1] = Peer(n) /\ Peer(l[1]) = n
    BY <1>1, <1>3, <1>6, <1>7, <2>2 DEF ShapeAt, Away, LiveStates
  <2> QED BY <2>1, <2>2, WhichEnd
<1>9. Turn(end, wire, n, l, "mesh", f, v)
  BY <1>1, <1>2, <1>5, <1>7, <1>8 DEF Turn, LiveStates, Away
<1> QED BY <1>1, <1>9, SetStays

LEMMA EofCalm ==
  ASSUME Quiet, NEW n \in Nodes, NEW l \in Links, ReadEof(n, l)
  PROVE  StaysCalm
<1> DEFINE f == Closed(end, n, {l})
<1>1. /\ end[l][n] \in LiveStates /\ end[l][Peer(n)] = "closed" /\ Install(f, wire)
      /\ conns' = [conns EXCEPT ![n] = Without(@, {l})]
      /\ closing' = [closing EXCEPT ![n] = @ \ {l}]
  BY DEF ReadEof, CloseConn, Live, LiveStates
<1>2. Calm(end, wire, conns, closing) /\ ShapeAt(end, wire, l) /\ cut = {}
  BY DEF Quiet, Calm
<1>3. ~Survives(l)
  <2>1. CASE l[1] = n /\ Peer(l[1]) = Peer(n)
    BY <1>1, <1>2, <2>1 DEF ShapeAt, Away, LiveStates
  <2>2. CASE l[1] = Peer(n) /\ Peer(l[1]) = n
    BY <1>1, <1>2, <2>2 DEF ShapeAt, Away, LiveStates
  <2> QED BY <2>1, <2>2, WhichEnd
<1>4. \A k \in {l} : k \in Links /\ end[k][n] \in LiveStates /\ Excused(end, n, k)
  BY <1>1, <1>3 DEF Excused
<1>5. Calm(f, wire, conns', closing') /\ (JoinedIn(end) => JoinedIn(f))
  BY <1>1, <1>2, <1>4, CloseCalm
<1> HIDE DEF f
<1>6. /\ Calm(end', wire', conns', closing') /\ Fresh(end')
      /\ JoinedIn(f) => JoinedIn(end')
  BY <1>1, <1>5, InstallCalm
<1>7. cut' = {}
  BY <1>1, <1>2 DEF Install
<1> QED BY <1>5, <1>6, <1>7 DEF StaysCalm

LEMMA PromoteCalm ==
  ASSUME Quiet, NEW n \in Nodes, NEW l \in Links, NEW f, NEW w,
         end[l][n] \in {"pending", "greeted"},
         Turn(end, wire, n, l, "unknown", f, w), Promote(n, l, w)
  PROVE  StaysCalm
<1> DEFINE olds == {x \in Links : Live(n, x)} \X {l}
           q == [conns EXCEPT ![n] = conns[n] \cup olds]
<1>1. Calm(end, wire, conns, closing) /\ Typed(end, wire, conns, closing)
      /\ OneDial(end) /\ Order(end, conns) /\ ShapeAt(end, wire, l) /\ cut = {}
  BY DEF Quiet, Calm
<1>2. f = [end EXCEPT ![l][n] = "unknown"]
  BY DEF Turn
<1>3. Calm(f, w, conns, closing) /\ (JoinedIn(end) => JoinedIn(f))
  BY <1>1, SetCalm
<1>4. Typed(f, w, conns, closing) /\ Order(f, conns)
  BY <1>3 DEF Calm
<1>5. f[l][n] = "unknown" /\ \A k \in Links : \A m \in Nodes : k # l \/ m # n => f[k][m] = end[k][m]
  BY <1>1, <1>2 DEF Typed
<1>6. q \in [Nodes -> SUBSET (Links \X Links)]
  BY <1>1 DEF Typed
<1>7. /\ q[n] = conns[n] \cup olds
      /\ \A m \in Nodes : \A p \in q[m] : p \in conns[m] \/ (m = n /\ p \in olds)
  BY <1>1 DEF Typed
<1>8. ASSUME NEW p \in olds
      PROVE  /\ p[1] # p[2]
             /\ f[p[1]][n] \in LiveStates /\ f[p[2]][n] \in LiveStates
             /\ p[1][1] = Peer(n) /\ p[2][1] = Peer(n) => f[p[1]][Peer(n)] \in Away
  <2>1. p[1] \in Links /\ end[p[1]][n] \in LiveStates /\ p[2] = l
    BY DEF Live, LiveStates
  <2>2. p[1] # l
    BY <2>1 DEF LiveStates
  <2>3. f[p[1]][n] \in LiveStates /\ f[l][n] \in LiveStates
    BY <1>5, <2>1, <2>2 DEF LiveStates
  <2>4. ASSUME p[1][1] = Peer(n), l[1] = Peer(n)
        PROVE  f[p[1]][Peer(n)] \in Away
    <3>1. Peer(n) \in Nodes /\ Peer(l[1]) = n
      BY <2>4, Peers
    <3>2. end[l][l[1]] \notin Away
      BY <1>1, <3>1 DEF ShapeAt, Away
    <3>3. end[p[1]][Peer(n)] \in Away
      BY <1>1, <2>1, <2>2, <2>4, <3>2 DEF OneDial
    <3> QED BY <1>5, <2>1, <2>2, <3>1, <3>3
  <2> QED BY <2>1, <2>2, <2>3, <2>4
<1> DEFINE D == Resolve(n, q[n], f).dropped
           E == Resolve(n, q[n], f).deferred
<1>9. /\ Install(Closed(f, n, D), w)
      /\ conns' = [conns EXCEPT ![n] = Without(q[n], D)]
      /\ closing' = [closing EXCEPT ![n] = (closing[n] \cup E) \ D]
  BY <1>2, <1>7 DEF Promote
<1>10. [conns EXCEPT ![n] = Without(q[n], D)] = [q EXCEPT ![n] = Without(q[n], D)]
  BY <1>1 DEF Typed
<1> HIDE DEF q, olds
<1>11. Order(f, q)
  BY <1>4, <1>7, <1>8 DEF Order
<1>12. Calm(f, w, q, closing)
  BY <1>3, <1>4, <1>6, <1>11 DEF Calm, Typed
<1> QED BY <1>1, <1>3, <1>9, <1>10, <1>12, ResolveCalm

LEMMA ServerHelloCalm ==
  ASSUME Quiet, NEW n \in Nodes, NEW l \in Links, ServerHello(n, l)
  PROVE  StaysCalm
<1> DEFINE f == [end EXCEPT ![l][n] = "unknown"]
           u == [wire EXCEPT ![l][n] = @ \ {"hello"}]
           v == Sent(u, n, l, "hello")
<1>1. end[l][n] = "pending" /\ Promote(n, l, v)
  BY DEF ServerHello
<1>2. f = [end EXCEPT ![l][n] = "unknown"]
  OBVIOUS
<1>3. Typed(end, wire, conns, closing) /\ ShapeAt(end, wire, l) /\ cut = {}
  BY DEF Quiet, Calm
<1>4. f[l][n] = "unknown" /\ f[l][Peer(n)] = end[l][Peer(n)]
  BY <1>3, Peers DEF Typed
<1>5. /\ u \in [Links -> [Nodes -> SUBSET {"hello", "frame"}]]
      /\ \A k \in Links \ {l} : u[k] = wire[k]
      /\ u[l][n] \subseteq wire[l][n] /\ u[l][Peer(n)] = wire[l][Peer(n)]
  BY <1>3, Peers DEF Typed
<1> HIDE DEF f, u
<1>6. /\ v \in [Links -> [Nodes -> SUBSET {"hello", "frame"}]]
      /\ \A k \in Links \ {l} : v[k] = wire[k]
      /\ v[l][n] \subseteq wire[l][n]
      /\ v[l][Peer(n)] = wire[l][Peer(n)] \cup {"hello"}
  BY <1>3, <1>5, SentWire
<1> HIDE DEF v
<1>7. l[1] = Peer(n) /\ Peer(l[1]) = n
  BY <1>1, <1>3, WhichEnd DEF ShapeAt
<1>8. ShapeAt(f, v, l)
  BY <1>1, <1>3, <1>4, <1>6, <1>7 DEF ShapeAt, Away, LiveStates
<1>9. Turn(end, wire, n, l, "unknown", f, v)
  BY <1>1, <1>2, <1>6, <1>8 DEF Turn, LiveStates, Away, EndStates
<1> QED BY <1>1, <1>9, PromoteCalm

LEMMA ClientHelloCalm ==
  ASSUME Quiet, NEW n \in Nodes, NEW l \in Links, ClientHello(n, l)
  PROVE  StaysCalm
<1> DEFINE f == [end EXCEPT ![l][n] = "unknown"]
           v == [wire EXCEPT ![l][n] = @ \ {"hello"}]
<1>1. end[l][n] = "greeted" /\ "hello" \in wire[l][n] /\ Promote(n, l, v)
  BY DEF ClientHello
<1>2. f = [end EXCEPT ![l][n] = "unknown"]
  OBVIOUS
<1>3. Typed(end, wire, conns, closing) /\ ShapeAt(end, wire, l)
  BY DEF Quiet, Calm
<1>4. f[l][n] = "unknown" /\ f[l][Peer(n)] = end[l][Peer(n)]
  BY <1>3, Peers DEF Typed
<1>5. /\ v \in [Links -> [Nodes -> SUBSET {"hello", "frame"}]]
      /\ \A k \in Links \ {l} : v[k] = wire[k]
      /\ v[l][n] \subseteq wire[l][n] /\ v[l][Peer(n)] = wire[l][Peer(n)]
  BY <1>3, Peers DEF Typed
<1> HIDE DEF f, v
<1>6. l[1] = n /\ Peer(l[1]) = Peer(n)
  BY <1>1, <1>3, WhichEnd DEF ShapeAt
<1>7. ShapeAt(f, v, l)
  BY <1>1, <1>3, <1>4, <1>5, <1>6 DEF ShapeAt, Away, LiveStates
<1>8. Turn(end, wire, n, l, "unknown", f, v)
  BY <1>1, <1>2, <1>5, <1>7 DEF Turn, LiveStates, Away, EndStates
<1> QED BY <1>1, <1>8, PromoteCalm

\* A step that moves nothing but messages.
LEMMA BroadcastCalm ==
  ASSUME Quiet, NEW n \in Nodes, Broadcast(n)
  PROVE  StaysCalm
<1> DEFINE reached == {l \in Links \ cut : Live(n, l) /\ ~Busy(n, l) /\
                                           end[l][Peer(n)] \notin {"none", "closed"}}
<1>1. /\ wire' = [l \in Links |-> IF l \in reached
                                  THEN [wire[l] EXCEPT ![Peer(n)] = @ \cup {"frame"}]
                                  ELSE wire[l]]
      /\ UNCHANGED <<end, cut, conns, closing>>
  BY DEF Broadcast
<1>2. \A l \in reached : end[l][n] \in LiveStates
  BY DEF Live, LiveStates
<1> HIDE DEF reached
<1>3. Calm(end, wire, conns, closing) /\ Typed(end, wire, conns, closing)
  BY DEF Quiet, Calm
<1>4. wire' \in [Links -> [Nodes -> SUBSET {"hello", "frame"}]]
  <2>1. wire \in [Links -> [Nodes -> SUBSET {"hello", "frame"}]]
    BY <1>3 DEF Typed
  <2>2. \A l \in Links : [wire[l] EXCEPT ![Peer(n)] = @ \cup {"frame"}]
                          \in [Nodes -> SUBSET {"hello", "frame"}]
    BY <2>1, Peers
  <2> QED BY <1>1, <2>1, <2>2
<1>5. ASSUME NEW l \in Links
      PROVE  ShapeAt(end, wire', l)
  <2>1. ShapeAt(end, wire, l)
    BY <1>3 DEF Calm
  <2>2. CASE l \notin reached
    <3>1. wire'[l] = wire[l]
      BY <1>1, <2>2
    <3> QED BY <2>1, <3>1 DEF ShapeAt
  <2>3. CASE l \in reached
    <3>1. /\ wire'[l][Peer(n)] = wire[l][Peer(n)] \cup {"frame"}
          /\ wire'[l][n] = wire[l][n]
      BY <1>1, <1>3, <2>3, Peers DEF Typed
    <3>2. end[l][n] \in LiveStates
      BY <1>2, <2>3
    <3>3. CASE l[1] = n /\ Peer(l[1]) = Peer(n)
      BY <2>1, <3>1, <3>2, <3>3 DEF ShapeAt, LiveStates
    <3>4. CASE l[1] = Peer(n) /\ Peer(l[1]) = n
      BY <2>1, <3>1, <3>2, <3>4 DEF ShapeAt, LiveStates
    <3> QED BY <3>3, <3>4, WhichEnd
  <2> QED BY <2>2, <2>3
<1>6. Calm(end, wire', conns, closing)
  BY <1>3, <1>4, <1>5 DEF Calm, Typed
<1> QED BY <1>1, <1>6 DEF StaysCalm, Quiet

\* Neither a dial nor its delay.
LEMMA IdleCalm ==
  ASSUME Quiet, UNCHANGED <<end, wire, cut, conns, closing>>
  PROVE  StaysCalm
BY DEF StaysCalm, Quiet

LEMMA DialCalm ==
  ASSUME Quiet, NEW n \in Nodes, ~Connected(n), StartHandshake(n),
         UNCHANGED <<wire, cut, conns, closing>>
  PROVE  StaysCalm
<1>1. CASE UNCHANGED end
  BY <1>1, IdleCalm
<1>2. ASSUME NEW l \in Links, ~DialPending(n), Dials(n, l), Over(end, l),
             end' = [end EXCEPT ![l][n] = "dialing"]
      PROVE  StaysCalm
  <2>1. /\ Calm(end, wire, conns, closing) /\ Typed(end, wire, conns, closing)
        /\ ShapeAt(end, wire, l) /\ cut = {} /\ Fresh(end)
    BY DEF Quiet, Calm
  <2>2. l[1] = n /\ Peer(l[1]) = Peer(n) /\ Peer(n) \in Nodes
    BY <1>2, Peers DEF Dials
  <2>3. end[l][n] = "none" /\ end[l][Peer(n)] = "none"
    BY <1>2, <2>1, <2>2 DEF Fresh
  <2>4. \A k \in Links : k[1] = n => end[k][n] \in Away
    <3> SUFFICES ASSUME NEW k \in Links, k[1] = n PROVE end[k][n] \in Away
      OBVIOUS
    <3>1. ShapeAt(end, wire, k)
      BY <2>1 DEF Calm
    <3>2. end[k][n] # "pending"
      BY <3>1 DEF ShapeAt
    <3>3. end[k][n] \in EndStates
      BY <2>1 DEF Typed
    <3> QED BY <1>2, <3>2, <3>3 DEF DialPending, Connected, Live, Dials, EndStates, Away
  <2>5. end'[l][n] = "dialing" /\ end'[l][Peer(n)] = "none"
    BY <1>2, <2>1, <2>3, Peers DEF Typed
  <2>6. ShapeAt(end', wire, l)
    BY <2>1, <2>2, <2>3, <2>5 DEF ShapeAt, Away, LiveStates
  <2>7. Turn(end, wire, n, l, "dialing", end', wire)
    <3>1. "dialing" \in EndStates
      BY DEF EndStates
    <3>2. wire \in [Links -> [Nodes -> SUBSET {"hello", "frame"}]]
      BY <2>1 DEF Typed
    <3> QED BY <1>2, <2>3, <2>4, <2>6, <3>1, <3>2 DEF Turn, LiveStates, Away
  <2>8. Calm(end', wire, conns, closing) /\ (JoinedIn(end) => JoinedIn(end'))
    BY <2>1, <2>7, SetCalm
  <2>9. Fresh(end')
    <3>1. \A k \in Links : k # l => end'[k] = end[k]
      BY <1>2, <2>1 DEF Typed
    <3>2. ~Over(end', l)
      BY <2>5 DEF Over
    <3> QED BY <2>1, <3>1, <3>2 DEF Fresh, Over
  <2> QED BY <2>1, <2>8, <2>9 DEF StaysCalm
<1> QED BY <1>1, <1>2 DEF StartHandshake

LEMMA CleanCalm ==
  ASSUME Quiet, NEW n \in Nodes, CleanDeadConns(n)
  PROVE  StaysCalm
<1> DEFINE done == {l \in closing[n] : ~Busy(n, l)}
           e == Closed(end, n, done)
           q == [conns EXCEPT ![n] = Without(@, done)]
           c == [closing EXCEPT ![n] = @ \ done]
<1>1. /\ Calm(end, wire, conns, closing) /\ Typed(end, wire, conns, closing)
      /\ Waiting(end, closing) /\ cut = {}
  BY DEF Quiet, Calm
<1>2. \A l \in done : l \in Links /\ end[l][n] \in LiveStates /\ Excused(end, n, l)
  BY <1>1 DEF Typed, Waiting, LiveStates
<1>3. /\ q[n] = Without(conns[n], done)
      /\ c[n] = closing[n] \ done
  BY <1>1 DEF Typed
<1> DEFINE D == Resolve(n, q[n], e).dropped
           E == Resolve(n, q[n], e).deferred
<1>4. /\ Install(Closed(e, n, D), wire)
      /\ conns' = [conns EXCEPT ![n] = Without(q[n], D)]
      /\ closing' = [closing EXCEPT ![n] = c[n] \cup E]
  BY <1>3 DEF CleanDeadConns
<1>5. c[n] \cup E = (c[n] \cup E) \ D
  <2>1. \A x \in E : x \notin D
    BY DEF Resolve
  <2>2. \A x \in D : ~Busy(n, x)
    BY DEF Resolve
  <2>3. \A x \in c[n] : Busy(n, x)
    BY <1>3
  <2> HIDE DEF D, E, c
  <2> QED BY <2>1, <2>2, <2>3
<1>6. /\ conns' = [q EXCEPT ![n] = Without(q[n], D)]
      /\ closing' = [c EXCEPT ![n] = (c[n] \cup E) \ D]
  <2>1. closing' = [closing EXCEPT ![n] = (c[n] \cup E) \ D]
    BY <1>4, <1>5
  <2> HIDE DEF D, E
  <2> QED BY <1>1, <1>4, <2>1 DEF Typed
<1>7. Calm(e, wire, q, c) /\ (JoinedIn(end) => JoinedIn(e))
  <2> HIDE DEF done
  <2> QED BY <1>1, <1>2, CloseCalm
<1> HIDE DEF e, q, c
<1> QED BY <1>1, <1>4, <1>6, <1>7, ResolveCalm
-----------------------------------------------------------------------------
LEMMA FaultsCounted ==
  ASSUME [Next]_vars
  PROVE  UNCHANGED faults \/ Fault
<1>1. ASSUME NEW n \in Nodes, DialStep(n) \/ AcceptWindowEnds(n) \/ HoldEnds(n) \/ CooldownEnds(n)
      PROVE  UNCHANGED faults
  BY <1>1 DEF DialStep, Dial, Defer, Probe, AcceptWindowEnds, HoldEnds, CooldownEnds
<1>2. ASSUME NEW n \in Nodes, Broadcast(n) \/ CleanDeadConns(n)
      PROVE  UNCHANGED faults
  BY <1>2 DEF Broadcast, CleanDeadConns
<1>3. ASSUME NEW n \in Nodes, Reconnect(n) \/ Crash(n)
      PROVE  Fault
  BY <1>3 DEF Reconnect, Crash
<1>4. ASSUME NEW n \in Nodes, NEW l \in Links, HandshakeStep(n, l)
      PROVE  UNCHANGED faults \/ Fault
  BY <1>4 DEF HandshakeStep, Accept, WriteHello, ServerHello, ClientHello, Promote,
              HandshakeFails, HandshakeDeadline
<1>5. ASSUME NEW n \in Nodes, NEW l \in Links, LinkStep(n, l)
      PROVE  UNCHANGED faults \/ Fault
  BY <1>5 DEF LinkStep, Read, ReadEof, PongTimeout
<1>6. ASSUME NEW n \in Nodes, NEW l \in Links, Borrow(n, l) \/ Release(n, l)
      PROVE  UNCHANGED faults
  BY <1>6 DEF Borrow, Release
<1>7. ASSUME NEW l \in Links, LinkDies(l)
      PROVE  Fault
  BY <1>7 DEF LinkDies
<1>8. CASE UNCHANGED vars
  BY <1>8 DEF vars
<1> QED BY <1>1, <1>2, <1>3, <1>4, <1>5, <1>6, <1>7, <1>8 DEF Next

\* Without a failure there has been none, so nothing is cut and no deadline,
\* timeout, command or crash is a step.
LEMMA NoFault ==
  ASSUME CalmInv, [Next]_vars, faults' = 0
  PROVE  Quiet /\ faults = 0 /\ ~Fault
<1>1. UNCHANGED faults \/ Fault
  BY FaultsCounted
<1>2. faults \in Nat /\ (faults = 0 => Quiet)
  BY DEF CalmInv, Quiet
<1>3. ~Fault
  BY <1>2 DEF Fault
<1> QED BY <1>1, <1>2, <1>3

LEMMA CalmStep ==
  ASSUME CalmInv, [Next]_vars, faults' = 0
  PROVE  StaysCalm
<1>1. Quiet /\ ~Fault /\ cut = {}
  BY NoFault DEF Quiet
<1>2. ASSUME NEW n \in Nodes, DialStep(n)
      PROVE  StaysCalm
  <2>1. /\ UNCHANGED <<wire, cut, conns, closing>>
        /\ UNCHANGED end \/ (~Connected(n) /\ StartHandshake(n))
    BY <1>2 DEF DialStep, Dial, Defer, Probe, TryDial
  <2> QED BY <1>1, <2>1, DialCalm, IdleCalm
<1>3. ASSUME NEW n \in Nodes, AcceptWindowEnds(n) \/ HoldEnds(n) \/ CooldownEnds(n)
      PROVE  StaysCalm
  BY <1>1, <1>3, IdleCalm DEF AcceptWindowEnds, HoldEnds, CooldownEnds
<1>4. ASSUME NEW n \in Nodes, NEW l \in Links, HandshakeStep(n, l)
      PROVE  StaysCalm
  <2>1. ~HandshakeDeadline(n, l)
    BY <1>1 DEF HandshakeDeadline
  <2> QED BY <1>1, <1>4, <2>1, AcceptCalm, WriteHelloCalm, ServerHelloCalm, ClientHelloCalm,
             FailsCalm DEF HandshakeStep
<1>5. ASSUME NEW n \in Nodes, NEW l \in Links, LinkStep(n, l)
      PROVE  StaysCalm
  <2>1. ~PongTimeout(n, l)
    BY <1>1 DEF PongTimeout
  <2> QED BY <1>1, <1>5, <2>1, ReadCalm, EofCalm DEF LinkStep
<1>6. ASSUME NEW n \in Nodes, NEW l \in Links, Borrow(n, l) \/ Release(n, l)
      PROVE  StaysCalm
  BY <1>1, <1>6, IdleCalm DEF Borrow, Release
<1>7. \A n \in Nodes : ~Reconnect(n) /\ ~Crash(n)
  BY <1>1 DEF Reconnect, Crash
<1>8. \A l \in Links : ~LinkDies(l)
  BY <1>1 DEF LinkDies
<1>9. CASE UNCHANGED vars
  BY <1>1, <1>9, IdleCalm DEF vars
<1> QED BY <1>1, <1>2, <1>3, <1>4, <1>5, <1>6, <1>7, <1>8, <1>9, BroadcastCalm, CleanCalm
        DEF Next

LEMMA CalmInit == Init => CalmInv
<1> SUFFICES ASSUME Init PROVE CalmInv
  OBVIOUS
<1>1. \A l \in Links : \A n \in Nodes : end[l][n] = "none" /\ wire[l][n] = {}
  BY DEF Init
<1>2. Typed(end, wire, conns, closing)
  BY DEF Init, Typed, EndStates
<1>3. \A l \in Links : ShapeAt(end, wire, l)
  BY <1>1, Peers DEF ShapeAt, Away, LiveStates
<1>4. OneDial(end)
  BY <1>1, Peers DEF OneDial, Away
<1>5. Order(end, conns) /\ Waiting(end, closing)
  BY DEF Init, Order, Waiting
<1>6. Fresh(end)
  BY <1>1 DEF Fresh
<1> QED BY <1>2, <1>3, <1>4, <1>5, <1>6 DEF CalmInv, Calm, Init

LEMMA CalmNext == CalmInv /\ [Next]_vars => CalmInv'
<1> SUFFICES ASSUME CalmInv, [Next]_vars PROVE CalmInv'
  OBVIOUS
<1>1. faults' \in Nat
  BY FaultsCounted DEF Fault, CalmInv
<1>2. ASSUME faults' = 0
      PROVE  cut' = {} /\ Calm(end', wire', conns', closing') /\ Fresh(end')
  BY <1>2, CalmStep DEF StaysCalm
<1> QED BY <1>1, <1>2 DEF CalmInv

\* Until something fails, a pair that is joined by a link stays joined: for any
\* number of links dialed, promoted, classified, dropped and dropped late in any
\* order, the two ends never drop each other's last link.
THEOREM SplitCorrect == Spec => NoSplit
<1>1. CalmInv /\ [Next]_vars => [(faults' = 0 /\ Joined) => Joined']_vars
  <2> SUFFICES ASSUME CalmInv, [Next]_vars, faults' = 0, Joined PROVE Joined'
    OBVIOUS
  <2>1. StaysCalm
    BY CalmStep
  <2>2. JoinedIn(end)
    BY DEF Joined, JoinedIn, Live, LiveStates
  <2>3. JoinedIn(end')
    BY <2>1, <2>2 DEF StaysCalm
  <2> QED BY <2>3 DEF Joined, JoinedIn, Live, LiveStates
<1> QED BY <1>1, CalmInit, CalmNext, PTL DEF Spec, NoSplit
=============================================================================

----------------------------- MODULE LinkProofs -----------------------------
(***************************************************************************)
(* Proofs about MCLink: first gossip, for any daemons, guests and topology *)
(* whose pins are mutual; then the frames of a session, for any clients,   *)
(* buffers and queues.  TermInv, the inductive invariant of the terminal,  *)
(* has a part for each promise: what a client that is attached has been    *)
(* or will be told (Tells), whose command is still to be started (Once)    *)
(* and where the keys are, from the keyboard to the shell (Ordered).       *)
(* Lemmas first state what queues hold, whatever the bounds, then what a   *)
(* step does to one connection; a step that brings neither a new key nor a *)
(* new command to any connection (Mild) keeps most of the invariant.       *)
(***************************************************************************)
EXTENDS MCLink, SequenceTheorems, TLAPS

-----------------------------------------------------------------------------
(* Gossip. *)

GossipTypes ==
  /\ conn \in [Nodes -> [Nodes -> {"none", "hello", "up"}]] /\ \A n \in Nodes : conn[n][n] = "none"
  /\ told \in [Nodes -> [Nodes -> BOOLEAN]]
  /\ wire \in [Nodes -> [Nodes -> Seq(Messages)]]
  /\ known \in [Nodes -> [Guests -> Entries]]
  /\ visits \in [Nodes -> SUBSET Guests]
  /\ lost \subseteq Nodes \X Guests /\ refused \subseteq Nodes \X Nodes

\* Nothing is on its way to an end that has closed; who has yet to read a Hello has not gossiped.
Greets ==
  \A n, m \in Nodes :
    /\ wire[n][m] # <<>> => conn[m][n] # "none"
    /\ conn[n][m] = "hello" => ~told[n][m]

GossipInv == GossipTypes /\ Greets /\ ToldKnows

\* The listings of a daemon are those of the messages.
LEMMA ListingIs ==
  ASSUME GossipTypes, NEW n \in Nodes
  PROVE  /\ Listing(n) \in Listings /\ Hello(n) \in Messages /\ Update(n) \in Messages
         /\ \A g \in Listed(n) \cap Trusts[n] : \E e \in Listing(n) : e[1] = g
<1>1. ASSUME NEW g \in Listed(n) PROVE known[n][g].at \in Addrs
  <2>1. g \in Guests /\ known[n][g] # Absent
    BY DEF Listed
  <2>2. known[n][g] \in Entries
    BY <2>1 DEF GossipTypes
  <2> QED BY ONLY <2>1, <2>2 DEF Entries
<1>2. Listing(n) \in Listings
  BY <1>1 DEF Listing, Listings, Listed
<1>3. visits[n] \X {"source"} \in Listings /\ {} \in Listings
  BY DEF GossipTypes, Listings, Addrs
<1>4. Hello(n) \in Messages /\ Update(n) \in Messages
  BY <1>2, <1>3 DEF Hello, Update, Messages
<1>5. ASSUME NEW g \in Listed(n) \cap Trusts[n] PROVE \E e \in Listing(n) : e[1] = g
  <2>1. <<g, known[n][g].at>> \in Listing(n)
    BY DEF Listing
  <2>2. <<g, known[n][g].at>>[1] = g
    OBVIOUS
  <2> QED BY <2>1, <2>2
<1> QED BY <1>2, <1>4, <1>5

\* What a message offers is listed afterwards; if it brings no news it was listed before, and nothing else changes.
LEMMA MergedIs ==
  ASSUME GossipTypes, NEW n \in Nodes, NEW msg \in Messages
  PROVE  /\ Merged(n, msg) \in [Guests -> Entries]
         /\ \A g \in Guests : g \in Offered(n, msg) \/ known[n][g] # Absent => Merged(n, msg)[g] # Absent
         /\ ~News(n, msg) => \A g \in Guests : Merged(n, msg)[g] # Absent => known[n][g] # Absent
<1>1. msg.peers \subseteq Guests \X Addrs /\ msg.conns \subseteq Guests \X Addrs
  BY DEF Messages, Listings
<1>2. ASSUME NEW g \in Offered(n, msg) PROVE Given(msg, g) \in Addrs
  <2>1. CASE \E e \in msg.conns : e[1] = g
    BY <2>1 DEF Given, Addrs
  <2>2. CASE ~\E e \in msg.conns : e[1] = g
    <3>1. \E e \in msg.peers : e[1] = g
      BY <2>2 DEF Offered
    <3>2. (CHOOSE e \in msg.peers : e[1] = g) \in msg.peers
      BY <3>1
    <3>3. (CHOOSE e \in msg.peers : e[1] = g)[2] \in Addrs
      BY <1>1, <3>2
    <3> QED BY <2>2, <3>3 DEF Given
  <2> QED BY <2>1, <2>2
<1>3. ASSUME NEW g \in Guests
      PROVE  /\ Merged(n, msg)[g] = IF g \in Offered(n, msg) THEN [at |-> Given(msg, g), fresh |-> TRUE] ELSE known[n][g]
             /\ Merged(n, msg)[g] \in Entries
             /\ g \in Offered(n, msg) \/ known[n][g] # Absent => Merged(n, msg)[g] # Absent
  <2>1. Merged(n, msg)[g] = IF g \in Offered(n, msg) THEN [at |-> Given(msg, g), fresh |-> TRUE] ELSE known[n][g]
    BY DEF Merged
  <2>2. CASE g \in Offered(n, msg)
    <3>1. Given(msg, g) \in Addrs
      BY <1>2, <2>2
    <3>2. Merged(n, msg)[g] \in [at : Addrs, fresh : BOOLEAN]
      BY <2>1, <2>2, <3>1
    <3>3. Merged(n, msg)[g] # Absent
      BY <2>1, <2>2 DEF Absent
    <3> QED BY <2>1, <3>2, <3>3 DEF Entries
  <2>3. CASE g \notin Offered(n, msg)
    BY <2>1, <2>3 DEF GossipTypes
  <2> QED BY <2>1, <2>2, <2>3
<1>4. Merged(n, msg) \in [Guests -> Entries]
  BY <1>3 DEF Merged
<1>5. ASSUME ~News(n, msg), NEW g \in Guests, Merged(n, msg)[g] # Absent PROVE known[n][g] # Absent
  <2>1. CASE g \in Offered(n, msg)
    <3>1. PICK e \in msg.peers \cup msg.conns : e[1] = g /\ g \in Trusts[n]
      BY <2>1 DEF Offered
    <3>2. known[n][g].at = e[2] /\ e[2] \in Addrs
      BY <1>1, <1>5, <3>1 DEF News
    <3> QED BY <3>2 DEF Absent, Addrs
  <2>2. CASE g \notin Offered(n, msg)
    BY <1>3, <1>5, <2>2
  <2> QED BY <2>1, <2>2
<1> QED BY <1>3, <1>4, <1>5

\* Two entries of a table.
LEMMA Put2 ==
  ASSUME NEW S, NEW V, NEW f \in [S -> [S -> V]], NEW n \in S, NEW m \in S, NEW v \in V, NEW w \in V,
         NEW g, g = [f EXCEPT ![n][m] = v, ![m][n] = w]
  PROVE  /\ g \in [S -> [S -> V]]
         /\ \A x, y \in S : g[x][y] = IF x = m /\ y = n THEN w ELSE IF x = n /\ y = m THEN v ELSE f[x][y]
<1> DEFINE h == [f EXCEPT ![n][m] = v]
<1>1. h \in [S -> [S -> V]] /\ \A x, y \in S : h[x][y] = IF x = n /\ y = m THEN v ELSE f[x][y]
  OBVIOUS
<1>2. g = [h EXCEPT ![m][n] = w]
  OBVIOUS
<1> HIDE DEF h
<1>3. g \in [S -> [S -> V]]
  BY ONLY <1>1, <1>2, m \in S, n \in S, w \in V
<1>4. ASSUME NEW x \in S, NEW y \in S PROVE g[x][y] = IF x = m /\ y = n THEN w ELSE h[x][y]
  <2>1. x # m => g[x] = h[x]
    BY ONLY <1>1, <1>2, x \in S, m \in S
  <2>2. g[m] = [h[m] EXCEPT ![n] = w] /\ h[m] \in [S -> V]
    BY ONLY <1>1, <1>2, m \in S
  <2> QED BY <2>1, <2>2
<1> QED BY <1>1, <1>3, <1>4

\* x has nothing new to tell y, to whom it is connected, and lists g.
Concerns(x, y, g) ==
  /\ conn[x][y] = "up" /\ conn[y][x] # "none" /\ told[x][y] /\ known[x][g] # Absent
  /\ <<x, g>> \notin Lan /\ <<x, y>> \notin refused

\* Nothing to tell stays nothing to tell where only listings of the other end change.
LEMMA StillTold ==
  ASSUME GossipInv, lost \subseteq lost',
         \A x, y \in Nodes, g \in Guests :
           Concerns(x, y, g)' => Concerns(x, y, g) /\ wire'[x][y] = wire[x][y],
         \A y \in Nodes, g \in Guests : known[y][g] # Absent => known'[y][g] # Absent \/ <<y, g>> \in lost'
  PROVE  ToldKnows'
<1> SUFFICES ASSUME NEW x \in Nodes, NEW y \in Nodes, NEW g \in Guests,
                    Concerns(x, y, g)', g \in Trusts[x] \cap Trusts[y]
             PROVE  known'[y][g] # Absent \/ InFlight(x, y, g)' \/ <<y, g>> \in lost'
  BY DEF ToldKnows, Current, Listed, Concerns
<1>1. Concerns(x, y, g) /\ wire'[x][y] = wire[x][y]
  OBVIOUS
<1>2. g \in Listed(y) \/ InFlight(x, y, g) \/ <<y, g>> \in lost
  BY <1>1 DEF GossipInv, ToldKnows, Current, Listed, Concerns
<1>3. InFlight(x, y, g) => InFlight(x, y, g)'
  BY <1>1 DEF InFlight
<1> QED BY <1>2, <1>3 DEF Listed

LEMMA BumpedIs ==
  ASSUME GossipTypes, NEW n \in Nodes, NEW news \in BOOLEAN
  PROVE  /\ Bumped(n, news) \in [Nodes -> [Nodes -> BOOLEAN]]
         /\ \A x, y \in Nodes : Bumped(n, news)[x][y] = IF news /\ x = n THEN FALSE ELSE told[x][y]
BY DEF Bumped, GossipTypes

LEMMA ConnectKeeps ==
  ASSUME GossipInv, NEW n \in Nodes, NEW m \in Nodes, Connect(n, m)
  PROVE  GossipInv'
<1>1. n # m
  BY GossipAssumption DEF Connect
<1>2. <<Hello(n)>> \in Seq(Messages) /\ <<Hello(m)>> \in Seq(Messages)
  BY ListingIs DEF GossipInv
<1>3. /\ conn' \in [Nodes -> [Nodes -> {"none", "hello", "up"}]]
      /\ \A x, y \in Nodes :
           conn'[x][y] = IF x = m /\ y = n THEN "hello" ELSE IF x = n /\ y = m THEN "hello" ELSE conn[x][y]
  <2>1. conn' = [conn EXCEPT ![n][m] = "hello", ![m][n] = "hello"] /\ conn \in [Nodes -> [Nodes -> {"none", "hello", "up"}]]
    BY DEF Connect, GossipInv, GossipTypes
  <2> QED BY <2>1, Put2
<1>4. /\ told' \in [Nodes -> [Nodes -> BOOLEAN]]
      /\ \A x, y \in Nodes : told'[x][y] = IF x = m /\ y = n THEN FALSE ELSE IF x = n /\ y = m THEN FALSE ELSE told[x][y]
  <2>1. told' = [told EXCEPT ![n][m] = FALSE, ![m][n] = FALSE] /\ told \in [Nodes -> [Nodes -> BOOLEAN]]
    BY DEF Connect, GossipInv, GossipTypes
  <2> QED BY <2>1, Put2
<1>5. /\ wire' \in [Nodes -> [Nodes -> Seq(Messages)]]
      /\ \A x, y \in Nodes :
           wire'[x][y] = IF x = m /\ y = n THEN <<Hello(m)>> ELSE IF x = n /\ y = m THEN <<Hello(n)>> ELSE wire[x][y]
  <2>1. wire' = [wire EXCEPT ![n][m] = <<Hello(n)>>, ![m][n] = <<Hello(m)>>] /\ wire \in [Nodes -> [Nodes -> Seq(Messages)]]
    BY DEF Connect, GossipInv, GossipTypes
  <2> QED BY <1>2, <2>1, Put2
<1>6. UNCHANGED <<known, visits, lost>> /\ refused' = refused \ {<<n, m>>, <<m, n>>}
  BY DEF Connect
<1>7. GossipTypes'
  <2>1. \A x \in Nodes : conn'[x][x] = "none"
    BY <1>1, <1>3 DEF GossipInv, GossipTypes
  <2>2. lost' \subseteq Nodes \X Guests /\ refused' \subseteq Nodes \X Nodes
    BY <1>6 DEF GossipInv, GossipTypes
  <2> QED BY <1>3, <1>4, <1>5, <1>6, <2>1, <2>2 DEF GossipInv, GossipTypes
<1>8. Greets'
  <2> SUFFICES ASSUME NEW x \in Nodes, NEW y \in Nodes
               PROVE  /\ wire'[x][y] # <<>> => conn'[y][x] # "none"
                      /\ conn'[x][y] = "hello" => ~told'[x][y]
    BY DEF Greets
  <2>1. /\ wire[x][y] # <<>> => conn[y][x] # "none"
        /\ conn[x][y] = "hello" => ~told[x][y]
    BY DEF GossipInv, Greets
  <2>3. /\ conn'[x][y] = IF x = m /\ y = n THEN "hello" ELSE IF x = n /\ y = m THEN "hello" ELSE conn[x][y]
        /\ conn'[y][x] = IF y = m /\ x = n THEN "hello" ELSE IF y = n /\ x = m THEN "hello" ELSE conn[y][x]
        /\ told'[x][y] = IF x = m /\ y = n THEN FALSE ELSE IF x = n /\ y = m THEN FALSE ELSE told[x][y]
        /\ (x = m /\ y = n) \/ (x = n /\ y = m) \/ wire'[x][y] = wire[x][y]
    BY <1>3, <1>4, <1>5
  <2> QED BY <2>1, <2>3
<1>9. ToldKnows'
  <2>1. ASSUME NEW x \in Nodes, NEW y \in Nodes, NEW g \in Guests, Concerns(x, y, g)'
        PROVE  Concerns(x, y, g) /\ wire'[x][y] = wire[x][y]
    <3>1. ~(x = m /\ y = n) /\ ~(x = n /\ y = m)
      BY <1>3, <2>1 DEF Concerns
    <3>2. conn'[x][y] = conn[x][y] /\ conn'[y][x] = conn[y][x]
      BY <1>3, <3>1
    <3>3. told'[x][y] = told[x][y]
      BY <1>4, <3>1
    <3>4. wire'[x][y] = wire[x][y]
      BY <1>5, <3>1
    <3>5. <<x, y>> \in refused => <<x, y>> \in refused'
      BY <1>6, <3>1
    <3> QED BY <1>6, <2>1, <3>2, <3>3, <3>4, <3>5 DEF Concerns
  <2>2. ASSUME NEW y \in Nodes, NEW g \in Guests, known[y][g] # Absent PROVE known'[y][g] # Absent \/ <<y, g>> \in lost'
    BY <1>6, <2>2
  <2>3. lost \subseteq lost'
    BY <1>6
  <2> QED BY <2>1, <2>2, <2>3, StillTold
<1> QED BY <1>7, <1>8, <1>9 DEF GossipInv

LEMMA ReceiveKeeps ==
  ASSUME GossipInv, NEW n \in Nodes, NEW m \in Nodes, Receive(n, m)
  PROVE  GossipInv'
<1> DEFINE q == wire[m][n]
           msg == Head(q)
<1>0. GossipTypes
  BY DEF GossipInv
<1>1. q \in Seq(Messages) /\ q # <<>> /\ UNCHANGED <<visits, lost, refused>>
  BY DEF GossipInv, GossipTypes, Receive
<1>2. msg = q[1] /\ msg \in Messages /\ Tail(q) \in Seq(Messages) /\ Len(q) \in Nat /\ Len(Tail(q)) = Len(q) - 1
      /\ \A i \in 1..Len(Tail(q)) : Tail(q)[i] = q[i + 1]
  BY <1>1, HeadTailProperties
<1>3. conn' = [conn EXCEPT ![n][m] = IF msg.k = "hello" THEN "up" ELSE conn[n][m]]
  BY DEF Receive
<1>4. known' = [known EXCEPT ![n] = Merged(n, msg)] /\ told' = Bumped(n, News(n, msg))
  BY DEF Receive
<1>5. wire' = [wire EXCEPT ![m][n] = Tail(q)]
  BY DEF Receive
<1> HIDE DEF msg
<1>6. /\ conn' \in [Nodes -> [Nodes -> {"none", "hello", "up"}]]
      /\ \A x, y \in Nodes : conn'[x][y] = IF x = n /\ y = m /\ msg.k = "hello" THEN "up" ELSE conn[x][y]
  BY <1>3 DEF GossipInv, GossipTypes
<1>7. /\ wire' \in [Nodes -> [Nodes -> Seq(Messages)]]
      /\ \A x, y \in Nodes : wire'[x][y] = IF x = m /\ y = n THEN Tail(q) ELSE wire[x][y]
  <2>1. wire \in [Nodes -> [Nodes -> Seq(Messages)]] /\ Tail(q) \in Seq(Messages)
    BY <1>2 DEF GossipInv, GossipTypes
  <2>2. \A v \in Seq(Messages) : wire' = [wire EXCEPT ![m][n] = v] =>
          /\ wire' \in [Nodes -> [Nodes -> Seq(Messages)]]
          /\ \A x, y \in Nodes : wire'[x][y] = IF x = m /\ y = n THEN v ELSE wire[x][y]
    BY <2>1
  <2> QED BY <1>5, <2>1, <2>2
<1>8. /\ told' \in [Nodes -> [Nodes -> BOOLEAN]]
      /\ \A x, y \in Nodes : told'[x][y] = IF News(n, msg) /\ x = n THEN FALSE ELSE told[x][y]
  <2> DEFINE news == News(n, msg)
  <2>1. told' = Bumped(n, news) /\ GossipTypes /\ news \in BOOLEAN
    BY <1>4 DEF GossipInv, News
  <2> HIDE DEF news
  <2>2. /\ Bumped(n, news) \in [Nodes -> [Nodes -> BOOLEAN]]
        /\ \A x, y \in Nodes : Bumped(n, news)[x][y] = IF news /\ x = n THEN FALSE ELSE told[x][y]
    BY <2>1, BumpedIs
  <2>3. /\ told' \in [Nodes -> [Nodes -> BOOLEAN]]
        /\ \A x, y \in Nodes : told'[x][y] = IF news /\ x = n THEN FALSE ELSE told[x][y]
    BY <2>1, <2>2
  <2> QED BY <2>3 DEF news
<1>9. /\ known' \in [Nodes -> [Guests -> Entries]]
      /\ \A x \in Nodes : x # n => known'[x] = known[x]
      /\ known'[n] = Merged(n, msg)
  BY <1>2, <1>4, MergedIs DEF GossipInv, GossipTypes
<1>10. /\ \A g \in Guests : g \in Offered(n, msg) \/ known[n][g] # Absent => known'[n][g] # Absent
       /\ ~News(n, msg) => \A g \in Guests : known'[n][g] # Absent => known[n][g] # Absent
  BY <1>2, <1>9, MergedIs DEF GossipInv
<1>11. conn[n][m] # "none" /\ n # m
  BY DEF Receive, GossipInv, GossipTypes
<1>12. GossipTypes'
  <2>1. \A x \in Nodes : conn'[x][x] = "none"
    BY <1>6, <1>11 DEF GossipInv, GossipTypes
  <2> QED BY <1>1, <1>6, <1>7, <1>8, <1>9, <2>1 DEF GossipInv, GossipTypes
<1>13. Greets'
  <2> SUFFICES ASSUME NEW x \in Nodes, NEW y \in Nodes
               PROVE  /\ wire'[x][y] # <<>> => conn'[y][x] # "none"
                      /\ conn'[x][y] = "hello" => ~told'[x][y]
    BY DEF Greets
  <2>1. /\ wire[x][y] # <<>> => conn[y][x] # "none"
        /\ conn[x][y] = "hello" => ~told[x][y]
    BY DEF GossipInv, Greets
  <2>2. wire'[x][y] # <<>> => wire[x][y] # <<>>
    BY <1>1, <1>7
  <2>3. conn[y][x] # "none" => conn'[y][x] # "none"
    BY <1>6
  <2>4. conn'[x][y] = "hello" => conn[x][y] = "hello"
    BY <1>6
  <2>5. told'[x][y] => told[x][y]
    BY <1>8
  <2> QED BY <2>1, <2>2, <2>3, <2>4, <2>5
<1>14. ToldKnows'
  <2> SUFFICES ASSUME NEW x \in Nodes, NEW y \in Nodes, NEW g \in Guests,
                      Concerns(x, y, g)', g \in Trusts[x] \cap Trusts[y]
               PROVE  known'[y][g] # Absent \/ InFlight(x, y, g)' \/ <<y, g>> \in lost
    BY <1>1 DEF ToldKnows, Current, Listed, Concerns
  <2>1. CASE x = y
    BY <2>1 DEF Concerns
  <2>2. CASE x # y
    <3>0. /\ conn'[x][y] = "up" /\ conn'[y][x] # "none" /\ told'[x][y] /\ known'[x][g] # Absent
          /\ <<x, g>> \notin Lan /\ <<x, y>> \notin refused
      BY <1>1 DEF Concerns
    <3>1. told[x][y] /\ (x = n => ~News(n, msg))
      BY <1>8, <3>0
    <3>2. known[x][g] # Absent
      BY <1>9, <1>10, <3>0, <3>1
    <3>3. conn[x][y] = "up" /\ conn[y][x] # "none"
      <4>1. conn[y][x] # "none"
        BY <1>6, <1>11, <3>0
      <4>2. conn[x][y] # "hello"
        BY <3>1 DEF GossipInv, Greets
      <4>3. conn[x][y] # "none"
        BY <1>6, <1>11, <3>0
      <4>4. conn[x][y] \in {"none", "hello", "up"}
        BY DEF GossipInv, GossipTypes
      <4> QED BY <4>1, <4>2, <4>3, <4>4
    <3>4. known[y][g] # Absent \/ InFlight(x, y, g) \/ <<y, g>> \in lost
      BY <3>0, <3>1, <3>2, <3>3 DEF GossipInv, ToldKnows, Current, Listed
    <3>5. known[y][g] # Absent => known'[y][g] # Absent
      BY <1>9, <1>10
    <3>6. InFlight(x, y, g) => known'[y][g] # Absent \/ InFlight(x, y, g)'
      <4> SUFFICES ASSUME InFlight(x, y, g) PROVE known'[y][g] # Absent \/ InFlight(x, y, g)'
        OBVIOUS
      <4>1. PICK i \in DOMAIN wire[x][y] : \E e \in wire[x][y][i].peers : e[1] = g
        BY DEF InFlight
      <4>2. CASE ~(x = m /\ y = n)
        BY <1>7, <4>1, <4>2 DEF InFlight
      <4>3. CASE x = m /\ y = n /\ i = 1
        <5>1. g \in Offered(n, msg)
          BY <1>2, <4>1, <4>3 DEF Offered
        <5> QED BY <1>10, <4>3, <5>1
      <4>4. CASE x = m /\ y = n /\ i # 1
        <5>1. DOMAIN q = 1..Len(q) /\ DOMAIN Tail(q) = 1..Len(Tail(q))
          BY <1>1, <1>2
        <5>2. i - 1 \in DOMAIN Tail(q) /\ Tail(q)[i - 1] = q[i]
          <6>1. i \in 1..Len(q) /\ i # 1
            BY <4>1, <4>4, <5>1
          <6>2. i - 1 \in 1..Len(Tail(q)) /\ (i - 1) + 1 = i
            BY <1>2, <6>1
          <6> QED BY <1>2, <5>1, <6>2
        <5>3. wire'[x][y] = Tail(q)
          BY <1>7, <4>4
        <5> QED BY <4>1, <4>4, <5>2, <5>3 DEF InFlight
      <4> QED BY <4>2, <4>3, <4>4
    <3> QED BY <3>4, <3>5, <3>6
  <2> QED BY <2>1, <2>2
<1> QED BY <1>12, <1>13, <1>14 DEF GossipInv

\* A list that is queued is the last on the wire, behind what was there.
LEMMA QueuedKeeps ==
  ASSUME GossipInv, NEW n \in Nodes, NEW m \in Nodes, Broadcast(n, m), Queued(n, m), conn[m][n] # "none"
  PROVE  GossipInv'
<1>0. PICK q : q = Append(wire[n][m], Update(n))
  OBVIOUS
<1>1. /\ wire' = [wire EXCEPT ![n][m] = q] /\ told' = [told EXCEPT ![n][m] = TRUE]
      /\ UNCHANGED <<conn, known, visits, lost>> /\ refused' = refused \ {<<n, m>>}
  BY <1>0 DEF Broadcast, Queued
<1>2. wire[n][m] \in Seq(Messages) /\ Update(n) \in Messages
  <2>1. GossipTypes
    BY DEF GossipInv
  <2>2. Update(n) \in Messages
    BY <2>1, ListingIs
  <2> QED BY <2>1, <2>2 DEF GossipTypes
<1>3. /\ q \in Seq(Messages) /\ Len(wire[n][m]) \in Nat
      /\ \A i \in 1..Len(wire[n][m]) : i \in 1..Len(q) /\ q[i] = wire[n][m][i]
      /\ Len(q) \in 1..Len(q) /\ q[Len(q)] = Update(n)
  BY <1>0, <1>2, AppendProperties
<1>4. /\ wire' \in [Nodes -> [Nodes -> Seq(Messages)]]
      /\ \A x, y \in Nodes : wire'[x][y] = IF x = n /\ y = m THEN q ELSE wire[x][y]
  BY <1>1, <1>3 DEF GossipInv, GossipTypes
<1>5. /\ told' \in [Nodes -> [Nodes -> BOOLEAN]]
      /\ \A x, y \in Nodes : told'[x][y] = IF x = n /\ y = m THEN TRUE ELSE told[x][y]
  BY <1>1 DEF GossipInv, GossipTypes
<1>6. GossipTypes'
  BY <1>1, <1>4, <1>5 DEF GossipInv, GossipTypes
<1>7. Greets'
  <2>1. conn[n][m] = "up"
    BY DEF Broadcast
  <2> QED BY <1>1, <1>4, <1>5, <2>1 DEF GossipInv, Greets
<1>8. ToldKnows'
  <2> SUFFICES ASSUME NEW x \in Nodes, NEW y \in Nodes, NEW g \in Guests,
                      Concerns(x, y, g)', g \in Trusts[x] \cap Trusts[y]
               PROVE  known[y][g] # Absent \/ InFlight(x, y, g)' \/ <<y, g>> \in lost
    BY <1>1 DEF ToldKnows, Current, Listed, Concerns
  <2>1. CASE x = n /\ y = m
    <3>1. known[n][g] # Absent
      BY <1>1, <2>1 DEF Concerns
    <3>2. PICK e \in Listing(n) : e[1] = g
      BY <2>1, <3>1, ListingIs DEF GossipInv, Listed
    <3>3. Update(n).peers = Listing(n)
      BY DEF Update
    <3>4. DOMAIN q = 1..Len(q)
      BY <1>3
    <3>5. PICK k : k = Len(q)
      OBVIOUS
    <3>6. wire'[x][y] = q /\ k \in DOMAIN q /\ q[k] = Update(n)
      BY <1>3, <1>4, <2>1, <3>4, <3>5
    <3> QED BY <3>2, <3>3, <3>6 DEF InFlight
  <2>2. CASE ~(x = n /\ y = m)
    <3>1. told[x][y] = told'[x][y] /\ wire'[x][y] = wire[x][y]
      BY <1>4, <1>5, <2>2
    <3>4. <<x, y>> \in refused => <<x, y>> \in refused'
      BY <1>1, <2>2
    <3>2. Concerns(x, y, g)
      BY <1>1, <3>1, <3>4 DEF Concerns
    <3>3. g \in Listed(y) \/ InFlight(x, y, g) \/ <<y, g>> \in lost
      BY <3>2 DEF Concerns, GossipInv, ToldKnows, Current, Listed
    <3> QED BY <3>1, <3>3 DEF Listed, InFlight
  <2> QED BY <2>1, <2>2
<1> QED BY <1>6, <1>7, <1>8 DEF GossipInv

\* A list that is empty, lost or refused leaves the wire as it is: there is nothing to tell, or nobody to tell it to,
\* or the connection is marked.
LEMMA UnsentKeeps ==
  ASSUME GossipInv, NEW n \in Nodes, NEW m \in Nodes, Broadcast(n, m), wire' = wire,
         refused \ {<<n, m>>} \subseteq refused', refused' \subseteq refused \cup {<<n, m>>},
         Listing(n) = {} \/ conn[m][n] = "none" \/ <<n, m>> \in refused'
  PROVE  GossipInv'
<1>1. told' = [told EXCEPT ![n][m] = TRUE] /\ UNCHANGED <<conn, known, visits, lost>> /\ conn[n][m] = "up"
  BY DEF Broadcast
<1>2. /\ told' \in [Nodes -> [Nodes -> BOOLEAN]]
      /\ \A x, y \in Nodes : told'[x][y] = IF x = n /\ y = m THEN TRUE ELSE told[x][y]
  BY <1>1 DEF GossipInv, GossipTypes
<1>3. GossipTypes' /\ Greets'
  BY <1>1, <1>2 DEF GossipInv, GossipTypes, Greets
<1>4. ToldKnows'
  <2> SUFFICES ASSUME NEW x \in Nodes, NEW y \in Nodes, NEW g \in Guests,
                      Concerns(x, y, g)', g \in Trusts[x] \cap Trusts[y]
               PROVE  known[y][g] # Absent \/ InFlight(x, y, g) \/ <<y, g>> \in lost
    BY <1>1 DEF ToldKnows, Current, Listed, Concerns, InFlight
  <2>1. ~(x = n /\ y = m)
    <3> SUFFICES ASSUME x = n, y = m PROVE FALSE
      OBVIOUS
    <3>1. known[n][g] # Absent /\ conn[m][n] # "none" /\ <<n, m>> \notin refused'
      BY <1>1 DEF Concerns
    <3>2. g \in Listed(n) \cap Trusts[n]
      BY <3>1 DEF Listed
    <3>3. \E e \in Listing(n) : e[1] = g
      BY <3>2, ListingIs DEF GossipInv
    <3> QED BY <3>1, <3>3
  <2>2. told[x][y] = told'[x][y] /\ (<<x, y>> \in refused => <<x, y>> \in refused')
    BY <1>2, <2>1
  <2>3. Concerns(x, y, g)
    BY <1>1, <2>2 DEF Concerns
  <2> QED BY <2>3 DEF Concerns, GossipInv, ToldKnows, Current, Listed
<1> QED BY <1>3, <1>4 DEF GossipInv

LEMMA BroadcastKeeps ==
  ASSUME GossipInv, NEW n \in Nodes, NEW m \in Nodes, Broadcast(n, m)
  PROVE  GossipInv'
<1>1. CASE Listing(n) = {} /\ UNCHANGED <<wire, refused>>
  BY <1>1, UnsentKeeps
<1>2. CASE Queued(n, m) /\ conn[m][n] = "none"
  <2>1. wire \in [Nodes -> [Nodes -> Seq(Messages)]]
    BY DEF GossipInv, GossipTypes
  <2>2. wire' = wire /\ refused' = refused \ {<<n, m>>}
    BY <1>2, <2>1 DEF Queued
  <2> QED BY <1>2, <2>2, UnsentKeeps
<1>3. CASE Queued(n, m) /\ conn[m][n] # "none"
  BY <1>3, QueuedKeeps
<1>4. CASE Refused(n, m)
  <2>1. wire' = wire /\ refused' = refused \cup {<<n, m>>}
    BY <1>4 DEF Refused
  <2> QED BY <2>1, UnsentKeeps
<1> QED BY <1>1, <1>2, <1>3, <1>4 DEF Broadcast

LEMMA GossipCutKeeps ==
  ASSUME GossipInv, NEW n \in Nodes, NEW m \in Nodes, Cut(n, m)
  PROVE  GossipInv'
<1>0. PICK q : q = IF conn[m][n] = "none" THEN <<>> ELSE wire[n][m]
  OBVIOUS
<1>1. /\ conn' = [conn EXCEPT ![n][m] = "none"]
      /\ wire' = [wire EXCEPT ![m][n] = <<>>, ![n][m] = q] /\ <<>> \in Seq(Messages)
      /\ UNCHANGED <<told, refused, known, visits, lost>> /\ GossipTypes
  BY <1>0 DEF Cut, GossipInv
<1>2. /\ conn' \in [Nodes -> [Nodes -> {"none", "hello", "up"}]]
      /\ \A x, y \in Nodes : conn'[x][y] = IF x = n /\ y = m THEN "none" ELSE conn[x][y]
  BY <1>1 DEF GossipTypes
<1>3. /\ wire' \in [Nodes -> [Nodes -> Seq(Messages)]]
      /\ \A x, y \in Nodes :
           wire'[x][y] = IF x = n /\ y = m THEN q ELSE IF x = m /\ y = n THEN <<>> ELSE wire[x][y]
  <2>1. PICK V, v : V = Seq(Messages) /\ v = <<>>
    OBVIOUS
  <2>2. wire \in [Nodes -> [Nodes -> V]] /\ v \in V /\ q \in V /\ wire' = [wire EXCEPT ![m][n] = v, ![n][m] = q]
    BY <1>0, <1>1, <2>1 DEF GossipTypes
  <2>3. n \in Nodes /\ m \in Nodes
    OBVIOUS
  <2>4. /\ wire' \in [Nodes -> [Nodes -> V]]
        /\ \A x, y \in Nodes : wire'[x][y] = IF x = n /\ y = m THEN q ELSE IF x = m /\ y = n THEN v ELSE wire[x][y]
    BY ONLY <2>2, <2>3, Put2
  <2> QED BY ONLY <2>1, <2>4
<1>4. GossipTypes'
  BY <1>1, <1>2, <1>3 DEF GossipTypes
<1>5. Greets'
  <2> SUFFICES ASSUME NEW x \in Nodes, NEW y \in Nodes
               PROVE  /\ wire'[x][y] # <<>> => conn'[y][x] # "none"
                      /\ conn'[x][y] = "hello" => ~told'[x][y]
    BY DEF Greets
  <2>1. /\ wire[x][y] # <<>> => conn[y][x] # "none"
        /\ conn[x][y] = "hello" => ~told[x][y]
    BY DEF GossipInv, Greets
  <2>3. wire'[x][y] # <<>> => conn'[y][x] # "none"
    <3>1. CASE x = n /\ y = m
      <4>1. n # m
        BY <1>1 DEF Cut, GossipTypes
      <4> QED BY <1>0, <1>2, <1>3, <2>1, <3>1, <4>1
    <3>2. CASE x = m /\ y = n /\ ~(x = n /\ y = m)
      BY <1>3, <3>2
    <3>3. CASE ~(x = m /\ y = n) /\ ~(x = n /\ y = m)
      BY <1>2, <1>3, <2>1, <3>3
    <3> QED BY <3>1, <3>2, <3>3
  <2> QED BY <1>1, <1>2, <2>1, <2>3
<1>6. ToldKnows'
  <2>1. ASSUME NEW x \in Nodes, NEW y \in Nodes, NEW h \in Guests, Concerns(x, y, h)'
        PROVE  Concerns(x, y, h) /\ wire'[x][y] = wire[x][y]
    <3>1. ~(x = m /\ y = n) /\ ~(x = n /\ y = m)
      BY <1>2, <2>1 DEF Concerns
    <3>2. conn'[x][y] = conn[x][y] /\ conn'[y][x] = conn[y][x]
      BY <1>2, <3>1
    <3>3. wire'[x][y] = wire[x][y]
      BY <1>3, <3>1
    <3> QED BY <1>1, <2>1, <3>2, <3>3 DEF Concerns
  <2>2. ASSUME NEW y \in Nodes, NEW h \in Guests, known[y][h] # Absent PROVE known'[y][h] # Absent \/ <<y, h>> \in lost'
    BY <1>1, <2>2
  <2>3. lost \subseteq lost'
    BY <1>1
  <2> QED BY <2>1, <2>2, <2>3, StillTold
<1> QED BY <1>4, <1>5, <1>6 DEF GossipInv

\* One entry of one daemon is renewed: the others are told, or the news came over the LAN, or it was listed before.
LEMMA RenewKeeps ==
  ASSUME GossipInv, NEW n \in Nodes, NEW g \in Guests, NEW e \in Entries, e # Absent,
         known' = [known EXCEPT ![n][g] = e], UNCHANGED <<conn, wire, refused, visits, lost>>,
         told' \in [Nodes -> [Nodes -> BOOLEAN]], \A x, y \in Nodes : told'[x][y] => told[x][y],
         <<n, g>> \in Lan \/ known[n][g] # Absent \/ \A y \in Nodes : ~told'[n][y]
  PROVE  GossipInv'
<1>1. /\ known' \in [Nodes -> [Guests -> Entries]]
      /\ \A x \in Nodes, h \in Guests : known'[x][h] = IF x = n /\ h = g THEN e ELSE known[x][h]
  BY DEF GossipInv, GossipTypes
<1>2. GossipTypes' /\ Greets'
  BY <1>1 DEF GossipInv, GossipTypes, Greets
<1>3. ToldKnows'
  <2>1. ASSUME NEW x \in Nodes, NEW y \in Nodes, NEW h \in Guests, Concerns(x, y, h)'
        PROVE  Concerns(x, y, h) /\ wire'[x][y] = wire[x][y]
    BY <1>1, <2>1 DEF Concerns
  <2>2. ASSUME NEW y \in Nodes, NEW h \in Guests, known[y][h] # Absent PROVE known'[y][h] # Absent \/ <<y, h>> \in lost'
    BY <1>1, <2>2
  <2>3. lost \subseteq lost'
    BY <1>1
  <2> QED BY <2>1, <2>2, <2>3, StillTold
<1> QED BY <1>2, <1>3 DEF GossipInv

LEMMA PruneKeeps ==
  ASSUME GossipInv, NEW n \in Nodes, Prune(n)
  PROVE  GossipInv'
<1>1. /\ known' = [known EXCEPT ![n] = [g \in Guests |-> IF g \in Stale(n) THEN Absent ELSE known[n][g]]]
      /\ told' = [told EXCEPT ![n] = [m \in Nodes |-> FALSE]]
      /\ lost' = lost \cup ({n} \X Stale(n))
      /\ UNCHANGED <<conn, wire, refused, visits>> /\ Stale(n) \subseteq Guests
  BY DEF Prune, cxns, Stale, Listed
<1>2. /\ known' \in [Nodes -> [Guests -> Entries]]
      /\ \A x \in Nodes, g \in Guests : known'[x][g] = IF x = n /\ g \in Stale(n) THEN Absent ELSE known[x][g]
  BY <1>1 DEF GossipInv, GossipTypes, Entries
<1>3. /\ told' \in [Nodes -> [Nodes -> BOOLEAN]]
      /\ \A x, y \in Nodes : told'[x][y] = IF x = n THEN FALSE ELSE told[x][y]
  BY <1>1 DEF GossipInv, GossipTypes
<1>4. lost' \subseteq Nodes \X Guests /\ lost \subseteq lost' /\ \A g \in Stale(n) : <<n, g>> \in lost'
  BY <1>1 DEF GossipInv, GossipTypes
<1>5. GossipTypes' /\ Greets'
  BY <1>1, <1>2, <1>3, <1>4 DEF GossipInv, GossipTypes, Greets
<1>6. ToldKnows'
  <2>1. ASSUME NEW x \in Nodes, NEW y \in Nodes, NEW h \in Guests, Concerns(x, y, h)'
        PROVE  Concerns(x, y, h) /\ wire'[x][y] = wire[x][y]
    <3>1. known[x][h] # Absent
      BY <1>1, <1>2, <2>1 DEF Concerns
    <3>2. told[x][y] /\ UNCHANGED <<conn, wire, refused>>
      BY <1>1, <1>3, <2>1 DEF Concerns
    <3> QED BY <2>1, <3>1, <3>2 DEF Concerns
  <2>2. ASSUME NEW y \in Nodes, NEW h \in Guests, known[y][h] # Absent PROVE known'[y][h] # Absent \/ <<y, h>> \in lost'
    BY <1>1, <1>2, <1>3, <1>4, <2>2
  <2>3. lost \subseteq lost'
    BY <1>1, <1>2, <1>3, <1>4
  <2> QED BY <2>1, <2>2, <2>3, StillTold
<1> QED BY <1>5, <1>6 DEF GossipInv

LEMMA GossipKeeps ==
  ASSUME GossipInv, [Next]_vars
  PROVE  GossipInv'
<1>1. ASSUME NEW n \in Nodes, NEW g \in Guests, Vouch(n, g) PROVE GossipInv'
  <2> DEFINE e == [at |-> "listen", fresh |-> TRUE]
  <2>1. e \in Entries /\ e # Absent
    BY DEF Entries, Addrs, Absent
  <2>2. told' \in [Nodes -> [Nodes -> BOOLEAN]] /\ \A x, y \in Nodes : told'[x][y] = IF x = n THEN FALSE ELSE told[x][y]
    BY <1>1 DEF Vouch, GossipInv, GossipTypes
  <2>3. known' = [known EXCEPT ![n][g] = e] /\ UNCHANGED <<conn, wire, refused, visits, lost>>
    BY <1>1 DEF Vouch, cxns
  <2> HIDE DEF e
  <2> QED BY <2>1, <2>2, <2>3, RenewKeeps
<1>2. ASSUME NEW n \in Nodes, NEW g \in Guests, Announce(n, g) PROVE GossipInv'
  <2> DEFINE e == [at |-> "listen", fresh |-> TRUE]
  <2>1. e \in Entries /\ e # Absent
    BY DEF Entries, Addrs, Absent
  <2>2. told' \in [Nodes -> [Nodes -> BOOLEAN]] /\ told' = told /\ <<n, g>> \in Lan
    BY <1>2 DEF Announce, GossipInv, GossipTypes
  <2>3. known' = [known EXCEPT ![n][g] = e] /\ UNCHANGED <<conn, wire, refused, visits, lost>>
    BY <1>2 DEF Announce, cxns
  <2> HIDE DEF e
  <2> QED BY <2>1, <2>2, <2>3, RenewKeeps
<1>3. ASSUME NEW n \in Nodes, NEW g \in Guests, Age(n, g) PROVE GossipInv'
  <2> DEFINE e == [known[n][g] EXCEPT !.fresh = FALSE]
  <2>1. known[n][g] \in Entries /\ known[n][g].fresh
    BY <1>3 DEF Age, GossipInv, GossipTypes
  <2>2. e \in Entries /\ e # Absent /\ known[n][g] # Absent
    <3>1. known[n][g] # Absent
      BY <2>1 DEF Absent
    <3>2. known[n][g] \in [at : Addrs, fresh : BOOLEAN]
      BY <2>1, <3>1 DEF Entries
    <3>3. e \in [at : Addrs, fresh : BOOLEAN]
      BY <3>2
    <3> HIDE DEF e
    <3>4. e # Absent
      BY <3>3 DEF Addrs, Absent
    <3> QED BY <3>1, <3>3, <3>4 DEF Entries
  <2>3. told' \in [Nodes -> [Nodes -> BOOLEAN]] /\ told' = told
    BY <1>3 DEF Age, GossipInv, GossipTypes
  <2>4. known' = [known EXCEPT ![n][g] = e] /\ UNCHANGED <<conn, wire, refused, visits, lost>>
    BY <1>3 DEF Age, cxns
  <2> HIDE DEF e
  <2> QED BY <2>2, <2>3, <2>4, RenewKeeps
<1>4. ASSUME UNCHANGED <<conn, told, wire, refused, known, lost>>, visits' \in [Nodes -> SUBSET Guests] PROVE GossipInv'
  <2>1. GossipTypes' /\ Greets'
    BY <1>4 DEF GossipInv, GossipTypes, Greets
  <2>2. ToldKnows'
    <3>1. \A x, y \in Nodes, g \in Guests : Concerns(x, y, g)' => Concerns(x, y, g)
      BY <1>4 DEF Concerns
    <3> QED BY <1>4, <3>1, StillTold
  <2> QED BY <2>1, <2>2 DEF GossipInv
<1>5. ASSUME NEW n \in Nodes, NEW g \in Guests, Visit(n, g) PROVE GossipInv'
  <2>1. UNCHANGED <<conn, told, wire, refused, known, lost>> /\ visits' \in [Nodes -> SUBSET Guests]
    BY <1>5 DEF Visit, cxns, GossipInv, GossipTypes
  <2> QED BY <1>4, <2>1
<1>7. CASE UNCHANGED vars
  <2>1. UNCHANGED <<conn, told, wire, refused, known, lost>> /\ visits' \in [Nodes -> SUBSET Guests]
    BY <1>7 DEF vars, GossipInv, GossipTypes
  <2> QED BY <1>4, <2>1
<1> QED BY <1>1, <1>2, <1>3, <1>5, <1>7, ConnectKeeps, ReceiveKeeps, BroadcastKeeps, GossipCutKeeps, PruneKeeps DEF Next

\* Whatever the daemons, guests and their topology, connections that break at either end first, queues of any length and
\* entries that are pruned: whoever a daemon lists and has nothing new to say about is known to its neighbour, or on the
\* way to it, or was pruned there, but on a connection whose queue refused the last list (ToldKnows).
THEOREM ToldCorrect == LinkSpec => []ToldKnows
<1>1. LinkInit => GossipInv
  <2> SUFFICES ASSUME Init PROVE GossipInv
    BY DEF LinkInit
  <2>1. <<>> \in Seq(Messages) /\ Absent \in Entries /\ {} \in SUBSET Guests
    BY DEF Entries
  <2>2. GossipTypes
    BY <2>1 DEF Init, GossipTypes
  <2> QED BY <2>2 DEF Init, GossipInv, Greets, ToldKnows, Current
<1>2. GossipInv /\ [LinkNext]_<<traffic, vars, terminalVars>> => GossipInv'
  BY GossipKeeps DEF LinkNext
<1>3. GossipInv => ToldKnows
  BY DEF GossipInv
<1> QED BY <1>1, <1>2, <1>3, PTL DEF LinkSpec

-----------------------------------------------------------------------------
(* The terminal: what a connection goes through in a Tick. *)

Swept(k) == IF k.open THEN T!Flushed(k) ELSE k
Hears(k) == IF T!Unread # {} /\ T!Target(k) THEN T!Output(k, [k |-> "out", of |-> T!Unread]) ELSE k
Ends(k) == IF ~shell.up /\ T!Target(k) THEN T!Control(k, [k |-> "died"]) ELSE k
Moved(k) == IF k.open THEN T!Promoted(k) ELSE k
Ticked(k) == Moved(IF sess = "live" THEN Ends(Hears(Swept(k))) ELSE Swept(k))

LEMMA TickIs ==
  ASSUME T!Tick
  PROVE  links' = [l \in DOMAIN links |-> Ticked(links[l])]
<1> DEFINE swept == [l \in DOMAIN links |-> Swept(links[l])]
           read == IF T!Unread = {} THEN swept ELSE T!FanOut(T!Output, [k |-> "out", of |-> T!Unread], swept)
           polls == IF shell.up THEN read ELSE T!FanOut(T!Control, [k |-> "died"], read)
           all == IF sess = "live" THEN polls ELSE swept
<1>1. T!Every(T!Flushed, links) = swept
  BY DEF T!Every, Swept
<1>2. T!Polled(swept) = polls
  BY DEF T!Polled
<1>3. links' = T!Every(T!Promoted, all)
  BY <1>1, <1>2 DEF T!Tick
<1>4. read = [l \in DOMAIN links |-> Hears(Swept(links[l]))]
  BY DEF T!FanOut, Hears
<1>5. polls = [l \in DOMAIN links |-> Ends(Hears(Swept(links[l])))]
  <2> HIDE DEF read
  <2>1. DOMAIN read = DOMAIN links /\ \A l \in DOMAIN links : read[l] = Hears(Swept(links[l]))
    BY <1>4
  <2>2. CASE shell.up
    BY <1>4, <2>2 DEF Ends
  <2>3. CASE ~shell.up
    <3>1. polls = [l \in DOMAIN read |-> IF T!Target(read[l]) THEN T!Control(read[l], [k |-> "died"]) ELSE read[l]]
      BY <2>3 DEF T!FanOut
    <3> QED BY <2>1, <2>3, <3>1 DEF Ends
  <2> QED BY <2>2, <2>3
<1> HIDE DEF swept, polls
<1>6. all = [l \in DOMAIN links |-> IF sess = "live" THEN Ends(Hears(Swept(links[l]))) ELSE Swept(links[l])]
  BY <1>5 DEF swept
<1> HIDE DEF all
<1>7. links' = [l \in DOMAIN all |-> Moved(all[l])]
  BY <1>3 DEF T!Every, Moved
<1> QED BY <1>6, <1>7 DEF Ticked

-----------------------------------------------------------------------------
(* Queues, by what they hold. *)

Held(q) == {q[i] : i \in 1..Len(q)}

LEMMA HeldJoin ==
  ASSUME NEW S, NEW p \in Seq(S), NEW q \in Seq(S)
  PROVE  /\ p \o q \in Seq(S) /\ Len(p \o q) = Len(p) + Len(q) /\ Len(p) \in Nat /\ Len(q) \in Nat
         /\ \A i \in 1..Len(p) : (p \o q)[i] = p[i]
         /\ \A i \in 1..Len(q) : (p \o q)[Len(p) + i] = q[i]
         /\ Held(p \o q) = Held(p) \cup Held(q)
<1>1. p \o q \in Seq(S) /\ Len(p \o q) = Len(p) + Len(q) /\ Len(p) \in Nat /\ Len(q) \in Nat
  BY ConcatProperties
<1>2. ASSUME NEW i \in 1..Len(p) PROVE (p \o q)[i] = p[i] /\ i \in 1..Len(p \o q)
  BY <1>1, ConcatProperties
<1>3. ASSUME NEW i \in 1..Len(q) PROVE (p \o q)[Len(p) + i] = q[i] /\ Len(p) + i \in 1..Len(p \o q)
  <2>1. Len(p) + i \in 1..Len(p) + Len(q) /\ ~(Len(p) + i <= Len(p)) /\ Len(p) + i - Len(p) = i
    BY <1>1
  <2> QED BY <1>1, <2>1, ConcatProperties
<1>4. ASSUME NEW i \in 1..Len(p \o q) PROVE i \in 1..Len(p) \/ \E j \in 1..Len(q) : i = Len(p) + j
  <2>1. CASE i <= Len(p)
    BY <1>1, <2>1
  <2>2. CASE ~(i <= Len(p))
    <3>1. i - Len(p) \in 1..Len(q) /\ i = Len(p) + (i - Len(p))
      BY <1>1, <2>2
    <3> QED BY <3>1
  <2> QED BY <2>1, <2>2
<1>5. Held(p \o q) = Held(p) \cup Held(q)
  <2>1. Held(p) \cup Held(q) \subseteq Held(p \o q)
    BY <1>2, <1>3 DEF Held
  <2>2. ASSUME NEW x \in Held(p \o q) PROVE x \in Held(p) \cup Held(q)
    <3>1. PICK i \in 1..Len(p \o q) : x = (p \o q)[i]
      BY DEF Held
    <3>2. CASE i \in 1..Len(p)
      BY <1>2, <3>1, <3>2 DEF Held
    <3>3. CASE \E j \in 1..Len(q) : i = Len(p) + j
      BY <1>3, <3>1, <3>3 DEF Held
    <3> QED BY <1>4, <3>2, <3>3
  <2> QED BY <2>1, <2>2
<1> QED BY <1>1, <1>2, <1>3, <1>5

\* The first n of a queue, and the rest.
LEMMA HeldHalves ==
  ASSUME NEW S, NEW q \in Seq(S), NEW n \in 0..Len(q)
  PROVE  LET p == SubSeq(q, 1, n)
             r == SubSeq(q, n + 1, Len(q))
         IN /\ p \in Seq(S) /\ r \in Seq(S) /\ Len(p) = n /\ Len(r) = Len(q) - n
            /\ \A i \in 1..n : p[i] = q[i]
            /\ \A i \in 1..Len(q) - n : r[i] = q[n + i]
            /\ Held(q) = Held(p) \cup Held(r)
<1> DEFINE p == SubSeq(q, 1, n)
           r == SubSeq(q, n + 1, Len(q))
<1>0. Len(q) \in Nat /\ n \in Nat /\ \A i \in 1..Len(q) : q[i] \in S
  OBVIOUS
<1>1. p \in Seq(S) /\ Len(p) = n /\ \A i \in 1..n : p[i] = q[i]
  <2>1. \A i \in 1..n : q[i] \in S
    BY <1>0
  <2> QED BY <1>0, <2>1, SubSeqProperties
<1>2. r \in Seq(S) /\ Len(r) = Len(q) - n /\ \A i \in 1..Len(q) - n : r[i] = q[n + i]
  <2>1. \A i \in n + 1..Len(q) : q[i] \in S
    BY <1>0
  <2> QED BY <1>0, <2>1, SubSeqProperties
<1> HIDE DEF p, r
<1>3. Held(p) \cup Held(r) \subseteq Held(q)
  <2>1. \A i \in 1..Len(p) : i \in 1..Len(q) /\ p[i] = q[i]
    BY <1>0, <1>1
  <2>2. \A i \in 1..Len(r) : n + i \in 1..Len(q) /\ r[i] = q[n + i]
    BY <1>0, <1>2
  <2> QED BY <2>1, <2>2 DEF Held
<1>4. ASSUME NEW x \in Held(q) PROVE x \in Held(p) \cup Held(r)
  <2>1. PICK i \in 1..Len(q) : x = q[i]
    BY DEF Held
  <2>2. CASE i <= n
    <3>1. i \in 1..Len(p) /\ p[i] = x
      BY <1>0, <1>1, <2>1, <2>2
    <3> QED BY <3>1 DEF Held
  <2>3. CASE ~(i <= n)
    <3>1. i - n \in 1..Len(r) /\ n + (i - n) = i
      BY <1>0, <1>2, <2>3
    <3>2. r[i - n] = x
      BY <1>2, <2>1, <3>1
    <3> QED BY <3>1, <3>2 DEF Held
  <2> QED BY <2>2, <2>3
<1>5. Held(q) = Held(p) \cup Held(r)
  BY <1>3, <1>4
<1> QED BY <1>1, <1>2, <1>5 DEF p, r

LEMMA HeldTail ==
  ASSUME NEW S, NEW q \in Seq(S), q # <<>>
  PROVE  /\ Head(q) \in S /\ Tail(q) \in Seq(S) /\ Len(q) \in Nat /\ Len(q) > 0 /\ Len(Tail(q)) = Len(q) - 1
         /\ \A i \in 1..Len(Tail(q)) : Tail(q)[i] = q[i + 1]
         /\ Head(q) = q[1] /\ Held(q) = {Head(q)} \cup Held(Tail(q))
<1>1. /\ Head(q) \in S /\ Tail(q) \in Seq(S) /\ Len(Tail(q)) = Len(q) - 1 /\ Len(q) \in Nat /\ Len(q) > 0
      /\ \A i \in 1..Len(Tail(q)) : Tail(q)[i] = q[i + 1]
      /\ Head(q) = q[1]
  BY HeadTailProperties, EmptySeq
<1>2. {Head(q)} \cup Held(Tail(q)) \subseteq Held(q)
  <2>1. \A i \in 1..Len(Tail(q)) : i + 1 \in 1..Len(q) /\ Tail(q)[i] = q[i + 1]
    BY <1>1
  <2>2. 1 \in 1..Len(q)
    BY <1>1
  <2> QED BY <1>1, <2>1, <2>2 DEF Held
<1>3. ASSUME NEW x \in Held(q) PROVE x \in {Head(q)} \cup Held(Tail(q))
  <2>1. PICK i \in 1..Len(q) : x = q[i]
    BY DEF Held
  <2>2. CASE i = 1
    BY <1>1, <2>1, <2>2
  <2>3. CASE i # 1
    <3>1. i - 1 \in 1..Len(Tail(q)) /\ (i - 1) + 1 = i
      BY <1>1, <2>3
    <3>2. Tail(q)[i - 1] = x
      BY <1>1, <2>1, <3>1
    <3> QED BY <3>1, <3>2 DEF Held
  <2> QED BY <2>2, <2>3
<1> QED BY <1>1, <1>2, <1>3

LEMMA HeldAppend ==
  ASSUME NEW S, NEW q \in Seq(S), NEW x \in S
  PROVE  /\ Append(q, x) \in Seq(S) /\ Len(Append(q, x)) = Len(q) + 1 /\ Len(q) \in Nat
         /\ \A i \in 1..Len(q) : Append(q, x)[i] = q[i]
         /\ Append(q, x)[Len(q) + 1] = x
         /\ Held(Append(q, x)) = Held(q) \cup {x}
<1>1. /\ Append(q, x) \in Seq(S) /\ Len(Append(q, x)) = Len(q) + 1 /\ Len(q) \in Nat
      /\ \A i \in 1..Len(q) : Append(q, x)[i] = q[i]
      /\ Append(q, x)[Len(q) + 1] = x
  BY AppendProperties
<1>2. \A i \in 1..Len(q) + 1 : i \in 1..Len(q) \/ i = Len(q) + 1
  BY <1>1
<1>3. \A i \in 1..Len(q) : i \in 1..Len(q) + 1
  BY <1>1
<1>4. Len(q) + 1 \in 1..Len(q) + 1
  BY <1>1
<1>5. Held(Append(q, x)) = Held(q) \cup {x}
  BY <1>1, <1>2, <1>3, <1>4 DEF Held
<1> QED BY <1>1, <1>5

LEMMA HeldEmpty == Held(<<>>) = {}
BY DEF Held

LEMMA HeldOne ==
  ASSUME NEW S, NEW x \in S
  PROVE  <<x>> \in Seq(S) /\ Len(<<x>>) = 1 /\ <<x>>[1] = x /\ Held(<<x>>) = {x}
<1>1. <<x>> \in Seq(S) /\ Len(<<x>>) = 1 /\ <<x>>[1] = x
  OBVIOUS
<1> QED BY <1>1 DEF Held

LEMMA MinIs ==
  ASSUME NEW free \in Nat, NEW size \in Nat
  PROVE  LET n == IF free < size THEN free ELSE size IN n \in 0..size /\ n <= free
OBVIOUS

LEMMA RoomIs ==
  ASSUME NEW w \in Nat, NEW held \in 0..w, NEW t \in Nat, NEW queued \in Nat, queued < t
  PROVE  w - held + t - queued \in Nat
OBVIOUS

-----------------------------------------------------------------------------
(* The frames on their way to a client: what no step of the daemon takes back. *)

Strokes == Clients \X Nat
Requests == [k : {"attach"}, cmd : BOOLEAN, again : BOOLEAN] \cup [k : {"keys"}, ks : Seq(Strokes)] \cup [k : {"detach"}]
Answers == [k : {"ack", "gap", "died"}] \cup [k : {"out", "scroll"}, of : SUBSET Nat]
LinkRecs ==
  [owner : Clients, open : BOOLEAN, cut : BOOLEAN, inbox : Seq(Requests), at : BOOLEAN, tx : Seq(Answers),
   wire : Seq(Answers), outq : Seq(Answers), gap : BOOLEAN, lost : BOOLEAN, shown : SUBSET Nat, warned : BOOLEAN]
Sound(k) == k \in LinkRecs /\ Len(k.wire) <= WireMax

Sent(k) == Held(k.tx) \cup Held(k.wire)
Warned(k) == k.warned \/ k.gap \/ \E f \in Sent(k) : f.k = "gap"

Same(k, h) ==
  /\ h.owner = k.owner /\ h.open = k.open /\ h.cut = k.cut /\ h.inbox = k.inbox /\ h.at = k.at
  /\ h.shown = k.shown /\ h.warned = k.warned

\* h is what became of k.
Flows(k, h) ==
  /\ Sound(h) /\ Same(k, h)
  /\ ~k.cut =>
       /\ Sent(k) \subseteq Sent(h)
       /\ k.lost => h.lost
       /\ k.gap => Warned(h)
       /\ Held(k.outq) \subseteq Sent(h) \cup Held(h.outq) \/ Warned(h)

LEMMA WarnedStays ==
  ASSUME NEW k, NEW h, Flows(k, h), ~k.cut, Warned(k)
  PROVE  Warned(h)
BY DEF Flows, Same, Warned

LEMMA FlowsOn ==
  ASSUME NEW k, NEW h, NEW j, Flows(k, h), Flows(h, j)
  PROVE  Flows(k, j)
<1>1. Sound(j) /\ Same(k, j)
  BY DEF Flows, Same
<1>2. ASSUME ~k.cut
      PROVE  /\ Sent(k) \subseteq Sent(j)
             /\ k.lost => j.lost
             /\ k.gap => Warned(j)
             /\ Held(k.outq) \subseteq Sent(j) \cup Held(j.outq) \/ Warned(j)
  <2>1. ~h.cut
    BY <1>2 DEF Flows, Same
  <2>2. /\ Sent(k) \subseteq Sent(h) /\ (k.lost => h.lost) /\ (k.gap => Warned(h))
        /\ Held(k.outq) \subseteq Sent(h) \cup Held(h.outq) \/ Warned(h)
    BY <1>2 DEF Flows
  <2>3. /\ Sent(h) \subseteq Sent(j) /\ (h.lost => j.lost)
        /\ Held(h.outq) \subseteq Sent(j) \cup Held(j.outq) \/ Warned(j)
    BY <2>1 DEF Flows
  <2>4. Warned(h) => Warned(j)
    BY <2>1, WarnedStays
  <2> QED BY <2>2, <2>3, <2>4
<1> QED BY <1>1, <1>2 DEF Flows

LEMMA FlowsSelf ==
  ASSUME NEW k, Sound(k)
  PROVE  Flows(k, k)
BY DEF Flows, Same, Warned

\* What is written moves from the queue to the socket.
LEMMA FlushedFlows ==
  ASSUME NEW k, Sound(k)
  PROVE  LET h == T!Flushed(k) IN
         /\ Flows(k, h) /\ h.lost = k.lost /\ h.gap = k.gap /\ h.outq = k.outq
         /\ ~k.cut => Sent(h) = Sent(k)
<1> DEFINE n == IF WireMax - Len(k.wire) < Len(k.tx) THEN WireMax - Len(k.wire) ELSE Len(k.tx)
           p == SubSeq(k.tx, 1, n)
           r == SubSeq(k.tx, n + 1, Len(k.tx))
           w == k.wire \o p
           h == T!Flushed(k)
<1>0. /\ k \in LinkRecs /\ k.tx \in Seq(Answers) /\ k.wire \in Seq(Answers) /\ Len(k.wire) <= WireMax
      /\ Len(k.wire) \in Nat /\ Len(k.tx) \in Nat /\ WireMax \in Nat
  BY TerminalAssumption DEF Sound, LinkRecs
<1>1. CASE k.cut
  <2> DEFINE no == <<>>
  <2>1. h = [k EXCEPT !.tx = no] /\ no \in Seq(Answers)
    BY <1>1 DEF T!Flushed
  <2> HIDE DEF no
  <2>2. h \in LinkRecs /\ h.wire = k.wire /\ h.lost = k.lost /\ h.gap = k.gap /\ h.outq = k.outq /\ Same(k, h)
    BY <1>0, <2>1 DEF LinkRecs, Same
  <2> QED BY <1>0, <1>1, <2>2 DEF Flows, Sound
<1>2. CASE ~k.cut
  <2>1. WireMax - Len(k.wire) \in Nat
    BY <1>0
  <2>2. n \in 0..Len(k.tx) /\ n <= WireMax - Len(k.wire)
    BY ONLY <1>0, <2>1, MinIs
  <2>3. h = [k EXCEPT !.wire = w, !.tx = r]
    BY <1>2 DEF T!Flushed
  <2> HIDE DEF n
  <2>4. p \in Seq(Answers) /\ r \in Seq(Answers) /\ Len(p) = n /\ Held(k.tx) = Held(p) \cup Held(r)
    BY <1>0, <2>2, HeldHalves
  <2> HIDE DEF p, r
  <2>a. k.wire \in Seq(Answers)
    BY <1>0
  <2>b. p \in Seq(Answers)
    BY <2>4
  <2>5. w \in Seq(Answers) /\ Len(w) = Len(k.wire) + Len(p) /\ Held(w) = Held(k.wire) \cup Held(p)
    BY ONLY <2>a, <2>b, HeldJoin
  <2>6. Len(w) <= WireMax
    BY <1>0, <2>2, <2>4, <2>5
  <2> HIDE DEF w, h
  <2>7. h \in LinkRecs /\ h.wire = w /\ h.tx = r /\ h.lost = k.lost /\ h.gap = k.gap /\ h.outq = k.outq /\ Same(k, h)
    BY <1>0, <2>3, <2>4, <2>5 DEF LinkRecs, Same
  <2>8. Sent(h) = Sent(k)
    BY <2>4, <2>5, <2>7 DEF Sent
  <2>9. Sound(h)
    BY <2>6, <2>7 DEF Sound
  <2>10. k.gap => Warned(h)
    BY <2>7 DEF Warned
  <2>11. Flows(k, h)
    BY <2>7, <2>8, <2>9, <2>10 DEF Flows
  <2> QED BY <2>7, <2>8, <2>11 DEF h
<1> QED BY <1>1, <1>2

LEMMA EnqueuedFlows ==
  ASSUME NEW k, Sound(k), NEW f \in Answers
  PROVE  LET h == T!Enqueued(k, f) IN
         Flows(k, h) /\ h.lost = k.lost /\ h.gap = k.gap /\ h.outq = k.outq /\ (~k.cut => f \in Sent(h))
<1> DEFINE t == Append(k.tx, f)
           x == [k EXCEPT !.tx = t]
<1>1. k \in LinkRecs /\ k.tx \in Seq(Answers)
  BY DEF Sound, LinkRecs
<1>2. t \in Seq(Answers) /\ Held(t) = Held(k.tx) \cup {f}
  BY <1>1, HeldAppend
<1>3. T!Enqueued(k, f) = T!Flushed(x)
  BY DEF T!Enqueued
<1> HIDE DEF t
<1>4. /\ x \in LinkRecs /\ x.tx = t /\ x.wire = k.wire /\ x.lost = k.lost /\ x.gap = k.gap /\ x.outq = k.outq /\ Same(k, x)
  BY <1>1, <1>2 DEF LinkRecs, Same
<1> HIDE DEF x
<1>5. Sound(x) /\ Sent(x) = Sent(k) \cup {f}
  BY <1>2, <1>4 DEF Sound, Sent
<1>6. k.gap => Warned(x)
  BY <1>4 DEF Warned
<1>7. Flows(k, x)
  BY <1>4, <1>5, <1>6 DEF Flows
<1>8. /\ Flows(x, T!Flushed(x)) /\ T!Flushed(x).lost = x.lost /\ T!Flushed(x).gap = x.gap /\ T!Flushed(x).outq = x.outq
      /\ ~x.cut => Sent(T!Flushed(x)) = Sent(x)
  BY <1>5, FlushedFlows
<1>9. Flows(k, T!Flushed(x))
  BY <1>7, <1>8, FlowsOn
<1>10. x.cut = k.cut
  BY <1>4 DEF Same
<1> QED BY <1>3, <1>4, <1>5, <1>8, <1>9, <1>10

LEMMA OutputFlows ==
  ASSUME NEW k, Sound(k), NEW f \in Answers
  PROVE  LET h == T!Output(k, f) IN Flows(k, h) /\ (~k.cut => f \in Sent(h) \cup Held(h.outq) \/ Warned(h))
<1> DEFINE h == T!Output(k, f)
<1>0. k \in LinkRecs /\ k.outq \in Seq(Answers) /\ OutMax > 0 /\ OutMax \in Nat
  BY TerminalAssumption DEF Sound, LinkRecs
<1>1. CASE T!HasRoom(k)
  <2>1. h = T!Enqueued(k, f)
    BY <1>1 DEF T!Output
  <2> QED BY <2>1, EnqueuedFlows
<1>2. CASE ~T!HasRoom(k) /\ Len(k.outq) >= OutMax
  <2> DEFINE q == Append(Tail(k.outq), f)
  <2>1. k.outq # <<>>
    BY <1>0, <1>2
  <2>2. Tail(k.outq) \in Seq(Answers)
    BY <1>0, <2>1, HeldTail
  <2>3. q \in Seq(Answers)
    BY <2>2, HeldAppend
  <2>4. h = [k EXCEPT !.outq = q, !.gap = TRUE]
    BY <1>2 DEF T!Output
  <2> HIDE DEF q, h
  <2>5. h \in LinkRecs /\ h.wire = k.wire /\ h.tx = k.tx /\ h.lost = k.lost /\ h.gap /\ Same(k, h)
    BY <1>0, <2>3, <2>4 DEF LinkRecs, Same
  <2>6. Sound(h) /\ Sent(h) = Sent(k) /\ Warned(h)
    BY <2>5 DEF Sound, Sent, Warned
  <2> QED BY <2>5, <2>6 DEF Flows, h
<1>3. CASE ~T!HasRoom(k) /\ ~(Len(k.outq) >= OutMax)
  <2> DEFINE q == Append(k.outq, f)
  <2>1. q \in Seq(Answers) /\ Held(q) = Held(k.outq) \cup {f}
    BY <1>0, HeldAppend
  <2>2. h = [k EXCEPT !.outq = q]
    BY <1>3 DEF T!Output
  <2> HIDE DEF q, h
  <2>3. h \in LinkRecs /\ h.wire = k.wire /\ h.tx = k.tx /\ h.outq = q /\ h.lost = k.lost /\ h.gap = k.gap /\ Same(k, h)
    BY <1>0, <2>1, <2>2 DEF LinkRecs, Same
  <2>4. Sound(h) /\ Sent(h) = Sent(k) /\ (k.gap => Warned(h))
    BY <2>3 DEF Sound, Sent, Warned
  <2> QED BY <2>1, <2>3, <2>4 DEF Flows, h
<1> QED BY <1>1, <1>2, <1>3

LEMMA ControlFlows ==
  ASSUME NEW k, Sound(k), NEW f \in Answers
  PROVE  LET h == T!Control(k, f) IN Flows(k, h) /\ (~k.cut => f \in Sent(h) \/ h.lost)
<1> DEFINE h == T!Control(k, f)
<1>1. CASE T!HasRoom(k)
  <2>1. h = T!Enqueued(k, f)
    BY <1>1 DEF T!Control
  <2> QED BY <2>1, EnqueuedFlows
<1>2. CASE ~T!HasRoom(k)
  <2>1. h = [k EXCEPT !.lost = TRUE]
    BY <1>2 DEF T!Control
  <2> HIDE DEF h
  <2>2. h \in LinkRecs /\ h.wire = k.wire /\ h.tx = k.tx /\ h.outq = k.outq /\ h.lost /\ h.gap = k.gap /\ Same(k, h)
    BY <2>1 DEF LinkRecs, Same, Sound
  <2>3. Sound(h) /\ Sent(h) = Sent(k) /\ (k.gap => Warned(h))
    BY <2>2 DEF Sound, Sent, Warned
  <2> QED BY <2>2, <2>3 DEF Flows, h
<1> QED BY <1>1, <1>2

LEMMA PromotedFlows ==
  ASSUME NEW k, Sound(k)
  PROVE  Flows(k, T!Promoted(k))
<1> DEFINE g == IF k.gap THEN <<[k |-> "gap"]>> ELSE <<>>
           waiting == g \o k.outq
           free == WireMax - Len(k.wire) + TxMax - Len(k.tx)
           n == IF ~T!HasRoom(k) THEN 0 ELSE IF free < Len(waiting) THEN free ELSE Len(waiting)
           p == SubSeq(waiting, 1, n)
           rest == SubSeq(waiting, n + 1, Len(waiting))
           t == k.tx \o p
           q == IF k.gap /\ n = 0 THEN Tail(rest) ELSE rest
           x == [k EXCEPT !.tx = t, !.gap = k.gap /\ n = 0, !.outq = q]
<1>0. /\ k \in LinkRecs /\ k.tx \in Seq(Answers) /\ k.outq \in Seq(Answers) /\ Len(k.wire) <= WireMax /\ Len(k.wire) \in Nat
      /\ Len(k.tx) \in Nat /\ WireMax \in Nat /\ TxMax \in Nat
  BY TerminalAssumption DEF Sound, LinkRecs
<1>1. T!Promoted(k) = T!Flushed(x)
  BY DEF T!Promoted
<1>2. g \in Seq(Answers) /\ Len(g) = (IF k.gap THEN 1 ELSE 0) /\ (k.gap => g[1] = [k |-> "gap"]) /\ (~k.gap => Held(g) = {})
  <2>1. [k |-> "gap"] \in Answers
    BY DEF Answers
  <2> QED BY <2>1, HeldEmpty
<1> HIDE DEF g
<1>3. /\ waiting \in Seq(Answers) /\ Len(waiting) = Len(g) + Len(k.outq) /\ Held(waiting) = Held(g) \cup Held(k.outq)
      /\ Len(waiting) \in Nat /\ Len(g) \in Nat /\ Len(k.outq) \in Nat /\ (k.gap => waiting[1] = [k |-> "gap"])
      /\ \A i \in 1..Len(k.outq) : waiting[Len(g) + i] = k.outq[i]
  <2>a. g \in Seq(Answers)
    BY <1>2
  <2>b. k.outq \in Seq(Answers)
    BY <1>0
  <2>1. /\ waiting \in Seq(Answers) /\ Len(waiting) = Len(g) + Len(k.outq) /\ Len(g) \in Nat /\ Len(k.outq) \in Nat
        /\ Held(waiting) = Held(g) \cup Held(k.outq)
        /\ \A i \in 1..Len(g) : waiting[i] = g[i]
        /\ \A i \in 1..Len(k.outq) : waiting[Len(g) + i] = k.outq[i]
    BY ONLY <2>a, <2>b, HeldJoin
  <2>2. k.gap => 1 \in 1..Len(g)
    BY <1>2
  <2>3. Len(waiting) \in Nat
    BY <2>1
  <2> QED BY <1>2, <2>1, <2>2, <2>3
<1> HIDE DEF waiting
<1>4. n \in 0..Len(waiting)
  <2>1. CASE ~T!HasRoom(k)
    BY <1>3, <2>1
  <2>2. CASE T!HasRoom(k)
    <3>1. Len(k.tx) < TxMax
      BY <2>2 DEF T!HasRoom
    <3>2. free \in Nat
      <4>1. Len(k.wire) \in 0..WireMax
        BY <1>0
      <4> QED BY ONLY <1>0, <3>1, <4>1, RoomIs
    <3> HIDE DEF free
    <3>3. n = IF free < Len(waiting) THEN free ELSE Len(waiting)
      BY <2>2
    <3> HIDE DEF n
    <3> QED BY <1>3, <3>2, <3>3
  <2> QED BY <2>1, <2>2
<1> HIDE DEF n
<1>5. /\ p \in Seq(Answers) /\ rest \in Seq(Answers) /\ Held(waiting) = Held(p) \cup Held(rest)
      /\ Len(p) = n /\ Len(rest) = Len(waiting) - n /\ n \in Nat
      /\ \A i \in 1..n : p[i] = waiting[i]
      /\ \A i \in 1..Len(waiting) - n : rest[i] = waiting[n + i]
  <2>1. waiting \in Seq(Answers)
    BY <1>3
  <2>2. n \in Nat
    BY <1>3, <1>4
  <2> QED BY ONLY <1>4, <2>1, <2>2, HeldHalves
<1> HIDE DEF p, rest
<1>6. t \in Seq(Answers) /\ Held(t) = Held(k.tx) \cup Held(p)
  BY <1>0, <1>5, HeldJoin
<1> HIDE DEF t
\* The announcement waits itself, and is not among the output then.
<1>7. CASE k.gap /\ n = 0
  <2>1. rest # <<>>
    <3>1. Len(rest) > 0
      BY <1>2, <1>3, <1>5, <1>7
    <3> QED BY <3>1
  <2>2. q = Tail(rest) /\ q \in Seq(Answers)
    BY <1>5, <1>7, <2>1, HeldTail
  <2> HIDE DEF q
  <2>3. x \in LinkRecs /\ x.tx = t /\ x.wire = k.wire /\ x.lost = k.lost /\ x.gap /\ Same(k, x)
    BY <1>0, <1>6, <1>7, <2>2 DEF LinkRecs, Same
  <2> HIDE DEF x
  <2>4. Sound(x) /\ Sent(k) \subseteq Sent(x) /\ Warned(x)
    BY <1>6, <2>3 DEF Sound, Sent, Warned
  <2>5. Flows(k, x)
    BY <2>3, <2>4 DEF Flows
  <2>6. Flows(x, T!Flushed(x))
    BY <2>4, FlushedFlows
  <2> QED BY <1>1, <2>5, <2>6, FlowsOn DEF x
<1>8. CASE ~(k.gap /\ n = 0)
  <2>1. q = rest
    BY <1>8
  <2> HIDE DEF q
  <2>2. x \in LinkRecs /\ x.tx = t /\ x.wire = k.wire /\ x.outq = rest /\ x.lost = k.lost /\ Same(k, x)
    BY <1>0, <1>5, <1>6, <1>8, <2>1 DEF LinkRecs, Same
  <2> HIDE DEF x
  <2>3. Sound(x) /\ Sent(x) = Sent(k) \cup Held(p)
    BY <1>6, <2>2 DEF Sound, Sent
  <2>4. k.gap => Warned(x)
    <3> SUFFICES ASSUME k.gap PROVE Warned(x)
      OBVIOUS
    <3>1. 1 \in 1..n
      BY <1>5, <1>8
    <3>2. p[1] = [k |-> "gap"] /\ p[1] \in Held(p)
      BY <1>3, <1>5, <3>1 DEF Held
    <3>3. p[1].k = "gap"
      BY <3>2
    <3> QED BY <2>3, <3>2, <3>3 DEF Warned
  <2>5. Held(k.outq) \subseteq Sent(x) \cup Held(x.outq)
    BY <1>3, <1>5, <2>2, <2>3
  <2>6. Flows(k, x)
    BY <2>2, <2>3, <2>4, <2>5 DEF Flows
  <2>7. Flows(x, T!Flushed(x))
    BY <2>3, FlushedFlows
  <2> QED BY <1>1, <2>6, <2>7, FlowsOn DEF x
<1> QED BY <1>7, <1>8

\* A Tick loses nothing; what it read is on its way to whoever is attached, or a gap is; so is the end of the session.
LEMMA TickedFlows ==
  ASSUME NEW k, Sound(k), T!Unread \in SUBSET Nat
  PROVE  LET h == Ticked(k) IN
         /\ Flows(k, h)
         /\ ~k.cut /\ T!Target(k) /\ sess = "live" =>
              /\ T!Unread # {} => [k |-> "out", of |-> T!Unread] \in Sent(h) \cup Held(h.outq) \/ Warned(h)
              /\ ~shell.up => [k |-> "died"] \in Sent(h) \/ h.lost
<1> DEFINE s == Swept(k)
           r == Hears(s)
           e == Ends(r)
           f == [k |-> "out", of |-> T!Unread]
           z == [k |-> "died"]
<1>0. f \in Answers /\ z \in Answers
  BY DEF Answers
<1> HIDE DEF f, z
<1>1. Flows(k, s)
  BY FlushedFlows, FlowsSelf DEF Swept
<1>2. Sound(s) /\ Same(k, s)
  BY <1>1 DEF Flows
<1> HIDE DEF s
<1>3. Flows(s, r) /\ (~s.cut /\ T!Target(s) /\ T!Unread # {} => f \in Sent(r) \cup Held(r.outq) \/ Warned(r))
  BY <1>0, <1>2, OutputFlows, FlowsSelf DEF Hears, f
<1>4. Sound(r) /\ Same(s, r)
  BY <1>3 DEF Flows
<1> HIDE DEF r
<1>5. Flows(r, e) /\ (~r.cut /\ T!Target(r) /\ ~shell.up => z \in Sent(e) \/ e.lost)
  BY <1>0, <1>4, ControlFlows, FlowsSelf DEF Ends, z
<1>6. Sound(e) /\ Same(r, e)
  BY <1>5 DEF Flows
<1> HIDE DEF e
<1>7. ASSUME NEW y, Sound(y) PROVE Flows(y, Moved(y))
  BY <1>7, PromotedFlows, FlowsSelf DEF Moved
<1>8. CASE sess # "live"
  <2>1. Ticked(k) = Moved(s)
    BY <1>8 DEF Ticked, s
  <2> QED BY <1>1, <1>2, <1>7, <1>8, <2>1, FlowsOn
<1>9. CASE sess = "live"
  <2>1. Ticked(k) = Moved(e)
    BY <1>9 DEF Ticked, s, r, e
  <2>2. Flows(e, Moved(e))
    BY <1>6, <1>7
  <2>3. Flows(r, Moved(e))
    BY <1>5, <2>2, FlowsOn
  <2>4. Flows(s, Moved(e))
    BY <1>3, <2>3, FlowsOn
  <2>5. Flows(k, Moved(e))
    BY <1>1, <2>4, FlowsOn
  <2>6. ASSUME ~k.cut, T!Target(k)
        PROVE  /\ T!Unread # {} => f \in Sent(Moved(e)) \cup Held(Moved(e).outq) \/ Warned(Moved(e))
               /\ ~shell.up => z \in Sent(Moved(e)) \/ Moved(e).lost
    <3>1. ~s.cut /\ T!Target(s) /\ ~r.cut /\ T!Target(r) /\ ~e.cut
      BY <1>2, <1>4, <1>6, <2>6 DEF Same, T!Target
    <3>2. Warned(r) => Warned(Moved(e))
      BY <2>3, <3>1, WarnedStays
    <3>3. /\ Sent(r) \subseteq Sent(Moved(e))
          /\ Held(r.outq) \subseteq Sent(Moved(e)) \cup Held(Moved(e).outq) \/ Warned(Moved(e))
      BY <2>3, <3>1 DEF Flows
    <3>4. Sent(e) \subseteq Sent(Moved(e)) /\ (e.lost => Moved(e).lost)
      BY <2>2, <3>1 DEF Flows
    <3> QED BY <1>3, <1>5, <3>1, <3>2, <3>3, <3>4
  <2> QED BY <1>9, <2>1, <2>5, <2>6 DEF f, z
<1> QED BY <1>8, <1>9

-----------------------------------------------------------------------------
(* The invariant of the terminal. *)

ClientRecs ==
  [at : {"away", "attached", "up", "left"}, link : Nat, typed : Nat, pending : Seq(Strokes), asked : BOOLEAN]

TermTypes ==
  /\ client \in [Clients -> ClientRecs]
  /\ links \in Seq(LinkRecs) /\ \A l \in 1..Len(links) : Sound(links[l])
  /\ shell \in [up : BOOLEAN, life : Nat, made : Nat, pty : Seq(Strokes), got : Seq(Strokes)]
  /\ Len(shell.pty) <= PtyRoom
  /\ sess \in {"none", "live", "died"}
  /\ input \in [pending : Seq(Strokes), full : BOOLEAN]
  /\ polled \in [n : Nat, ring : SUBSET Nat]
  /\ ran \in [Clients -> Nat]

\* Who is connected is so over the latest of its connections.
Wired ==
  \A x \in Clients :
    /\ client[x].at \in {"attached", "up"} => client[x].link \in 1..Len(links) /\ links[client[x].link].owner = x
    /\ \A l \in 1..Len(links) : links[l].owner = x => l <= client[x].link /\ client[x].asked

-----------------------------------------------------------------------------
(* What the clients are told. *)

Covers(k) ==
  1..polled.n \subseteq k.shown \cup UNION {T!Shows(f) : f \in Sent(k) \cup Held(k.outq)} \/ Warned(k)
Informed(k) ==
  T!Target(k) /\ ~k.cut => Covers(k) /\ (sess = "died" => k.lost \/ \E f \in Sent(k) : f.k = "died")

Tells ==
  /\ sess # "live" => ~shell.up /\ polled.n = shell.made
  /\ \A l \in 1..Len(links) : Informed(links[l])

-----------------------------------------------------------------------------
(* Commands. *)

AttachFirst(q) == \A i \in 1..Len(q) : q[i].k = "attach" => i = 1
Asks(q) == \E f \in Held(q) : f.k = "attach" /\ f.cmd

Once ==
  /\ \A x \in Clients : ran[x] <= 1 /\ (~client[x].asked => ran[x] = 0)
  /\ \A l \in 1..Len(links) : AttachFirst(links[l].inbox) /\ (Asks(links[l].inbox) => ran[links[l].owner] = 0)
  /\ \A l, m \in 1..Len(links) : Asks(links[l].inbox) /\ Asks(links[m].inbox) /\ links[l].owner = links[m].owner => l = m

-----------------------------------------------------------------------------
(* Keys: in the shells, on their way there, in the connections and with their clients. *)

Rising(q) == \A i, j \in 1..Len(q) : i < j /\ q[i][1] = q[j][1] => q[i][2] < q[j][2]
Below(S, V) == \A x \in S, y \in V : x[1] = y[1] => x[2] < y[2]

Of(f) == IF f.k = "keys" THEN Held(f.ks) ELSE {}
Carried(q) == UNION {Of(f) : f \in Held(q)}
Live(k) == IF k.open THEN Carried(k.inbox) ELSE {}

InOrder(q, x) ==
  /\ \A f \in Held(q) : Of(f) \subseteq {x} \X Nat /\ (f.k = "keys" => Rising(f.ks))
  /\ \A i, j \in 1..Len(q) : i < j => Below(Of(q[i]), Of(q[j]))

Taken == Held(shell.got) \cup Held(shell.pty) \cup Held(input.pending)

Lined ==
  /\ Rising(shell.got) /\ Rising(shell.pty) /\ Rising(input.pending)
  /\ Below(Held(shell.got), Held(shell.pty)) /\ Below(Held(shell.got), Held(input.pending))
  /\ Below(Held(shell.pty), Held(input.pending))

Waits(x) ==
  /\ Rising(client[x].pending) /\ Held(client[x].pending) \subseteq {x} \X (1..client[x].typed)
  /\ client[x].at = "up" => client[x].pending = <<>>
  /\ Below(Taken, Held(client[x].pending))
  /\ \A l \in 1..Len(links) : Below(Live(links[l]), Held(client[x].pending))

Ordered ==
  /\ Lined
  /\ \A l \in 1..Len(links) : (links[l].open => InOrder(links[l].inbox, links[l].owner)) /\ Below(Taken, Live(links[l]))
  /\ \A l, m \in 1..Len(links) : l < m => Below(Live(links[l]), Live(links[m]))
  /\ \A x \in Clients : Waits(x)
  /\ \A e \in Taken \cup UNION {Live(links[l]) : l \in 1..Len(links)} : e \in Strokes /\ e[2] <= client[e[1]].typed

TermInv == TermTypes /\ Wired /\ Tells /\ Once /\ Ordered

-----------------------------------------------------------------------------
(* Keys in order, whole queues and parts of them. *)

LEMMA BelowSub ==
  ASSUME NEW S, NEW V, Below(S, V), NEW S1 \in SUBSET S, NEW V1 \in SUBSET V
  PROVE  Below(S1, V1)
BY DEF Below

LEMMA RisingJoin ==
  ASSUME NEW p \in Seq(Strokes), NEW q \in Seq(Strokes), Rising(p), Rising(q), Below(Held(p), Held(q))
  PROVE  Rising(p \o q)
<1> DEFINE s == p \o q
<1>1. /\ Len(s) = Len(p) + Len(q) /\ Len(p) \in Nat /\ Len(q) \in Nat
      /\ \A i \in 1..Len(p) : s[i] = p[i]
      /\ \A i \in 1..Len(q) : s[Len(p) + i] = q[i]
  BY HeldJoin
<1> HIDE DEF s
<1> SUFFICES ASSUME NEW i \in 1..Len(s), NEW j \in 1..Len(s), i < j, s[i][1] = s[j][1] PROVE s[i][2] < s[j][2]
  BY DEF Rising, s
<1>2. CASE j <= Len(p)
  <2>1. i \in 1..Len(p) /\ j \in 1..Len(p)
    BY <1>1, <1>2
  <2>2. s[i] = p[i] /\ s[j] = p[j]
    BY <1>1, <2>1
  <2> QED BY <2>1, <2>2 DEF Rising
<1>3. CASE i > Len(p)
  <2>1. i - Len(p) \in 1..Len(q) /\ j - Len(p) \in 1..Len(q) /\ i - Len(p) < j - Len(p)
        /\ Len(p) + (i - Len(p)) = i /\ Len(p) + (j - Len(p)) = j
    BY <1>1, <1>3
  <2>2. s[i] = q[i - Len(p)] /\ s[j] = q[j - Len(p)]
    BY <1>1, <2>1
  <2> QED BY <2>1, <2>2 DEF Rising
<1>4. CASE i <= Len(p) /\ j > Len(p)
  <2>1. i \in 1..Len(p) /\ j - Len(p) \in 1..Len(q) /\ Len(p) + (j - Len(p)) = j
    BY <1>1, <1>4
  <2>2. s[i] \in Held(p) /\ s[j] \in Held(q)
    BY <1>1, <2>1 DEF Held
  <2> QED BY <2>2 DEF Below
<1> QED BY <1>1, <1>2, <1>3, <1>4

LEMMA RisingHalves ==
  ASSUME NEW q \in Seq(Strokes), Rising(q), NEW n \in 0..Len(q)
  PROVE  LET p == SubSeq(q, 1, n)
             r == SubSeq(q, n + 1, Len(q))
         IN Rising(p) /\ Rising(r) /\ Below(Held(p), Held(r))
<1> DEFINE p == SubSeq(q, 1, n)
           r == SubSeq(q, n + 1, Len(q))
<1>1. /\ Len(p) = n /\ Len(r) = Len(q) - n /\ Len(q) \in Nat /\ n \in Nat
      /\ \A i \in 1..n : p[i] = q[i]
      /\ \A i \in 1..Len(q) - n : r[i] = q[n + i]
  BY HeldHalves
<1> HIDE DEF p, r
<1>2. Rising(p)
  <2>1. \A i \in 1..Len(p) : i \in 1..Len(q) /\ p[i] = q[i]
    BY <1>1
  <2> QED BY <2>1 DEF Rising
<1>3. Rising(r)
  <2>1. \A i \in 1..Len(r) : n + i \in 1..Len(q) /\ r[i] = q[n + i]
    BY <1>1
  <2>2. \A i, j \in 1..Len(r) : i < j => n + i < n + j
    BY <1>1
  <2> QED BY <2>1, <2>2 DEF Rising
<1>4. Below(Held(p), Held(r))
  <2> SUFFICES ASSUME NEW x \in Held(p), NEW y \in Held(r), x[1] = y[1] PROVE x[2] < y[2]
    BY DEF Below
  <2>1. PICK i \in 1..Len(p) : x = p[i]
    BY DEF Held
  <2>2. PICK j \in 1..Len(r) : y = r[j]
    BY DEF Held
  <2>3. i \in 1..Len(q) /\ n + j \in 1..Len(q) /\ i < n + j
    BY <1>1
  <2>4. x = q[i] /\ y = q[n + j]
    BY <1>1, <2>1, <2>2
  <2> QED BY <2>3, <2>4 DEF Rising
<1> QED BY <1>2, <1>3, <1>4 DEF p, r

LEMMA RisingTail ==
  ASSUME NEW q \in Seq(Strokes), Rising(q), q # <<>>
  PROVE  Rising(Tail(q)) /\ Below({Head(q)}, Held(Tail(q)))
<1> DEFINE t == Tail(q)
<1>1. /\ Len(t) = Len(q) - 1 /\ Len(q) \in Nat /\ Len(q) > 0 /\ Head(q) = q[1]
      /\ \A i \in 1..Len(t) : t[i] = q[i + 1]
  BY HeldTail
<1> HIDE DEF t
<1>2. \A i \in 1..Len(t) : i + 1 \in 1..Len(q) /\ 1 < i + 1 /\ t[i] = q[i + 1]
  BY <1>1
<1>3. \A i, j \in 1..Len(t) : i < j => i + 1 < j + 1
  BY <1>1
<1>4. 1 \in 1..Len(q)
  BY <1>1
<1>5. Rising(t)
  BY <1>2, <1>3 DEF Rising
<1>6. Below({Head(q)}, Held(t))
  BY <1>1, <1>2, <1>4 DEF Rising, Below, Held
<1> QED BY <1>5, <1>6 DEF t

LEMMA RisingShort ==
  ASSUME NEW x \in Strokes
  PROVE  Rising(<<x>>) /\ Rising(<<>>)
BY DEF Rising

-----------------------------------------------------------------------------
(* What becomes of an inbox: it brings no new key and no new command. *)

Less(p, q) ==
  /\ p \in Seq(Requests) /\ Carried(p) \subseteq Carried(q)
  /\ AttachFirst(q) => AttachFirst(p)
  /\ Asks(p) => Asks(q)
  /\ \A x \in Clients : InOrder(q, x) => InOrder(p, x)

LEMMA LessSame ==
  ASSUME NEW q \in Seq(Requests)
  PROVE  Less(q, q)
BY DEF Less

LEMMA LessNone ==
  ASSUME NEW q \in Seq(Requests)
  PROVE  Less(<<>>, q)
BY HeldEmpty DEF Less, Carried, AttachFirst, Asks, InOrder

LEMMA LessTail ==
  ASSUME NEW q \in Seq(Requests), q # <<>>
  PROVE  Less(Tail(q), q) /\ (AttachFirst(q) => ~Asks(Tail(q)))
<1> DEFINE t == Tail(q)
<1>1. /\ t \in Seq(Requests) /\ Len(t) = Len(q) - 1 /\ Len(q) \in Nat /\ Len(q) > 0 /\ Held(q) = {Head(q)} \cup Held(t)
      /\ \A i \in 1..Len(t) : t[i] = q[i + 1]
  BY HeldTail
<1> HIDE DEF t
<1>2. \A i \in 1..Len(t) : i + 1 \in 1..Len(q) /\ i + 1 # 1 /\ t[i] = q[i + 1]
  BY <1>1
<1>3. AttachFirst(q) => \A f \in Held(t) : f.k # "attach"
  BY <1>2 DEF AttachFirst, Held
<1>4. AttachFirst(q) => AttachFirst(t) /\ ~Asks(t)
  BY <1>3 DEF AttachFirst, Asks, Held
<1>5. Asks(t) => Asks(q)
  BY <1>1 DEF Asks
<1>6. Carried(t) \subseteq Carried(q)
  BY <1>1 DEF Carried
<1>7. ASSUME NEW x \in Clients, InOrder(q, x) PROVE InOrder(t, x)
  <2>1. \A f \in Held(t) : Of(f) \subseteq {x} \X Nat /\ (f.k = "keys" => Rising(f.ks))
    BY <1>1, <1>7 DEF InOrder
  <2>2. \A i, j \in 1..Len(t) : i < j => i + 1 < j + 1
    BY <1>1
  <2>3. \A i, j \in 1..Len(t) : i < j => Below(Of(t[i]), Of(t[j]))
    BY <1>2, <1>7, <2>2 DEF InOrder
  <2> QED BY <2>1, <2>3 DEF InOrder
<1> QED BY <1>1, <1>4, <1>5, <1>6, <1>7 DEF Less, t

LEMMA LessStart ==
  ASSUME NEW q \in Seq(Requests), NEW n \in 0..Len(q)
  PROVE  Less(SubSeq(q, 1, n), q)
<1> DEFINE p == SubSeq(q, 1, n)
<1>1. /\ p \in Seq(Requests) /\ Len(p) = n /\ Len(q) \in Nat /\ Held(p) \subseteq Held(q)
      /\ \A i \in 1..n : p[i] = q[i]
  <2>1. /\ p \in Seq(Requests) /\ Len(p) = n /\ \A i \in 1..n : p[i] = q[i]
        /\ Held(q) = Held(p) \cup Held(SubSeq(q, n + 1, Len(q)))
    BY HeldHalves
  <2> QED BY <2>1
<1> HIDE DEF p
<1>2. \A i \in 1..Len(p) : i \in 1..Len(q) /\ p[i] = q[i]
  BY <1>1
<1>3. Carried(p) \subseteq Carried(q)
  BY <1>1 DEF Carried
<1>4. Asks(p) => Asks(q)
  BY <1>1 DEF Asks
<1>5. AttachFirst(q) => AttachFirst(p)
  BY <1>2 DEF AttachFirst
<1>6. ASSUME NEW x \in Clients, InOrder(q, x) PROVE InOrder(p, x)
  BY <1>1, <1>2, <1>6 DEF InOrder
<1> QED BY <1>1, <1>3, <1>4, <1>5, <1>6 DEF Less, p

\* Another frame: what it carries comes after the rest.
LEMMA MoreIs ==
  ASSUME NEW q \in Seq(Requests), NEW f \in Requests, f.k # "attach"
  PROVE  /\ Append(q, f) \in Seq(Requests) /\ Carried(Append(q, f)) = Carried(q) \cup Of(f)
         /\ (AttachFirst(q) => AttachFirst(Append(q, f))) /\ (Asks(Append(q, f)) => Asks(q))
         /\ \A x \in Clients :
              /\ InOrder(q, x) /\ Of(f) \subseteq {x} \X Nat /\ (f.k = "keys" => Rising(f.ks)) /\ Below(Carried(q), Of(f))
              => InOrder(Append(q, f), x)
<1> DEFINE s == Append(q, f)
<1>1. /\ s \in Seq(Requests) /\ Len(s) = Len(q) + 1 /\ Len(q) \in Nat
      /\ \A i \in 1..Len(q) : s[i] = q[i]
      /\ s[Len(q) + 1] = f
      /\ Held(s) = Held(q) \cup {f}
  BY HeldAppend
<1> HIDE DEF s
<1>2. \A i \in 1..Len(s) : (i \in 1..Len(q) /\ s[i] = q[i]) \/ (i = Len(q) + 1 /\ s[i] = f)
  BY <1>1
<1>3. Carried(s) = Carried(q) \cup Of(f)
  BY <1>1 DEF Carried
<1>4. AttachFirst(q) => AttachFirst(s)
  BY <1>2 DEF AttachFirst
<1>5. Asks(s) => Asks(q)
  BY <1>1 DEF Asks
<1>6. ASSUME NEW x \in Clients, InOrder(q, x), Of(f) \subseteq {x} \X Nat, f.k = "keys" => Rising(f.ks), Below(Carried(q), Of(f))
      PROVE  InOrder(s, x)
  <2>1. \A g \in Held(s) : Of(g) \subseteq {x} \X Nat /\ (g.k = "keys" => Rising(g.ks))
    BY <1>1, <1>6 DEF InOrder
  <2>2. ASSUME NEW i \in 1..Len(s), NEW j \in 1..Len(s), i < j PROVE Below(Of(s[i]), Of(s[j]))
    <3>1. i \in 1..Len(q) /\ s[i] = q[i]
      BY <1>1, <1>2, <2>2
    <3>2. CASE j \in 1..Len(q) /\ s[j] = q[j]
      BY <1>6, <2>2, <3>1, <3>2 DEF InOrder
    <3>3. CASE s[j] = f
      <4>1. Of(s[i]) \subseteq Carried(q)
        BY <3>1 DEF Carried, Held
      <4> QED BY <1>6, <3>3, <4>1 DEF Below
    <3> QED BY <1>2, <3>2, <3>3
  <2> QED BY <2>1, <2>2 DEF InOrder
<1> QED BY <1>1, <1>3, <1>4, <1>5, <1>6 DEF s

LEMMA LessDetach ==
  ASSUME NEW q \in Seq(Requests)
  PROVE  Less(q \o <<[k |-> "detach"]>>, q) /\ Less(q \o <<>>, q)
<1> DEFINE f == [k |-> "detach"]
<1>1. f \in Requests /\ f.k = "detach"
  BY DEF Requests
<1> HIDE DEF f
<1>2. Of(f) = {}
  BY <1>1 DEF Of
<1>3. q \o <<f>> = Append(q, f) /\ q \o <<>> = q
  BY <1>1, AppendIsConcat, ConcatEmptySeq
<1>4. Less(Append(q, f), q)
  BY <1>1, <1>2, MoreIs DEF Less, Below
<1> QED BY <1>3, <1>4, LessSame DEF f

-----------------------------------------------------------------------------
(* Steps that bring nothing new. *)

LEMMA PutIs ==
  ASSUME TermTypes, NEW l \in 1..Len(links), NEW h, Sound(h), links' = [links EXCEPT ![l] = h]
  PROVE  /\ links' \in Seq(LinkRecs) /\ Len(links') = Len(links)
         /\ \A m \in 1..Len(links) : links'[m] = (IF m = l THEN h ELSE links[m]) /\ Sound(links'[m])
         /\ \A m \in 1..Len(links') : Sound(links'[m])
<1>1. links \in Seq(LinkRecs) /\ h \in LinkRecs /\ \A m \in 1..Len(links) : Sound(links[m])
  BY DEF TermTypes, Sound
<1>2. links' \in Seq(LinkRecs) /\ Len(links') = Len(links) /\ \A m \in 1..Len(links) : links'[m] = IF m = l THEN h ELSE links[m]
  BY <1>1, ExceptSeq
<1> QED BY <1>1, <1>2

\* Steps of clients that neither dial nor send.
Calm ==
  \A x \in Clients :
    /\ client'[x].asked = client[x].asked /\ client'[x].link = client[x].link
    /\ client'[x].at \in {"attached", "up"} => client[x].at \in {"attached", "up"}
    /\ client'[x].typed >= client[x].typed
    /\ client'[x].pending \in {client[x].pending, <<>>} /\ (client'[x].at = "up" => client'[x].pending = <<>>)

Mild(k, h) == h.owner = k.owner /\ (h.open => k.open) /\ Less(h.inbox, k.inbox)

LEMMA CalmIs ==
  ASSUME TermInv, client' = client
  PROVE  Calm
BY DEF TermInv, TermTypes, ClientRecs, Calm, Ordered, Waits

LEMMA WiredStays ==
  ASSUME Wired, Len(links') = Len(links), \A m \in 1..Len(links) : links'[m].owner = links[m].owner,
         \A x \in Clients : /\ client'[x].asked = client[x].asked /\ client'[x].link = client[x].link
                            /\ client'[x].at \in {"attached", "up"} => client[x].at \in {"attached", "up"}
  PROVE  Wired'
BY DEF Wired

LEMMA OnceStays ==
  ASSUME Once, TermTypes, Len(links') = Len(links), ran' = ran,
         \A m \in 1..Len(links) : links'[m].owner = links[m].owner /\ Less(links'[m].inbox, links[m].inbox),
         \A x \in Clients : client'[x].asked = client[x].asked
  PROVE  Once'
<1>1. \A m \in 1..Len(links) :
        /\ links'[m].owner = links[m].owner /\ (Asks(links'[m].inbox) => Asks(links[m].inbox))
        /\ AttachFirst(links'[m].inbox)
  BY DEF Less, Once
<1> QED BY <1>1 DEF Once

LEMMA OrderedStays ==
  ASSUME Ordered, TermTypes, TermTypes', Len(links') = Len(links), \A m \in 1..Len(links) : Mild(links[m], links'[m]), Calm,
         Lined', Taken' \subseteq Taken
  PROVE  Ordered'
<1>1. \A m \in 1..Len(links) : links[m].owner \in Clients /\ links[m] \in LinkRecs
  BY DEF TermTypes, Sound, LinkRecs
<1>2. ASSUME NEW m \in 1..Len(links)
      PROVE  Live(links'[m]) \subseteq Live(links[m]) /\ (links'[m].open => InOrder(links'[m].inbox, links'[m].owner))
  <2>1. Mild(links[m], links'[m]) /\ (links[m].open => InOrder(links[m].inbox, links[m].owner)) /\ links[m].owner \in Clients
    BY <1>1 DEF Ordered
  <2> QED BY <2>1 DEF Mild, Less, Live
<1>3. ASSUME NEW m \in 1..Len(links) PROVE Below(Taken, Live(links[m]))'
  <2>1. Below(Taken, Live(links[m]))
    BY DEF Ordered
  <2>2. Below(Taken', Live(links'[m]))
    BY <1>2, <2>1 DEF Below
  <2> QED BY <2>2
<1>4. ASSUME NEW l \in 1..Len(links), NEW m \in 1..Len(links), l < m PROVE Below(Live(links[l]), Live(links[m]))'
  <2>1. Below(Live(links[l]), Live(links[m]))
    BY <1>4 DEF Ordered
  <2>2. Below(Live(links'[l]), Live(links'[m]))
    BY <1>2, <2>1 DEF Below
  <2> QED BY <2>2
<1>5. ASSUME NEW x \in Clients PROVE Waits(x)'
  <2>1. Waits(x) /\ client[x] \in ClientRecs /\ client'[x] \in ClientRecs /\ client'[x].typed >= client[x].typed
        /\ client'[x].pending \in {client[x].pending, <<>>} /\ (client'[x].at = "up" => client'[x].pending = <<>>)
    BY DEF Ordered, TermTypes, Calm
  <2>2. Rising(client'[x].pending) /\ Held(client'[x].pending) \subseteq Held(client[x].pending)
    <3>1. CASE client'[x].pending = client[x].pending
      BY <2>1, <3>1 DEF Waits
    <3>2. CASE client'[x].pending = <<>>
      BY <3>2, HeldEmpty DEF Rising
    <3> QED BY <2>1, <3>1, <3>2
  <2>3. 1..client[x].typed \subseteq 1..client'[x].typed
    BY <2>1 DEF ClientRecs
  <2>4. Held(client'[x].pending) \subseteq {x} \X (1..client'[x].typed)
    BY <2>1, <2>2, <2>3 DEF Waits
  <2>5. Below(Taken', Held(client'[x].pending))
    BY <2>1, <2>2 DEF Waits, Below
  <2>6. ASSUME NEW l \in 1..Len(links) PROVE Below(Live(links'[l]), Held(client'[x].pending))
    <3>1. Below(Live(links[l]), Held(client[x].pending))
      BY <2>1 DEF Waits
    <3> QED BY <1>2, <2>2, <3>1 DEF Below
  <2> QED BY <2>1, <2>2, <2>4, <2>5, <2>6 DEF Waits
<1>6. ASSUME NEW e \in (Taken \cup UNION {Live(links[l]) : l \in 1..Len(links)})' PROVE e \in Strokes /\ e[2] <= client'[e[1]].typed
  <2>1. e \in Taken \cup UNION {Live(links[l]) : l \in 1..Len(links)}
    BY <1>2
  <2>2. e \in Strokes /\ e[2] <= client[e[1]].typed
    BY <2>1 DEF Ordered
  <2>3. e[1] \in Clients /\ e[2] \in Nat
    BY <2>2 DEF Strokes
  <2>4. client[e[1]].typed \in Nat /\ client'[e[1]].typed \in Nat /\ client'[e[1]].typed >= client[e[1]].typed
    BY <2>3 DEF TermTypes, ClientRecs, Calm
  <2> QED BY <2>2, <2>3, <2>4
<1> QED BY <1>2, <1>3, <1>4, <1>5, <1>6 DEF Ordered

LEMMA MildKeeps ==
  ASSUME TermInv, TermTypes', Len(links') = Len(links), \A m \in 1..Len(links) : Mild(links[m], links'[m]), Calm,
         Lined', Taken' \subseteq Taken, Tells', ran' = ran
  PROVE  TermInv'
<1>1. \A m \in 1..Len(links) : links'[m].owner = links[m].owner /\ Less(links'[m].inbox, links[m].inbox)
  BY DEF Mild
<1>2. \A x \in Clients : /\ client'[x].asked = client[x].asked /\ client'[x].link = client[x].link
                         /\ client'[x].at \in {"attached", "up"} => client[x].at \in {"attached", "up"}
  BY DEF Calm
<1>3. Wired /\ Once /\ Ordered /\ TermTypes
  BY DEF TermInv
<1>4. Wired'
  BY <1>1, <1>2, <1>3, WiredStays
<1>5. Once'
  BY <1>1, <1>2, <1>3, OnceStays
<1>6. Ordered'
  BY <1>3, OrderedStays
<1> QED BY <1>4, <1>5, <1>6 DEF TermInv

\* The daemon's session stays; one connection becomes h.
LEMMA PutKeeps ==
  ASSUME TermInv, UNCHANGED <<shell, sess, input, polled, ran>>, client' \in [Clients -> ClientRecs], Calm,
         NEW l \in 1..Len(links), NEW h, links' = [links EXCEPT ![l] = h], Sound(h), Mild(links[l], h), Informed(h)
  PROVE  TermInv'
<1>1. TermTypes /\ Tells /\ Ordered /\ Once
  BY DEF TermInv
<1>2. /\ links' \in Seq(LinkRecs) /\ Len(links') = Len(links)
      /\ \A m \in 1..Len(links) : links'[m] = (IF m = l THEN h ELSE links[m]) /\ Sound(links'[m])
      /\ \A m \in 1..Len(links') : Sound(links'[m])
  BY <1>1, PutIs
<1>3. TermTypes'
  BY <1>1, <1>2 DEF TermTypes
<1>4. ASSUME NEW m \in 1..Len(links) PROVE Mild(links[m], links'[m])
  <2>1. links[m].inbox \in Seq(Requests)
    BY <1>1 DEF TermTypes, Sound, LinkRecs
  <2>2. Mild(links[m], links[m])
    BY <2>1, LessSame DEF Mild
  <2> QED BY <1>2, <2>2
<1>5. Tells'
  <2>1. \A m \in 1..Len(links) : Informed(links'[m])
    BY <1>1, <1>2 DEF Tells
  <2>2. \A k : Informed(k) => Informed(k)'
    BY DEF Informed, Covers
  <2> QED BY <1>1, <1>2, <2>1 DEF Tells, Informed, Covers
<1>6. Lined' /\ Taken' = Taken
  BY <1>1 DEF Ordered, Lined, Taken
<1> QED BY <1>2, <1>3, <1>4, <1>5, <1>6, MildKeeps

\* Nothing becomes of the connections, nor of the daemon's session.
LEMMA StayKeeps ==
  ASSUME TermInv, UNCHANGED <<shell, sess, input, polled, ran, links>>, client' \in [Clients -> ClientRecs], Calm
  PROVE  TermInv'
<1>1. TermTypes /\ Tells /\ Ordered /\ Once
  BY DEF TermInv
<1>2. TermTypes'
  BY <1>1 DEF TermTypes
<1>3. ASSUME NEW m \in 1..Len(links) PROVE Mild(links[m], links'[m])
  <2>1. links[m].inbox \in Seq(Requests)
    BY <1>1 DEF TermTypes, Sound, LinkRecs
  <2> QED BY <2>1, LessSame DEF Mild
<1>4. Tells'
  BY <1>1 DEF Tells, Informed, Covers
<1>5. Lined' /\ Taken' = Taken
  BY <1>1 DEF Ordered, Lined, Taken
<1> QED BY <1>2, <1>3, <1>4, <1>5, MildKeeps

-----------------------------------------------------------------------------
(* The clients. *)

\* A connection that is given up.
LEMMA CutIs ==
  ASSUME NEW k, Sound(k)
  PROVE  LET h == T!Cut(k) IN
         /\ Sound(h) /\ h.cut /\ h.owner = k.owner /\ h.open = k.open /\ h.inbox = k.inbox /\ h.at = k.at /\ Informed(h)
         /\ h.wire = <<>>
<1> DEFINE no == <<>>
           none == {}
           h == T!Cut(k)
<1>1. h = [k EXCEPT !.cut = TRUE, !.tx = no, !.wire = no, !.outq = no, !.gap = FALSE, !.lost = FALSE,
                    !.shown = none, !.warned = FALSE]
  BY DEF T!Cut
<1>2. no \in Seq(Answers) /\ none \in SUBSET Nat /\ Len(no) <= WireMax /\ no = <<>>
  BY TerminalAssumption
<1> HIDE DEF no, none, h
<1>3. h \in LinkRecs /\ h.cut /\ h.owner = k.owner /\ h.open = k.open /\ h.inbox = k.inbox /\ h.at = k.at /\ h.wire = no
  BY <1>1, <1>2 DEF LinkRecs, Sound
<1>4. Sound(h) /\ Informed(h)
  BY <1>2, <1>3 DEF Sound, Informed
<1> QED BY <1>2, <1>3, <1>4 DEF h

\* A client that is connected, and its connection.
LEMMA MineIs ==
  ASSUME TermInv, NEW c0 \in Clients, client[c0].at \in {"attached", "up"}
  PROVE  /\ client[c0].link \in 1..Len(links) /\ T!Mine(c0) = links[client[c0].link] /\ Sound(T!Mine(c0))
         /\ T!Mine(c0).owner = c0 /\ T!Mine(c0).inbox \in Seq(Requests) /\ Informed(T!Mine(c0))
         /\ T!Mine(c0).open => InOrder(T!Mine(c0).inbox, c0)
         /\ \A m \in 1..Len(links) : links[m].owner = c0 => m <= client[c0].link
<1>1. client[c0].link \in 1..Len(links) /\ T!Mine(c0) = links[client[c0].link] /\ T!Mine(c0).owner = c0
  BY DEF TermInv, Wired, T!Mine
<1>2. Sound(T!Mine(c0)) /\ T!Mine(c0).inbox \in Seq(Requests) /\ Informed(T!Mine(c0))
      /\ (T!Mine(c0).open => InOrder(T!Mine(c0).inbox, c0))
  BY <1>1 DEF TermInv, TermTypes, Tells, Ordered, Sound, LinkRecs
<1>3. \A m \in 1..Len(links) : links[m].owner = c0 => m <= client[c0].link
  BY DEF TermInv, Wired
<1> QED BY <1>1, <1>2, <1>3

\* What a client is changed to.
LEMMA ClientIs ==
  ASSUME TermInv, NEW c0 \in Clients, NEW r \in ClientRecs, client' = [client EXCEPT ![c0] = r]
  PROVE  /\ client' \in [Clients -> ClientRecs] /\ client'[c0] = r /\ \A x \in Clients : x # c0 => client'[x] = client[x]
         /\ client[c0] \in ClientRecs
         /\ /\ r.asked = client[c0].asked /\ r.link = client[c0].link /\ r.typed >= client[c0].typed
            /\ r.at \in {"attached", "up"} => client[c0].at \in {"attached", "up"}
            /\ r.pending \in {client[c0].pending, <<>>} /\ (r.at = "up" => r.pending = <<>>)
            => Calm
<1>1. client \in [Clients -> ClientRecs] /\ \A x \in Clients : Waits(x)
  BY DEF TermInv, TermTypes, Ordered
<1>2. /\ client' \in [Clients -> ClientRecs] /\ client'[c0] = r /\ \A x \in Clients : x # c0 => client'[x] = client[x]
      /\ client[c0] \in ClientRecs
  BY <1>1
<1>3. \A x \in Clients : client[x].typed >= client[x].typed
  BY <1>1 DEF ClientRecs
<1>4. ASSUME /\ r.asked = client[c0].asked /\ r.link = client[c0].link /\ r.typed >= client[c0].typed
             /\ r.at \in {"attached", "up"} => client[c0].at \in {"attached", "up"}
             /\ r.pending \in {client[c0].pending, <<>>} /\ (r.at = "up" => r.pending = <<>>)
      PROVE  Calm
  <2> SUFFICES ASSUME NEW x \in Clients
               PROVE  /\ client'[x].asked = client[x].asked /\ client'[x].link = client[x].link
                      /\ client'[x].at \in {"attached", "up"} => client[x].at \in {"attached", "up"}
                      /\ client'[x].typed >= client[x].typed
                      /\ client'[x].pending \in {client[x].pending, <<>>} /\ (client'[x].at = "up" => client'[x].pending = <<>>)
    BY DEF Calm
  <2>1. CASE x = c0
    BY <1>2, <1>4, <2>1
  <2>2. CASE x # c0
    BY <1>1, <1>2, <1>3, <2>2 DEF Waits
  <2> QED BY <2>1, <2>2
<1> QED BY <1>2, <1>4

LEMMA LeaveKeeps ==
  ASSUME TermInv, NEW c0 \in Clients, T!Leave(c0)
  PROVE  TermInv'
<1> DEFINE r == [client[c0] EXCEPT !.at = "left"]
<1>1. client' = [client EXCEPT ![c0] = r] /\ UNCHANGED <<shell, sess, input, polled, ran>>
  BY DEF T!Leave, T!session
<1>2. client[c0] \in ClientRecs
  BY DEF TermInv, TermTypes
<1>3. r \in ClientRecs /\ r.at = "left" /\ r.asked = client[c0].asked /\ r.link = client[c0].link /\ r.pending = client[c0].pending
      /\ r.typed >= client[c0].typed
  BY <1>2 DEF ClientRecs
<1> HIDE DEF r
<1>4. client' \in [Clients -> ClientRecs] /\ Calm
  BY <1>1, <1>3, ClientIs
<1>5. CASE UNCHANGED links
  BY <1>1, <1>4, <1>5, StayKeeps
<1>6. CASE client[c0].at = "up" /\ ~T!Mine(c0).cut
  <2>1. PICK said \in {<<>>, <<[k |-> "detach"]>>} :
          links' = [links EXCEPT ![client[c0].link] = [T!Cut(T!Mine(c0)) EXCEPT !.inbox = T!Cut(T!Mine(c0)).inbox \o said]]
    <3>1. PICK said \in IF Kind[c0] = "tty" THEN {<<>>, <<[k |-> "detach"]>>} ELSE {<<>>} :
            links' = [links EXCEPT ![client[c0].link] = [T!Cut(T!Mine(c0)) EXCEPT !.inbox = T!Cut(T!Mine(c0)).inbox \o said]]
      BY <1>6 DEF T!Leave
    <3>2. said \in {<<>>, <<[k |-> "detach"]>>}
      OBVIOUS
    <3> QED BY <3>1, <3>2
  <2> DEFINE l == client[c0].link
             k == links[l]
             h == T!Cut(k)
             q == h.inbox \o said
             z == [h EXCEPT !.inbox = q]
  <2>2. l \in 1..Len(links) /\ Sound(k) /\ k.inbox \in Seq(Requests)
    BY <1>6, MineIs
  <2>3. Sound(h) /\ h.cut /\ h.owner = k.owner /\ h.open = k.open /\ h.inbox = k.inbox /\ h.wire = <<>>
    BY <2>2, CutIs
  <2>4. Less(q, k.inbox)
    BY <2>1, <2>2, <2>3, LessDetach
  <2>5. links' = [links EXCEPT ![l] = z]
    BY <1>6, <2>1, MineIs
  <2> HIDE DEF l, k, h, q
  <2>6. q \in Seq(Requests)
    BY <2>4 DEF Less
  <2>7. z \in LinkRecs /\ z.wire = h.wire /\ z.cut /\ z.owner = k.owner /\ z.open = k.open /\ z.inbox = q
    BY <2>3, <2>6 DEF Sound, LinkRecs
  <2> HIDE DEF z
  <2>8. Sound(z) /\ Informed(z) /\ Mild(k, z)
    BY <2>3, <2>4, <2>7 DEF Sound, Informed, Mild
  <2>9. Mild(links[l], z)
    BY <2>8 DEF k
  <2> QED BY <1>1, <1>4, <2>2, <2>5, <2>8, <2>9, PutKeeps
<1> QED BY <1>5, <1>6 DEF T!Leave

LEMMA NoticeKeeps ==
  ASSUME TermInv, NEW c0 \in Clients, T!Notice(c0)
  PROVE  TermInv'
<1> DEFINE r == [client[c0] EXCEPT !.at = IF Kind[c0] = "tty" THEN "away" ELSE "left"]
           l == client[c0].link
           h == T!Cut(links[l])
<1>1. /\ client' = [client EXCEPT ![c0] = r] /\ UNCHANGED <<shell, sess, input, polled, ran>> /\ client[c0].at = "up"
      /\ links' = [links EXCEPT ![l] = h]
  BY DEF T!Notice, T!session
<1>2. client[c0] \in ClientRecs
  BY DEF TermInv, TermTypes
<1>3. r \in ClientRecs /\ r.at \in {"away", "left"} /\ r.asked = client[c0].asked /\ r.link = client[c0].link
      /\ r.pending = client[c0].pending /\ r.typed >= client[c0].typed
  BY <1>2 DEF ClientRecs
<1> HIDE DEF r
<1>4. client' \in [Clients -> ClientRecs] /\ Calm
  BY <1>1, <1>3, ClientIs
<1>5. l \in 1..Len(links) /\ Sound(links[l]) /\ links[l].inbox \in Seq(Requests)
  BY <1>1, MineIs
<1>6. Sound(h) /\ h.owner = links[l].owner /\ h.open = links[l].open /\ h.inbox = links[l].inbox /\ Informed(h)
  BY <1>5, CutIs
<1>7. Mild(links[l], h)
  BY <1>5, <1>6, LessSame DEF Mild
<1> HIDE DEF h, l
<1> QED BY <1>1, <1>4, <1>5, <1>6, <1>7, PutKeeps

\* A frame that is read was shown, or was the announcement of a gap; the end of the session ends the connection.
LEMMA FrameKeeps ==
  ASSUME TermInv, NEW c0 \in Clients, T!Receive(c0)
  PROVE  TermInv'
<1> DEFINE l == client[c0].link
           k == links[l]
           f == Head(k.wire)
           w == Tail(k.wire)
           s == k.shown \cup T!Shows(f)
           g == k.warned \/ f.k = "gap"
           x == [k EXCEPT !.wire = w, !.shown = s, !.warned = g]
           h == IF T!Final(c0, f) THEN T!Cut(x) ELSE x
           r == [client[c0] EXCEPT !.at = IF T!Final(c0, f) THEN "left" ELSE "up"]
<1>1. client[c0].at = "up" /\ T!Mine(c0).wire # <<>> /\ UNCHANGED <<shell, sess, input, polled, ran>>
  BY DEF T!Receive, T!session
<1>2. l \in 1..Len(links) /\ T!Mine(c0) = k /\ Sound(k) /\ k.inbox \in Seq(Requests) /\ Informed(k)
  BY <1>1, MineIs
<1>3. client' = [client EXCEPT ![c0] = r] /\ links' = [links EXCEPT ![l] = h]
  BY <1>2 DEF T!Receive
<1>4. client[c0] \in ClientRecs /\ Waits(c0)
  BY DEF TermInv, TermTypes, Ordered
<1>5. r \in ClientRecs /\ r.at \in {"left", "up"} /\ r.asked = client[c0].asked /\ r.link = client[c0].link
      /\ r.pending = client[c0].pending /\ r.typed >= client[c0].typed
  BY <1>4 DEF ClientRecs
<1> HIDE DEF r
<1>6. client' \in [Clients -> ClientRecs] /\ Calm
  BY <1>1, <1>3, <1>4, <1>5, ClientIs DEF Waits
<1>7. k.wire \in Seq(Answers) /\ k.wire # <<>> /\ Len(k.wire) <= WireMax /\ k \in LinkRecs /\ WireMax \in Nat
  BY <1>1, <1>2, TerminalAssumption DEF Sound, LinkRecs
<1>8. f \in Answers /\ w \in Seq(Answers) /\ Held(k.wire) = {f} \cup Held(w) /\ Len(w) = Len(k.wire) - 1 /\ Len(k.wire) \in Nat
  BY <1>7, HeldTail
<1> HIDE DEF f, w
<1>9. Len(w) <= WireMax
  BY <1>7, <1>8
<1>10. s \in SUBSET Nat /\ g \in BOOLEAN /\ T!Shows(f) \subseteq s /\ k.shown \subseteq s
  <2>1. T!Shows(f) \in SUBSET Nat
    BY <1>8 DEF T!Shows, Answers
  <2>2. k.shown \in SUBSET Nat /\ k.warned \in BOOLEAN
    BY <1>7 DEF LinkRecs
  <2> QED BY <2>1, <2>2
<1> HIDE DEF k, s, g
<1>11. /\ x \in LinkRecs /\ x.owner = k.owner /\ x.open = k.open /\ x.cut = k.cut /\ x.inbox = k.inbox /\ x.at = k.at
       /\ x.tx = k.tx /\ x.wire = w /\ x.outq = k.outq /\ x.gap = k.gap /\ x.lost = k.lost /\ x.shown = s /\ x.warned = g
  BY <1>7, <1>8, <1>10 DEF LinkRecs
<1> HIDE DEF x
<1>12. Sound(x) /\ Sent(k) = Sent(x) \cup {f}
  BY <1>8, <1>9, <1>11 DEF Sound, Sent
<1>13. CASE T!Final(c0, f)
  <2>1. Sound(h) /\ h.owner = k.owner /\ h.open = k.open /\ h.inbox = k.inbox /\ Informed(h)
    BY <1>11, <1>12, <1>13, CutIs
  <2>2. Mild(links[l], h)
    BY <1>2, <2>1, LessSame DEF Mild, k
  <2> HIDE DEF h, l
  <2> QED BY <1>1, <1>2, <1>3, <1>6, <2>1, <2>2, PutKeeps
<1>14. CASE ~T!Final(c0, f)
  <2>1. h = x /\ f.k # "died"
    BY <1>14 DEF T!Final
  <2>2. Warned(k) => Warned(x)
    <3>1. CASE f.k = "gap"
      BY <1>11, <3>1 DEF Warned, g
    <3>2. CASE f.k # "gap"
      BY <1>11, <1>12, <3>2 DEF Warned, g
    <3> QED BY <3>1, <3>2
  <2>3. Covers(k) => Covers(x)
    BY <1>10, <1>11, <1>12, <2>2 DEF Covers
  <2>4. Informed(x)
    BY <1>2, <1>11, <1>12, <2>1, <2>3 DEF Informed, T!Target
  <2>5. Mild(links[l], x)
    BY <1>2, <1>11, LessSame DEF Mild, k
  <2> HIDE DEF h, l
  <2> QED BY <1>1, <1>2, <1>3, <1>6, <1>12, <2>1, <2>4, <2>5, PutKeeps
<1> QED BY <1>13, <1>14

LEMMA DialKeeps ==
  ASSUME TermInv, NEW c0 \in Clients, T!Dial(c0)
  PROVE  TermInv'
<1> DEFINE f == T!Attach(c0)
           no == <<>>
           none == {}
           q == <<f>>
           k == [owner |-> c0, open |-> TRUE, cut |-> FALSE, inbox |-> q, at |-> FALSE, tx |-> no, wire |-> no,
                 outq |-> no, gap |-> FALSE, lost |-> FALSE, shown |-> none, warned |-> FALSE]
           r == [client[c0] EXCEPT !.at = "attached", !.link = Len(links) + 1, !.asked = TRUE]
           new == Len(links) + 1
<1>1. TermTypes /\ Wired /\ Tells /\ Once /\ Ordered
  BY DEF TermInv
<1>2. /\ client[c0].at = "away" /\ links' = Append(links, k) /\ client' = [client EXCEPT ![c0] = r]
      /\ UNCHANGED <<shell, sess, input, polled, ran>>
  BY DEF T!Dial, T!NewLink, T!session
<1>3. client[c0] \in ClientRecs /\ links \in Seq(LinkRecs) /\ Len(links) \in Nat
  BY <1>1 DEF TermTypes
<1>4. f \in Requests /\ f.k = "attach" /\ (f.cmd => ~client[c0].asked)
  <2>1. client[c0].asked \in BOOLEAN
    BY <1>3 DEF ClientRecs
  <2> QED BY <2>1 DEF T!Attach, Requests
<1> HIDE DEF f
<1>5. q \in Seq(Requests) /\ Len(q) = 1 /\ q[1] = f /\ Held(q) = {f}
  BY <1>4, HeldOne
<1>6. no \in Seq(Answers) /\ none \in SUBSET Nat /\ Len(no) <= WireMax
  BY TerminalAssumption
<1> HIDE DEF q, no, none
<1>7. k \in LinkRecs /\ k.owner = c0 /\ k.open /\ k.inbox = q /\ ~k.at /\ k.wire = no
  BY <1>5, <1>6 DEF LinkRecs
<1> HIDE DEF k
<1>8. Sound(k) /\ Informed(k)
  BY <1>6, <1>7 DEF Sound, Informed, T!Target
<1>9. /\ links' \in Seq(LinkRecs) /\ Len(links') = new
      /\ \A l \in 1..Len(links) : links'[l] = links[l]
      /\ links'[new] = k
  <2>1. links \in Seq(LinkRecs) /\ k \in LinkRecs /\ links' = Append(links, k)
    BY <1>2, <1>3, <1>7
  <2> QED BY <2>1, HeldAppend
<1>10. new \in Nat /\ \A l \in 1..new : l \in 1..Len(links) \/ l = new
  BY <1>3
<1>11. r \in ClientRecs /\ r.at = "attached" /\ r.link = new /\ r.asked /\ r.typed = client[c0].typed /\ r.pending = client[c0].pending
  <2> HIDE DEF new
  <2>1. r = [client[c0] EXCEPT !.at = "attached", !.link = new, !.asked = TRUE]
    BY DEF new
  <2> HIDE DEF r
  <2> QED BY <1>3, <1>10, <2>1 DEF ClientRecs
<1> HIDE DEF r
<1>12. /\ client' \in [Clients -> ClientRecs] /\ client'[c0] = r /\ \A x \in Clients : x # c0 => client'[x] = client[x]
  BY <1>1, <1>2, <1>11 DEF TermTypes
<1>13. TermTypes'
  BY <1>1, <1>2, <1>8, <1>9, <1>10, <1>12 DEF TermTypes
<1>14. Wired'
  <2> SUFFICES ASSUME NEW x \in Clients
               PROVE  /\ client'[x].at \in {"attached", "up"} => client'[x].link \in 1..Len(links') /\ links'[client'[x].link].owner = x
                      /\ \A l \in 1..Len(links') : links'[l].owner = x => l <= client'[x].link /\ client'[x].asked
    BY DEF Wired
  <2>0. /\ client[x].at \in {"attached", "up"} => client[x].link \in 1..Len(links) /\ links[client[x].link].owner = x
        /\ \A l \in 1..Len(links) : links[l].owner = x => l <= client[x].link /\ client[x].asked
    BY <1>1 DEF Wired
  <2>1. CASE x = c0
    <3>1. new \in 1..new /\ \A l \in 1..new : l <= new
      BY <1>3
    <3> HIDE DEF new
    <3> QED BY <1>7, <1>9, <1>11, <1>12, <2>1, <3>1
  <2>2. CASE x # c0
    <3>1. client'[x] = client[x]
      BY <1>12, <2>2
    <3>2. client[x].at \in {"attached", "up"} => client[x].link \in 1..new /\ links'[client[x].link].owner = x
      BY <1>3, <1>9, <2>0
    <3>3. ASSUME NEW l \in 1..new, links'[l].owner = x PROVE l <= client[x].link /\ client[x].asked
      BY <1>7, <1>9, <1>10, <2>0, <2>2, <3>3
    <3> QED BY <1>9, <3>1, <3>2, <3>3
  <2> QED BY <2>1, <2>2
<1>15. Tells'
  <2>1. \A l \in 1..new : Informed(links'[l])
    BY <1>1, <1>8, <1>9, <1>10 DEF Tells
  <2>2. \A h : Informed(h) => Informed(h)'
    BY <1>2 DEF Informed, Covers
  <2> QED BY <1>1, <1>2, <1>9, <2>1 DEF Tells, Informed, Covers
<1>16. Once'
  <2>1. \A x \in Clients : ran'[x] <= 1 /\ (~client'[x].asked => ran'[x] = 0)
    BY <1>1, <1>2, <1>11, <1>12 DEF Once
  <2>2. AttachFirst(q) /\ (Asks(q) => ~client[c0].asked)
    BY <1>4, <1>5 DEF AttachFirst, Asks
  <2>3. \A l \in 1..new : AttachFirst(links'[l].inbox) /\ (Asks(links'[l].inbox) => ran'[links'[l].owner] = 0)
    BY <1>1, <1>2, <1>7, <1>9, <1>10, <2>2 DEF Once
  <2>4. ASSUME NEW l \in 1..new, NEW m \in 1..new, Asks(links'[l].inbox), Asks(links'[m].inbox), links'[l].owner = links'[m].owner
        PROVE  l = m
    <3>1. \A i \in 1..Len(links) : links[i].owner = c0 => client[c0].asked
      BY <1>1 DEF Wired
    <3>2. \A i, j \in 1..Len(links) : Asks(links[i].inbox) /\ Asks(links[j].inbox) /\ links[i].owner = links[j].owner => i = j
      BY <1>1 DEF Once
    <3> HIDE DEF new
    <3>3. CASE l = new /\ m = new
      BY <3>3
    <3>4. CASE l \in 1..Len(links) /\ m \in 1..Len(links)
      BY <1>9, <2>4, <3>2, <3>4
    <3>5. CASE l = new /\ m \in 1..Len(links)
      BY <1>7, <1>9, <2>2, <2>4, <3>1, <3>5
    <3>6. CASE m = new /\ l \in 1..Len(links)
      BY <1>7, <1>9, <2>2, <2>4, <3>1, <3>6
    <3> QED BY <1>10, <3>3, <3>4, <3>5, <3>6
  <2> QED BY <1>9, <2>1, <2>3, <2>4 DEF Once
<1>17. Ordered'
  <2>1. Carried(q) = {}
    BY <1>4, <1>5 DEF Carried, Of
  <2>2. Live(k) = {}
    BY <1>7, <2>1 DEF Live
  <2>3. InOrder(q, c0)
    BY <1>4, <1>5 DEF InOrder, Of
  <2>4. Lined' /\ Taken' = Taken
    BY <1>1, <1>2 DEF Ordered, Lined, Taken
  <2>5. ASSUME NEW l \in 1..new
        PROVE  (links'[l].open => InOrder(links'[l].inbox, links'[l].owner)) /\ Below(Taken, Live(links'[l]))
    BY <1>1, <1>7, <1>9, <1>10, <2>2, <2>3 DEF Ordered, Below
  <2>6. ASSUME NEW l \in 1..new, NEW m \in 1..new, l < m PROVE Below(Live(links'[l]), Live(links'[m]))
    <3>1. CASE m = new
      BY <1>9, <2>2, <3>1 DEF Below
    <3>2. CASE m \in 1..Len(links)
      <4>1. l \in 1..Len(links)
        BY <1>3, <2>6, <3>2
      <4> QED BY <1>1, <1>9, <2>6, <3>2, <4>1 DEF Ordered
    <3> QED BY <1>10, <3>1, <3>2
  <2>7. ASSUME NEW x \in Clients PROVE Waits(x)'
    <3>1. Waits(x)
      BY <1>1 DEF Ordered
    <3>2. client'[x].pending = client[x].pending /\ client'[x].typed = client[x].typed /\ (client'[x].at = "up" => client[x].at = "up")
      BY <1>11, <1>12
    <3>3. \A l \in 1..new : Below(Live(links'[l]), Held(client[x].pending))
      BY <1>9, <1>10, <2>2, <3>1 DEF Waits, Below
    <3> QED BY <1>9, <2>4, <3>1, <3>2, <3>3 DEF Waits
  <2>8. UNION {Live(links'[l]) : l \in 1..new} = UNION {Live(links[l]) : l \in 1..Len(links)}
    <3>1. \A l \in 1..Len(links) : l \in 1..new
      BY <1>3
    <3> QED BY <1>9, <1>10, <2>2, <3>1
  <2>9. \A x \in Clients : client'[x].typed = client[x].typed
    BY <1>11, <1>12
  <2>10. \A e \in Taken \cup UNION {Live(links[l]) : l \in 1..Len(links)} : e \in Strokes /\ e[2] <= client[e[1]].typed /\ e[1] \in Clients
    BY <1>1 DEF Ordered, Strokes
  <2>11. \A e \in (Taken \cup UNION {Live(links[l]) : l \in 1..Len(links)})' : e \in Strokes /\ e[2] <= client'[e[1]].typed
    BY <1>9, <2>4, <2>8, <2>9, <2>10
  <2> QED BY <1>9, <2>4, <2>5, <2>6, <2>7, <2>11 DEF Ordered
<1> QED BY <1>13, <1>14, <1>15, <1>16, <1>17 DEF TermInv

\* The keys in a connection are its owner's.
LEMMA LiveIs ==
  ASSUME Ordered, NEW l \in 1..Len(links)
  PROVE  Live(links[l]) \subseteq {links[l].owner} \X Nat
<1>1. links[l].open => InOrder(links[l].inbox, links[l].owner)
  BY DEF Ordered
<1> QED BY <1>1 DEF Live, Carried, InOrder

\* Keys a client writes, in order and later than all that were, follow the rest.
LEMMA SendKeeps ==
  ASSUME TermInv, NEW c0 \in Clients, client[c0].at \in {"attached", "up"}, UNCHANGED <<shell, sess, input, polled, ran>>,
         NEW ks \in Seq(Strokes), Rising(ks), Held(ks) \subseteq {c0} \X Nat, T!Sends(c0, [k |-> "keys", ks |-> ks]),
         NEW r \in ClientRecs, client' = [client EXCEPT ![c0] = r],
         r.asked = client[c0].asked, r.link = client[c0].link, r.at = "up", r.pending = <<>>, r.typed >= client[c0].typed,
         Below(Taken, Held(ks)), \A l \in 1..Len(links) : Below(Live(links[l]), Held(ks)),
         \A e \in Held(ks) : e[2] <= r.typed
  PROVE  TermInv'
<1> DEFINE mine == client[c0].link
           k == links[mine]
           f == [k |-> "keys", ks |-> ks]
           q == Append(k.inbox, f)
           h == [k EXCEPT !.inbox = q]
<1>1. TermTypes /\ Wired /\ Tells /\ Once /\ Ordered
  BY DEF TermInv
<1>2. /\ mine \in 1..Len(links) /\ k \in LinkRecs /\ Sound(k) /\ k.owner = c0 /\ k.inbox \in Seq(Requests) /\ Informed(k)
      /\ (k.open => InOrder(k.inbox, c0)) /\ \A m \in 1..Len(links) : links[m].owner = c0 => m <= mine
  BY MineIs DEF Sound
<1>3. f \in Requests /\ f.k = "keys" /\ f.k # "attach" /\ f.ks = ks /\ Of(f) = Held(ks)
  BY DEF Requests, Of
<1>4. links' = [links EXCEPT ![mine] = h]
  BY DEF T!Sends
<1>m. Len(links) \in Nat /\ mine \in Nat
  BY <1>1, <1>2 DEF TermTypes
<1> HIDE DEF f, k, mine
<1>5. /\ q \in Seq(Requests) /\ Carried(q) = Carried(k.inbox) \cup Held(ks)
      /\ (AttachFirst(k.inbox) => AttachFirst(q)) /\ (Asks(q) => Asks(k.inbox))
      /\ \A x \in Clients :
           /\ InOrder(k.inbox, x) /\ Held(ks) \subseteq {x} \X Nat /\ Rising(ks) /\ Below(Carried(k.inbox), Held(ks))
           => InOrder(q, x)
  BY <1>2, <1>3, MoreIs
<1> HIDE DEF q
<1>6. /\ h \in LinkRecs /\ h.owner = c0 /\ h.open = k.open /\ h.cut = k.cut /\ h.inbox = q /\ h.at = k.at /\ h.tx = k.tx
      /\ h.wire = k.wire /\ h.outq = k.outq /\ h.gap = k.gap /\ h.lost = k.lost /\ h.shown = k.shown /\ h.warned = k.warned
  BY <1>2, <1>5 DEF LinkRecs
<1> HIDE DEF h
<1>7. Sound(h) /\ Informed(h)
  BY <1>2, <1>6 DEF Sound, Informed, Covers, Warned, Sent, T!Target
<1>8. /\ links' \in Seq(LinkRecs) /\ Len(links') = Len(links)
      /\ \A m \in 1..Len(links) : links'[m] = (IF m = mine THEN h ELSE links[m]) /\ Sound(links'[m])
      /\ \A m \in 1..Len(links') : Sound(links'[m])
  BY <1>1, <1>2, <1>4, <1>7, PutIs
<1>9. client' \in [Clients -> ClientRecs] /\ client'[c0] = r /\ \A x \in Clients : x # c0 => client'[x] = client[x]
  BY ClientIs
<1>10. TermTypes'
  BY <1>1, <1>8, <1>9 DEF TermTypes
<1>11. \A m \in 1..Len(links) : links'[m].owner = links[m].owner
  BY <1>2, <1>6, <1>8 DEF k
<1>12. \A x \in Clients : /\ client'[x].asked = client[x].asked /\ client'[x].link = client[x].link
                          /\ client'[x].at \in {"attached", "up"} => client[x].at \in {"attached", "up"}
  BY <1>9
<1>13. Wired'
  BY <1>1, <1>8, <1>11, <1>12, WiredStays
<1>14. Tells'
  <2>1. \A m \in 1..Len(links) : Informed(links'[m])
    BY <1>1, <1>7, <1>8 DEF Tells
  <2> QED BY <1>1, <1>8, <2>1 DEF Tells, Informed, Covers
<1>15. Once'
  <2>1. \A m \in 1..Len(links) : AttachFirst(links'[m].inbox) /\ (Asks(links'[m].inbox) => Asks(links[m].inbox))
    BY <1>1, <1>5, <1>6, <1>8 DEF Once, k
  <2> QED BY <1>1, <1>8, <1>11, <1>12, <2>1 DEF Once
<1>16. Ordered'
  <2>1. Live(h) \subseteq Live(k) \cup Held(ks) /\ Live(h) \subseteq {c0} \X Nat
    BY <1>1, <1>2, <1>5, <1>6, LiveIs DEF Live, k
  <2>2. h.open => InOrder(h.inbox, c0)
    <3>1. k.open => Carried(k.inbox) = Live(k)
      BY DEF Live
    <3>2. Below(Live(k), Held(ks))
      BY <1>2 DEF k
    <3> QED BY <1>2, <1>5, <1>6, <3>1, <3>2
  <2>3. Lined' /\ Taken' = Taken
    BY <1>1 DEF Ordered, Lined, Taken
  <2>4. ASSUME NEW l \in 1..Len(links)
        PROVE  (links'[l].open => InOrder(links'[l].inbox, links'[l].owner)) /\ Below(Taken, Live(links'[l]))
    <3>1. CASE l = mine
      <4>1. Below(Taken, Live(k))
        BY <1>1, <1>2 DEF Ordered, k
      <4>2. Below(Taken, Live(h))
        BY <2>1, <4>1 DEF Below
      <4> QED BY <1>6, <1>8, <2>2, <3>1, <4>2
    <3>2. CASE l # mine
      BY <1>1, <1>8, <3>2 DEF Ordered
    <3> QED BY <3>1, <3>2
  <2>5. ASSUME NEW l \in 1..Len(links), NEW m \in 1..Len(links), l < m
        PROVE  Below(Live(links'[l]), Live(links'[m]))
    <3>1. Below(Live(links[l]), Live(links[m])) /\ Below(Live(links[l]), Held(ks))
      BY <1>1, <2>5 DEF Ordered
    <3>2. CASE l = mine
      <4>1. m # mine /\ links[m].owner # c0
        BY <1>2, <1>m, <2>5, <3>2
      <4>2. Live(links[m]) \subseteq {links[m].owner} \X Nat
        BY <1>1, LiveIs
      <4>3. Below(Live(h), Live(links[m]))
        BY <2>1, <4>1, <4>2 DEF Below
      <4> QED BY <1>8, <3>2, <4>1, <4>3
    <3>3. CASE m = mine
      <4>1. l # mine
        BY <1>m, <2>5, <3>3
      <4>2. Below(Live(links[l]), Live(h))
        BY <2>1, <3>1, <3>3 DEF Below, k
      <4> QED BY <1>8, <3>3, <4>1, <4>2
    <3>4. CASE l # mine /\ m # mine
      BY <1>8, <3>1, <3>4
    <3> QED BY <3>2, <3>3, <3>4
  <2>6. ASSUME NEW x \in Clients PROVE Waits(x)'
    <3>1. CASE x = c0
      <4>1. client'[x].pending = <<>>
        BY <1>9, <3>1
      <4> QED BY <4>1, HeldEmpty DEF Waits, Rising, Below
    <3>2. CASE x # c0
      <4>1. Waits(x) /\ client'[x] = client[x]
        BY <1>1, <1>9, <3>2 DEF Ordered
      <4>2. ASSUME NEW l \in 1..Len(links) PROVE Below(Live(links'[l]), Held(client[x].pending))
        <5>1. Held(client[x].pending) \subseteq {x} \X (1..client[x].typed)
          BY <4>1 DEF Waits
        <5>2. Below(Live(h), Held(client[x].pending))
          BY <2>1, <3>2, <5>1 DEF Below
        <5> QED BY <1>8, <4>1, <5>2 DEF Waits
      <4> QED BY <1>8, <2>3, <4>1, <4>2 DEF Waits
    <3> QED BY <3>1, <3>2
  <2>7. ASSUME NEW e \in Taken \cup UNION {Live(links'[l]) : l \in 1..Len(links)}
        PROVE  e \in Strokes /\ e[2] <= client'[e[1]].typed
    <3>1. e \in Held(ks) \/ e \in Taken \cup UNION {Live(links[l]) : l \in 1..Len(links)}
      BY <1>2, <1>8, <2>1 DEF k
    <3>2. CASE e \in Held(ks)
      <4>1. e \in {c0} \X Nat
        BY <3>2
      <4> QED BY <1>9, <3>2, <4>1 DEF Strokes
    <3>3. CASE e \in Taken \cup UNION {Live(links[l]) : l \in 1..Len(links)}
      <4>1. e \in Strokes /\ e[2] <= client[e[1]].typed
        BY <1>1, <3>3 DEF Ordered
      <4>2. e[1] \in Clients /\ e[2] \in Nat
        BY <4>1 DEF Strokes
      <4>3. client[e[1]].typed \in Nat /\ client'[e[1]].typed \in Nat
        BY <1>1, <1>9, <4>2 DEF TermTypes, ClientRecs
      <4>4. client'[e[1]].typed >= client[e[1]].typed
        BY <1>9, <4>2, <4>3
      <4> QED BY <4>1, <4>2, <4>3, <4>4
    <3> QED BY <3>1, <3>2, <3>3
  <2>8. (Taken \cup UNION {Live(links[l]) : l \in 1..Len(links)})' = Taken \cup UNION {Live(links'[l]) : l \in 1..Len(links)}
    BY <1>8, <2>3
  <2> QED BY <1>8, <2>3, <2>4, <2>5, <2>6, <2>7, <2>8 DEF Ordered
<1> QED BY <1>10, <1>13, <1>14, <1>15, <1>16 DEF TermInv

LEMMA ResendKeeps ==
  ASSUME TermInv, NEW c0 \in Clients, T!Resend(c0)
  PROVE  TermInv'
<1>1. client[c0] \in ClientRecs /\ Waits(c0) /\ UNCHANGED <<shell, sess, input, polled, ran>> /\ client[c0].at = "attached"
  BY DEF TermInv, TermTypes, Ordered, T!Resend, T!session
<1>2. CASE T!Dead(T!Mine(c0)) /\ client[c0].pending # <<>>
  <2> DEFINE r == [client[c0] EXCEPT !.at = "away"]
  <2>1. client' = [client EXCEPT ![c0] = r] /\ UNCHANGED links
    BY <1>2 DEF T!Resend
  <2>2. r \in ClientRecs /\ r.at = "away" /\ r.asked = client[c0].asked /\ r.link = client[c0].link
        /\ r.pending = client[c0].pending /\ r.typed >= client[c0].typed
    BY <1>1 DEF ClientRecs
  <2> HIDE DEF r
  <2>3. client' \in [Clients -> ClientRecs] /\ Calm
    BY <1>1, <2>1, <2>2, ClientIs
  <2> QED BY <1>1, <2>1, <2>3, StayKeeps
<1>3. CASE ~(T!Dead(T!Mine(c0)) /\ client[c0].pending # <<>>)
  <2> DEFINE no == <<>>
             ks == client[c0].pending
             r == [client[c0] EXCEPT !.at = "up", !.pending = no]
  <2>1. /\ client' = [client EXCEPT ![c0] = r]
        /\ IF ks = <<>> THEN UNCHANGED links ELSE T!Sends(c0, [k |-> "keys", ks |-> ks])
    BY <1>3 DEF T!Resend
  <2>2. no \in Seq(Strokes) /\ no = <<>>
    OBVIOUS
  <2> HIDE DEF no
  <2>3. r \in ClientRecs /\ r.at = "up" /\ r.asked = client[c0].asked /\ r.link = client[c0].link
        /\ r.pending = no /\ r.typed = client[c0].typed
    BY <1>1, <2>2 DEF ClientRecs
  <2> HIDE DEF r
  <2>o. r.typed >= client[c0].typed
    BY <1>1, <2>3 DEF ClientRecs
  <2>4. CASE ks = <<>>
    <3>1. client' \in [Clients -> ClientRecs] /\ Calm
      BY <1>1, <2>1, <2>2, <2>3, <2>o, ClientIs
    <3> QED BY <1>1, <2>1, <2>4, <3>1, StayKeeps
  <2>5. CASE ks # <<>>
    <3>1. ks \in Seq(Strokes) /\ client[c0].typed \in Nat
      BY <1>1 DEF ClientRecs
    <3>2. Rising(ks) /\ Held(ks) \subseteq {c0} \X (1..client[c0].typed) /\ Below(Taken, Held(ks))
          /\ \A l \in 1..Len(links) : Below(Live(links[l]), Held(ks))
      BY <1>1 DEF Waits
    <3>3. Held(ks) \subseteq {c0} \X Nat /\ \A e \in Held(ks) : e[2] <= r.typed
      BY <2>3, <3>1, <3>2
    <3>4. T!Sends(c0, [k |-> "keys", ks |-> ks]) /\ client[c0].at \in {"attached", "up"}
      BY <1>1, <2>1, <2>5
    <3>5. r.pending = <<>>
      BY <2>2, <2>3
    <3> HIDE DEF ks
    <3> QED BY <1>1, <2>1, <2>3, <3>1, <3>2, <2>o, <3>3, <3>4, <3>5, SendKeeps
  <2> QED BY <2>4, <2>5
<1> QED BY <1>2, <1>3

\* A key that is typed comes after every other of its client's.
LEMMA KeyIsLast ==
  ASSUME TermInv, NEW c0 \in Clients
  PROVE  LET key == <<c0, client[c0].typed + 1>> IN
         /\ key \in Strokes /\ client[c0].typed \in Nat
         /\ Below(Taken, {key}) /\ Below(Held(client[c0].pending), {key})
         /\ \A l \in 1..Len(links) : Below(Live(links[l]), {key})
<1>1. client[c0].typed \in Nat /\ Waits(c0)
  BY DEF TermInv, TermTypes, ClientRecs, Ordered
<1>2. <<c0, client[c0].typed + 1>> \in Strokes
  BY <1>1 DEF Strokes
<1>3. \A e \in Taken \cup UNION {Live(links[l]) : l \in 1..Len(links)} : e \in Strokes /\ e[2] <= client[e[1]].typed
  BY DEF TermInv, Ordered
<1>4. ASSUME NEW S, \A e \in S : e \in Strokes /\ e[2] <= client[e[1]].typed PROVE Below(S, {<<c0, client[c0].typed + 1>>})
  <2> SUFFICES ASSUME NEW e \in S, e[1] = c0 PROVE e[2] < client[c0].typed + 1
    BY DEF Below
  <2>1. e[2] \in Nat /\ e[2] <= client[c0].typed
    BY <1>4 DEF Strokes
  <2> QED BY <1>1, <2>1
<1>5. Below(Taken, {<<c0, client[c0].typed + 1>>})
  BY <1>3, <1>4
<1>6. \A l \in 1..Len(links) : Below(Live(links[l]), {<<c0, client[c0].typed + 1>>})
  BY <1>3, <1>4
<1>7. Below(Held(client[c0].pending), {<<c0, client[c0].typed + 1>>})
  <2> SUFFICES ASSUME NEW e \in Held(client[c0].pending), e[1] = c0 PROVE e[2] < client[c0].typed + 1
    BY DEF Below
  <2>1. e[2] \in Nat /\ e[2] <= client[c0].typed
    BY <1>1 DEF Waits
  <2> QED BY <1>1, <2>1
<1> QED BY <1>1, <1>2, <1>5, <1>6, <1>7

\* Keys that wait at a client that is away.
LEMMA AwayKeeps ==
  ASSUME TermInv, UNCHANGED <<shell, sess, input, polled, ran, links>>, NEW c0 \in Clients,
         NEW r \in ClientRecs, client' = [client EXCEPT ![c0] = r],
         r.asked = client[c0].asked, r.link = client[c0].link, r.at = "away", r.typed >= client[c0].typed,
         Rising(r.pending), Held(r.pending) \subseteq {c0} \X (1..r.typed), Below(Taken, Held(r.pending)),
         \A l \in 1..Len(links) : Below(Live(links[l]), Held(r.pending))
  PROVE  TermInv'
<1>1. TermTypes /\ Wired /\ Tells /\ Once /\ Ordered
  BY DEF TermInv
<1>2. client' \in [Clients -> ClientRecs] /\ client'[c0] = r /\ \A x \in Clients : x # c0 => client'[x] = client[x]
  BY ClientIs
<1>3. TermTypes'
  BY <1>1, <1>2 DEF TermTypes
<1>4. \A x \in Clients : /\ client'[x].asked = client[x].asked /\ client'[x].link = client[x].link
                         /\ client'[x].at \in {"attached", "up"} => client[x].at \in {"attached", "up"}
  BY <1>2
<1>5. Wired'
  BY <1>1, <1>4, WiredStays
<1>6. Tells'
  BY <1>1 DEF Tells, Informed, Covers
<1>7. Once'
  BY <1>1, <1>4 DEF Once
<1>8. Lined' /\ Taken' = Taken
  BY <1>1 DEF Ordered, Lined, Taken
<1>9. ASSUME NEW x \in Clients PROVE Waits(x)'
  <2>1. CASE x = c0
    BY <1>2, <1>8, <2>1 DEF Waits
  <2>2. CASE x # c0
    BY <1>1, <1>2, <1>8, <2>2 DEF Waits, Ordered
  <2> QED BY <2>1, <2>2
<1>10. ASSUME NEW e \in Taken \cup UNION {Live(links[l]) : l \in 1..Len(links)} PROVE e \in Strokes /\ e[2] <= client'[e[1]].typed
  <2>1. e \in Strokes /\ e[2] <= client[e[1]].typed
    BY <1>1 DEF Ordered
  <2>2. e[1] \in Clients /\ e[2] \in Nat
    BY <2>1 DEF Strokes
  <2>3. client[e[1]].typed \in Nat /\ client'[e[1]].typed \in Nat
    BY <1>1, <1>2, <2>2 DEF TermTypes, ClientRecs
  <2>4. client'[e[1]].typed >= client[e[1]].typed
    BY <1>2, <2>2, <2>3
  <2> QED BY <2>1, <2>2, <2>3, <2>4
<1>11. Ordered'
  BY <1>1, <1>8, <1>9, <1>10 DEF Ordered
<1> QED BY <1>3, <1>5, <1>6, <1>7, <1>11 DEF TermInv

LEMMA RoomHolds ==
  ASSUME NEW q \in Seq(Strokes), NEW key \in Strokes
  PROVE  T!Room(q, <<key>>) \in {<<>>, <<key>>}
<1>1. Len(q) \in Nat /\ AwayMax \in Nat /\ Len(<<key>>) = 1
  BY TerminalAssumption
<1>2. CASE Len(q) + 1 > AwayMax
  <2>1. AwayMax - Len(q) \in Int /\ AwayMax - Len(q) < 1
    BY <1>1, <1>2
  <2>2. T!Room(q, <<key>>) = SubSeq(<<key>>, 1, AwayMax - Len(q))
    BY <1>1, <1>2 DEF T!Room
  <2> DEFINE m == AwayMax - Len(q)
  <2> HIDE DEF m
  <2>3. m \in Int /\ m < 1 => SubSeq(<<key>>, 1, m) = <<>>
    BY SubSeqProperties
  <2> QED BY <2>1, <2>2, <2>3 DEF m
<1>3. CASE ~(Len(q) + 1 > AwayMax)
  <2>1. T!Room(q, <<key>>) = SubSeq(<<key>>, 1, 1)
    BY <1>1, <1>3 DEF T!Room
  <2>2. SubSeq(<<key>>, 1, Len(<<key>>)) = <<key>>
    BY HeldOne, SubSeqFull
  <2> QED BY <1>1, <2>1, <2>2
<1> QED BY <1>2, <1>3

LEMMA TypeKeeps ==
  ASSUME TermInv, NEW c0 \in Clients, T!Type(c0)
  PROVE  TermInv'
<1> DEFINE key == <<c0, client[c0].typed + 1>>
           kept == client[c0].pending \o T!Room(client[c0].pending, <<key>>)
           r == [client[c0] EXCEPT !.typed = client[c0].typed + 1]
           z == [client[c0] EXCEPT !.typed = client[c0].typed + 1, !.at = "away", !.pending = kept]
<1>1. client[c0] \in ClientRecs /\ Waits(c0) /\ UNCHANGED <<shell, sess, input, polled, ran>> /\ client[c0].at \in {"away", "up"}
  BY DEF TermInv, TermTypes, Ordered, T!Type, T!session
<1>2. /\ key \in Strokes /\ client[c0].typed \in Nat /\ Below(Taken, {key}) /\ Below(Held(client[c0].pending), {key})
      /\ \A l \in 1..Len(links) : Below(Live(links[l]), {key})
  BY KeyIsLast
<1>3. \/ /\ client[c0].at = "up" /\ T!Sends(c0, [k |-> "keys", ks |-> <<key>>]) /\ client' = [client EXCEPT ![c0] = r]
      \/ client[c0].at = "up" /\ client' = [client EXCEPT ![c0] = r] /\ UNCHANGED links
      \/ client' = [client EXCEPT ![c0] = z] /\ UNCHANGED links
  BY DEF T!Type
<1>4. client[c0].typed + 1 \in Nat /\ client[c0].typed + 1 >= client[c0].typed
  BY <1>2
<1>5. r \in ClientRecs /\ r.at = client[c0].at /\ r.asked = client[c0].asked /\ r.link = client[c0].link
      /\ r.pending = client[c0].pending /\ r.typed = client[c0].typed + 1
  <2> DEFINE t == client[c0].typed + 1
  <2>1. t \in Nat /\ r = [client[c0] EXCEPT !.typed = t]
    BY <1>4
  <2> HIDE DEF t, r
  <2>2. r \in ClientRecs /\ r.at = client[c0].at /\ r.asked = client[c0].asked /\ r.link = client[c0].link
        /\ r.pending = client[c0].pending /\ r.typed = t
    BY <1>1, <2>1 DEF ClientRecs
  <2> QED BY <2>2 DEF t
<1>6. key[1] = c0 /\ key[2] = client[c0].typed + 1 /\ key \in {c0} \X (1..client[c0].typed + 1)
  BY <1>2
<1>7. <<key>> \in Seq(Strokes) /\ Held(<<key>>) = {key} /\ Rising(<<key>>)
  BY <1>2, HeldOne, RisingShort
<1> HIDE DEF r, key
<1>8. CASE client[c0].at = "up" /\ T!Sends(c0, [k |-> "keys", ks |-> <<key>>]) /\ client' = [client EXCEPT ![c0] = r]
  <2>1. client[c0].pending = <<>>
    BY <1>1, <1>8 DEF Waits
  <2>2. Held(<<key>>) \subseteq {c0} \X Nat /\ \A e \in Held(<<key>>) : e[2] <= r.typed
    BY <1>2, <1>4, <1>5, <1>6, <1>7
  <2>3. Below(Taken, Held(<<key>>)) /\ \A l \in 1..Len(links) : Below(Live(links[l]), Held(<<key>>))
    BY <1>2, <1>7
  <2>4. r.typed >= client[c0].typed /\ r.at = "up" /\ r.pending = <<>> /\ client[c0].at \in {"attached", "up"}
    BY <1>4, <1>5, <1>8, <2>1
  <2> DEFINE ks == <<key>>
  <2> HIDE DEF ks
  <2>5. /\ ks \in Seq(Strokes) /\ Rising(ks) /\ Held(ks) \subseteq {c0} \X Nat /\ T!Sends(c0, [k |-> "keys", ks |-> ks])
        /\ (\A e \in Held(ks) : e[2] <= r.typed)
        /\ Below(Taken, Held(ks)) /\ \A l \in 1..Len(links) : Below(Live(links[l]), Held(ks))
    BY <1>7, <1>8, <2>2, <2>3 DEF ks
  <2> QED BY <1>1, <1>5, <1>8, <2>4, <2>5, SendKeeps
<1>9. CASE client[c0].at = "up" /\ client' = [client EXCEPT ![c0] = r] /\ UNCHANGED links
  <2>1. client[c0].pending = <<>>
    BY <1>1, <1>9 DEF Waits
  <2>2. r.typed >= client[c0].typed
    BY <1>4, <1>5
  <2>3. client' \in [Clients -> ClientRecs] /\ Calm
    BY <1>1, <1>5, <1>9, <2>1, <2>2, ClientIs
  <2> QED BY <1>1, <1>9, <2>3, StayKeeps
<1>10. CASE client' = [client EXCEPT ![c0] = z] /\ UNCHANGED links
  <2> DEFINE p == client[c0].pending
             more == T!Room(p, <<key>>)
             t == client[c0].typed + 1
  <2>1. p \in Seq(Strokes) /\ Rising(p) /\ Held(p) \subseteq {c0} \X (1..client[c0].typed)
    BY <1>1 DEF Waits, ClientRecs
  <2>2. more \in {<<>>, <<key>>}
    BY <1>2, <2>1, RoomHolds
  <2> HIDE DEF more
  <2>3. more \in Seq(Strokes) /\ Held(more) \subseteq {key} /\ Rising(more)
    <3>1. CASE more = <<>>
      <4>1. <<>> \in Seq(Strokes)
        OBVIOUS
      <4>2. Rising(<<>>)
        BY DEF Rising
      <4> QED BY <3>1, <4>1, <4>2, HeldEmpty
    <3>2. CASE more = <<key>>
      BY <1>7, <3>2
    <3> QED BY <2>2, <3>1, <3>2
  <2>4. Below(Held(p), Held(more))
    BY <1>2, <2>3 DEF Below
  <2>5. kept = p \o more
    BY DEF more
  <2>6. kept \in Seq(Strokes) /\ Held(kept) = Held(p) \cup Held(more)
    <3> HIDE DEF p, kept
    <3> QED BY ONLY <2>1, <2>3, <2>5, HeldJoin
  <2>7. Rising(kept)
    <3> HIDE DEF p, kept
    <3> QED BY <2>1, <2>3, <2>4, <2>5, RisingJoin
  <2>8. z = [client[c0] EXCEPT !.typed = t, !.at = "away", !.pending = kept] /\ t \in Nat
    BY <1>4
  <2>t. t >= client[c0].typed /\ 1..client[c0].typed \subseteq 1..t /\ key \in {c0} \X (1..t)
    BY <1>2, <1>6
  <2> HIDE DEF kept, z, t
  <2>9. z \in ClientRecs /\ z.at = "away" /\ z.asked = client[c0].asked /\ z.link = client[c0].link
        /\ z.pending = kept /\ z.typed = t
    BY <1>1, <2>6, <2>8 DEF ClientRecs
  <2>10. Held(kept) \subseteq {c0} \X (1..t)
    BY <2>1, <2>3, <2>6, <2>t
  <2>11. Below(Taken, Held(kept)) /\ \A l \in 1..Len(links) : Below(Live(links[l]), Held(kept))
    BY <1>1, <1>2, <2>3, <2>6 DEF Waits, Below
  <2>12. z.typed >= client[c0].typed /\ Rising(z.pending) /\ Held(z.pending) \subseteq {c0} \X (1..z.typed)
    BY <2>7, <2>9, <2>10, <2>t
  <2> QED BY <1>1, <1>10, <2>9, <2>11, <2>12, AwayKeeps
<1> QED BY <1>3, <1>8, <1>9, <1>10

\* What had arrived of either direction when a connection breaks.
LEMMA BreakKeeps ==
  ASSUME TermInv, NEW l \in 1..Len(links), T!Break(l)
  PROVE  TermInv'
<1> DEFINE k == links[l]
           h == T!Cut(k)
<1>1. k \in LinkRecs /\ Sound(k) /\ k.inbox \in Seq(Requests) /\ k.wire \in Seq(Answers) /\ WireMax \in Nat
      /\ Len(k.wire) <= WireMax /\ Len(k.wire) \in Nat
  <2>1. k \in LinkRecs /\ Sound(k) /\ Len(k.wire) <= WireMax
    BY DEF TermInv, TermTypes, Sound
  <2> HIDE DEF k
  <2>2. k.inbox \in Seq(Requests) /\ k.wire \in Seq(Answers)
    BY <2>1 DEF LinkRecs
  <2>3. Len(k.wire) \in Nat
    BY <2>2
  <2> QED BY <2>1, <2>2, <2>3, TerminalAssumption
<1>2. Sound(h) /\ h.cut /\ h.owner = k.owner /\ h.open = k.open /\ h.inbox = k.inbox
  BY <1>1, CutIs
<1>3. PICK i \in 0..Len(k.inbox), w \in 0..Len(k.wire) :
        links' = [links EXCEPT ![l] = [h EXCEPT !.inbox = SubSeq(h.inbox, 1, i), !.wire = SubSeq(k.wire, 1, w)]]
  BY DEF T!Break
<1>4. UNCHANGED <<client, shell, sess, input, polled, ran>>
  BY DEF T!Break, T!session
<1> DEFINE q == SubSeq(k.inbox, 1, i)
           p == SubSeq(k.wire, 1, w)
           z == [h EXCEPT !.inbox = q, !.wire = p]
<1>5. links' = [links EXCEPT ![l] = z]
  BY <1>2, <1>3
<1>6. q \in Seq(Requests) /\ Less(q, k.inbox)
  BY <1>1, LessStart DEF Less
<1>7. p \in Seq(Answers) /\ Len(p) = w
  BY <1>1, HeldHalves
<1>8. Len(p) <= WireMax
  BY <1>1, <1>7
<1> HIDE DEF q, p, h, k
<1>9. z \in LinkRecs /\ z.cut /\ z.owner = k.owner /\ z.open = k.open /\ z.inbox = q /\ z.wire = p
  BY <1>2, <1>6, <1>7 DEF Sound, LinkRecs
<1> HIDE DEF z
<1>10. Sound(z) /\ Informed(z) /\ Mild(links[l], z)
  BY <1>6, <1>8, <1>9 DEF Sound, Informed, Mild, k
<1>11. client' \in [Clients -> ClientRecs] /\ Calm
  BY <1>4, CalmIs DEF TermInv, TermTypes
<1> QED BY <1>4, <1>5, <1>10, <1>11, PutKeeps

-----------------------------------------------------------------------------
(* The daemon reads. *)

\* A step of the daemon between two connections' states keeps what its client is told.
LEMMA FlowsInforms ==
  ASSUME NEW k, NEW h, Flows(k, h), Informed(k)
  PROVE  Informed(h)
<1> SUFFICES ASSUME T!Target(h), ~h.cut
             PROVE  Covers(h) /\ (sess = "died" => h.lost \/ \E f \in Sent(h) : f.k = "died")
  BY DEF Informed
<1>1. T!Target(k) /\ ~k.cut /\ h.shown = k.shown
  BY DEF Flows, Same, T!Target
<1>2. /\ Sent(k) \subseteq Sent(h) /\ (k.lost => h.lost)
      /\ Held(k.outq) \subseteq Sent(h) \cup Held(h.outq) \/ Warned(h)
  BY <1>1 DEF Flows
<1>3. Warned(k) => Warned(h)
  BY <1>1, WarnedStays
<1>4. Covers(k) /\ (sess = "died" => k.lost \/ \E f \in Sent(k) : f.k = "died")
  BY <1>1 DEF Informed
<1>5. Covers(h)
  BY <1>1, <1>2, <1>3, <1>4 DEF Covers
<1> QED BY <1>2, <1>4, <1>5

LEMMA ClosedIs ==
  ASSUME NEW k, Sound(k)
  PROVE  LET h == T!Closed(k) IN Sound(h) /\ h.owner = k.owner /\ ~h.open /\ h.inbox = <<>> /\ Informed(h)
<1> DEFINE no == <<>>
           none == {}
           h == T!Closed(k)
<1>1. h = [k EXCEPT !.open = FALSE, !.at = FALSE, !.inbox = no, !.tx = no, !.outq = no, !.gap = FALSE, !.shown = none]
  BY DEF T!Closed
<1>2. no \in Seq(Answers) /\ no \in Seq(Requests) /\ none \in SUBSET Nat /\ no = <<>>
  OBVIOUS
<1> HIDE DEF no, none, h
<1>3. h \in LinkRecs /\ h.owner = k.owner /\ ~h.open /\ h.inbox = no /\ h.wire = k.wire
  BY <1>1, <1>2 DEF LinkRecs, Sound
<1>4. Sound(h) /\ Informed(h)
  BY <1>3 DEF Sound, Informed, T!Target
<1> QED BY <1>2, <1>3, <1>4 DEF h

\* A connection whose first frame has been taken.
LEMMA NextIs ==
  ASSUME NEW k, Sound(k), k.inbox # <<>>
  PROVE  LET h == [k EXCEPT !.inbox = Tail(k.inbox)] IN
         /\ Sound(h) /\ h.owner = k.owner /\ h.open = k.open /\ h.cut = k.cut /\ h.inbox = Tail(k.inbox) /\ h.at = k.at
         /\ Less(h.inbox, k.inbox) /\ Mild(k, h) /\ (Informed(k) => Informed(h))
         /\ k.inbox \in Seq(Requests) /\ Head(k.inbox) \in Requests /\ Head(k.inbox) \in Held(k.inbox)
<1> DEFINE q == Tail(k.inbox)
           h == [k EXCEPT !.inbox = q]
<1>1. k \in LinkRecs /\ k.inbox \in Seq(Requests)
  BY DEF Sound, LinkRecs
<1>2. Less(q, k.inbox) /\ q \in Seq(Requests)
  BY <1>1, LessTail DEF Less
<1>3. Head(k.inbox) \in Requests /\ Head(k.inbox) \in Held(k.inbox)
  BY <1>1, HeldTail
<1> HIDE DEF q
<1>4. /\ h \in LinkRecs /\ h.owner = k.owner /\ h.open = k.open /\ h.cut = k.cut /\ h.inbox = q /\ h.at = k.at /\ h.tx = k.tx
      /\ h.wire = k.wire /\ h.outq = k.outq /\ h.gap = k.gap /\ h.lost = k.lost /\ h.shown = k.shown /\ h.warned = k.warned
  BY <1>1, <1>2 DEF LinkRecs
<1> HIDE DEF h
<1>5. Sound(h) /\ Mild(k, h) /\ (Informed(k) => Informed(h))
  BY <1>2, <1>4 DEF Sound, Mild, Informed, Covers, Warned, Sent, T!Target
<1> QED BY <1>1, <1>2, <1>3, <1>4, <1>5 DEF h, q

\* Once it is greeted, a connection is attached.
LEMMA GreetedIs ==
  ASSUME NEW k, Sound(k), polled.ring \in SUBSET Nat, NEW n \in Nat
  PROVE  LET h == [T!Greeted(k) EXCEPT !.shown = 1..n] IN
         /\ Sound(h) /\ h.owner = k.owner /\ h.open = k.open /\ h.inbox = k.inbox /\ h.shown = 1..n
<1> DEFINE x == [k EXCEPT !.at = TRUE]
           ack == [k |-> "ack"]
           scroll == [k |-> "scroll", of |-> polled.ring]
           y == T!Enqueued(x, ack)
           g == T!Greeted(k)
           s == 1..n
           h == [g EXCEPT !.shown = s]
<1>1. g = IF polled.ring = {} THEN y ELSE T!Control(y, scroll)
  BY DEF T!Greeted
<1>2. ack \in Answers /\ scroll \in Answers
  BY DEF Answers
<1>3. x \in LinkRecs /\ x.owner = k.owner /\ x.open = k.open /\ x.inbox = k.inbox /\ x.wire = k.wire
  BY DEF Sound, LinkRecs
<1> HIDE DEF x, ack, scroll
<1>4. Sound(x)
  BY <1>3 DEF Sound
<1>5. Flows(x, y)
  BY <1>2, <1>4, EnqueuedFlows
<1>6. Flows(x, g)
  <2>1. CASE polled.ring = {}
    BY <1>1, <1>5, <2>1
  <2>2. CASE polled.ring # {}
    <3>1. Sound(y)
      BY <1>5 DEF Flows
    <3> HIDE DEF y
    <3>2. Flows(y, T!Control(y, scroll))
      BY <1>2, <3>1, ControlFlows
    <3> QED BY <1>1, <1>5, <2>2, <3>2, FlowsOn
  <2> QED BY <2>1, <2>2
<1>7. Sound(g) /\ g.owner = k.owner /\ g.open = k.open /\ g.inbox = k.inbox
  BY <1>3, <1>6 DEF Flows, Same
<1>8. s \in SUBSET Nat
  OBVIOUS
<1> HIDE DEF g, s
<1>9. h \in LinkRecs /\ h.owner = k.owner /\ h.open = k.open /\ h.inbox = k.inbox /\ h.shown = s /\ h.wire = g.wire
  BY <1>7, <1>8 DEF LinkRecs, Sound
<1> HIDE DEF h
<1>10. Sound(h)
  BY <1>7, <1>9 DEF Sound
<1> QED BY <1>9, <1>10 DEF h, g, s

\* What a step of the loop that reads connection l starts from.
LEMMA ReadIs ==
  ASSUME TermInv, NEW l \in 1..Len(links), client' = client
  PROVE  /\ Sound(links[l]) /\ Informed(links[l]) /\ links[l].owner \in Clients /\ links[l].inbox \in Seq(Requests)
         /\ client' \in [Clients -> ClientRecs] /\ Calm
<1>1. Sound(links[l]) /\ Informed(links[l]) /\ client \in [Clients -> ClientRecs]
  BY DEF TermInv, TermTypes, Tells
<1>2. links[l].owner \in Clients /\ links[l].inbox \in Seq(Requests)
  BY <1>1 DEF Sound, LinkRecs
<1>3. Calm
  BY CalmIs
<1> QED BY <1>1, <1>2, <1>3

LEMMA CloseKeeps ==
  ASSUME TermInv, NEW l \in 1..Len(links), client' = client, UNCHANGED <<shell, sess, input, polled, ran>>,
         NEW k, Sound(k), k.owner = links[l].owner, links' = [links EXCEPT ![l] = T!Closed(k)]
  PROVE  TermInv'
<1> DEFINE h == T!Closed(k)
<1>1. Sound(h) /\ h.owner = k.owner /\ ~h.open /\ h.inbox = <<>> /\ Informed(h)
  BY ClosedIs
<1>2. Sound(links[l]) /\ links[l].inbox \in Seq(Requests) /\ client' \in [Clients -> ClientRecs] /\ Calm
  BY ReadIs
<1>3. Mild(links[l], h)
  BY <1>1, <1>2, LessNone DEF Mild
<1> HIDE DEF h
<1>4. links' = [links EXCEPT ![l] = h]
  BY DEF h
<1> QED BY <1>1, <1>2, <1>3, <1>4, PutKeeps

LEMMA DetachKeeps ==
  ASSUME TermInv, NEW l \in 1..Len(links), client' = client, UNCHANGED <<shell, sess, input, polled, ran>>,
         links[l].inbox # <<>>, links' = [links EXCEPT ![l].inbox = Tail(links[l].inbox), ![l].at = FALSE]
  PROVE  TermInv'
<1> DEFINE k == links[l]
           x == [k EXCEPT !.inbox = Tail(k.inbox)]
           h == [x EXCEPT !.at = FALSE]
<1>1. Sound(k) /\ client' \in [Clients -> ClientRecs] /\ Calm
  BY ReadIs
<1>2. Sound(x) /\ Mild(k, x)
  BY <1>1, NextIs
<1>3. links' = [links EXCEPT ![l] = h]
  OBVIOUS
<1> HIDE DEF x
<1>4. h \in LinkRecs /\ h.owner = x.owner /\ h.open = x.open /\ ~h.at /\ h.inbox = x.inbox /\ h.wire = x.wire
  BY <1>2 DEF Sound, LinkRecs
<1> HIDE DEF h
<1>5. Sound(h) /\ Informed(h) /\ Mild(links[l], h)
  BY <1>2, <1>4 DEF Sound, Informed, T!Target, Mild
<1> QED BY <1>1, <1>3, <1>5, PutKeeps

\* An attachment to the session there is.
LEMMA JoinKeeps ==
  ASSUME TermInv, NEW l \in 1..Len(links), client' = client, UNCHANGED <<shell, sess, input, polled, ran>>, sess = "live",
         links[l].inbox # <<>>, links' = [links EXCEPT ![l] = T!Joins([links[l] EXCEPT !.inbox = Tail(links[l].inbox)])]
  PROVE  TermInv'
<1> DEFINE k == links[l]
           x == [k EXCEPT !.inbox = Tail(k.inbox)]
           h == T!Joins(x)
<1>1. Sound(k) /\ client' \in [Clients -> ClientRecs] /\ Calm
  BY ReadIs
<1>2. Sound(x) /\ Mild(k, x)
  BY <1>1, NextIs
<1>3. polled.ring \in SUBSET Nat /\ polled.n \in Nat
  BY DEF TermInv, TermTypes
<1>4. links' = [links EXCEPT ![l] = h]
  OBVIOUS
<1> HIDE DEF x
<1>5. Sound(h) /\ h.owner = x.owner /\ h.open = x.open /\ h.inbox = x.inbox /\ h.shown = 1..polled.n
  BY <1>2, <1>3, GreetedIs DEF T!Joins
<1> HIDE DEF h
<1>6. Informed(h) /\ Mild(links[l], h)
  BY <1>2, <1>5 DEF Informed, Covers, Mild
<1> QED BY <1>1, <1>4, <1>5, <1>6, PutKeeps

\* An attachment that finds no session.
LEMMA RefuseKeeps ==
  ASSUME TermInv, NEW l \in 1..Len(links), client' = client, UNCHANGED <<shell, sess, input, polled, ran>>, links[l].inbox # <<>>,
         links' = [links EXCEPT ![l] = T!Enqueued([links[l] EXCEPT !.inbox = Tail(links[l].inbox)], [k |-> "died"])]
  PROVE  TermInv'
<1> DEFINE k == links[l]
           x == [k EXCEPT !.inbox = Tail(k.inbox)]
           f == [k |-> "died"]
           h == T!Enqueued(x, f)
<1>1. Sound(k) /\ Informed(k) /\ client' \in [Clients -> ClientRecs] /\ Calm
  BY ReadIs
<1>2. Sound(x) /\ Mild(k, x) /\ Informed(x)
  BY <1>1, NextIs
<1>3. f \in Answers
  BY DEF Answers
<1>4. links' = [links EXCEPT ![l] = h]
  OBVIOUS
<1> HIDE DEF x, f
<1>5. Flows(x, h)
  BY <1>2, <1>3, EnqueuedFlows
<1> HIDE DEF h
<1>6. Sound(h) /\ Mild(k, h)
  BY <1>2, <1>5 DEF Flows, Same, Mild
<1>7. Informed(h)
  BY <1>2, <1>5, FlowsInforms
<1>8. Mild(links[l], h)
  BY <1>6
<1> QED BY <1>1, <1>4, <1>6, <1>7, <1>8, PutKeeps

\* An attachment that starts a shell.
LEMMA SpawnKeeps ==
  ASSUME TermInv, NEW l \in 1..Len(links), client' = client, links[l].inbox # <<>>, NEW f, f = Head(links[l].inbox),
         f.k = "attach", T!Spawns(f),
         links' = [links EXCEPT ![l] = [T!Joins([links[l] EXCEPT !.inbox = Tail(links[l].inbox)]) EXCEPT !.shown = 1..shell.made]],
         shell' = [shell EXCEPT !.up = TRUE, !.life = shell.life + 1, !.pty = <<>>], sess' = "live",
         input' = [pending |-> <<>>, full |-> FALSE], polled' = [polled EXCEPT !.n = shell.made],
         ran' = IF f.cmd THEN [ran EXCEPT ![links[l].owner] = ran[links[l].owner] + 1] ELSE ran
  PROVE  TermInv'
<1> DEFINE k == links[l]
           x == [k EXCEPT !.inbox = Tail(k.inbox)]
           n == shell.made
           g == T!Joins(x)
           h == [g EXCEPT !.shown = 1..n]
<1>0. TermTypes /\ Wired /\ Tells /\ Once /\ Ordered
  BY DEF TermInv
<1>1. Sound(k) /\ k.owner \in Clients /\ client' \in [Clients -> ClientRecs] /\ Calm
  BY ReadIs
<1>2. /\ Sound(x) /\ Mild(k, x) /\ x.owner = k.owner /\ x.open = k.open /\ x.inbox = Tail(k.inbox)
      /\ k.inbox \in Seq(Requests) /\ f \in Held(k.inbox)
  BY <1>1, NextIs
<1>3. polled.ring \in SUBSET Nat /\ polled.n \in Nat /\ n \in Nat
  BY <1>0 DEF TermTypes
<1>4. links' = [links EXCEPT ![l] = h]
  OBVIOUS
<1> HIDE DEF x
<1>5. /\ Sound(h) /\ h.owner = k.owner /\ h.open = k.open /\ h.inbox = Tail(k.inbox) /\ h.shown = 1..n
  <2> DEFINE y == T!Greeted(x)
  <2>1. Sound(g) /\ g.owner = x.owner /\ g.open = x.open /\ g.inbox = x.inbox
    BY <1>2, <1>3, GreetedIs DEF T!Joins
  <2> DEFINE s == 1..n
  <2>2. s \in SUBSET Nat
    BY <1>3
  <2> HIDE DEF g, s, n
  <2>3. [g EXCEPT !.shown = s] \in LinkRecs /\ [g EXCEPT !.shown = s].owner = g.owner /\ [g EXCEPT !.shown = s].open = g.open
        /\ [g EXCEPT !.shown = s].inbox = g.inbox /\ [g EXCEPT !.shown = s].shown = s /\ [g EXCEPT !.shown = s].wire = g.wire
    BY <2>1, <2>2 DEF LinkRecs, Sound
  <2>4. h = [g EXCEPT !.shown = s]
    BY DEF s
  <2> HIDE DEF h
  <2> QED BY <1>2, <2>1, <2>3, <2>4 DEF Sound, s
<1> HIDE DEF h
<1>6. Mild(k, h)
  BY <1>2, <1>5 DEF Mild
<1>7. /\ links' \in Seq(LinkRecs) /\ Len(links') = Len(links)
      /\ \A m \in 1..Len(links) : links'[m] = (IF m = l THEN h ELSE links[m]) /\ Sound(links'[m])
      /\ \A m \in 1..Len(links') : Sound(links'[m])
  BY <1>0, <1>4, <1>5, PutIs
<1>8. shell' \in [up : BOOLEAN, life : Nat, made : Nat, pty : Seq(Strokes), got : Seq(Strokes)]
      /\ shell'.up /\ shell'.made = n /\ shell'.got = shell.got /\ shell'.pty = <<>> /\ Len(shell'.pty) <= PtyRoom
  <2> DEFINE no == <<>>
             t == shell.life + 1
  <2>1. shell \in [up : BOOLEAN, life : Nat, made : Nat, pty : Seq(Strokes), got : Seq(Strokes)]
    BY <1>0 DEF TermTypes
  <2>2. no \in Seq(Strokes) /\ t \in Nat
    BY <2>1
  <2>3. shell' = [shell EXCEPT !.up = TRUE, !.life = t, !.pty = no]
    OBVIOUS
  <2> HIDE DEF no, t
  <2>4. shell' \in [up : BOOLEAN, life : Nat, made : Nat, pty : Seq(Strokes), got : Seq(Strokes)]
        /\ shell'.up /\ shell'.made = shell.made /\ shell'.got = shell.got /\ shell'.pty = no
    BY <2>1, <2>2, <2>3
  <2>5. Len(<<>>) <= PtyRoom
    BY TerminalAssumption
  <2> QED BY <2>4, <2>5 DEF no, n
<1>9. polled' \in [n : Nat, ring : SUBSET Nat] /\ polled'.n = n
  <2>1. polled \in [n : Nat, ring : SUBSET Nat] /\ polled' = [polled EXCEPT !.n = n]
    BY <1>0 DEF TermTypes
  <2> HIDE DEF n
  <2> QED BY <1>3, <2>1
<1>10. ran' \in [Clients -> Nat] /\ \A z \in Clients : ran'[z] = IF f.cmd /\ z = k.owner THEN ran[z] + 1 ELSE ran[z]
  <2>1. ran \in [Clients -> Nat]
    BY <1>0 DEF TermTypes
  <2>2. CASE f.cmd
    BY <1>1, <2>1, <2>2
  <2>3. CASE ~f.cmd
    BY <1>1, <2>1, <2>3
  <2> QED BY <2>2, <2>3
<1> HIDE DEF n
<1>11. input' \in [pending : Seq(Strokes), full : BOOLEAN] /\ input'.pending = <<>>
  <2> DEFINE no == <<>>
  <2>1. no \in Seq(Strokes) /\ input' = [pending |-> no, full |-> FALSE]
    OBVIOUS
  <2> HIDE DEF no
  <2>2. input' \in [pending : Seq(Strokes), full : BOOLEAN] /\ input'.pending = no
    BY <2>1
  <2> QED BY <2>2 DEF no
<1>12. TermTypes'
  BY <1>1, <1>7, <1>8, <1>9, <1>10, <1>11 DEF TermTypes
<1>13. ASSUME NEW m \in 1..Len(links) PROVE Mild(links[m], links'[m])
  <2>1. links[m].inbox \in Seq(Requests)
    BY <1>0 DEF TermTypes, Sound, LinkRecs
  <2>2. Mild(links[m], links[m])
    BY <2>1, LessSame DEF Mild
  <2> QED BY <1>6, <1>7, <2>2
<1>14. \A m \in 1..Len(links) : links'[m].owner = links[m].owner
  BY <1>13 DEF Mild
<1>15. Wired'
  <2>1. \A z \in Clients : /\ client'[z].asked = client[z].asked /\ client'[z].link = client[z].link
                           /\ client'[z].at \in {"attached", "up"} => client[z].at \in {"attached", "up"}
    OBVIOUS
  <2> QED BY <1>0, <1>7, <1>14, <2>1, WiredStays
<1>16. Tells'
  <2>1. ASSUME NEW m \in 1..Len(links), T!Target(links'[m]), ~links'[m].cut
        PROVE  /\ 1..n \subseteq links'[m].shown \cup UNION {T!Shows(e) : e \in Sent(links'[m]) \cup Held(links'[m].outq)}
               \/ Warned(links'[m])
    <3>1. CASE m = l
      BY <1>5, <1>7, <3>1
    <3>2. CASE m # l
      <4>1. links'[m] = links[m]
        BY <1>7, <3>2
      <4>2. m \in T!Attached
        BY <2>1, <4>1, <1>0 DEF T!Attached, TermTypes
      <4>3. sess # "live"
        BY <4>2 DEF T!Spawns
      <4>4. polled.n = n
        BY <1>0, <4>3 DEF Tells, n
      <4>5. Covers(links[m])
        BY <1>0, <2>1, <4>1 DEF Tells, Informed
      <4> QED BY <4>1, <4>4, <4>5 DEF Covers
    <3> QED BY <3>1, <3>2
  <2>2. \A m \in 1..Len(links) : Informed(links[m])'
    BY <1>9, <2>1 DEF Informed, Covers
  <2> QED BY <1>7, <2>2 DEF Tells
<1>17. Once'
  <2>1. /\ \A z \in Clients : ran[z] <= 1 /\ (~client[z].asked => ran[z] = 0)
        /\ \A m \in 1..Len(links) : AttachFirst(links[m].inbox) /\ (Asks(links[m].inbox) => ran[links[m].owner] = 0)
        /\ \A i, m \in 1..Len(links) : Asks(links[i].inbox) /\ Asks(links[m].inbox) /\ links[i].owner = links[m].owner => i = m
    BY <1>0 DEF Once
  <2>2. client[k.owner].asked
    BY <1>0, <1>1 DEF Wired
  <2>3. f.cmd => Asks(k.inbox) /\ ran[k.owner] = 0
    BY <1>2, <2>1 DEF Asks
  <2>4. ~Asks(h.inbox)
    BY <1>2, <1>5, <2>1, LessTail
  <2>5. ran \in [Clients -> Nat]
    BY <1>0 DEF TermTypes
  <2>6. ASSUME NEW z \in Clients PROVE ran'[z] <= 1 /\ (~client'[z].asked => ran'[z] = 0)
    <3>1. CASE f.cmd /\ z = k.owner
      BY <1>10, <2>2, <2>3, <3>1
    <3>2. CASE ~(f.cmd /\ z = k.owner)
      BY <1>10, <2>1, <3>2
    <3> QED BY <3>1, <3>2
  <2>7. \A m \in 1..Len(links) :
          AttachFirst(links'[m].inbox) /\ (Asks(links'[m].inbox) => Asks(links[m].inbox) /\ m # l)
    BY <1>7, <1>13, <2>1, <2>4 DEF Mild, Less
  <2>8. ASSUME NEW m \in 1..Len(links), Asks(links'[m].inbox) PROVE ran'[links'[m].owner] = 0
    <3>1. Asks(links[m].inbox) /\ m # l /\ ran[links[m].owner] = 0 /\ links[m].owner \in Clients
      BY <1>0, <2>1, <2>7, <2>8 DEF TermTypes, Sound, LinkRecs
    <3>2. ~(f.cmd /\ links[m].owner = k.owner)
      BY <2>1, <2>3, <3>1
    <3> QED BY <1>10, <1>14, <3>1, <3>2
  <2>9. \A i, m \in 1..Len(links) : Asks(links'[i].inbox) /\ Asks(links'[m].inbox) /\ links'[i].owner = links'[m].owner => i = m
    BY <1>14, <2>1, <2>7
  <2>10. \A m \in 1..Len(links) : AttachFirst(links'[m].inbox)
    BY <2>7
  <2> QED BY <1>7, <2>6, <2>8, <2>9, <2>10 DEF Once
<1>18. Ordered'
  <2>1. Taken' \subseteq Taken
    BY <1>8, <1>11, HeldEmpty DEF Taken
  <2>2. Lined'
    <3>1. Rising(<<>>)
      BY DEF Rising
    <3>2. Rising(shell.got)
      BY <1>0 DEF Ordered, Lined
    <3> QED BY <1>8, <1>11, <3>1, <3>2, HeldEmpty DEF Lined, Below
  <2> QED BY <1>0, <1>1, <1>7, <1>12, <1>13, <2>1, <2>2, OrderedStays
<1> QED BY <1>12, <1>15, <1>16, <1>17, <1>18 DEF TermInv

\* Keys on their way to the shell: what is waiting, then the new ones.
LEMMA WrittenIs ==
  ASSUME TermInv, NEW ks \in Seq(Strokes), Rising(ks), Below(Taken, Held(ks))
  PROVE  LET w == T!Written(ks) IN
         /\ w.pty \in Seq(Strokes) /\ w.pending \in Seq(Strokes) /\ w.full \in BOOLEAN /\ Len(w.pty) <= PtyRoom
         /\ Rising(w.pty) /\ Rising(w.pending) /\ Below(Held(w.pty), Held(w.pending))
         /\ Held(w.pty) \cup Held(w.pending) \subseteq Held(shell.pty) \cup Held(input.pending) \cup Held(ks)
<1> DEFINE a0 == shell.pty
           b0 == input.pending
           all == b0 \o ks
           free == PtyRoom - Len(a0)
           n == IF free < Len(all) THEN free ELSE Len(all)
           p == SubSeq(all, 1, n)
           r == SubSeq(all, n + 1, Len(all))
           t == a0 \o p
<1>1. T!Written(ks) = [pty |-> t, pending |-> r, full |-> Len(r) >= PtyHigh]
  BY DEF T!Written
<1>2. /\ a0 \in Seq(Strokes) /\ b0 \in Seq(Strokes) /\ Len(a0) <= PtyRoom
  BY DEF TermInv, TermTypes
<1>3. PtyRoom \in Nat /\ Len(a0) \in Nat
  BY <1>2, TerminalAssumption
<1>4. free \in Nat
  BY <1>2, <1>3
<1>5. Rising(a0) /\ Rising(b0) /\ Below(Held(a0), Held(b0)) /\ Below(Held(b0), Held(ks)) /\ Below(Held(a0), Held(ks))
  BY DEF TermInv, Ordered, Lined, Taken, Below
<1> HIDE DEF a0, b0
<1>6. all \in Seq(Strokes) /\ Len(all) \in Nat /\ Held(all) = Held(b0) \cup Held(ks)
  <2>1. ks \in Seq(Strokes) /\ b0 \in Seq(Strokes)
    BY <1>2
  <2> QED BY ONLY <2>1, HeldJoin
<1>7. Rising(all)
  BY <1>2, <1>5, RisingJoin
<1> HIDE DEF all, free
<1>8. n \in 0..Len(all) /\ n <= free
  BY ONLY <1>4, <1>6, MinIs
<1> HIDE DEF n
<1>9. p \in Seq(Strokes) /\ r \in Seq(Strokes) /\ Len(p) = n /\ Held(all) = Held(p) \cup Held(r)
  BY <1>6, <1>8, HeldHalves
<1>10. Rising(p) /\ Rising(r) /\ Below(Held(p), Held(r))
  BY <1>6, <1>7, <1>8, RisingHalves
<1> HIDE DEF p, r
<1>11. t \in Seq(Strokes) /\ Len(t) = Len(a0) + Len(p) /\ Held(t) = Held(a0) \cup Held(p)
  <2>1. a0 \in Seq(Strokes) /\ p \in Seq(Strokes)
    BY <1>2, <1>9
  <2> QED BY ONLY <2>1, HeldJoin
<1>12. Below(Held(a0), Held(p)) /\ Below(Held(a0), Held(r))
  BY <1>5, <1>6, <1>9 DEF Below
<1>13. Rising(t)
  BY <1>2, <1>5, <1>9, <1>10, <1>12, RisingJoin
<1> HIDE DEF t
<1>14. Below(Held(t), Held(r))
  BY <1>10, <1>11, <1>12 DEF Below
<1>15. Len(t) <= PtyRoom
  <2>1. n \in Nat
    BY <1>6, <1>8
  <2> QED BY <1>3, <1>8, <1>9, <1>11, <2>1 DEF free
<1>16. Held(t) \cup Held(r) \subseteq Held(a0) \cup Held(b0) \cup Held(ks)
  BY <1>6, <1>9, <1>11
<1>17. (Len(r) >= PtyHigh) \in BOOLEAN
  OBVIOUS
<1> DEFINE big == Len(r) >= PtyHigh
<1> HIDE DEF big
<1>18. T!Written(ks) = [pty |-> t, pending |-> r, full |-> big]
  BY <1>1 DEF big
<1>19. T!Written(ks).pty = t /\ T!Written(ks).pending = r /\ T!Written(ks).full = big /\ big \in BOOLEAN
  BY <1>17, <1>18 DEF big
<1> QED BY <1>9, <1>10, <1>11, <1>13, <1>14, <1>15, <1>16, <1>19 DEF a0, b0

\* The oldest connection's keys are taken: the older ones have none left.
LEMMA TakeKeeps ==
  ASSUME TermInv, NEW l \in 1..Len(links), client' = client, UNCHANGED <<sess, polled, ran>>, links[l].open,
         T!First(l), links[l].at, links[l].inbox # <<>>, NEW f, f = Head(links[l].inbox), f.k = "keys",
         shell' = [shell EXCEPT !.pty = T!Written(f.ks).pty],
         input' = [pending |-> T!Written(f.ks).pending, full |-> T!Written(f.ks).full],
         links' = [links EXCEPT ![l] = [links[l] EXCEPT !.inbox = Tail(links[l].inbox)]]
  PROVE  TermInv'
<1> DEFINE k == links[l]
           h == [k EXCEPT !.inbox = Tail(k.inbox)]
           ks == f.ks
           w == T!Written(ks)
<1>1. TermTypes /\ Wired /\ Tells /\ Once /\ Ordered
  BY DEF TermInv
<1>2. Sound(k) /\ Informed(k) /\ k.owner \in Clients /\ client' \in [Clients -> ClientRecs] /\ Calm
  BY ReadIs
<1>3. /\ Sound(h) /\ h.owner = k.owner /\ h.open = k.open /\ h.inbox = Tail(k.inbox) /\ Mild(k, h) /\ Informed(h)
      /\ k.inbox \in Seq(Requests) /\ f \in Requests /\ f \in Held(k.inbox)
  BY <1>2, NextIs
<1>4. ks \in Seq(Strokes) /\ Of(f) = Held(ks)
  BY <1>3 DEF Requests, Of
<1>5. InOrder(k.inbox, k.owner) /\ Live(k) = Carried(k.inbox) /\ Below(Taken, Live(k))
  BY <1>1 DEF Ordered, Live
<1>6. Held(ks) \subseteq Live(k) /\ Rising(ks)
  BY <1>3, <1>4, <1>5 DEF Carried, InOrder
<1>7. Below(Held(ks), Live(h))
  <2> DEFINE q == k.inbox
             t == Tail(q)
  <2>1. /\ Len(t) = Len(q) - 1 /\ Len(q) \in Nat /\ Len(q) > 0 /\ f = q[1]
        /\ \A i \in 1..Len(t) : t[i] = q[i + 1]
    BY <1>3, HeldTail
  <2>2. \A i \in 1..Len(t) : i + 1 \in 1..Len(q) /\ 1 < i + 1
    BY <2>1
  <2>3. 1 \in 1..Len(q)
    BY <2>1
  <2>4. \A i \in 1..Len(t) : Below(Of(f), Of(t[i]))
    BY <1>5, <2>1, <2>2, <2>3 DEF InOrder
  <2>5. Live(h) \subseteq Carried(t)
    BY <1>3 DEF Live
  <2> HIDE DEF t
  <2>6. Below(Of(f), Carried(t))
    BY <2>4 DEF Below, Carried, Held
  <2> QED BY <1>4, <2>5, <2>6 DEF Below
<1> HIDE DEF h, ks
<1>8. Below(Taken, Held(ks))
  BY <1>5, <1>6 DEF Below
<1>9. /\ w.pty \in Seq(Strokes) /\ w.pending \in Seq(Strokes) /\ w.full \in BOOLEAN /\ Len(w.pty) <= PtyRoom
      /\ Rising(w.pty) /\ Rising(w.pending) /\ Below(Held(w.pty), Held(w.pending))
      /\ Held(w.pty) \cup Held(w.pending) \subseteq Held(shell.pty) \cup Held(input.pending) \cup Held(ks)
  BY <1>4, <1>6, <1>8, WrittenIs
<1>10. shell' = [shell EXCEPT !.pty = w.pty] /\ input' = [pending |-> w.pending, full |-> w.full]
       /\ links' = [links EXCEPT ![l] = h]
  BY DEF ks, h
<1> HIDE DEF w
<1>11. shell \in [up : BOOLEAN, life : Nat, made : Nat, pty : Seq(Strokes), got : Seq(Strokes)]
  BY <1>1 DEF TermTypes
<1>12. shell' \in [up : BOOLEAN, life : Nat, made : Nat, pty : Seq(Strokes), got : Seq(Strokes)]
       /\ shell'.up = shell.up /\ shell'.made = shell.made /\ shell'.got = shell.got /\ shell'.pty = w.pty
  BY <1>9, <1>10, <1>11
<1>13. input' \in [pending : Seq(Strokes), full : BOOLEAN] /\ input'.pending = w.pending
  BY <1>9, <1>10
<1>14. /\ links' \in Seq(LinkRecs) /\ Len(links') = Len(links)
       /\ \A m \in 1..Len(links) : links'[m] = (IF m = l THEN h ELSE links[m]) /\ Sound(links'[m])
       /\ \A m \in 1..Len(links') : Sound(links'[m])
  BY <1>1, <1>3, <1>10, PutIs
<1>15. TermTypes'
  BY <1>1, <1>2, <1>9, <1>12, <1>13, <1>14 DEF TermTypes
<1>16. ASSUME NEW m \in 1..Len(links) PROVE Mild(links[m], links'[m])
  <2>1. links[m].inbox \in Seq(Requests)
    BY <1>1 DEF TermTypes, Sound, LinkRecs
  <2>2. Mild(links[m], links[m])
    BY <2>1, LessSame DEF Mild
  <2> QED BY <1>3, <1>14, <2>2
<1>17. /\ \A m \in 1..Len(links) : links'[m].owner = links[m].owner /\ Less(links'[m].inbox, links[m].inbox)
       /\ \A z \in Clients : /\ client'[z].asked = client[z].asked /\ client'[z].link = client[z].link
                             /\ client'[z].at \in {"attached", "up"} => client[z].at \in {"attached", "up"}
  BY <1>16 DEF Mild
<1>18. Wired' /\ Once'
  BY <1>1, <1>14, <1>17, WiredStays, OnceStays
<1>19. Tells'
  <2>1. \A m \in 1..Len(links) : Informed(links'[m])
    BY <1>1, <1>3, <1>14 DEF Tells
  <2> QED BY <1>1, <1>12, <1>14, <2>1 DEF Tells, Informed, Covers
<1>20. Taken' \subseteq Taken \cup Held(ks)
  BY <1>9, <1>12, <1>13 DEF Taken
<1>21. ASSUME NEW m \in 1..Len(links)
       PROVE  /\ Live(links'[m]) \subseteq Live(links[m]) /\ (links'[m].open => InOrder(links'[m].inbox, links'[m].owner))
              /\ Below(Held(ks), Live(links'[m]))
  <2>1. Mild(links[m], links'[m]) /\ (links[m].open => InOrder(links[m].inbox, links[m].owner)) /\ links[m].owner \in Clients
    BY <1>1, <1>16 DEF Ordered, TermTypes, Sound, LinkRecs
  <2>2. Live(links'[m]) \subseteq Live(links[m]) /\ (links'[m].open => InOrder(links'[m].inbox, links'[m].owner))
    BY <2>1 DEF Mild, Less, Live
  <2>3. CASE m = l
    BY <1>7, <1>14, <2>2, <2>3
  <2>4. CASE l < m
    <3>1. Below(Live(k), Live(links[m]))
      BY <1>1, <2>4 DEF Ordered
    <3>2. Below(Held(ks), Live(links'[m]))
      BY <1>6, <2>2, <3>1 DEF Below
    <3> QED BY <2>2, <3>2
  <2>5. CASE m < l
    <3>1. m \in 1..l - 1
      BY <1>1, <2>5 DEF TermTypes
    <3>2. ~(links[m].open /\ links[m].inbox # <<>>)
      BY <3>1 DEF T!First, T!Blocked
    <3>3. Live(links[m]) = {}
      BY <3>2, HeldEmpty DEF Live, Carried
    <3> QED BY <2>2, <3>3 DEF Below
  <2>6. m = l \/ l < m \/ m < l
    OBVIOUS
  <2> QED BY <2>3, <2>4, <2>5, <2>6
<1>22. Lined'
  <2>1. Below(Held(shell.got), Held(w.pty)) /\ Below(Held(shell.got), Held(w.pending))
    BY <1>1, <1>8, <1>9 DEF Ordered, Lined, Taken, Below
  <2> QED BY <1>1, <1>9, <1>12, <1>13, <2>1 DEF Ordered, Lined
<1>23. Ordered'
  <2>1. ASSUME NEW m \in 1..Len(links) PROVE Below(Taken', Live(links'[m]))
    <3>1. Below(Taken, Live(links[m]))
      BY <1>1 DEF Ordered
    <3> QED BY <1>20, <1>21, <3>1 DEF Below
  <2>2. ASSUME NEW i \in 1..Len(links), NEW m \in 1..Len(links), i < m PROVE Below(Live(links'[i]), Live(links'[m]))
    <3>1. Below(Live(links[i]), Live(links[m]))
      BY <1>1, <2>2 DEF Ordered
    <3> QED BY <1>21, <3>1 DEF Below
  <2>3. ASSUME NEW z \in Clients PROVE Waits(z)'
    <3>1. Waits(z)
      BY <1>1 DEF Ordered
    <3>2. Below(Live(k), Held(client[z].pending)) /\ Below(Taken, Held(client[z].pending))
      BY <3>1 DEF Waits
    <3>3. Below(Taken', Held(client[z].pending))
      BY <1>6, <1>20, <3>2 DEF Below
    <3>4. \A m \in 1..Len(links) : Below(Live(links'[m]), Held(client[z].pending))
      BY <1>21, <3>1 DEF Waits, Below
    <3> QED BY <1>14, <3>1, <3>3, <3>4 DEF Waits
  <2>4. ASSUME NEW e \in (Taken \cup UNION {Live(links[m]) : m \in 1..Len(links)})' PROVE e \in Strokes /\ e[2] <= client'[e[1]].typed
    <3>1. e \in Taken \cup UNION {Live(links[m]) : m \in 1..Len(links)}
      <4>1. CASE e \in Taken'
        BY <1>6, <1>20, <4>1
      <4>2. CASE \E m \in 1..Len(links) : e \in Live(links'[m])
        BY <1>21, <4>2
      <4>3. e \in Taken' \/ \E m \in 1..Len(links) : e \in Live(links'[m])
        BY <1>14
      <4> QED BY <4>1, <4>2, <4>3
    <3> QED BY <1>1, <3>1 DEF Ordered
  <2> QED BY <1>14, <1>21, <1>22, <2>1, <2>2, <2>3, <2>4 DEF Ordered
<1> QED BY <1>15, <1>18, <1>19, <1>23 DEF TermInv

LEMMA ReadsKeeps ==
  ASSUME TermInv, NEW l \in 1..Len(links), T!Reads(l)
  PROVE  TermInv'
<1> DEFINE k == links[l]
           h == [k EXCEPT !.inbox = Tail(k.inbox)]
           f == Head(k.inbox)
<1>1. k.open /\ T!First(l) /\ client' = client
  BY DEF T!Reads
<1>2. Sound(k) /\ Informed(k) /\ client' \in [Clients -> ClientRecs] /\ Calm
  BY <1>1, ReadIs
<1>3. CASE links' = [links EXCEPT ![l] = T!Closed(k)] /\ UNCHANGED T!session
  BY <1>1, <1>2, <1>3, CloseKeeps DEF T!session
<1>4. CASE k.inbox # <<>> /\ f.k = "attach" /\ T!ReadAttach(l, f)
  <2>1. CASE /\ sess = "live" /\ links' = [links EXCEPT ![l] = T!Joins(h)] /\ UNCHANGED T!session
    BY <1>1, <1>4, <2>1, JoinKeeps DEF T!session
  <2>2. CASE /\ T!Spawns(f) /\ links' = [links EXCEPT ![l] = [T!Joins(h) EXCEPT !.shown = 1..shell.made]]
             /\ shell' = [shell EXCEPT !.up = TRUE, !.life = shell.life + 1, !.pty = <<>>]
             /\ sess' = "live"
             /\ input' = [pending |-> <<>>, full |-> FALSE]
             /\ polled' = [polled EXCEPT !.n = shell.made]
             /\ ran' = IF f.cmd THEN [ran EXCEPT ![h.owner] = ran[h.owner] + 1] ELSE ran
    <3>1. h.owner = k.owner
      BY <1>2, <1>4, NextIs
    <3>2. ran' = IF f.cmd THEN [ran EXCEPT ![k.owner] = ran[k.owner] + 1] ELSE ran
      BY <2>2, <3>1
    <3>3. PICK g : g = f
      OBVIOUS
    <3>4. /\ g = Head(k.inbox) /\ g.k = "attach" /\ T!Spawns(g) /\ k.inbox # <<>>
          /\ ran' = IF g.cmd THEN [ran EXCEPT ![k.owner] = ran[k.owner] + 1] ELSE ran
      BY <1>4, <2>2, <3>2, <3>3
    <3> QED BY <1>1, <2>2, <3>4, SpawnKeeps
  <2>3. CASE links' = [links EXCEPT ![l] = T!Enqueued(h, [k |-> "died"])] /\ UNCHANGED T!session
    BY <1>1, <1>4, <2>3, RefuseKeeps DEF T!session
  <2> QED BY <1>4, <2>1, <2>2, <2>3 DEF T!ReadAttach
<1>5. CASE k.inbox # <<>> /\ f.k = "keys" /\ T!ReadKeys(l, f.ks)
  <2>0. Sound(h) /\ h.owner = k.owner /\ h.at = k.at /\ Informed(h) /\ Mild(k, h)
    BY <1>2, <1>5, NextIs
  <2>1. CASE /\ h.at /\ shell' = [shell EXCEPT !.pty = T!Written(f.ks).pty]
             /\ input' = [pending |-> T!Written(f.ks).pending, full |-> T!Written(f.ks).full]
             /\ links' = [links EXCEPT ![l] = h] /\ UNCHANGED <<sess, polled, ran>>
    BY <1>1, <1>5, <2>0, <2>1, TakeKeeps
  <2>2. CASE links' = [links EXCEPT ![l] = T!Closed(h)] /\ UNCHANGED T!session
    <3> HIDE DEF h
    <3> QED BY <1>1, <2>0, <2>2, CloseKeeps DEF T!session
  <2>3. CASE links' = [links EXCEPT ![l] = h] /\ UNCHANGED T!session
    <3> HIDE DEF h
    <3> QED BY <1>1, <1>2, <2>0, <2>3, PutKeeps DEF T!session
  <2> QED BY <1>5, <2>1, <2>2, <2>3 DEF T!ReadKeys
<1>6. CASE /\ k.inbox # <<>> /\ links' = [links EXCEPT ![l].inbox = Tail(k.inbox), ![l].at = FALSE] /\ UNCHANGED T!session
  BY <1>1, <1>6, DetachKeeps DEF T!session
<1> QED BY <1>3, <1>4, <1>5, <1>6 DEF T!Reads

-----------------------------------------------------------------------------
(* The rest of the loop, and the shell. *)

LEMMA SeqIs ==
  ASSUME NEW S, NEW n \in Nat, NEW s \in [1..n -> S]
  PROVE  s \in Seq(S) /\ Len(s) = n
OBVIOUS

LEMMA TickKeeps ==
  ASSUME TermInv, T!Tick
  PROVE  TermInv'
<1>1. TermTypes /\ Tells /\ Ordered
  BY DEF TermInv
<1>2. UNCHANGED <<client, shell, ran>>
  BY DEF T!Tick
<1>3. \/ /\ sess = "live" /\ polled' = [n |-> shell.made, ring |-> polled.ring \cup T!Unread]
         /\ sess' = IF shell.up THEN sess ELSE "died"
         /\ input' = IF shell.up THEN input ELSE [pending |-> <<>>, full |-> FALSE]
      \/ sess # "live" /\ UNCHANGED <<polled, sess, input>>
  BY DEF T!Tick
<1>4. /\ links \in Seq(LinkRecs) /\ (\A l \in 1..Len(links) : Sound(links[l])) /\ Len(links) \in Nat /\ DOMAIN links = 1..Len(links)
      /\ shell.made \in Nat /\ polled.n \in Nat /\ polled.ring \in SUBSET Nat
  BY <1>1 DEF TermTypes
<1>5. T!Unread \in SUBSET Nat /\ 1..shell.made \subseteq 1..polled.n \cup T!Unread
  BY <1>4 DEF T!Unread
<1>6. ASSUME NEW l \in 1..Len(links)
      PROVE  /\ Flows(links[l], Ticked(links[l]))
             /\ ~links[l].cut /\ T!Target(links[l]) /\ sess = "live" =>
                  /\ T!Unread # {} =>
                       \/ [k |-> "out", of |-> T!Unread] \in Sent(Ticked(links[l])) \cup Held(Ticked(links[l]).outq)
                       \/ Warned(Ticked(links[l]))
                  /\ ~shell.up => [k |-> "died"] \in Sent(Ticked(links[l])) \/ Ticked(links[l]).lost
  BY <1>4, <1>5, TickedFlows
<1>7. links' = [l \in 1..Len(links) |-> Ticked(links[l])]
  BY <1>4, TickIs
<1>8. ASSUME NEW l \in 1..Len(links) PROVE links'[l] = Ticked(links[l]) /\ Sound(links'[l])
  BY <1>6, <1>7 DEF Flows
<1>9. links' \in Seq(LinkRecs) /\ Len(links') = Len(links)
  <2>1. links' \in [1..Len(links) -> LinkRecs]
    BY <1>7, <1>8 DEF Sound
  <2> QED BY <1>4, <2>1, SeqIs
<1>10. polled' \in [n : Nat, ring : SUBSET Nat] /\ sess' \in {"none", "live", "died"}
  <2> DEFINE r == polled.ring \cup T!Unread
  <2>1. r \in SUBSET Nat
    BY <1>4, <1>5
  <2>2. polled' = [n |-> shell.made, ring |-> r] \/ polled' = polled
    BY <1>3
  <2> HIDE DEF r
  <2>3. polled' \in [n : Nat, ring : SUBSET Nat]
    <3>1. CASE polled' = [n |-> shell.made, ring |-> r]
      BY <1>4, <2>1, <3>1
    <3>2. CASE polled' = polled
      BY <1>1, <3>2 DEF TermTypes
    <3> QED BY <2>2, <3>1, <3>2
  <2>4. sess' \in {"none", "live", "died"}
    BY <1>1, <1>3 DEF TermTypes
  <2> QED BY <2>3, <2>4
<1>11. /\ input' \in [pending : Seq(Strokes), full : BOOLEAN]
       /\ input'.pending = input.pending \/ input'.pending = <<>>
  <2> DEFINE no == <<>>
  <2>1. no \in Seq(Strokes) /\ input \in [pending : Seq(Strokes), full : BOOLEAN] /\ no = <<>>
    BY <1>1 DEF TermTypes
  <2>2. input' = input \/ input' = [pending |-> no, full |-> FALSE]
    BY <1>3
  <2> HIDE DEF no
  <2>3. CASE input' = input
    BY <2>1, <2>3
  <2>4. CASE input' = [pending |-> no, full |-> FALSE]
    BY <2>1, <2>4
  <2> QED BY <2>2, <2>3, <2>4
<1>12. TermTypes'
  BY <1>1, <1>2, <1>8, <1>9, <1>10, <1>11 DEF TermTypes
<1>13. ASSUME NEW l \in 1..Len(links) PROVE Mild(links[l], links'[l])
  <2>1. links[l].inbox \in Seq(Requests)
    BY <1>4 DEF Sound, LinkRecs
  <2>2. Same(links[l], links'[l])
    BY <1>6, <1>8 DEF Flows
  <2> QED BY <2>1, <2>2, LessSame DEF Same, Mild
<1>14. Calm
  BY <1>2, CalmIs
<1>15. Lined' /\ Taken' \subseteq Taken
  <2>1. Lined
    BY <1>1 DEF Ordered
  <2>2. Rising(<<>>)
    BY DEF Rising
  <2> QED BY <1>2, <1>11, <2>1, <2>2, HeldEmpty DEF Lined, Taken, Below
<1>16. Tells'
  <2>1. sess' # "live" => ~shell'.up /\ polled'.n = shell'.made
    BY <1>1, <1>2, <1>3 DEF Tells
  <2>2. ASSUME NEW l \in 1..Len(links) PROVE Informed(links[l])'
    <3> DEFINE k == links[l]
               h == links'[l]
               f == [k |-> "out", of |-> T!Unread]
    <3>1. Flows(k, h) /\ Informed(k)
      BY <1>1, <1>6, <1>8 DEF Tells
    <3>2. CASE sess # "live"
      <4>1. Informed(h)
        BY <3>1, FlowsInforms
      <4> QED BY <1>3, <3>2, <4>1 DEF Informed, Covers
    <3>3. CASE sess = "live"
      <4> SUFFICES ASSUME T!Target(h), ~h.cut
                   PROVE  /\ \/ 1..shell.made \subseteq h.shown \cup UNION {T!Shows(e) : e \in Sent(h) \cup Held(h.outq)}
                             \/ Warned(h)
                          /\ ~shell.up => h.lost \/ \E e \in Sent(h) : e.k = "died"
        BY <1>3, <3>3 DEF Informed, Covers
      <4>1. T!Target(k) /\ ~k.cut /\ h.shown = k.shown
        BY <3>1 DEF Flows, Same, T!Target
      <4>2. /\ T!Unread # {} => f \in Sent(h) \cup Held(h.outq) \/ Warned(h)
            /\ ~shell.up => [k |-> "died"] \in Sent(h) \/ h.lost
        BY <1>6, <1>8, <3>3, <4>1
      <4>3. /\ Sent(k) \subseteq Sent(h) /\ (Held(k.outq) \subseteq Sent(h) \cup Held(h.outq) \/ Warned(h))
            /\ (Warned(k) => Warned(h))
        BY <3>1, <4>1, WarnedStays DEF Flows
      <4>4. Covers(k)
        BY <3>1, <4>1 DEF Informed
      <4>5. T!Shows(f) = T!Unread
        BY DEF T!Shows
      <4>6. ASSUME ~Warned(h)
            PROVE  1..shell.made \subseteq h.shown \cup UNION {T!Shows(e) : e \in Sent(h) \cup Held(h.outq)}
        <5>1. Sent(k) \cup Held(k.outq) \subseteq Sent(h) \cup Held(h.outq)
          BY <4>3, <4>6
        <5>2. 1..polled.n \subseteq h.shown \cup UNION {T!Shows(e) : e \in Sent(h) \cup Held(h.outq)}
          BY <4>1, <4>3, <4>4, <4>6, <5>1 DEF Covers
        <5>3. T!Unread \subseteq UNION {T!Shows(e) : e \in Sent(h) \cup Held(h.outq)}
          <6> HIDE DEF f
          <6> QED BY <4>2, <4>5, <4>6
        <5> QED BY <1>5, <5>2, <5>3
      <4> QED BY <4>2, <4>6
    <3> QED BY <3>2, <3>3
  <2> QED BY <1>9, <2>1, <2>2 DEF Tells
<1> QED BY <1>2, <1>9, <1>12, <1>13, <1>14, <1>15, <1>16, MildKeeps

\* Nothing becomes of the connections and the clients.
LEMMA QuietKeeps ==
  ASSUME TermInv, UNCHANGED <<client, links, ran>>, TermTypes', Lined', Taken' \subseteq Taken, Tells'
  PROVE  TermInv'
<1>1. ASSUME NEW m \in 1..Len(links) PROVE Mild(links[m], links'[m])
  <2>1. links[m].inbox \in Seq(Requests)
    BY DEF TermInv, TermTypes, Sound, LinkRecs
  <2> QED BY <2>1, LessSame DEF Mild
<1>2. Calm
  BY CalmIs
<1> QED BY <1>1, <1>2, MildKeeps

LEMMA ReapKeeps ==
  ASSUME TermInv, T!Reap
  PROVE  TermInv'
<1>1. TermTypes /\ Tells /\ Ordered
  BY DEF TermInv
<1>2. /\ UNCHANGED <<client, links, shell, input, ran>> /\ polled' = [polled EXCEPT !.n = shell.made]
      /\ sess = "live" /\ sess' = IF shell.up THEN sess ELSE "died"
  BY DEF T!Reap
<1>3. polled' \in [n : Nat, ring : SUBSET Nat] /\ polled'.n = shell.made
  BY <1>1, <1>2 DEF TermTypes
<1>4. TermTypes'
  BY <1>1, <1>2, <1>3 DEF TermTypes
<1>5. Lined' /\ Taken' = Taken
  BY <1>1, <1>2 DEF Ordered, Lined, Taken
<1>6. \A l \in 1..Len(links) : ~T!Target(links[l])
  BY <1>1 DEF T!Reap, T!Attached, TermTypes
<1>7. Tells'
  BY <1>1, <1>2, <1>3, <1>6 DEF Tells, Informed
<1> QED BY <1>2, <1>4, <1>5, <1>7, QuietKeeps

LEMMA DrainInputKeeps ==
  ASSUME TermInv, T!DrainInput
  PROVE  TermInv'
<1> DEFINE w == T!Written(<<>>)
           full == input.full /\ w.pending # <<>>
<1>1. TermTypes /\ Tells /\ Ordered
  BY DEF TermInv
<1>2. input \in [pending : Seq(Strokes), full : BOOLEAN] /\ input.pending \o <<>> = input.pending
  BY <1>1, ConcatEmptySeq DEF TermTypes
<1>3. /\ UNCHANGED <<client, links, sess, polled, ran>>
      /\ shell' = [shell EXCEPT !.pty = w.pty] /\ input' = [pending |-> w.pending, full |-> full]
  BY <1>2 DEF T!DrainInput, T!Written
<1>4. <<>> \in Seq(Strokes) /\ Held(<<>>) = {} /\ Rising(<<>>)
  <2>1. <<>> \in Seq(Strokes)
    OBVIOUS
  <2>2. Rising(<<>>)
    BY DEF Rising
  <2> QED BY <2>1, <2>2, HeldEmpty
<1>5. Below(Taken, Held(<<>>))
  BY <1>4 DEF Below
<1>6. /\ w.pty \in Seq(Strokes) /\ w.pending \in Seq(Strokes) /\ Len(w.pty) <= PtyRoom
      /\ Rising(w.pty) /\ Rising(w.pending) /\ Below(Held(w.pty), Held(w.pending))
      /\ Held(w.pty) \cup Held(w.pending) \subseteq Held(shell.pty) \cup Held(input.pending)
  BY <1>4, <1>5, WrittenIs
<1>7. full \in BOOLEAN
  BY <1>2
<1> HIDE DEF w, full
<1>8. shell \in [up : BOOLEAN, life : Nat, made : Nat, pty : Seq(Strokes), got : Seq(Strokes)]
  BY <1>1 DEF TermTypes
<1>9. shell' \in [up : BOOLEAN, life : Nat, made : Nat, pty : Seq(Strokes), got : Seq(Strokes)]
      /\ shell'.up = shell.up /\ shell'.made = shell.made /\ shell'.got = shell.got /\ shell'.pty = w.pty
  BY <1>3, <1>6, <1>8
<1>10. input' \in [pending : Seq(Strokes), full : BOOLEAN] /\ input'.pending = w.pending
  BY <1>3, <1>6, <1>7
<1>11. TermTypes'
  BY <1>1, <1>3, <1>6, <1>9, <1>10 DEF TermTypes
<1>12. Taken' \subseteq Taken
  BY <1>6, <1>9, <1>10 DEF Taken
<1>13. Lined'
  <2>1. Below(Held(shell.got), Held(w.pty)) /\ Below(Held(shell.got), Held(w.pending))
    BY <1>1, <1>6 DEF Ordered, Lined, Below
  <2> QED BY <1>1, <1>6, <1>9, <1>10, <2>1 DEF Ordered, Lined
<1>14. Tells'
  BY <1>1, <1>3, <1>9 DEF Tells, Informed, Covers
<1> QED BY <1>3, <1>11, <1>12, <1>13, <1>14, QuietKeeps

LEMMA EatsKeeps ==
  ASSUME TermInv, T!Eats
  PROVE  TermInv'
<1> DEFINE t == Tail(shell.pty)
           x == Head(shell.pty)
           g == Append(shell.got, x)
<1>1. TermTypes /\ Tells /\ Ordered
  BY DEF TermInv
<1>2. /\ UNCHANGED <<client, links, sess, input, polled, ran>> /\ shell.pty # <<>>
      /\ shell' = [shell EXCEPT !.pty = t, !.got = g]
  BY DEF T!Eats
<1>3. /\ shell \in [up : BOOLEAN, life : Nat, made : Nat, pty : Seq(Strokes), got : Seq(Strokes)]
      /\ shell.pty \in Seq(Strokes) /\ shell.got \in Seq(Strokes) /\ Len(shell.pty) <= PtyRoom /\ PtyRoom \in Nat
  BY <1>1, TerminalAssumption DEF TermTypes
<1>4. x \in Strokes /\ t \in Seq(Strokes) /\ Len(t) = Len(shell.pty) - 1 /\ Len(shell.pty) \in Nat
      /\ Held(shell.pty) = {x} \cup Held(t)
  BY <1>2, <1>3, HeldTail
<1>5. Rising(t) /\ Below({x}, Held(t))
  BY <1>1, <1>2, <1>3, RisingTail DEF Ordered, Lined
<1> HIDE DEF t, x
<1>6. Len(t) <= PtyRoom
  BY <1>3, <1>4
<1>7. g \in Seq(Strokes) /\ Held(g) = Held(shell.got) \cup {x} /\ g = shell.got \o <<x>>
  BY <1>3, <1>4, HeldAppend, AppendIsConcat
<1>8. Rising(g)
  <2>1. <<x>> \in Seq(Strokes) /\ Held(<<x>>) = {x} /\ Rising(<<x>>)
    BY <1>4, HeldOne, RisingShort
  <2>2. Rising(shell.got) /\ Below(Held(shell.got), {x})
    BY <1>1, <1>4 DEF Ordered, Lined, Below
  <2> QED BY <1>3, <1>7, <2>1, <2>2, RisingJoin
<1> HIDE DEF g
<1>9. shell' \in [up : BOOLEAN, life : Nat, made : Nat, pty : Seq(Strokes), got : Seq(Strokes)]
      /\ shell'.up = shell.up /\ shell'.made = shell.made /\ shell'.got = g /\ shell'.pty = t
  BY <1>2, <1>3, <1>4, <1>7
<1>10. TermTypes'
  BY <1>1, <1>2, <1>6, <1>9 DEF TermTypes
<1>11. Taken' = Taken
  BY <1>2, <1>4, <1>7, <1>9 DEF Taken
<1>12. Lined'
  <2>1. Lined
    BY <1>1 DEF Ordered
  <2>2. Below(Held(g), Held(t)) /\ Below(Held(g), Held(input.pending)) /\ Below(Held(t), Held(input.pending))
    BY <1>4, <1>5, <1>7, <2>1 DEF Lined, Below
  <2> QED BY <1>2, <1>5, <1>8, <1>9, <2>1, <2>2 DEF Lined
<1>13. Tells'
  BY <1>1, <1>2, <1>9 DEF Tells, Informed, Covers
<1> QED BY <1>2, <1>10, <1>11, <1>12, <1>13, QuietKeeps

\* A shell that prints or exits.
LEMMA ShellKeeps ==
  ASSUME TermInv, T!Prints \/ T!Exits
  PROVE  TermInv'
<1>1. TermTypes /\ Tells /\ Ordered
  BY DEF TermInv
<1>2. UNCHANGED <<client, links, sess, input, polled, ran>> /\ shell.up
  BY DEF T!Prints, T!Exits
<1>3. shell \in [up : BOOLEAN, life : Nat, made : Nat, pty : Seq(Strokes), got : Seq(Strokes)]
  BY <1>1 DEF TermTypes
<1>4. shell' \in [up : BOOLEAN, life : Nat, made : Nat, pty : Seq(Strokes), got : Seq(Strokes)]
      /\ shell'.got = shell.got /\ shell'.pty = shell.pty
  <2>1. CASE T!Prints
    <3> DEFINE n == shell.made + 1
    <3>1. n \in Nat /\ shell' = [shell EXCEPT !.made = n]
      BY <1>3, <2>1 DEF T!Prints
    <3> HIDE DEF n
    <3> QED BY <1>3, <3>1
  <2>2. CASE T!Exits
    <3>1. shell' = [shell EXCEPT !.up = FALSE]
      BY <2>2 DEF T!Exits
    <3> QED BY <1>3, <3>1
  <2> QED BY <2>1, <2>2
<1>5. TermTypes'
  BY <1>1, <1>2, <1>4 DEF TermTypes
<1>6. Lined' /\ Taken' = Taken
  BY <1>1, <1>2, <1>4 DEF Ordered, Lined, Taken
<1>7. Tells'
  BY <1>1, <1>2 DEF Tells, Informed, Covers
<1> QED BY <1>2, <1>5, <1>6, <1>7, QuietKeeps

LEMMA TerminalKeeps ==
  ASSUME TermInv, T!Next \/ UNCHANGED terminalVars
  PROVE  TermInv'
<1>1. ASSUME NEW x \in Clients, T!Client(x) PROVE TermInv'
  BY <1>1, DialKeeps, ResendKeeps, TypeKeeps, LeaveKeeps, FrameKeeps, NoticeKeeps DEF T!Client
<1>2. DOMAIN links = 1..Len(links)
  BY DEF TermInv, TermTypes
<1>3. CASE T!Daemon
  BY <1>2, <1>3, ReadsKeeps, TickKeeps, ReapKeeps, DrainInputKeeps DEF T!Daemon
<1>4. CASE T!Prints \/ T!Exits
  BY <1>4, ShellKeeps
<1>5. CASE T!Eats
  BY <1>5, EatsKeeps
<1>6. ASSUME NEW l \in DOMAIN links, T!Break(l) PROVE TermInv'
  BY <1>2, <1>6, BreakKeeps
<1>7. CASE UNCHANGED terminalVars
  <2>1. UNCHANGED <<client, links, shell, sess, input, polled, ran>>
    BY <1>7 DEF terminalVars
  <2>2. client' \in [Clients -> ClientRecs]
    BY <2>1 DEF TermInv, TermTypes
  <2>3. Calm
    BY <2>1, CalmIs
  <2> QED BY <2>1, <2>2, <2>3, StayKeeps
<1> QED BY <1>1, <1>3, <1>4, <1>5, <1>6, <1>7 DEF T!Next

LEMMA TermInvCorrect == LinkSpec => []TermInv
<1>1. LinkInit => TermInv
  <2> SUFFICES ASSUME T!Init PROVE TermInv
    BY DEF LinkInit
  <2> DEFINE no == <<>>
             none == {}
  <2>1. no \in Seq(Strokes) /\ no \in Seq(LinkRecs) /\ no = <<>> /\ Len(no) = 0 /\ Held(no) = {} /\ none \in SUBSET Nat
    BY HeldEmpty
  <2>2. /\ client = [x \in Clients |-> [at |-> "away", link |-> 0, typed |-> 0, pending |-> no, asked |-> FALSE]]
        /\ links = no /\ shell = [up |-> FALSE, life |-> 0, made |-> 0, pty |-> no, got |-> no] /\ sess = "none"
        /\ input = [pending |-> no, full |-> FALSE] /\ polled = [n |-> 0, ring |-> none] /\ ran = [x \in Clients |-> 0]
    BY DEF T!Init
  <2> HIDE DEF no, none
  <2>3. TermTypes
    BY <2>1, <2>2, TerminalAssumption DEF TermTypes, ClientRecs
  <2>4. Wired /\ Tells /\ Once
    BY <2>1, <2>2 DEF Wired, Tells, Once
  <2>5. Rising(no)
    BY <2>1 DEF Rising
  <2>6. Ordered
    BY <2>1, <2>2, <2>5 DEF Ordered, Lined, Taken, Waits, Below
  <2> QED BY <2>3, <2>4, <2>6 DEF TermInv
<1>2. TermInv /\ [LinkNext]_<<traffic, vars, terminalVars>> => TermInv'
  BY TerminalKeeps DEF LinkNext
<1> QED BY <1>1, <1>2, PTL DEF LinkSpec

\* Whatever the clients type, however small the queues, the buffers and the backlog are, and however often connections
\* break: keys reach the shells in the order their client typed them in and no key twice.
THEOREM KeysCorrect == LinkSpec => []KeysInOrder
<1>1. TermInv => KeysInOrder
  <2> SUFFICES ASSUME TermInv PROVE T!KeysInOrder
    BY DEF KeysInOrder
  <2>1. shell.got \in Seq(Strokes) /\ Rising(shell.got)
    BY DEF TermInv, TermTypes, Ordered, Lined
  <2>2. DOMAIN shell.got = 1..Len(shell.got)
    BY <2>1
  <2> QED BY <2>1, <2>2 DEF T!KeysInOrder, Rising
<1> QED BY <1>1, TermInvCorrect, PTL

\* However often a client reconnects and sessions end, its command is started once at most.
THEOREM CommandCorrect == LinkSpec => []CommandOnce
<1>1. TermInv => CommandOnce
  BY DEF TermInv, Once, CommandOnce, T!CommandOnce
<1> QED BY <1>1, TermInvCorrect, PTL

\* Whatever a client that is attached has missed of the output, however it came, is announced to it, and a session only
\* counts as ended once all the shell printed has been read.
THEOREM LossCorrect == LinkSpec => []NoSilentLoss
<1>1. TermInv => NoSilentLoss
  <2> SUFFICES ASSUME TermInv PROVE T!NoSilentLoss
    BY DEF NoSilentLoss
  <2>1. Tells /\ links \in Seq(LinkRecs) /\ \A l \in 1..Len(links) : links[l] \in LinkRecs
    BY DEF TermInv, TermTypes
  <2>2. sess = "died" => polled.n = shell.made
    BY <2>1 DEF Tells
  <2>3. ASSUME NEW q \in Seq(Answers)
        PROVE  /\ T!Covered(q) = UNION {T!Shows(f) : f \in Held(q)}
               /\ (\E i \in DOMAIN q : q[i].k = "gap") <=> \E f \in Held(q) : f.k = "gap"
    <3>1. DOMAIN q = 1..Len(q)
      OBVIOUS
    <3> QED BY <3>1 DEF T!Covered, Held
  <2>4. ASSUME NEW l \in T!Attached, ~links[l].cut
        PROVE  \/ 1..polled.n \subseteq links[l].shown \cup T!Covered(links[l].wire) \cup T!Covered(links[l].tx)
                                        \cup T!Covered(links[l].outq)
               \/ T!Announced(links[l])
    <3> DEFINE k == links[l]
    <3>1. l \in 1..Len(links) /\ T!Target(k) /\ k \in LinkRecs
      BY <2>1 DEF T!Attached
    <3>2. Covers(k)
      BY <2>1, <2>4, <3>1 DEF Tells, Informed
    <3> HIDE DEF k
    <3>3. k.wire \in Seq(Answers) /\ k.tx \in Seq(Answers) /\ k.outq \in Seq(Answers)
      BY <3>1 DEF LinkRecs
    <3>4. CASE Warned(k)
      <4>1. k.warned \/ k.gap \/ (\E f \in Held(k.tx) : f.k = "gap") \/ \E f \in Held(k.wire) : f.k = "gap"
        BY <3>4 DEF Warned, Sent
      <4>2. T!Announced(k)
        BY <2>3, <3>3, <4>1 DEF T!Announced
      <4> QED BY <4>2 DEF k
    <3>5. CASE 1..polled.n \subseteq k.shown \cup UNION {T!Shows(f) : f \in Sent(k) \cup Held(k.outq)}
      <4>1. UNION {T!Shows(f) : f \in Sent(k) \cup Held(k.outq)}
              \subseteq T!Covered(k.wire) \cup T!Covered(k.tx) \cup T!Covered(k.outq)
        BY <2>3, <3>3 DEF Sent
      <4> QED BY <3>5, <4>1 DEF k
    <3> QED BY <3>2, <3>4, <3>5 DEF Covers
  <2> QED BY <2>2, <2>4 DEF T!NoSilentLoss
<1> QED BY <1>1, TermInvCorrect, PTL

\* Once the session has ended, whoever is attached has the end on its way, unless its full queue swallowed it.
THEOREM EndCorrect == LinkSpec => []EndTold
<1>1. TermInv => EndTold
  <2> SUFFICES ASSUME TermInv, sess = "died", NEW l \in T!Attached, ~links[l].cut, ~links[l].lost
               PROVE  \E q \in {links[l].tx, links[l].wire} : \E i \in DOMAIN q : q[i].k = "died"
    BY DEF EndTold, T!EndTold
  <2> DEFINE k == links[l]
  <2>1. l \in 1..Len(links) /\ T!Target(k) /\ k \in LinkRecs
    BY DEF TermInv, TermTypes, T!Attached
  <2>2. \E f \in Sent(k) : f.k = "died"
    BY <2>1 DEF TermInv, Tells, Informed
  <2> HIDE DEF k
  <2>3. k.wire \in Seq(Answers) /\ k.tx \in Seq(Answers)
    BY <2>1 DEF LinkRecs
  <2>4. DOMAIN k.wire = 1..Len(k.wire) /\ DOMAIN k.tx = 1..Len(k.tx)
    BY <2>3
  <2> QED BY <2>2, <2>4 DEF Sent, Held, k
<1> QED BY <1>1, TermInvCorrect, PTL
=============================================================================

-------------------------------- MODULE Gossip --------------------------------
(***************************************************************************)
(* How daemons tell each other which peers exist: the Hello of a new       *)
(* connection, delta gossip (build_gossip, broadcast_gossip, merge_peers), *)
(* announcements on the LAN, and the pruning of peers that went silent.    *)
(* From bs-mesh-conn.h, bs-mesh-transfer.h and bs-mesh-cli.h.              *)
(*                                                                         *)
(* gossip_generation_ and a connection's last_gossip_generation are only   *)
(* ever compared: `told' says that they are equal.  An entry's last_seen   *)
(* is only compared with the TTL: `fresh'.  Names are distinct, so that    *)
(* the key decides; trust does not change (see Enrollment).                *)
(***************************************************************************)
EXTENDS Integers, Sequences, FiniteSets

CONSTANTS
  Nodes,      \* the daemons of the model
  Guests,     \* peers no configuration names
  Pins,       \* Pins[n]: the daemons n's configuration names with their keys
  Trusts,     \* Trusts[n]: the guests in n's authorized_keys
  Enrolls,    \* <<n, g>>: n can be given an enrollment of g
  Calls,      \* <<n, g>>: g dials n
  Lan,        \* <<n, g>>: n hears g's announcements
  Forgets,    \* the daemons whose discovered_ttl_secs is not 0
  QueueMax,   \* frames of gossip that fit on a connection (kTxQueueHighWaterBytes and the kernel's buffers)
  MaxRefused, \* connections on which the last list was refused, at one time
  MaxCuts     \* connections that break

ASSUME GossipAssumption ==
  /\ Pins \in [Nodes -> SUBSET Nodes] /\ Trusts \in [Nodes -> SUBSET Guests]
  /\ \A n \in Nodes : n \notin Pins[n] /\ \A m \in Pins[n] : n \in Pins[m]
  /\ \A R \in {Enrolls, Calls, Lan} : R \subseteq Nodes \X Guests
  /\ Forgets \subseteq Nodes /\ {QueueMax, MaxRefused, MaxCuts} \subseteq Nat

VARIABLES
  conn,    \* conn[n][m]: n's side of its connection to m
  told,    \* told[n][m]: nothing has changed at n since it last gossiped to m
  wire,    \* wire[n][m]: what n has sent and m has not read
  refused, \* history: <<n, m>> whose last list n did not queue for m
  known,   \* known[n][g]: n's entry for a guest
  visits,  \* visits[n]: the guests connected to n
  lost,    \* what was pruned where
  cuts

vars == <<conn, told, wire, refused, known, visits, lost, cuts>>

Absent == [at |-> "none", fresh |-> FALSE]
\* A guest's listening address, or the port a connection of its happened to come from.
Addrs == {"listen", "source"}
Entries == {Absent} \cup [at : Addrs, fresh : BOOLEAN]
Listings == SUBSET (Guests \X Addrs)
Messages == [k : {"hello", "gossip"}, peers : Listings, conns : Listings]

TypeOK ==
  /\ conn \in [Nodes -> [Nodes -> {"none", "hello", "up"}]]
  /\ told \in [Nodes -> [Nodes -> BOOLEAN]] /\ refused \subseteq Nodes \X Nodes
  /\ wire \in [Nodes -> [Nodes -> Seq(Messages)]]
  /\ known \in [Nodes -> [Guests -> Entries]]
  /\ visits \in [Nodes -> SUBSET Guests]
  /\ lost \subseteq Nodes \X Guests /\ cuts \in 0..MaxCuts

Init ==
  /\ conn = [n \in Nodes |-> [m \in Nodes |-> "none"]]
  /\ told = [n \in Nodes |-> [m \in Nodes |-> FALSE]] /\ refused = {}
  /\ wire = [n \in Nodes |-> [m \in Nodes |-> <<>>]]
  /\ known = [n \in Nodes |-> [g \in Guests |-> Absent]]
  /\ visits = [n \in Nodes |-> {}]
  /\ lost = {} /\ cuts = 0

cxns == <<conn, wire, refused, cuts>>

-----------------------------------------------------------------------------
Listed(n) == {g \in Guests : known[n][g] # Absent}

\* The daemons it lists as well, nobody merges: who trusts one of them has it as a seed.
Listing(n) == {<<g, known[n][g].at>> : g \in Listed(n) \cap Trusts[n]}

Hello(n) == [k |-> "hello", peers |-> Listing(n), conns |-> visits[n] \X {"source"}]
Update(n) == [k |-> "gossip", peers |-> Listing(n), conns |-> {}]

\* Connected peers are listed last, and the last address wins.
Given(msg, g) ==
  IF \E e \in msg.conns : e[1] = g THEN "source" ELSE (CHOOSE e \in msg.peers : e[1] = g)[2]

Offered(n, msg) == {g \in Trusts[n] : \E e \in msg.peers \cup msg.conns : e[1] = g}

Merged(n, msg) ==
  [g \in Guests |-> IF g \in Offered(n, msg) THEN [at |-> Given(msg, g), fresh |-> TRUE] ELSE known[n][g]]

\* A new peer or another address, even one the same message takes back.
News(n, msg) == \E e \in msg.peers \cup msg.conns : e[1] \in Trusts[n] /\ known[n][e[1]].at # e[2]

\* Mutant: what was learned from others is not passed on.
BumpedNever(n, news) == told

\* gossip_generation_ moves on.
Bumped(n, news) == IF news THEN [told EXCEPT ![n] = [m \in Nodes |-> FALSE]] ELSE told

-----------------------------------------------------------------------------
(* Connections. *)

\* n dials a seed; each side sends its Hello.
Connect(n, m) ==
  /\ m \in Pins[n] /\ conn[n][m] = "none" /\ conn[m][n] = "none"
  /\ conn' = [conn EXCEPT ![n][m] = "hello", ![m][n] = "hello"]
  /\ wire' = [wire EXCEPT ![n][m] = <<Hello(n)>>, ![m][n] = <<Hello(m)>>]
  /\ told' = [told EXCEPT ![n][m] = FALSE, ![m][n] = FALSE]
  /\ refused' = refused \ {<<n, m>>, <<m, n>>}
  /\ UNCHANGED <<known, visits, lost, cuts>>

\* n reads what m has sent: the Hello makes the connection one of its own.
Receive(n, m) ==
  /\ conn[n][m] # "none" /\ wire[m][n] # <<>>
  /\ LET msg == Head(wire[m][n]) IN
     /\ conn' = [conn EXCEPT ![n][m] = IF msg.k = "hello" THEN "up" ELSE @]
     /\ known' = [known EXCEPT ![n] = Merged(n, msg)]
     /\ told' = Bumped(n, News(n, msg))
  /\ wire' = [wire EXCEPT ![m][n] = Tail(@)]
  /\ UNCHANGED <<refused, visits, lost, cuts>>

\* enqueue_frame takes the list while there is room; what goes to an end that has closed is lost.
Queued(n, m) ==
  /\ Len(wire[n][m]) < QueueMax
  /\ wire' = [wire EXCEPT ![n][m] = IF conn[m][n] = "none" THEN @ ELSE Append(@, Update(n))]
  /\ refused' = refused \ {<<n, m>>}

\* enqueue_frame returns false: other frames fill the queue, a worker has just taken the connection, or encode throws.
Refused(n, m) ==
  /\ Cardinality(refused \cup {<<n, m>>}) <= MaxRefused
  /\ refused' = refused \cup {<<n, m>>}
  /\ UNCHANGED wire

\* One connection of the round: it is passed over while a worker owns it.  The result of enqueue_frame is not looked at:
\* last_gossip_generation moves on either way.
Broadcast(n, m) ==
  /\ conn[n][m] = "up" /\ ~told[n][m]
  /\ told' = [told EXCEPT ![n][m] = TRUE]
  /\ \/ Listing(n) = {} /\ UNCHANGED <<wire, refused>>
     \/ Listing(n) # {} /\ (Queued(n, m) \/ Refused(n, m))
  /\ UNCHANGED <<conn, known, visits, lost, cuts>>

\* n closes its end, first or second: the other end may still read what is on its way, until it closes as well.
Cut(n, m) ==
  /\ conn[n][m] # "none"
  /\ cuts' = IF conn[m][n] = "none" THEN cuts ELSE cuts + 1
  /\ cuts' <= MaxCuts
  /\ conn' = [conn EXCEPT ![n][m] = "none"]
  /\ wire' = [wire EXCEPT ![m][n] = <<>>, ![n][m] = IF conn[m][n] = "none" THEN <<>> ELSE @]
  /\ UNCHANGED <<told, refused, known, visits, lost>>

-----------------------------------------------------------------------------
(* Guests. *)

\* An enrollment n accepts.
Vouch(n, g) ==
  /\ <<n, g>> \in Enrolls /\ g \in Trusts[n] /\ known[n][g] = Absent
  /\ known' = [known EXCEPT ![n][g] = [at |-> "listen", fresh |-> TRUE]]
  /\ told' = [told EXCEPT ![n] = [m \in Nodes |-> FALSE]]
  /\ UNCHANGED <<cxns, visits, lost>>

\* process_mdns_announcement: the generation stays.
Announce(n, g) ==
  /\ <<n, g>> \in Lan /\ g \in Trusts[n]
  /\ known' = [known EXCEPT ![n][g] = [at |-> "listen", fresh |-> TRUE]]
  /\ UNCHANGED <<told, cxns, visits, lost>>

\* g dials n, or hangs up, for good perhaps.
Visit(n, g) ==
  /\ <<n, g>> \in Calls /\ g \in Trusts[n]
  /\ visits' = [visits EXCEPT ![n] = IF g \in @ THEN @ \ {g} ELSE @ \cup {g}]
  /\ UNCHANGED <<told, cxns, known, lost>>

\* Its last_seen is older than the TTL.
Age(n, g) ==
  /\ n \in Forgets /\ known[n][g].fresh
  /\ known' = [known EXCEPT ![n][g].fresh = FALSE]
  /\ UNCHANGED <<told, cxns, visits, lost>>

\* A peer that is connected stays, however old its last_seen.
Stale(n) == {g \in Listed(n) : ~known[n][g].fresh} \ visits[n]

Prune(n) ==
  /\ Stale(n) # {}
  /\ known' = [known EXCEPT ![n] = [g \in Guests |-> IF g \in Stale(n) THEN Absent ELSE @[g]]]
  /\ told' = [told EXCEPT ![n] = [m \in Nodes |-> FALSE]]
  /\ lost' = lost \cup ({n} \X Stale(n))
  /\ UNCHANGED <<cxns, visits>>

-----------------------------------------------------------------------------
Next ==
  \/ \E n, m \in Nodes : Connect(n, m) \/ Receive(n, m) \/ Broadcast(n, m) \/ Cut(n, m)
  \/ \E n \in Nodes, g \in Guests : Vouch(n, g) \/ Announce(n, g) \/ Visit(n, g) \/ Age(n, g)
  \/ \E n \in Nodes : Prune(n)

Spec == Init /\ [][Next]_vars

-----------------------------------------------------------------------------
(* What the code promises. *)

InFlight(n, m, g) == \E i \in DOMAIN wire[n][m] : \E e \in wire[n][m][i].peers : e[1] = g

\* To whom n is connected and has nothing new to tell, every guest n lists and both trust is known, or the news is on its way, or it was
\* known there and pruned.  This holds for what a daemon did not hear on the LAN.
Current(n, m) ==
  \A g \in Guests :
    (conn[n][m] = "up" /\ conn[m][n] # "none" /\ told[n][m] /\ g \in Listed(n) \cap Trusts[n] \cap Trusts[m] /\ <<n, g>> \notin Lan)
      => g \in Listed(m) \/ InFlight(n, m, g) \/ <<m, g>> \in lost

\* Delta gossip leaves nobody out, over relays, prunes and reconnects, but on a connection whose queue refused the last
\* list: there the news waits for the next change, or for the next connection.
ToldKnows == \A n, m \in Nodes : <<n, m>> \in refused \/ Current(n, m)
=============================================================================

------------------------------ MODULE MeshLink ------------------------------
(***************************************************************************)
(* The link between two daemons that trust each other: who dials, the      *)
(* non-blocking handshake, the tie break when both dial at once, duplicate *)
(* resolution, heartbeats, deferred closes and redials.  From              *)
(* bs-mesh-conn.h (accept_inbound, advance_handshakes, promote, resolve,   *)
(* close_conn) and bs-mesh-transfer.h (try_connect_to_seeds, ping and pong,*)
(* clean_dead_conns, daemon_reconnect_peer).                               *)
(*                                                                         *)
(* Each daemon is one event loop: a step is one handler for one            *)
(* connection.  A closed Conn leaves conns_ at once (the code erases it    *)
(* later in the same iteration).  Timers are booleans that may expire.     *)
(***************************************************************************)
EXTENDS Integers, FiniteSets

CONSTANTS
  Nodes,              \* the two daemons, ordered as their public keys are
  Links,              \* TCP connections: <<dialing node, number>>, reused
  MaxExtends,         \* kTieBreakMaxExtends
  CooldownThreshold,  \* kDeadSeedCooldownThreshold
  MaxFromSource,      \* handshakes pending from one source address
  MaxFaults,          \* bound on crashes, lost links, spurious timeouts, operator commands
  MaxBorrows          \* bound on operations that borrow a link

ASSUME ParamsAssumption ==
  /\ Nodes \subseteq Nat
  /\ IsFiniteSet(Nodes) /\ Cardinality(Nodes) = 2
  /\ Links \subseteq Nodes \X Nat
  /\ MaxExtends \in Nat
  /\ CooldownThreshold \in Nat
  /\ MaxFromSource \in Nat
  /\ MaxFaults \in Nat
  /\ MaxBorrows \in Nat

Peer(n) == CHOOSE m \in Nodes : m # n
Dials(n, l) == l[1] = n             \* is_outbound
AcceptOnly(n) == n > Peer(n)        \* should_accept_only_for

VARIABLES
  end,      \* one end of a link: none, dialing, greeted (client Hello written),
            \* pending (server side), unknown and mesh (Conn::purpose), closed
  wire,     \* what is in flight to each end: the Hello, post-Hello frames
  cut,      \* links that deliver nothing any more, unnoticed
  conns,    \* the order of conns_: <<k, l>> if k is the older of two of its links
  busy,     \* links whose TLS a worker owns (exec_busy)
  closing,  \* close_requested
  accept,   \* accept_only_until_ for the peer: none, wait, over
  ext,      \* tiebreak_probe_extends_
  hold,     \* backoffs_: the next dial is not due yet
  streak,   \* seed_cooldowns_: consecutive handshake deadlines
  cool,     \* seed_cooldowns_: parked
  faults,
  borrows

vars == <<end, wire, cut, conns, busy, closing, accept, ext, hold, streak, cool,
          faults, borrows>>

EndStates == {"none", "dialing", "greeted", "pending", "unknown", "mesh", "closed"}

TypeOK ==
  /\ end \in [Links -> [Nodes -> EndStates]]
  /\ wire \in [Links -> [Nodes -> SUBSET {"hello", "frame"}]]
  /\ cut \in SUBSET Links
  /\ conns \in [Nodes -> SUBSET (Links \X Links)]
  /\ busy \in [Nodes -> SUBSET Links]
  /\ closing \in [Nodes -> SUBSET Links]
  /\ accept \in [Nodes -> {"none", "wait", "over"}]
  /\ ext \in [Nodes -> 0..MaxExtends]
  /\ hold \in [Nodes -> BOOLEAN]
  /\ streak \in [Nodes -> 0..MaxFaults]
  /\ cool \in [Nodes -> BOOLEAN]
  /\ faults \in 0..MaxFaults
  /\ borrows \in 0..MaxBorrows

Init ==
  /\ end = [l \in Links |-> [n \in Nodes |-> "none"]]
  /\ wire = [l \in Links |-> [n \in Nodes |-> {}]]
  /\ cut = {}
  /\ conns = [n \in Nodes |-> {}]
  /\ busy = [n \in Nodes |-> {}]
  /\ closing = [n \in Nodes |-> {}]
  /\ accept = [n \in Nodes |-> "none"]
  /\ ext = [n \in Nodes |-> 0]
  /\ hold = [n \in Nodes |-> FALSE]
  /\ streak = [n \in Nodes |-> 0]
  /\ cool = [n \in Nodes |-> FALSE]
  /\ faults = 0
  /\ borrows = 0

Fault == faults < MaxFaults /\ faults' = faults + 1

Live(n, l) == end[l][n] \in {"unknown", "mesh"}
Handshaking(n, l) == end[l][n] \in {"dialing", "greeted", "pending"}

\* Both ends gone: the link may be dialed again.
Over(e, l) == \A n \in Nodes : e[l][n] \in {"none", "closed"}

\* New end states e and messages w in flight; nothing is in flight to an end
\* that is not there, and a link that is over is as new.
Install(e, w) ==
  /\ end' = [l \in Links |-> IF Over(e, l) THEN [n \in Nodes |-> "none"] ELSE e[l]]
  /\ wire' = [l \in Links |-> [n \in Nodes |->
                IF e[l][n] \in {"none", "closed"} THEN {} ELSE w[l][n]]]
  /\ cut' = {l \in cut : ~Over(e, l)}

Closed(e, n, D) == [l \in Links |-> IF l \in D THEN [e[l] EXCEPT ![n] = "closed"] ELSE e[l]]
Without(q, D)   == {p \in q : p[1] \notin D /\ p[2] \notin D}

\* A message to the other end of l, unless the link lost it.
Sent(w, n, l, msg) ==
  IF l \in cut THEN w ELSE [w EXCEPT ![l][Peer(n)] = @ \cup {msg}]

\* Only the end that dialed records an address it would dial again, so only
\* there does remove_conn hold the next dial back.
Held(n, D) == hold[n] \/ \E l \in D : Dials(n, l)
-----------------------------------------------------------------------------
(***************************************************************************)
(* Duplicates.                                                             *)
(***************************************************************************)
\* Keep the link the smaller public key dialed.
Wanted(n, l) == Dials(n, l) = (n < Peer(n))

\* Mutant: each end keeps the link it dialed itself.
DropMine(n, kept, l) == IF Dials(n, kept) /\ ~Dials(n, l) THEN l ELSE kept

\* duplicate_index_to_drop, kept being the older of the two.
Drop(n, kept, l) == IF Wanted(n, kept) /\ ~Wanted(n, l) THEN l ELSE kept

\* Mutant: exec_busy is not consulted.
NeverBusy(n, l) == FALSE
Busy(n, l) == l \in busy[n]

\* resolve_duplicates over the order q of conns_: a mesh link meets the one that
\* duplicate_index_to_drop has kept of those older than itself, Kept(l), and one
\* of the two goes; the first drop that has to wait for a worker ends the scan.
Resolve(n, q, e) ==
  LET mesh == {l \in Links : e[l][n] = "mesh"}
      Older(l) == {k \in mesh : <<k, l>> \in q}
      Kept(l) == LET wanted == {k \in Older(l) : Wanted(n, k)}
                     left == IF wanted = {} THEN Older(l) ELSE wanted
                 IN {k \in left : \A j \in left \ {k} : <<j, k>> \in q}
      Losers(l) == {Drop(n, k, l) : k \in Kept(l)}
      Reached(l) == \A k \in Older(l) : \A x \in Losers(k) : ~Busy(n, x)
      lost == UNION {Losers(l) : l \in {k \in mesh : Reached(k)}}
  IN [dropped |-> {x \in lost : ~Busy(n, x)}, deferred |-> {x \in lost : Busy(n, x)}]

\* promote_handshake_to_conn: a Conn of unknown purpose, then the duplicates;
\* the peer is no longer waited for.
Promote(n, l, w) ==
  LET q == conns[n] \cup ({x \in Links : Live(n, x)} \X {l})
      e == [end EXCEPT ![l][n] = "unknown"]
      r == Resolve(n, q, e)
  IN /\ Install(Closed(e, n, r.dropped), w)
     /\ conns' = [conns EXCEPT ![n] = Without(q, r.dropped)]
     /\ closing' = [closing EXCEPT ![n] = (@ \cup r.deferred) \ r.dropped]
     /\ hold' = [hold EXCEPT ![n] = Held(n, r.dropped)]
     /\ accept' = [accept EXCEPT ![n] = "none"]
     /\ ext' = [ext EXCEPT ![n] = 0]
     /\ IF Dials(n, l)
        THEN /\ streak' = [streak EXCEPT ![n] = 0]
             /\ cool' = [cool EXCEPT ![n] = FALSE]
        ELSE UNCHANGED <<streak, cool>>
     /\ UNCHANGED <<busy, faults, borrows>>
-----------------------------------------------------------------------------
(***************************************************************************)
(* Dialing.                                                                *)
(***************************************************************************)
\* Mutant: an inbound link to the peer is not recognised by its public key.
ConnectedByAddr(n) == \E l \in Links : Live(n, l) /\ Dials(n, l)

\* has_conn_for_addr (an inbound Conn has another address) or
\* has_conn_for_pubkey (mesh links only).
Connected(n) == \E l \in Links : \/ Live(n, l) /\ Dials(n, l)
                                 \/ end[l][n] = "mesh"

\* start_outbound_handshake on an unused link; refused while a dial to the
\* peer is pending.
DialPending(n) == \E l \in Links : Dials(n, l) /\ end[l][n] \in {"dialing", "greeted"}

StartHandshake(n) ==
  \/ /\ ~DialPending(n)
     /\ \E l \in Links : /\ Dials(n, l) /\ Over(end, l)
                         /\ end' = [end EXCEPT ![l][n] = "dialing"]
  \/ /\ DialPending(n)
     /\ UNCHANGED end

\* Past the deferral: unless parked or held back, dial; started or not, the
\* next dial waits.
TryDial(n) ==
  IF cool[n] \/ hold[n]
  THEN UNCHANGED <<end, hold>>
  ELSE StartHandshake(n) /\ hold' = [hold EXCEPT ![n] = TRUE]

\* The smaller key dials.
Dial(n) ==
  /\ ~Connected(n) /\ ~AcceptOnly(n)
  /\ TryDial(n)
  /\ UNCHANGED <<wire, cut, conns, busy, closing, accept, ext, streak, cool, faults, borrows>>

Extendable(n) == ext[n] < MaxExtends

\* The larger waits for an inbound connection, in windows that are extended
\* when they run out.
Defer(n) ==
  /\ ~Connected(n) /\ AcceptOnly(n)
  /\ \/ accept[n] = "none" /\ UNCHANGED ext
     \/ accept[n] = "over" /\ Extendable(n) /\ ext' = [ext EXCEPT ![n] = @ + 1]
  /\ accept' = [accept EXCEPT ![n] = "wait"]
  /\ UNCHANGED <<end, wire, cut, conns, busy, closing, hold, streak, cool, faults, borrows>>

\* The extensions are used up: one dial, if it is not parked or held back.
Probe(n) ==
  /\ ~Connected(n) /\ AcceptOnly(n)
  /\ accept[n] = "over" /\ ~Extendable(n)
  /\ accept' = [accept EXCEPT ![n] = "wait"]
  /\ ext' = [ext EXCEPT ![n] = 0]
  /\ TryDial(n)
  /\ UNCHANGED <<wire, cut, conns, busy, closing, streak, cool, faults, borrows>>

AcceptWindowEnds(n) ==
  /\ accept[n] = "wait"
  /\ accept' = [accept EXCEPT ![n] = "over"]
  /\ UNCHANGED <<end, wire, cut, conns, busy, closing, ext, hold, streak, cool, faults, borrows>>

HoldEnds(n) ==
  /\ hold[n]
  /\ hold' = [hold EXCEPT ![n] = FALSE]
  /\ UNCHANGED <<end, wire, cut, conns, busy, closing, accept, ext, streak, cool, faults, borrows>>

\* The streak stays: one more deadline parks the peer again.
CooldownEnds(n) ==
  /\ cool[n]
  /\ cool' = [cool EXCEPT ![n] = FALSE]
  /\ UNCHANGED <<end, wire, cut, conns, busy, closing, accept, ext, hold, streak, faults, borrows>>
-----------------------------------------------------------------------------
(***************************************************************************)
(* Handshake.                                                              *)
(***************************************************************************)
handshakeUnchanged == UNCHANGED <<conns, busy, closing, accept, ext, hold, borrows>>

\* accept_inbound: a third handshake from one address is turned away.
Accept(n, l) ==
  /\ end[l][Peer(n)] = "dialing" /\ end[l][n] = "none" /\ l \notin cut
  /\ LET full == Cardinality({x \in Links : end[x][n] = "pending"}) >= MaxFromSource
     IN Install([end EXCEPT ![l][n] = IF full THEN "closed" ELSE "pending"], wire)
  /\ handshakeUnchanged /\ UNCHANGED <<streak, cool, faults>>

\* TLS is up: the client writes its Hello.
WriteHello(n, l) ==
  /\ end[l][n] = "dialing" /\ end[l][Peer(n)] = "pending" /\ l \notin cut
  /\ Install([end EXCEPT ![l][n] = "greeted"], Sent(wire, n, l, "hello"))
  /\ handshakeUnchanged /\ UNCHANGED <<streak, cool, faults>>

\* The server reads the Hello, answers and promotes, before the client knows.
ServerHello(n, l) ==
  /\ end[l][n] = "pending" /\ "hello" \in wire[l][n]
  /\ Promote(n, l, Sent([wire EXCEPT ![l][n] = @ \ {"hello"}], n, l, "hello"))

ClientHello(n, l) ==
  /\ end[l][n] = "greeted" /\ "hello" \in wire[l][n]
  /\ Promote(n, l, [wire EXCEPT ![l][n] = @ \ {"hello"}])

\* The other end closed: the handshake fails, and no deadline is counted.
HandshakeFails(n, l) ==
  /\ Handshaking(n, l) /\ end[l][Peer(n)] = "closed" /\ l \notin cut
  /\ Install(Closed(end, n, {l}), wire)
  /\ handshakeUnchanged /\ UNCHANGED <<streak, cool, faults>>

\* The deadline passes, because the link is dead or the peer is slow.  It
\* counts against the peer at the end that dialed, unless that end is waiting
\* for the peer to dial.
HandshakeDeadline(n, l) ==
  /\ Handshaking(n, l)
  /\ IF l \in cut THEN UNCHANGED faults ELSE Fault
  /\ Install(Closed(end, n, {l}), wire)
  /\ IF Dials(n, l) /\ accept[n] # "wait"
     THEN /\ streak' = [streak EXCEPT ![n] = IF @ < CooldownThreshold THEN @ + 1 ELSE @]
          /\ cool' = [cool EXCEPT ![n] = @ \/ streak[n] + 1 >= CooldownThreshold]
     ELSE UNCHANGED <<streak, cool>>
  /\ handshakeUnchanged
-----------------------------------------------------------------------------
(***************************************************************************)
(* Established links.                                                      *)
(***************************************************************************)
connUnchanged == UNCHANGED <<busy, accept, ext, streak, cool, borrows>>

\* broadcast_ping and broadcast_gossip: a frame on every link no worker owns.
Broadcast(n) ==
  LET reached == {l \in Links \ cut : Live(n, l) /\ ~Busy(n, l) /\
                                      end[l][Peer(n)] \notin {"none", "closed"}}
  IN /\ wire' = [l \in Links |-> IF l \in reached
                                 THEN [wire[l] EXCEPT ![Peer(n)] = @ \cup {"frame"}]
                                 ELSE wire[l]]
     /\ UNCHANGED <<end, cut, conns, closing, hold, faults>>
     /\ connUnchanged

\* check_conn_read and dispatch_message: the first frame after Hello makes it
\* a mesh link.
Read(n, l) ==
  /\ Live(n, l) /\ ~Busy(n, l) /\ "frame" \in wire[l][n]
  /\ Install([end EXCEPT ![l][n] = "mesh"], [wire EXCEPT ![l][n] = @ \ {"frame"}])
  /\ UNCHANGED <<conns, closing, hold, faults>>
  /\ connUnchanged

\* close_conn of a link no worker owns.
CloseConn(n, l) ==
  /\ Install(Closed(end, n, {l}), wire)
  /\ conns' = [conns EXCEPT ![n] = Without(@, {l})]
  /\ closing' = [closing EXCEPT ![n] = @ \ {l}]
  /\ UNCHANGED hold
  /\ connUnchanged

ReadEof(n, l) ==
  /\ Live(n, l) /\ ~Busy(n, l) /\ end[l][Peer(n)] = "closed" /\ l \notin cut
  /\ CloseConn(n, l)
  /\ UNCHANGED faults

\* check_pong_timeouts: a dead link, or a peer that was slow to answer.
PongTimeout(n, l) ==
  /\ Live(n, l) /\ ~Busy(n, l)
  /\ IF l \in cut THEN UNCHANGED faults ELSE Fault
  /\ CloseConn(n, l)

\* clean_dead_conns: finish the closes that waited for a worker, then resolve.
CleanDeadConns(n) ==
  LET done == {l \in closing[n] : ~Busy(n, l)}
      e == Closed(end, n, done)
      q == Without(conns[n], done)
      r == Resolve(n, q, e)
  IN /\ done \cup r.dropped \cup r.deferred # {}
     /\ Install(Closed(e, n, r.dropped), wire)
     /\ conns' = [conns EXCEPT ![n] = Without(q, r.dropped)]
     /\ closing' = [closing EXCEPT ![n] = (@ \ done) \cup r.deferred]
     /\ hold' = [hold EXCEPT ![n] = Held(n, r.dropped)]
     /\ UNCHANGED faults
     /\ connUnchanged

\* `bs reconnect`: refused while a worker owns a mesh link to the peer; else
\* every mesh link goes, and the peer is dialed or waited for.
Reconnect(n) ==
  LET D == {l \in Links : end[l][n] = "mesh"}
      e == Closed(end, n, D)
  IN /\ Fault
     /\ \A l \in D : ~Busy(n, l)
     /\ conns' = [conns EXCEPT ![n] = Without(@, D)]
     /\ closing' = [closing EXCEPT ![n] = @ \ D]
     /\ hold' = [hold EXCEPT ![n] = FALSE]
     /\ \/ /\ AcceptOnly(n)
           /\ accept' = [accept EXCEPT ![n] = "wait"]
           /\ Install(e, wire)
        \/ /\ ~AcceptOnly(n) /\ DialPending(n)
           /\ UNCHANGED accept
           /\ Install(e, wire)
        \/ /\ ~AcceptOnly(n) /\ ~DialPending(n)
           /\ UNCHANGED accept
           /\ \E l \in Links : /\ Dials(n, l) /\ Over(e, l)
                               /\ Install([e EXCEPT ![l] = [m \in Nodes |->
                                    IF m = n THEN "dialing" ELSE "none"]], wire)
     /\ UNCHANGED <<busy, ext, streak, cool, borrows>>

\* A file, exec or sync operation takes the TLS of an idle mesh link.
Borrow(n, l) ==
  /\ end[l][n] = "mesh" /\ ~Busy(n, l)
  /\ borrows < MaxBorrows
  /\ borrows' = borrows + 1
  /\ busy' = [busy EXCEPT ![n] = @ \cup {l}]
  /\ UNCHANGED <<end, wire, cut, conns, closing, accept, ext, hold, streak, cool, faults>>

\* The operation ends, however it went.
Release(n, l) ==
  /\ Busy(n, l)
  /\ busy' = [busy EXCEPT ![n] = @ \ {l}]
  /\ UNCHANGED <<end, wire, cut, conns, closing, accept, ext, hold, streak, cool, faults, borrows>>
-----------------------------------------------------------------------------
(***************************************************************************)
(* Failures.                                                               *)
(***************************************************************************)
\* The daemon dies and is restarted: its end of every link is gone.
Crash(n) ==
  /\ Fault
  /\ Install(Closed(end, n, {l \in Links : Live(n, l) \/ Handshaking(n, l)}), wire)
  /\ conns' = [conns EXCEPT ![n] = {}]
  /\ busy' = [busy EXCEPT ![n] = {}]
  /\ closing' = [closing EXCEPT ![n] = {}]
  /\ accept' = [accept EXCEPT ![n] = "none"]
  /\ ext' = [ext EXCEPT ![n] = 0]
  /\ hold' = [hold EXCEPT ![n] = FALSE]
  /\ streak' = [streak EXCEPT ![n] = 0]
  /\ cool' = [cool EXCEPT ![n] = FALSE]
  /\ UNCHANGED borrows

\* The network loses a link without telling either end.
LinkDies(l) ==
  /\ ~Over(end, l) /\ l \notin cut
  /\ Fault
  /\ cut' = cut \cup {l}
  /\ wire' = [wire EXCEPT ![l] = [n \in Nodes |-> {}]]
  /\ UNCHANGED <<end, conns, busy, closing, accept, ext, hold, streak, cool, borrows>>
-----------------------------------------------------------------------------
HandshakeStep(n, l) ==
  \/ Accept(n, l) \/ WriteHello(n, l) \/ ServerHello(n, l) \/ ClientHello(n, l)
  \/ HandshakeFails(n, l) \/ HandshakeDeadline(n, l)

LinkStep(n, l) == Read(n, l) \/ ReadEof(n, l) \/ PongTimeout(n, l)

DialStep(n) == Dial(n) \/ Defer(n) \/ Probe(n)

Next ==
  \/ \E n \in Nodes : \/ DialStep(n)
                      \/ AcceptWindowEnds(n) \/ HoldEnds(n) \/ CooldownEnds(n)
                      \/ Broadcast(n) \/ CleanDeadConns(n) \/ Reconnect(n) \/ Crash(n)
  \/ \E n \in Nodes, l \in Links : \/ HandshakeStep(n, l) \/ LinkStep(n, l)
                                   \/ Borrow(n, l) \/ Release(n, l)
  \/ \E l \in Links : LinkDies(l)

Spec == Init /\ [][Next]_vars

\* Each loop iteration visits every handler, timers run out, workers end.
Fairness ==
  /\ \A n \in Nodes : /\ WF_vars(DialStep(n)) /\ WF_vars(AcceptWindowEnds(n))
                      /\ WF_vars(HoldEnds(n)) /\ WF_vars(CooldownEnds(n))
                      /\ WF_vars(Broadcast(n)) /\ WF_vars(CleanDeadConns(n))
  /\ \A n \in Nodes, l \in Links : /\ WF_vars(HandshakeStep(n, l))
                                   /\ WF_vars(LinkStep(n, l))
                                   /\ WF_vars(Release(n, l))
FairSpec == Spec /\ Fairness
-----------------------------------------------------------------------------
(***************************************************************************)
(* Properties.                                                             *)
(***************************************************************************)
\* Until something fails or an operator steps in, a pair that is joined by a
\* link stays joined: however the two ends' promotions, classifications, drops
\* and deferred drops interleave, they never drop each other's last link
\* (resolve_duplicates: "both endpoints must independently agree on which
\* physical connection survives").
Joined == \E l \in Links : \A n \in Nodes : Live(n, l)
NoSplit == [][(faults' = 0 /\ Joined) => Joined']_vars

\* A link whose TLS a worker owns stays open until the worker gives it back:
\* duplicates, heartbeats, reconnects and deferred closes all leave it alone
\* (close_conn: "Never free or shutdown that transport from the event-loop
\* thread").
OwnedStaysOpen ==
  \A n \in Nodes : \A l \in busy[n] : end[l][n] = "mesh"

\* The pair ends with exactly one link, known as a mesh link at both ends, after
\* simultaneous dials, failures and operator commands have stopped.
OneLink == \E l \in Links : \A n \in Nodes : {x \in Links : Live(n, x)} = {l} /\ end[l][n] = "mesh"
Converges == <>[]OneLink
=============================================================================

----------------------------- MODULE Enrollment -----------------------------
(***************************************************************************)
(* How a key becomes trusted: invites and the join window at one host,     *)
(* JoinRequest, `bs enroll`, and the signed enrollments that daemons gossip*)
(* and replay.  From bs-mesh-transfer.h (process_join_request,             *)
(* apply_directory_enroll, broadcast_enroll, maybe_close_join_window),     *)
(* bs-mesh-conn.h (promote, prune_revoked_connections) and bs-mesh-cli.h   *)
(* (INVITE, ENROLL).                                                       *)
(*                                                                         *)
(* An enrollment is its id: issuer, key and the second it was issued in.   *)
(* Signatures of members verify; nobody enrolls its own key.  authorized_  *)
(* keys survives a restart, everything else is memory.                     *)
(***************************************************************************)
EXTENDS Integers, Sequences, FiniteSets

CONSTANTS
  Nodes,       \* daemons of the mesh
  Pairs,       \* which of them are each other's peers: sets of two
  Seeds,       \* Seeds[n]: the keys n's configuration pins
  Host,        \* the daemon that invites
  Joiners,     \* keys of new members
  Invites,     \* invite tokens
  MaxPending,  \* kMaxPendingEnrolls
  Fresh,       \* how long an enrollment is fresh, in seconds
  MaxTime,     \* bound on the clock
  MaxEnrolls,  \* bound on `bs enroll` commands
  MaxFaults    \* bound on restarts, failed writes, lost links, revocations, busy links

ASSUME ParamsAssumption ==
  /\ \A p \in Pairs : \E a, b \in Nodes : a # b /\ p = {a, b}
  /\ Seeds \in [Nodes -> SUBSET Nodes]
  /\ Host \in Nodes
  /\ MaxPending \in Nat \ {0}
  /\ Fresh \in Nat
  /\ MaxTime \in Nat
  /\ MaxEnrolls \in Nat
  /\ MaxFaults \in Nat

\* What a token may be, besides claimed by a key.
ASSUME TokenAssumption == Joiners \cap {"none", "open", "gone"} = {}

Ids == Nodes \X Joiners \X (0..MaxTime)
Issuer(id) == id[1]
Key(id)    == id[2]

VARIABLES
  trusted,   \* authorized_keys of each daemon
  seen,      \* enroll_seen_
  pend,      \* pending_enrolls_
  up,        \* pairs with an established mesh link
  busy,      \* <<n, m>>: a worker of n owns the TLS of its link to m
  flight,    \* <<from, to, id>>: DirectoryEnroll frames on the wire
  invite,    \* pending_invites_ of the host: none, open, gone, or who claimed it
  window,    \* allow_join_connections_ and its hard cap: closed, open, capped
  joining,   \* keys whose handshake waits for a JoinRequest
  member,    \* new members connected to the host
  clock,
  enrolls,
  faults,
  \* bookkeeping
  vouched,   \* <<daemon, key>>: the daemon's operator invited or enrolled the key
  claims,    \* <<token, key>>: JoinRequests that were accepted
  minted,    \* ids that added a key at each daemon since it started
  lost       \* frames read to no effect although the receiver could have applied them

nodeVars == <<trusted, seen, pend, minted>>
meshVars == <<up, busy, flight, lost>>
joinVars == <<invite, window, joining, member, claims>>
vars == <<nodeVars, meshVars, joinVars, clock, enrolls, faults, vouched>>

TypeOK ==
  /\ trusted \in [Nodes -> SUBSET Joiners]
  /\ seen \in [Nodes -> SUBSET Ids]
  /\ pend \in [Nodes -> Seq(Ids)] /\ \A n \in Nodes : Len(pend[n]) <= MaxPending
  /\ minted \in [Nodes -> SUBSET Ids]
  /\ up \in SUBSET Pairs
  /\ busy \in SUBSET (Nodes \X Nodes)
  /\ flight \in SUBSET (Nodes \X Nodes \X Ids)
  /\ lost \in SUBSET (Nodes \X Nodes \X Ids)
  /\ invite \in [Invites -> {"none", "open", "gone"} \cup Joiners]
  /\ window \in {"closed", "open", "capped"}
  /\ joining \in SUBSET Joiners
  /\ member \in SUBSET Joiners
  /\ clock \in 0..MaxTime
  /\ enrolls \in 0..MaxEnrolls
  /\ faults \in 0..MaxFaults
  /\ vouched \in SUBSET (Nodes \X Joiners)
  /\ claims \in SUBSET (Invites \X Joiners)

Init ==
  /\ trusted = [n \in Nodes |-> {}]
  /\ seen = [n \in Nodes |-> {}]
  /\ pend = [n \in Nodes |-> <<>>]
  /\ minted = [n \in Nodes |-> {}]
  /\ up = Pairs
  /\ busy = {}
  /\ flight = {}
  /\ lost = {}
  /\ invite = [i \in Invites |-> "none"]
  /\ window = "closed"
  /\ joining = {}
  /\ member = {}
  /\ clock = 0
  /\ enrolls = 0
  /\ faults = 0
  /\ vouched = {}
  /\ claims = {}

Fault == faults < MaxFaults /\ faults' = faults + 1
-----------------------------------------------------------------------------
(***************************************************************************)
(* Enrollments.                                                            *)
(***************************************************************************)
\* Mutant: any member's signature is a trust root.
AnyIssuer(n, id) == TRUE

\* An enrollment counts if the issuer is a pinned seed or n itself, and it is
\* not too old.
IssuerOK(n, id) == Issuer(id) \in Seeds[n] \cup {n}
Stale(id) == id[3] + Fresh < clock

\* Mutant: consumed ids are forgotten once the key is gone again.
ReplayIgnored(n, id) == FALSE

\* A consumed id is a no-op while the key is trusted, and a replay otherwise.
Replay(n, id) == id \in seen[n] /\ Key(id) \notin trusted[n]
Acceptable(n, id) == IssuerOK(n, id) /\ ~Stale(id) /\ ~Replay(n, id)

\* apply_directory_enroll returned TRUE for id at n.
Apply(n, id) ==
  /\ Acceptable(n, id)
  /\ trusted' = [trusted EXCEPT ![n] = @ \cup {Key(id)}]
  /\ seen' = [seen EXCEPT ![n] = @ \cup {id}]
  /\ minted' = [minted EXCEPT ![n] = IF Key(id) \in trusted[n] THEN @ ELSE @ \cup {id}]

\* It returned FALSE: the enrollment is not acceptable, or authorized_keys
\* could not be written.
Refuse(n, id) ==
  /\ IF Acceptable(n, id) THEN Key(id) \notin trusted[n] /\ Fault ELSE UNCHANGED faults
  /\ UNCHANGED <<trusted, seen, minted>>

\* remember_pending_enroll.
Remember(q, id) == IF Len(q) < MaxPending THEN Append(q, id) ELSE Append(Tail(q), id)

Peers(n) == {m \in Nodes : {n, m} \in up}

\* broadcast_enroll: to every peer whose link no worker owns.
Broadcast(n, id) == {<<n, m, id>> : m \in {x \in Peers(n) : <<n, x>> \notin busy}}

\* `bs enroll`: apply here, tell the peers, keep a copy for those not connected.
Enroll(n, j) ==
  LET id == <<n, j, clock>>
  IN /\ enrolls < MaxEnrolls
     /\ enrolls' = enrolls + 1
     /\ \/ Apply(n, id) /\ UNCHANGED faults
        \/ Refuse(n, id)
     /\ flight' = flight \cup Broadcast(n, id)
     /\ pend' = [pend EXCEPT ![n] = Remember(@, id)]
     /\ vouched' = vouched \cup {<<n, j>>}
     /\ UNCHANGED <<up, busy, lost, joinVars, clock>>

\* dispatch_message of a DirectoryEnroll.  The relay to the other peers and the
\* copy for late ones are for an id that is not in enroll_seen_ once
\* apply_directory_enroll is done.
Receive(f) ==
  LET n == f[2]
      id == f[3]
      relay == id \notin seen'[n]
  IN /\ f \in flight /\ <<n, f[1]>> \notin busy
     /\ \/ /\ Apply(n, id)
           /\ flight' = (flight \ {f}) \cup
                (IF relay THEN {g \in Broadcast(n, id) : g[2] # f[1]} ELSE {})
           /\ pend' = [pend EXCEPT ![n] = IF relay THEN Remember(@, id) ELSE @]
           /\ UNCHANGED <<lost, faults>>
        \/ /\ Refuse(n, id)
           /\ flight' = flight \ {f}
           /\ lost' = IF Acceptable(n, id) THEN lost \cup {f} ELSE lost
           /\ UNCHANGED pend
     /\ UNCHANGED <<up, busy, joinVars, clock, enrolls, vouched>>

\* A worker that owns the receiving end reads the frame and drops it.
WorkerReads(f) ==
  /\ f \in flight /\ <<f[2], f[1]>> \in busy
  /\ flight' = flight \ {f}
  /\ lost' = IF Acceptable(f[2], f[3]) THEN lost \cup {f} ELSE lost
  /\ UNCHANGED <<nodeVars, up, busy, joinVars, clock, enrolls, faults, vouched>>

\* Mutant: the replay goes to some other connection.
NoCopies(n, m) == {}

Copies(n, m) == {<<n, m, id>> : id \in {pend[n][k] : k \in DOMAIN pend[n]}}

\* promote_handshake_to_conn at both ends: each replays what it remembers.
LinkUp(p) ==
  /\ p \in Pairs \ up
  /\ up' = up \cup {p}
  /\ flight' = flight \cup UNION {Copies(x[1], x[2]) : x \in {y \in p \X p : y[1] # y[2]}}
  /\ UNCHANGED <<nodeVars, busy, lost, joinVars, clock, enrolls, faults, vouched>>

\* The links of pairs P break: frames on them are lost.
Cut(P) ==
  /\ up' = up \ P
  /\ flight' = {f \in flight : {f[1], f[2]} \notin P}
  /\ busy' = {b \in busy : {b[1], b[2]} \notin P}
  /\ UNCHANGED lost

LinkDown(p) ==
  /\ p \in up
  /\ Fault
  /\ Cut({p})
  /\ UNCHANGED <<nodeVars, joinVars, clock, enrolls, vouched>>

\* A worker takes a link, and gives it back.
Borrow(n, m) ==
  /\ {n, m} \in up /\ <<n, m>> \notin busy
  /\ Fault
  /\ busy' = busy \cup {<<n, m>>}
  /\ UNCHANGED <<nodeVars, up, flight, lost, joinVars, clock, enrolls, vouched>>

Release(n, m) ==
  /\ <<n, m>> \in busy
  /\ busy' = busy \ {<<n, m>>}
  /\ UNCHANGED <<nodeVars, up, flight, lost, joinVars, clock, enrolls, faults, vouched>>
-----------------------------------------------------------------------------
(***************************************************************************)
(* Invites and joins at the host.                                          *)
(***************************************************************************)
Unclaimed == {i \in Invites : invite[i] = "open"}

\* INVITE: a new token; the window opens unless it is open already.
Invite(i) ==
  /\ invite[i] = "none"
  /\ invite' = [invite EXCEPT ![i] = "open"]
  /\ window' = IF window = "closed" THEN "open" ELSE window
  /\ UNCHANGED <<nodeVars, meshVars, joining, member, claims, clock, enrolls, faults, vouched>>

\* kInviteTtl runs out.
ExpireInvite(i) ==
  /\ invite[i] \in {"open"} \cup Joiners
  /\ invite' = [invite EXCEPT ![i] = "gone"]
  /\ UNCHANGED <<nodeVars, meshVars, window, joining, member, claims, clock, enrolls, faults, vouched>>

\* join_window_max_secs have passed since the window opened.
WindowCapElapses ==
  /\ window = "open"
  /\ window' = "capped"
  /\ UNCHANGED <<nodeVars, meshVars, invite, joining, member, claims, clock, enrolls, faults, vouched>>

\* Unclaimed invites do not outlive a window that hit its cap.
CappedInvites == [i \in Invites |-> IF window = "capped" /\ invite[i] = "open"
                                    THEN "gone" ELSE invite[i]]

\* Mutant: the cap is ignored while an invite is unclaimed.
CloseWhenClaimed == window # "closed" /\ Unclaimed = {}
CloseDue == window = "capped" \/ (window = "open" /\ Unclaimed = {})

\* maybe_close_join_window: on the cap, or once no invite is unclaimed.
CloseWindow ==
  /\ CloseDue
  /\ window' = "closed"
  /\ invite' = CappedInvites
  /\ UNCHANGED <<nodeVars, meshVars, joining, member, claims, clock, enrolls, faults, vouched>>

\* An unknown key passes TLS and Hello while the window is open, and its
\* handshake then waits for a JoinRequest; a trusted key is promoted.
Connect(j) ==
  /\ j \notin joining \cup member
  /\ \/ /\ j \in trusted[Host]
        /\ member' = member \cup {j}
        /\ UNCHANGED joining
     \/ /\ j \notin trusted[Host] /\ window # "closed"
        /\ joining' = joining \cup {j}
        /\ UNCHANGED member
  /\ UNCHANGED <<nodeVars, meshVars, invite, window, claims, clock, enrolls, faults, vouched>>

\* It hangs up, or its handshake times out.
Leave(j) ==
  /\ j \in joining \cup member
  /\ joining' = joining \ {j}
  /\ member' = member \ {j}
  /\ UNCHANGED <<nodeVars, meshVars, invite, window, claims, clock, enrolls, faults, vouched>>

\* Mutant: a token may be claimed again.
KnownToken(i) == invite[i] \in {"open"} \cup Joiners

\* The token is one of pending_invites_ and claimed by nobody.
Redeemable(i) == invite[i] = "open"

\* JoinRequest refused: no such token (a handshake ends, a connection stays).
JoinRefused(j, i) ==
  /\ j \in joining \cup member
  /\ ~Redeemable(i)
  /\ joining' = joining \ {j}
  /\ UNCHANGED <<nodeVars, meshVars, invite, window, member, claims, clock, enrolls, faults, vouched>>

\* The token is claimed, but authorized_keys cannot be written.
JoinWriteFails(j, i) ==
  /\ j \in joining \cup member
  /\ Redeemable(i) /\ j \notin trusted[Host]
  /\ Fault
  /\ invite' = [invite EXCEPT ![i] = j]
  /\ joining' = joining \ {j}
  /\ UNCHANGED <<nodeVars, meshVars, window, member, claims, clock, enrolls, vouched>>

\* process_join_request accepts: claim the token, authorize the key and, if the
\* joiner told its listen address, enroll it mesh-wide.  A handshake whose
\* JoinReply cannot be written is not promoted.
JoinAccepted(j, i) ==
  LET id == <<Host, j, clock>>
  IN /\ j \in joining \cup member
     /\ Redeemable(i)
     /\ invite' = [invite EXCEPT ![i] = j]
     /\ claims' = claims \cup {<<i, j>>}
     /\ vouched' = vouched \cup {<<Host, j>>}
     /\ trusted' = [trusted EXCEPT ![Host] = @ \cup {j}]
     /\ \/ /\ seen' = [seen EXCEPT ![Host] = @ \cup {id}]
           /\ flight' = flight \cup Broadcast(Host, id)
           /\ pend' = [pend EXCEPT ![Host] = Remember(@, id)]
        \/ UNCHANGED <<seen, flight, pend>>
     /\ joining' = joining \ {j}
     /\ \/ member' = member \cup {j} /\ UNCHANGED faults
        \/ j \in joining /\ Fault /\ UNCHANGED member
     /\ UNCHANGED <<minted, up, busy, lost, window, clock, enrolls>>

\* prune_revoked_connections: not while the join window is open.
Prune(j) ==
  /\ window = "closed"
  /\ j \in member /\ j \notin trusted[Host]
  /\ member' = member \ {j}
  /\ UNCHANGED <<nodeVars, meshVars, invite, window, joining, claims, clock, enrolls, faults, vouched>>
-----------------------------------------------------------------------------
(***************************************************************************)
(* Environment.                                                            *)
(***************************************************************************)
Tick ==
  /\ clock < MaxTime
  /\ clock' = clock + 1
  /\ UNCHANGED <<nodeVars, meshVars, joinVars, enrolls, faults, vouched>>

\* An operator takes a key out of authorized_keys.
Revoke(n, j) ==
  /\ j \in trusted[n]
  /\ Fault
  /\ trusted' = [trusted EXCEPT ![n] = @ \ {j}]
  /\ UNCHANGED <<seen, pend, minted, meshVars, joinVars, clock, enrolls, vouched>>

\* A daemon is restarted: only authorized_keys is left of its state.
Restart(n) ==
  /\ Fault
  /\ seen' = [seen EXCEPT ![n] = {}]
  /\ pend' = [pend EXCEPT ![n] = <<>>]
  /\ minted' = [minted EXCEPT ![n] = {}]
  /\ Cut({p \in Pairs : n \in p})
  /\ \/ /\ n = Host
        /\ invite' = [i \in Invites |-> IF invite[i] = "none" THEN "none" ELSE "gone"]
        /\ window' = "closed"
        /\ joining' = {}
        /\ member' = {}
     \/ n # Host /\ UNCHANGED <<invite, window, joining, member>>
  /\ UNCHANGED <<trusted, claims, clock, enrolls, vouched>>
-----------------------------------------------------------------------------
Deliver(f) == Receive(f) \/ WorkerReads(f)

Next ==
  \/ \E n \in Nodes, j \in Joiners : Enroll(n, j) \/ Revoke(n, j)
  \/ \E f \in flight : Deliver(f)
  \/ \E p \in Pairs : LinkUp(p) \/ LinkDown(p)
  \/ \E n, m \in Nodes : Borrow(n, m) \/ Release(n, m)
  \/ \E i \in Invites : Invite(i) \/ ExpireInvite(i)
  \/ WindowCapElapses \/ CloseWindow \/ Tick
  \/ \E j \in Joiners : Connect(j) \/ Leave(j) \/ Prune(j)
  \/ \E j \in Joiners, i \in Invites :
       JoinRefused(j, i) \/ JoinWriteFails(j, i) \/ JoinAccepted(j, i)
  \/ \E n \in Nodes : Restart(n)

Spec == Init /\ [][Next]_vars

\* Daemons redial and read, timers run out, the event loop ticks.
Fairness ==
  /\ WF_vars(\E f \in flight : Deliver(f))
  /\ \A p \in Pairs : WF_vars(LinkUp(p))
  /\ WF_vars(WindowCapElapses) /\ WF_vars(CloseWindow)
  /\ \A j \in Joiners : WF_vars(Prune(j))
FairSpec == Spec /\ Fairness
-----------------------------------------------------------------------------
(***************************************************************************)
(* Properties.                                                             *)
(***************************************************************************)
\* Trust has one hop: a daemon only ever trusts a key that its own operator, or
\* that of a seed it pins, invited or enrolled; a member that was enrolled
\* cannot enroll others, whatever is relayed or replayed (comment 1 in
\* apply_directory_enroll).
TrustRooted ==
  \A n \in Nodes : \A j \in trusted[n] :
    \E m \in Seeds[n] \cup {n} : <<m, j>> \in vouched

\* An invite admits one key at most, though several joiners may hold its token
\* and be waiting in the window at once (docs/protocol.md: "The single-use
\* token").
OneKeyPerInvite ==
  \A x, y \in claims : x[1] = y[1] => x = y

\* A key that an operator revoked does not come back through an enrollment that
\* the daemon has used since it started, however often it is replayed by
\* reconnecting peers (comment 4b: "the token is single-use").
RevokedStaysOut ==
  [][\A n \in Nodes, j \in Joiners :
       (j \in trusted'[n] \ trusted[n] /\ claims' = claims)
         => \E id \in minted'[n] : Key(id) = j /\ id \notin minted[n]]_vars

\* A peer that was not connected when a seed it pins enrolled a key learns the
\* key when it is, unless it cannot store it, a worker swallows the frame, the
\* seed has forgotten the enrollment or it has gone stale ("peers that
\* reconnect later" in process_join_request).
LatePeersLearn ==
  \A n \in Nodes : \A i \in {m \in Seeds[n] : {m, n} \in Pairs} :
  \A id \in {x \in Ids : Issuer(x) = i} :
    ({i, n} \notin up /\ id \in {pend[i][k] : k \in DOMAIN pend[i]})
      ~> \/ id \in seen[n] \/ Stale(id) \/ <<i, n, id>> \in lost
         \/ id \notin {pend[i][k] : k \in DOMAIN pend[i]}

\* A revoked member is disconnected: the join window, during which nobody is
\* pruned, always closes.
RevokedDisconnected ==
  \A j \in Joiners : (j \in member /\ j \notin trusted[Host])
                        ~> (j \notin member \/ j \in trusted[Host])
=============================================================================

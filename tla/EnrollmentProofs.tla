-------------------------- MODULE EnrollmentProofs --------------------------
(***************************************************************************)
(* Trust has one hop, a token admits one key and what was revoked stays    *)
(* out, for any mesh, any seeds, any invites and any number of             *)
(* enrollments, restarts, lost links and revocations.                      *)
(***************************************************************************)
EXTENDS Enrollment, TLAPS

-----------------------------------------------------------------------------
(* Tokens. *)

\* What was claimed is never open again.
TokenInv ==
  /\ invite \in [Invites -> {"none", "open", "gone"} \cup Joiners]
  /\ \A x \in claims : x[1] \in Invites /\ invite[x[1]] \notin {"none", "open"}
  /\ OneKeyPerInvite

\* No step opens a token but Invite, and that one opens what was never minted.
LEMMA TokenStep ==
  ASSUME TokenInv, UNCHANGED claims,
         invite' \in [Invites -> {"none", "open", "gone"} \cup Joiners],
         \A i \in Invites : invite[i] \notin {"none", "open"} => invite'[i] \notin {"none", "open"}
  PROVE  TokenInv'
  BY DEF TokenInv, OneKeyPerInvite

\* process_join_request: the token was open, so nobody had claimed it.
LEMMA AcceptKeepsTokens ==
  ASSUME TokenInv, NEW j \in Joiners, NEW i \in Invites, JoinAccepted(j, i)
  PROVE  TokenInv'
<1>1. invite[i] = "open" /\ invite' = [invite EXCEPT ![i] = j] /\ claims' = claims \cup {<<i, j>>}
  BY DEF JoinAccepted, Redeemable
<1>2. j \notin {"none", "open"}
  BY TokenAssumption
<1>3. \A x \in claims : x[1] # i
  BY <1>1 DEF TokenInv
<1>4. \A x \in claims' : x[1] \in Invites /\ invite'[x[1]] \notin {"none", "open"}
  BY <1>1, <1>2, <1>3 DEF TokenInv
<1>5. OneKeyPerInvite'
  BY <1>1, <1>3 DEF TokenInv, OneKeyPerInvite
<1> QED BY <1>1, <1>4, <1>5 DEF TokenInv

LEMMA TokensAlways == Spec => []TokenInv
<1>1. Init => TokenInv
  BY DEF Init, TokenInv, OneKeyPerInvite
<1>2. TokenInv /\ [Next]_vars => TokenInv'
  <2> SUFFICES ASSUME TokenInv, [Next]_vars PROVE TokenInv'
    OBVIOUS
  <2>0. \/ UNCHANGED <<invite, claims>>
        \/ \E i \in Invites : Invite(i) \/ ExpireInvite(i)
        \/ CloseWindow
        \/ \E j \in Joiners, i \in Invites : JoinWriteFails(j, i) \/ JoinAccepted(j, i)
        \/ \E n \in Nodes : Restart(n)
    <3>1. CASE \E n \in Nodes, j \in Joiners : Enroll(n, j) \/ Revoke(n, j)
      BY <3>1 DEF Enroll, Revoke, joinVars
    <3>2. CASE \E f \in flight : Deliver(f)
      BY <3>2 DEF Deliver, Receive, WorkerReads, joinVars
    <3>3. CASE \E p \in Pairs : LinkUp(p) \/ LinkDown(p)
      BY <3>3 DEF LinkUp, LinkDown, joinVars
    <3>4. CASE \E n, m \in Nodes : Borrow(n, m) \/ Release(n, m)
      BY <3>4 DEF Borrow, Release, joinVars
    <3>5. CASE WindowCapElapses \/ Tick
      BY <3>5 DEF WindowCapElapses, Tick, joinVars
    <3>6. CASE \E j \in Joiners : Connect(j) \/ Leave(j) \/ Prune(j)
      BY <3>6 DEF Connect, Leave, Prune
    <3>7. CASE \E j \in Joiners, i \in Invites : JoinRefused(j, i)
      BY <3>7 DEF JoinRefused
    <3>8. CASE UNCHANGED vars
      BY <3>8 DEF vars, joinVars
    <3> QED BY <3>1, <3>2, <3>3, <3>4, <3>5, <3>6, <3>7, <3>8 DEF Next
  <2>1. CASE UNCHANGED <<invite, claims>>
    BY <2>1, TokenStep DEF TokenInv
  <2>2. CASE \E i \in Invites : Invite(i) \/ ExpireInvite(i)
    <3>1. PICK i \in Invites, what \in {"open", "gone"} :
            /\ invite' = [invite EXCEPT ![i] = what] /\ UNCHANGED claims
            /\ what = "open" => invite[i] = "none"
      BY <2>2 DEF Invite, ExpireInvite
    <3> QED BY <3>1, TokenStep DEF TokenInv
  <2>3. CASE CloseWindow
    <3>1. invite' = [i \in Invites |-> IF window = "capped" /\ invite[i] = "open" THEN "gone" ELSE invite[i]] /\ UNCHANGED claims
      BY <2>3 DEF CloseWindow, CappedInvites
    <3> QED BY <3>1, TokenStep DEF TokenInv
  <2>4. CASE \E j \in Joiners, i \in Invites : JoinWriteFails(j, i)
    <3>1. PICK j \in Joiners, i \in Invites : invite' = [invite EXCEPT ![i] = j] /\ UNCHANGED claims
      BY <2>4 DEF JoinWriteFails
    <3>2. j \notin {"none", "open"}
      BY TokenAssumption
    <3> QED BY <3>1, <3>2, TokenStep DEF TokenInv
  <2>5. CASE \E j \in Joiners, i \in Invites : JoinAccepted(j, i)
    BY <2>5, AcceptKeepsTokens
  <2>6. CASE \E n \in Nodes : Restart(n)
    <3>1. /\ invite' = [i \in Invites |-> IF invite[i] = "none" THEN "none" ELSE "gone"] \/ UNCHANGED invite
          /\ UNCHANGED claims
      BY <2>6 DEF Restart
    <3> QED BY <3>1, TokenStep DEF TokenInv
  <2> QED BY <2>0, <2>1, <2>2, <2>3, <2>4, <2>5, <2>6
<1> QED BY <1>1, <1>2, PTL DEF Spec

\* A token admits one key at most, though several joiners hold it and wait at once (docs/protocol.md, the single-use token).
THEOREM InvitesCorrect == Spec => []OneKeyPerInvite
<1>1. TokenInv => OneKeyPerInvite
  BY DEF TokenInv
<1> QED BY <1>1, TokensAlways, PTL

-----------------------------------------------------------------------------
(* Trust. *)

\* The issuer's operator did issue it; an operator n listens to vouched for j.  V is vouched, before or after a step.
Issued(id, V) == <<Issuer(id), Key(id)>> \in V
Rooted(n, j, V) == \E m \in Seeds[n] \cup {n} : <<m, j>> \in V

Frames == Nodes \X Nodes \X Ids

MeshTyped ==
  /\ trusted \in [Nodes -> SUBSET Joiners]
  /\ pend \in [Nodes -> Seq(Ids)]
  /\ flight \subseteq Frames
  /\ clock \in 0..MaxTime

\* Every enrollment on a wire or in a replay queue is one an operator issued.
TrustInv ==
  /\ MeshTyped
  /\ \A f \in flight : Issued(f[3], vouched)
  /\ \A n \in Nodes : \A k \in DOMAIN pend[n] : Issued(pend[n][k], vouched)
  /\ \A n \in Nodes : \A j \in trusted[n] : Rooted(n, j, vouched)

\* Whatever is new on a wire, in a queue or in authorized_keys must be rooted.
LEMMA TrustStep ==
  ASSUME TrustInv, MeshTyped', vouched \subseteq vouched',
         \A f \in flight' : f \in flight \/ Issued(f[3], vouched'),
         \A n \in Nodes : \A k \in DOMAIN pend'[n] :
           (\E l \in DOMAIN pend[n] : pend'[n][k] = pend[n][l]) \/ Issued(pend'[n][k], vouched'),
         \A n \in Nodes : \A j \in trusted'[n] : j \in trusted[n] \/ Rooted(n, j, vouched')
  PROVE  TrustInv'
<1>1. \A f \in flight' : Issued(f[3], vouched')
  BY DEF TrustInv, Issued
<1>2. ASSUME NEW n \in Nodes, NEW k \in DOMAIN pend'[n]
      PROVE  Issued(pend'[n][k], vouched')
  <2>1. CASE Issued(pend'[n][k], vouched')
    BY <2>1
  <2>2. CASE \E l \in DOMAIN pend[n] : pend'[n][k] = pend[n][l]
    <3>1. PICK l \in DOMAIN pend[n] : pend'[n][k] = pend[n][l]
      BY <2>2
    <3>2. Issued(pend[n][l], vouched)
      BY DEF TrustInv
    <3> QED BY <3>1, <3>2 DEF Issued
  <2> QED BY <2>1, <2>2
<1>3. ASSUME NEW n \in Nodes, NEW j \in trusted'[n]
      PROVE  Rooted(n, j, vouched')
  <2>1. j \in trusted[n] => Rooted(n, j, vouched)
    BY DEF TrustInv
  <2> QED BY <2>1 DEF Rooted
<1> QED BY <1>1, <1>2, <1>3 DEF TrustInv

\* remember_pending_enroll adds one and may forget the oldest.
LEMMA Remembered ==
  ASSUME NEW q \in Seq(Ids), NEW id \in Ids
  PROVE  /\ Remember(q, id) \in Seq(Ids)
         /\ \A k \in DOMAIN Remember(q, id) :
              Remember(q, id)[k] = id \/ \E l \in DOMAIN q : Remember(q, id)[k] = q[l]
<1>0. MaxPending \in Nat \ {0}
  BY ParamsAssumption
<1>1. CASE Len(q) < MaxPending
  BY <1>1 DEF Remember
<1>2. CASE ~(Len(q) < MaxPending)
  <2>1. q # <<>> /\ Tail(q) \in Seq(Ids)
    BY <1>0, <1>2
  <2>2. \A k \in 1..Len(Tail(q)) : Tail(q)[k] = q[k + 1] /\ k + 1 \in DOMAIN q
    BY <2>1
  <2>3. Remember(q, id) = Append(Tail(q), id)
    BY <1>2 DEF Remember
  <2>4. \A t \in Seq(Ids) :
          /\ Append(t, id) \in Seq(Ids) /\ DOMAIN Append(t, id) = 1..(Len(t) + 1)
          /\ \A k \in 1..(Len(t) + 1) : Append(t, id)[k] = id \/ (k \in 1..Len(t) /\ Append(t, id)[k] = t[k])
    OBVIOUS
  <2> QED BY <2>1, <2>2, <2>3, <2>4
<1> QED BY <1>1, <1>2

\* broadcast_enroll, and the replay to a peer that connects.
LEMMA Broadcasted ==
  ASSUME NEW n \in Nodes, NEW id \in Ids
  PROVE  Broadcast(n, id) \subseteq Frames /\ \A f \in Broadcast(n, id) : f[3] = id
<1>1. ASSUME NEW f \in Broadcast(n, id) PROVE \E m \in Nodes : f = <<n, m, id>>
  BY DEF Broadcast, Peers
<1> QED BY <1>1 DEF Frames

LEMMA Copied ==
  ASSUME TrustInv, NEW n \in Nodes, NEW m \in Nodes
  PROVE  Copies(n, m) \subseteq Frames /\ \A f \in Copies(n, m) : Issued(f[3], vouched)
<1>1. \A k \in DOMAIN pend[n] : pend[n][k] \in Ids /\ Issued(pend[n][k], vouched)
  BY DEF TrustInv, MeshTyped
<1> QED BY <1>1 DEF Copies, Frames

\* A queue that at most took one enrollment that was issued.
LEMMA QueueStep ==
  ASSUME TrustInv, NEW n \in Nodes, NEW id \in Ids, <<Issuer(id), Key(id)>> \in vouched',
         pend' = pend \/ pend' = [pend EXCEPT ![n] = Remember(@, id)]
  PROVE  /\ pend' \in [Nodes -> Seq(Ids)]
         /\ \A m \in Nodes : \A k \in DOMAIN pend'[m] :
              (\E l \in DOMAIN pend[m] : pend'[m][k] = pend[m][l]) \/ Issued(pend'[m][k], vouched')
<1>1. pend \in [Nodes -> Seq(Ids)]
  BY DEF TrustInv, MeshTyped
<1>2. CASE pend' = pend
  BY <1>1, <1>2
<1>3. CASE pend' = [pend EXCEPT ![n] = Remember(@, id)]
  <2>1. pend[n] \in Seq(Ids) /\ pend'[n] = Remember(pend[n], id)
    BY <1>1, <1>3
  <2>2. \A m \in Nodes : m # n => pend'[m] = pend[m]
    BY <1>1, <1>3
  <2>3. /\ pend'[n] \in Seq(Ids)
        /\ \A k \in DOMAIN pend'[n] : pend'[n][k] = id \/ \E l \in DOMAIN pend[n] : pend'[n][k] = pend[n][l]
    BY <2>1, Remembered
  <2>4. pend' \in [Nodes -> Seq(Ids)]
    BY <1>1, <1>3, <2>1, <2>3
  <2>5. ASSUME NEW k \in DOMAIN pend'[n], pend'[n][k] = id PROVE Issued(pend'[n][k], vouched')
    BY <2>5 DEF Issued
  <2> QED BY <2>2, <2>3, <2>4, <2>5
<1> QED BY <1>2, <1>3

-----------------------------------------------------------------------------
\* bs enroll at n: n's operator vouches, n trusts itself.
LEMMA EnrollKeeps ==
  ASSUME TrustInv, NEW n \in Nodes, NEW j \in Joiners, Enroll(n, j)
  PROVE  TrustInv'
<1> DEFINE id == <<n, j, clock>>
<1>0. id \in Ids /\ Issuer(id) = n /\ Key(id) = j
  BY DEF Ids, Issuer, Key, TrustInv, MeshTyped
<1>1. /\ flight' = flight \cup Broadcast(n, id)
      /\ pend' = [pend EXCEPT ![n] = Remember(@, id)]
      /\ vouched' = vouched \cup {<<n, j>>} /\ UNCHANGED clock
      /\ trusted' = trusted \/ trusted' = [trusted EXCEPT ![n] = @ \cup {j}]
  BY <1>0 DEF Enroll, Apply, Refuse
<1> HIDE DEF id
<1>2. /\ pend' \in [Nodes -> Seq(Ids)]
      /\ \A m \in Nodes : \A k \in DOMAIN pend'[m] :
           (\E l \in DOMAIN pend[m] : pend'[m][k] = pend[m][l]) \/ Issued(pend'[m][k], vouched')
  BY <1>0, <1>1, QueueStep
<1>3. flight' \subseteq Frames /\ \A f \in flight' : f \in flight \/ Issued(f[3], vouched')
  <2>1. Broadcast(n, id) \subseteq Frames /\ \A f \in Broadcast(n, id) : f[3] = id
    BY <1>0, Broadcasted
  <2>2. <<Issuer(id), Key(id)>> \in vouched'
    BY <1>0, <1>1
  <2> QED BY <1>1, <2>1, <2>2 DEF TrustInv, MeshTyped, Issued
<1>4. trusted' \in [Nodes -> SUBSET Joiners]
  BY <1>1 DEF TrustInv, MeshTyped
<1>5. ASSUME NEW m \in Nodes, NEW x \in trusted'[m], x \notin trusted[m]
      PROVE  Rooted(m, x, vouched')
  <2>1. m = n /\ x = j
    BY <1>1, <1>5 DEF TrustInv, MeshTyped
  <2> QED BY <1>1, <2>1 DEF Rooted
<1>6. MeshTyped'
  BY <1>1, <1>2, <1>3, <1>4 DEF MeshTyped, TrustInv
<1> QED BY <1>1, <1>2, <1>3, <1>5, <1>6, TrustStep

\* A frame is acted on: the key it adds is vouched for by its issuer, a seed that is pinned here or n itself.
LEMMA ReceiveKeeps ==
  ASSUME TrustInv, NEW f \in flight, Receive(f)
  PROVE  TrustInv'
<1> DEFINE n == f[2]
           id == f[3]
<1>0. n \in Nodes /\ id \in Ids /\ Key(id) \in Joiners /\ <<Issuer(id), Key(id)>> \in vouched
  BY DEF TrustInv, MeshTyped, Frames, Ids, Issued, Key
<1>1. /\ flight' \subseteq flight \cup Broadcast(n, id)
      /\ pend' = pend \/ pend' = [pend EXCEPT ![n] = Remember(@, id)]
      /\ UNCHANGED <<vouched, clock>>
      /\ \/ trusted' = trusted
         \/ trusted' = [trusted EXCEPT ![n] = @ \cup {Key(id)}] /\ Issuer(id) \in Seeds[n] \cup {n}
  <2>1. CASE Apply(n, id) /\ ~Refuse(n, id)
    <3>1. pend' = [pend EXCEPT ![n] = IF id \notin seen'[n] THEN Remember(@, id) ELSE @]
      BY <2>1 DEF Receive
    <3>2. pend \in [Nodes -> Seq(Ids)]
      BY DEF TrustInv, MeshTyped
    <3>3. pend' = pend \/ pend' = [pend EXCEPT ![n] = Remember(@, id)]
      BY <3>1, <3>2
    <3> QED BY <2>1, <3>3 DEF Receive, Apply, Acceptable, IssuerOK
  <2>2. CASE Refuse(n, id) /\ UNCHANGED pend
    BY <2>2 DEF Receive, Refuse, Apply, Acceptable, IssuerOK
  <2>3. CASE Apply(n, id) /\ pend' = [pend EXCEPT ![n] = IF id \notin seen'[n] THEN Remember(@, id) ELSE @]
    <3>1. pend \in [Nodes -> Seq(Ids)]
      BY DEF TrustInv, MeshTyped
    <3>2. pend' = pend \/ pend' = [pend EXCEPT ![n] = Remember(@, id)]
      BY <2>3, <3>1
    <3> QED BY <2>3, <3>2 DEF Receive, Apply, Acceptable, IssuerOK
  <2> QED BY <2>1, <2>2, <2>3 DEF Receive
<1> HIDE DEF n, id
<1>2. /\ pend' \in [Nodes -> Seq(Ids)]
      /\ \A m \in Nodes : \A k \in DOMAIN pend'[m] :
           (\E l \in DOMAIN pend[m] : pend'[m][k] = pend[m][l]) \/ Issued(pend'[m][k], vouched')
  BY <1>0, <1>1, QueueStep
<1>3. flight' \subseteq Frames /\ \A g \in flight' : g \in flight \/ Issued(g[3], vouched')
  <2>1. Broadcast(n, id) \subseteq Frames /\ \A g \in Broadcast(n, id) : g[3] = id
    BY <1>0, Broadcasted
  <2> QED BY <1>0, <1>1, <2>1 DEF TrustInv, MeshTyped, Issued
<1>4. trusted' \in [Nodes -> SUBSET Joiners]
  BY <1>0, <1>1 DEF TrustInv, MeshTyped
<1>5. ASSUME NEW m \in Nodes, NEW x \in trusted'[m], x \notin trusted[m]
      PROVE  Rooted(m, x, vouched')
  <2>1. m = n /\ x = Key(id) /\ Issuer(id) \in Seeds[n] \cup {n}
    BY <1>1, <1>5 DEF TrustInv, MeshTyped
  <2> QED BY <1>0, <1>1, <2>1 DEF Rooted
<1>6. MeshTyped'
  BY <1>1, <1>2, <1>3, <1>4 DEF MeshTyped, TrustInv
<1> QED BY <1>1, <1>2, <1>3, <1>5, <1>6, TrustStep

\* A link comes up: each end replays what it remembers.
LEMMA LinkUpKeeps ==
  ASSUME TrustInv, NEW p \in Pairs, LinkUp(p)
  PROVE  TrustInv'
<1>1. p \subseteq Nodes
  BY ParamsAssumption
<1>2. UNCHANGED <<trusted, pend, vouched, clock>>
  BY DEF LinkUp, nodeVars
<1>3. \A g \in flight' : g \in flight \/ \E n, m \in Nodes : g \in Copies(n, m)
  BY <1>1 DEF LinkUp
<1>4. \A g \in flight' : g \in Frames /\ (g \in flight \/ Issued(g[3], vouched'))
  BY <1>2, <1>3, Copied DEF TrustInv, MeshTyped, Issued
<1>5. MeshTyped'
  BY <1>2, <1>4 DEF MeshTyped, TrustInv
<1> QED BY <1>2, <1>4, <1>5, TrustStep

\* JoinRequest accepted: the host's operator minted the token.
LEMMA JoinKeeps ==
  ASSUME TrustInv, NEW j \in Joiners, NEW i \in Invites, JoinAccepted(j, i)
  PROVE  TrustInv'
<1> DEFINE id == <<Host, j, clock>>
<1>0. Host \in Nodes /\ id \in Ids /\ Issuer(id) = Host /\ Key(id) = j
  BY ParamsAssumption DEF Ids, Issuer, Key, TrustInv, MeshTyped
<1>1. /\ flight' = flight \/ flight' = flight \cup Broadcast(Host, id)
      /\ pend' = pend \/ pend' = [pend EXCEPT ![Host] = Remember(@, id)]
      /\ vouched' = vouched \cup {<<Host, j>>} /\ UNCHANGED clock
      /\ trusted' = [trusted EXCEPT ![Host] = @ \cup {j}]
  BY DEF JoinAccepted
<1> HIDE DEF id
<1>2. /\ pend' \in [Nodes -> Seq(Ids)]
      /\ \A m \in Nodes : \A k \in DOMAIN pend'[m] :
           (\E l \in DOMAIN pend[m] : pend'[m][k] = pend[m][l]) \/ Issued(pend'[m][k], vouched')
  BY <1>0, <1>1, QueueStep
<1>3. flight' \subseteq Frames /\ \A f \in flight' : f \in flight \/ Issued(f[3], vouched')
  <2>1. Broadcast(Host, id) \subseteq Frames /\ \A f \in Broadcast(Host, id) : f[3] = id
    BY <1>0, Broadcasted
  <2>2. <<Issuer(id), Key(id)>> \in vouched'
    BY <1>0, <1>1
  <2> QED BY <1>1, <2>1, <2>2 DEF TrustInv, MeshTyped, Issued
<1>4. trusted' \in [Nodes -> SUBSET Joiners]
  BY <1>0, <1>1 DEF TrustInv, MeshTyped
<1>5. ASSUME NEW m \in Nodes, NEW x \in trusted'[m], x \notin trusted[m]
      PROVE  Rooted(m, x, vouched')
  <2>1. m = Host /\ x = j
    BY <1>1, <1>5 DEF TrustInv, MeshTyped
  <2> QED BY <1>1, <2>1 DEF Rooted
<1>6. MeshTyped'
  BY <1>1, <1>2, <1>3, <1>4 DEF MeshTyped, TrustInv
<1> QED BY <1>1, <1>2, <1>3, <1>5, <1>6, TrustStep

\* Steps that only take away.
LEMMA LossKeeps ==
  ASSUME TrustInv, flight' \subseteq flight, vouched' = vouched, clock' \in 0..MaxTime,
         pend' = pend \/ \E n \in Nodes : pend' = [pend EXCEPT ![n] = <<>>],
         trusted' = trusted \/ \E n \in Nodes, j \in Joiners : trusted' = [trusted EXCEPT ![n] = @ \ {j}]
  PROVE  TrustInv'
<1>1. pend \in [Nodes -> Seq(Ids)] /\ trusted \in [Nodes -> SUBSET Joiners]
  BY DEF TrustInv, MeshTyped
<1>2. pend' \in [Nodes -> Seq(Ids)] /\ \A n \in Nodes : pend'[n] = pend[n] \/ pend'[n] = <<>>
  <2>1. <<>> \in Seq(Ids)
    OBVIOUS
  <2>2. \A n \in Nodes : [pend EXCEPT ![n] = <<>>] \in [Nodes -> Seq(Ids)]
    BY <1>1, <2>1
  <2> QED BY <1>1, <2>2
<1>3. trusted' \in [Nodes -> SUBSET Joiners] /\ \A n \in Nodes : trusted'[n] \subseteq trusted[n]
  BY <1>1
<1>4. MeshTyped'
  BY <1>2, <1>3 DEF MeshTyped, TrustInv
<1>5. \A n \in Nodes : \A k \in DOMAIN pend'[n] : \E l \in DOMAIN pend[n] : pend'[n][k] = pend[n][l]
  BY <1>2
<1> QED BY <1>3, <1>4, <1>5, TrustStep

-----------------------------------------------------------------------------
LEMMA TrustAlways == Spec => []TrustInv
<1>1. Init => TrustInv
  BY ParamsAssumption DEF Init, TrustInv, MeshTyped
<1>2. TrustInv /\ [Next]_vars => TrustInv'
  <2> SUFFICES ASSUME TrustInv, [Next]_vars PROVE TrustInv'
    OBVIOUS
  <2>0. clock \in 0..MaxTime
    BY DEF TrustInv, MeshTyped
  <2>1. CASE \E n \in Nodes, j \in Joiners : Enroll(n, j)
    BY <2>1, EnrollKeeps
  <2>2. CASE \E f \in flight : Receive(f)
    BY <2>2, ReceiveKeeps
  <2>3. CASE \E p \in Pairs : LinkUp(p)
    BY <2>3, LinkUpKeeps
  <2>4. CASE \E j \in Joiners, i \in Invites : JoinAccepted(j, i)
    BY <2>4, JoinKeeps
  <2>5. CASE \E n \in Nodes, j \in Joiners : Revoke(n, j)
    BY <2>0, <2>5, LossKeeps DEF Revoke, meshVars
  <2>6. CASE \E f \in flight : WorkerReads(f)
    BY <2>0, <2>6, LossKeeps DEF WorkerReads, nodeVars
  <2>7. CASE \E p \in Pairs : LinkDown(p)
    BY <2>0, <2>7, LossKeeps DEF LinkDown, Cut, nodeVars
  <2>8. CASE \E n \in Nodes : Restart(n)
    BY <2>0, <2>8, LossKeeps DEF Restart, Cut
  <2>9. CASE \E n, m \in Nodes : Borrow(n, m) \/ Release(n, m)
    BY <2>0, <2>9, LossKeeps DEF Borrow, Release, nodeVars
  <2>10. CASE \E i \in Invites : Invite(i) \/ ExpireInvite(i)
    BY <2>0, <2>10, LossKeeps DEF Invite, ExpireInvite, nodeVars, meshVars
  <2>11. CASE WindowCapElapses \/ CloseWindow
    BY <2>0, <2>11, LossKeeps DEF WindowCapElapses, CloseWindow, nodeVars, meshVars
  <2>12. CASE Tick
    <3>1. clock' \in 0..MaxTime
      BY <2>0, <2>12, ParamsAssumption DEF Tick
    <3> QED BY <2>12, <3>1, LossKeeps DEF Tick, nodeVars, meshVars
  <2>13. CASE \E j \in Joiners : Connect(j) \/ Leave(j) \/ Prune(j)
    BY <2>0, <2>13, LossKeeps DEF Connect, Leave, Prune, nodeVars, meshVars
  <2>14. CASE \E j \in Joiners, i \in Invites : JoinRefused(j, i) \/ JoinWriteFails(j, i)
    BY <2>0, <2>14, LossKeeps DEF JoinRefused, JoinWriteFails, nodeVars, meshVars
  <2>15. CASE UNCHANGED vars
    BY <2>0, <2>15, LossKeeps DEF vars, nodeVars, meshVars
  <2> QED BY <2>1, <2>2, <2>3, <2>4, <2>5, <2>6, <2>7, <2>8, <2>9, <2>10, <2>11, <2>12, <2>13, <2>14, <2>15 DEF Next, Deliver
<1> QED BY <1>1, <1>2, PTL DEF Spec

\* A daemon trusts no key but one that its own operator or that of a seed it pins invited or enrolled, whatever is relayed,
\* replayed, lost or forgotten (comment 1 in apply_directory_enroll).
THEOREM TrustCorrect == Spec => []TrustRooted
<1>1. TrustInv => TrustRooted
  BY DEF TrustInv, Rooted, TrustRooted
<1> QED BY <1>1, TrustAlways, PTL
-----------------------------------------------------------------------------
(* Revocation. *)

\* An id that added a key since the daemon started is one it remembers.
ConsumedInv ==
  /\ seen \in [Nodes -> SUBSET Ids] /\ minted \in [Nodes -> SUBSET Ids]
  /\ \A n \in Nodes : minted[n] \subseteq seen[n]

\* A daemon that applies an enrollment, and one that does not.
LEMMA ApplyConsumes ==
  ASSUME ConsumedInv, NEW n \in Nodes, NEW id \in Ids, Apply(n, id) \/ Refuse(n, id)
  PROVE  ConsumedInv'
<1>1. CASE Apply(n, id)
  <2>1. /\ seen' = [seen EXCEPT ![n] = @ \cup {id}]
        /\ minted' = minted \/ minted' = [minted EXCEPT ![n] = @ \cup {id}]
    BY <1>1 DEF Apply, ConsumedInv
  <2> QED BY <2>1 DEF ConsumedInv
<1>2. CASE Refuse(n, id)
  BY <1>2 DEF Refuse, ConsumedInv
<1> QED BY <1>1, <1>2

\* How a step may change what a daemon trusts and remembers.
LEMMA TrustChange ==
  ASSUME TrustInv, Next
  PROVE  \/ \E n \in Nodes, id \in Ids : Apply(n, id) \/ Refuse(n, id)
         \/ UNCHANGED <<trusted, seen, minted>>
         \/ \E j \in Joiners, i \in Invites : JoinAccepted(j, i)
         \/ \E n \in Nodes, j \in Joiners : Revoke(n, j)
         \/ \E n \in Nodes : Restart(n)
<1>1. ASSUME NEW n \in Nodes, NEW j \in Joiners, Enroll(n, j)
      PROVE  \E id \in Ids : Apply(n, id) \/ Refuse(n, id)
  <2>1. <<n, j, clock>> \in Ids
    BY DEF TrustInv, MeshTyped, Ids
  <2> QED BY <1>1, <2>1 DEF Enroll
<1>2. ASSUME NEW f \in flight, Receive(f)
      PROVE  \E n \in Nodes, id \in Ids : Apply(n, id) \/ Refuse(n, id)
  <2>1. f[2] \in Nodes /\ f[3] \in Ids
    BY DEF TrustInv, MeshTyped, Frames
  <2> QED BY <1>2, <2>1 DEF Receive
<1>3. ASSUME NEW f \in flight, WorkerReads(f)
      PROVE  UNCHANGED <<trusted, seen, minted>>
  BY <1>3 DEF WorkerReads, nodeVars
<1>4. CASE \E p \in Pairs : LinkUp(p) \/ LinkDown(p)
  BY <1>4 DEF LinkUp, LinkDown, nodeVars
<1>5. CASE \E n, m \in Nodes : Borrow(n, m) \/ Release(n, m)
  BY <1>5 DEF Borrow, Release, nodeVars
<1>6. CASE \E i \in Invites : Invite(i) \/ ExpireInvite(i)
  BY <1>6 DEF Invite, ExpireInvite, nodeVars
<1>7. CASE WindowCapElapses \/ CloseWindow \/ Tick
  BY <1>7 DEF WindowCapElapses, CloseWindow, Tick, nodeVars
<1>8. CASE \E j \in Joiners : Connect(j) \/ Leave(j) \/ Prune(j)
  BY <1>8 DEF Connect, Leave, Prune, nodeVars
<1>9. CASE \E j \in Joiners, i \in Invites : JoinRefused(j, i) \/ JoinWriteFails(j, i)
  BY <1>9 DEF JoinRefused, JoinWriteFails, nodeVars
<1> QED BY <1>1, <1>2, <1>3, <1>4, <1>5, <1>6, <1>7, <1>8, <1>9 DEF Next, Deliver

LEMMA ConsumedStep ==
  ASSUME TrustInv, ConsumedInv, [Next]_vars
  PROVE  ConsumedInv'
<1>1. CASE UNCHANGED <<trusted, seen, minted>>
  BY <1>1 DEF ConsumedInv
<1>2. CASE \E n \in Nodes, id \in Ids : Apply(n, id) \/ Refuse(n, id)
  BY <1>2, ApplyConsumes
<1>3. CASE \E j \in Joiners, i \in Invites : JoinAccepted(j, i)
  <2>1. PICK j \in Joiners : /\ \/ seen' = [seen EXCEPT ![Host] = @ \cup {<<Host, j, clock>>}]
                                \/ UNCHANGED seen
                             /\ UNCHANGED minted
    BY <1>3 DEF JoinAccepted
  <2>2. <<Host, j, clock>> \in Ids
    BY ParamsAssumption DEF TrustInv, MeshTyped, Ids
  <2> QED BY <2>1, <2>2 DEF ConsumedInv
<1>4. CASE \E n \in Nodes, j \in Joiners : Revoke(n, j)
  BY <1>4 DEF Revoke, ConsumedInv
<1>5. CASE \E n \in Nodes : Restart(n)
  BY <1>5 DEF Restart, ConsumedInv
<1>6. CASE UNCHANGED vars
  BY <1>1, <1>6 DEF vars, nodeVars
<1> QED BY <1>1, <1>2, <1>3, <1>4, <1>5, <1>6, TrustChange

\* A revoked key comes back only through a JoinRequest or an enrollment its
\* daemon has not used since it started, however often peers replay what they
\* remember (comment 4b in apply_directory_enroll).
THEOREM RevocationCorrect == Spec => RevokedStaysOut
<1> DEFINE Out == \A n \in Nodes, j \in Joiners :
       (j \in trusted'[n] \ trusted[n] /\ claims' = claims)
         => \E id \in minted'[n] : Key(id) = j /\ id \notin minted[n]
<1>1. TokenInv /\ TrustInv /\ ConsumedInv /\ [Next]_vars => [Out]_vars
  <2> SUFFICES ASSUME TokenInv, TrustInv, ConsumedInv, Next, NEW n \in Nodes, NEW j \in Joiners,
                      j \in trusted'[n], j \notin trusted[n], claims' = claims
               PROVE  \E id \in minted'[n] : Key(id) = j /\ id \notin minted[n]
    BY DEF Out
  <2>1. ASSUME NEW m \in Nodes, NEW id \in Ids, Apply(m, id) \/ Refuse(m, id)
        PROVE  \E x \in minted'[n] : Key(x) = j /\ x \notin minted[n]
    <3>1. Apply(m, id) /\ m = n /\ Key(id) = j
      BY <2>1 DEF Apply, Refuse, TrustInv, MeshTyped
    <3>2. minted'[n] = minted[n] \cup {id}
      BY <3>1 DEF Apply, ConsumedInv
    <3>3. id \notin seen[n]
      BY <3>1 DEF Apply, Acceptable, Replay
    <3> QED BY <3>1, <3>2, <3>3 DEF ConsumedInv
  <2>2. ASSUME NEW k \in Joiners, NEW i \in Invites, JoinAccepted(k, i) PROVE FALSE
    <3>1. <<i, k>> \in claims /\ invite[i] = "open"
      BY <2>2 DEF JoinAccepted, Redeemable
    <3> QED BY <3>1 DEF TokenInv
  <2>3. ASSUME NEW m \in Nodes, NEW k \in Joiners, Revoke(m, k) PROVE FALSE
    BY <2>3 DEF Revoke, TrustInv, MeshTyped
  <2>4. ASSUME NEW m \in Nodes, Restart(m) PROVE FALSE
    BY <2>4 DEF Restart
  <2> QED BY <2>1, <2>2, <2>3, <2>4, TrustChange
<1>2. Init => ConsumedInv
  BY DEF Init, ConsumedInv
<1>3. TrustInv /\ ConsumedInv /\ [Next]_vars => ConsumedInv'
  BY ConsumedStep
<1> QED BY <1>1, <1>2, <1>3, TokensAlways, TrustAlways, PTL DEF Spec, RevokedStaysOut
=============================================================================

------------------------------ MODULE Terminal ------------------------------
(***************************************************************************)
(* `bs shell`: the clients of one session of a remote daemon, from the     *)
(* keyboard to the shell and from the shell to the screen.  From           *)
(* bs-mesh-cli.h (shell_peer, shell_peer_detach and the event loop's       *)
(* order), bs-mesh-transfer.h (AttachMsg and KeystrokeMsg, PTY input,      *)
(* pty_output_poller, the output queues) and bs-session-registry.h.        *)
(*                                                                         *)
(* A client reaches the daemon over one connection at a time.  Each        *)
(* direction holds frames that have arrived or will arrive in order until  *)
(* the connection breaks.  Keys and chunks of output are numbered.  Who    *)
(* owns the session across daemons and workers is the subject of Sessions. *)
(***************************************************************************)
EXTENDS Integers, Sequences, FiniteSets

CONSTANTS
  Clients,
  Kind,       \* Kind[c]: tty (interactive), job (-x), starter (--detach)
  Command,    \* clients that give a command
  MaxKeys,    \* keys each tty types
  MaxChunks,  \* chunks the shells print
  MaxItems,   \* keys and chunks together
  MaxLinks,   \* connections, of all clients
  Together,   \* clients connected at the same time
  MaxBreaks,  \* connections that break
  MaxLives,   \* shells the session has
  AwayMax,    \* kMaxPendingInput, in keys
  PtyRoom,    \* keys on their way to the shell, past the daemon
  PtyMax,     \* kPtyInputMax; the low water mark is no key at all
  PtyHigh,    \* kPtyInputHighWater
  TxMax,      \* kTxQueueHighWaterBytes, in frames
  WireMax,    \* frames the sockets hold
  OutMax      \* kOutputQueueHighWater

VARIABLES
  client,  \* what shell_peer holds, per client
  links,   \* the connections, oldest first: the order the loop reads them in
  shell,   \* the process, its input and what it printed
  sess,    \* the daemon's session: none, live, died
  input,   \* Session::pending_input and input_backpressured
  polled,  \* how much of the output the daemon has read, and what of it is in Session::scrollback
  ran,     \* how often each client's command was started
  used

vars == <<client, links, shell, sess, input, polled, ran, used>>

Keys == Clients \X (1..MaxKeys)
Chunks == 1..MaxChunks
Frames == [k : {"ack", "gap", "died"}] \cup [k : {"out", "scroll"}, of : SUBSET Chunks]

TypeOK ==
  /\ client \in [Clients -> [at : {"away", "attached", "up", "left"}, link : 0..MaxLinks,
                             typed : 0..MaxKeys, pending : Seq(Keys), asked : BOOLEAN]]
  /\ \A c \in Clients : Len(client[c].pending) <= AwayMax
  /\ \A l \in DOMAIN links :
       /\ links[l].tx \in Seq(Frames) /\ links[l].wire \in Seq(Frames) /\ links[l].outq \in Seq(Frames)
       /\ Len(links[l].tx) <= TxMax /\ Len(links[l].wire) <= WireMax /\ Len(links[l].outq) <= OutMax
  /\ shell \in [up : BOOLEAN, life : 0..MaxLives, made : 0..MaxChunks, pty : Seq(Keys), got : Seq(Keys)]
  /\ sess \in {"none", "live", "died"}
  /\ input \in [pending : Seq(Keys), full : BOOLEAN] /\ Len(input.pending) <= PtyMax
  /\ polled \in [n : 0..MaxChunks, ring : SUBSET Chunks]
  /\ ran \in [Clients -> 0..MaxLives]
  /\ used \in [breaks : 0..MaxBreaks, items : 0..MaxItems]

Init ==
  /\ client = [c \in Clients |-> [at |-> "away", link |-> 0, typed |-> 0, pending |-> <<>>, asked |-> FALSE]]
  /\ links = <<>>
  /\ shell = [up |-> FALSE, life |-> 0, made |-> 0, pty |-> <<>>, got |-> <<>>]
  /\ sess = "none"
  /\ input = [pending |-> <<>>, full |-> FALSE]
  /\ polled = [n |-> 0, ring |-> {}]
  /\ ran = [c \in Clients |-> 0]
  /\ used = [breaks |-> 0, items |-> 0]

session == <<shell, sess, input, polled, ran>>

-----------------------------------------------------------------------------
(* The client. *)

Mine(c) == links[client[c].link]
Dead(k) == k.cut \/ ~k.open

\* Mutant: the command is replayed on every reconnect.
AttachReplays(c) == [k |-> "attach", cmd |-> c \in Command, again |-> FALSE]

\* prepare_interactive_attach: the command goes with the first AttachMsg only, later ones do not create a session.
Attach(c) == [k |-> "attach", cmd |-> c \in Command /\ ~client[c].asked, again |-> client[c].asked]

NewLink(c) ==
  [owner |-> c, open |-> TRUE, cut |-> FALSE, inbox |-> <<Attach(c)>>, at |-> FALSE,
   tx |-> <<>>, wire |-> <<>>, outq |-> <<>>, gap |-> FALSE, lost |-> FALSE, shown |-> {}, warned |-> FALSE]

\* Only a tty comes back after it has attached once; connect_with_retry and shell_peer_detach end with the first AttachMsg.
Dial(c) ==
  /\ client[c].at = "away"
  /\ client[c].asked => Kind[c] = "tty"
  /\ Len(links) < MaxLinks
  /\ Cardinality({d \in Clients : client[d].at \in {"attached", "up"}}) < Together
  /\ links' = Append(links, NewLink(c))
  /\ client' = [client EXCEPT ![c].at = "attached", ![c].link = Len(links) + 1, ![c].asked = TRUE]
  /\ UNCHANGED <<session, used>>

\* Whatever the daemon still writes to it goes nowhere.
Cut(k) ==
  [k EXCEPT !.cut = TRUE, !.tx = <<>>, !.wire = <<>>, !.outq = <<>>, !.gap = FALSE, !.lost = FALSE,
            !.shown = {}, !.warned = FALSE]

Sends(c, f) == links' = [links EXCEPT ![client[c].link].inbox = Append(@, f)]

Room(q, ks) == SubSeq(ks, 1, IF Len(q) + Len(ks) > AwayMax THEN AwayMax - Len(q) ELSE Len(ks))

\* Mutant: what was written is not forgotten.
ResendKeeps(c) ==
  /\ client[c].at = "attached"
  /\ client' = [client EXCEPT ![c].at = IF Dead(Mine(c)) /\ client[c].pending # <<>> THEN "away" ELSE "up"]
  /\ IF client[c].pending = <<>> \/ Dead(Mine(c)) THEN UNCHANGED links
     ELSE Sends(c, [k |-> "keys", ks |-> client[c].pending])
  /\ UNCHANGED <<session, used>>

\* The keys typed while away follow the AttachMsg; they are forgotten once they are written.
Resend(c) ==
  /\ client[c].at = "attached"
  /\ IF Dead(Mine(c)) /\ client[c].pending # <<>>
     THEN /\ client' = [client EXCEPT ![c].at = "away"]
          /\ UNCHANGED links
     ELSE /\ client' = [client EXCEPT ![c].at = "up", ![c].pending = <<>>]
          /\ IF client[c].pending = <<>> THEN UNCHANGED links ELSE Sends(c, [k |-> "keys", ks |-> client[c].pending])
  /\ UNCHANGED <<session, used>>

\* A write on a connection that is gone fails, or is lost without a word.
Type(c) ==
  /\ Kind[c] = "tty" /\ client[c].at \in {"away", "up"} /\ client[c].typed < MaxKeys
  /\ used.items < MaxItems
  /\ used' = [used EXCEPT !.items = @ + 1]
  /\ LET key == <<c, client[c].typed + 1>>
         kept == client[c].pending \o Room(client[c].pending, <<key>>)
         one == [client EXCEPT ![c].typed = @ + 1]
     IN \/ /\ client[c].at = "up" /\ ~Mine(c).cut
           /\ Sends(c, [k |-> "keys", ks |-> <<key>>])
           /\ client' = one
        \/ /\ client[c].at = "up" /\ Mine(c).cut
           /\ client' = one
           /\ UNCHANGED links
        \/ /\ client[c].at = "away" \/ (client[c].at = "up" /\ Dead(Mine(c)))
           /\ client' = [one EXCEPT ![c].at = "away", ![c].pending = kept]
           /\ UNCHANGED links
  /\ UNCHANGED session

\* Ctrl-D, or Ctrl-C while away; a job's deadline; a signal, which sends no DetachMsg.
Leave(c) ==
  /\ client[c].at \in {"away", "up"}
  /\ client' = [client EXCEPT ![c].at = "left"]
  /\ IF client[c].at = "up" /\ ~Mine(c).cut
     THEN \E said \in IF Kind[c] = "tty" THEN {<<>>, <<[k |-> "detach"]>>} ELSE {<<>>} :
            links' = [links EXCEPT ![client[c].link] = [Cut(Mine(c)) EXCEPT !.inbox = @ \o said]]
     ELSE UNCHANGED links
  /\ UNCHANGED <<session, used>>

\* process_shell_response and process_noninteractive_response; an OutputGap is none of the messages they know.
Shows(f) == IF f.k \in {"out", "scroll"} THEN f.of ELSE {}
Final(c, f) == f.k = "died" \/ (Kind[c] = "starter" /\ f.k \in {"ack", "out"})

Receive(c) ==
  /\ client[c].at = "up" /\ Mine(c).wire # <<>>
  /\ LET f == Head(Mine(c).wire)
         ends == Final(c, f)
         read == [Mine(c) EXCEPT !.wire = Tail(@), !.shown = @ \cup Shows(f), !.warned = @ \/ f.k = "gap"]
     IN /\ links' = [links EXCEPT ![client[c].link] = IF ends THEN Cut(read) ELSE read]
        /\ client' = [client EXCEPT ![c].at = IF ends THEN "left" ELSE "up"]
  /\ UNCHANGED <<session, used>>

\* The connection is gone and read to its end: a tty waits and dials again, the others return 255.
Notice(c) ==
  /\ client[c].at = "up" /\ Dead(Mine(c)) /\ Mine(c).wire = <<>>
  /\ client' = [client EXCEPT ![c].at = IF Kind[c] = "tty" THEN "away" ELSE "left"]
  /\ links' = [links EXCEPT ![client[c].link] = Cut(@)]
  /\ UNCHANGED <<session, used>>

-----------------------------------------------------------------------------
(* Frames to a client. *)

HasRoom(k) == Len(k.tx) < TxMax

Flushed(k) ==
  LET n == IF WireMax - Len(k.wire) < Len(k.tx) THEN WireMax - Len(k.wire) ELSE Len(k.tx)
  IN IF k.cut THEN [k EXCEPT !.tx = <<>>] ELSE [k EXCEPT !.wire = @ \o SubSeq(k.tx, 1, n), !.tx = SubSeq(@, n + 1, Len(@))]

Enqueued(k, f) == Flushed([k EXCEPT !.tx = Append(@, f)])

Target(k) == k.open /\ k.at

\* Mutant: the oldest is dropped and no gap announced.
OutputQuietly(k, f) ==
  IF HasRoom(k) THEN Enqueued(k, f)
  ELSE [k EXCEPT !.outq = Append(IF Len(@) >= OutMax THEN Tail(@) ELSE @, f)]

\* The fan-out of an OutputMsg: straight into the TLS queue, else into the queue that drops its oldest.
Output(k, f) ==
  IF HasRoom(k) THEN Enqueued(k, f)
  ELSE IF Len(k.outq) >= OutMax THEN [k EXCEPT !.outq = Append(Tail(@), f), !.gap = TRUE]
  ELSE [k EXCEPT !.outq = Append(@, f)]

\* The fan-out of anything else; SessionDied too is dropped when there is no room.
Control(k, f) == IF HasRoom(k) THEN Enqueued(k, f) ELSE [k EXCEPT !.lost = TRUE]

\* drain_output_queues: the announcement of a gap first, then what waits.
Promoted(k) ==
  LET waiting == (IF k.gap THEN <<[k |-> "gap"]>> ELSE <<>>) \o k.outq
      free == WireMax - Len(k.wire) + TxMax - Len(k.tx)
      n == IF ~HasRoom(k) THEN 0 ELSE IF free < Len(waiting) THEN free ELSE Len(waiting)
      rest == SubSeq(waiting, n + 1, Len(waiting))
  IN Flushed([k EXCEPT !.tx = @ \o SubSeq(waiting, 1, n),
                       !.gap = @ /\ n = 0,
                       !.outq = IF k.gap /\ n = 0 THEN Tail(rest) ELSE rest])

-----------------------------------------------------------------------------
(* The daemon. *)

Attached == {l \in DOMAIN links : Target(links[l])}

\* A connection's attachment goes with it.
Closed(k) ==
  [k EXCEPT !.open = FALSE, !.at = FALSE, !.inbox = <<>>, !.tx = <<>>, !.outq = <<>>, !.gap = FALSE, !.shown = {}]

\* What a new attachment is sent.
Greeted(k) ==
  LET acked == Enqueued([k EXCEPT !.at = TRUE], [k |-> "ack"])
  IN IF polled.ring = {} THEN acked ELSE Control(acked, [k |-> "scroll", of |-> polled.ring])

\* attach_connection: a live session somebody is attached to wins over a command.
Spawns(f) ==
  /\ ~f.again
  /\ sess # "live" \/ (f.cmd /\ Attached = {})

Joins(k) == [Greeted(k) EXCEPT !.shown = 1..polled.n]

\* A new shell keeps the scrollback; what the old one's worker had not handed over is lost with it.
ReadAttach(l, f) ==
  LET k == [links[l] EXCEPT !.inbox = Tail(@)] IN
  \/ /\ ~Spawns(f) /\ sess = "live"
     /\ links' = [links EXCEPT ![l] = Joins(k)]
     /\ UNCHANGED session
  \/ /\ Spawns(f) /\ shell.life < MaxLives
     /\ links' = [links EXCEPT ![l] = [Joins(k) EXCEPT !.shown = 1..shell.made]]
     /\ shell' = [shell EXCEPT !.up = TRUE, !.life = @ + 1, !.pty = <<>>]
     /\ sess' = "live"
     /\ input' = [pending |-> <<>>, full |-> FALSE]
     /\ polled' = [polled EXCEPT !.n = shell.made]
     /\ ran' = IF f.cmd THEN [ran EXCEPT ![k.owner] = @ + 1] ELSE ran
  \/ /\ IF f.again THEN sess # "live" ELSE Spawns(f) /\ shell.life = MaxLives
     /\ links' = [links EXCEPT ![l] = Enqueued(k, [k |-> "died"])]
     /\ UNCHANGED session

\* write_pty_input: what the worker's socket does not take waits, in order, while there is room for it.
Written(ks) ==
  LET all == input.pending \o ks
      free == PtyRoom - Len(shell.pty)
      n == IF free < Len(all) THEN free ELSE Len(all)
      rest == SubSeq(all, n + 1, Len(all))
  IN [pty |-> shell.pty \o SubSeq(all, 1, n), pending |-> rest, full |-> Len(rest) >= PtyHigh]

\* A KeystrokeMsg without a session to take it is ignored; one that does not fit closes the connection.
ReadKeys(l, ks) ==
  LET k == [links[l] EXCEPT !.inbox = Tail(@)]
      w == Written(ks)
  IN \/ /\ k.at /\ sess = "live" /\ Len(input.pending) + Len(ks) <= PtyMax
        /\ shell' = [shell EXCEPT !.pty = w.pty]
        /\ input' = [pending |-> w.pending, full |-> w.full]
        /\ links' = [links EXCEPT ![l] = k]
        /\ UNCHANGED <<sess, polled, ran>>
     \/ /\ k.at /\ sess = "live" /\ Len(input.pending) + Len(ks) > PtyMax
        /\ links' = [links EXCEPT ![l] = Closed(k)]
        /\ UNCHANGED session
     \/ /\ ~(k.at /\ sess = "live")
        /\ links' = [links EXCEPT ![l] = k]
        /\ UNCHANGED session

\* No connection whose session has no room for more input is polled; what one read has got is still dispatched.
Blocked(k) == k.at /\ input.full

\* The loop reads its connections oldest first.
First(l) ==
  \A m \in 1..l - 1 :
    links[m].open /\ links[m].inbox # <<>> => Blocked(links[m]) /\ ~Blocked(links[l])

\* check_conn_read.  An end of the stream that has arrived hides the frames before it: socket_peer_half_closed.
Reads(l) ==
  /\ links[l].open /\ First(l)
  /\ \/ /\ links[l].cut
        /\ links' = [links EXCEPT ![l] = Closed(@)]
        /\ UNCHANGED session
     \/ /\ links[l].inbox # <<>>
        /\ LET f == Head(links[l].inbox) IN
           \/ f.k = "attach" /\ ReadAttach(l, f)
           \/ f.k = "keys" /\ ReadKeys(l, f.ks)
           \/ /\ f.k = "detach"
              /\ links' = [links EXCEPT ![l].inbox = Tail(@), ![l].at = FALSE]
              /\ UNCHANGED session
  /\ UNCHANGED <<client, used>>

Every(Op(_), ks) == [l \in DOMAIN ks |-> IF ks[l].open THEN Op(ks[l]) ELSE ks[l]]
FanOut(Send(_, _), f, ks) == [l \in DOMAIN ks |-> IF Target(ks[l]) THEN Send(ks[l], f) ELSE ks[l]]

Unread == polled.n + 1..shell.made

\* pty_output_poller.  All there is to read makes one message; a worker's last frame, WMSG_DIED, comes after its output,
\* so the end is told last.
Polled(ks) ==
  LET read == IF Unread = {} THEN ks ELSE FanOut(Output, [k |-> "out", of |-> Unread], ks)
  IN IF shell.up THEN read ELSE FanOut(Control, [k |-> "died"], read)

\* The rest of an iteration: writable sockets, the poll, the output queues.
Tick ==
  /\ links' = Every(Promoted, IF sess = "live" THEN Polled(Every(Flushed, links)) ELSE Every(Flushed, links))
  /\ IF sess = "live"
     THEN /\ polled' = [n |-> shell.made, ring |-> polled.ring \cup Unread]
          /\ sess' = IF shell.up THEN sess ELSE "died"
          /\ input' = IF shell.up THEN input ELSE [pending |-> <<>>, full |-> FALSE]
     ELSE UNCHANGED <<polled, sess, input>>
  /\ UNCHANGED <<client, shell, ran, used>>

\* Mutant: reap_dead(true), which takes the end of an attached session from the poll.
ReapAttached ==
  /\ sess = "live"
  /\ polled' = [polled EXCEPT !.n = shell.made]
  /\ sess' = IF shell.up THEN sess ELSE "died"
  /\ UNCHANGED <<client, links, shell, input, ran, used>>

\* reap_dead(false), after the poll, of a session nobody is attached to: it reads the worker's frames too and drops the
\* output among them.
Reap ==
  /\ sess = "live" /\ Attached = {}
  /\ polled' = [polled EXCEPT !.n = shell.made]
  /\ sess' = IF shell.up THEN sess ELSE "died"
  /\ UNCHANGED <<client, links, shell, input, ran, used>>

\* drain_pending_pty_input.
DrainInput ==
  /\ input.pending # <<>> /\ Len(shell.pty) < PtyRoom
  /\ LET free == PtyRoom - Len(shell.pty)
         n == IF free < Len(input.pending) THEN free ELSE Len(input.pending)
         rest == SubSeq(input.pending, n + 1, Len(input.pending))
     IN /\ shell' = [shell EXCEPT !.pty = @ \o SubSeq(input.pending, 1, n)]
        /\ input' = [pending |-> rest, full |-> input.full /\ rest # <<>>]
  /\ UNCHANGED <<client, links, sess, polled, ran, used>>

-----------------------------------------------------------------------------
(* The shell and the network. *)

Prints ==
  /\ shell.up /\ shell.made < MaxChunks /\ used.items < MaxItems
  /\ used' = [used EXCEPT !.items = @ + 1]
  /\ shell' = [shell EXCEPT !.made = @ + 1]
  /\ UNCHANGED <<client, links, sess, input, polled, ran>>

Eats ==
  /\ shell.up /\ shell.pty # <<>>
  /\ shell' = [shell EXCEPT !.pty = Tail(@), !.got = Append(@, Head(shell.pty))]
  /\ UNCHANGED <<client, links, sess, input, polled, ran, used>>

Exits ==
  /\ shell.up
  /\ shell' = [shell EXCEPT !.up = FALSE]
  /\ UNCHANGED <<client, links, sess, input, polled, ran, used>>

\* What arrived of either direction still counts; a part of it is lost.
Break(l) ==
  /\ used.breaks < MaxBreaks /\ links[l].open /\ ~links[l].cut
  /\ used' = [used EXCEPT !.breaks = @ + 1]
  /\ \E i \in 0..Len(links[l].inbox), w \in 0..Len(links[l].wire) :
       links' = [links EXCEPT ![l] = [Cut(links[l]) EXCEPT !.inbox = SubSeq(@, 1, i), !.wire = SubSeq(links[l].wire, 1, w)]]
  /\ UNCHANGED <<client, session>>

Client(c) == Dial(c) \/ Resend(c) \/ Type(c) \/ Leave(c) \/ Receive(c) \/ Notice(c)
Daemon == (\E l \in DOMAIN links : Reads(l)) \/ Tick \/ Reap \/ DrainInput
Next ==
  \/ \E c \in Clients : Client(c)
  \/ Daemon
  \/ Prints \/ Eats \/ Exits
  \/ \E l \in DOMAIN links : Break(l)

Spec == Init /\ [][Next]_vars

-----------------------------------------------------------------------------
(* What the code promises. *)

\* Keys reach shells in the order they were typed in and never twice, whatever was buffered, resent or refused on
\* the way: reconnecting, the PTY backlog and a second connection of the same client.
KeysInOrder ==
  \A i, j \in DOMAIN shell.got : i < j /\ shell.got[i][1] = shell.got[j][1] => shell.got[i][2] < shell.got[j][2]

\* However often a client reconnects, its command is started once at most: attaching again neither restarts the
\* session nor creates it anew.
CommandOnce == \A c \in Clients : ran[c] <= 1

Covered(q) == UNION {Shows(q[i]) : i \in DOMAIN q}
Announced(k) == k.warned \/ k.gap \/ \E q \in {k.tx, k.wire} : \E i \in DOMAIN q : q[i].k = "gap"

\* Output a client misses while it is attached is announced to it: each chunk read since it attached was shown, is on
\* its way, or a gap is; and nothing the shell printed before it ended is left unread.
NoSilentLoss ==
  /\ \A l \in Attached : ~links[l].cut =>
       \/ 1..polled.n \subseteq
            links[l].shown \cup Covered(links[l].wire) \cup Covered(links[l].tx) \cup Covered(links[l].outq)
       \/ Announced(links[l])
  /\ sess = "died" => polled.n = shell.made

\* Once the session has ended, whoever is attached has the SessionDied on its way and so will not wait for ever: unless
\* its full queue swallowed it, which the daemon logs.
EndTold ==
  sess = "died" =>
    \A l \in Attached : ~links[l].cut /\ ~links[l].lost =>
      \E q \in {links[l].tx, links[l].wire} : \E i \in DOMAIN q : q[i].k = "died"
=============================================================================

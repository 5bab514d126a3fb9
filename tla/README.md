# BridgeSessions in TLA+

BridgeSessions is one C++ program that is a mesh daemon, a session multiplexer and
the command line for both.  Daemons dial each other over mutual TLS (port 19949),
keep one link per peer, enroll new members, move files over the link or over a
connection of their own, and attach terminals to sessions that run in worker
processes.  A daemon is one event loop (`MeshController::run`, `bs-mesh-cli.h`)
plus a pool of worker threads for operations that take long.

This directory holds TLA+ modules of the parts whose correctness depends on
interleavings, failures and order, the TLC configurations that check them on
small instances, and proofs checked by TLAPS.  `PROJECT.json` relates every
definition to the lines it models and lists the hazards the properties are for.

## 1. Inventory

| component | source | state | operations | what makes it correct | here |
|---|---|---|---|---|---|
| file transfer, push | `bs-mesh-transfer.h` 14-381, 387-830 | sender: resume point, acked chunk, batch; daemon: `Conn::file_receive`, `.part`, sidecar, files | FileMeta, FileChunk, FileAck, retry, resume, publish | only verified files appear; OK means published; it ends | FileTransfer, VerifiedDelivery |
| file transfer, pull and over the link | `bs-mesh-transfer.h` 830-1240 | the same, on a worker thread; the loop's receive slot | FileRequest, the same frames | the same, and no client waits for ever | Operations |
| mesh link | `bs-mesh-conn.h` 691-1805, `bs-mesh-transfer.h` 3724-4253 | `conns_`, `pending_handshakes_`, `accept_only_until_`, `backoffs_`, `seed_cooldowns_` | dial, accept, handshake, promote, resolve duplicates, ping, pong, close, reconnect | one link per pair, none cut by mistake, owned links stay open | MeshLink |
| enrollment | `bs-mesh-transfer.h` 2330-2690 | `authorized_keys`, `pending_invites_`, join window, `enroll_seen_`, `pending_enrolls_` | INVITE, JoinRequest, ENROLL, DirectoryEnroll, replay, revoke, prune | trust has one hop, tokens single use, revoked keys stay out, peers learn | Enrollment |
| long operations, TLS ownership | `bs-mesh-support.h` 1061-1137, `bs-mesh-transfer.h` 1242-1365, 4256-4322 | pool queue, `exec_busy`, operation records | submit, run, watchdog, CANCEL, release | one user of an SSL object at a time; each operation ends once | Operations, MeshLink |
| sessions | `RunsOnce`, `CodeIsReal`, `WholeOutput`, `EndLearned`; `NoShellLost`, `NoDangling`, `ToldOfDeath`, `Readopted`, `EndNoticed` | Worker: three connections, three chunks, a snapshot of two (so a replay may lack the first), a client queue of two and a socket of two frames (so each part of the last words may be refused or cut), one crash of the daemon, one fault; Sessions: one session (sessions share nothing but the ids), three terminals, two of them with one key, two workers (one leaving while the next runs), three ids, one failed spawn or dropped socket; connections, crashes and restarts unlimited |
| session worker process | `bs-session-worker.h`, `bs-pty.h` | PTY, ring, client sockets and their queues, exit status, its path | spawn, ping, connect, replay, output, input, linger, exit | a command runs once; output is whole; the end is told with its code | Worker, Sessions (path, adoption) |
| session input and output | `bs-mesh-transfer.h` 2169-2328, 3342-3720, `bs-mesh-cli.h` 2900-3250 | `tx_queue`, output queue, pending input, client backlog | poll, enqueue, promote, drain, resend, reattach | keys in order, loss announced, ends told | Terminal |
| scrollback buffer | `bs-session.h` 40-170 | ring, `write_pos_` | write, read_since, snapshot | a reader gets exactly what follows its offset | Ring |
| peer gossip | `bs-mesh-conn.h` 900-1165, `bs-mesh-transfer.h` 4100-4200 | peer list, `gossip_generation_`, `last_gossip_generation` | Hello, merge, broadcast, LAN discovery, prune, forget | who was told everything knows everything | Gossip |
| configuration | `bs-config.h`, `bs-mesh-conn.h` 1165-1240, `main.cpp` | file, the daemon's copy and remembered time | load, edit, save, reload | a daemon comes to use what the file says | Config (parsing left out) |
| wire codec | `bs-codec.h`, `bs-tls.h` 859-1027 | byte buffers of both ends | encode, decode, frame, batch, drain | what is sent is what is dispatched, wherever the stream is cut | Codec |
| supervised runs | `bs-run.h`, `bs-mesh-cli.h` | run list in memory and on disk, pids | start, stop, tick, load, save | no process forgotten or doubled | Runs |
| folder sync | `tools/bs-sync`; `bs-sync-pair.h`, `main.cpp` | index, seen list; pairs, manifests | round of indexes, operations and bodies; init, approve, run | directories converge; only what was approved is sent | Sync; SyncPair |
| upgrade | `bs-upgrade-*.h`, `main.cpp` | `bin`, `bin.old`, unit, watchdog | download, mask, stop, swap, start, verify, roll back | a genuine binary is always there; the daemon comes back | Upgrade |
| TLS, identity | `bs-tls.h` | | | | only the framing, in Codec |
| CLI and local IPC | `main.cpp`, `bs-mesh-cli.h` | | | | the commands that change state are actions of the modules above |
| desktop helper, jail, terminal UI; BridgePanel | see PROJECT.json | | | | not modelled: platform calls, rendering |

How they interact: the event loop owns every connection and calls all handlers;
a worker thread may *borrow* the TLS object of one link (`exec_busy`) and then the
loop leaves that link alone; local commands reach the loop through a socket (IPC)
and become method calls; daemons only share messages; a daemon and its session
workers share a UNIX socket; what survives a restart is on disk
(`authorized_keys`, `.part` files and sidecars, session list, run list,
configuration).

What is hard: both ends decide about the same link from different orders of
events; a worker holds a link over many iterations of the loop; frames carry no
operation id; transfers resume from what a crash left on disk; acks are
pipelined; enrollments are flooded, replayed and revoked; queues of different
capacity lie between a shell and its terminals; timers race the answers they
wait for; processes die between two writes of one step.

## 2. Modules

### FileTransfer, VerifiedDelivery

`FileTransfer` is `bs file send` / `bs cp` to one daemon.  A sender process runs the
retry loop of `direct_connect_file_send` around `file_send_wait_on_transport`:
`pc` is where it is (connecting, waiting for the answer to FileMeta, writing a
batch, waiting at the end of a batch, waiting for the last ack), `try`, `start`,
`acked`, `ci` and `bend` are `attempt`, `start_chunk`, `last_acked`, `ci` and
`batch_end`.  The daemon side is `handle_file_meta`, `handle_file_chunk` and
`close_conn`, one action per outcome: `FreshReceive` truncates `<name>.part`,
`ResumeReceive` opens it for append, `StoreChunk` and `CompleteReceive` are the two
halves of an accepted chunk, `CompleteReceive` verifies and renames in one step
as the handler does, `AbandonReceive` removes the `.part` *by name*.

A file handle and a name are different things: `rino` is the file an open handle
writes, `part[name]` the file behind the name.  This is what two transfers to one
path, or a `.part` that was removed under a handle, come down to.  A member of
`Contents` is what a file may hold and stands for its SHA-256; `src[s]` is what the
source of s holds now.  Two senders, in any modes, may hold the same bytes, so a
transfer may resume the `.part` another sender, or another mode, left behind: an inbox
transfer that does so takes the requested name and looks for no other.  A file is a
sequence of `<<content, chunk>>` pairs, so a digest is the sequence.  A connection
is two sequences of frames; cutting it keeps a prefix of each.  `Crash` loses all
daemon memory and may tear the file being written.

`VerifiedDelivery` is the promise: a name only ever takes a whole file that a sender
declared (`Declare`: a sender may declare other bytes while it is not done), a
sender prints OK only after what it declared last was published for it, and every
sender ends.  `FileTransfer` maps its disk to `store`, its log of `<<name, content,
sender>>` to `delivered` and its sources to `wanted`, and TLC checks `DeliverySpec`,
liveness included.

### Operations

The operations two daemons run on the one link they share.  A client asks its
daemon to push a file (`FILE_SEND_WAIT`), to pull one and wait (`FILE_RECV_WAIT`) or
to ask for one that the loop then receives (`FILE_RECV`).  `work[n]` is the task that
borrowed n's end of the link and where it is in its conversation; `busy[n]` is
`exec_busy`; `inbox[n]` are frames the loop has decoded but not dispatched when the
link is lent, which the worker reads first; `recv[n]` and `reserved[n]` are the
loop's own receive slot and the directory kept for it.  A frame says what it is,
not for which operation: the field `f` is the file it is really about and only
checksum comparisons and properties look at it.  The watchdog shuts a socket under
a worker (`Watchdog`), `CANCEL` reaches a queued or a running task, the pool may be
full of other links' operations, and a worker clears `exec_busy` twice
(`bs-mesh-transfer.h` 1358, `bs-mesh-support.h` 1123).  The loop may lend the link
between the two (`WorkerReleasesAgain`).  A second clear that takes the link from its
new task is recorded in `shared`, and there the model stops (`oneUser`): from then on two
threads may use one SSL object, which is undefined.

### MeshLink

Two daemons that trust each other, from `Dial` (`try_connect_to_seeds`) over the
non-blocking handshake (`Accept`, `WriteHello`, `ServerHello`, `ClientHello`,
`HandshakeFails`, `HandshakeDeadline`), promotion with duplicate resolution, the
classification of a link by its first frame (`Read`), heartbeats
(`Broadcast`, `PongTimeout`), to closes that wait for a worker (`CleanDeadConns`)
and `bs reconnect`.  `end[l][n]` is what daemon n holds of link l; `conns` is the
order of `conns_` as a relation (which of two is the older), on which `resolve_duplicates` depends.  The larger public key
waits for the smaller one (`AcceptOnly`, `Defer`, `Probe`), with the budget of
extensions, the dial backoff (`hold`) and the dead-seed cooldown (`streak`, `cool`)
as in the code.  Timers are booleans that may expire at any time.

### Codec

The bytes under a link.  A message is a type and its fields; two tables, one from the
`serialize_msg` overloads and one from the cases of `decode`, say which kinds of
fields each of the message types writes and reads: numbers, strings and blobs with a
length prefix, lists, optional fields at the end, bytes to the end of the payload.
`Encode` and `Decode` build and read the bytes, over a small alphabet (`Base` values
per byte instead of 256).  A frame has a header with a short or a long length and a
compression flag; the sender writes frame by frame, TLS cuts each into records; the
receiver has the handshake's reader (`HandshakeRead`, which keeps what follows the
first frame in `rx_buffer`) and the loop's (`Tick`, with its budget and cap).  Every type is
sent with its fields empty or set, but for one field that takes each of its values.

### Enrollment

One host that invites, daemons that pin each other's keys (`Seeds`), joiners.
`Apply` and `Refuse` are the two results of `apply_directory_enroll`; `Enroll`,
`Receive`, `LinkUp` (replay of `pending_enrolls_`) and `JoinAccepted` use them.  The
join window has its three states (closed, open, past its hard cap), invites are
open, claimed by a key, or gone.  `authorized_keys` survives `Restart`; the rest
does not.  An enrollment is its id: issuer, key, and the second it was issued in
(two in one second have one id, as in the code).

### Sessions

One daemon, its client connections and the worker processes that own the shells.
`state`, `att` and `fd` are a session's `state`, `attachments` and `master_fd`; `at`
and `aid` are a connection's `attached_session` and `attach_id`, which can outlive
what they point to.  Workers are numbered per session name: `running` are those
with a living shell, `sock` is who is behind the session's socket path, `leaving` are
those that no longer listen and have yet to unlink the path.

A step is a handler.  An iteration of the loop ends with `Poll` and `Reap` and no
handler in between (`polled`), which is what decides who learns of a death.  An
attach first gives up what the connection was attached to (`Left`), then `Joins`
decides between joining a live session and starting a shell (`Spawn`: reattach the
worker that answers, else start one).  `Crash` forgets everything but the workers and
the saved list, `Boot` adopts the workers that answer.

### Worker

One worker process and its daemon, from `create_session_hosted` to the end.  The
worker's loop is one step: accept and greet (ring replay, exit status if the shell
is gone), read the PTY, queue to each client with its cap, flush, notice the death
of the shell, drain, linger for a one-shot nobody has seen.  A replay is a snapshot:
the last `Snapshot` chunks, for 8192 lines of a ring of 1 MiB.  The last output is
queued piece by piece, then `DIED`, and a piece that does not fit is skipped while a
later one may fit (`LastWords`); what the last flushes of 200 and 500 ms do not take is
lost (`Cut`).  The daemon waits for an answer, falls back to a shell of its own, polls
its connection, and may crash and come back over another connection.  `got` is what
the daemon has put out.  `fate` is what first became of a connection: `kept`,
`dropped` (it did not keep up), `short` (no room for all of the last words), `killed`
(its worker was told to stop), or `cut` (by the last flush).

### Terminal, Ring

`Terminal` is the way between a session and the clients attached to it: `links` are
their connections with the three queues of the way out (`wire`, `tx` = `tx_queue`,
`outq` = the bounded logical queue behind it), `input` the session's backlog of keys
the PTY did not take, `client` what a client believes: keys typed, keys it will send
again, whether its command was sent.  `Output` and `Control` are the two ways a frame is queued
(output may be dropped and a gap announced, `SessionDied` is dropped when the queue
is full), `Promoted` moves queued output on.  There is an interactive client, a one-shot
with a command, and one that starts the session.

`Ring` is the scrollback buffer with one reader that keeps its offset.

### Gossip

Daemons in a line of links, and guests (nodes that are only listed).  `told[n][m]`
is `last_gossip_generation` of the link equal to `gossip_generation_`; a change bumps
it (`Bumped`) except where the code forgets to.  Hello carries the whole list, and so
does each later message, sent to those who have not heard of the last change.  A
connection takes `QueueMax` of them; one that is refused (`Refused`: a full queue, a
worker that has just taken the connection, an encoding error) counts as sent, and the
history `refused` keeps where that happened.  Each end of a connection closes on its
own (`Cut`), while what it sent may still be read at the other.  Addresses of guests
change on the way; entries nobody confirms are pruned.

### Runs, Upgrade, Sync, SyncPair, Config, and MCHost

`Runs` is the daemon's list of supervised commands, its copy on disk, and the
processes behind the pids.  A handler (`Start`, `Stop`, `Tick`) forks or kills, and the
list is saved after (`Saves`): the daemon may die between the two, and a save may
fail without anybody noticing.  `fresh` and `lost` are histories of processes that no
save has recorded yet, and of those whose daemon died before one did.  A process that
exits is a zombie until it is reaped.  A tick looks at the clock twice, and `Jumps` lets
the clock pass the end of a backoff between the two.  `Upgrade` is the upgrade command step by step, its
detached watchdog, the service manager and the daemon that upgrades its fleet; a
binary is told apart by what it does (works, exits before binding, older,
tampered).  `Sync` is one round of `bs-sync` after the other between two directories
that users edit at any step.  `SyncPair` is `bs sync init / approve / run`, processes that
may be killed between two writes.  `Config` is the configuration file, commands that load, edit,
truncate and write it, and the daemon's look at its time of change.

They share nothing, so `MCHost` runs them, and the Codec, side by side: a behaviour is one of one
machine, the others stay idle.

### Proof and TLC modules

`FileTransferProofs`, `MeshLinkProofs`, `EnrollmentProofs`, `OperationsProofs` and `WorkerProofs` extend
their module with TLAPS; `LinkProofs` extends `MCLink` (Gossip and Terminal), `SessionsProofs` extends `MCSessions`
(its registry) and `HostProofs` extends `MCHost` (Ring, Runs, SyncPair, Upgrade, Codec), because the properties the
runs check are those of the composition: a lemma there carries an invariant of the part over the steps of the others.

`MCFileTransfer`, `MCEnrollment` and `MCOperations` only give constants values.  `MCLink`, `MCSessions`
(Worker and Sessions), `MCHost` and `MCMeshLink` (two instances of MeshLink: one pair of daemons that never
fails, and the pair `Frail`) put machines that share no state side by side: an initial state chooses
one, which moves alone, so that the states of a run are the sum of theirs and its properties, with the
fairness of each, are theirs.

## 3. Runs

| run | shows | bounds, and why they are enough |
|---|---|---|
| transfer_two | `PublishedVerified`, `OKMeansPublished`, `NoClobber` | two senders, one name, three chunks, window 2 (so a batch is cut short and a resume falls inside one), one reconnect each, two faults: a crash *and* an edit, or a drop *and* a disk error; two contents, so that the two senders may send the same bytes or different ones, each in any of the three modes |
| transfer_retries | `FaultFreeDelivery`, `DeliverySpec` | one sender, two reconnects, three faults, fair |
| transfer_overlap | violates `PublishedVerified` | the same two senders with both connections open, two chunks, no fault |
| links | `OwnedStaysOpen`, `NoSplit`; `Reconverges` | the pair that never fails: three links (two dialed by the smaller key, so two duplicates at once), two borrowed; the frail pair, for `Reconverges`: one link each way (links are reused, so dials are unlimited), one failure, cooldown after one deadline; the per-source limit of pending handshakes is never reached |
| enrollment | the properties of Enrollment | two daemons, two joiners, one token, a queue of one, an enrollment fresh for its own second only, one fault |
| sessions | `NoShellLost`, `NoDangling`, `ToldOfDeath`, `Readopted`, `EndNoticed` | one session (sessions share nothing but the ids), three connections, two of them with one key, two workers (one leaving while the next runs), three ids, one failed spawn or dropped socket; connections, crashes and restarts unlimited |
| operations | `ExclusiveButSecondClear`, `SuccessIsPublishedAlone`, `ClientReleased`, `LinkReturned` | a push of two chunks at one end, a pull and a request at the other, two workers, a full pool, any cancel, any watchdog; each behaviour up to the first second clear that takes a link from its task |
| operations_release | violates `Exclusive` | the same |
| link_traffic | `ToldKnows`; `KeysInOrder`, `CommandOnce`, `NoSilentLoss`, `EndTold` | gossip: three daemons in a line, one guest known at both ends, one cut, queues of one list, one connection at a time on which a list was refused; terminal: three clients, two keys, three chunks, every queue of one frame, two lives of the shell, one break |
| host | `ReadExact`; `Startable`, `Returns`; `NoneForgotten`; `Converges`, `LastWordWins`; `GateHolds`; `Follows`; `Faithful` | ring of four bytes wrapped five times; one upgrade, one death, six kinds of binaries; two services, three pids with strangers, one death of the daemon at any point, saves that may fail, clocks that jump, giving up after one failure; one path, three edits, equal times, one cut; two pairs, one secret, one failed send; two commands, three changes; every message type with one field at a time around the limits of prefixes, frames and compression, between a Hello, a long frame and a ping, to peers with and without `+frm2` |
| services_restarted | violates `Restarted` | Runs alone, fair: one service, two pids, two failures before giving up, one death of the daemon; saves succeed and clocks do not jump |
| server_info | violates `Understood` | the Codec of host, alone |

Every module but Codec and VerifiedDelivery has a type invariant `TypeOK`; it is not in the runs' lists but was
checked with each instance, and is proved for FileTransfer.

Deadlock is not checked: a transfer that ended, a mesh without operators, a closed
join window and a daemon that was stopped may all stay as they are.

Some switches are off in the passing runs, and what they hide is described in
section 5: `Overlap` (two transfers to one path at once), `SlowUnlink` (a worker held
up before it unlinks its path), `Leftovers` with an old binary, and `Patient = FALSE`:
starting a worker and first connecting to it take longer than the daemon's 12 s or
the worker's 4 s.  `Patient` is a guard of `SpawnFails` and `Lapse` and of nothing else;
how fast output is read, and what the last flush leaves behind, is free.

Symmetry is used in `transfer_two` only, where senders are interchangeable, and so
are contents, and no liveness is checked.  `MeshLink` compares public keys, so its nodes are numbers.

### Fairness

Sender processes are ordinary processes and the event loop serves every
connection in each iteration, so each sender and each connection is weakly fair.
In `MeshLink` every handler that an iteration visits is weakly fair, timers run
out, and workers end because each has an overall deadline and a watchdog.  In
`Operations` worker threads are scheduled, the loop comes round and the watchdog's
90 s pass.  In `Enrollment` frames are read, peers redial, and the loop's tick closes
the window and prunes.  In `Sessions` the loop of a running daemon goes round
(`Poll`, `Reap`), in `Worker` both loops do.  In `Upgrade` a process that lives goes on
and the watchdog's clock runs; in `Sync` the timer starts rounds and somebody starts
the connector again after a cut; in `Config` the daemon's loop runs.  In `Runs` (services_restarted) the
loop ticks, clocks run, and the service manager starts the daemon again.  Nothing is
assumed of operators, joiners, clients, shells, services, users or the network.

## 4. What is proved

For every value of the constants, under the named assumptions of each module (bounds are naturals, sets are
disjoint from the markers used beside them; TLC evaluates each in a run).  A theorem with a switch in the column "if"
says nothing of the behaviours behind it: section 5 tells what happens there.

| theorem | states | if | argument |
|---|---|---|---|
| FileTransferProofs!TypeCorrect | `TypeOK` | | one step per action: a resume point, an ack and the end of a batch never leave the file |
| FileTransferProofs!OKCorrect | `OKMeansPublished` | | the invariant follows the promise backwards: an ack that asks for the chunk after the last is in flight to a sender, or counted, only if a transfer of its own was published with the content it hashed for this attempt; the log only grows |
| FileTransferProofs!PublishedCorrect | `PublishedVerified` | `~Overlap` | `DiskInv`: with one connection open, the handle a receive writes is the file behind its `.part` name and the sidecar there names the content declared; what a fresh receive has hashed is what it has written; a connection whose FileMeta is still on the way has no file |
| FileTransferProofs!NoClobberCorrect | `NoClobber` | `~Overlap` | an action property, from `DiskInv` and two more parts: a `.part` lies beside a published file only if somebody was asked to overwrite (`Parts`), and so a receive that is going on has its name to itself or may replace what is there (`Receiving`) |
| FileTransferProofs!DeliveryCorrect | `Delivery!SafeSpec` | `~Overlap` | refinement: initial states map to initial ones; hashing the source again is `Declare`, publishing is `Publish`, the last ack is `Succeed`, giving up is `GiveUp`, all else a stutter |
| MeshLinkProofs!OwnershipCorrect | `OwnedStaysOpen` | | an end that a worker owns is `busy`, and each handler that closes looks at `busy` first: closing is deferred to `CleanDeadConns` |
| MeshLinkProofs!SplitCorrect | `NoSplit` | | an action property: `Calm`, while nothing has failed. A link the smaller key dialed stays open at the end that dialed it as long as at the other; a daemon has one dial at a time, so of two links the peer dialed it has closed the older; what waits to be closed, or loses a duel, is closed there already or yields to a link the smaller key dialed (`Excused`) |
| EnrollmentProofs!TrustCorrect | `TrustRooted` | | every enrollment on a wire or in a replay queue is one that its issuer's operator gave; a daemon applies only those of its seeds and its own |
| EnrollmentProofs!InvitesCorrect | `OneKeyPerInvite` | | a token that was claimed is never open again: no step opens a token but `Invite`, which needs one never minted |
| EnrollmentProofs!RevocationCorrect | `RevokedStaysOut` | | an action property, by the three ways into `authorized_keys`: what `Apply` accepts is added to the ids used since the start, and was not there |
| SessionsProofs!ShellsCorrect | `NoShellLost` | `~SlowUnlink` | a worker with a living shell has no heir (`NoHeir`) and its path stays its own (`Retains`) |
| SessionsProofs!AttachedCorrect | `NeverDetachedWhileAttached` | | by the handlers that change `state` or attachments |
| SessionsProofs!PointersCorrect | `NoDangling` | | `WiredInv`: pointers, attach ids and attachments agree, so that each path that erases a session finds the connections at it |
| SessionsProofs!ToldCorrect | `ToldOfDeath` | | from `WiredInv`: the poller goes by pointers, the registry by ids |
| SessionsProofs!ReadoptedCorrect | `Readopted` | `~SlowUnlink` | from `NoShellLost`: a boot asks whoever is behind each path |
| OperationsProofs!ExclusiveCorrect | `ExclusiveButSecondClear` | | `OwnInv`: a link is busy exactly while a task has it (`Owned`), until `shared` |
| OperationsProofs!SuccessCorrect | `SuccessIsPublishedAlone` | | up to a second clear that hits a link lent again, where the model stops; `PromiseInv`: frames carry no id, so `TalkInv` follows the conversation of a link that one daemon's clients have to themselves: for each phase of the worker at home, what is on the way in each direction (acks left behind, one FileMeta or request, the chunks not yet handled), the peer's receive slot and its worker. `Sources` says whence frames and tasks come |
| WorkerProofs!OnceCorrect | `RunsOnce` | `Patient` | `WorkInv`: the daemon falls back to a shell of its own only where no worker was started; one that was waits (`Waits`) until it was seen (`Met`) |
| WorkerProofs!CodeCorrect | `CodeIsReal` | | a connection that its worker has closed, or whose worker is about to leave, says the end behind all its output or has a fate other than `kept` (`Learns`) |
| WorkerProofs!OutputCorrect | `WholeOutput` | | `PipeInv`: what the connection has still to bring (`Brought`: wire, then queue) goes on where the daemon stopped reading (or begins with the first chunk, or the first of a snapshot) and ends with what the worker has read, or with all there is behind `DIED`, which is the last frame; a connection that is `short` is let go. `Carries` counts a queue's frames; that the parts of a queue carry what the whole carries, and that a read (`FlattenSeq`) gives these chunks, goes by induction on its length (`Inductive`, from the library's well-foundedness of finite sets) |
| LinkProofs!ToldCorrect | `ToldKnows` | | but for a connection that refused the last list, and for what was heard on the LAN. `GossipInv`: what was told is in flight, known or pruned; a change bumps the generation and so untells every neighbour |
| LinkProofs!KeysCorrect | `KeysInOrder` | | `TermInv`, part `Ordered`: shell, backlog, wire and the keys a client will send again are one rising sequence; a reattach resends what no living part of it holds |
| LinkProofs!CommandCorrect | `CommandOnce` | | part `Once`: a command is with its client, in one frame on the way, or started: never in two of these |
| LinkProofs!LossCorrect | `NoSilentLoss` | | part `Tells`: what a client has not seen of the output read is on its way, or a gap that covers it is queued behind it or was read |
| LinkProofs!EndCorrect | `EndTold` | | part `Tells`, with `Wired`: `SessionDied` is queued when the session is declared dead, and only the order of the queues moves it |
| HostProofs!RingCorrect, ReadersCorrect, SnapshotCorrect | `Held`, `ReadExact`, `SnapshotExact` | | the ring holds the last bytes written, each at its offset modulo the capacity; two offsets less than a capacity apart have different slots. The arithmetic of `%` is in lemmas of its own |
| HostProofs!ForgottenCorrect | `NoneForgotten` | `NoneIsNobody` | pid 0 is nobody's. `RunInv`: every process of a service is named by the daemon's list unless it is `lost`, and by the disk unless it is `lost` or `fresh`, whatever is saved or not |
| HostProofs!GateCorrect | `GateHolds` | | `GateInv`: under an approval lies a manifest that was approved or none, before an approval nothing is sent, and what the running command found is still so when it writes (`Held`) |
| HostProofs!StartableCorrect | `Startable` | `Alone` | with one upgrade command and no `bin.old` left by an earlier one: of two names at most one is vacant, and `bin.old` goes only after `bin` was verified. Two commands at once break exactly this |
| HostProofs!FaithfulCorrect | `Faithful` | | `ByteInv`: what is read and what is on its way are, byte for byte, the frames behind the messages dispatched (`Linked`), or the link is closed and `CutShort` (`Short`). Under it lie lemmas that a number is read as it was written, a field as what was put (`GetPut`), a payload as its fields (`ParsePut`), with its list as its message (`MessageExact`), a frame as its message (`DrainWhole`), and a buffer as the frames it holds (`DrainedExact`). Where the code loops over bytes, fields, elements or frames, the lemma goes by induction: a set of numbers with 0 and each next one is all of `Nat` (`Inductive`). The messages are those of `Init`, with fields at the limits that `Cap16`, `Base` and `Threshold` set; the other constants are as `CodecAssumption` says |

None of these properties is inductive: an OK says nothing of the acks on the wire,
a name that is vacant says nothing of the one the next rename will vacate, keys that
reached a shell say nothing of those a client will resend.  Each `...Inv` is the property with what
it needs about messages, copies on disk and the handler that is half done; where it was not obvious, TLC
checked it on the run's instance before it was proved.

Only model-checked: liveness, which is out of TLAPS's reach, in every module that has any, `LatePeersLearn` and
`RevokedDisconnected` of Enrollment among it, and all that is claimed of Sync and Config, which is of that
kind.

## 5. Findings

`transfer_overlap`: two transfers to one path with both connections open share the
name of the `.part`; the second truncates it under the first, and what is published
is a mixture, although `docs/design.md` promises verified files.

`operations_release`: a worker clears `exec_busy` (T:1358), the loop lends the link to the next
task, and the worker clears it again (`bs-mesh-support.h:1123`): the new worker and the loop, or
one more worker, use one SSL object, although `docs/design.md:28` says "No two threads touch
the same SSL*".  `ExclusiveButSecondClear` shows that this is the only way.

`services_restarted`: a service that fails under the daemon that started it is a zombie, which
`run_pid_alive` counts as alive, so the tick passes over it (L:1625) before it comes to `waitpid`
and it is not started again, although `docs/cli.md:323` says it is and the comment at `bs-run.h:155` says
"supervision reaps explicitly".  (Nor is a service that an earlier daemon started and that is found dead.
The first pass of a tick that finds a backoff over, L:1624, takes the service without a pid
for one that failed once more and sets the next backoff; the second pass finds it not due, and after
ten rounds the supervisor gives up.  Only a clock that passes the end of the new backoff between
the two looks, `Jumps`, starts it.  The backoff has a cap of 300 s, `bs-run.h:36`, not of 60.)

`server_info`: the comment at `bs-codec.h:1764-1766` says "Try old newline-delimited format first (backward
compat). If the hostname or version contains a literal newline, the old parse will fail and we fall through to
the length-prefixed path."  A length prefix or a byte of the statistics may be 0x0A as well: with two of these in
the payload, the message is read in the old form, does not fail, and what is dispatched was never sent.

Behaviour met while modelling that a comment, a document or common sense would have
otherwise.  No run shows it; the model has it, excuses it in a property, or leaves it
out behind a switch, as said.

Transfers.  A sender resumes at a point it chose itself after a write failure (T:722,
against the comment at T:502 and `docs/design.md:90`).  A pull takes the first
FileMeta it reads, also that of a push the peer starts at that moment (`docs/protocol.md:115`,
`README.md:259`; `SuccessIsPublishedAlone` excuses it).  Two `bs cp` without `--overwrite`, both
connections open, find one destination vacant, and the second changes the file the first published: the
look at the destination (T:154) and the rename are a whole transfer apart, although the comment at T:95 says
"direct=2 (--overwrite) is the only overwrite path".  Without an overlap `NoClobber` holds, which is
weaker in one respect: if somebody was asked to overwrite, an inbox transfer of the same bytes may, too.  A
`bs file send` to the path publishes, its last ack is lost, the retry leaves a `.part` when the
daemon dies, and an inbox transfer resumes that and is renamed over the file, without a suffix (T:167-210, T:339).

Enrollment.  No enrollment that was received is passed on or kept for those who connect later, although
the comments at T:1985-2015 say it is: `apply_directory_enroll` has put its id into `enroll_seen_` (T:2595), or
found it there (T:2517), before `dispatch_message` asks whether it is new there (T:2003), so the answer is always no
(`relay` in `Receive` is never true).  Daemons that are not linked to the issuer's own do not learn of the
key; `LatePeersLearn` speaks of those that are.

Links.  A Hello does not erase the dial backoff its comment says it does (T:3941).

Sessions.  A connection whose attach id is unknown takes every attachment of its key
with it (T:2182, R:258), a second terminal of one machine looks like a reconnect (C:65,
T:2176).  A worker that is slow to unlink its path removes its successor's (W:866;
`SlowUnlink`).  A kill announces nothing to the other clients (`docs/protocol.md:125`).

Workers.  Output may be duplicated or lost between the ring and the live stream around
a reattach (T:3388-3408).  A worker that is killed may stay (W:660-679, against the comment at
W:694).  When the 12 s budget of the daemon ends while the worker starts, the command runs
twice (P:620-690, against W:561; `Patient`, which `RunsOnce` alone needs).  The final drain ignores
that a queue is full: it may skip a piece and queue a later one (W:794), and it may not queue `DIED`
(W:803).  `WholeOutput` and `CodeIsReal` excuse such a connection (`short`).  What the last flushes do not get
rid of in 200 ms (W:808) and 500 ms (W:851) is lost, the exit code with it (`cut`); what came until
then is without a hole.  A replay begins where a snapshot does (W:632), so a
daemon that comes back may lack the beginning.
After an INPUT over the cap later frames are applied (W:707).  SHUTDOWN is written behind
part of another frame (R:798).

Terminals.  The replay of a reattach is incomplete (R:857, against `docs/man/bs-protocol.7.scd:172`).
Queued output may be overtaken by newer output (T:3704).  A peer that half-closed is
closed before what it sent was read (T:3729).  Clients ignore OutputGap (L:3182-3231).  Keys
may reach a shell that another client respawned, with a backlog from the old one (R:96).  `-n name`
with a command joins a living session and ignores the command (R:243-265).  Direct sessions lose
their last output (T:3408, T:3575).

Gossip.  LAN discovery (L:2202) and a reload of the seeds (C:1163) change peers without moving
the generation (against the comment at C:444); `ToldKnows` holds of the other changes.  A discovered
address is overwritten by the port a link came from (C:936-944, against C:1015).  Peers that live are
pruned after 900 s because later gossip never refreshes `last_seen` (`docs/configuration.md:38`),
dead ones are kept by every reconnect's Hello.  Two nodes may swap addresses for ever.  A name
collision does not stop a rename (C:1033).
`last_gossip_generation` moves on although `enqueue_frame` refused the list (T:4165-4166), and
the peer is not told before the next change or the next connection, although the comment of
`build_gossip` (C:1973) says that the caller "already has current state".  `ToldKnows` excuses such a connection.

Supervised runs.  A daemon that dies between the spawn (L:1701, L:1681) and the save (L:1709, L:1683), or
after saves that failed unnoticed, forgets the process: `NoneForgotten` excuses these (`lost`) and no
others.  A pid that was given to somebody else is signalled by `--stop`; a restart runs the redacted
command; a name that was stopped can never start again.

Upgrade.  A process that dies after it masked the unit strands the host (`main.cpp:3499`, against
`bs-upgrade-safety.h:11`); a watchdog that sees the old daemon before the stop is content
(`main.cpp:3507`); both are `Stranded` in `Returns`.  Two upgrades at once may leave no binary; a stale
`bin.old` is a downgrade (`Leftovers`).  The command removes `bin.old` 3 s after the start.

Folder sync.  An edit made during a round may be lost even if it is the newest (`bs-sync.cpp:7`,
`docs/bs-sync-design.md:87`).  `init --approve` removes the manifest, so `run` has nothing to send
though the program prints "APPROVED - run ... to transfer" (X:4231); the manifest goes after a run though X:4337 says it
stays; failed operations are dropped; the bytes sent may not be those approved.

Configuration.  A change between the load and the first look at its time is never loaded
(`Follows` excuses `early`).  A save drops `receive_dir`, `receive_retention_hours` and
`mesh.startup_wait_secs` (`docs/configuration.md:20,45`), and truncates before it writes: a reader may see
half, a kill leaves nothing.  Two commands lose each other's change.

Codec.  A header with a four-byte length that the 1 MiB budget of a tick cuts after 6 or 7 bytes
throws and closes a healthy link (`bs-tls.h:888` is not reached; against T:3734); so does a
buffer that goes on behind a frame of nearly 4 MiB (T:3753).  Both are `CutShort` in `Faithful`.
A decoding error loses the complete messages before it.  A query's answer is not capped (T:3159) but
more than 512 entries do not decode (K:1975).  `docs/man/bs-protocol.7.scd:82` still has the newline form.

Scrollback.  An offset of an earlier ring (a respawn, a restart) gets nothing until new output
passes it.

(T is `bs-mesh-transfer.h`, C `bs-mesh-conn.h`, K `bs-codec.h`, L `bs-mesh-cli.h`, R
`bs-session-registry.h`, W `bs-session-worker.h`, P `bs-pty.h`, X `main.cpp`.)

## 6. Not modelled, and simplified

TLS, certificates, signatures and hashes are sound; a hash is what it hashes.  The file system
writes whole chunks; `-1`, `-2` ... suffixes end at `MaxSuffix`.  A frame is on the wire whole: that a worker
takes a link with a frame half written in `tx_queue` is not modelled (one half read is).  In MeshLink a third daemon, in
FileTransfer reading from the network in pieces, in Enrollment the steps inside one JoinRequest are
left out; `terminate_worker` is one step and a spawn that fails leaves no worker.  The limit of
pending handshakes per source is never reached in a run, and that a borrowed link is
given back is assumed in MeshLink and checked in Operations.

Enrollment leaves out the `+enroll` capability gates of sender (T:2611) and receiver (T:1990): it has more
behaviours than the code, since enrollments also go to peers without it; every peer of this release has it.
Sessions and Terminal leave out that `SessionDied` is not queued for a connection whose link a worker owns
(T:3355).

Sessions leaves out geometry, spectators, peer ids, owners and the forkpty fallback.  Codec: bytes of base 8,
compression is a bijection that does not shrink, a DHT id has three bytes, the 50 MB cap on images and stream
ids are left out.  Config: parsing of the keys other than seeds and names, paths, logging.

Not modelled: the desktop helper, the jail, the terminal UI, image encoding and clipboard escapes
(platform calls and rendering), BridgePanel and the menu bar (a view over the CLI), argument parsing and
printing, and a data race inside one container operation (`auto_upgrade_attempts_`, T:1352).

## 7. Plan

Proofs: every safety property of a passing run has its theorem.  Models next: geometry and spectators of Sessions, a third daemon in MeshLink, the pair with three links with a failure.

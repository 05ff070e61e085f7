# Capybara in TLA+

Capybara moves live TCP connections between servers. It is the TCP stack of
Demikernel (`src/src/rust/`), extended by a migration protocol
(`inetstack/protocols/tcpmig/`) and by a switch that steers the packets of a
client to the server that has its connection. This directory holds TLA+ models
of that stack, the TLC runs that check them on small instances, and proofs that
TLAPS checks for every instance.

Paths below are relative to `src/src/rust/inetstack/protocols/` unless they start with
`src/`. `PROJECT.json` maps every definition to the lines it models.

    tlc -workers 2 -config TcpMigReliable.cfg MCTcpMig
    tlapm TcpMigProofs.tla

## 1. The system

### Components, their state and their operations

| component | state | operations |
|---|---|---|
| migration peer (`tcpmig/peer.rs`, `tcpmig/active.rs`) | `active_migrations`: stage, descriptor and packet buffer per connection | initiate, PREPARE, PREPARE_ACK, CONN_STATE, CONN_STATE_ACK, buffer a packet, close |
| fragmentation (`tcpmig/segment/`) | `TcpMigDefragmenter`: fragments, counts, size | cut a state into packets, put it together |
| TCP peer (`tcp/peer.rs`) | `sockets`, `qds`, `established`, `passive`, `connecting` | bind, listen, accept, connect, recv, push, close, receive, migrate out and in |
| passive open (`tcp/passive_open.rs`) | `inflight`, `ready`, backlog | SYN, final ACK, retransmission of SYN+ACK, hand a migrated connection to accept |
| active open (`tcp/active_open.rs`) | the result of a handshake | SYN, SYN+ACK, retries |
| receive path (`tcp/established/ctrlblk.rs`, `background/acknowledger.rs`) | RCV.NXT, receive queue, out-of-order store, connection state, acknowledgement timer | receive, poll_recv, close, acknowledge, serialize |
| send path (`tcp/established/sender.rs`, `background/sender.rs`, `background/retransmitter.rs`) | SND.UNA, SND.NXT, window, unsent and unacknowledged queues, retransmission timer | send, background send, window probe, retransmit, process an ACK, serialize |
| load policy (`tcp/stats.rs`) | receive-queue lengths and request rates, by bucket | choose the connections to migrate |
| sequence numbers (`tcp/sequence_number.rs`) | none | wrapping arithmetic, signed comparison |
| ARP (`arp/`) | cache with expiry, wait queues | query, answer, expire, give up |
| UDP, ICMP, ephemeral ports | queues, request table, free list | bind, push, pop, close; ping, echo; take a port |
| frames (`ipv4`, `ethernet2`, `*/segment.rs`) | none | build, parse, checksum |
| libOS (`src/src/rust/inetstack/mod.rs`, `src/src/rust/demikernel/`) | file table, tokens | accept, pop, push, close, wait; the poll loop |
| scheduler, timer, watched values (`src/src/rust/scheduler/`, `src/src/rust/runtime/`) | task pages, timer heap, waiters | poll, wake |
| collections (`src/src/rust/collections/`) | ring, pairing heap, intrusive list | push, pop, remove |
| catnip, catnap | mbufs and their references; kernel sockets | allocate, clone, split, free; the system calls |
| switch (`src/p4/`, and the `capybara-switch` feature) | owner of a connection | steer, redirect on PREPARE_ACK, choose a target |
| other back ends, platform, logging, examples, scripts | | |

### How they interact

A host runs one thread. Its poll loop takes a batch of received packets, hands
each to its protocol peer, which handles it to completion, and then polls the
coroutines that were woken. So a step is one packet, one poll of one coroutine,
or one call of the application, and it is atomic. What interleaves is

* the coroutines of one host, at their `await`s;
* hosts, which share nothing but the network and the switch;
* clients, which retransmit what is not acknowledged;
* migrations: two may overlap on one connection, and meet on one host;
* the two ends of a ring buffer, the only data that two threads share.

The hand-over of a connection, from its origin O to a target T:

    O  PREPARE_MIG        ->  switch  ->  T   T starts to buffer the client's packets
    T  PREPARE_MIG_ACK    ->  switch  ->  O   the switch redirects the client to T
    O  CONN_STATE (1..n)  ->  T               O drops its control block; T replays its
                                              buffer into the new one, on accept
    T  CONN_STATE_ACK     ->  O               O forgets the migration

None of these messages is ever sent again.

### Which behaviour is hard, and what makes each component correct

* *Migration.* A connection has one owner, whatever overlaps or gets lost; no
  data that was received (and so may be acknowledged) is forgotten; the reader on the
  target goes on where the reader on the origin stopped; the client's packets
  that arrive between the redirection and the state are not dropped; sockets,
  descriptors and control blocks agree on each host; a host never reaches one of
  the protocol's many panics; the application of the origin learns that its
  connection is gone.
* *Fragmentation.* What is deserialized is what was serialized; the copy through
  raw pointers stays within its buffer.
* *Opening.* Two sockets share no port; a connection is handed out once; an end that is
  established agrees with the other on both initial numbers; retries end.
* *Receive path.* The reader gets the stream; acknowledged data is held; the
  window never wraps; FINs and acknowledgements that cross lead to the right
  state; the acknowledgement timer stops.
* *Send path.* The two queues are the stream without what is acknowledged;
  nothing exceeds the window; every segment bears the number of its bytes; what
  is not acknowledged will be sent again; FIN comes last.
* *ARP and datagrams.* Whoever waits for an address is found by the answer; every query ends;
  a datagram is read by the socket it was for; queued datagrams keep their order.
* *Scheduler, timers, watched values.* No wake-up is lost; a slot is never confused
  with its next user; a timer fires for the deadline it is for.
* *Load policy.* The load is what the queues hold; the selection relieves the host and
  does no more.
* *Frames, memory, tokens.* What is built is parsed again; what is damaged is noticed;
  buffers live as long as somebody holds them; tokens and descriptors name what they are for.

## 2. Modules

| module | models | checked by |
|---|---|---|
| `TcpMig` | hosts, switch and clients: the hand-over, with sockets, descriptors, accept, pop, close and passive open | `MCTcpMig`, 4 runs; proved in `TcpMigProofs`, its inductive invariants in `TcpMigInvariants` |
| `Handoff` | what a migration promises: the abstract specification `TcpMig` implements | `tcpmig_reliable`; proved in `TcpMigProofs` |
| `TcpOpen` | active and passive open, sockets, ports, the losing and duplicating network between them | `tcp_open`; proved in `TcpOpenProofs` |
| `SeqNumber`, `Connection` | sequence-number arithmetic, modulus as a parameter; what both halves of a connection share | with the next two |
| `TcpReceiver` | receive path of one connection, before and after a migration | `MCTransport`; proved in `TcpReceiverProofs` |
| `TcpSender` | send path of one connection, before and after a migration | `MCTransport`; proved in `TcpSenderProofs` |
| `Fragmentation` | fragmenter, network and defragmenter | `MCTransport` |
| `LoadPolicy` | the records of `tcp/stats.rs` and the selection of connections | `MCLoadPolicy`; proved in `LoadPolicyProofs` |
| `Arp`, `Datagrams` | ARP cache and queries; UDP and ICMP on top of them | `MCDatagrams`; proved in `DatagramProofs` |
| `Runtime`, `Scheduler`, `PairingHeap` | the event loop: tasks, wakers, timers, watched values | `MCRuntime`; proved in `RuntimeProofs` |
| `RingBuffer`, `BoundedQueue` | the ring of one producer and one consumer, and the queue it implements | `MCRuntime`; proved in `RuntimeProofs` |
| `LinkedList`, `WatchedValue`, `WaitQueue` | the intrusive list, the waiters of a watched value in it, and the queue they implement | `MCRuntime` |
| `Wire`, `StateCodec` | headers, checksums and parsers; the serialized control block | `MCFoundations` |
| `DpdkMemory` | mbufs, references, zero-copy push, transmit and receive queues | `MCFoundations` |
| `Switch` | the software switch in the TCP peer | `MCFoundations` |
| `LibOS`, `PosixKernel` | queue operations, tokens and waits, on catnap (over a kernel) and on catnip | `libos`; proved in `LibOSProofs` |

`MCTcpMig`, `MCTransport`, `MCRuntime`, `MCLoadPolicy`, `MCDatagrams` and `MCFoundations`
instantiate them for TLC. Where one of these holds several modules that share no state, an
initial choice (`part`) says which of them runs.

`TcpReceiver` and `TcpSender` are each one half of a control block; what the
control block carries across a migration is modelled in each for its half, by its
fields in `StateCodec`, and in `TcpMig` as the three things that the hand-over is about
(what was received, how far the application has read, whether the statistics count it).

Operators marked "mutant" in a comment are wrong variants of the definition that
follows them, one for each property; with the variant in place of the
definition the property fails, which shows what it depends on.

### `TcpMig`

State: `active`, `established`, `sockets`, `qds`, `inflight` and `ready` are the
tables of the same names in `tcp/peer.rs`, `tcp/passive_open.rs` and
`tcpmig/peer.rs`, one per host and indexed by the remote address. `inq` is the
receive queue of the network card. `owner` is the table of the switch;
`freeQds`, `acceptQd` and `pop` are the part of the libOS that a migration
disturbs.

| action | code |
|---|---|
| `RxEstablished`, `RxBuffered`, `RxPassive` | the three ways of `Inner::receive`: served here, buffered by a migration, passive socket |
| `InitiateMigration` | `initiate_migration_by_addr`, `initiate_migration_by_qd` |
| `RxPrepare`, `RxReturned` | PREPARE at a target; PREPARE returned to its origin by the switch |
| `RxPrepareAck`, `MigrateOut` | `receive_tcpmig`, `migrate_out_connection`, the state is sent |
| `RxConnState` | the state arrives, `migrate_in_connection`, replay buffer |
| `RxConnStateAck` | `MigrationCompleted` |
| `RxUnexpected` | a message that does not fit the stage: EBADMSG |
| `Accept`, `PollAccept` | `accept` reserves a descriptor; `poll_accept` installs the connection and replays |
| `Pop`, `PollRecv`, `PollMigratedOut` | a pop and its results |
| `Close` | `do_close` and the release of the descriptor |
| `Abort` | every panic of the code above, each with its condition (`Reasons`) |
| `Client...`, `Lose`, `Duplicate` | client, switch, network (external) |

Abstracted: the bytes of a segment (it is its number in the stream), the
acknowledgements that a host sends, fragments (a state is one message, see
`Fragmentation`), the load policy (any connection whose statistics are enabled
may be picked), the listening address (one per host).

### `TcpOpen`

The client's `socket`, `bind`, `connect` and `close` with the file table, the socket table and the
port pool step by step as in `tcp/peer.rs`, each error path leaving what was done
before it; its SYN coroutine (`SendSyn`, with the retries and the time-out that is stored
over a result); the server's `RecvSyn`, `SendSynAck`, `RecvAck`, its `ready` queue with its
single waker and several accepts, each called once; `receive` with every reply of a RST; and a network
that loses, delays and duplicates. The server's address is one, a client's port names the connection.
`CorePorts` is the port 9999 + `CORE_ID`: the pool has it from the start (`ephemeral.rs:37`) and it is not
private, so that an explicit bind leaves it there (`Taken`) and `connect` or another bind may be given it.

### `TcpReceiver`

`Receive` is all of `ControlBlock::receive` for a segment: `ReceiveUnacceptable`,
`ReceiveReset`, `ReceiveOutOfOrder`, `ReceiveInOrder`, with the trimming, the
store (`Place` is the loop of `store_out_of_order_segment`), the merge, the FIN
and the acknowledgement in the order of the code. `PollRecv`, `Close`, `AckTimer`
and `Migrate` are the rest. The peer and the network are modelled together: at
any moment any segment that the peer may have sent within the window can arrive.
A byte is named by its position in the stream; the code sees sequence numbers
only, and in the runs these start just below the modulus so that they wrap.

### `TcpSender`

`Write` and `CloseSend` are `Sender::send` with its two ways (`AtOnce`, or queued).
The coroutine `sender()` is cut at its `await`s: `StartProbe`/`ResumeProbe` and
`StartSend`/`ResumeSend` stand on the two sides of the ARP query, with what was
read before it and is used after it kept in `task`; `RepeatProbe` is its PERSIST
loop; `TakeFails` its panics; `QueryFails` its end. `Retransmit` is the timer,
`RxAck` the acknowledgement processing of `receive`, `MigrateSender` what `SenderState`
carries and `from_state` resets. `UpdateWindow` takes the window of an acknowledgement only if it is
`Admitted` by SND.WL1 and SND.WL2, as `update_send_window` does; `PeerNumbers` gives the sequence numbers that
the peer's segments bear, and `heeded` records (for the properties; no step depends on it) that no window has been passed over. The peer takes data in order, a segment whole or
its first byte only, into a buffer of `Capacity` bytes, and may lag behind in
reading it. `MCTransport` extends both halves, which is why names that `TcpReceiver`
has too bear a prefix here (`sendArp`, `SendNext`, ...).

### `Fragmentation`

`Send` is the fragmenter's iterator together with the size check; `Single`,
`Store` and `Complete` are the ways of `defragment`. A state is a sequence of
bytes named by their positions, so that a byte out of place shows. `Offsets`
stands for the 2^16 values of the fragment counter.

### `Arp`, `Datagrams`

In `Arp`, `Start` is `query` up to its wait, `Answered`, `Dropped`, `Retry` and `GiveUp`
are what a poll may find, `Receive` is a message (request or reply, for us or
not), `Expire` the clock. An answer and a timeout may both be there: either is
taken, as `with_timeout` permits. `Datagrams` puts the three kinds of coroutine that
query on top of it (the background sender of UDP, the replies of ICMP, pings and a TCP
coroutine) and UDP's tables of sockets and of bound endpoints, its send queue, its
receive queues and pops. `Bind` is a bind to a given endpoint, `BindAny` one to port 0 (and the one that fails
after it has taken an endpoint over); `doubled` records that the pool has given out an endpoint in use.

### `Runtime`

`Scheduler` is slots and pages of waker bits (a page of `PageSize` instead of 64 bits);
`Runtime` is the loop: a pass over the woken tasks, the clock, the heap of deadlines, watched
deadlines with two futures waiting in `select!`, operations with their tokens. A
retransmission coroutine per connection and the operations of the application are
the tasks. `PairingHeap` is the heap with its links; TLC evaluates that it agrees
with a set after any seven operations, and `RuntimeProofs` shows it for any heap. `RingBuffer` separates the reads and writes of the
two indices; `WatchedValue` keeps `LinkedList` in step with its pointers.

### `LoadPolicy`, `Switch`, `DpdkMemory`, `Wire`, `StateCodec`, `LibOS`

`LoadPolicy` has handles with their positions in a bucket and in the list of handles,
`swap_remove`, the poll that applies queue lengths or requests, and the selection on a signal,
from the bucket of the excess upwards and then downwards; the rolling average has no reader
and is left out. `Switch` is the directory, round robin
and both forwarding directions, with the ARP cache that each looks in (`macs`, any of the
backends at first, and one more whenever it answers). `DpdkMemory` counts references to mbufs and heap
buffers held by the application, the queues, the card and the receive path, and says which bytes of an
array remain of a push (`Kept`); `Echoes` lets the application push what it received; `Reuses` and
`FreesMoved` switch on calls that the code gets wrong (section 4).
`Wire` builds and parses frames as byte sequences, the one place where bytes
matter; `StateCodec` does the same with the control block. `LibOS` runs short programs
of the application; `Careful` bars reuse of a descriptor whose operation is pending
(section 4).

## 3. Runs

| run | instance | shows |
|---|---|---|
| `tcpmig_reliable` | 3 hosts, 1 client, 2 segments, 2 migrations | `SingleOwner`, `NoAbort`, `DataKept`, `MigrationDropsNothing`, and that `TcpMig` implements `Handoff` |
| `tcpmig_faults` | 2 hosts, 2 migrations, 1 loss, 1 duplicate, the application closes | `OneControlBlock`, `TablesHold` even when hosts abort |
| `tcpmig_live` | 2 hosts, 2 migrations, 1 returned PREPARE, fairness | `MigrationsEnd`, `AllDelivered` |
| `tcpmig_close_race` | 2 hosts, 1 migration, the application closes | violated: `QdOutlivesMigration` |
| `stream` | 5 bytes in, window 4, store of 2, resets, ARP expiry; 3 bytes out, peer with room for 2; 1 migration each | `Intact`, `WindowKept`, `QueuesAreStream`, `WithinWindow` |
| `stream_live` | 4 bytes each way, both sides close, 2 losses; states of 1 to 8 fragments, 1 loss, 1 duplicate; fairness | `StateFollowsFin`, `Faithful`, `EverythingArrives`, `AckGetsSent` |
| `runtime` | 2 connections, 1 operation, 3 slots on pages of 2; a ring of 4 slots; 3 waiters; fairness | `NoLostWakeup`, `TimersFollowDeadlines`, `SlotsHold`, `WaitsEnd`, `IsQueue`, `IsWaitQueue` |
| `load_policy` | 3 connections, buckets of 2 | `LoadIsTrue`, `HandlesHold`, `SelectionRelieves` |
| `tcp_open` | 2 sockets of a client, a private port and that of `CORE_ID`, 2 accepts, backlog 1, 1 retry, 1 duplicate, any loss, fairness | `HandshakeAgrees`, `TablesHold`, `OpensEnd` |
| `datagrams` | 2 neighbours, 2 descriptors, 3 endpoints on 2 ports, one that of `CORE_ID`, a queue of 2, seven loads, fairness | `WaitersAreQueued`, `SlowPathInOrder`, `OwnersRead`, `SendersEnd` |
| `foundations` | every kind of packet, each byte changed; 6 body mbufs, arrays of 4 sizes, echoes; 3 clients on 2 backends, cached or not | `Delivered`, `Caught`, `RefsAreHeld`, `SentIsPushed` |
| `libos` | 3 operations on 3 queues, on catnap and catnip | `NamesHold`, `StreamsIntact`, `NoneAsleep` |

Each property is stated in words above its definition.

### Bounds, and why they are enough

* *Migrations: 2.* One migration cannot meet another. Two overlap in every way:
  the second starts from the target before the origin has forgotten the first,
  goes to a third host, or back to the origin. With three hosts (`reliable`) a third
  migration would again meet at most the entries of its neighbours in the chain; and
  what these runs check of safety is proved for any number.
* *Segments: 2.* One is received or buffered before the state arrives while the
  other is late, so that order and gaps matter.
* *Faults: 1 of each.* No message of the protocol is retransmitted, so that one
  loss of each kind already leaves every half-finished state.
* *Bounces: 1 (`tcpmig_live`).* A returned PREPARE starts the migration anew, so
  that a second one repeats the first.
* *Receiver.* A window of four with five bytes and a store of two: segments
  overlap stored ones at the front, at the end, on both sides and inside, and
  the store is full. `MaxAge` lets late duplicates reach back over the whole stream.
  The modulus must exceed twice the span of numbers in use, as 2^32 does.
* *Sender.* `stream` writes more than the peer has room for, so that the
  window closes, is probed and opens again. There the peer's numbers (`NumbersMixed`) are now
  before ours, now after, so that windows are admitted by SND.WL1, by SND.WL2 and not at all; in
  `stream_live` (`NumbersBefore`) they come before ours throughout and no window is ever admitted. A
  lost segment cannot be told from one that is never delivered, so that
  this run needs no loss; `stream_live` has two. In `stream_live` a buffer is longer than
  a segment and shorter than the window, so that it is cut.
* *Fragments.* With `MaxFragment` 2 and `Offsets` 8 the sizes cover the single fragment, an exact
  multiple, a short last fragment, and the largest state that the size check
  admits, where the counter wraps.
* *Opening.* Two sockets compete for two ports, one private and one that is both fixed and the
  port of `CORE_ID`, and for a backlog of one. Two accepts are the fewest of which one can displace the
  waker of the other. One retry tells "again" from "give up"; segments in the network are a
  bag in which one is doubled, any is lost.
* *Datagrams.* Seven loads bring the kinds of coroutine together in pairs that share a
  neighbour; a queue of two overflows with three pushes; the endpoint has a local
  and a wildcard form, and a descriptor is bound, closed and bound again. The pool has the port of `CORE_ID` in the load
  with two sockets, in both forms.
* *Runtime.* Three slots on pages of two: a full page, the next page, and a slot that is used
  again. Two connections, so that one deadline is changed while the other fires.
* *Load policy.* Three connections in buckets of two: a bucket in the middle empties, one
  overflows, and `swap_remove` moves the last or is the last.
* *Foundations, libOS.* Each byte of each frame is replaced by the two extremes and a third
  value; mbufs for a header, two parts of a body and a retransmission at once. An array
  is as small as the space in the header (1), larger than what goes inline and smaller than the room of an
  mbuf (3: the one that loses bytes), as large as that room (5), and longer than an mbuf (7, refused);
  received packets of 2 and of 3 bytes are pushed again. No symmetry is used: `CHOOSE` tells model values apart.
  The switch starts with any of its backends in the ARP cache. Three
  operations are a pending one, one that ends it, and one that reuses what it had.

Deadlock is checked where the model runs for ever (`runtime`, `load_policy`). The others stop when
their bounds are used up, the connection ended, or a host aborted.

### Fairness, and why the code justifies it

* `TcpMig`: the poll loop (`poll_bg_work`) handles every received packet and
  polls every runnable coroutine; the application, a server, calls accept and
  pop again and again; a client retransmits its SYN and its data. Weak fairness of each, per
  host, and for pops per descriptor. None on migrating, closing, sending new
  data, losing or bouncing.
* `TcpReceiver`: the peer sends again what is not acknowledged, the application
  reads, timers expire. The network may still deliver anything else in
  between.
* `TcpSender`: coroutines are polled when what they wait for is there or their timer expires;
  what is not lost arrives; the peer reads; its address becomes known in the end.
  None on writing, closing or migrating.
* `Fragmentation`: the target handles every fragment that arrives.
* `Runtime`: the loop goes on (weak), and the clock advances (strong: it may be read
  many times before it changes).
* `TcpOpen`: what is runnable on a host is polled, some coroutine of each host again and again (the scheduler
  does more: it polls every one), timers expire. None on the network: it may lose everything.
* `Datagrams`: a query is polled when its channel or its timer wakes it, and senders are polled. None on
  messages: a neighbour may never answer.

## 4. Disagreements and surprises

### Shown by a run

* `tcpmig_close_race`: `do_close` removes the socket of a connection whose
  migration is under way; the PREPARE_MIG_ACK then makes
  `migrate_out_connection` panic, "invalid QD for migrating out"
  (`tcp/peer.rs:1166`).

### In the models, without a run of their own

The models behave as the code does here; the properties are stated so that they
hold. Where a formula is given, it fails on the constants given.

Migration and transport:

* `TcpReceiver`, `Home` removed from `StateFollowsFin` (`StreamLive.cfg`): `from_state`
  makes every migrated connection `Established` (`ctrlblk.rs:1582`), also one
  whose peer has sent its FIN, which then ends in FIN-WAIT-2 when it is closed.
* `TcpReceiver`, `Home` removed from `AckOwed`: the acknowledgement timer is not carried either.
* `TcpReceiver`, `halted # "panic"` (`Stream.cfg`): a FIN after a RST finds the
  control block in place and reaches the panic of the FIN processing.
* `TcpReceiver`, `Intact` with `Modulus = 8` and 12 bytes: an entry that in-order data
  has passed is never removed from the out-of-order store, and is delivered again one
  turn of the sequence numbers later. The store is also neither sorted nor free
  of overlaps, as the comment at `ctrlblk.rs:1054` says: a segment cut at the front
  is put at the back. `Intact` shows that within one turn
  neither matters to the reader.
* `TcpReceiver`, `ArpExpires = TRUE` with fairness: when the address of the peer is not known the
  acknowledger's deadline stays in the past and it spins (`halted = "spin"`). `AckGetsSent` would be violated;
  in `stream_live` the address stays known.
* `TcpReceiver`: a zero-window probe is trimmed to nothing and gets no answer (`ctrlblk.rs:500`).
* `TcpSender`, `[]<>(got = written \/ ~Orderly)` (`StreamLive.cfg`): `from_state` does not start the
  retransmission timer although `unacked_queue` was carried
  (`ctrlblk.rs:1593`). Data lost before a migration is not sent again, unless the
  application sends more or a partial acknowledgement arrives.
* `TcpSender`: a window probe that takes the only byte of a buffer leaves the
  empty buffer at the front of `unsent_queue` (`sender.rs:356`), which the coroutine
  later takes for the end-of-send marker: its `debug_assert!` fails
  (`background/sender.rs:146`), and in a release build a FIN goes out in the middle of
  the stream. While the window stays closed, the next probe panics (`TakeFails`).
* `TcpSender`, `WithinWindow` without `heeded` (`Stream.cfg`): `update_send_window` takes a window only if SND.WL1 and
  SND.WL2 admit it (`sender.rs:399`), as RFC 793 has it. But SND.WL1 is at first the host's *own* initial number
  (`sender.rs:122`, called from `ctrlblk.rs:280`), and is compared with the numbers of the peer. For about half of
  the pairs of initial numbers no window of the peer is taken until it has sent enough: of a peer that sends
  nothing, none ever (`WindowNeverTaken` proves it, `WindowAlwaysTaken` that of the others every one is). The host
  then goes on sending by the window of the handshake, beyond the one the peer tells. The
  property keeps the window as long as none has been passed over, and beyond that the bound that is left.
* `TcpSender`: a migration in the middle of a probe starts a second one, one byte
  further beyond the window (`WithinWindow` counts it).
* `TcpSender`: the FIN in `unsent_queue` adds nothing to `unsent_seq_no`
  (`sender.rs:276`), so that the coroutine does not see it, and a FIN queued
  behind the last data is not sent; `close()` panics, "send failed", if the queue
  is full; an acknowledgement that acknowledges nothing new does not open the
  window, and the coroutine wants strictly more room than the next buffer needs
  (`background/sender.rs:107`), so that with a buffer as large as the
  window nothing moves; a failed ARP query ends all three coroutines of the connection.
* `Fragmentation`, "received implies that every fragment was taken"
  (`Sizes = {5}`, `MaxDup = 1`): a fragment that comes twice is counted
  twice, and a state is returned with another missing (`defragmenter.rs:65`, against the comment at line 40).
  A state of exactly 65536 fragments passes the size check, and its counter wraps:
  an empty fragment with offset 0 follows and is taken for the whole. `Faithful` is about states of fewer fragments, none of which comes twice.
* `StateCodec`: `from_state` keeps no retransmission deadline, turns a half-closed connection into
  an established one, and leaves out the state of the application when a connection that
  migrated in migrates on before the application has taken it.

Opening:

* The handshake coroutine's time-out overwrites an `Ok` that the application has not fetched
  yet (`active_open.rs:266`): the server has a connection that the client gave up.
* A SYN in the window closes an established connection; a RST is sent without ACK and in answer to
  a RST (`tcp/peer.rs:826`).
* A failed connect leaves its socket Connecting and its port taken; `close` of a socket that
  is not established removes it and returns ENOTSUP, the descriptor stays taken; port 65535 is never in
  the pool (`ephemeral.rs:32`).
* `TcpOpen`, `GivenOut` removed from `PortsHeld` (`TcpOpen.cfg`): `EphemeralPorts::new` puts port 9999 + `CORE_ID` into
  the pool (`ephemeral.rs:37`), `is_private` does not know it for private, and `bind` takes only private ports out.
  A socket is bound to it explicitly, `alloc_any` gives it to another, and two sockets share a port. A second connect from
  that port replaces the active open of the first, whose coroutine sleeps for ever, and its SYN closes
  the connection of the first: `HandshakeAgrees` and `ConnectEnds` except the port from the moment the
  pool has given it out, and say of every other what they said.
* `TcpOpen`, `Forgotten` removed from `AcceptEnds`: the ready queue keeps one waker (`passive_open.rs:108`). Of two accepts that wait, the
  one polled last is woken; the other sleeps on although connections become ready, unless it is polled for
  another reason.
* A handshake that failed stays in `inflight` and counts against the backlog (`passive_open.rs:366`): the model
  does the same, and no property calls it wrong.

Datagrams and ARP:

* `Arp`, `~panicked`: when two queries wait for one address, the one that gives
  up drops the wait queue with the other in it, which panics, "Dropped waiter?"
  (`arp/peer.rs:135`, `:163`). `SendersEnd` takes a panic for an end, this one and the next.
* A push that finds the send queue full while the coroutine holds it panics; a full queue
  drops its *oldest* half; datagrams to known neighbours overtake it, and one unknown
  neighbour holds all others up (`udp/queue.rs`).
* `Datagrams`, `~doubled` removed from `OwnersRead` (`Datagrams.cfg`): a socket is bound to the port of `CORE_ID`,
  and a second one that asks for port 0 is given the same. `do_bind` replaces the queue in `bound` before it looks whether there was one, and the first
  socket reads, through its next pop, a datagram that was both's. A socket that is bound already and asks for port 0 loses that port
  from the pool.
* A pop of UDP polls for ever and does not end with `close`; a pop on a socket that is not bound
  panics; `close` of one reports EBADF after it has removed it. The entry of a ping stays after its time-out.

Load policy and switch:

* Packets that a migration buffered are replayed before `poll_accept` enables the statistics of the
  connection, and not counted (`tcp/peer.rs:401`); `connections_to_reactively_migrate` begins
  with `return None` (`tcp/stats.rs:228`), so that only a signal of the switch makes a host choose.
* `Switch`: a retransmitted SYN, or a client that comes back with the same address, panics: the
  directory never shrinks. So does the SYN that is due to a backend whose MAC address is not cached (`tcp/peer.rs:862`); the
  panic for a later frame (`tcp/peer.rs:898`) is in the model too and `Sticks` shows that it is not met: a
  backend that was given a connection was cached, and the switch, which polls no coroutines and no clock, forgets none.

Below and above:

* `Scheduler`: a dropped task in slot 0 of its page is never freed (`src/src/rust/scheduler/scheduler.rs:203`).
* `DpdkMemory`, `SentIsPushed` with the length of the array for `Kept` (`Foundations.cfg`): an array longer than what goes
  inline is an mbuf whose data length is set to the size asked for (`mempool.rs:103`), and `clone_sgarray` trims the
  clone by the difference to the whole *room* of the mbuf (`manager.rs:226`). An
  array that does not fill its mbuf therefore loses as many bytes at its end as there is room left, and the process panics if there is
  more room left than data. So does a received buffer that is pushed again, after the headers were cut from it.
  `Kept` is what remains of a push; `SentIsPushed` says that no more is lost, and no other byte.
* `DpdkMemory`: `FreesMoved` (freeing an array whose pointer was advanced; `manager.rs:200`) and `Reuses` (writing to
  a pushed array before the push ends, which `src/man/demi_push.md` rules out) each
  break a property; the runs keep them off. A chained mbuf takes three clones to send (`sender.rs:237`, `tcp/segment.rs:79`,
  `src/src/rust/catnip` `network.rs:74`), and the process panics when the pool has not as many (`NeededMbufs`).
* `Wire`: a datagram that begins with the magic number is taken for a migration message; a frame with
  IPv4 options fails its checksum; a UDP checksum of 0 is not checked; more than 40 bytes of TCP options
  wrap the data offset (`tcp/segment.rs:372`).
* `LibOS`, `Careful = FALSE`: on catnap a descriptor that is closed and handed out again gets the bytes of
  the operation that still waits on the old one. `wait_any` with an invalid token loses the results it
  has taken; a partial send is reported complete; bind on a taken address panics instead of
  failing with EADDRINUSE.
* `RingBuffer`: the stores are `Relaxed`; the model assumes that they are seen in order, as on x86-64.

## 5. Proofs

| module | theorem | in words | assumptions |
|---|---|---|---|
| `TcpMigProofs` | `TypeCorrect` | `Spec => []TypeOK` | |
| | `SingleOwnerInvariant` | a connection is never held twice | `MaxDup = 0` |
| | `TablesInvariant` | `sockets`, `qds`, `established` agree; a descriptor has one use | |
| | `OneControlBlockInvariant` | a connection becomes one control block, whatever is lost or delivered again in a row | |
| | `NoAbortInvariant` | no panic is reachable | `Reliable` |
| | `ReadsResumeInvariant` | the next host reads on where the last stopped | `MaxDup = 0` |
| | `DataKeptInvariant` | every segment is somewhere, or is sent again | `Reliable` |
| | `NothingForgotten` | no step forgets received data (an action property) | `Reliable` |
| | `DropsNothingHolds` | no segment of an accepted connection is discarded (an action property) | `Reliable` |
| | `ProtocolImplementsHandoff` | `TcpMig` implements `Handoff` | `Reliable` |
| `TcpOpenProofs` | `TablesTyped`, `OpenTablesInvariant`, `HandshakeInvariant` | `TypeOK`, `TablesHold`, `HandshakeAgrees` | |
| `DatagramProofs` | `WaitersInvariant`, `SlowPathInvariant`, `OwnersInvariant` | `WaitersAreQueued`, `SlowPathInOrder`, `OwnersRead` | |
| `TcpReceiverProofs` | `ReceiverInvariant`, `ReadsTheStream` | the reader gets the stream and stored bytes bear their numbers (`Intact`) | `ShortStream` |
| | `AcknowledgesWhatIsHeld`, `FinIsFollowed` | an acknowledgement covers only what is held and the window is never overrun (`WindowKept`); `StateFollowsFin` | `ShortStream` |
| | `PlaceKeeps`, `SearchEnds` | the search of the out-of-order store mislabels nothing, and ends | `ShortStream` |
| `TcpSenderProofs` | `SenderInvariant`, `QueuesHoldStream` | the two queues are what is written and not acknowledged, and each segment bears the number of its bytes (`QueuesAreStream`, `Labelled`) | |
| | `SentWithinWindow` | nothing is sent beyond the window while none was passed over on account of SND.WL1, nor ever more than the peer's whole buffer, but for a probe or a FIN and one byte for each migration; what is not acknowledged is timed or probed, and the timer stops with the last of it (`WithinWindow`, `TimerCovers`) | |
| | `WindowAlwaysTaken`, `WindowNeverTaken` | every window of a peer that sends no data is taken if its number comes after ours, none if it comes before | `Quiet` |
| `RuntimeProofs` | `LoopInvariant`, `WakeupsAreKept`, `TimersAreTrue`, `SlotsAreKept` | `NoLostWakeup`, `TimersFollowDeadlines`, `SlotsHold` | |
| | `InsertHolds`, `RemoveHolds` | insert and remove on any pairing heap add and take one node and keep heap order | |
| | `RingIsQueue` | `RingBuffer` implements `BoundedQueue` | |
| `LibOSProofs` | `TokensAreKept` | a token names its operation until the result is taken (`TokensHold`) | |
| | `NoOperationSleeps` | `NoneAsleep` | |
| | `NamesAreKept` | `NamesHold` | `Careful` |
| | `StreamsAreKept` | `StreamsIntact` | `Careful`, `OnePush` |
| `LoadPolicyProofs` | `PolicyInvariant`, `HandlesAreKept`, `LoadsAreTrue` | `HandlesHold`, `LoadIsTrue` | |
| | `MigrationRelieves` | a signal moves enough connections and not one too many (`SelectionRelieves`) | |

Each is about all values of the constants: any sets of hosts, clients, descriptors,
ports, neighbours, any number of migrations, retries, slots, any bucket size and threshold.

*Assumptions.* The modules' own, which TLC evaluates in every run: bounds are
naturals; `None` is none of the values it stands beside (`NoneAssumption`); a power of two as the
size of a ring, as its constructor demands; a capacity of at least two for the send queue, of which half is
dropped (`DatagramAssumption`). And, in the theorem, what the network does:

* `Reliable`: nothing is lost or duplicated and the application closes nothing. No message of the
  protocol is ever sent again, so that one loss leaves a connection half moved, a duplicate CONN_STATE finds no
  entry, and `tcpmig_close_race` shows what `close` does: without each of the three, `NoAbort` is false.
* `MaxDup = 0`: a CONN_STATE that is in the network twice *is* a second copy. That it never
  becomes a second control block holds without this (`OneControlBlockInvariant`).
* `ShortStream`: a connection carries less than half of the number space (2^31 bytes, less two
  windows). Longer ones break `Intact`: section 4 has the counterexample, and the runs of
  `MCTransport` satisfy it (22 <= 32).

* `SenderAssumption`, the module's own: what is written, the window and the migrations together take less than
  half of the number space, as `ShortStream` says for the other direction.

* `Quiet(n)`: the peer sends no data, so that its acknowledgements all bear the number `n`. `SentWithinWindow` needs it not.

* `Careful`: the application closes no queue on which an operation waits, names none that it closed and
  has at most one operation of a kind on a queue. Without it `NamesHold` and `StreamsIntact` are false on
  catnap (section 4). `OnePush`: no application uses both `push` and `pushto`; of two operations
  that send on one socket the one in the lower slot goes first, whichever was issued first. The run's
  programs satisfy both; `TokensAreKept` and `NoOperationSleeps` need neither.

### The arguments

*`SingleOwner`* speaks about control blocks and states on their way, and says nothing of what
may turn into one. `OwnerInv` counts *holders* of a connection (a
SYN or a state in a queue, a handshake, an entry of the ready
queue, an entry of `established`): there is at most one (`OneHolder`); a client whose SYN
was dropped has none (`LostAlone`); what the client has done limits which (`Phases`).
Every step either keeps the holders (`HoldersKept`) or moves one (`HolderMoves`).

*`TablesHold`* is inductive with `TypeOK`: each conjunct is about one host, and an action
changes one descriptor of one host.

*`OneControlBlock`* holds on any network, and is not inductive: why should a host not take a
second copy of a CONN_STATE later? `CopyInv` says where copies can be. The network of the model delivers a message again in
a row (a copy that is held back until the connection returns to the same host is not modelled, and would be
taken), and a host reads its queue in order, so that all copies of a state stand one after the other
at the head of the queue of the host that took the first, and that host's entry no longer waits for one
(`Runs`). A SYN cannot make a second one either: a client that has sent data sends no
SYN, and until then there is only what its one SYN became (`Youth`).

*`NoAbort`* is the protocol itself, followed message by message. Of each connection
`Entries` says what an entry of the migration table and the place of the connection say of each other;
`Answers`, for each message, the stage its receiver is in, and who stands before whom in a receive
queue (a client's segment may arrive at the origin after the redirection only ahead of the
PREPARE_ACK); `OneAnswer`, that one migration of a connection is under way, apart from the
acknowledgements that end earlier ones, one for each former origin; `Awaited`, that whoever waits has a message under
way. Overlapping migrations are the reason for the last two: the origin of a finished
migration may become the target of the next before it reads its CONN_STATE_ACK. Each action has
lemmas about the queues it changes, then one lemma for each part.

*Data.* With the places of messages settled, queues become sets (`Flow`). The state of a connection
exists once (`Copies`), and each step keeps, moves or grows it: so the reader's
position and what was received survive. A segment is received, in a queue, in a buffer, or
dropped (`Remembered`); the buffer is replayed when the entry goes.

*Refinement.* `place` is the host that has the connection in its table, "moving" while it is in a message or
waits for accept, "none" before; `got` is `AckedData`, and `read` what was delivered. A SYN that becomes
ready is `Open`, `MigrateOut` is `Depart`, `PollAccept` is `Settle` with what the buffer adds,
`RxEstablished` is `Receive`, `PollRecv` is `Read`; the others leave the three unchanged.

*Opening.* `TablesHold` needs two more facts: a result stands in `connecting` only before
the connection is established, and a socket that connects has a port. For `HandshakeAgrees`: the first SYN that the server
takes from a port decides what it holds of that port, in one of three places (in progress, ready, accepted);
SYN+ACKs, results and control blocks of the client agree with it (`AgreementOn`); the numbers of a
port's SYNs only grow (`NumbersIn`), so that no SYN still under way can
close the connection once a socket stands for it (`InUse`). Of the port of `CORE_ID` the proof says all this until
the pool has given it out (`GivenOut`, which never shrinks), and the agreement on the numbers even after.

*Datagrams.* A query that does not run has an empty channel (`EmptyWhenIdle`), which makes
`WaitersAreQueued` inductive. Numbers grow from the last one sent through the one being resolved and those queued to the last one given
out (`Numbered`). An endpoint, a queue and a socket belong to each other while the socket is bound, and
a pop keeps to a queue that is its socket's or nobody's (`Bindings`, `Owned`): until the pool gives out an endpoint
that is bound (`doubled`), after which nothing is said any more.

*Ring.* What each side knows of the other's index can be out of date in one direction only
(`WriterKnows`, `ReaderKnows`).

*Event loop.* `NoLostWakeup` needs to know where a wake-up can be: in the flags of the
scheduler's record or in what is left of the page being polled; `IInv` therefore speaks of that rest (`pass.todo`,
`pass.gone`) as well. Its parts: slots and flags (`Flags`: who is free has no flag, who is
vacant is in the free list once); tokens and handles name slots (`Names`); an operation whose event has
happened is notified, one that waits has left its waker (`Events`); a coroutine that sleeps
sleeps on its deadline, and one that does not is notified (`Sleepers`); the timers are the heap's
(`QueueHolds`). Each operation of the code has a lemma on these parts (`...Keeps`), each action one on the whole
(`...Step`). `TimersFollowDeadlines` needs that the heap is one: `Holds` says that the links
reach each of its nodes once, without a circle (`Acyclic`: there are numbers that descend along
the links), that a parent is no greater than its child, and that there is one root. `merge_children`
is a loop over pairs, a recursive function: that it exists follows from the least-number principle (`LoopsExist`), its
invariant is that the children melded so far are one tree and the others are still roots (`Merging`).

*Operations of the application.* A poll and a wait are loops within one step, over a state that is not the one
of the variables any more. `Whole` therefore speaks of a record of such a state, and is kept by each thing that can
happen within: one poll of one future (`PollOne`), the flags of a page taken and given up (`FlagsTaken`, `PageEnded`), one
result taken (`WholeReaped`); `PollPageIs`, `CatnapPollIs` and `PassIs` carry it through the loops. It
has a part that holds for any application (`Core`: slots and tokens name each other, an operation is completed exactly
if it has a result) and one for careful ones (`Deep`). For `NamesHold` (`Names`): an entry of the queue table is
open, closed with its descriptor still on record, or held by one accept; an open descriptor is that of one open queue
or of one accept that is over. For `StreamsIntact` (`StreamsOf`, `WiresOf`): a socket has one descriptor or one place in a
listener's queue (`Once`); an operation keeps to the descriptor its queue has (`OwnQueue`); a socket that was
popped from can be reached through one queue only (`Logs`); what was read of a socket is in the log or in the
one pop that is over (`Positions`); and a push that has yet to go out is later than those that have.

*Receiving.* The code compares sequence numbers, the properties speak of positions in the
stream. `Numbers` carries one over to the other: within half of the number space, the comparisons
(`SeqLt`, `SeqLe`) are those of positions. That is what `ShortStream` is for, and it is a
real limit: the store is never cleared of what the application has passed by, so that in a longer
stream a stale entry or a stale FIN can be met again by a number half the space further on. With it each
computation of `receive` is said in positions: what is left of a segment after both
cuts (`TrimmedIs`), what the store holds after one comparison (`ComparedKeeps`) and after the whole
search (`PlaceKeeps`), what merges (`MergesIs`), and where the queue ends then (`MergedKeeps`). `ReceiverInv` says that
RCV.NXT is the number of the position that the queue ends at, or of the one after the FIN
(`Positioned`), that what is stored ends within the window told (`StoreFits`), and that the states past the FIN are
those in which it was received (`FinFollowed`). The search is a recursive function: that it exists,
and what holds of each of its values, is shown from the least-number principle (`LeastNumber`,
`Induction`, `SearchesExist`), because a theorem with an operator for a parameter cannot be
instantiated; `SearchEnds` bounds its steps by a measure.

*Sending.* Here too the code compares numbers and the proof goes over to positions (`Pos`, `Numbers`). `IInv` says,
as long as the FIN is the last thing sent: the numbers that the buffers of `unacked` take are those between SND.UNA and
SND.NXT, and `unsent` is a chain of bytes from SND.NXT to the last one written (`Numbered`, `Chain`); each buffer, and
each segment on its way, stands at its place of the stream (`QueueStands`, `Flying`); what the coroutine read before it
awaited the address is still right when it goes on, because nobody else takes from the front of the queue
meanwhile (`Waiting`), and the room it computed still fits, because an acknowledgement moves SND.UNA and the edge of the
window but never the edge back (`Room`, `AcksHold`: a later acknowledgement tells no smaller edge). `Room` counts what may lie
beyond the edge: a probe or a FIN, and one more byte for each migration. That a FIN was not the last thing never becomes
otherwise again (`FinStep`), so that each step may assume it was so before. How far the host may send is told by
`Limit`, the edge of the window that it has taken: while every window was admitted it is the peer's edge, and otherwise
it still lies within the peer's buffer. For the two theorems about SND.WL1, `TakesAll` and
`TakesNone` say what WL1 and WL2 hold after each acknowledgement. The step that needs most is an
acknowledgement that ends within a buffer: `RemainingIs` says what is left, of any queue, and `QueueLeft` that it
stands where it stood. The sums over queues are recursive functions (`Total`), followed by tables (`SumsExist`). The
theorems end where a FIN goes out before the end of the stream (section 4), as the properties do: what the
code keeps after that is not stated.

*Load and selection.* `HandlesHold` and `LoadIsTrue` are made inductive by what ties a handle to its
connection (`PolicyInv`): who is enabled is open (or was accepted with the peer's FIN already
received) and has its true load recorded, a disabled handle has
no connection (`Living`), and between the poll and the signal no handle is marked or stale (`Fresh`), which is why no
connection that is selected has gone. `swap_remove` is followed in both lists: what it moves learns its new
position (`FileRemove`). `Stats::poll` is a loop within one step; `TurnInv` is its invariant, with what was
polled, what is still to poll, and the sum. For `SelectionRelieves`, every handle with a load is considered once
(`ConsideredIs`: all buckets, each reversed), and the selection is the shortest beginning that is enough
(`ShortestEnough`). Sums, the poll and the flattening are folds over sets, whose values are followed by
tables (`SumTable`, `PollTable`, `FlattenTable`), shown to exist from the least-number principle.

### Only model-checked

* Liveness (`MigrationsEnd`, `AllDelivered`, `EverythingArrives`, `AckGetsSent`, `WaitsEnd`,
  `OpensEnd`, `SendersEnd`): it needs fairness and ENABLED, which the prover does not handle.
* `Fragmentation`, `Wire`, `StateCodec`: recursive
  definitions, or byte layouts that TLC enumerates exhaustively.
* `DpdkMemory`, `Switch`, `WatchedValue`: not proved yet.

## 6. What is not modelled

`PROJECT.json` lists each component with the reason: the RTO estimator and
Cubic (floating point; Cubic is never built), catcollar and catpowder (their arms in
`src/src/rust/demikernel/libos/network.rs` do not match its types, so that they do not build),
device initialisation and
platform (I/O), the P4 programs beyond what the hosts rely on, logging, example servers and scripts. Also left out: the
heartbeat of the migration peer, its trigger from standard input, several listening addresses, a target that
does not listen.

## 7. Plan

1. *Prove.* `DpdkMemory` (`RefsAreHeld`, `SentIsPushed`), `Switch`.
2. *Extend.* A target that stops listening while a state is on its way; several listening
   addresses; register allocation of the P4 program; composing the sender of one host with the receiver of
   another over one network, and fragments under the hand-over.

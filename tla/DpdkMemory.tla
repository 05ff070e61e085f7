----------------------------- MODULE DpdkMemory -----------------------------
(***************************************************************************)
(* The memory of a catnip process: mbufs of the two DPDK pools and heap     *)
(* buffers, as the application (scatter-gather arrays), the stack (Buffer)  *)
(* and the network card hold them at the same time (catnip/runtime/memory,  *)
(* catnip/runtime/network.rs, runtime/memory/buffer).                       *)
(*                                                                          *)
(* A cell is an mbuf or a heap allocation.  A Buffer is a view [at, off,    *)
(* len] of a cell; an array of the application is one too, and "mlen" is    *)
(* the data_len of its mbuf.  What the bytes are is a tag.  The application *)
(* and the stack share a thread; the card works on its own.                 *)
(***************************************************************************)
EXTENDS Integers, Sequences, FiniteSets, SequencesExt

CONSTANTS
  HeaderMbufs, BodyMbufs,  \* the two pools
  Arcs,                    \* heap allocations
  Room,                    \* bytes an mbuf of the body pool has for data
  InlineBody, MaxBody,     \* inline_body_size, max_body_size
  InlineSpace,             \* bytes left in a header mbuf after the headers
  Headers,                 \* bytes of header in front of received data
  Mss,                     \* longest segment of the sending coroutine
  TxRing,                  \* descriptors of the transmit queue
  Workers, Me,             \* NUM_CORES, and the core of this process
  Sizes,                   \* sizes the application allocates
  Loads,                   \* bytes of data a received frame carries
  MaxArrays,               \* bound: arrays the application holds
  MaxFrames,               \* bound: frames that arrive
  MaxPushes,               \* bound: arrays that are pushed
  MaxAllocs,               \* bound: arrays that are allocated
  MaxStates,               \* bound: connections that migrate in
  Reuses,                  \* whether the application writes to an array it has pushed
  Echoes,                  \* whether it pushes an array it has popped
  FreesMoved,              \* whether it frees an array that came with a migration
  None

DpdkAssumption ==
  /\ {Room, Mss, TxRing, Workers} \subseteq Nat \ {0}
  /\ {InlineBody, MaxBody, InlineSpace, Headers} \subseteq Nat
  /\ Me \in 1..Workers
  /\ Sizes \subseteq Nat /\ Loads \subseteq Nat
  /\ \A n \in Loads : Headers + n <= Room
  /\ {Reuses, Echoes, FreesMoved} \subseteq BOOLEAN

VARIABLES
  mem,      \* reference counts, attachments and contents of the cells
  arrays,   \* the arrays of the application
  unsent,   \* buffers pushed and not yet sent
  unacked,  \* buffers sent and not yet acknowledged
  rx,       \* the receive queues of this port, one for each index
  recvq,    \* data received and not yet popped
  tx,       \* frames handed to the card
  halted,   \* "no", or why the process makes no further step
  budget    \* what is left of the bounds

stackVars == <<unsent, unacked, recvq>>
vars == <<mem, arrays, stackVars, rx, tx, halted, budget>>

Mbufs == HeaderMbufs \cup BodyMbufs
Cells == Mbufs \cup Arcs
Running == halted = "no"
-----------------------------------------------------------------------------
(* Cells: mem.ref counts references, mem.of is the mbuf whose data an mbuf   *)
(* shows (itself, unless it is a clone), mem.data what a cell contains.      *)
(* Free cells are all alike; what was in them is forgotten.                  *)
Free(m, pool) == {c \in pool : m.ref[c] = 0}
HasFree(m, pool, n) == Cardinality(Free(m, pool)) >= n
Fresh(m, pool) == CHOOSE c \in Free(m, pool) : TRUE

Allocated(m, c, tag) == [m EXCEPT !.ref[c] = 1, !.data[c] = tag]
Content(m, b) == m.data[IF b.at \in Mbufs THEN m.of[b.at] ELSE b.at]

(* rte_pktmbuf_clone, or Arc::clone: the memory after it and the new view.   *)
CloneOf(m, b) ==
  IF b.at \in Arcs THEN b ELSE [b EXCEPT !.at = Fresh(m, BodyMbufs)]
AfterClone(m, b) ==
  IF b.at \in Arcs THEN [m EXCEPT !.ref[b.at] = @ + 1]
  ELSE LET c == Fresh(m, BodyMbufs) d == m.of[b.at]
       IN  [m EXCEPT !.ref = [@ EXCEPT ![c] = 1, ![d] = @ + 1], !.of[c] = d]
CanClone(m, b) == b.at \in Arcs \/ HasFree(m, BodyMbufs, 1)

(* rte_pktmbuf_free, or the end of an Arc.                                   *)
Less(m, c) == [m EXCEPT !.ref[c] = @ - 1, !.data[c] = IF m.ref[c] = 1 THEN None ELSE @]
Dropped(m, b) ==
  IF b.at \in Arcs \/ m.of[b.at] = b.at \/ m.ref[b.at] > 1 THEN Less(m, b.at)
  ELSE [Less(Less(m, b.at), m.of[b.at]) EXCEPT !.of[b.at] = b.at]
DroppedAll(m, bs) == FoldLeft(Dropped, m, bs)

Adjust(b, n) == [b EXCEPT !.off = @ + n, !.len = @ - n]
Trim(b, n)   == [b EXCEPT !.len = @ - n]
-----------------------------------------------------------------------------
(* Scatter-gather arrays of the application.                                 *)

(* into_sgarray: the mbuf is forgotten by the stack; a heap buffer is cloned *)
(* and dropped.  moved tells arrays that came with a migration.              *)
Array(b, moved) == [at |-> b.at, off |-> b.off, len |-> b.len, mlen |-> b.len,
                    pushed |-> FALSE, own |-> FALSE, moved |-> moved]
AfterIntoDropped(m, b) == Dropped(m, b)     \* mutant: mem::forget is missing
AfterInto(m, b) ==
  IF b.at \in Arcs THEN Dropped(AfterClone(m, b), b) ELSE m

NewArray(c, size) == [at |-> c, off |-> 0, len |-> size, mlen |-> size,
                      pushed |-> FALSE, own |-> TRUE, moved |-> FALSE]

(* alloc_sgarray.  Errors (no mbuf left, a size between the room of an mbuf  *)
(* and max_body_size, no bytes) leave nothing behind.                        *)
Managed(size) == InlineBody < size /\ size <= MaxBody
AllocSga(size) ==
  /\ Running /\ Len(arrays) < MaxArrays /\ budget.allocs > 0
  /\ budget' = [budget EXCEPT !.allocs = @ - 1]
  /\ \/ /\ Managed(size) /\ size <= Room /\ HasFree(mem, BodyMbufs, 1)
        /\ LET c == Fresh(mem, BodyMbufs)
           IN  /\ mem' = Allocated(mem, c, "written")
               /\ arrays' = Append(arrays, NewArray(c, size))
     \/ /\ ~Managed(size) /\ size > 0 /\ HasFree(mem, Arcs, 1)
        /\ LET c == Fresh(mem, Arcs)
           IN  /\ mem' = Allocated(mem, c, "written")
               /\ arrays' = Append(arrays, NewArray(c, size))
  /\ UNCHANGED <<stackVars, rx, tx, halted>>

(* free_sgarray.  A heap buffer is rebuilt from the address in the array: if *)
(* that is not where the allocation begins, its count is somewhere in the    *)
(* data.                                                                     *)
Rebuilt(s) == s.off = 0
FreeSga(i) ==
  LET s == arrays[i] IN
  /\ Running
  /\ s.moved /\ s.at \in Arcs => FreesMoved
  /\ arrays' = RemoveAt(arrays, i)
  /\ \/ /\ s.at \in Mbufs \/ Rebuilt(s)
        /\ mem' = Dropped(mem, s)
        /\ UNCHANGED halted
     \/ /\ s.at \in Arcs /\ ~Rebuilt(s)
        /\ halted' = "corrupt"
        /\ UNCHANGED mem
  /\ UNCHANGED <<stackVars, rx, tx, budget>>

(* The application writes to an array of its own.                            *)
Write(i) ==
  LET s == arrays[i] IN
  /\ Running /\ s.own /\ (s.pushed => Reuses)
  /\ mem.data[s.at] = "written"
  /\ mem' = [mem EXCEPT !.data[s.at] = "rewritten"]
  /\ UNCHANGED <<arrays, stackVars, rx, tx, halted, budget>>
-----------------------------------------------------------------------------
(* Transmission.                                                             *)

(* What was pushed: the buffer, and the bytes it should have and how many.   *)
Pushed(b, tag, len) == [b |-> b, tag |-> tag, want |-> len]

(* DPDKRuntime::transmit.  A body that fits is copied behind the headers; a  *)
(* longer one is chained: a clone of an mbuf, or an mbuf with a copy.        *)
Inlined(p)  == p.b.len <= InlineSpace
Chained(m, p) ==
  IF p.b.at \in Mbufs
    THEN [mem |-> AfterClone(m, p.b), body |-> CloneOf(m, p.b)]
    ELSE [mem |-> Allocated(m, Fresh(m, BodyMbufs), Content(m, p.b)),
          body |-> [at |-> Fresh(m, BodyMbufs), off |-> 0, len |-> p.b.len]]

(* The stack hands transmit a clone of its own buffer and keeps that;        *)
(* take_body makes a clone of the clone, which is there while the body is    *)
(* chained.  Both are dropped when the frame is complete.                    *)
Mbuf(c) == [at |-> c, off |-> 0, len |-> 0]
FrameOf(m, p) ==
  LET m1 == AfterClone(m, p.b)
      c1 == [p EXCEPT !.b = CloneOf(m, p.b)]
      h  == Fresh(m1, HeaderMbufs)
      m2 == Allocated(m1, h, "headers")
      ch == Chained(m2, c1)
  IN  IF Inlined(p)
        THEN [mem |-> Dropped(m2, c1.b),
              frame |-> [head |-> Mbuf(h), body |-> None, copy |-> Content(m, p.b),
                         len |-> p.b.len, tag |-> p.tag, want |-> p.want]]
        ELSE [mem |-> Dropped(ch.mem, c1.b),
              frame |-> [head |-> Mbuf(h), body |-> ch.body, copy |-> None,
                         len |-> p.b.len, tag |-> p.tag, want |-> p.want]]
NeededMbufs(p) == (IF p.b.at \in Mbufs THEN 2 ELSE 0) + (IF Inlined(p) THEN 0 ELSE 1)
CanTransmit(m, p) ==
  /\ HasFree(m, HeaderMbufs, 1)
  /\ HasFree(m, BodyMbufs, NeededMbufs(p))
  /\ p.b.at \in Arcs /\ ~Inlined(p) => p.b.len <= Room
  /\ Len(tx) < TxRing

(* Panics: no mbuf left, a heap buffer longer than an mbuf, a full ring.     *)
Transmit(m, p) ==
  \/ /\ CanTransmit(m, p)
     /\ mem' = FrameOf(m, p).mem
     /\ tx' = Append(tx, FrameOf(m, p).frame)
     /\ UNCHANGED halted
  \/ /\ ~CanTransmit(m, p)
     /\ halted' = "panic"
     /\ mem' = m /\ UNCHANGED tx

(* clone_sgarray: an mbuf is cloned, and cut by what an mbuf would have room *)
(* for beyond the length of the array, although the clone has that length    *)
(* already; of a heap buffer a copy is made.                                 *)
Excess(s) == Room - s.off - s.len
View(s) == [at |-> s.at, off |-> s.off, len |-> s.mlen]
PushedView(m, s) ==
  IF s.at \in Mbufs THEN Trim(CloneOf(m, View(s)), Excess(s))
                    ELSE [at |-> Fresh(m, Arcs), off |-> 0, len |-> s.len]
PushedMemory(m, s) ==
  IF s.at \in Mbufs THEN AfterClone(m, View(s))
                    ELSE Allocated(m, Fresh(m, Arcs), Content(m, s))
Kept(s) == IF s.at \in Mbufs THEN s.len - Excess(s) ELSE s.len
PushFails(s) == s.at \in Mbufs /\ (~HasFree(mem, BodyMbufs, 1) \/ Excess(s) > s.mlen)

(* push: the buffer is sent at once, if nothing waits, or left to the        *)
(* coroutine.                                                                *)
PushFailing(i) ==
  /\ Running /\ PushFails(arrays[i])
  /\ arrays[i].own \/ Echoes
  /\ halted' = "panic"
  /\ UNCHANGED <<mem, arrays, stackVars, rx, tx, budget>>

Push(i) ==
  LET s == arrays[i]
      m == PushedMemory(mem, s)
      p == Pushed(PushedView(mem, s), Content(mem, s), Kept(s))
  IN  /\ Running /\ ~PushFails(s)
      /\ s.own \/ Echoes
      /\ s.at \in Arcs => HasFree(mem, Arcs, 1)
      /\ p.b.len > 0 /\ budget.pushes > 0
      /\ budget' = [budget EXCEPT !.pushes = @ - 1]
      /\ arrays' = [arrays EXCEPT ![i].pushed = TRUE]
      /\ \/ /\ unsent = <<>>
            /\ Transmit(m, p)
            /\ unacked' = Append(unacked, p)
            /\ UNCHANGED unsent
         \/ /\ unsent' = Append(unsent, p)
            /\ mem' = m
            /\ UNCHANGED <<unacked, tx, halted>>
      /\ UNCHANGED <<recvq, rx>>

(* The coroutine: the whole buffer, or Mss bytes off its front (pop_unsent). *)
FirstPart(p, n) == [p EXCEPT !.b = [@ EXCEPT !.len = n], !.want = n]
Rest(p, n)  == [p EXCEPT !.b = Adjust(@, n), !.want = @ - n]
SendUnsent ==
  /\ Running /\ unsent # <<>>
  /\ LET p == Head(unsent) IN
     \/ /\ p.b.len <= Mss
        /\ Transmit(mem, p)
        /\ unacked' = Append(unacked, p)
        /\ unsent' = Tail(unsent)
     \/ /\ p.b.len > Mss /\ CanClone(mem, p.b)
        /\ LET q == [FirstPart(p, Mss) EXCEPT !.b.at = CloneOf(mem, p.b).at]
           IN  /\ Transmit(AfterClone(mem, p.b), q)
               /\ unacked' = Append(unacked, q)
        /\ unsent' = <<Rest(p, Mss)>> \o Tail(unsent)
     \/ /\ p.b.len > Mss /\ ~CanClone(mem, p.b)
        /\ halted' = "panic"
        /\ UNCHANGED <<mem, tx, unacked, unsent>>
  /\ UNCHANGED <<arrays, recvq, rx, budget>>

Retransmit ==
  /\ Running /\ unacked # <<>> /\ budget.resend > 0
  /\ Transmit(mem, Head(unacked))
  /\ budget' = [budget EXCEPT !.resend = @ - 1]
  /\ UNCHANGED <<arrays, stackVars, rx>>

(* remove_acknowledged_data: a whole segment.                                *)
Acked ==
  /\ Running /\ unacked # <<>>
  /\ mem' = Dropped(mem, Head(unacked).b)
  /\ unacked' = Tail(unacked)
  /\ UNCHANGED <<arrays, unsent, recvq, rx, tx, halted, budget>>

(* The card sends a frame and frees its mbufs.                               *)
CardSends ==
  /\ tx # <<>>
  /\ mem' = DroppedAll(mem, <<Head(tx).head>>
                              \o (IF Head(tx).body = None THEN <<>> ELSE <<Head(tx).body>>))
  /\ tx' = Tail(tx)
  /\ UNCHANGED <<arrays, stackVars, rx, halted, budget>>
-----------------------------------------------------------------------------
(* Reception.                                                                *)

(* Two receive queues for each core; flow rules for each core lead the TCP   *)
(* and the UDP packets of its port to the even one of them, and a rule of    *)
(* lower priority drops everything else.  No rule leads to the odd queues,   *)
(* which receive_tcpmig polls.                                               *)
RxRings == 2 * Workers
Port(i) == 10000 + i
TcpRules == {[proto |-> "tcp", port |-> Port(i), queue |-> 2 * i] : i \in 0..Workers - 1}
UdpRules == {[proto |-> "udp", port |-> Port(i), queue |-> 2 * i] : i \in 0..Workers - 1}
Steered(proto, port) == {r \in TcpRules \cup UdpRules : r.proto = proto /\ r.port = port}
QueueId(core) == core - 1
MyQueueByCore == 2 * Me               \* mutant: the core, not the queue id
MyQueue == 2 * QueueId(Me)

(* The card takes an mbuf of the body pool for a frame, or misses it.  The   *)
(* pools are shared by the processes of all cores.                           *)
CardReceives(proto, port, n) ==
  /\ budget.frames > 0 /\ HasFree(mem, BodyMbufs, 1)
  /\ \E r \in Steered(proto, port) :
     LET c == Fresh(mem, BodyMbufs)
     IN  /\ mem' = Allocated(mem, c, "received")
         /\ rx' = [rx EXCEPT ![r.queue] = Append(@,
                     [b |-> [at |-> c, off |-> 0, len |-> Headers + n], port |-> r.port])]
  /\ budget' = [budget EXCEPT !.frames = @ - 1]
  /\ UNCHANGED <<arrays, stackVars, tx, halted>>

(* Another core receives, and is done with the packet.                       *)
OtherReceives(q) ==
  /\ q # MyQueue /\ rx[q] # <<>>
  /\ mem' = Dropped(mem, Head(rx[q]).b)
  /\ rx' = [rx EXCEPT ![q] = Tail(@)]
  /\ UNCHANGED <<arrays, stackVars, tx, halted, budget>>

(* receive and do_receive: the headers are cut off; the data are queued for  *)
(* the application, or there is nothing new in them.                         *)
Unread(b, moved, port) == [b |-> b, moved |-> moved, port |-> port]
Receive ==
  /\ Running /\ rx[MyQueue] # <<>>
  /\ LET f == Head(rx[MyQueue]) b == Adjust(f.b, Headers) IN
     \/ /\ b.len > 0
        /\ recvq' = Append(recvq, Unread(b, FALSE, f.port))
        /\ UNCHANGED mem
     \/ mem' = Dropped(mem, b) /\ UNCHANGED recvq
  /\ rx' = [rx EXCEPT ![MyQueue] = Tail(@)]
  /\ UNCHANGED <<arrays, unsent, unacked, tx, halted, budget>>

(* The state of a connection arrives: its unread data, two buffers of them,  *)
(* are clones of the buffer the state came in, cut to size (TcpState::       *)
(* deserialize).  One packet is an mbuf; several are joined on the heap.     *)
Parts(b) == <<Trim(Adjust(b, 1), b.len - 2), Adjust(b, b.len - 1)>>
Deserialized(m, b, port) ==
  LET p1 == Parts(b)[1] p2 == Parts(b)[2]
      c1 == CloneOf(m, p1)  m1 == AfterClone(m, p1)
      c2 == CloneOf(m1, p2) m2 == AfterClone(m1, p2)
  IN  /\ mem' = Dropped(m2, b)
      /\ recvq' = recvq \o <<Unread(c1, TRUE, port), Unread(c2, TRUE, port)>>

ReceiveState ==
  /\ Running /\ rx[MyQueue] # <<>> /\ budget.states > 0
  /\ LET f == Head(rx[MyQueue]) b == Adjust(f.b, Headers) IN
     /\ b.len >= 3
     /\ \/ /\ HasFree(mem, BodyMbufs, 2)
           /\ Deserialized(mem, b, f.port)
           /\ UNCHANGED halted
        \/ /\ ~HasFree(mem, BodyMbufs, 2)
           /\ halted' = "panic"
           /\ UNCHANGED <<mem, recvq>>
  /\ rx' = [rx EXCEPT ![MyQueue] = Tail(@)]
  /\ budget' = [budget EXCEPT !.states = @ - 1]
  /\ UNCHANGED <<arrays, unsent, unacked, tx>>

JoinState ==
  /\ Running /\ budget.states > 0 /\ HasFree(mem, Arcs, 1)
  /\ LET c == Fresh(mem, Arcs)
     IN  Deserialized(Allocated(mem, c, "received"),
                      [at |-> c, off |-> 0, len |-> 3], Port(QueueId(Me)))
  /\ budget' = [budget EXCEPT !.states = @ - 1]
  /\ UNCHANGED <<arrays, unsent, unacked, rx, tx, halted>>

(* pop: the first buffer becomes an array of the application.                *)
Pop ==
  /\ Running /\ recvq # <<>> /\ Len(arrays) < MaxArrays
  /\ arrays' = Append(arrays, Array(Head(recvq).b, Head(recvq).moved))
  /\ mem' = AfterInto(mem, Head(recvq).b)
  /\ recvq' = Tail(recvq)
  /\ UNCHANGED <<unsent, unacked, rx, tx, halted, budget>>

(* The connection leaves: what it had queued is copied into its serialized   *)
(* state and dropped with the control block.                                 *)
MigrateOut ==
  /\ Running /\ unsent \o unacked \o recvq # <<>>
  /\ LET q == unsent \o unacked \o recvq
     IN  mem' = DroppedAll(mem, [i \in DOMAIN q |-> q[i].b])
  /\ unsent' = <<>> /\ unacked' = <<>> /\ recvq' = <<>>
  /\ UNCHANGED <<arrays, rx, tx, halted, budget>>
-----------------------------------------------------------------------------
Init ==
  /\ mem = [ref |-> [c \in Cells |-> 0], of |-> [c \in Mbufs |-> c],
            data |-> [c \in Cells |-> None]]
  /\ arrays = <<>> /\ unsent = <<>> /\ unacked = <<>> /\ recvq = <<>> /\ tx = <<>>
  /\ rx = [q \in 0..RxRings - 1 |-> <<>>]
  /\ halted = "no"
  /\ budget = [frames |-> MaxFrames, states |-> MaxStates, resend |-> 1, pushes |-> MaxPushes,
               allocs |-> MaxAllocs]

Next ==
  \/ \E size \in Sizes : AllocSga(size)
  \/ \E i \in DOMAIN arrays : FreeSga(i) \/ Write(i) \/ Push(i) \/ PushFailing(i)
  \/ SendUnsent \/ Retransmit \/ Acked \/ CardSends
  \/ \E proto \in {"tcp", "udp"}, i \in 0..Workers, n \in Loads : CardReceives(proto, Port(i), n)
  \/ \E q \in DOMAIN rx : OtherReceives(q)
  \/ Receive \/ ReceiveState \/ JoinState \/ Pop \/ MigrateOut

Spec == Init /\ [][Next]_vars
-----------------------------------------------------------------------------
(* Every reference of a cell is held by somebody and every holder has one:   *)
(* nothing is freed that the application, the stack or the card still uses,  *)
(* and nothing stays allocated that nobody uses (Clone and Drop of           *)
(* DPDKBuffer, into_sgarray, free_sgarray, transmit).                        *)
Views ==
  LET Of(q) == [i \in DOMAIN q |-> q[i].b] IN
  arrays \o Of(unsent) \o Of(unacked) \o Of(recvq)
    \o FlattenSeq([i \in 1..RxRings |-> Of(rx[i - 1])])
    \o [i \in DOMAIN tx |-> tx[i].head]
    \o SelectSeq([i \in DOMAIN tx |-> tx[i].body], LAMBDA b : b # None)
Holders(views, c) ==
  Cardinality({i \in DOMAIN views : views[i].at = c})
    + Cardinality({m \in Mbufs \ {c} : mem.of[m] = c})
RefsAreHeld == Running => LET views == Views IN \A c \in Cells : mem.ref[c] = Holders(views, c)

(* What waits in the stack and what the card will read are the bytes that    *)
(* were pushed, and no others, however often the buffer was shared, cut and  *)
(* sent again; none of them is missing but for an array shorter than the     *)
(* room its mbuf has for data, which loses at its end as many bytes as there *)
(* is room left (clone_sgarray, pop_unsent, transmit).                       *)
SentIsPushed ==
  Running =>
    /\ \A q \in {unsent, unacked} : \A i \in DOMAIN q :
          Content(mem, q[i].b) = q[i].tag /\ q[i].b.len = q[i].want
    /\ \A i \in DOMAIN tx :
          /\ tx[i].len = tx[i].want
          /\ tx[i].tag = IF tx[i].body = None THEN tx[i].copy
                                              ELSE Content(mem, tx[i].body)

(* A process receives the packets of its own port: the flow rules            *)
(* (generate_tcp_flow_rules), queue_id (new) and the queue that receive asks *)
(* for agree, in every process.                                              *)
OwnPackets == \A i \in DOMAIN recvq : recvq[i].port = Port(QueueId(Me))
=============================================================================

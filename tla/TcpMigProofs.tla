---------------------------- MODULE TcpMigProofs ----------------------------
(***************************************************************************)
(* Proofs about TcpMig, in three parts: its type invariant; on a network   *)
(* that does not duplicate packets, that a connection has a single owner;  *)
(* and on any network, that the tables of a host agree and that a          *)
(* connection becomes a control block at one host at most.                 *)
(*                                                                         *)
(* Then, on a network that neither loses nor duplicates and with an        *)
(* application that closes nothing, that no host ever aborts.  The         *)
(* invariant is the migration protocol, followed message by message:       *)
(* which entry waits for which message, where the client's segments can be *)
(* while its packets are steered to another host, and in which order they  *)
(* and the messages stand in a receive queue.  Migrations of one           *)
(* connection overlap: the origin of a finished one may still have to read *)
(* its CONNECTION_STATE_ACK while the next is under way, and may be its    *)
(* target.                                                                 *)
(*                                                                         *)
(* Last, the data: the protocol implements Handoff.                        *)
(***************************************************************************)
EXTENDS TcpMigInvariants, SequenceTheorems, TLAPS

-----------------------------------------------------------------------------
(* Queues of packets. *)

(* The packet a host handles is a packet, the first of its queue. *)
LEMMA HeadIsPacket ==
  ASSUME inq \in Queues, NEW h \in Hosts, inq[h] # <<>>
  PROVE  /\ Packet1(h) \in Packet
         /\ 1 \in DOMAIN inq[h]
         /\ Packet1(h) = inq[h][1]
BY HeadTailProperties DEF Queues, Packet1

(* Consuming the head shifts one queue and leaves the others alone. *)
LEMMA ConsumeQueues ==
  ASSUME inq \in Queues, NEW h \in Hosts, inq[h] # <<>>, Consume(h)
  PROVE  /\ inq' \in Queues
         /\ \A g \in Hosts : \A i \in DOMAIN inq'[g] : Kept(h, g, i)
<1>1. /\ Tail(inq[h]) \in Seq(Packet)
      /\ Len(Tail(inq[h])) = Len(inq[h]) - 1
      /\ \A i \in 1..Len(Tail(inq[h])) : Tail(inq[h])[i] = inq[h][i + 1]
  BY HeadTailProperties DEF Queues
<1>2. inq' = [inq EXCEPT ![h] = Tail(inq[h])]
  BY DEF Consume
<1>3. inq' \in Queues
  BY <1>1, <1>2 DEF Queues
<1>4. ASSUME NEW g \in Hosts, NEW i \in DOMAIN inq'[g]
      PROVE  Kept(h, g, i)
  <2>1. CASE g = h
    BY <2>1, <1>1, <1>2, <1>4 DEF Queues, Kept, Before
  <2>2. CASE g # h
    BY <2>2, <1>2, <1>4 DEF Queues, Kept, Before
  <2> QED  BY <2>1, <2>2
<1> QED  BY <1>3, <1>4

(* Sending appends one packet to one queue and leaves the rest alone. *)
LEMMA TransmitQueues ==
  ASSUME inq \in Queues, NEW t \in Hosts, NEW p \in Packet, Transmit(t, p)
  PROVE  /\ inq' \in Queues
         /\ \A g \in Hosts : \A i \in DOMAIN inq'[g] :
                Stayed(g, i) \/ New(t, p, g, i)
<1>1. /\ Append(inq[t], p) \in Seq(Packet)
      /\ Len(Append(inq[t], p)) = Len(inq[t]) + 1
      /\ \A i \in 1..Len(inq[t]) : Append(inq[t], p)[i] = inq[t][i]
      /\ Append(inq[t], p)[Len(inq[t]) + 1] = p
  BY AppendProperties DEF Queues
<1>2. inq' = [inq EXCEPT ![t] = Append(inq[t], p)]
  BY DEF Transmit
<1>3. inq' \in Queues
  BY <1>1, <1>2 DEF Queues
<1>4. ASSUME NEW g \in Hosts, NEW i \in DOMAIN inq'[g]
      PROVE  Stayed(g, i) \/ New(t, p, g, i)
  <2>1. CASE g = t
    <3>1. inq'[g] = Append(inq[t], p)
      BY <2>1, <1>2 DEF Queues
    <3>2. i \in 1..(Len(inq[t]) + 1)
      BY <3>1, <1>1, <1>4 DEF Queues
    <3>3. Len(inq[t]) \in Nat
      BY DEF Queues
    <3>4. CASE i = Len(inq[t]) + 1
      BY <3>4, <3>1, <2>1, <1>1 DEF New
    <3>5. CASE i # Len(inq[t]) + 1
      BY <3>1, <3>2, <3>3, <3>5, <2>1, <1>1 DEF Stayed, Queues
    <3> QED  BY <3>4, <3>5
  <2>2. CASE g # t
    BY <2>2, <1>2, <1>4 DEF Queues, Stayed
  <2> QED  BY <2>1, <2>2
<1> QED  BY <1>3, <1>4

(* Handling a packet and answering it in the same step does both. *)
LEMMA ReplyQueues ==
  ASSUME inq \in Queues, NEW h \in Hosts, inq[h] # <<>>,
         NEW t \in Hosts, NEW p \in Packet, Reply(h, t, p)
  PROVE  /\ inq' \in Queues
         /\ \A g \in Hosts : \A i \in DOMAIN inq'[g] :
                Kept(h, g, i) \/ New(t, p, g, i)
<1> DEFINE mid == [inq EXCEPT ![h] = Tail(inq[h])]
<1>1. /\ Tail(inq[h]) \in Seq(Packet)
      /\ Len(Tail(inq[h])) = Len(inq[h]) - 1
      /\ \A i \in 1..Len(Tail(inq[h])) : Tail(inq[h])[i] = inq[h][i + 1]
  BY HeadTailProperties DEF Queues
<1>2. mid \in Queues
  BY <1>1 DEF Queues
<1>3. ASSUME NEW g \in Hosts, NEW i \in DOMAIN mid[g]
      PROVE  /\ Before(h, g, i) \in DOMAIN inq[g]
             /\ mid[g][i] = inq[g][Before(h, g, i)]
  <2>1. CASE g = h
    BY <2>1, <1>1, <1>3 DEF Queues, Before
  <2>2. CASE g # h
    BY <2>2, <1>3 DEF Queues, Before
  <2> QED  BY <2>1, <2>2
<1>4. inq' = [mid EXCEPT ![t] = Append(mid[t], p)]
  BY DEF Reply, Queues
<1> HIDE DEF mid
<1>5. /\ Append(mid[t], p) \in Seq(Packet)
      /\ Len(Append(mid[t], p)) = Len(mid[t]) + 1
      /\ \A i \in 1..Len(mid[t]) : Append(mid[t], p)[i] = mid[t][i]
      /\ Append(mid[t], p)[Len(mid[t]) + 1] = p
  BY <1>2, AppendProperties DEF Queues
<1>6. inq' \in Queues
  BY <1>2, <1>4, <1>5 DEF Queues
<1>7. ASSUME NEW g \in Hosts, NEW i \in DOMAIN inq'[g]
      PROVE  Kept(h, g, i) \/ New(t, p, g, i)
  <2>1. CASE g = t
    <3>1. inq'[g] = Append(mid[t], p)
      BY <2>1, <1>2, <1>4 DEF Queues
    <3>2. i \in 1..(Len(mid[t]) + 1)
      BY <3>1, <1>5, <1>7, <1>6 DEF Queues
    <3>3. Len(mid[t]) \in Nat /\ DOMAIN mid[t] = 1..Len(mid[t])
      BY <1>2 DEF Queues
    <3>4. CASE i = Len(mid[t]) + 1
      BY <3>4, <3>1, <2>1, <1>5 DEF New
    <3>5. CASE i # Len(mid[t]) + 1
      <4>1. i \in DOMAIN mid[t] /\ inq'[g][i] = mid[t][i]
        BY <3>1, <3>2, <3>3, <3>5, <1>5
      <4> QED  BY <4>1, <2>1, <1>3 DEF Kept
    <3> QED  BY <3>4, <3>5
  <2>2. CASE g # t
    <3>1. inq'[g] = mid[g]
      BY <2>2, <1>2, <1>4 DEF Queues
    <3> QED  BY <3>1, <1>3, <1>7 DEF Kept
  <2> QED  BY <2>1, <2>2
<1> QED  BY <1>6, <1>7

-----------------------------------------------------------------------------
(* Types of messages and of control blocks. *)

(* What the constructors of messages and segments build are packets. *)
LEMMA PacketTypes ==
  ASSUME NEW p \in Packet
  PROVE  /\ p.client \in Clients
         /\ p.type \in {"SYN", "DATA"} => p \in Segment /\ p.seq \in Segs
         /\ p.type \in TcpMigTypes => p.src \in Hosts
         /\ p.type = "CONN_STATE" => p.cb \in CB
         /\ p.type = "SYN" => p.seq = 0
         /\ p.type \in {"SYN", "DATA"} \cup TcpMigTypes
BY BoundsAssumption DEF Segs, Packet, Segment, Control, State, TcpMigTypes

(* The fields of a packet, by its type. *)
LEMMA MessageTypes ==
  ASSUME NEW c \in Clients, NEW h \in Hosts
  PROVE  /\ Syn(c) \in Packet
         /\ \A n \in Segs : Data(c, n) \in Packet
         /\ Prepare(c, h) \in Packet
         /\ PrepareAck(c, h) \in Packet
         /\ \A cb \in CB : ConnState(c, h, cb) \in Packet
         /\ ConnStateAck(c, h) \in Packet
BY BoundsAssumption
   DEF Syn, Data, Prepare, PrepareAck, ConnState, ConnStateAck, Packet,
       Segment, Control, State, Segs

(* Receiving, replaying and serializing make control blocks of control     *)
(* blocks.                                                                 *)
LEMMA CBTypes ==
  ASSUME NEW cb \in CB
  PROVE  /\ \A n \in Segs : CbReceive(cb, n) \in CB
         /\ \A buf \in Seq(Segment) : CbReplay(cb, buf) \in CB
         /\ Serialized(cb) \in CB
         /\ \A b \in BOOLEAN : [cb EXCEPT !.tracked = b] \in CB
         /\ \A n \in cb.got : [cb EXCEPT !.read = n] \in CB
<1>1. ASSUME NEW buf \in Seq(Segment)
      PROVE  {buf[i].seq : i \in DOMAIN buf} \subseteq Segs
  <2>1. \A i \in DOMAIN buf : buf[i] \in Segment
    OBVIOUS
  <2>2. \A x \in Segment : x.seq \in Segs
    BY BoundsAssumption DEF Segment, Segs
  <2> QED  BY <2>1, <2>2
<1>2. \A buf \in Seq(Segment) : CbReplay(cb, buf) \in CB
  BY <1>1 DEF CbReplay, CB
<1> QED  BY <1>2 DEF CB, CbReceive, Serialized

(* What a step takes from a bound leaves a bound. *)
LEMMA BudgetTypes ==
  ASSUME NEW b \in Budget
  PROVE  /\ b.loss > 0 => [b EXCEPT !.loss = @ - 1] \in Budget
         /\ b.dup > 0 => [b EXCEPT !.dup = @ - 1] \in Budget
         /\ \A n \in {0, 1} :
                b.bounces >= n => [b EXCEPT !.bounces = @ - n] \in Budget
         /\ \A n \in {0, 1} :
                b.migrations > 0 /\ b.bounces >= n =>
                    [b EXCEPT !.migrations = @ - 1, !.bounces = @ - n] \in Budget
<1>1. /\ b.migrations \in 0..MaxMigrations /\ b.bounces \in 0..MaxBounces
      /\ b.loss \in 0..MaxLoss /\ b.dup \in 0..MaxDup
  BY DEF Budget
<1>2. /\ b.loss > 0 => b.loss - 1 \in 0..MaxLoss
      /\ b.dup > 0 => b.dup - 1 \in 0..MaxDup
      /\ b.migrations > 0 => b.migrations - 1 \in 0..MaxMigrations
      /\ \A n \in {0, 1} : b.bounces >= n => b.bounces - n \in 0..MaxBounces
  BY <1>1, BoundsAssumption
<1>3. b.loss > 0 => [b EXCEPT !.loss = b.loss - 1] \in Budget
  BY <1>2 DEF Budget
<1>4. b.dup > 0 => [b EXCEPT !.dup = b.dup - 1] \in Budget
  BY <1>2 DEF Budget
<1>5. ASSUME NEW n \in {0, 1}, b.bounces >= n
      PROVE  /\ [b EXCEPT !.bounces = b.bounces - n] \in Budget
             /\ b.migrations > 0 =>
                    [b EXCEPT !.migrations = b.migrations - 1,
                              !.bounces = b.bounces - n] \in Budget
  <2>1. b.bounces - n \in 0..MaxBounces
    BY <1>2, <1>5
  <2> DEFINE k == b.bounces - n
             m == b.migrations - 1
  <2>2. k \in 0..MaxBounces /\ (b.migrations > 0 => m \in 0..MaxMigrations)
    BY <2>1, <1>2
  <2> HIDE DEF k, m
  <2>3. /\ [b EXCEPT !.bounces = k] \in Budget
        /\ b.migrations > 0 =>
                [b EXCEPT !.migrations = m, !.bounces = k] \in Budget
    BY <2>2 DEF Budget
  <2> QED  BY <2>3 DEF k, m
<1> QED  BY <1>3, <1>4, <1>5

(* A new control block is a control block. *)
LEMMA NewCBType == NewCB \in CB
BY BoundsAssumption DEF NewCB, CB, Segs

-----------------------------------------------------------------------------
(* Every variable keeps its shape. *)

(* The tables start well formed. *)
LEMMA TypeInit ==
  ASSUME Init
  PROVE  TypeOK
<1>1. /\ 0 \in Segs
      /\ <<>> \in Seq(Packet)
      /\ <<>> \in Seq([client: Clients, cb: CB])
  BY BoundsAssumption, EmptySeq DEF Segs
<1>2. [migrations |-> MaxMigrations, bounces |-> MaxBounces,
       loss |-> MaxLoss, dup |-> MaxDup] \in Budget
  BY BoundsAssumption DEF Budget
<1> QED  BY <1>1, <1>2 DEF Init, TypeOK

(* The steps of a client keep the tables well formed. *)
LEMMA TypeClient ==
  ASSUME TypeOK, NEW c \in Clients, Client(c)
  PROVE  TypeOK'
<1> USE DEF TypeOK, Queues
<1>1. CASE ClientConnect(c)
  <2>1. inq' \in Queues
    BY <1>1, MessageTypes, TransmitQueues DEF ClientConnect
  <2>2. /\ conn' \in [Clients -> {"closed", "syn_sent", "open"}]
        /\ owner' \in [Clients -> Hosts]
    <3>1. conn \in [Clients -> {"closed", "syn_sent", "open"}]
      OBVIOUS
    <3>2. owner \in [Clients -> Hosts]
      OBVIOUS
    <3>3. PICK h \in Hosts : owner' = [owner EXCEPT ![c] = h]
      BY <1>1 DEF ClientConnect
    <3>4. conn' = [conn EXCEPT ![c] = "syn_sent"]
      BY <1>1 DEF ClientConnect
    <3> QED  BY <3>1, <3>2, <3>3, <3>4
  <2> QED  BY <1>1, <2>1, <2>2 DEF ClientConnect, listenVars, tableVars, appVars
<1>2. CASE ClientEstablish(c)
  <2>1. inq' \in Queues
    BY <1>2, MessageTypes, TransmitQueues, BoundsAssumption
       DEF ClientEstablish, Segs
  <2> QED  BY <1>2, <2>1 DEF ClientEstablish, listenVars, tableVars, appVars
<1>3. CASE ClientSend(c)
  <2>1. sent[c] + 1 \in Segs
    BY <1>3, BoundsAssumption DEF ClientSend, Segs
  <2>2. inq' \in Queues
    BY <1>3, <2>1, MessageTypes, TransmitQueues DEF ClientSend
  <2> QED  BY <1>3, <2>1, <2>2 DEF ClientSend, listenVars, tableVars, appVars
<1>4. CASE ClientRetransmit(c)
  <2>1. PICK n \in dropped[c] :
            /\ dropped' = [dropped EXCEPT ![c] = @ \ {n}]
            /\ Transmit(owner[c],
                    IF conn[c] = "syn_sent" THEN Syn(c) ELSE Data(c, n))
    BY <1>4 DEF ClientRetransmit
  <2>2. inq' \in Queues
    BY <2>1, MessageTypes, TransmitQueues
  <2>3. dropped' \in [Clients -> SUBSET Segs]
    BY <2>1
  <2> QED  BY <1>4, <2>2, <2>3 DEF ClientRetransmit, listenVars, tableVars, appVars
<1> QED  BY <1>1, <1>2, <1>3, <1>4 DEF Client

(* Losing and duplicating packets keep the tables well formed. *)
LEMMA TypeNetwork ==
  ASSUME TypeOK, NEW h \in Hosts, Lose(h) \/ Duplicate(h)
  PROVE  TypeOK'
<1> USE DEF TypeOK, Queues
<1>1. CASE Lose(h)
  <2>1. inq' \in Queues
    BY <1>1, ConsumeQueues DEF Lose
  <2>2. Packet1(h) \in Packet
    BY <1>1, HeadIsPacket DEF Lose
  <2>3. dropped' \in [Clients -> SUBSET Segs]
    BY <1>1, <2>2, PacketTypes DEF Lose
  <2>4. budget' \in Budget
    BY <1>1, BudgetTypes DEF Lose
  <2> QED  BY <1>1, <2>1, <2>3, <2>4 DEF Lose, listenVars, tableVars, appVars
<1>2. CASE Duplicate(h)
  <2>1. <<Head(inq[h])>> \o inq[h] \in Seq(Packet)
    BY <1>2, HeadTailProperties, ConcatProperties DEF Duplicate
  <2>2. inq' \in Queues
    BY <1>2, <2>1 DEF Duplicate
  <2>3. budget' \in Budget
    BY <1>2, BudgetTypes DEF Duplicate
  <2> QED
    BY <1>2, <2>2, <2>3
       DEF Duplicate, listenVars, tableVars, appVars, clientVars
<1> QED  BY <1>1, <1>2

(* The queue of connections to accept stays a sequence of them. *)
LEMMA ReadyTypes ==
  ASSUME TypeOK, NEW h \in Hosts, NEW c \in Clients, NEW cb \in CB
  PROVE  /\ [ready EXCEPT ![h] = Append(@, [client |-> c, cb |-> cb])]
                \in [Hosts -> Seq([client: Clients, cb: CB])]
         /\ ready[h] # <<>> =>
                /\ [ready EXCEPT ![h] = Tail(@)]
                        \in [Hosts -> Seq([client: Clients, cb: CB])]
                /\ Head(ready[h]).client \in Clients
                /\ Head(ready[h]).cb \in CB
<1> DEFINE Entry == [client: Clients, cb: CB]
<1>1. ready \in [Hosts -> Seq(Entry)] /\ [client |-> c, cb |-> cb] \in Entry
  BY DEF TypeOK
<1>2. \A e \in Entry : e.client \in Clients /\ e.cb \in CB
  OBVIOUS
<1> HIDE DEF Entry
<1>3. Append(ready[h], [client |-> c, cb |-> cb]) \in Seq(Entry)
  BY <1>1, AppendProperties
<1>4. ready[h] # <<>> => Tail(ready[h]) \in Seq(Entry) /\ Head(ready[h]) \in Entry
  BY <1>1, HeadTailProperties
<1>5. /\ [ready EXCEPT ![h] = Append(@, [client |-> c, cb |-> cb])]
            \in [Hosts -> Seq(Entry)]
      /\ ready[h] # <<>> =>
            [ready EXCEPT ![h] = Tail(@)] \in [Hosts -> Seq(Entry)]
  BY <1>1, <1>3, <1>4
<1> QED  BY <1>2, <1>4, <1>5 DEF Entry

(* Waking readers keeps the states of pop operations well formed. *)
LEMMA WakeTypes ==
  ASSUME TypeOK, NEW h \in Hosts, NEW c \in Clients, WakeReaders(h, c)
  PROVE  pop' \in [Hosts -> [QDs -> {"idle", "runnable", "asleep", "migrated"}]]
BY DEF TypeOK, WakeReaders

(* The fields of a migration entry. *)
LEMMA MigrationTypes ==
  ASSUME NEW m \in Migration
  PROVE  /\ m.qd \in QDs \cup {None} /\ m.buf \in Seq(Segment)
         /\ \A s \in Stages : [m EXCEPT !.stage = s] \in Migration
         /\ \A p \in Segment : [m EXCEPT !.buf = Append(@, p)] \in Migration
<1>1. m.qd \in QDs \cup {None} /\ m.buf \in Seq(Segment)
  BY DEF Migration
<1>2. \A p \in Segment : Append(m.buf, p) \in Seq(Segment)
  BY <1>1, AppendProperties
<1> QED  BY <1>1, <1>2 DEF Migration

(* The entries that PREPARE and the policy create are entries. *)
LEMMA NewMigrationTypes ==
  ASSUME NEW s \in Stages, NEW q \in QDs \cup {None}
  PROVE  [stage |-> s, qd |-> q, buf |-> <<>>] \in Migration
BY EmptySeq DEF Migration

(* Receiving a segment keeps the tables well formed. *)
LEMMA TypeSegment ==
  ASSUME TypeOK, NEW h \in Hosts,
         RxEstablished(h) \/ RxBuffered(h) \/ RxPassive(h)
  PROVE  TypeOK'
<1> DEFINE p == Packet1(h)
           c == p.client
<1>1. /\ inq \in Queues /\ inq[h] # <<>> /\ Consume(h)
      /\ p.type \in {"SYN", "DATA"}
  BY DEF TypeOK, Queues, RxEstablished, RxBuffered, RxPassive, Received
<1>2. inq' \in Queues
  BY <1>1, ConsumeQueues
<1>3. /\ p \in Packet /\ c \in Clients /\ p \in Segment /\ p.seq \in Segs
  BY <1>1, HeadIsPacket, PacketTypes
<1>4. CASE RxEstablished(h)
  <2>1. established[h][c] \in CB /\ established[h][c] # None
    BY <1>3, <1>4 DEF RxEstablished, TypeOK
  <2>2. CbReceive(established[h][c], p.seq) \in CB
    BY <1>3, <2>1, CBTypes
  <2>3. established' \in [Hosts -> [Clients -> CB \cup {None}]]
    BY <1>3, <1>4, <2>2 DEF RxEstablished, TypeOK
  <2>4. pop' \in [Hosts -> [QDs -> {"idle", "runnable", "asleep", "migrated"}]]
    BY <1>3, <1>4, WakeTypes DEF RxEstablished
  <2> QED
    BY <1>2, <1>4, <2>3, <2>4
       DEF RxEstablished, TypeOK, Queues, listenVars, clientVars
<1>5. CASE RxBuffered(h)
  <2>1. active[h][c] \in Migration
    BY <1>3, <1>5 DEF RxBuffered, Buffers, TypeOK
  <2>2. [active[h][c] EXCEPT !.buf = Append(@, p)] \in Migration
    BY <1>3, <2>1, MigrationTypes
  <2>3. active' = [active EXCEPT ![h][c] =
                        [active[h][c] EXCEPT !.buf = Append(@, p)]]
    BY <1>3, <1>5 DEF RxBuffered, TypeOK
  <2>4. active' \in [Hosts -> [Clients -> Migration \cup {None}]]
    BY <1>3, <2>2, <2>3 DEF TypeOK
  <2> QED
    BY <1>2, <1>5, <2>4
       DEF RxBuffered, TypeOK, Queues, listenVars, tableVars, appVars, clientVars
<1>6. CASE RxPassive(h)
  <2>1. \/ /\ inflight' = [inflight EXCEPT ![h] = @ \ {c}]
           /\ ready' = [ready EXCEPT ![h] =
                            Append(@, [client |-> c, cb |-> NewCB])]
           /\ dropped' = [dropped EXCEPT ![c] = @ \cup ({p.seq} \ {0})]
        \/ /\ inflight' = [inflight EXCEPT ![h] = @ \cup {c}]
           /\ UNCHANGED <<ready, dropped>>
        \/ /\ dropped' = [dropped EXCEPT ![c] = @ \cup {p.seq}]
           /\ UNCHANGED <<inflight, ready>>
    BY <1>6, Zenon DEF RxPassive, listenVars
  <2> HIDE DEF p, c
  <2>a. /\ inflight \in [Hosts -> SUBSET Clients]
        /\ dropped \in [Clients -> SUBSET Segs]
        /\ ready \in [Hosts -> Seq([client: Clients, cb: CB])]
    BY DEF TypeOK
  <2>2. ready' \in [Hosts -> Seq([client: Clients, cb: CB])]
    <3>1. [ready EXCEPT ![h] = Append(@, [client |-> c, cb |-> NewCB])]
                \in [Hosts -> Seq([client: Clients, cb: CB])]
      BY <1>3, ReadyTypes, NewCBType
    <3> QED  BY <2>1, <2>a, <3>1
  <2>3. inflight' \in [Hosts -> SUBSET Clients]
    BY <1>3, <2>1, <2>a
  <2>4. dropped' \in [Clients -> SUBSET Segs]
    <3>1. dropped[c] \cup ({p.seq} \ {0}) \in SUBSET Segs
      BY <1>3, <2>a
    <3>2. dropped[c] \cup {p.seq} \in SUBSET Segs
      BY <1>3, <2>a
    <3> QED  BY <1>3, <2>1, <2>a, <3>1, <3>2
  <2> QED
    BY <1>2, <1>6, <2>2, <2>3, <2>4
       DEF RxPassive, TypeOK, Queues, tableVars, appVars
<1> QED  BY <1>4, <1>5, <1>6

(* Starting a migration keeps the tables well formed. *)
LEMMA TypeInitiate ==
  ASSUME TypeOK, NEW h \in Hosts, NEW c \in Clients, InitiateMigration(h, c)
  PROVE  TypeOK'
<1>1. established[h][c] \in CB /\ qds[h][c] \in QDs
  BY DEF InitiateMigration, TypeOK
<1>2. [established[h][c] EXCEPT !.tracked = FALSE] \in CB
  BY <1>1, CBTypes
<1>3. established' = [established EXCEPT ![h][c] =
                          [established[h][c] EXCEPT !.tracked = FALSE]]
  BY DEF InitiateMigration, TypeOK
<1>4. established' \in [Hosts -> [Clients -> CB \cup {None}]]
  BY <1>2, <1>3 DEF TypeOK
<1>5. [stage |-> "Prepare", qd |-> qds[h][c], buf |-> <<>>] \in Migration
  BY <1>1, NewMigrationTypes DEF Stages
<1>6. active' \in [Hosts -> [Clients -> Migration \cup {None}]]
  BY <1>5 DEF InitiateMigration, TypeOK
<1>7. PICK t \in Hosts :
        /\ budget.bounces >= Bounces(h, t)
        /\ budget' = [budget EXCEPT !.migrations = @ - 1,
                                    !.bounces = @ - Bounces(h, t)]
        /\ Transmit(t, Prepare(c, h))
  BY DEF InitiateMigration
<1>8. inq' \in Queues
  BY <1>7, MessageTypes, TransmitQueues DEF TypeOK, Queues
<1>9. budget' \in Budget
  <2>1. budget \in Budget /\ budget.migrations > 0 /\ Bounces(h, t) \in {0, 1}
    BY DEF InitiateMigration, TypeOK, Bounces
  <2> QED  BY <1>7, <2>1, BudgetTypes
<1> QED
  BY <1>4, <1>6, <1>8, <1>9
     DEF InitiateMigration, TypeOK, Queues, listenVars, appVars, clientVars

(* Receiving a migration message keeps the tables well formed. *)
LEMMA TypeMessage ==
  ASSUME TypeOK, NEW h \in Hosts,
         \/ RxPrepare(h) \/ RxReturned(h) \/ RxPrepareAck(h)
         \/ RxConnState(h) \/ RxConnStateAck(h) \/ RxUnexpected(h)
  PROVE  TypeOK'
<1> DEFINE p == Packet1(h)
           c == p.client
<1>1. inq \in Queues /\ inq[h] # <<>> /\ p.type \in TcpMigTypes
  BY DEF TypeOK, Queues, RxPrepare, RxReturned, RxPrepareAck, RxConnState,
         RxConnStateAck, RxUnexpected, Received, TcpMigTypes
<1>2. /\ p \in Packet /\ c \in Clients /\ p.src \in Hosts
      /\ p.type = "CONN_STATE" => p.cb \in CB
  BY <1>1, HeadIsPacket, PacketTypes
<1>3. CASE RxPrepare(h)
  <2>1. inq' \in Queues
    BY <1>1, <1>2, <1>3, MessageTypes, ReplyQueues DEF RxPrepare
  <2>2. [stage |-> "PrepareAck", qd |-> None, buf |-> <<>>] \in Migration
    BY NewMigrationTypes DEF Stages
  <2>3. active' \in [Hosts -> [Clients -> Migration \cup {None}]]
    BY <1>2, <1>3, <2>2 DEF RxPrepare, TypeOK
  <2>4. owner' \in [Clients -> Hosts]
    BY <1>2, <1>3 DEF RxPrepare, TypeOK
  <2> QED
    BY <1>3, <2>1, <2>3, <2>4
       DEF RxPrepare, TypeOK, Queues, listenVars, tableVars, appVars
<1>4. CASE RxReturned(h)
  <2>1. established[h][c] \in CB /\ qds[h][c] \in QDs
    BY <1>2, <1>4 DEF RxReturned, TypeOK
  <2>2. [established[h][c] EXCEPT !.tracked = FALSE] \in CB
    BY <2>1, CBTypes
  <2>3. established' = [established EXCEPT ![h][c] =
                            [established[h][c] EXCEPT !.tracked = FALSE]]
    BY <1>2, <1>4 DEF RxReturned, TypeOK
  <2>4. established' \in [Hosts -> [Clients -> CB \cup {None}]]
    BY <1>2, <2>2, <2>3 DEF TypeOK
  <2>5. [stage |-> "Prepare", qd |-> qds[h][c], buf |-> <<>>] \in Migration
    BY <2>1, NewMigrationTypes DEF Stages
  <2>6. active' \in [Hosts -> [Clients -> Migration \cup {None}]]
    BY <1>2, <1>4, <2>5 DEF RxReturned, TypeOK
  <2>7. PICK t \in Hosts :
            /\ budget.bounces >= Bounces(h, t)
            /\ budget' = [budget EXCEPT !.bounces = @ - Bounces(h, t)]
            /\ Reply(h, t, Prepare(c, h))
    BY <1>4 DEF RxReturned
  <2>8. inq' \in Queues
    BY <1>1, <1>2, <2>7, MessageTypes, ReplyQueues
  <2>9. budget' \in Budget
    <3>1. budget \in Budget /\ Bounces(h, t) \in {0, 1}
      BY DEF TypeOK, Bounces
    <3> QED  BY <2>7, <3>1, BudgetTypes
  <2> QED
    BY <1>4, <2>4, <2>6, <2>8, <2>9
       DEF RxReturned, TypeOK, Queues, listenVars, appVars, clientVars
<1>5. CASE RxPrepareAck(h)
  <2> DEFINE q == active[h][c].qd
             d == MigrateOutConn(h, p)
  <2>1. /\ active[h][c] \in Migration /\ q \in QDs
        /\ sockets[h][q] \in Socket
    <3>1. active[h][c] \in Migration
      BY <1>2, <1>5 DEF RxPrepareAck, TypeOK
    <3>2. q \in QDs
      BY <3>1, <1>5, MigrationTypes DEF RxPrepareAck, CanMigrateOut
    <3>3. sockets[h][q] # None
      BY <1>5 DEF RxPrepareAck, CanMigrateOut
    <3> QED  BY <3>1, <3>2, <3>3 DEF TypeOK
  <2>2. d \in Clients
    BY <2>1 DEF MigrateOutConn, Socket
  <2>3. /\ MigrateOut(h, q, d)
        /\ active[h][d] # None /\ established[h][d] # None
        /\ active' = [active EXCEPT ![h][d].stage = "ConnState"]
    BY <1>5 DEF RxPrepareAck, CanMigrateOut
  <2>4. active[h][d] \in Migration /\ established[h][d] \in CB
    BY <2>2, <2>3 DEF TypeOK
  <2>5. PICK t \in Hosts :
            Reply(h, t, ConnState(d, h, Serialized(established[h][d])))
    BY <1>2, <1>5 DEF RxPrepareAck
  <2>6. inq' \in Queues
    <3>1. ConnState(d, h, Serialized(established[h][d])) \in Packet
      BY <2>2, <2>4, CBTypes, MessageTypes
    <3> QED  BY <1>1, <2>5, <3>1, ReplyQueues
  <2> HIDE DEF d, q
  <2>7. active' \in [Hosts -> [Clients -> Migration \cup {None}]]
    <3>1. [active[h][d] EXCEPT !.stage = "ConnState"] \in Migration
      BY <2>4, MigrationTypes DEF Stages
    <3>2. active \in [Hosts -> [Clients -> Migration \cup {None}]]
      BY DEF TypeOK
    <3>3. active' = [active EXCEPT ![h][d] =
                        [active[h][d] EXCEPT !.stage = "ConnState"]]
      BY <2>2, <2>3, <3>2
    <3> QED  BY <2>2, <3>1, <3>2, <3>3
  <2>8. sockets' \in [Hosts -> [QDs -> Socket \cup {None}]]
    <3>1. [sockets[h][q] EXCEPT !.tag = "MigratedOut"] \in Socket
      BY <2>1 DEF Socket
    <3>2. sockets \in [Hosts -> [QDs -> Socket \cup {None}]]
      BY DEF TypeOK
    <3>3. sockets' = [sockets EXCEPT ![h][q] =
                        [sockets[h][q] EXCEPT !.tag = "MigratedOut"]]
      BY <2>1, <2>3, <3>2 DEF MigrateOut
    <3> QED  BY <2>1, <3>1, <3>2, <3>3
  <2>9. /\ qds' \in [Hosts -> [Clients -> QDs \cup {None}]]
        /\ established' \in [Hosts -> [Clients -> CB \cup {None}]]
    BY <2>2, <2>3 DEF MigrateOut, TypeOK
  <2>10. pop' \in [Hosts ->
                        [QDs -> {"idle", "runnable", "asleep", "migrated"}]]
    BY <2>2, <2>3, WakeTypes DEF MigrateOut
  <2> QED
    BY <1>5, <2>6, <2>7, <2>8, <2>9, <2>10
       DEF RxPrepareAck, TypeOK, Queues, listenVars, clientVars
<1>6. CASE RxConnState(h)
  <2>1. inq' \in Queues
    BY <1>1, <1>2, <1>6, MessageTypes, ReplyQueues DEF RxConnState
  <2>2. active[h][c] \in Migration
    BY <1>2, <1>6 DEF RxConnState, TypeOK
  <2>3. [active[h][c] EXCEPT !.stage = "ConnStateAck"] \in Migration
    BY <2>2, MigrationTypes DEF Stages
  <2>4. active' = [active EXCEPT ![h][c] =
                        [active[h][c] EXCEPT !.stage = "ConnStateAck"]]
    BY <1>2, <1>6 DEF RxConnState, TypeOK
  <2>5. active' \in [Hosts -> [Clients -> Migration \cup {None}]]
    BY <1>2, <2>3, <2>4 DEF TypeOK
  <2>6. ready' \in [Hosts -> Seq([client: Clients, cb: CB])]
    BY <1>2, <1>6, ReadyTypes DEF RxConnState
  <2> QED
    BY <1>6, <2>1, <2>5, <2>6
       DEF RxConnState, TypeOK, Queues, tableVars, appVars, clientVars
<1>7. CASE RxConnStateAck(h)
  <2>1. inq' \in Queues
    BY <1>1, <1>7, ConsumeQueues DEF RxConnStateAck
  <2>2. active' \in [Hosts -> [Clients -> Migration \cup {None}]]
    BY <1>2, <1>7 DEF RxConnStateAck, CloseMigration, TypeOK
  <2>3. active[h][c].buf \in Seq(Segment)
    BY <1>2, <1>7, MigrationTypes DEF RxConnStateAck, TypeOK
  <2>4. {active[h][c].buf[i].seq : i \in DOMAIN active[h][c].buf} \subseteq Segs
    <3>1. \A i \in DOMAIN active[h][c].buf : active[h][c].buf[i] \in Segment
      BY <2>3
    <3>2. \A x \in Segment : x.seq \in Segs
      BY BoundsAssumption DEF Segment, Segs
    <3> QED  BY <3>1, <3>2
  <2>5. dropped' \in [Clients -> SUBSET Segs]
    BY <1>2, <1>7, <2>4 DEF RxConnStateAck, TypeOK
  <2> QED
    BY <1>7, <2>1, <2>2, <2>5
       DEF RxConnStateAck, TypeOK, Queues, listenVars, tableVars, appVars
<1>8. CASE RxUnexpected(h)
  <2>1. inq' \in Queues
    BY <1>1, <1>8, ConsumeQueues DEF RxUnexpected
  <2> QED
    BY <1>8, <2>1
       DEF RxUnexpected, TypeOK, Queues, listenVars, tableVars, appVars,
           clientVars
<1> QED  BY <1>3, <1>4, <1>5, <1>6, <1>7, <1>8

(* accept() and its coroutine keep the tables well formed. *)
LEMMA TypeAccept ==
  ASSUME TypeOK, NEW h \in Hosts, Accept(h) \/ PollAccept(h)
  PROVE  TypeOK'
<1> USE DEF listenVars, clientVars
<1>1. CASE Accept(h)
  <2>1. PICK q \in freeQds[h] :
            /\ acceptQd' = [acceptQd EXCEPT ![h] = q]
            /\ freeQds' = [freeQds EXCEPT ![h] = @ \ {q}]
    BY <1>1 DEF Accept
  <2>2. /\ acceptQd' \in [Hosts -> QDs \cup {None}]
        /\ freeQds' \in [Hosts -> SUBSET QDs]
    <3>1. /\ acceptQd \in [Hosts -> QDs \cup {None}]
          /\ freeQds \in [Hosts -> SUBSET QDs]
      BY DEF TypeOK
    <3> QED  BY <2>1, <3>1
  <2> QED  BY <1>1, <2>2 DEF Accept, TypeOK, tableVars
<1>2. CASE PollAccept(h)
  <2> DEFINE c   == Head(ready[h]).client
             cb  == Head(ready[h]).cb
             buf == IF active[h][c] = None THEN <<>> ELSE active[h][c].buf
             new == [CbReplay(cb, buf) EXCEPT !.tracked = TRUE]
  <2>1. /\ ready[h] # <<>> /\ acceptQd[h] \in QDs
    BY <1>2 DEF PollAccept, Acceptor, TypeOK
  <2>2. /\ c \in Clients /\ cb \in CB
        /\ ready' \in [Hosts -> Seq([client: Clients, cb: CB])]
    <3>1. \E d \in Clients, b \in CB : TRUE
      <4>1. ready[h] \in Seq([client: Clients, cb: CB])
        BY DEF TypeOK
      <4>2. Head(ready[h]) \in [client: Clients, cb: CB]
        BY <2>1, <4>1, HeadTailProperties
      <4> QED  BY <4>2
    <3>2. PICK d \in Clients, b \in CB : TRUE
      BY <3>1
    <3> QED  BY <1>2, <2>1, <3>2, ReadyTypes DEF PollAccept
  <2>3. buf \in Seq(Segment)
    BY <2>2, MigrationTypes, EmptySeq DEF TypeOK
  <2>4. new \in CB
    <3>1. CbReplay(cb, buf) \in CB
      BY <2>2, <2>3, CBTypes
    <3> QED  BY <3>1, CBTypes
  <2>5. /\ established' = [established EXCEPT ![h][c] = new]
        /\ active' = [active EXCEPT ![h][c] = None]
        /\ sockets' = [sockets EXCEPT ![h][acceptQd[h]] =
                            [tag |-> "Established", client |-> c]]
        /\ qds' = [qds EXCEPT ![h][c] = acceptQd[h]]
        /\ acceptQd' = [acceptQd EXCEPT ![h] = None]
    BY <1>2 DEF PollAccept, CloseMigration
  <2> HIDE DEF c, cb, buf, new
  <2>6. /\ established' \in [Hosts -> [Clients -> CB \cup {None}]]
        /\ active' \in [Hosts -> [Clients -> Migration \cup {None}]]
    BY <2>2, <2>4, <2>5 DEF TypeOK
  <2>7. /\ qds' \in [Hosts -> [Clients -> QDs \cup {None}]]
        /\ acceptQd' \in [Hosts -> QDs \cup {None}]
    BY <2>1, <2>2, <2>5 DEF TypeOK
  <2>8. sockets' \in [Hosts -> [QDs -> Socket \cup {None}]]
    <3>1. [tag |-> "Established", client |-> c] \in Socket
      BY <2>2 DEF Socket
    <3> QED  BY <2>1, <2>5, <3>1 DEF TypeOK
  <2> QED  BY <1>2, <2>2, <2>6, <2>7, <2>8 DEF PollAccept, TypeOK
<1> QED  BY <1>1, <1>2

(* pop() and close() keep the tables well formed. *)
LEMMA TypeApplication ==
  ASSUME TypeOK, NEW h \in Hosts, NEW q \in QDs,
         \/ Pop(h, q) \/ PollRecv(h, q) \/ PollMigratedOut(h, q) \/ Close(h, q)
  PROVE  TypeOK'
<1> USE DEF listenVars, clientVars
<1>1. CASE Pop(h, q)
  BY <1>1 DEF Pop, TypeOK, tableVars
<1>2. CASE PollRecv(h, q)
  <2> DEFINE c  == sockets[h][q].client
             cb == established[h][c]
             next == cb.read + 1
  <2>1. c \in Clients
    <3>1. sockets \in [Hosts -> [QDs -> Socket \cup {None}]]
      BY DEF TypeOK
    <3>2. sockets[h][q] # None
      BY <1>2 DEF PollRecv
    <3>3. sockets[h][q] \in Socket
      BY <3>1, <3>2
    <3> QED  BY <3>3 DEF Socket
  <2>2. cb \in CB
    <3>1. established \in [Hosts -> [Clients -> CB \cup {None}]]
      BY DEF TypeOK
    <3>2. cb # None
      BY <1>2 DEF PollRecv
    <3> QED  BY <2>1, <3>1, <3>2
  <2>3. \/ /\ next \in cb.got
           /\ pop' = [pop EXCEPT ![h][q] = "idle"]
           /\ established' = [established EXCEPT ![h][c].read = next]
           /\ delivered' = [delivered EXCEPT ![c] = @ + 1]
        \/ /\ pop' = [pop EXCEPT ![h][q] = "asleep"]
           /\ UNCHANGED <<established, delivered>>
    BY <1>2, Zenon DEF PollRecv
  <2>4. pop' \in [Hosts -> [QDs -> {"idle", "runnable", "asleep", "migrated"}]]
    <3>1. pop \in [Hosts -> [QDs -> {"idle", "runnable", "asleep", "migrated"}]]
      BY DEF TypeOK
    <3> HIDE DEF c, cb, next
    <3>2. \/ pop' = [pop EXCEPT ![h][q] = "idle"]
          \/ pop' = [pop EXCEPT ![h][q] = "asleep"]
      BY <2>3
    <3>3. CASE pop' = [pop EXCEPT ![h][q] = "idle"]
      BY <3>1, <3>3
    <3>4. CASE pop' = [pop EXCEPT ![h][q] = "asleep"]
      BY <3>1, <3>4
    <3> QED  BY <3>2, <3>3, <3>4
  <2>5. delivered' \in [Clients -> Nat]
    <3>1. delivered \in [Clients -> Nat]
      BY DEF TypeOK
    <3> QED  BY <2>1, <2>3, <3>1
  <2>6. established' \in [Hosts -> [Clients -> CB \cup {None}]]
    <3>1. next \in cb.got => [cb EXCEPT !.read = next] \in CB
      BY <2>2, CBTypes
    <3>2. established \in [Hosts -> [Clients -> CB \cup {None}]]
      BY DEF TypeOK
    <3> QED  BY <2>1, <2>3, <3>1, <3>2
  <2> QED  BY <1>2, <2>4, <2>5, <2>6 DEF PollRecv, TypeOK
<1>3. CASE PollMigratedOut(h, q)
  BY <1>3 DEF PollMigratedOut, TypeOK, tableVars
<1>4. CASE Close(h, q)
  <2>1. sockets' \in [Hosts -> [QDs -> Socket \cup {None}]]
    <3>1. sockets \in [Hosts -> [QDs -> Socket \cup {None}]]
      BY DEF TypeOK
    <3> QED  BY <1>4, <3>1 DEF Close
  <2>2. freeQds' \in [Hosts -> SUBSET QDs]
    <3>1. freeQds \in [Hosts -> SUBSET QDs]
      BY DEF TypeOK
    <3> QED  BY <1>4, <3>1 DEF Close
  <2>3. pop' \in [Hosts -> [QDs -> {"idle", "runnable", "asleep", "migrated"}]]
    <3>1. pop \in [Hosts -> [QDs -> {"idle", "runnable", "asleep", "migrated"}]]
      BY DEF TypeOK
    <3> QED  BY <1>4, <3>1 DEF Close
  <2> QED  BY <1>4, <2>1, <2>2, <2>3 DEF Close, TypeOK
<1> QED  BY <1>1, <1>2, <1>3, <1>4

(* An aborting host leaves the tables as they are. *)
LEMMA TypeAbort ==
  ASSUME TypeOK, NEW h \in Hosts, Abort(h)
  PROVE  TypeOK'
<1>1. RxPanics(h) \cup AcceptPanics(h) \cup PolicyPanics(h) \subseteq Reasons
  BY DEF RxPanics, AcceptPanics, PolicyPanics, Reason, Reasons
<1>2. panicked' \in [Hosts -> Reasons \cup {None}]
  BY <1>1 DEF Abort, TypeOK
<1> QED  BY <1>2 DEF Abort, TypeOK, listenVars, tableVars, appVars, clientVars

(* Every step keeps the tables well formed. *)
LEMMA TypeStep ==
  ASSUME TypeOK, [Next]_vars
  PROVE  TypeOK'
<1>1. CASE UNCHANGED vars
  BY <1>1 DEF vars, TypeOK, listenVars, tableVars, appVars, clientVars
<1>2. CASE Next
  <2>1. ASSUME NEW c \in Clients, Client(c) PROVE TypeOK'
    BY <2>1, TypeClient
  <2>2. ASSUME NEW h \in Hosts, Receive(h) PROVE TypeOK'
    BY <2>2, TypeSegment, TypeMessage DEF Receive
  <2>3. ASSUME NEW h \in Hosts, Accept(h) \/ PollAccept(h) PROVE TypeOK'
    BY <2>3, TypeAccept
  <2>4. ASSUME NEW h \in Hosts, Abort(h) PROVE TypeOK'
    BY <2>4, TypeAbort
  <2>5. ASSUME NEW h \in Hosts, Lose(h) \/ Duplicate(h) PROVE TypeOK'
    BY <2>5, TypeNetwork
  <2>6. ASSUME NEW h \in Hosts, NEW c \in Clients, InitiateMigration(h, c)
        PROVE  TypeOK'
    BY <2>6, TypeInitiate
  <2>7. ASSUME NEW h \in Hosts, NEW q \in QDs,
               \/ Pop(h, q) \/ PollRecv(h, q)
               \/ PollMigratedOut(h, q) \/ Close(h, q)
        PROVE  TypeOK'
    BY <2>7, TypeApplication
  <2> QED  BY <1>2, <2>1, <2>2, <2>3, <2>4, <2>5, <2>6, <2>7 DEF Next
<1> QED  BY <1>1, <1>2

(* The tables of every host, the queues and the bookkeeping of the clients *)
(* keep their shape whatever the hosts, the network and the application do.*)
THEOREM TypeCorrect == Spec => []TypeOK
BY TypeInit, TypeStep, PTL DEF Spec

-----------------------------------------------------------------------------
(* A connection has a single owner. *)

(* The inductive invariant says what SingleOwner needs: two places that    *)
(* hold a connection are one place (migrate_out_connection removes it from *)
(* the tables in the step that serializes it).                             *)
THEOREM OwnerInvImpliesSingleOwner ==
  ASSUME OwnerInv
  PROVE  SingleOwner
<1> USE DEF SingleOwner
<1> TAKE c \in Clients, g, h \in Hosts
<1> HIDE DEF SingleOwner
<1>1. /\ \A f \in Hosts : DOMAIN ready[f] \subseteq Nat
      /\ \A f \in Hosts : DOMAIN inq[f] \subseteq Nat
  <2> SUFFICES ASSUME NEW f \in Hosts
               PROVE  DOMAIN ready[f] \subseteq Nat /\ DOMAIN inq[f] \subseteq Nat
    OBVIOUS
  <2>1. ready[f] \in Seq([client: Clients, cb: CB]) /\ inq[f] \in Seq(Packet)
    BY DEF OwnerInv, TypeOK
  <2>2. DOMAIN ready[f] = 1..Len(ready[f]) /\ DOMAIN inq[f] = 1..Len(inq[f])
    BY <2>1
  <2> QED  BY <2>1, <2>2
<1>2. \A k, l \in Kinds, f, e \in Hosts, i, j \in Nat :
        Holds(c, k, f, i) /\ Holds(c, l, e, j) => k = l /\ f = e /\ i = j
  BY DEF OwnerInv, OneHolder
<1>3. \A f \in Hosts : InTable(c, f) => Holds(c, "table", f, 0)
  BY DEF InTable, Holds
<1>4. \A f \in Hosts, i \in Nat :
        /\ InReady(c, f, i) => Holds(c, "ready", f, i)
        /\ InNet(c, f, i) => Holds(c, "net", f, i)
  BY DEF InReady, InNet, Holds, Carries
<1>5. {"table", "ready", "net"} \subseteq Kinds
  BY DEF Kinds
<1>6. InTable(c, g) /\ InTable(c, h) => g = h
  BY <1>2, <1>3, <1>5
<1>7. ASSUME NEW i \in DOMAIN ready[g], InReady(c, g, i)
      PROVE  /\ ~InTable(c, h)
             /\ \A j \in DOMAIN ready[h] : InReady(c, h, j) => g = h /\ i = j
             /\ \A j \in DOMAIN inq[h] : ~InNet(c, h, j)
  BY <1>1, <1>2, <1>3, <1>4, <1>5, <1>7
<1>8. ASSUME NEW i \in DOMAIN inq[g], InNet(c, g, i)
      PROVE  /\ ~InTable(c, h)
             /\ \A j \in DOMAIN inq[h] : InNet(c, h, j) => g = h /\ i = j
  BY <1>1, <1>2, <1>3, <1>4, <1>5, <1>8
<1> QED  BY <1>6, <1>7, <1>8

(* Nothing holds a connection before its client connects. *)
LEMMA OwnerInit ==
  ASSUME Init
  PROVE  OwnerInv
<1>1. TypeOK
  BY TypeInit
<1>2. /\ \A h \in Hosts : /\ inq[h] = <<>> /\ ready[h] = <<>> /\ inflight[h] = {}
                          /\ \A c \in Clients : /\ established[h][c] = None
                                                /\ active[h][c] = None
      /\ \A c \in Clients : conn[c] = "closed" /\ dropped[c] = {}
  BY DEF Init
<1>3. /\ \A h \in Hosts : Packets(h) = {}
      /\ \A c \in Clients : NoHolder(c)
  BY <1>2 DEF Packets, NoHolder, Holds
<1>4. Phases
  BY <1>2, <1>3 DEF Phases, Closed, NotOpen, Open
<1>5. OneHolder /\ LostAlone
  BY <1>3 DEF OneHolder, LostAlone, NoHolder
<1> QED  BY <1>1, <1>4, <1>5 DEF OwnerInv

(* A step that makes no new holder keeps OneHolder. *)
LEMMA HoldersKept ==
  ASSUME OneHolder, NEW from, NEW h, Keeps(from, h)
  PROVE  OneHolder'
<1> SUFFICES ASSUME NEW c \in Clients, NEW k \in Kinds, NEW l \in Kinds,
                    NEW g \in Hosts, NEW f \in Hosts,
                    NEW i \in Nat, NEW j \in Nat,
                    Holds(c, k, g, i)', Holds(c, l, f, j)'
             PROVE  k = l /\ g = f /\ i = j
  BY DEF OneHolder
<1>1. /\ Holds(c, k, g, Was(from, h, k, g, i))
      /\ Holds(c, l, f, Was(from, h, l, f, j))
  BY DEF Keeps
<1>2. Was(from, h, k, g, i) \in Nat /\ Was(from, h, l, f, j) \in Nat
  BY DEF Was
<1>3. k = l /\ g = f /\ Was(from, h, k, g, i) = Was(from, h, l, f, j)
  BY <1>1, <1>2 DEF OneHolder
<1> QED  BY <1>3 DEF Was

(* A step that replaces the one holder by another keeps OneHolder. *)
LEMMA HolderMoves ==
  ASSUME OneHolder, NEW from, NEW h,
         NEW d \in Clients, NEW to, NEW t, NEW n, Moves(from, h, d, to, t, n)
  PROVE  OneHolder'
<1> SUFFICES ASSUME NEW c \in Clients, NEW k \in Kinds, NEW l \in Kinds,
                    NEW g \in Hosts, NEW f \in Hosts,
                    NEW i \in Nat, NEW j \in Nat,
                    Holds(c, k, g, i)', Holds(c, l, f, j)'
             PROVE  k = l /\ g = f /\ i = j
  BY DEF OneHolder
<1>1. CASE c = d
  BY <1>1 DEF Moves
<1>2. CASE c # d
  <2>1. /\ Holds(c, k, g, Was(from, h, k, g, i))
        /\ Holds(c, l, f, Was(from, h, l, f, j))
    BY <1>2 DEF Moves
  <2>2. Was(from, h, k, g, i) \in Nat /\ Was(from, h, l, f, j) \in Nat
    BY DEF Was
  <2>3. k = l /\ g = f /\ Was(from, h, k, g, i) = Was(from, h, l, f, j)
    BY <2>1, <2>2 DEF OneHolder
  <2> QED  BY <2>3 DEF Was
<1> QED  BY <1>1, <1>2

(* Holders and packets on the network after a packet was handled or sent. *)
LEMMA NetConsume ==
  ASSUME TypeOK, NEW h \in Hosts, inq[h] # <<>>, Consume(h)
  PROVE  /\ \A c \in Clients, g \in Hosts, i \in Nat :
                Holds(c, "net", g, i)' =>
                    i > 0 /\ Holds(c, "net", g, Was("net", h, "net", g, i))
         /\ \A g \in Hosts : Packets(g)' \subseteq Packets(g)
<1>1. /\ inq' \in Queues
      /\ \A g \in Hosts : \A i \in DOMAIN inq'[g] : Kept(h, g, i)
  BY ConsumeQueues DEF TypeOK, Queues
<1>2. \A g \in Hosts : \A i \in DOMAIN inq'[g] : i > 0
  BY <1>1 DEF Queues
<1> QED  BY <1>1, <1>2 DEF Holds, Was, Kept, Before, Packets

(* What holds a connection in the queues after a message was answered. *)
LEMMA NetReply ==
  ASSUME TypeOK, NEW h \in Hosts, inq[h] # <<>>,
         NEW t \in Hosts, NEW p \in Packet, Reply(h, t, p)
  PROVE  /\ \A c \in Clients, g \in Hosts, i \in Nat :
                Holds(c, "net", g, i)' =>
                    \/ i > 0 /\ Holds(c, "net", g, Was("net", h, "net", g, i))
                    \/ Carries(p, c) /\ g = t /\ i = Len(inq'[t])
         /\ \A g \in Hosts : Packets(g)' \subseteq Packets(g) \cup {p}
<1>1. /\ inq' \in Queues
      /\ \A g \in Hosts : \A i \in DOMAIN inq'[g] :
            Kept(h, g, i) \/ New(t, p, g, i)
  BY ReplyQueues DEF TypeOK, Queues
<1>2. \A g \in Hosts : \A i \in DOMAIN inq'[g] : i > 0
  BY <1>1 DEF Queues
<1> QED  BY <1>1, <1>2 DEF Holds, Was, Kept, Before, New, Packets

(* What holds a connection in the queues after a packet was sent. *)
LEMMA NetSend ==
  ASSUME TypeOK, NEW t \in Hosts, NEW p \in Packet, Transmit(t, p)
  PROVE  /\ \A c \in Clients, g \in Hosts, i \in Nat :
                Holds(c, "net", g, i)' =>
                    \/ Holds(c, "net", g, i)
                    \/ Carries(p, c) /\ g = t /\ i = Len(inq'[t])
         /\ \A g \in Hosts : Packets(g)' \subseteq Packets(g) \cup {p}
<1>1. \A g \in Hosts : \A i \in DOMAIN inq'[g] :
            Stayed(g, i) \/ New(t, p, g, i)
  BY TransmitQueues DEF TypeOK, Queues
<1> QED  BY <1>1 DEF Holds, Stayed, New, Packets

(* The tables, when no entry is added to them. *)
LEMMA TablesKept ==
  ASSUME \A g \in Hosts : inflight'[g] \subseteq inflight[g],
         ready' = ready,
         \A g \in Hosts, c \in Clients :
            established'[g][c] # None => established[g][c] # None
  PROVE  \A c \in Clients, k \in Kinds \ {"net"}, g \in Hosts, i \in Nat :
            Holds(c, k, g, i)' => Holds(c, k, g, i)
BY DEF Holds, Kinds

(* A step that makes no holder keeps LostAlone. *)
LEMMA LostKept ==
  ASSUME LostAlone, NEW from, NEW h, Keeps(from, h),
         \A c \in Clients : SynLost(c)' => SynLost(c) \/ NoHolder(c)'
  PROVE  LostAlone'
<1> SUFFICES ASSUME NEW c \in Clients, SynLost(c)'
             PROVE  NoHolder(c)'
  BY DEF LostAlone
<1>1. CASE NoHolder(c)'
  BY <1>1
<1>2. CASE SynLost(c)
  <2>1. NoHolder(c)
    BY <1>2 DEF LostAlone
  <2>2. \A k, g : \A i \in Nat : Was(from, h, k, g, i) \in Nat
    BY DEF Was
  <2> QED  BY <2>1, <2>2 DEF NoHolder, Keeps
<1> QED  BY <1>1, <1>2

(* The same when d moves, whose SYN is therefore not lost. *)
LEMMA LostMoves ==
  ASSUME LostAlone, NEW from, NEW h,
         NEW d, NEW to, NEW t, NEW n, Moves(from, h, d, to, t, n),
         \A c \in Clients : SynLost(c)' => SynLost(c) /\ c # d
  PROVE  LostAlone'
<1> SUFFICES ASSUME NEW c \in Clients, SynLost(c)'
             PROVE  NoHolder(c)'
  BY DEF LostAlone
<1>1. NoHolder(c) /\ c # d
  BY DEF LostAlone
<1>2. \A k, g : \A i \in Nat : Was(from, h, k, g, i) \in Nat
  BY DEF Was
<1> QED  BY <1>1, <1>2 DEF NoHolder, Moves

(* The only holder of c was the packet that was handled. *)
LEMMA HolderConsumed ==
  ASSUME OneHolder, NEW h \in Hosts, NEW c \in Clients,
         Holds(c, "net", h, 1),
         \A k \in Kinds \ {"net"}, g \in Hosts, i \in Nat :
            Holds(c, k, g, i)' => Holds(c, k, g, i),
         \A g \in Hosts, i \in Nat :
            Holds(c, "net", g, i)' =>
                i > 0 /\ Holds(c, "net", g, Was("net", h, "net", g, i))
  PROVE  NoHolder(c)'
<1> SUFFICES ASSUME NEW k \in Kinds, NEW g \in Hosts, NEW i \in Nat,
                    Holds(c, k, g, i)'
             PROVE  FALSE
  BY DEF NoHolder
<1>1. "net" \in Kinds /\ 1 \in Nat
  BY DEF Kinds
<1>2. CASE k = "net"
  <2>1. i > 0 /\ Holds(c, "net", g, Was("net", h, "net", g, i))
    BY <1>2
  <2>2. Was("net", h, "net", g, i) \in Nat
    BY DEF Was
  <2>3. g = h /\ Was("net", h, "net", g, i) = 1
    BY <1>1, <2>1, <2>2 DEF OneHolder
  <2> QED  BY <2>1, <2>3 DEF Was
<1>3. CASE k # "net"
  <2>1. Holds(c, k, g, i)
    BY <1>3
  <2> QED  BY <1>1, <1>3, <2>1 DEF OneHolder
<1> QED  BY <1>2, <1>3

(* What a step may add, given how far each client's handshake has come. *)
LEMMA PhasesKept ==
  ASSUME Phases, UNCHANGED conn,
         \A c \in Clients :
            \/ dropped'[c] \subseteq dropped[c]
            \/ conn[c] = "syn_sent" /\ dropped'[c] \subseteq {0}
            \/ conn[c] = "open",
         \A c \in Clients, g \in Hosts :
            /\ c \in inflight'[g] => c \in inflight[g] \/ conn[c] # "closed"
            /\ established'[g][c] # None =>
                    established[g][c] # None \/ conn[c] = "open"
            /\ active'[g][c] # None => active[g][c] # None \/ conn[c] = "open",
         \A g \in Hosts : \A i \in DOMAIN ready'[g] :
            \/ \E j \in DOMAIN ready[g] : ready'[g][i].client = ready[g][j].client
            \/ conn[ready'[g][i].client] = "open",
         \A g \in Hosts : \A p \in Packets(g)' :
            \/ p \in Packets(g)
            \/ p.type = "SYN" /\ conn[p.client] = "syn_sent"
            \/ p.type # "SYN" /\ conn[p.client] = "open"
  PROVE  Phases'
<1> SUFFICES ASSUME NEW c \in Clients
             PROVE  /\ conn[c] = "closed" => Closed(c)'
                    /\ conn[c] # "open" => NotOpen(c)'
                    /\ conn[c] = "open" => Open(c)'
  BY DEF Phases
<1>1. ASSUME conn[c] = "closed" PROVE Closed(c)'
  BY <1>1 DEF Phases, Closed
<1>2. ASSUME conn[c] # "open" PROVE NotOpen(c)'
  BY <1>2 DEF Phases, NotOpen
<1>3. ASSUME conn[c] = "open" PROVE Open(c)'
  BY <1>3 DEF Phases, Open
<1> QED  BY <1>1, <1>2, <1>3

(* Steps of a client. *)
LEMMA OwnerConnect ==
  ASSUME OwnerInv, TypeOK', NEW d \in Clients, ClientConnect(d)
  PROVE  OwnerInv'
<1>1. PICK t \in Hosts : Transmit(t, Syn(d))
  BY DEF ClientConnect
<1>2. /\ conn[d] = "closed" /\ conn' = [conn EXCEPT ![d] = "syn_sent"]
      /\ UNCHANGED <<inflight, ready, active, established, dropped>>
  BY DEF ClientConnect, listenVars, tableVars
<1>3. /\ Syn(d) \in Packet /\ Syn(d).client = d /\ Syn(d).type = "SYN"
  <2>1. Syn(d) \in Packet
    BY <1>1, MessageTypes
  <2> QED  BY <2>1 DEF Syn
<1>4. /\ \A c \in Clients, g \in Hosts, i \in Nat :
            Holds(c, "net", g, i)' =>
                Holds(c, "net", g, i) \/ (c = d /\ g = t /\ i = Len(inq'[t]))
      /\ \A g \in Hosts : Packets(g)' \subseteq Packets(g) \cup {Syn(d)}
  BY <1>1, <1>3, NetSend DEF OwnerInv, Carries
<1>5. Closed(d) /\ NotOpen(d)
  BY <1>2 DEF OwnerInv, Phases
<1>6. NoHolder(d)
  BY <1>5 DEF NoHolder, Closed, NotOpen, Holds, Kinds, Carries, Packets
<1>7. \A c \in Clients, k \in Kinds \ {"net"}, g \in Hosts, i \in Nat :
        Holds(c, k, g, i)' => Holds(c, k, g, i)
  BY <1>2, TablesKept
<1>8. PICK n : n = Len(inq'[t])
  OBVIOUS
<1>9. Moves("none", t, d, "net", t, n)
  BY <1>4, <1>6, <1>7, <1>8 DEF Moves, NoHolder, Was, Kinds
<1>10. OneHolder'
  BY <1>9, HolderMoves DEF OwnerInv
<1>11. LostAlone'
  <2>1. \A c \in Clients : SynLost(c)' => SynLost(c) /\ c # d
    BY <1>2, <1>5 DEF SynLost, Closed
  <2> QED  BY <1>9, <2>1, LostMoves DEF OwnerInv
<1>12. Phases'
  <2> SUFFICES ASSUME NEW c \in Clients
               PROVE  /\ conn'[c] = "closed" => Closed(c)'
                      /\ conn'[c] # "open" => NotOpen(c)'
                      /\ conn'[c] = "open" => Open(c)'
    BY DEF Phases
  <2>1. CASE c = d
    <3>1. conn'[c] = "syn_sent"
      BY <1>2, <2>1 DEF OwnerInv, TypeOK
    <3>2. NotOpen(c)'
      BY <1>2, <1>3, <1>4, <1>5, <2>1 DEF NotOpen
    <3> QED  BY <3>1, <3>2
  <2>2. CASE c # d
    <3>1. conn'[c] = conn[c]
      BY <1>2, <2>2 DEF OwnerInv, TypeOK
    <3>2. conn[c] = "closed" => Closed(c)'
      BY <1>2, <1>3, <1>4, <2>2 DEF Closed, OwnerInv, Phases
    <3>3. conn[c] # "open" => NotOpen(c)'
      BY <1>2, <1>3, <1>4, <2>2 DEF NotOpen, OwnerInv, Phases
    <3>4. conn[c] = "open" => Open(c)'
      BY <1>3, <1>4, <2>2 DEF Open, OwnerInv, Phases
    <3> QED  BY <3>1, <3>2, <3>3, <3>4
  <2> QED  BY <2>1, <2>2
<1> QED  BY <1>10, <1>11, <1>12 DEF OwnerInv

(* Completing the handshake at the client keeps the invariant. *)
LEMMA OwnerEstablish ==
  ASSUME OwnerInv, TypeOK', NEW d \in Clients, ClientEstablish(d)
  PROVE  OwnerInv'
<1> DEFINE t == owner[d]
<1>1. /\ conn[d] = "syn_sent" /\ conn' = [conn EXCEPT ![d] = "open"]
      /\ d \in inflight[t] /\ Transmit(t, Data(d, 0))
      /\ UNCHANGED <<inflight, ready, active, established, dropped>>
  BY DEF ClientEstablish, listenVars, tableVars
<1>2. t \in Hosts
  BY DEF OwnerInv, TypeOK
<1>3. /\ Data(d, 0) \in Packet /\ Data(d, 0).client = d
      /\ Data(d, 0).type = "DATA"
  <2>1. PICK h \in Hosts : TRUE
    BY <1>2
  <2>2. Data(d, 0) \in Packet
    BY <2>1, MessageTypes, BoundsAssumption DEF Segs
  <2> QED  BY <2>2 DEF Data
<1>4. /\ \A c \in Clients, g \in Hosts, i \in Nat :
            Holds(c, "net", g, i)' => Holds(c, "net", g, i)
      /\ \A g \in Hosts : Packets(g)' \subseteq Packets(g) \cup {Data(d, 0)}
  BY <1>1, <1>2, <1>3, NetSend DEF OwnerInv, Carries
<1> HIDE DEF t
<1>5. Holds(d, "hand", t, 0)
  BY <1>1 DEF Holds
<1>6. Keeps("none", t)
  <2>1. \A c \in Clients, k \in Kinds \ {"net"}, g \in Hosts, i \in Nat :
            Holds(c, k, g, i)' => Holds(c, k, g, i)
    BY <1>1, TablesKept
  <2> QED  BY <1>4, <2>1 DEF Keeps, Was, Kinds
<1>7. OneHolder'
  BY <1>6, HoldersKept DEF OwnerInv
<1>8. LostAlone'
  <2>1. \A c \in Clients : SynLost(c)' => SynLost(c)
    BY <1>1 DEF SynLost, OwnerInv, TypeOK
  <2> QED  BY <1>6, <2>1, LostKept DEF OwnerInv
<1>9. Phases'
  <2> SUFFICES ASSUME NEW c \in Clients
               PROVE  /\ conn'[c] = "closed" => Closed(c)'
                      /\ conn'[c] # "open" => NotOpen(c)'
                      /\ conn'[c] = "open" => Open(c)'
    BY DEF Phases
  <2>1. CASE c = d
    <3>1. conn'[c] = "open"
      BY <1>1, <2>1 DEF OwnerInv, TypeOK
    <3>2. ASSUME NEW g \in Hosts, NEW p \in Packets(g), p.client = d,
                 p.type = "SYN"
          PROVE  FALSE
      <4>1. PICK i \in DOMAIN inq[g] : p = inq[g][i]
        BY <3>2 DEF Packets
      <4>2. Holds(d, "net", g, i)
        BY <3>2, <4>1 DEF Holds, Carries
      <4>3. i \in Nat
        <5>1. inq[g] \in Seq(Packet)
          BY DEF OwnerInv, TypeOK
        <5> QED  BY <4>1, <5>1
      <4> QED  BY <1>2, <1>5, <4>2, <4>3 DEF OwnerInv, OneHolder, Kinds
    <3>3. Open(c)'
      BY <1>3, <1>4, <2>1, <3>2 DEF Open
    <3> QED  BY <3>1, <3>3
  <2>2. CASE c # d
    <3>1. conn'[c] = conn[c]
      BY <1>1, <2>2 DEF OwnerInv, TypeOK
    <3>2. conn[c] = "closed" => Closed(c)'
      BY <1>1, <1>3, <1>4, <2>2 DEF Closed, OwnerInv, Phases
    <3>3. conn[c] # "open" => NotOpen(c)'
      BY <1>1, <1>3, <1>4, <2>2 DEF NotOpen, OwnerInv, Phases
    <3>4. conn[c] = "open" => Open(c)'
      BY <1>3, <1>4, <2>2 DEF Open, OwnerInv, Phases
    <3> QED  BY <3>1, <3>2, <3>3, <3>4
  <2> QED  BY <2>1, <2>2
<1> QED  BY <1>7, <1>8, <1>9 DEF OwnerInv

(* Sending data keeps the invariant. *)
LEMMA OwnerSend ==
  ASSUME OwnerInv, TypeOK', NEW d \in Clients, ClientSend(d)
  PROVE  OwnerInv'
<1> DEFINE t == owner[d]
           p == Data(d, sent[d] + 1)
<1>1. /\ conn[d] = "open" /\ t \in Hosts /\ Transmit(t, p)
      /\ UNCHANGED <<inflight, ready, active, established, dropped, conn>>
  BY DEF ClientSend, listenVars, tableVars, OwnerInv, TypeOK
<1>2. p \in Packet /\ p.client = d /\ p.type = "DATA"
  <2>1. sent[d] + 1 \in Segs
    BY BoundsAssumption DEF ClientSend, Segs, OwnerInv, TypeOK
  <2>2. p \in Packet
    BY <1>1, <2>1, MessageTypes
  <2> QED  BY <2>2 DEF Data
<1> HIDE DEF p, t
<1>3. /\ \A c \in Clients, g \in Hosts, i \in Nat :
            Holds(c, "net", g, i)' => Holds(c, "net", g, i)
      /\ \A g \in Hosts : Packets(g)' \subseteq Packets(g) \cup {p}
  BY <1>1, <1>2, NetSend DEF OwnerInv, Carries
<1>4. Keeps("none", t)
  <2>1. \A c \in Clients, k \in Kinds \ {"net"}, g \in Hosts, i \in Nat :
            Holds(c, k, g, i)' => Holds(c, k, g, i)
    BY <1>1, TablesKept
  <2> QED  BY <1>3, <2>1 DEF Keeps, Was, Kinds
<1>5. OneHolder'
  BY <1>4, HoldersKept DEF OwnerInv
<1>6. LostAlone'
  <2>1. \A c \in Clients : SynLost(c)' => SynLost(c)
    BY <1>1 DEF SynLost
  <2> QED  BY <1>4, <2>1, LostKept DEF OwnerInv
<1>7. Phases'
  BY <1>1, <1>2, <1>3, PhasesKept DEF OwnerInv
<1> QED  BY <1>5, <1>6, <1>7 DEF OwnerInv

(* The steps that add no holder: to show are what they do to the phases. *)
LEMMA KeepsConsume ==
  ASSUME TypeOK, NEW h \in Hosts, inq[h] # <<>>, Consume(h),
         \A g \in Hosts : inflight'[g] \subseteq inflight[g],
         ready' = ready,
         \A g \in Hosts, c \in Clients :
            established'[g][c] # None => established[g][c] # None
  PROVE  /\ Keeps("net", h)
         /\ \A g \in Hosts : Packets(g)' \subseteq Packets(g)
<1>1. \A c \in Clients, k \in Kinds \ {"net"}, g \in Hosts, i \in Nat :
        Holds(c, k, g, i)' => Holds(c, k, g, i)
  BY TablesKept
<1>2. \A c \in Clients, g \in Hosts, i \in Nat :
        Holds(c, "net", g, i)' => Holds(c, "net", g, Was("net", h, "net", g, i))
  BY NetConsume
<1>3. \A k \in Kinds \ {"net"} : \A g, i : Was("net", h, k, g, i) = i
  BY DEF Was
<1> QED  BY <1>1, <1>2, <1>3, NetConsume DEF Keeps

(* Answering with a message that carries no state makes no holder. *)
LEMMA KeepsReply ==
  ASSUME TypeOK, NEW h \in Hosts, inq[h] # <<>>,
         NEW t \in Hosts, NEW p \in Packet, Reply(h, t, p),
         p.type \notin {"SYN", "CONN_STATE"},
         inflight' = inflight, ready' = ready,
         \A g \in Hosts, c \in Clients :
            established'[g][c] # None => established[g][c] # None
  PROVE  /\ Keeps("net", h)
         /\ \A g \in Hosts : Packets(g)' \subseteq Packets(g) \cup {p}
<1>1. \A c \in Clients, k \in Kinds \ {"net"}, g \in Hosts, i \in Nat :
        Holds(c, k, g, i)' => Holds(c, k, g, i)
  BY TablesKept
<1>2. \A c \in Clients, g \in Hosts, i \in Nat :
        Holds(c, "net", g, i)' => Holds(c, "net", g, Was("net", h, "net", g, i))
  BY NetReply DEF Carries
<1>3. \A k \in Kinds \ {"net"} : \A g, i : Was("net", h, k, g, i) = i
  BY DEF Was
<1> QED  BY <1>1, <1>2, <1>3, NetReply DEF Keeps

(* Sending a packet that carries no state makes no holder. *)
LEMMA KeepsSend ==
  ASSUME TypeOK, NEW t \in Hosts, NEW p \in Packet, Transmit(t, p),
         p.type \notin {"SYN", "CONN_STATE"},
         inflight' = inflight, ready' = ready,
         \A g \in Hosts, c \in Clients :
            established'[g][c] # None => established[g][c] # None
  PROVE  /\ Keeps("none", t)
         /\ \A g \in Hosts : Packets(g)' \subseteq Packets(g) \cup {p}
<1>1. \A c \in Clients, k \in Kinds \ {"net"}, g \in Hosts, i \in Nat :
        Holds(c, k, g, i)' => Holds(c, k, g, i)
  BY TablesKept
<1>2. \A c \in Clients, g \in Hosts, i \in Nat :
        Holds(c, "net", g, i)' => Holds(c, "net", g, i)
  BY NetSend DEF Carries
<1>3. \A k \in Kinds : \A g, i : Was("none", t, k, g, i) = i
  BY DEF Was, Kinds
<1> QED  BY <1>1, <1>2, <1>3, NetSend DEF Keeps

(* A step that makes no holder and moves no client keeps the invariant. *)
LEMMA OwnerKept ==
  ASSUME OwnerInv, TypeOK', NEW from, NEW h, Keeps(from, h), Phases',
         \A c \in Clients : SynLost(c)' => SynLost(c) \/ NoHolder(c)'
  PROVE  OwnerInv'
<1>1. OneHolder'
  BY HoldersKept DEF OwnerInv
<1>2. LostAlone'
  BY LostKept DEF OwnerInv
<1> QED  BY <1>1, <1>2 DEF OwnerInv

(* Who has an entry of any kind, or sent anything but a SYN, is connected. *)
LEMMA Connected ==
  ASSUME OwnerInv, NEW h \in Hosts, NEW c \in Clients
  PROVE  /\ established[h][c] # None => conn[c] = "open"
         /\ active[h][c] # None => conn[c] = "open"
         /\ \A i \in DOMAIN ready[h] : ready[h][i].client = c => conn[c] = "open"
         /\ c \in inflight[h] => conn[c] # "closed"
         /\ \A p \in Packets(h) : p.client = c =>
                /\ p.type # "SYN" => conn[c] = "open"
                /\ p.type = "SYN" => conn[c] = "syn_sent"
<1>1. conn[c] \in {"closed", "syn_sent", "open"}
  BY DEF OwnerInv, TypeOK
<1> QED  BY <1>1 DEF OwnerInv, Phases, Closed, NotOpen, Open

(* A retransmitted segment keeps the invariant: a SYN is sent again only   *)
(* when no other exists.                                                   *)
LEMMA OwnerRetransmit ==
  ASSUME OwnerInv, TypeOK', NEW d \in Clients, ClientRetransmit(d)
  PROVE  OwnerInv'
<1> DEFINE t == owner[d]
<1>1. PICK n \in dropped[d] :
        /\ dropped' = [dropped EXCEPT ![d] = @ \ {n}]
        /\ Transmit(t, IF conn[d] = "syn_sent" THEN Syn(d) ELSE Data(d, n))
  BY DEF ClientRetransmit
<1>2. /\ t \in Hosts /\ n \in Segs
      /\ UNCHANGED <<inflight, ready, active, established, conn>>
  BY <1>1 DEF ClientRetransmit, listenVars, tableVars, OwnerInv, TypeOK
<1>3. \A c \in Clients : /\ dropped'[c] \subseteq dropped[c]
                         /\ c # d => dropped'[c] = dropped[c]
                         /\ c = d => n \notin dropped'[c]
  BY <1>1 DEF OwnerInv, TypeOK
<1> HIDE DEF t
<1>4. CASE conn[d] = "syn_sent"
  <2>1. /\ Syn(d) \in Packet /\ Syn(d).client = d /\ Syn(d).type = "SYN"
    <3>1. Syn(d) \in Packet
      BY <1>2, MessageTypes
    <3> QED  BY <3>1 DEF Syn
  <2>2. Transmit(t, Syn(d))
    BY <1>1, <1>4
  <2>3. /\ \A c \in Clients, g \in Hosts, i \in Nat :
                Holds(c, "net", g, i)' =>
                    Holds(c, "net", g, i) \/ (c = d /\ g = t /\ i = Len(inq'[t]))
        /\ \A g \in Hosts : Packets(g)' \subseteq Packets(g) \cup {Syn(d)}
    BY <1>2, <2>1, <2>2, NetSend DEF OwnerInv, Carries
  <2>4. n = 0 /\ SynLost(d) /\ NoHolder(d)
    BY <1>4 DEF OwnerInv, Phases, NotOpen, SynLost, LostAlone
  <2>5. \A c \in Clients, k \in Kinds \ {"net"}, g \in Hosts, i \in Nat :
            Holds(c, k, g, i)' => Holds(c, k, g, i)
    BY <1>2, TablesKept
  <2>6. PICK m : m = Len(inq'[t])
    OBVIOUS
  <2>7. Moves("none", t, d, "net", t, m)
    BY <2>3, <2>4, <2>5, <2>6 DEF Moves, NoHolder, Was, Kinds
  <2>8. OneHolder'
    BY <2>7, HolderMoves DEF OwnerInv
  <2>9. LostAlone'
    <3>1. \A c \in Clients : SynLost(c)' => SynLost(c) /\ c # d
      BY <1>2, <1>3, <2>4 DEF SynLost
    <3> QED  BY <2>7, <3>1, LostMoves DEF OwnerInv
  <2>10. Phases'
    BY <1>2, <1>3, <1>4, <2>1, <2>3, PhasesKept DEF OwnerInv
  <2> QED  BY <2>8, <2>9, <2>10 DEF OwnerInv
<1>5. CASE conn[d] # "syn_sent"
  <2>1. /\ Data(d, n) \in Packet /\ Data(d, n).client = d
        /\ Data(d, n).type = "DATA"
    <3>1. Data(d, n) \in Packet
      BY <1>2, MessageTypes
    <3> QED  BY <3>1 DEF Data
  <2>2. Transmit(t, Data(d, n))
    BY <1>1, <1>5
  <2>3. /\ Keeps("none", t)
        /\ \A g \in Hosts : Packets(g)' \subseteq Packets(g) \cup {Data(d, n)}
    BY <1>2, <2>1, <2>2, KeepsSend DEF OwnerInv
  <2>4. conn[d] = "open"
    <3>1. conn[d] # "closed"
      BY DEF OwnerInv, Phases, Closed
    <3> QED  BY <1>5, <3>1 DEF OwnerInv, TypeOK
  <2>5. Phases'
    BY <1>2, <1>3, <2>1, <2>3, <2>4, PhasesKept DEF OwnerInv
  <2>6. \A c \in Clients : SynLost(c)' => SynLost(c)
    BY <1>2, <1>3 DEF SynLost
  <2> QED  BY <2>3, <2>5, <2>6, OwnerKept
<1> QED  BY <1>4, <1>5

(* A packet is dropped: by the network or by the listening socket. *)
LEMMA Discarded ==
  ASSUME OwnerInv, TypeOK', NEW h \in Hosts, inq[h] # <<>>, Consume(h),
         NEW p, p = Packet1(h), NEW d, d = p.client,
         dropped' = IF p.type \in {"SYN", "DATA"}
                      THEN [dropped EXCEPT ![d] = @ \cup {p.seq}] ELSE dropped,
         UNCHANGED <<inflight, ready, active, established, conn>>
  PROVE  OwnerInv'
<1>1. /\ p \in Packet /\ p \in Packets(h) /\ d \in Clients
      /\ 1 \in DOMAIN inq[h] /\ p = inq[h][1]
      /\ p.type = "SYN" => p.seq = 0
  BY HeadIsPacket, PacketTypes
     DEF Packets, OwnerInv, TypeOK, Queues
<1>2. /\ Keeps("net", h)
      /\ \A g \in Hosts : Packets(g)' \subseteq Packets(g)
  BY KeepsConsume DEF OwnerInv
<1>3. \A c \in Clients : c # d => dropped'[c] = dropped[c]
  BY <1>1 DEF OwnerInv, TypeOK
<1>4. p.type = "SYN" =>
        /\ conn[d] = "syn_sent"
        /\ dropped'[d] \subseteq {0}
        /\ NoHolder(d)'
  <2> SUFFICES ASSUME p.type = "SYN"
               PROVE  /\ conn[d] = "syn_sent"
                      /\ dropped'[d] \subseteq {0}
                      /\ NoHolder(d)'
    OBVIOUS
  <2>1. conn[d] = "syn_sent"
    BY <1>1, Connected
  <2>2. dropped[d] \subseteq {0}
    BY <1>1, <2>1 DEF OwnerInv, Phases, NotOpen
  <2>3. dropped'[d] \subseteq {0}
    BY <1>1, <2>2 DEF OwnerInv, TypeOK
  <2>4. Holds(d, "net", h, 1)
    BY <1>1 DEF Holds, Carries
  <2>5. NoHolder(d)'
    <3>1. \A k \in Kinds \ {"net"}, g \in Hosts, i \in Nat :
            Holds(d, k, g, i)' => Holds(d, k, g, i)
      BY <1>1, TablesKept
    <3>2. \A g \in Hosts, i \in Nat :
            Holds(d, "net", g, i)' =>
                i > 0 /\ Holds(d, "net", g, Was("net", h, "net", g, i))
      BY <1>1, NetConsume DEF OwnerInv
    <3> QED  BY <1>1, <2>4, <3>1, <3>2, HolderConsumed DEF OwnerInv
  <2> QED  BY <2>1, <2>3, <2>5
<1>5. p.type = "DATA" => conn[d] = "open"
  BY <1>1, Connected
<1>6. p.type \notin {"SYN", "DATA"} => dropped' = dropped
  OBVIOUS
<1>7. Phases'
  BY <1>1, <1>2, <1>3, <1>4, <1>5, <1>6, PhasesKept DEF OwnerInv
<1>8. \A c \in Clients : SynLost(c)' => SynLost(c) \/ NoHolder(c)'
  BY <1>1, <1>3, <1>4, <1>5, <1>6 DEF SynLost
<1> QED  BY <1>2, <1>7, <1>8, OwnerKept

(* Losing a packet keeps the invariant. *)
LEMMA OwnerLose ==
  ASSUME OwnerInv, TypeOK', NEW h \in Hosts, Lose(h)
  PROVE  OwnerInv'
<1>1. PICK p, d : p = Packet1(h) /\ d = p.client
  OBVIOUS
<1> QED  BY <1>1, Discarded DEF Lose, listenVars, tableVars

(* Only one entry of a table of one host is set. *)
LEMMA EstablishedSet ==
  ASSUME TypeOK, NEW h \in Hosts, NEW d \in Clients, NEW x,
         established' = [established EXCEPT ![h][d] = x]
  PROVE  \A g \in Hosts, c \in Clients :
            established'[g][c] = IF g = h /\ c = d THEN x ELSE established[g][c]
<1>1. established \in [Hosts -> [Clients -> CB \cup {None}]]
  BY DEF TypeOK
<1> QED  BY <1>1

(* What assigning one migration entry does to the others. *)
LEMMA ActiveSet ==
  ASSUME TypeOK, NEW h \in Hosts, NEW d \in Clients, NEW x,
         active' = [active EXCEPT ![h][d] = x]
  PROVE  \A g \in Hosts, c \in Clients :
            active'[g][c] = IF g = h /\ c = d THEN x ELSE active[g][c]
<1>1. active \in [Hosts -> [Clients -> Migration \cup {None}]]
  BY DEF TypeOK
<1> QED  BY <1>1

(* Receiving a segment keeps the invariant. *)
LEMMA OwnerSegment ==
  ASSUME OwnerInv, TypeOK', NEW h \in Hosts, RxEstablished(h) \/ RxBuffered(h)
  PROVE  OwnerInv'
<1> DEFINE d == Packet1(h).client
<1>1. /\ inq[h] # <<>> /\ Consume(h)
      /\ UNCHANGED <<inflight, ready, conn, dropped>>
  BY DEF RxEstablished, RxBuffered, Received, listenVars, clientVars
<1>2. d \in Clients
  BY <1>1, HeadIsPacket, PacketTypes DEF OwnerInv, TypeOK, Queues
<1>3. \A g \in Hosts, c \in Clients :
        /\ established'[g][c] # None => established[g][c] # None
        /\ active'[g][c] # None => active[g][c] # None
  <2>1. CASE RxEstablished(h)
    <3>1. /\ established[h][d] # None /\ active' = active
          /\ established' = [established EXCEPT ![h][d] =
                                CbReceive(@, Packet1(h).seq)]
      BY <2>1 DEF RxEstablished
    <3> QED  BY <1>2, <3>1 DEF OwnerInv, TypeOK
  <2>2. CASE RxBuffered(h)
    <3>1. /\ active[h][d] # None /\ established' = established
          /\ active' = [active EXCEPT ![h][d].buf = Append(@, Packet1(h))]
      BY <2>2 DEF RxBuffered, Buffers, tableVars
    <3>2. \A g \in Hosts, c \in Clients :
            \/ g = h /\ c = d
            \/ active'[g][c] = active[g][c]
      BY <1>2, <3>1 DEF OwnerInv, TypeOK
    <3> QED  BY <3>1, <3>2
  <2> QED  BY <2>1, <2>2
<1>4. /\ Keeps("net", h)
      /\ \A g \in Hosts : Packets(g)' \subseteq Packets(g)
  BY <1>1, <1>3, KeepsConsume DEF OwnerInv
<1>5. Phases'
  BY <1>1, <1>3, <1>4, PhasesKept DEF OwnerInv
<1>6. \A c \in Clients : SynLost(c)' => SynLost(c)
  BY <1>1 DEF SynLost
<1> QED  BY <1>4, <1>5, <1>6, OwnerKept

(* The first in a queue that loses its head is gone from every queue. *)
LEMMA OthersGone ==
  ASSUME OneHolder, NEW from \in {"net", "ready"}, NEW h \in Hosts,
         NEW d \in Clients, Holds(d, from, h, 1)
  PROVE  \A k \in Kinds, g \in Hosts, i \in Nat :
            Holds(d, k, g, Was(from, h, k, g, i)) =>
                k = from /\ g = h /\ i = 0
<1> SUFFICES ASSUME NEW k \in Kinds, NEW g \in Hosts, NEW i \in Nat,
                    Holds(d, k, g, Was(from, h, k, g, i))
             PROVE  k = from /\ g = h /\ i = 0
  OBVIOUS
<1>1. Was(from, h, k, g, i) \in Nat /\ from \in Kinds
  BY DEF Was, Kinds
<1>2. k = from /\ g = h /\ Was(from, h, k, g, i) = 1
  BY <1>1 DEF OneHolder
<1> QED  BY <1>2 DEF Was

(* The listening socket. *)
LEMMA OwnerPassive ==
  ASSUME OwnerInv, TypeOK', NEW h \in Hosts, RxPassive(h)
  PROVE  OwnerInv'
<1>1. PICK p, d : p = Packet1(h) /\ d = p.client
  OBVIOUS
<1>2. /\ inq[h] # <<>> /\ Consume(h) /\ p.type \in {"SYN", "DATA"}
      /\ UNCHANGED <<active, established, conn>>
  BY <1>1 DEF RxPassive, Received, tableVars
<1>3. /\ d \in Clients /\ p \in Packets(h) /\ 1 \in DOMAIN inq[h]
      /\ p = inq[h][1] /\ (p.type = "SYN" => p.seq = 0)
  BY <1>1, <1>2, HeadIsPacket, PacketTypes
     DEF Packets, OwnerInv, TypeOK, Queues
<1>4. /\ p.type = "DATA" => conn[d] = "open"
      /\ p.type = "SYN" => conn[d] = "syn_sent"
  BY <1>1, <1>3, Connected
<1>5. /\ \A c \in Clients, g \in Hosts, i \in Nat :
            Holds(c, "net", g, i)' =>
                i > 0 /\ Holds(c, "net", g, Was("net", h, "net", g, i))
      /\ \A g \in Hosts : Packets(g)' \subseteq Packets(g)
  BY <1>2, NetConsume DEF OwnerInv
<1>6. \/ /\ d \in inflight[h] /\ p.type = "DATA"
         /\ inflight' = [inflight EXCEPT ![h] = @ \ {d}]
         /\ ready' = [ready EXCEPT ![h] =
                            Append(@, [client |-> d, cb |-> NewCB])]
         /\ dropped' = [dropped EXCEPT ![d] = @ \cup ({p.seq} \ {0})]
      \/ /\ p.type = "SYN"
         /\ inflight' = [inflight EXCEPT ![h] = @ \cup {d}]
         /\ UNCHANGED <<ready, dropped>>
      \/ /\ dropped' = [dropped EXCEPT ![d] = @ \cup {p.seq}]
         /\ UNCHANGED <<inflight, ready>>
  BY <1>1, Zenon DEF RxPassive, Completes, Starts, listenVars
<1>a. /\ inflight \in [Hosts -> SUBSET Clients]
      /\ ready \in [Hosts -> Seq([client: Clients, cb: CB])]
      /\ dropped \in [Clients -> SUBSET Segs]
      /\ conn \in [Clients -> {"closed", "syn_sent", "open"}]
      /\ OneHolder /\ LostAlone /\ Phases
  BY DEF OwnerInv, TypeOK
<1>7. CASE /\ d \in inflight[h] /\ p.type = "DATA"
           /\ inflight' = [inflight EXCEPT ![h] = @ \ {d}]
           /\ ready' = [ready EXCEPT ![h] =
                              Append(@, [client |-> d, cb |-> NewCB])]
           /\ dropped' = [dropped EXCEPT ![d] = @ \cup ({p.seq} \ {0})]
  <2>1. Holds(d, "hand", h, 0)
    BY <1>7 DEF Holds
  <2>2. \A k \in Kinds, g \in Hosts, i \in Nat :
            Holds(d, k, g, i) => k = "hand" /\ g = h /\ i = 0
    BY <1>a, <1>3, <2>1 DEF OneHolder, Kinds
  <2>3. PICK n : n = Len(ready'[h])
    OBVIOUS
  <2>4. \A g \in Hosts : \A i \in DOMAIN ready'[g] :
            \/ i \in DOMAIN ready[g] /\ ready'[g][i] = ready[g][i]
            \/ g = h /\ i = n /\ ready'[g][i].client = d
    BY <1>7, <1>a, <2>3
  <2>5. \A g \in Hosts : \A c \in inflight'[g] :
            c \in inflight[g] /\ ~(g = h /\ c = d)
    BY <1>7, <1>a
  <2>6. Moves("net", h, d, "ready", h, n)
    <3> SUFFICES ASSUME NEW c \in Clients, NEW k \in Kinds, NEW g \in Hosts,
                        NEW i \in Nat, Holds(c, k, g, i)'
                 PROVE  IF c = d THEN k = "ready" /\ g = h /\ i = n
                                 ELSE Holds(c, k, g, Was("net", h, k, g, i))
      BY DEF Moves
    <3>1. CASE k = "net"
      <4>1. Was("net", h, "net", g, i) \in Nat
        BY DEF Was
      <4> QED  BY <1>5, <2>2, <3>1, <4>1
    <3>2. CASE k = "ready"
      <4>1. Was("net", h, k, g, i) = i
        BY <3>2 DEF Was
      <4> QED  BY <2>2, <2>4, <3>2, <4>1 DEF Holds
    <3>3. CASE k = "hand"
      <4>1. Was("net", h, k, g, i) = i
        BY <3>3 DEF Was
      <4>2. Holds(c, k, g, i) /\ ~(g = h /\ c = d)
        BY <2>5, <3>3 DEF Holds
      <4> QED  BY <2>2, <4>1, <4>2
    <3>4. CASE k = "table"
      <4>1. Was("net", h, k, g, i) = i
        BY <3>4 DEF Was
      <4>2. Holds(c, k, g, i)
        BY <1>2, <3>4 DEF Holds
      <4> QED  BY <2>2, <3>4, <4>1, <4>2
    <3> QED  BY <3>1, <3>2, <3>3, <3>4 DEF Kinds
  <2>7. OneHolder'
    BY <1>3, <1>a, <2>6, HolderMoves
  <2>8. \A c \in Clients : c # d => dropped'[c] = dropped[c]
    BY <1>7, <1>a
  <2>9. LostAlone'
    <3>1. \A c \in Clients : SynLost(c)' => SynLost(c) /\ c # d
      BY <1>2, <1>4, <1>7, <2>8 DEF SynLost
    <3> QED  BY <1>a, <2>6, <3>1, LostMoves
  <2>10. Phases'
    BY <1>2, <1>4, <1>5, <1>7, <1>a, <2>4, <2>5, <2>8, PhasesKept
  <2> QED  BY <2>7, <2>9, <2>10 DEF OwnerInv
<1>8. CASE /\ p.type = "SYN"
           /\ inflight' = [inflight EXCEPT ![h] = @ \cup {d}]
           /\ UNCHANGED <<ready, dropped>>
  <2>1. Holds(d, "net", h, 1)
    BY <1>1, <1>3, <1>8 DEF Holds, Carries
  <2>2. \A k \in Kinds, g \in Hosts, i \in Nat :
            Holds(d, k, g, Was("net", h, k, g, i)) =>
                k = "net" /\ g = h /\ i = 0
    BY <1>a, <1>3, <2>1, OthersGone
  <2>3. \A g \in Hosts : \A c \in inflight'[g] :
            c \in inflight[g] \/ (g = h /\ c = d)
    BY <1>8, <1>a
  <2>4. Moves("net", h, d, "hand", h, 0)
    <3> SUFFICES ASSUME NEW c \in Clients, NEW k \in Kinds, NEW g \in Hosts,
                        NEW i \in Nat, Holds(c, k, g, i)'
                 PROVE  IF c = d THEN k = "hand" /\ g = h /\ i = 0
                                 ELSE Holds(c, k, g, Was("net", h, k, g, i))
      BY DEF Moves
    <3>1. CASE k = "net"
      BY <1>5, <2>2, <3>1
    <3>2. CASE k = "hand"
      <4>1. Was("net", h, k, g, i) = i
        BY <3>2 DEF Was
      <4> QED  BY <2>2, <2>3, <3>2, <4>1 DEF Holds
    <3>3. CASE k \in {"ready", "table"}
      <4>1. Was("net", h, k, g, i) = i
        BY <3>3 DEF Was
      <4>2. Holds(c, k, g, i)
        BY <1>2, <1>8, <3>3 DEF Holds
      <4> QED  BY <2>2, <3>3, <4>1, <4>2
    <3> QED  BY <3>1, <3>2, <3>3 DEF Kinds
  <2>5. OneHolder'
    BY <1>3, <1>a, <2>4, HolderMoves
  <2>6. LostAlone'
    <3>1. \A c \in Clients : SynLost(c)' => SynLost(c)
      BY <1>2, <1>8 DEF SynLost
    <3>2. ~SynLost(d)
      BY <1>3, <1>a, <2>1 DEF LostAlone, NoHolder, Kinds
    <3> QED  BY <1>a, <2>4, <3>1, <3>2, LostMoves
  <2>7. Phases'
    BY <1>2, <1>4, <1>5, <1>8, <1>a, <2>3, PhasesKept
  <2> QED  BY <2>5, <2>6, <2>7 DEF OwnerInv
<1>9. CASE /\ dropped' = [dropped EXCEPT ![d] = @ \cup {p.seq}]
           /\ UNCHANGED <<inflight, ready>>
  <2>1. dropped' = IF p.type \in {"SYN", "DATA"}
                     THEN [dropped EXCEPT ![d] = @ \cup {p.seq}] ELSE dropped
    BY <1>2, <1>9
  <2> QED  BY <1>1, <1>2, <1>9, <2>1, Discarded
<1> QED  BY <1>6, <1>7, <1>8, <1>9

(* The steps of a migration. *)
LEMMA OwnerInitiate ==
  ASSUME OwnerInv, TypeOK', NEW h \in Hosts, NEW d \in Clients,
         InitiateMigration(h, d)
  PROVE  OwnerInv'
<1>1. PICK t \in Hosts : Transmit(t, Prepare(d, h))
  BY DEF InitiateMigration
<1>2. PICK p : p = Prepare(d, h)
  OBVIOUS
<1>3. p \in Packet /\ p.client = d /\ p.type = "PREPARE"
  <2>1. p \in Packet
    BY <1>2, MessageTypes
  <2> QED  BY <1>2, <2>1 DEF Prepare
<1>4. /\ established[h][d] # None
      /\ established' = [established EXCEPT ![h][d].tracked = FALSE]
      /\ active' = [active EXCEPT ![h][d] =
                      [stage |-> "Prepare", qd |-> qds[h][d], buf |-> <<>>]]
      /\ UNCHANGED <<inflight, ready, conn, dropped>>
  BY DEF InitiateMigration, listenVars, clientVars
<1>5. \A g \in Hosts, c \in Clients :
        \/ g = h /\ c = d
        \/ established'[g][c] = established[g][c] /\ active'[g][c] = active[g][c]
  <2>1. established' = [established EXCEPT ![h][d] =
                            [established[h][d] EXCEPT !.tracked = FALSE]]
    BY <1>4 DEF OwnerInv, TypeOK
  <2>2. PICK x, y : /\ established' = [established EXCEPT ![h][d] = x]
                    /\ active' = [active EXCEPT ![h][d] = y]
    BY <1>4, <2>1
  <2> QED  BY <2>2, EstablishedSet, ActiveSet DEF OwnerInv
<1>6. conn[d] = "open"
  BY <1>4, Connected
<1>7. /\ Keeps("none", t)
      /\ \A g \in Hosts : Packets(g)' \subseteq Packets(g) \cup {p}
  BY <1>1, <1>2, <1>3, <1>4, <1>5, KeepsSend DEF OwnerInv
<1>8. Phases'
  BY <1>3, <1>4, <1>5, <1>6, <1>7, PhasesKept DEF OwnerInv
<1>9. \A c \in Clients : SynLost(c)' => SynLost(c)
  BY <1>4 DEF SynLost
<1> QED  BY <1>7, <1>8, <1>9, OwnerKept

(* PREPARE, at a target or returned to its origin, keeps the invariant. *)
LEMMA OwnerPrepare ==
  ASSUME OwnerInv, TypeOK', NEW h \in Hosts, RxPrepare(h) \/ RxReturned(h)
  PROVE  OwnerInv'
<1>1. PICK d : d = Packet1(h).client
  OBVIOUS
<1>2. /\ inq[h] # <<>> /\ Packet1(h).type = "PREPARE"
      /\ UNCHANGED <<inflight, ready, conn, dropped>>
  BY DEF RxPrepare, RxReturned, Received, listenVars, clientVars
<1>3. /\ d \in Clients /\ Packet1(h).src \in Hosts
      /\ Packet1(h) \in Packets(h)
  BY <1>1, <1>2, HeadIsPacket, PacketTypes
     DEF Packets, OwnerInv, TypeOK, Queues, TcpMigTypes
<1>4. conn[d] = "open"
  BY <1>1, <1>2, <1>3, Connected
<1>5. PICK t \in Hosts, p \in Packet :
        /\ Reply(h, t, p) /\ p.client = d
        /\ p.type \notin {"SYN", "CONN_STATE"}
  <2>1. CASE RxPrepare(h)
    <3>1. Reply(h, Packet1(h).src, PrepareAck(d, h))
      BY <1>1, <2>1 DEF RxPrepare
    <3>2. PrepareAck(d, h) \in Packet
      BY <1>3, MessageTypes
    <3>3. /\ PrepareAck(d, h).client = d
          /\ PrepareAck(d, h).type = "PREPARE_ACK"
      BY DEF PrepareAck
    <3> QED  BY <1>3, <3>1, <3>2, <3>3
  <2>2. CASE RxReturned(h)
    <3>1. PICK f \in Hosts : Reply(h, f, Prepare(d, h))
      BY <1>1, <2>2 DEF RxReturned
    <3>2. Prepare(d, h) \in Packet
      BY <1>3, MessageTypes
    <3>3. Prepare(d, h).client = d /\ Prepare(d, h).type = "PREPARE"
      BY DEF Prepare
    <3> QED  BY <3>1, <3>2, <3>3
  <2> QED  BY <2>1, <2>2
<1>6. \A g \in Hosts, c \in Clients :
        /\ established'[g][c] # None => established[g][c] # None
        /\ active'[g][c] # None => active[g][c] # None \/ c = d
  <2>1. CASE RxPrepare(h)
    BY <1>1, <1>3, <2>1 DEF RxPrepare, OwnerInv, TypeOK, tableVars
  <2>2. CASE RxReturned(h)
    <3>1. /\ established[h][d] # None
          /\ established' = [established EXCEPT ![h][d].tracked = FALSE]
          /\ active' = [active EXCEPT ![h][d] =
                          [stage |-> "Prepare", qd |-> qds[h][d],
                           buf |-> <<>>]]
      BY <1>1, <2>2 DEF RxReturned
    <3>2. \A g \in Hosts, c \in Clients :
            \/ g = h /\ c = d
            \/ /\ established'[g][c] = established[g][c]
               /\ active'[g][c] = active[g][c]
      <4>1. established' = [established EXCEPT ![h][d] =
                                [established[h][d] EXCEPT !.tracked = FALSE]]
        BY <1>3, <3>1 DEF OwnerInv, TypeOK
      <4>2. PICK x, y : /\ established' = [established EXCEPT ![h][d] = x]
                        /\ active' = [active EXCEPT ![h][d] = y]
        BY <3>1, <4>1
      <4> QED  BY <1>3, <4>2, EstablishedSet, ActiveSet DEF OwnerInv
    <3> QED  BY <3>1, <3>2
  <2> QED  BY <2>1, <2>2
<1>7. /\ Keeps("net", h)
      /\ \A g \in Hosts : Packets(g)' \subseteq Packets(g) \cup {p}
  BY <1>2, <1>5, <1>6, KeepsReply DEF OwnerInv
<1>8. Phases'
  BY <1>2, <1>4, <1>5, <1>6, <1>7, PhasesKept DEF OwnerInv
<1>9. \A c \in Clients : SynLost(c)' => SynLost(c)
  BY <1>2 DEF SynLost
<1> QED  BY <1>7, <1>8, <1>9, OwnerKept

(* PREPARE_ACK moves the connection from the origin's tables into a        *)
(* message.                                                                *)
LEMMA OwnerPrepareAck ==
  ASSUME OwnerInv, TypeOK', NEW h \in Hosts, RxPrepareAck(h)
  PROVE  OwnerInv'
<1>1. PICK d, e, q : /\ d = MigrateOutConn(h, Packet1(h))
                     /\ e = Packet1(h).client /\ q = active[h][e].qd
  OBVIOUS
<1>2. /\ inq[h] # <<>> /\ e \in Clients
      /\ UNCHANGED <<inflight, ready, conn, dropped>>
  BY <1>1, HeadIsPacket, PacketTypes
     DEF RxPrepareAck, Received, listenVars, clientVars, OwnerInv, TypeOK,
         Queues
<1>3. /\ MigrateOut(h, q, d) /\ CanMigrateOut(h, Packet1(h))
      /\ active[h][e] # None
      /\ active[h][d] # None /\ established[h][d] # None
      /\ active' = [active EXCEPT ![h][d].stage = "ConnState"]
  BY <1>1 DEF RxPrepareAck, CanMigrateOut
<1>4. d \in Clients
  <2>1. q \in QDs
    <3>1. active[h][e] \in Migration
      BY <1>2, <1>3 DEF OwnerInv, TypeOK
    <3> QED  BY <1>1, <1>3, <3>1, MigrationTypes DEF CanMigrateOut
  <2>2. sockets[h][q] \in Socket
    <3>1. sockets[h][q] # None
      BY <1>1, <1>3 DEF CanMigrateOut
    <3> QED  BY <2>1, <3>1 DEF OwnerInv, TypeOK
  <2> QED  BY <1>1, <2>2 DEF MigrateOutConn, Socket
<1>5. PICK p : p = ConnState(d, h, Serialized(established[h][d]))
  OBVIOUS
<1>6. p \in Packet /\ p.client = d /\ p.type = "CONN_STATE"
  <2>1. established[h][d] \in CB
    BY <1>3, <1>4 DEF OwnerInv, TypeOK
  <2>2. p \in Packet
    BY <1>4, <1>5, <2>1, CBTypes, MessageTypes
  <2> QED  BY <1>5, <2>2 DEF ConnState
<1>7. PICK t \in Hosts : Reply(h, t, p)
  <2>1. Packet1(h).src \in Hosts
    BY <1>2, HeadIsPacket, PacketTypes
       DEF RxPrepareAck, OwnerInv, TypeOK, Queues, TcpMigTypes
  <2>2. \E t \in IF d = e THEN {Packet1(h).src} ELSE Hosts \ {h} :
            Reply(h, t, p)
    BY <1>1, <1>5 DEF RxPrepareAck
  <2> QED  BY <2>1, <2>2
<1>8. \A g \in Hosts, c \in Clients :
            /\ established'[g][c] = IF g = h /\ c = d THEN None
                                                      ELSE established[g][c]
            /\ \/ g = h /\ c = d
               \/ active'[g][c] = active[g][c]
  <2>1. /\ established' = [established EXCEPT ![h][d] = None]
        /\ active' = [active EXCEPT ![h][d] =
                        [active[h][d] EXCEPT !.stage = "ConnState"]]
    BY <1>3, <1>4 DEF MigrateOut, OwnerInv, TypeOK
  <2>2. PICK y : active' = [active EXCEPT ![h][d] = y]
    BY <2>1
  <2>3. \A g \in Hosts, c \in Clients :
            active'[g][c] = IF g = h /\ c = d THEN y ELSE active[g][c]
    <3>1. active \in [Hosts -> [Clients -> Migration \cup {None}]]
      BY DEF OwnerInv, TypeOK
    <3> QED  BY <1>4, <2>2, <3>1
  <2>4. \A g \in Hosts, c \in Clients :
            established'[g][c] = IF g = h /\ c = d THEN None
                                                   ELSE established[g][c]
    <3>1. established \in [Hosts -> [Clients -> CB \cup {None}]]
      BY DEF OwnerInv, TypeOK
    <3> QED  BY <1>4, <2>1, <3>1
  <2> QED  BY <2>3, <2>4
<1>9. /\ \A c \in Clients, g \in Hosts, i \in Nat :
            Holds(c, "net", g, i)' =>
                \/ i > 0 /\ Holds(c, "net", g, Was("net", h, "net", g, i))
                \/ c = d /\ g = t /\ i = Len(inq'[t])
      /\ \A g \in Hosts : Packets(g)' \subseteq Packets(g) \cup {p}
  BY <1>2, <1>6, <1>7, NetReply DEF Carries, OwnerInv
<1>10. Holds(d, "table", h, 0)
  BY <1>3 DEF Holds
<1>11. \A k \in Kinds, g \in Hosts, i \in Nat :
            Holds(d, k, g, i) => k = "table" /\ g = h /\ i = 0
  BY <1>4, <1>10 DEF OneHolder, Kinds, OwnerInv
<1>12. PICK n : n = Len(inq'[t])
  OBVIOUS
<1>13. Moves("net", h, d, "net", t, n)
  <2> SUFFICES ASSUME NEW c \in Clients, NEW k \in Kinds, NEW g \in Hosts,
                      NEW i \in Nat, Holds(c, k, g, i)'
               PROVE  IF c = d THEN k = "net" /\ g = t /\ i = n
                               ELSE Holds(c, k, g, Was("net", h, k, g, i))
    BY DEF Moves
  <2>1. CASE k = "net"
    <3>1. Was("net", h, "net", g, i) \in Nat
      BY DEF Was
    <3> QED  BY <1>9, <1>11, <1>12, <2>1, <3>1 DEF Kinds
  <2>2. CASE k \in {"hand", "ready"}
    <3>1. Was("net", h, k, g, i) = i
      BY <2>2 DEF Was
    <3>2. Holds(c, k, g, i)
      BY <1>2, <2>2 DEF Holds
    <3> QED  BY <1>11, <2>2, <3>1, <3>2
  <2>3. CASE k = "table"
    <3>1. Was("net", h, k, g, i) = i
      BY <2>3 DEF Was
    <3>2. Holds(c, k, g, i) /\ ~(g = h /\ c = d)
      BY <1>8, <2>3 DEF Holds
    <3> QED  BY <1>11, <3>1, <3>2
  <2> QED  BY <2>1, <2>2, <2>3 DEF Kinds
<1>14. OneHolder'
  BY <1>4, <1>13, HolderMoves DEF OwnerInv
<1>15. conn[d] = "open"
  BY <1>3, <1>4, Connected
<1>16. LostAlone'
  <2>1. \A c \in Clients : SynLost(c)' => SynLost(c) /\ c # d
    BY <1>2, <1>15 DEF SynLost
  <2> QED  BY <1>13, <2>1, LostMoves DEF OwnerInv
<1>17. Phases'
  BY <1>2, <1>6, <1>8, <1>9, <1>15, PhasesKept DEF OwnerInv
<1> QED  BY <1>14, <1>16, <1>17 DEF OwnerInv

(* CONNECTION_STATE moves it from the message into the target's accept     *)
(* queue.                                                                  *)
LEMMA OwnerConnState ==
  ASSUME OwnerInv, TypeOK', NEW h \in Hosts, RxConnState(h)
  PROVE  OwnerInv'
<1>1. PICK d, a, t, e :
        /\ d = Packet1(h).client /\ t = Packet1(h).src
        /\ a = ConnStateAck(d, h) /\ e = [client |-> d, cb |-> Packet1(h).cb]
  OBVIOUS
<1>2. /\ inq[h] # <<>> /\ Packet1(h).type = "CONN_STATE" /\ active[h][d] # None
      /\ active' = [active EXCEPT ![h][d].stage = "ConnStateAck"]
      /\ ready' = [ready EXCEPT ![h] = Append(@, e)]
      /\ Reply(h, t, a)
      /\ UNCHANGED <<inflight, established, conn, dropped>>
  BY <1>1 DEF RxConnState, Received, tableVars, clientVars
<1>3. /\ d \in Clients /\ t \in Hosts /\ Packet1(h) \in Packets(h)
      /\ 1 \in DOMAIN inq[h] /\ Packet1(h) = inq[h][1] /\ Packet1(h).cb \in CB
  <2>1. inq \in Queues
    BY DEF OwnerInv, TypeOK, Queues
  <2>2. /\ Packet1(h) \in Packet
        /\ 1 \in DOMAIN inq[h] /\ Packet1(h) = inq[h][1]
    BY <2>1, <1>2, HeadIsPacket
  <2>3. /\ Packet1(h).client \in Clients /\ Packet1(h).src \in Hosts
        /\ Packet1(h).cb \in CB
    BY <2>2, <1>2, PacketTypes DEF TcpMigTypes
  <2> QED  BY <1>1, <2>2, <2>3 DEF Packets
<1>4. a \in Packet /\ a.client = d /\ a.type = "CONN_STATE_ACK"
  <2>1. a \in Packet
    BY <1>1, <1>3, MessageTypes
  <2> QED  BY <1>1, <2>1 DEF ConnStateAck
<1>5. conn[d] = "open"
  BY <1>2, <1>3, Connected
<1>6. /\ \A c \in Clients, g \in Hosts, i \in Nat :
            Holds(c, "net", g, i)' =>
                i > 0 /\ Holds(c, "net", g, Was("net", h, "net", g, i))
      /\ \A g \in Hosts : Packets(g)' \subseteq Packets(g) \cup {a}
  BY <1>2, <1>3, <1>4, NetReply DEF Carries, OwnerInv
<1>7. Holds(d, "net", h, 1)
  BY <1>1, <1>2, <1>3 DEF Holds, Carries
<1>8. \A k \in Kinds, g \in Hosts, i \in Nat :
        Holds(d, k, g, Was("net", h, k, g, i)) => k = "net" /\ g = h /\ i = 0
  BY <1>3, <1>7, OthersGone DEF OwnerInv
<1>9. PICK n : n = Len(ready'[h])
  OBVIOUS
<1>10. \A g \in Hosts : \A i \in DOMAIN ready'[g] :
            \/ i \in DOMAIN ready[g] /\ ready'[g][i] = ready[g][i]
            \/ g = h /\ i = n /\ ready'[g][i].client = d
  <2>1. /\ ready \in [Hosts -> Seq([client: Clients, cb: CB])]
        /\ e \in [client: Clients, cb: CB] /\ e.client = d
    BY <1>1, <1>3 DEF OwnerInv, TypeOK
  <2> QED  BY <1>2, <1>9, <2>1
<1>11. Moves("net", h, d, "ready", h, n)
  <2> SUFFICES ASSUME NEW c \in Clients, NEW k \in Kinds, NEW g \in Hosts,
                      NEW i \in Nat, Holds(c, k, g, i)'
               PROVE  IF c = d THEN k = "ready" /\ g = h /\ i = n
                               ELSE Holds(c, k, g, Was("net", h, k, g, i))
    BY DEF Moves
  <2>1. CASE k = "net"
    BY <1>6, <1>8, <2>1
  <2>2. CASE k = "ready"
    <3>1. Was("net", h, k, g, i) = i
      BY <2>2 DEF Was
    <3> QED  BY <1>8, <1>10, <2>2, <3>1 DEF Holds
  <2>3. CASE k \in {"hand", "table"}
    <3>1. Was("net", h, k, g, i) = i
      BY <2>3 DEF Was
    <3>2. Holds(c, k, g, i)
      BY <1>2, <2>3 DEF Holds
    <3> QED  BY <1>8, <2>3, <3>1, <3>2
  <2> QED  BY <2>1, <2>2, <2>3 DEF Kinds
<1>12. OneHolder'
  BY <1>3, <1>11, HolderMoves DEF OwnerInv
<1>13. LostAlone'
  <2>1. \A c \in Clients : SynLost(c)' => SynLost(c) /\ c # d
    BY <1>2, <1>5 DEF SynLost
  <2> QED  BY <1>11, <2>1, LostMoves DEF OwnerInv
<1>14. \A g \in Hosts, c \in Clients :
            active'[g][c] # None => active[g][c] # None \/ c = d
  <2>1. active' = [active EXCEPT ![h][d] =
                        [active[h][d] EXCEPT !.stage = "ConnStateAck"]]
    BY <1>2, <1>3 DEF OwnerInv, TypeOK
  <2>2. PICK y : active' = [active EXCEPT ![h][d] = y]
    BY <2>1
  <2> QED  BY <1>3, <2>2, EstablishedSet, ActiveSet DEF OwnerInv
<1>15. Phases'
  BY <1>2, <1>4, <1>5, <1>6, <1>10, <1>14, PhasesKept DEF OwnerInv
<1> QED  BY <1>12, <1>13, <1>15 DEF OwnerInv

(* CONN_STATE_ACK and messages out of stage keep the invariant. *)
LEMMA OwnerAck ==
  ASSUME OwnerInv, TypeOK', NEW h \in Hosts,
         RxConnStateAck(h) \/ RxUnexpected(h)
  PROVE  OwnerInv'
<1>1. PICK d : d = Packet1(h).client
  OBVIOUS
<1>2. /\ inq[h] # <<>> /\ Consume(h) /\ active[h][d] # None
      /\ UNCHANGED <<inflight, ready, established, conn>>
  BY <1>1 DEF RxConnStateAck, RxUnexpected, Received, listenVars, tableVars,
              clientVars
<1>3. d \in Clients
  BY <1>1, <1>2, HeadIsPacket, PacketTypes DEF OwnerInv, TypeOK, Queues
<1>4. conn[d] = "open"
  BY <1>2, <1>3, Connected
<1>5. /\ \A c \in Clients : c # d => dropped'[c] = dropped[c]
      /\ \A g \in Hosts, c \in Clients :
            active'[g][c] # None => active[g][c] # None
  <2>1. CASE RxConnStateAck(h)
    BY <1>1, <1>3, <2>1 DEF RxConnStateAck, CloseMigration, OwnerInv, TypeOK
  <2>2. CASE RxUnexpected(h)
    BY <2>2 DEF RxUnexpected, clientVars
  <2> QED  BY <2>1, <2>2
<1>6. /\ Keeps("net", h)
      /\ \A g \in Hosts : Packets(g)' \subseteq Packets(g)
  BY <1>2, KeepsConsume DEF OwnerInv
<1>7. Phases'
  BY <1>2, <1>4, <1>5, <1>6, PhasesKept DEF OwnerInv
<1>8. \A c \in Clients : SynLost(c)' => SynLost(c)
  BY <1>2, <1>4, <1>5 DEF SynLost
<1> QED  BY <1>6, <1>7, <1>8, OwnerKept

(* The steps of the application and of its coroutines. *)
LEMMA OwnerPollAccept ==
  ASSUME OwnerInv, TypeOK', NEW h \in Hosts, PollAccept(h)
  PROVE  OwnerInv'
<1>1. PICK d : d = Head(ready[h]).client
  OBVIOUS
<1>a. ready \in [Hosts -> Seq([client: Clients, cb: CB])]
  BY DEF OwnerInv, TypeOK
<1>2. /\ ready[h] # <<>> /\ ready' = [ready EXCEPT ![h] = Tail(@)]
      /\ active' = [active EXCEPT ![h][d] = None]
      /\ UNCHANGED <<inq, inflight, conn, dropped>>
  BY <1>1 DEF PollAccept, Acceptor, CloseMigration, clientVars
<1>3. PICK x : established' = [established EXCEPT ![h][d] = x]
  <2>1. \E x : established' = [established EXCEPT ![h][Head(ready[h]).client] = x]
    BY DEF PollAccept
  <2> QED  BY <1>1, <2>1
<1>4. 1 \in DOMAIN ready[h] /\ ready[h][1].client = d /\ d \in Clients
  <2>1. ready[h] \in Seq([client: Clients, cb: CB])
    BY <1>a
  <2>2. Head(ready[h]) = ready[h][1] /\ 1 \in DOMAIN ready[h]
    BY <1>2, <2>1
  <2>3. d \in Clients
    BY <1>1, <1>2, <1>a, ReadyTypes, NewCBType DEF OwnerInv
  <2> QED  BY <1>1, <2>2, <2>3
<1>5. Holds(d, "ready", h, 1)
  BY <1>4 DEF Holds
<1>6. \A k \in Kinds, g \in Hosts, i \in Nat :
        Holds(d, k, g, Was("ready", h, k, g, i)) =>
            k = "ready" /\ g = h /\ i = 0
  BY <1>4, <1>5, OthersGone DEF OwnerInv
<1>7. \A g \in Hosts : \A i \in DOMAIN ready'[g] :
        /\ i > 0
        /\ Was("ready", h, "ready", g, i) \in DOMAIN ready[g]
        /\ ready'[g][i] = ready[g][Was("ready", h, "ready", g, i)]
  BY <1>2, <1>a, HeadTailProperties DEF Was
<1>8. \A g \in Hosts, c \in Clients :
        /\ established'[g][c] # None =>
                established[g][c] # None \/ (g = h /\ c = d)
        /\ active'[g][c] # None => active[g][c] # None
  <2>1. \A g \in Hosts, c \in Clients :
            established'[g][c] = IF g = h /\ c = d THEN x ELSE established[g][c]
    <3>1. established \in [Hosts -> [Clients -> CB \cup {None}]]
      BY DEF OwnerInv, TypeOK
    <3>2. d \in Clients /\ established' = [established EXCEPT ![h][d] = x]
      BY <1>3, <1>4
    <3> QED  BY <3>1, <3>2
  <2>2. \A g \in Hosts, c \in Clients :
            active'[g][c] = IF g = h /\ c = d THEN None ELSE active[g][c]
    <3>1. active \in [Hosts -> [Clients -> Migration \cup {None}]]
      BY DEF OwnerInv, TypeOK
    <3> QED  BY <1>2, <1>4, <3>1
  <2> QED  BY <2>1, <2>2
<1>9. Moves("ready", h, d, "table", h, 0)
  <2> SUFFICES ASSUME NEW c \in Clients, NEW k \in Kinds, NEW g \in Hosts,
                      NEW i \in Nat, Holds(c, k, g, i)'
               PROVE  IF c = d THEN k = "table" /\ g = h /\ i = 0
                               ELSE Holds(c, k, g, Was("ready", h, k, g, i))
    BY DEF Moves
  <2>1. CASE k = "ready"
    BY <1>6, <1>7, <2>1 DEF Holds
  <2>2. CASE k \in {"net", "hand"}
    <3>1. Was("ready", h, k, g, i) = i
      BY <2>2 DEF Was
    <3>2. Holds(c, k, g, i)
      BY <1>2, <2>2 DEF Holds
    <3> QED  BY <1>6, <2>2, <3>1, <3>2
  <2>3. CASE k = "table"
    <3>1. Was("ready", h, k, g, i) = i
      BY <2>3 DEF Was
    <3>2. i = 0 /\ (Holds(c, k, g, i) \/ (g = h /\ c = d))
      BY <1>8, <2>3 DEF Holds
    <3> QED  BY <1>6, <2>3, <3>1, <3>2
  <2> QED  BY <2>1, <2>2, <2>3 DEF Kinds
<1>10. OneHolder'
  BY <1>4, <1>9, HolderMoves DEF OwnerInv
<1>11. conn[d] = "open"
  BY <1>4, Connected
<1>12. LostAlone'
  <2>1. \A c \in Clients : SynLost(c)' => SynLost(c) /\ c # d
    BY <1>2, <1>11 DEF SynLost
  <2> QED  BY <1>9, <2>1, LostMoves DEF OwnerInv
<1>13. Phases'
  <2>1. \A g \in Hosts : Packets(g)' \subseteq Packets(g)
    BY <1>2 DEF Packets
  <2> QED  BY <1>2, <1>7, <1>8, <1>11, <2>1, PhasesKept DEF OwnerInv
<1> QED  BY <1>10, <1>12, <1>13 DEF OwnerInv

(* Starting a migration, pop(), close() and an abort keep the invariant. *)
LEMMA OwnerIdle ==
  ASSUME OwnerInv, TypeOK',
         UNCHANGED <<inq, inflight, ready, active, conn, dropped>>,
         \A g \in Hosts, c \in Clients :
            established'[g][c] # None => established[g][c] # None
  PROVE  OwnerInv'
<1>1. Keeps("none", "none")
  BY DEF Keeps, Was, Holds, Kinds
<1>2. Phases'
  BY PhasesKept DEF Packets, OwnerInv
<1>3. \A c \in Clients : SynLost(c)' => SynLost(c)
  BY DEF SynLost
<1> QED  BY <1>1, <1>2, <1>3, OwnerKept

(* accept() moves the connection from the accept queue into the tables;    *)
(* reading keeps the invariant.                                            *)
LEMMA OwnerApplication ==
  ASSUME OwnerInv, TypeOK', NEW h \in Hosts, NEW q \in QDs,
         Pop(h, q) \/ PollRecv(h, q) \/ PollMigratedOut(h, q) \/ Close(h, q)
  PROVE  OwnerInv'
<1>1. UNCHANGED <<inq, inflight, ready, active, conn, dropped>>
  BY DEF Pop, PollRecv, PollMigratedOut, Close, listenVars, clientVars
<1>2. \A g \in Hosts, c \in Clients :
        established'[g][c] # None => established[g][c] # None
  <2>1. CASE PollRecv(h, q)
    <3>1. PICK d, n : /\ d = sockets[h][q].client
                      /\ n = established[h][d].read + 1
      OBVIOUS
    <3>2. /\ established[h][d] # None /\ sockets[h][q] # None
          /\ \/ established' = [established EXCEPT ![h][d].read = n]
             \/ established' = established
      BY <2>1, <3>1 DEF PollRecv
    <3>3. d \in Clients
      <4>1. sockets[h][q] \in Socket
        BY <3>2 DEF OwnerInv, TypeOK
      <4> QED  BY <3>1, <4>1 DEF Socket
    <3>4. CASE established' = established
      BY <3>4
    <3>5. CASE established' = [established EXCEPT ![h][d].read = n]
      <4>1. established' = [established EXCEPT ![h][d] =
                                [established[h][d] EXCEPT !.read = n]]
        BY <3>3, <3>5 DEF OwnerInv, TypeOK
      <4>2. PICK x : established' = [established EXCEPT ![h][d] = x]
        BY <4>1
      <4> QED  BY <3>2, <3>3, <4>2, EstablishedSet, ActiveSet DEF OwnerInv
    <3> QED  BY <3>2, <3>4, <3>5
  <2>2. CASE Pop(h, q) \/ PollMigratedOut(h, q) \/ Close(h, q)
    BY <2>2 DEF Pop, PollMigratedOut, Close, tableVars
  <2> QED  BY <2>1, <2>2
<1> QED  BY <1>1, <1>2, OwnerIdle

-----------------------------------------------------------------------------
(* On a network that duplicates nothing, the invariant is inductive. *)
LEMMA OwnerStep ==
  ASSUME MaxDup = 0, OwnerInv, [Next]_vars
  PROVE  OwnerInv'
<1>1. TypeOK'
  BY TypeStep DEF OwnerInv
<1>2. CASE UNCHANGED vars
  BY <1>1, <1>2, OwnerIdle DEF vars, listenVars, tableVars, clientVars
<1>3. CASE Next
  <2>1. ASSUME NEW c \in Clients, Client(c) PROVE OwnerInv'
    BY <1>1, <2>1, OwnerConnect, OwnerEstablish, OwnerSend, OwnerRetransmit
       DEF Client
  <2>2. ASSUME NEW h \in Hosts, Receive(h) PROVE OwnerInv'
    BY <1>1, <2>2, OwnerSegment, OwnerPassive, OwnerPrepare, OwnerPrepareAck,
       OwnerConnState, OwnerAck DEF Receive
  <2>3. ASSUME NEW h \in Hosts, PollAccept(h) PROVE OwnerInv'
    BY <1>1, <2>3, OwnerPollAccept
  <2>4. ASSUME NEW h \in Hosts, Accept(h) \/ Abort(h) PROVE OwnerInv'
    BY <1>1, <2>4, OwnerIdle
       DEF Accept, Abort, listenVars, tableVars, clientVars
  <2>5. ASSUME NEW h \in Hosts, Lose(h) PROVE OwnerInv'
    BY <1>1, <2>5, OwnerLose
  <2>6. ASSUME NEW h \in Hosts, Duplicate(h) PROVE OwnerInv'
    <3>1. budget.dup > 0 /\ budget.dup \in 0..0
      BY <2>6 DEF Duplicate, OwnerInv, TypeOK, Budget
    <3> QED  BY <3>1
  <2>7. ASSUME NEW h \in Hosts, NEW c \in Clients, InitiateMigration(h, c)
        PROVE  OwnerInv'
    BY <1>1, <2>7, OwnerInitiate
  <2>8. ASSUME NEW h \in Hosts, NEW q \in QDs,
               \/ Pop(h, q) \/ PollRecv(h, q)
               \/ PollMigratedOut(h, q) \/ Close(h, q)
        PROVE  OwnerInv'
    BY <1>1, <2>8, OwnerApplication
  <2> QED  BY <1>3, <2>1, <2>2, <2>3, <2>4, <2>5, <2>6, <2>7, <2>8 DEF Next
<1> QED  BY <1>2, <1>3

(* Whatever the number of hosts, connections and migrations in progress,   *)
(* and whatever messages are lost, the hand-over of migrate_out_connection *)
(* and migrate_in_connection never gives a connection two owners.          *)
THEOREM SingleOwnerInvariant ==
  ASSUME MaxDup = 0
  PROVE  Spec => []SingleOwner
<1>1. Init => OwnerInv
  BY OwnerInit
<1>2. OwnerInv /\ [Next]_vars => OwnerInv'
  BY OwnerStep
<1>3. OwnerInv => SingleOwner
  BY OwnerInvImpliesSingleOwner
<1> QED  BY <1>1, <1>2, <1>3, PTL DEF Spec
-----------------------------------------------------------------------------
(* The tables of a host agree and no descriptor has two uses, on any       *)
(* network (lossy, duplicating) and whether or not the application         *)
(* closes connections.                                                     *)

(* The tables of a host, entry by entry. *)
LEMMA TableTypes ==
  ASSUME TypeOK
  PROVE  /\ sockets \in [Hosts -> [QDs -> Socket \cup {None}]]
         /\ qds \in [Hosts -> [Clients -> QDs \cup {None}]]
         /\ established \in [Hosts -> [Clients -> CB \cup {None}]]
         /\ active \in [Hosts -> [Clients -> Migration \cup {None}]]
         /\ freeQds \in [Hosts -> SUBSET QDs]
         /\ acceptQd \in [Hosts -> QDs \cup {None}]
BY DEF TypeOK

(* A socket names a client, and a descriptor it serves is not None. *)
LEMMA SocketTypes ==
  ASSUME TypeOK, NEW h \in Hosts, NEW q \in QDs, sockets[h][q] # None
  PROVE  /\ sockets[h][q] \in Socket
         /\ sockets[h][q].client \in Clients
         /\ sockets[h][q].tag = "Established" =>
                IsOpenFor(h, q, sockets[h][q].client)
<1>1. sockets[h][q] \in Socket
  BY TableTypes
<1> QED  BY <1>1 DEF Socket, IsOpenFor

(* The oldest connection of the accept queue. *)
LEMMA ReadyHead ==
  ASSUME TypeOK, NEW h \in Hosts, ready[h] # <<>>
  PROVE  Head(ready[h]).client \in Clients /\ Head(ready[h]).cb \in CB
<1>1. ready[h] \in Seq([client: Clients, cb: CB])
  BY DEF TypeOK
<1>2. Head(ready[h]) \in [client: Clients, cb: CB]
  BY <1>1, HeadTailProperties
<1> QED  BY <1>2

(* Initially the tables are empty and every descriptor is free. *)
LEMMA TablesInit ==
  ASSUME Init
  PROVE  TablesHold
<1>1. \A h \in Hosts, c \in Clients :
          established[h][c] = None /\ qds[h][c] = None
  BY DEF Init
<1>2. \A h \in Hosts, q \in QDs :
          sockets[h][q] = None /\ acceptQd[h] = None
  BY DEF Init
<1>3. \A h \in Hosts, q \in QDs, c \in Clients : ~IsOpenFor(h, q, c)
  BY <1>2, NoneAssumption DEF IsOpenFor, Socket
<1>4. TablesAgree
  BY <1>1, <1>3 DEF TablesAgree
<1>5. DescriptorsUnique
  BY <1>2, NoneAssumption DEF DescriptorsUnique
<1> QED  BY <1>4, <1>5 DEF TablesHold

(* The tables agree still when sockets and qds stay as they are and no     *)
(* host gains or loses a control block ...                                 *)
LEMMA AgreementUntouched ==
  ASSUME TablesAgree, UNCHANGED <<sockets, qds>>,
         \A h \in Hosts, c \in Clients :
             established'[h][c] # None <=> established[h][c] # None
  PROVE  TablesAgree'
BY DEF TablesAgree, IsOpenFor

(* ... and the descriptors keep their uses when those stay, too. *)
LEMMA TablesUntouched ==
  ASSUME TablesHold, UNCHANGED <<sockets, qds, freeQds, acceptQd>>,
         \A h \in Hosts, c \in Clients :
             established'[h][c] # None <=> established[h][c] # None
  PROVE  TablesHold'
<1>1. TablesAgree'
  BY AgreementUntouched DEF TablesHold
<1> QED  BY <1>1 DEF TablesHold, DescriptorsUnique

(* Rewriting a control block in place neither adds nor removes one. *)
LEMMA ControlBlockStays ==
  ASSUME TypeOK, NEW h \in Hosts, NEW c \in Clients, established[h][c] # None,
         NEW cb \in CB, established' = [established EXCEPT ![h][c] = cb]
  PROVE  \A g \in Hosts, d \in Clients :
             established'[g][d] # None <=> established[g][d] # None
BY NoneAssumption DEF TypeOK

(* The tables stay as they are while a client, the network, the migration  *)
(* protocol before PREPARE_ACK or the reader of a connection takes a step. *)
LEMMA TablesRest ==
  ASSUME TypeOK, TablesHold,
         \/ \E c \in Clients : Client(c)
         \/ \E h \in Hosts :
                \/ Lose(h) \/ Duplicate(h) \/ Abort(h)
                \/ RxBuffered(h) \/ RxPassive(h) \/ RxPrepare(h)
                \/ RxConnState(h) \/ RxConnStateAck(h) \/ RxUnexpected(h)
                \/ \E q \in QDs : Pop(h, q) \/ PollMigratedOut(h, q)
  PROVE  TablesHold'
<1>1. UNCHANGED <<tableVars, freeQds, acceptQd>>
  <2>1. ASSUME NEW c \in Clients, Client(c)
        PROVE  UNCHANGED <<tableVars, freeQds, acceptQd>>
    BY <2>1 DEF Client, ClientConnect, ClientEstablish, ClientSend,
                ClientRetransmit, appVars
  <2>2. ASSUME NEW h \in Hosts, Lose(h) \/ Duplicate(h) \/ Abort(h)
        PROVE  UNCHANGED <<tableVars, freeQds, acceptQd>>
    BY <2>2 DEF Lose, Duplicate, Abort, appVars
  <2>3. ASSUME NEW h \in Hosts, RxBuffered(h) \/ RxPassive(h) \/ RxPrepare(h)
        PROVE  UNCHANGED <<tableVars, freeQds, acceptQd>>
    BY <2>3 DEF RxBuffered, RxPassive, RxPrepare, appVars
  <2>4. ASSUME NEW h \in Hosts,
               RxConnState(h) \/ RxConnStateAck(h) \/ RxUnexpected(h)
        PROVE  UNCHANGED <<tableVars, freeQds, acceptQd>>
    BY <2>4 DEF RxConnState, RxConnStateAck, RxUnexpected, appVars
  <2>5. ASSUME NEW h \in Hosts, NEW q \in QDs, Pop(h, q) \/ PollMigratedOut(h, q)
        PROVE  UNCHANGED <<tableVars, freeQds, acceptQd>>
    BY <2>5 DEF Pop, PollMigratedOut
  <2> QED  BY <2>1, <2>2, <2>3, <2>4, <2>5
<1> QED  BY <1>1, TablesUntouched DEF tableVars

(* Data received, data read and the start of a migration change a control  *)
(* block in place.                                                         *)
LEMMA TablesInPlace ==
  ASSUME TypeOK, TypeOK', TablesHold, NEW h \in Hosts,
         \/ RxEstablished(h) \/ RxReturned(h)
         \/ \E c \in Clients : InitiateMigration(h, c)
         \/ \E q \in QDs : PollRecv(h, q)
  PROVE  TablesHold'
<1>1. CASE RxEstablished(h)
  <2> DEFINE c == Packet1(h).client
             cb == CbReceive(established[h][c], Packet1(h).seq)
  <2>1. /\ established[h][c] # None /\ UNCHANGED <<sockets, qds, freeQds, acceptQd>>
        /\ established' = [established EXCEPT ![h][c] = cb]
    BY <1>1 DEF RxEstablished
  <2>2. /\ Packet1(h) \in Packet
        /\ Packet1(h).type \in {"SYN", "DATA"}
    BY <1>1, HeadIsPacket DEF RxEstablished, Received, TypeOK, Queues
  <2>3. c \in Clients /\ Packet1(h).seq \in Segs
    BY <2>2, PacketTypes
  <2> HIDE DEF c
  <2>4. cb \in CB
    <3>1. established[h][c] \in CB
      BY <2>1, <2>3, TableTypes
    <3> QED  BY <2>3, <3>1, CBTypes
  <2> HIDE DEF cb
  <2> QED  BY <2>1, <2>3, <2>4, ControlBlockStays, TablesUntouched
<1>2. CASE RxReturned(h)
  <2> DEFINE c == Packet1(h).client
             cb == [established[h][c] EXCEPT !.tracked = FALSE]
  <2>1. /\ established[h][c] # None /\ UNCHANGED <<sockets, qds, freeQds, acceptQd>>
        /\ established' = [established EXCEPT ![h][c].tracked = FALSE]
    BY <1>2 DEF RxReturned, appVars
  <2>2. Packet1(h) \in Packet
    BY <1>2, HeadIsPacket DEF RxReturned, Received, TypeOK, Queues
  <2>3. c \in Clients
    BY <2>2, PacketTypes
  <2> HIDE DEF c
  <2>4. cb \in CB /\ established' = [established EXCEPT ![h][c] = cb]
    <3>1. established[h][c] \in CB
      BY <2>1, <2>3, TableTypes
    <3>2. established' = [established EXCEPT ![h][c] = cb]
      BY <2>1, <2>3, TableTypes
    <3> QED  BY <3>1, <3>2, CBTypes
  <2> HIDE DEF cb
  <2> QED  BY <2>1, <2>3, <2>4, ControlBlockStays, TablesUntouched
<1>3. ASSUME NEW c \in Clients, InitiateMigration(h, c)
      PROVE  TablesHold'
  <2> DEFINE cb == [established[h][c] EXCEPT !.tracked = FALSE]
  <2>1. /\ established[h][c] # None /\ UNCHANGED <<sockets, qds, freeQds, acceptQd>>
        /\ established' = [established EXCEPT ![h][c].tracked = FALSE]
    BY <1>3 DEF InitiateMigration, appVars
  <2>2. cb \in CB /\ established' = [established EXCEPT ![h][c] = cb]
    <3>1. established[h][c] \in CB
      BY <2>1, TableTypes
    <3>2. established' = [established EXCEPT ![h][c] = cb]
      BY <2>1, TableTypes
    <3> QED  BY <3>1, <3>2, CBTypes
  <2> HIDE DEF cb
  <2> QED  BY <2>1, <2>2, ControlBlockStays, TablesUntouched
<1>4. ASSUME NEW q \in QDs, PollRecv(h, q)
      PROVE  TablesHold'
  <2> DEFINE c == sockets[h][q].client
             cb == [established[h][c] EXCEPT !.read = established[h][c].read + 1]
  <2>1. /\ established[h][c] # None /\ UNCHANGED <<sockets, qds, freeQds, acceptQd>>
        /\ \/ /\ established[h][c].read + 1 \in established[h][c].got
              /\ established' = [established EXCEPT ![h][c].read =
                                            established[h][c].read + 1]
           \/ UNCHANGED established
    BY <1>4, Zenon DEF PollRecv
  <2>2. c \in Clients
    <3>1. sockets[h][q] # None
      BY <1>4 DEF PollRecv
    <3> QED  BY <3>1, SocketTypes
  <2>3. CASE UNCHANGED established
    BY <2>1, <2>3, TablesUntouched
  <2>4. CASE /\ established[h][c].read + 1 \in established[h][c].got
             /\ established' = [established EXCEPT ![h][c].read =
                                            established[h][c].read + 1]
    <3> HIDE DEF c
    <3>1. established[h][c] \in CB
      BY <2>1, <2>2, TableTypes
    <3>2. cb \in CB
      BY <2>4, <3>1, CBTypes
    <3>3. established' = [established EXCEPT ![h][c] = cb]
      BY <2>2, <2>4, TableTypes
    <3> HIDE DEF cb
    <3> QED  BY <2>1, <2>2, <3>2, <3>3, ControlBlockStays, TablesUntouched
  <2> QED  BY <2>1, <2>3, <2>4
<1> QED  BY <1>1, <1>2, <1>3, <1>4

(* migrate_out_connection: all that the tables said of the connection goes *)
(* at once.  The client of the socket is the one whose entries are removed *)
(* because the tables agreed before.                                       *)
LEMMA TablesMigrateOut ==
  ASSUME TypeOK, TablesHold, NEW h \in Hosts, RxPrepareAck(h)
  PROVE  TablesHold'
<1> DEFINE p == Packet1(h)
           q == active[h][p.client].qd
           c == MigrateOutConn(h, p)
           gone == [sockets[h][q] EXCEPT !.tag = "MigratedOut"]
<1>1. /\ active[h][p.client] # None /\ CanMigrateOut(h, p)
      /\ MigrateOut(h, q, c) /\ UNCHANGED <<freeQds, acceptQd>>
      /\ Received(h) /\ p.type = "PREPARE_ACK"
  BY DEF RxPrepareAck
<1>2. p.client \in Clients
  BY <1>1, HeadIsPacket, PacketTypes DEF Received, TypeOK, Queues
<1>3. q \in QDs
  <2>1. active[h][p.client] \in Migration
    BY <1>1, <1>2 DEF TypeOK
  <2> QED  BY <1>1, <2>1, MigrationTypes DEF CanMigrateOut
<1>4. /\ sockets[h][q] \in Socket /\ sockets[h][q].tag = "Established"
      /\ c = sockets[h][q].client /\ c \in Clients
  <2>1. /\ sockets[h][q] # None /\ sockets[h][q].tag = "Established"
        /\ c = sockets[h][q].client
    BY <1>1 DEF CanMigrateOut, MigrateOutConn
  <2> QED  BY <1>3, <2>1, SocketTypes
<1>5. IsOpenFor(h, q, c)
  BY <1>1, <1>3, <1>4, SocketTypes DEF CanMigrateOut
<1>6. qds[h][c] = q
  BY <1>3, <1>4, <1>5 DEF TablesHold, TablesAgree
<1>7. /\ sockets' = [sockets EXCEPT ![h][q].tag = "MigratedOut"]
      /\ qds' = [qds EXCEPT ![h][c] = None]
      /\ established' = [established EXCEPT ![h][c] = None]
  BY <1>1 DEF MigrateOut
<1>8. gone \in Socket /\ gone.tag = "MigratedOut"
  BY <1>4 DEF Socket
<1>9. sockets' = [sockets EXCEPT ![h][q] = gone]
  BY <1>3, <1>7 DEF TypeOK
<1> HIDE DEF p, q, c, gone
<1>10. /\ sockets \in [Hosts -> [QDs -> Socket \cup {None}]]
       /\ qds \in [Hosts -> [Clients -> QDs \cup {None}]]
       /\ established \in [Hosts -> [Clients -> CB \cup {None}]]
  BY DEF TypeOK
<1>11. \A g \in Hosts, r \in QDs : <<g, r>> # <<h, q>> => sockets'[g][r] = sockets[g][r]
  BY <1>3, <1>9, <1>10
<1>12. sockets'[h][q] = gone
  BY <1>3, <1>9, <1>10
<1>13. \A g \in Hosts, d \in Clients :
          <<g, d>> # <<h, c>> => /\ qds'[g][d] = qds[g][d]
                                 /\ established'[g][d] = established[g][d]
  BY <1>4, <1>7, <1>10
<1>14. qds'[h][c] = None /\ established'[h][c] = None
  BY <1>4, <1>7, <1>10
<1>15. ASSUME NEW g \in Hosts, NEW r \in QDs, NEW d \in Clients,
              IsOpenFor(g, r, d)'
       PROVE  IsOpenFor(g, r, d) /\ <<g, r>> # <<h, q>> /\ <<g, d>> # <<h, c>>
  <2>1. <<g, r>> # <<h, q>>
    BY <1>8, <1>12, <1>15 DEF IsOpenFor
  <2>2. IsOpenFor(g, r, d)
    BY <1>11, <1>15, <2>1 DEF IsOpenFor
  <2>3. qds[g][d] = r
    BY <2>2 DEF TablesHold, TablesAgree
  <2> QED  BY <1>6, <2>1, <2>2, <2>3
<1>16. TablesAgree'
  <2>1. ASSUME NEW g \in Hosts, NEW d \in Clients
        PROVE  established'[g][d] # None <=> qds'[g][d] # None
    BY <1>13, <1>14 DEF TablesHold, TablesAgree
  <2>2. ASSUME NEW g \in Hosts, NEW d \in Clients, NEW r \in QDs,
               IsOpenFor(g, r, d)'
        PROVE  qds'[g][d] = r
    BY <1>13, <1>15, <2>2 DEF TablesHold, TablesAgree
  <2>3. ASSUME NEW g \in Hosts, NEW d \in Clients, ~AppCloses,
               qds'[g][d] # None
        PROVE  IsOpenFor(g, qds[g][d], d)'
    <3>1. <<g, d>> # <<h, c>> /\ qds'[g][d] = qds[g][d]
      BY <1>13, <1>14, <2>3
    <3>2. IsOpenFor(g, qds[g][d], d) /\ qds[g][d] \in QDs
      BY <1>10, <2>3, <3>1 DEF TablesHold, TablesAgree
    <3>3. <<g, qds[g][d]>> # <<h, q>>
      <4>1. SUFFICES ASSUME g = h, qds[g][d] = q PROVE d = c
        BY <3>1
      <4> QED  BY <1>5, <3>2, <4>1 DEF IsOpenFor
    <3> QED  BY <1>11, <3>1, <3>2, <3>3 DEF IsOpenFor
  <2> QED
    <3>1. ASSUME NEW g \in Hosts, NEW d \in Clients, ~AppCloses,
                 qds'[g][d] # None
          PROVE  IsOpenFor(g, qds[g][d], d)' /\ qds'[g][d] = qds[g][d]
      BY <1>13, <1>14, <2>3, <3>1
    <3>2. SUFFICES ASSUME NEW g \in Hosts, NEW d \in Clients
          PROVE  /\ established'[g][d] # None <=> qds'[g][d] # None
                 /\ \A r \in QDs : IsOpenFor(g, r, d)' => qds'[g][d] = r
                 /\ ~AppCloses /\ qds'[g][d] # None =>
                        sockets'[g][qds'[g][d]] =
                            [tag |-> "Established", client |-> d]
      BY DEF TablesAgree, IsOpenFor
    <3> QED  BY <2>1, <2>2, <3>1 DEF IsOpenFor
<1>17. DescriptorsUnique'
  <2>1. \A g \in Hosts, r \in QDs : sockets'[g][r] # None => sockets[g][r] # None
    BY <1>4, <1>11, NoneAssumption
  <2> QED  BY <1>1, <2>1 DEF TablesHold, DescriptorsUnique
<1> QED  BY <1>16, <1>17 DEF TablesHold

(* accept() takes a descriptor that is no socket's out of the free ones. *)
LEMMA TablesAccept ==
  ASSUME TypeOK, TablesHold, NEW h \in Hosts, Accept(h)
  PROVE  TablesHold'
<1>1. PICK q \in freeQds[h] :
          /\ acceptQd' = [acceptQd EXCEPT ![h] = q]
          /\ freeQds' = [freeQds EXCEPT ![h] = @ \ {q}]
  BY DEF Accept
<1>2. /\ freeQds \in [Hosts -> SUBSET QDs] /\ acceptQd \in [Hosts -> QDs \cup {None}]
      /\ q \in QDs /\ sockets[h][q] = None
  BY DEF TypeOK, TablesHold, DescriptorsUnique
<1>3. UNCHANGED <<established, sockets, qds>>
  BY DEF Accept, tableVars
<1>4. DescriptorsUnique'
  BY <1>1, <1>2, <1>3 DEF TablesHold, DescriptorsUnique
<1>5. TablesAgree'
  BY <1>3, AgreementUntouched DEF TablesHold
<1> QED  BY <1>4, <1>5 DEF TablesHold

(* poll_accept enters a connection in the three tables at once, under the  *)
(* descriptor accept() reserved.                                           *)
LEMMA TablesPollAccept ==
  ASSUME TypeOK, TypeOK', TablesHold, NEW h \in Hosts, PollAccept(h)
  PROVE  TablesHold'
<1> DEFINE c  == Head(ready[h]).client
           a  == acceptQd[h]
           cb == established'[h][c]
           open == [tag |-> "Established", client |-> c]
<1>1. /\ a # None /\ ready[h] # <<>>
      /\ sockets[h][a] # None => sockets[h][a].tag = "MigratedOut"
      /\ qds[h][c] = None /\ established[h][c] = None
  BY DEF PollAccept, Acceptor, Acceptable
<1>2. /\ sockets' = [sockets EXCEPT ![h][a] = open]
      /\ qds' = [qds EXCEPT ![h][c] = a]
      /\ acceptQd' = [acceptQd EXCEPT ![h] = None]
      /\ UNCHANGED freeQds
  BY DEF PollAccept
<1>3. \E b : established' = [established EXCEPT ![h][c] = b]
  BY DEF PollAccept
<1>4. a \in QDs /\ c \in Clients
  BY <1>1, ReadyHead, TableTypes
<1>5. cb # None
  <2> DEFINE buf == IF active[h][c] = None THEN <<>> ELSE active[h][c].buf
             old == Head(ready[h]).cb
  <2>1. established' = [established EXCEPT ![h][c] =
                            [CbReplay(old, buf) EXCEPT !.tracked = TRUE]]
    BY DEF PollAccept
  <2> HIDE DEF c
  <2>2. cb = [CbReplay(old, buf) EXCEPT !.tracked = TRUE]
    BY <1>4, <2>1, TableTypes
  <2>3. old \in CB
    BY <1>1, ReadyHead
  <2>4. buf \in Seq(Segment)
    <3>1. active[h][c] \in Migration \cup {None}
      BY <1>4, TableTypes
    <3> QED  BY <3>1, MigrationTypes, EmptySeq
  <2>5. cb \in CB
    <3> HIDE DEF cb, old, buf
    <3>1. CbReplay(old, buf) \in CB
      BY <2>3, <2>4, CBTypes
    <3> QED  BY <2>2, <3>1, CBTypes
  <2> QED  BY <2>5, NoneAssumption
<1> HIDE DEF a, c, cb
<1>6. /\ sockets \in [Hosts -> [QDs -> Socket \cup {None}]]
      /\ qds \in [Hosts -> [Clients -> QDs \cup {None}]]
      /\ established \in [Hosts -> [Clients -> CB \cup {None}]]
      /\ acceptQd \in [Hosts -> QDs \cup {None}]
  BY DEF TypeOK
<1>7. /\ \A g \in Hosts, r \in QDs :
            <<g, r>> # <<h, a>> => sockets'[g][r] = sockets[g][r]
      /\ sockets'[h][a] = open
  BY <1>2, <1>4, <1>6
<1>8. /\ \A g \in Hosts, d \in Clients :
            <<g, d>> # <<h, c>> => /\ qds'[g][d] = qds[g][d]
                                   /\ established'[g][d] = established[g][d]
      /\ qds'[h][c] = a /\ established'[h][c] # None
  BY <1>2, <1>3, <1>4, <1>5, <1>6 DEF cb
<1>9. \A d \in Clients : ~IsOpenFor(h, a, d)
  BY <1>1, <1>4, NoneAssumption DEF IsOpenFor, a, Socket
<1>10. \A r \in QDs : ~IsOpenFor(h, r, c)
  BY <1>1, <1>4, NoneAssumption DEF TablesHold, TablesAgree, c
<1>11. ASSUME NEW g \in Hosts, NEW d \in Clients
       PROVE  established'[g][d] # None <=> qds'[g][d] # None
  BY <1>1, <1>8 DEF TablesHold, TablesAgree, a
<1>12. ASSUME NEW g \in Hosts, NEW d \in Clients, NEW r \in QDs,
              IsOpenFor(g, r, d)'
       PROVE  qds'[g][d] = r
  <2>1. CASE <<g, r>> = <<h, a>>
    BY <1>7, <1>8, <1>12, <2>1 DEF IsOpenFor
  <2>2. CASE <<g, r>> # <<h, a>>
    <3>1. IsOpenFor(g, r, d)
      BY <1>7, <1>12, <2>2 DEF IsOpenFor
    <3>2. <<g, d>> # <<h, c>>
      BY <1>10, <3>1
    <3> QED  BY <1>8, <3>1, <3>2 DEF TablesHold, TablesAgree
  <2> QED  BY <2>1, <2>2
<1>13. ASSUME NEW g \in Hosts, NEW d \in Clients, ~AppCloses, qds'[g][d] # None
       PROVE  sockets'[g][qds'[g][d]] = [tag |-> "Established", client |-> d]
  <2>1. CASE <<g, d>> = <<h, c>>
    BY <1>7, <1>8, <2>1
  <2>2. CASE <<g, d>> # <<h, c>>
    <3>1. qds'[g][d] = qds[g][d]
      BY <1>8, <2>2
    <3>2. IsOpenFor(g, qds[g][d], d) /\ qds[g][d] \in QDs
      BY <1>6, <1>13, <3>1 DEF TablesHold, TablesAgree
    <3>3. <<g, qds[g][d]>> # <<h, a>>
      BY <1>9, <3>2
    <3> QED  BY <1>7, <3>1, <3>2, <3>3 DEF IsOpenFor
  <2> QED  BY <2>1, <2>2
<1>14. TablesAgree'
  <2>1. SUFFICES ASSUME NEW g \in Hosts, NEW d \in Clients
        PROVE  /\ established'[g][d] # None <=> qds'[g][d] # None
               /\ \A r \in QDs : IsOpenFor(g, r, d)' => qds'[g][d] = r
               /\ ~AppCloses /\ qds'[g][d] # None =>
                      sockets'[g][qds'[g][d]] =
                          [tag |-> "Established", client |-> d]
    BY DEF TablesAgree, IsOpenFor
  <2> QED  BY <1>11, <1>12, <1>13
<1>15. DescriptorsUnique'
  <2>1. ASSUME NEW g \in Hosts, NEW r \in QDs
        PROVE  /\ ~(r \in freeQds[g] /\ r = acceptQd'[g])
               /\ sockets'[g][r] # None => r \notin freeQds[g] /\ r # acceptQd'[g]
    <3>1. CASE g = h
      <4>1. acceptQd'[g] = None /\ r # None
        BY <1>2, <1>6, <3>1, NoneAssumption
      <4>2. CASE r = a
        BY <3>1, <4>1, <4>2 DEF TablesHold, DescriptorsUnique, a
      <4>3. CASE r # a
        BY <1>7, <3>1, <4>1, <4>3 DEF TablesHold, DescriptorsUnique
      <4> QED  BY <4>2, <4>3
    <3>2. CASE g # h
      <4>1. acceptQd'[g] = acceptQd[g] /\ sockets'[g][r] = sockets[g][r]
        BY <1>2, <1>6, <1>7, <3>2
      <4> QED  BY <4>1 DEF TablesHold, DescriptorsUnique
    <3> QED  BY <3>1, <3>2
  <2> QED  BY <1>2, <2>1 DEF DescriptorsUnique
<1> QED  BY <1>14, <1>15 DEF TablesHold

(* close() frees the descriptor of a connection together with its socket.  *)
(* It leaves a qds entry behind, which is why qds entries are only known to*)
(* name open sockets when the application closes nothing.                  *)
LEMMA TablesClose ==
  ASSUME TypeOK, TablesHold, NEW h \in Hosts, NEW q \in QDs, Close(h, q)
  PROVE  TablesHold'
<1>1. /\ AppCloses /\ sockets[h][q] # None
      /\ sockets' = [sockets EXCEPT ![h][q] = None]
      /\ freeQds' = [freeQds EXCEPT ![h] = @ \cup {q}] \/ freeQds' = freeQds
      /\ UNCHANGED <<established, qds, acceptQd>>
  BY DEF Close
<1>2. /\ sockets \in [Hosts -> [QDs -> Socket \cup {None}]]
      /\ freeQds \in [Hosts -> SUBSET QDs]
  BY DEF TypeOK
<1>3. /\ \A g \in Hosts, r \in QDs :
            <<g, r>> # <<h, q>> => sockets'[g][r] = sockets[g][r]
      /\ sockets'[h][q] = None
  BY <1>1, <1>2
<1>4. \A g \in Hosts, r \in QDs, c \in Clients :
          IsOpenFor(g, r, c)' => IsOpenFor(g, r, c)
  BY <1>3, NoneAssumption DEF IsOpenFor, Socket
<1>5. TablesAgree'
  BY <1>1, <1>4 DEF TablesHold, TablesAgree
<1>6. ASSUME NEW g \in Hosts, NEW r \in QDs, r \in freeQds'[g]
      PROVE  r \in freeQds[g] \/ <<g, r>> = <<h, q>>
  BY <1>1, <1>2, <1>6
<1>7. DescriptorsUnique'
  <2>1. q # acceptQd[h]
    BY <1>1 DEF TablesHold, DescriptorsUnique
  <2> QED  BY <1>1, <1>3, <1>6, <2>1 DEF TablesHold, DescriptorsUnique
<1> QED  BY <1>5, <1>7 DEF TablesHold

(* No step makes the tables differ, or gives a descriptor a second use. *)
LEMMA TablesStep ==
  ASSUME TablesInv, [Next]_vars
  PROVE  TablesInv'
<1>1. TypeOK /\ TablesHold
  BY DEF TablesInv
<1>2. TypeOK'
  BY <1>1, TypeStep
<1>3. TablesHold'
  <2>1. CASE UNCHANGED vars
    BY <1>1, <2>1, TablesUntouched DEF vars, tableVars, appVars
  <2>2. ASSUME NEW c \in Clients, Client(c) PROVE TablesHold'
    BY <1>1, <2>2, TablesRest
  <2>3. ASSUME NEW h \in Hosts, Receive(h) PROVE TablesHold'
    BY <1>1, <1>2, <2>3, TablesRest, TablesInPlace, TablesMigrateOut DEF Receive
  <2>4. ASSUME NEW h \in Hosts, Accept(h) \/ PollAccept(h) PROVE TablesHold'
    BY <1>1, <1>2, <2>4, TablesAccept, TablesPollAccept
  <2>5. ASSUME NEW h \in Hosts, Lose(h) \/ Duplicate(h) \/ Abort(h)
        PROVE  TablesHold'
    BY <1>1, <2>5, TablesRest
  <2>6. ASSUME NEW h \in Hosts, NEW c \in Clients, InitiateMigration(h, c)
        PROVE  TablesHold'
    BY <1>1, <1>2, <2>6, TablesInPlace
  <2>7. ASSUME NEW h \in Hosts, NEW q \in QDs,
               Pop(h, q) \/ PollRecv(h, q) \/ PollMigratedOut(h, q) \/ Close(h, q)
        PROVE  TablesHold'
    BY <1>1, <1>2, <2>7, TablesRest, TablesInPlace, TablesClose
  <2> QED  BY <2>1, <2>2, <2>3, <2>4, <2>5, <2>6, <2>7 DEF Next
<1> QED  BY <1>2, <1>3 DEF TablesInv

(* sockets, qds and established agree on every host, and a descriptor is   *)
(* free, reserved or a socket's, never two of these, for any number of     *)
(* hosts, clients and descriptors, whatever the network loses or           *)
(* duplicates, and whether or not the application closes connections       *)
(* (poll_accept, migrate_out_connection, do_close).                        *)
THEOREM TablesInvariant == Spec => []TablesHold
<1>1. Init => TablesInv
  BY TypeInit, TablesInit DEF TablesInv
<1>2. TablesInv /\ [Next]_vars => TablesInv'
  BY TablesStep
<1>3. TablesInv => TablesHold
  BY DEF TablesInv
<1> QED  BY <1>1, <1>2, <1>3, PTL DEF Spec

-----------------------------------------------------------------------------
(* On any network, a connection becomes a control block at one host at     *)
(* most.                                                                   *)

(* Connection by connection, that is OneControlBlock. *)
LEMMA SoleIsOne ==
  ASSUME \A c \in Clients : Sole(c)
  PROVE  OneControlBlock
<1> SUFFICES ASSUME NEW c \in Clients, NEW g \in Hosts, NEW h \in Hosts
             PROVE  /\ InTable(c, g) /\ InTable(c, h) => g = h
                    /\ \A i \in DOMAIN ready[g] :
                         InReady(c, g, i) =>
                           /\ ~InTable(c, h)
                           /\ \A j \in DOMAIN ready[h] : InReady(c, h, j) => g = h /\ i = j
  BY DEF OneControlBlock
<1>1. \A f \in Hosts : /\ InTable(c, f) => Here(c, f)
                       /\ \A i \in DOMAIN ready[f] : InReady(c, f, i) => Here(c, f)
  BY DEF Here, InTable
<1> QED  BY <1>1 DEF Sole

-----------------------------------------------------------------------------
(* That is what waiting, consuming, sending and answering do. *)
LEMMA FlowsAre ==
  ASSUME TypeOK, NEW h \in Hosts, NEW t \in Hosts
  PROVE  /\ UNCHANGED inq => Flows(FALSE, h, t, {})
         /\ inq[h] # <<>> /\ Consume(h) => Flows(TRUE, h, t, {})
         /\ \A p \in Packet : Transmit(t, p) => Flows(FALSE, h, t, {p})
         /\ \A p \in Packet : inq[h] # <<>> /\ Reply(h, t, p) => Flows(TRUE, h, t, {p})
<1>1. inq \in Queues
  BY DEF TypeOK, Queues
<1>2. UNCHANGED inq => Flows(FALSE, h, t, {})
  BY DEF Flows, Came, Age
<1>3. inq[h] # <<>> /\ Consume(h) => Flows(TRUE, h, t, {})
  BY <1>1, ConsumeQueues DEF Flows, Came, Age, Kept, Before
<1>4. ASSUME NEW p \in Packet, Transmit(t, p) PROVE Flows(FALSE, h, t, {p})
  BY <1>1, <1>4, TransmitQueues DEF Flows, Came, Age, Stayed
<1>5. ASSUME NEW p \in Packet, inq[h] # <<>>, Reply(h, t, p) PROVE Flows(TRUE, h, t, {p})
  BY <1>1, <1>5, ReplyQueues DEF Flows, Came, Age, Kept, Before
<1> QED  BY <1>2, <1>3, <1>4, <1>5

(* Where a packet was before, and that its place in the queue kept. *)
LEMMA FlowPlaces ==
  ASSUME TypeOK, TypeOK', NEW s \in BOOLEAN, NEW h, NEW g \in Hosts
  PROVE  /\ \A i \in DOMAIN inq'[g] : /\ i \in Nat \ {0} /\ i <= Len(inq'[g])
                                      /\ Age(s, h, g, i) \in Nat \ {0}
                                      /\ \A k \in 1..i : k \in DOMAIN inq'[g]
         /\ DOMAIN inq'[g] = 1..Len(inq'[g]) /\ Len(inq'[g]) \in Nat
         /\ \A i, j \in Nat : i < j => Age(s, h, g, i) < Age(s, h, g, j)
<1>1. inq'[g] \in Seq(Packet)
  BY DEF TypeOK
<1>2. DOMAIN inq'[g] = 1..Len(inq'[g]) /\ Len(inq'[g]) \in Nat
  BY <1>1
<1> QED  BY <1>2 DEF Age

(* A step that does not concern the youth of a connection. *)
LEMMA YouthKept ==
  ASSUME TypeOK, TypeOK', NEW c \in Clients, Youth(c),
         NEW s \in BOOLEAN, NEW h, NEW t, NEW in, Flows(s, h, t, in),
         \A p \in in : p.client = c =>
            (\/ p.type = "SYN" /\ conn'[c] = "syn_sent" /\ t = owner'[c]
             \/ p.type = "DATA" /\ conn'[c] = "open"
             \/ p.type \notin {"SYN", "DATA"} /\ conn[c] = "open" /\ ~Young(c)),
         \/ conn'[c] = conn[c]
         \/ conn[c] = "closed" /\ conn'[c] = "syn_sent"
         \/ conn[c] = "syn_sent" /\ conn'[c] = "open",
         conn'[c] = "closed" => dropped'[c] = {},
         \A g \in Hosts : Opening(c, g) => owner'[c] = owner[c],
         \A g \in Hosts : c \in inflight'[g] => Opening(c, g),
         Young(c) => \A g \in Hosts : /\ Here(c, g)' => Here(c, g)
                                      /\ active'[g][c] \in {None, active[g][c]}
  PROVE  Youth(c)'
<1>1. \A g \in Hosts : \A i \in DOMAIN inq'[g] :
        Came(s, h, g, i) \/ \E p \in in : New(t, p, g, i)
  BY DEF Flows
<1>2. ASSUME NEW g \in Hosts, Opening(c, g)'
      PROVE  \/ Opening(c, g)
             \/ g = owner'[c] /\ conn'[c] = "syn_sent"
  <2>1. CASE c \in inflight'[g]
    BY <2>1
  <2>2. CASE \E i \in DOMAIN inq'[g] : Msg(g, i, c, "SYN")'
    <3>1. PICK i \in DOMAIN inq'[g] : Msg(g, i, c, "SYN")'
      BY <2>2
    <3>2. CASE Came(s, h, g, i)
      BY <3>1, <3>2 DEF Came, Msg, Opening
    <3>3. CASE \E p \in in : New(t, p, g, i)
      BY <3>1, <3>3 DEF New, Msg
    <3> QED  BY <1>1, <3>2, <3>3
  <2> QED  BY <1>2, <2>1, <2>2 DEF Opening
<1>3. Young(c)' => Young(c)
  BY <1>2 DEF Young
<1>4. ASSUME Young(c)', NEW g \in Hosts
      PROVE  /\ ~Here(c, g)' /\ active'[g][c] = None
             /\ \A i \in DOMAIN inq'[g] : inq'[g][i].client = c =>
                    inq'[g][i].type \in {"SYN", "DATA"}
  <2>1. Young(c)
    BY <1>3, <1>4
  <2>2. ~Here(c, g)' /\ active'[g][c] = None
    BY <2>1 DEF Youth
  <2>3. ASSUME NEW i \in DOMAIN inq'[g], inq'[g][i].client = c
        PROVE  inq'[g][i].type \in {"SYN", "DATA"}
    BY <1>1, <2>1, <2>3 DEF Youth, Came, New
  <2> QED  BY <2>2, <2>3
<1>5. ASSUME NEW g \in Hosts, Opening(c, g)'
      PROVE  owner'[c] = g /\ conn'[c] # "closed"
  <2>1. CASE Opening(c, g)
    BY <2>1 DEF Youth
  <2> QED  BY <1>2, <1>5, <2>1
<1>6. ASSUME NEW g \in Hosts, NEW i \in DOMAIN inq'[g], NEW j \in DOMAIN inq'[g],
             Msg(g, i, c, "DATA")'
      PROVE  conn'[c] = "open" /\ ~(i < j /\ Msg(g, j, c, "SYN")')
  <2>1. conn'[c] = "open"
    <3>1. CASE Came(s, h, g, i)
      <4>1. Msg(g, Age(s, h, g, i), c, "DATA")
        BY <1>6, <3>1 DEF Msg, Came
      <4> QED  BY <3>1, <4>1 DEF Youth, Came
    <3>2. CASE \E p \in in : New(t, p, g, i)
      <4>1. PICK p \in in : New(t, p, g, i)
        BY <3>2
      <4>2. p.client = c /\ p.type = "DATA"
        BY <1>6, <4>1 DEF New, Msg
      <4> QED  BY <4>2
    <3> QED  BY <1>1, <3>1, <3>2
  <2>2. ASSUME i < j, Msg(g, j, c, "SYN")' PROVE FALSE
    <3>1. Came(s, h, g, j)
      BY <1>1, <2>1, <2>2 DEF New, Msg
    <3>2. Msg(g, Age(s, h, g, j), c, "SYN") /\ Age(s, h, g, j) \in DOMAIN inq[g]
      BY <2>2, <3>1 DEF Msg, Came
    <3>3. i < Len(inq'[g]) /\ Age(s, h, g, i) < Age(s, h, g, j)
      BY <2>2, FlowPlaces
    <3>4. Came(s, h, g, i)
      BY <1>1, <3>3 DEF New
    <3>5. Msg(g, Age(s, h, g, i), c, "DATA") /\ Age(s, h, g, i) \in DOMAIN inq[g]
      BY <1>6, <3>4 DEF Msg, Came
    <3> QED  BY <3>2, <3>3, <3>5 DEF Youth
  <2> QED  BY <2>1, <2>2
<1> QED  BY <1>4, <1>5, <1>6 DEF Youth

(* A connection whose handshake is over does not begin another. *)
LEMMA OldKept ==
  ASSUME TypeOK, TypeOK', NEW c \in Clients, ~Young(c),
         NEW s \in BOOLEAN, NEW h, NEW t, NEW in, Flows(s, h, t, in),
         \A p \in in : p.client = c => p.type # "SYN",
         conn'[c] = conn[c],
         \A g \in Hosts : c \in inflight'[g] => c \in inflight[g]
  PROVE  ~Young(c)' /\ Youth(c)'
<1>1. \A g \in Hosts : \A i \in DOMAIN inq'[g] :
        Came(s, h, g, i) \/ \E p \in in : New(t, p, g, i)
  BY DEF Flows
<1>2. \A g \in Hosts : \A i \in DOMAIN inq'[g] : ~Msg(g, i, c, "SYN")'
  BY <1>1 DEF Msg, Came, New, Young, Opening
<1>3. conn'[c] = "open" /\ \A g \in Hosts : ~Opening(c, g)'
  BY <1>2 DEF Young, Opening
<1> QED  BY <1>2, <1>3 DEF Young, Youth

(* The packets that carry a state, after a step that sends none. *)
LEMMA RunOn ==
  ASSUME TypeOK, TypeOK', NEW c \in Clients,
         NEW s \in BOOLEAN, NEW h, NEW t, NEW in, Flows(s, h, t, in),
         \A p \in in : p.client = c => p.type # "CONN_STATE",
         NEW g \in Hosts, NEW i \in DOMAIN inq'[g], InNet(c, g, i)'
  PROVE  /\ Age(s, h, g, i) \in DOMAIN inq[g] /\ InNet(c, g, Age(s, h, g, i))
         /\ Run(c, g, Age(s, h, g, i)) => Run(c, g, i)'
<1>1. \A k \in DOMAIN inq'[g] :
        Came(s, h, g, k) \/ \E p \in in : New(t, p, g, k)
  BY DEF Flows
<1>2. Came(s, h, g, i)
  BY <1>1 DEF InNet, New
<1>3. Age(s, h, g, i) \in DOMAIN inq[g] /\ InNet(c, g, Age(s, h, g, i))
  BY <1>2 DEF Came, InNet
<1>4. ASSUME Run(c, g, Age(s, h, g, i)), NEW k \in 1..i PROVE InNet(c, g, k)'
  <2>1. CASE k = i
    BY <2>1
  <2>2. CASE k # i
    <3>1. k \in DOMAIN inq'[g] /\ k < Len(inq'[g])
      BY <2>2, FlowPlaces
    <3>2. Came(s, h, g, k)
      BY <1>1, <3>1 DEF New
    <3>3. Age(s, h, g, k) \in 1..Age(s, h, g, i)
      BY FlowPlaces DEF Age
    <3>4. InNet(c, g, Age(s, h, g, k))
      BY <1>4, <3>3 DEF Run
    <3> QED  BY <3>1, <3>2, <3>4 DEF Came, InNet
  <2> QED  BY <2>1, <2>2
<1> QED  BY <1>3, <1>4 DEF Run

(* A step that sends no state and gives no host a control block. *)
LEMMA RunsKept ==
  ASSUME TypeOK, TypeOK', NEW c \in Clients, Runs(c),
         NEW s \in BOOLEAN, NEW h, NEW t, NEW in, Flows(s, h, t, in),
         \A p \in in : p.client = c => p.type # "CONN_STATE",
         \A g \in Hosts : Here(c, g)' => Here(c, g),
         \A g \in Hosts : Spent(c, g) /\ InNet(c, g, 1) => Spent(c, g)'
  PROVE  Runs(c)'
<1>1. ASSUME NEW g \in Hosts, NEW f \in Hosts, NEW i \in DOMAIN inq'[g],
             NEW j \in DOMAIN inq'[f], InNet(c, g, i)', InNet(c, f, j)'
      PROVE  g = f /\ (i = j \/ Run(c, g, i)')
  <2>1. /\ Age(s, h, g, i) \in DOMAIN inq[g] /\ InNet(c, g, Age(s, h, g, i))
        /\ Run(c, g, Age(s, h, g, i)) => Run(c, g, i)'
    BY <1>1, RunOn
  <2>2. Age(s, h, f, j) \in DOMAIN inq[f] /\ InNet(c, f, Age(s, h, f, j))
    BY <1>1, RunOn
  <2>3. g = f /\ (Age(s, h, g, i) = Age(s, h, f, j) \/ Run(c, g, Age(s, h, g, i)))
    BY <2>1, <2>2 DEF Runs
  <2>4. Age(s, h, g, i) = Age(s, h, f, j) => i = j
    BY <2>3, FlowPlaces DEF Age
  <2> QED  BY <2>1, <2>3, <2>4
<1>2. ASSUME NEW g \in Hosts, NEW f \in Hosts, NEW i \in DOMAIN inq'[g],
             InNet(c, g, i)', Here(c, f)'
      PROVE  g = f /\ Run(c, g, i)' /\ Spent(c, g)'
  <2>1. /\ Age(s, h, g, i) \in DOMAIN inq[g] /\ InNet(c, g, Age(s, h, g, i))
        /\ Run(c, g, Age(s, h, g, i)) => Run(c, g, i)'
    BY <1>2, RunOn
  <2>2. g = f /\ Run(c, g, Age(s, h, g, i)) /\ Spent(c, g)
    BY <1>2, <2>1 DEF Runs
  <2>3. InNet(c, g, 1)
    <3>1. Age(s, h, g, i) \in Nat \ {0}
      BY FlowPlaces
    <3>2. 1 \in 1..Age(s, h, g, i)
      BY <3>1
    <3> QED  BY <2>2, <3>2 DEF Run
  <2> QED  BY <2>1, <2>2, <2>3
<1> QED  BY <1>1, <1>2 DEF Runs

(* The connections a host has, after a step that gives it none.  The       *)
(* accept queue of h may lose its head (r).                                *)
LEMMA SoleKept ==
  ASSUME TypeOK, TypeOK', NEW c \in Clients, Sole(c), NEW r \in BOOLEAN, NEW h,
         \A g \in Hosts : established'[g][c] # None => established[g][c] # None,
         \A g \in Hosts : \A i \in DOMAIN ready'[g] :
            InReady(c, g, i)' => InReady(c, g, Age(r, h, g, i))
  PROVE  Sole(c)' /\ \A g \in Hosts : Here(c, g)' => Here(c, g)
<1>1. \A g \in Hosts : \A i \in DOMAIN ready'[g] :
        InReady(c, g, i)' => Age(r, h, g, i) \in DOMAIN ready[g]
  BY DEF InReady
<1>2. \A g \in Hosts : Here(c, g)' => Here(c, g)
  BY <1>1 DEF Here
<1>3. \A g \in Hosts : \A i \in DOMAIN ready'[g] : i \in Nat
  <2> SUFFICES ASSUME NEW g \in Hosts PROVE \A i \in DOMAIN ready'[g] : i \in Nat
    OBVIOUS
  <2>1. ready'[g] \in Seq([client: Clients, cb: CB])
    BY DEF TypeOK
  <2> QED  BY <2>1
<1>4. ASSUME NEW g \in Hosts, NEW i \in DOMAIN ready'[g], InReady(c, g, i)'
      PROVE  /\ ~InTable(c, g)'
             /\ \A j \in DOMAIN ready'[g] : InReady(c, g, j)' => i = j
  <2>1. InReady(c, g, Age(r, h, g, i)) /\ Age(r, h, g, i) \in DOMAIN ready[g]
    BY <1>1, <1>4
  <2>2. ~InTable(c, g)'
    BY <2>1 DEF Sole, InTable
  <2>3. ASSUME NEW j \in DOMAIN ready'[g], InReady(c, g, j)' PROVE i = j
    <3>1. InReady(c, g, Age(r, h, g, j)) /\ Age(r, h, g, j) \in DOMAIN ready[g]
      BY <1>1, <2>3
    <3>2. Age(r, h, g, i) = Age(r, h, g, j)
      BY <2>1, <3>1 DEF Sole
    <3> QED  BY <1>3, <3>2 DEF Age
  <2> QED  BY <2>2, <2>3
<1> QED  BY <1>2, <1>4 DEF Sole

-----------------------------------------------------------------------------
(* What most steps are for most connections. *)
LEMMA CopyKept ==
  ASSUME CopyInv, TypeOK', NEW c \in Clients,
         NEW s \in BOOLEAN, NEW h, NEW t, NEW in, Flows(s, h, t, in),
         NEW r \in BOOLEAN, NEW f,
         \A p \in in : p.client = c =>
            \/ p.type = "SYN" /\ conn'[c] = "syn_sent" /\ t = owner'[c]
            \/ p.type = "DATA" /\ conn'[c] = "open"
            \/ p.type \notin {"SYN", "DATA", "CONN_STATE"} /\ ~Young(c),
         \/ conn'[c] = conn[c]
         \/ conn[c] = "closed" /\ conn'[c] = "syn_sent"
         \/ conn[c] = "syn_sent" /\ conn'[c] = "open",
         conn'[c] = "closed" => dropped'[c] = {},
         \A g \in Hosts : Opening(c, g) => owner'[c] = owner[c],
         \A g \in Hosts : c \in inflight'[g] => Opening(c, g),
         \A g \in Hosts : established'[g][c] # None => established[g][c] # None,
         \A g \in Hosts : \A i \in DOMAIN ready'[g] :
            InReady(c, g, i)' => InReady(c, g, Age(r, f, g, i)),
         Young(c) => \A g \in Hosts : active'[g][c] \in {None, active[g][c]},
         \A g \in Hosts : Spent(c, g) /\ InNet(c, g, 1) => Spent(c, g)'
  PROVE  Youth(c)' /\ Runs(c)' /\ Sole(c)'
<1>1. TypeOK /\ Youth(c) /\ Runs(c) /\ Sole(c)
  BY DEF CopyInv
<1>2. Sole(c)' /\ \A g \in Hosts : Here(c, g)' => Here(c, g)
  BY <1>1, SoleKept
<1>3. Runs(c)'
  BY <1>1, <1>2, RunsKept
<1>4. ~Young(c) => conn[c] = "open"
  BY DEF Young
<1>5. Youth(c)'
  BY <1>1, <1>2, <1>4, YouthKept
<1> QED  BY <1>2, <1>3, <1>5

(* What a packet, an entry or a control block says of the age of its       *)
(* connection.                                                             *)
LEMMA Grown ==
  ASSUME CopyInv, NEW c \in Clients, NEW g \in Hosts
  PROVE  /\ Here(c, g) \/ active[g][c] # None => ~Young(c)
         /\ established[g][c] # None => Here(c, g)
         /\ \A i \in DOMAIN inq[g] : inq[g][i].client = c =>
                (/\ conn[c] # "closed"
                 /\ inq[g][i].type \notin {"SYN", "DATA"} => ~Young(c)
                 /\ inq[g][i].type = "DATA" => conn[c] = "open"
                 /\ inq[g][i].type = "SYN" => Opening(c, g))
         /\ Opening(c, g) => conn[c] # "closed" /\ owner[c] = g
         /\ ~Young(c) => conn[c] = "open" /\ ~Opening(c, g)
<1>1. Youth(c)
  BY DEF CopyInv
<1>2. /\ Here(c, g) \/ active[g][c] # None => ~Young(c)
      /\ established[g][c] # None => Here(c, g)
      /\ Opening(c, g) => conn[c] # "closed" /\ owner[c] = g
      /\ ~Young(c) => conn[c] = "open" /\ ~Opening(c, g)
  BY <1>1 DEF Youth, Here, Young
<1>3. ASSUME NEW i \in DOMAIN inq[g], inq[g][i].client = c
      PROVE  /\ conn[c] # "closed"
             /\ inq[g][i].type \notin {"SYN", "DATA"} => ~Young(c)
             /\ inq[g][i].type = "DATA" => conn[c] = "open"
             /\ inq[g][i].type = "SYN" => Opening(c, g)
  <2>1. inq[g][i].type \notin {"SYN", "DATA"} => ~Young(c)
    BY <1>1, <1>3 DEF Youth
  <2>2. inq[g][i].type = "DATA" => conn[c] = "open"
    BY <1>1, <1>3 DEF Youth, Msg
  <2>3. inq[g][i].type = "SYN" => Opening(c, g)
    BY <1>3 DEF Opening, Msg
  <2> QED  BY <1>2, <2>1, <2>2, <2>3
<1> QED  BY <1>2, <1>3

(* Nothing was sent, and no host knows of a connection. *)
LEMMA CopyInit ==
  ASSUME Init
  PROVE  CopyInv
<1>1. TypeOK
  BY TypeInit
<1>2. /\ \A h \in Hosts : /\ inq[h] = <<>> /\ ready[h] = <<>> /\ inflight[h] = {}
                          /\ \A c \in Clients : /\ established[h][c] = None
                                                /\ active[h][c] = None
      /\ \A c \in Clients : conn[c] = "closed" /\ dropped[c] = {}
  BY DEF Init
<1>3. ASSUME NEW c \in Clients PROVE Youth(c) /\ Runs(c) /\ Sole(c)
  <2>1. \A g \in Hosts : /\ ~Here(c, g) /\ ~Opening(c, g) /\ DOMAIN inq[g] = {} /\ DOMAIN ready[g] = {}
    BY <1>2 DEF Here, Opening
  <2> QED  BY <1>2, <2>1 DEF Youth, Runs, Sole
<1> QED  BY <1>1, <1>3 DEF CopyInv

(* A client connects, completes its handshake, sends or sends again. *)
LEMMA CopyClient ==
  ASSUME CopyInv, TypeOK', NEW d \in Clients, Client(d)
  PROVE  CopyInv'
<1>1. TypeOK
  BY DEF CopyInv
<1>2. UNCHANGED <<inflight, ready, active, established>>
  BY DEF Client, ClientConnect, ClientEstablish, ClientSend, ClientRetransmit, listenVars, tableVars
<1>3. \E t \in Hosts, p \in Packet : ClientSends(d, t, p)
  <2>1. /\ conn \in [Clients -> {"closed", "syn_sent", "open"}] /\ owner \in [Clients -> Hosts]
        /\ sent \in [Clients -> Segs] /\ dropped \in [Clients -> SUBSET Segs]
    BY <1>1 DEF TypeOK
  <2>a. /\ Syn(d).client = d /\ Syn(d).type = "SYN"
        /\ \A n \in Segs : Data(d, n).client = d /\ Data(d, n).type = "DATA"
    BY DEF Syn, Data
  <2>b. /\ \A h \in Hosts : Syn(d) \in Packet /\ \A n \in Segs : Data(d, n) \in Packet
    BY MessageTypes
  <2>2. CASE ClientConnect(d)
    <3>1. PICK t \in Hosts : owner' = [owner EXCEPT ![d] = t] /\ Transmit(t, Syn(d))
      BY <2>2 DEF ClientConnect
    <3>2. conn[d] = "closed" /\ conn' = [conn EXCEPT ![d] = "syn_sent"] /\ dropped' = dropped
      BY <2>2 DEF ClientConnect
    <3>3. owner'[d] = t /\ conn'[d] = "syn_sent"
      BY <2>1, <3>1, <3>2
    <3> QED  BY <2>a, <2>b, <3>1, <3>2, <3>3 DEF ClientSends
  <2>3. CASE ClientEstablish(d)
    <3>1. /\ conn[d] = "syn_sent" /\ conn' = [conn EXCEPT ![d] = "open"] /\ dropped' = dropped
          /\ owner' = owner /\ Transmit(owner[d], Data(d, 0)) /\ conn'[d] = "open"
      BY <2>1, <2>3 DEF ClientEstablish
    <3>2. 0 \in Segs
      BY BoundsAssumption DEF Segs
    <3> QED  BY <2>1, <2>a, <2>b, <3>1, <3>2 DEF ClientSends
  <2>4. CASE ClientSend(d)
    <3>1. /\ conn[d] = "open" /\ conn' = conn /\ dropped' = dropped
          /\ owner' = owner /\ Transmit(owner[d], Data(d, sent[d] + 1)) /\ sent[d] + 1 \in Segs
      BY <2>1, <2>4, BoundsAssumption DEF ClientSend, Segs
    <3> QED  BY <2>1, <2>a, <2>b, <3>1 DEF ClientSends
  <2>5. CASE ClientRetransmit(d)
    <3>1. PICK n \in dropped[d] :
            /\ dropped' = [dropped EXCEPT ![d] = @ \ {n}]
            /\ Transmit(owner[d], IF conn[d] = "syn_sent" THEN Syn(d) ELSE Data(d, n))
            /\ conn' = conn /\ owner' = owner
      BY <2>5 DEF ClientRetransmit
    <3>2. n \in Segs
      BY <2>1
    <3>3. conn[d] # "closed"
      BY DEF CopyInv, Youth
    <3>4. CASE conn[d] = "syn_sent"
      BY <2>1, <2>a, <2>b, <3>1, <3>4 DEF ClientSends
    <3>5. CASE conn[d] = "open"
      BY <2>1, <2>a, <2>b, <3>1, <3>2, <3>5 DEF ClientSends
    <3> QED  BY <2>1, <3>3, <3>4, <3>5
  <2> QED  BY <2>2, <2>3, <2>4, <2>5 DEF Client
<1>4. PICK t \in Hosts, p \in Packet : ClientSends(d, t, p)
  BY <1>3
<1>5. PICK in : in = {p}
  OBVIOUS
<1>7. PICK no \in BOOLEAN : no = FALSE
  OBVIOUS
<1>8. Flows(no, t, t, in)
  BY <1>1, <1>4, <1>5, <1>7, FlowsAre DEF ClientSends
<1>6. ASSUME NEW c \in Clients PROVE Youth(c)' /\ Runs(c)' /\ Sole(c)'
  <2>1. /\ conn \in [Clients -> {"closed", "syn_sent", "open"}] /\ owner \in [Clients -> Hosts]
        /\ dropped \in [Clients -> SUBSET Segs]
    BY <1>1 DEF TypeOK
  <2>2. \/ conn'[c] = conn[c]
        \/ conn[c] = "closed" /\ conn'[c] = "syn_sent"
        \/ conn[c] = "syn_sent" /\ conn'[c] = "open"
    BY <1>4, <2>1 DEF ClientSends
  <2>3. conn'[c] = "closed" => dropped'[c] = {}
    <3>1. conn'[c] = "closed" => conn[c] = "closed" /\ (c = d => conn' = conn)
      BY <1>4, <2>1 DEF ClientSends
    <3>2. conn[c] = "closed" => dropped[c] = {}
      BY DEF CopyInv, Youth
    <3>3. dropped'[c] # dropped[c] => c = d /\ conn[d] # "closed"
      BY <1>4, <2>1 DEF ClientSends
    <3> QED  BY <3>1, <3>2, <3>3
  <2>4. \A g \in Hosts : Opening(c, g) => owner'[c] = owner[c]
    BY <1>4, <2>1, Grown DEF ClientSends
  <2>5. \A g \in Hosts : \A i \in DOMAIN ready'[g] :
            InReady(c, g, i)' => InReady(c, g, Age(no, t, g, i))
    BY <1>2, <1>7 DEF InReady, Age
  <2>6. \A g \in Hosts : c \in inflight'[g] => Opening(c, g)
    BY <1>2 DEF Opening
  <2>7. \A g \in Hosts : Spent(c, g) /\ InNet(c, g, 1) => Spent(c, g)'
    BY <1>2 DEF Spent
  <2>8. \A x \in in : x.client = c =>
            \/ x.type = "SYN" /\ conn'[c] = "syn_sent" /\ t = owner'[c]
            \/ x.type = "DATA" /\ conn'[c] = "open"
            \/ x.type \notin {"SYN", "DATA", "CONN_STATE"} /\ ~Young(c)
    BY <1>4, <1>5 DEF ClientSends
  <2>9. /\ \A g \in Hosts : established'[g][c] # None => established[g][c] # None
        /\ Young(c) => \A g \in Hosts : active'[g][c] \in {None, active[g][c]}
    BY <1>2
  <2> QED  BY <1>7, <1>8, <2>2, <2>3, <2>4, <2>5, <2>6, <2>7, <2>8, <2>9, CopyKept
<1> QED  BY <1>6 DEF CopyInv

(* A step that neither opens nor accepts, nor sends a state. *)
LEMMA CopyAside ==
  ASSUME CopyInv, TypeOK',
         NEW s \in BOOLEAN, NEW h, NEW t, NEW in, Flows(s, h, t, in),
         \A p \in in : p.type \notin {"SYN", "DATA", "CONN_STATE"} /\ ~Young(p.client),
         UNCHANGED <<inflight, ready, conn>>,
         \A c \in Clients : conn[c] = "closed" => dropped'[c] = dropped[c],
         \A c \in Clients, g \in Hosts : Opening(c, g) => owner'[c] = owner[c],
         \A c \in Clients, g \in Hosts : established'[g][c] # None => established[g][c] # None,
         \A c \in Clients, g \in Hosts :
            \/ active'[g][c] \in {None, active[g][c]}
            \/ ~Young(c) /\ (Spent(c, g) /\ InNet(c, g, 1) => Spent(c, g)')
  PROVE  CopyInv'
<1>1. PICK no \in BOOLEAN : no = FALSE
  OBVIOUS
<1>2. ASSUME NEW c \in Clients PROVE Youth(c)' /\ Runs(c)' /\ Sole(c)'
  <2>1. conn'[c] = "closed" => dropped'[c] = {}
    BY DEF CopyInv, Youth
  <2>2. \A g \in Hosts : \A i \in DOMAIN ready'[g] :
            InReady(c, g, i)' => InReady(c, g, Age(no, t, g, i))
    BY <1>1 DEF InReady, Age
  <2>3. \A g \in Hosts : c \in inflight'[g] => Opening(c, g)
    BY DEF Opening
  <2>4. \A g \in Hosts : Spent(c, g) /\ InNet(c, g, 1) => Spent(c, g)'
    BY DEF Spent
  <2>5. \A p \in in : p.client = c =>
            \/ p.type = "SYN" /\ conn'[c] = "syn_sent" /\ t = owner'[c]
            \/ p.type = "DATA" /\ conn'[c] = "open"
            \/ p.type \notin {"SYN", "DATA", "CONN_STATE"} /\ ~Young(c)
    OBVIOUS
  <2>6. Young(c) => \A g \in Hosts : active'[g][c] \in {None, active[g][c]}
    OBVIOUS
  <2> QED  BY <2>1, <2>2, <2>3, <2>4, <2>5, <2>6, CopyKept
<1> QED  BY <1>2 DEF CopyInv

(* The packet at the head of a queue. *)
LEMMA HeadOf ==
  ASSUME TypeOK, NEW h \in Hosts, inq[h] # <<>>
  PROVE  /\ Packet1(h) \in Packet /\ Packet1(h).client \in Clients
         /\ 1 \in DOMAIN inq[h] /\ inq[h][1] = Packet1(h)
         /\ Packet1(h).type \in TcpMigTypes => Packet1(h).src \in Hosts
<1>1. inq \in Queues
  BY DEF TypeOK, Queues
<1>2. Packet1(h) \in Packet /\ 1 \in DOMAIN inq[h] /\ inq[h][1] = Packet1(h)
  BY <1>1, HeadIsPacket
<1> QED  BY <1>2, PacketTypes

(* Segments to a connection or to its migration; packets that are lost;    *)
(* what ends or refuses a migration.                                       *)
LEMMA CopyConsumed ==
  ASSUME CopyInv, TypeOK', NEW h \in Hosts,
         RxEstablished(h) \/ RxBuffered(h) \/ Lose(h) \/ RxConnStateAck(h) \/ RxUnexpected(h)
  PROVE  CopyInv'
<1>1. PICK d : d = Packet1(h).client
  OBVIOUS
<1>2. TypeOK /\ inq[h] # <<>> /\ Consume(h) /\ UNCHANGED <<inflight, ready, conn, owner>>
  BY DEF RxEstablished, RxBuffered, Lose, RxConnStateAck, RxUnexpected, Received, listenVars,
         tableVars, clientVars, CopyInv
<1>3. PICK yes \in BOOLEAN : yes = TRUE
  OBVIOUS
<1>4. PICK in : in = {}
  OBVIOUS
<1>5. Flows(yes, h, h, in)
  BY <1>2, <1>3, <1>4, FlowsAre
<1>6. d \in Clients /\ conn[d] # "closed"
  BY <1>1, <1>2, HeadOf, Grown
<1>7. \A c \in Clients : conn[c] = "closed" => dropped'[c] = dropped[c]
  <2>1. \E x : dropped' = dropped \/ dropped' = [dropped EXCEPT ![d] = x]
    BY <1>1 DEF RxEstablished, RxBuffered, Lose, RxConnStateAck, RxUnexpected, clientVars
  <2>2. dropped \in [Clients -> SUBSET Segs]
    BY <1>2 DEF TypeOK
  <2> QED  BY <1>6, <2>1, <2>2
<1>8. \A c \in Clients, g \in Hosts : established'[g][c] # None => established[g][c] # None
  <2>1. CASE RxEstablished(h)
    <3>1. established[h][d] # None /\ \E x : established' = [established EXCEPT ![h][d] = x]
      BY <1>1, <2>1 DEF RxEstablished
    <3> QED  BY <1>2, <1>6, <3>1, EstablishedSet
  <2> QED  BY <2>1 DEF RxBuffered, Lose, RxConnStateAck, RxUnexpected, tableVars
<1>9. \A c \in Clients, g \in Hosts :
        \/ active'[g][c] \in {None, active[g][c]}
        \/ ~Young(c) /\ (Spent(c, g) /\ InNet(c, g, 1) => Spent(c, g)')
  <2>1. CASE RxBuffered(h)
    <3>1. active[h][d] # None /\ active' = [active EXCEPT ![h][d].buf = Append(@, Packet1(h))]
      BY <1>1, <2>1 DEF RxBuffered, Buffers
    <3>2. active[h][d] \in Migration
      BY <1>2, <1>6, <3>1 DEF TypeOK
    <3>3. PICK m : m = [active[h][d] EXCEPT !.buf = Append(@, Packet1(h))]
      OBVIOUS
    <3>4. active' = [active EXCEPT ![h][d] = m] /\ m.stage = active[h][d].stage
      BY <1>2, <1>6, <3>1, <3>2, <3>3 DEF TypeOK, Migration
    <3>5. ~Young(d)
      BY <1>6, <3>1, Grown
    <3>6. \A g \in Hosts, c \in Clients :
            active'[g][c] = IF g = h /\ c = d THEN m ELSE active[g][c]
      BY <1>2, <1>6, <3>4 DEF TypeOK
    <3>7. Spent(d, h) => Spent(d, h)'
      BY <1>6, <3>1, <3>4, <3>6 DEF Spent
    <3> QED  BY <3>5, <3>6, <3>7
  <2>2. CASE RxConnStateAck(h)
    <3>1. active' = [active EXCEPT ![h][d] = None]
      BY <1>1, <2>2 DEF RxConnStateAck, CloseMigration
    <3> QED  BY <1>2, <1>6, <3>1, ActiveSet
  <2> QED  BY <2>1, <2>2 DEF RxEstablished, Lose, RxUnexpected
<1> QED  BY <1>2, <1>4, <1>5, <1>7, <1>8, <1>9, CopyAside

(* Steps that touch no queue: the application, its coroutines, an abort. *)
LEMMA CopyIdle ==
  ASSUME CopyInv, TypeOK', NEW h \in Hosts,
         \/ Accept(h) \/ Abort(h)
         \/ \E q \in QDs : Pop(h, q) \/ PollRecv(h, q) \/ PollMigratedOut(h, q) \/ Close(h, q)
         \/ UNCHANGED vars
  PROVE  CopyInv'
<1>1. TypeOK /\ UNCHANGED <<inq, inflight, ready, active, conn, owner, dropped>>
  BY DEF Accept, Abort, Pop, PollRecv, PollMigratedOut, Close, listenVars, clientVars, vars, CopyInv
<1>2. \A c \in Clients, g \in Hosts : established'[g][c] # None => established[g][c] # None
  <2>1. ASSUME NEW q \in QDs, PollRecv(h, q)
        PROVE  \A c \in Clients, g \in Hosts : established'[g][c] # None => established[g][c] # None
    <3>1. PICK d, n : /\ d = sockets[h][q].client
                      /\ n = established[h][d].read + 1
      OBVIOUS
    <3>2. /\ established[h][d] # None /\ sockets[h][q] # None
          /\ \/ established' = [established EXCEPT ![h][d].read = n]
             \/ established' = established
      BY <2>1, <3>1 DEF PollRecv
    <3>3. d \in Clients
      <4>1. sockets[h][q] \in Socket
        BY <1>1, <3>2 DEF TypeOK
      <4> QED  BY <3>1, <4>1 DEF Socket
    <3>4. established' = established
          \/ \E x : established' = [established EXCEPT ![h][d] = x]
      <4>1. established \in [Hosts -> [Clients -> CB \cup {None}]]
        BY <1>1 DEF TypeOK
      <4>2. [established EXCEPT ![h][d].read = n]
              = [established EXCEPT ![h][d] = [established[h][d] EXCEPT !.read = n]]
        BY <3>3, <4>1
      <4> QED  BY <3>2, <4>2
    <3> QED  BY <1>1, <3>2, <3>3, <3>4, EstablishedSet
  <2> QED  BY <2>1 DEF Accept, Abort, Pop, PollMigratedOut, Close, tableVars, vars
<1>3. PICK no \in BOOLEAN : no = FALSE
  OBVIOUS
<1>4. PICK in : in = {}
  OBVIOUS
<1>5. Flows(no, h, h, in)
  BY <1>1, <1>3, <1>4, FlowsAre
<1> QED  BY <1>1, <1>2, <1>4, <1>5, CopyAside

(* What starts a migration, or starts it again. *)
LEMMA CopyPrepares ==
  ASSUME CopyInv, TypeOK', NEW h \in Hosts,
         RxPrepare(h) \/ RxReturned(h) \/ \E c \in Clients : InitiateMigration(h, c)
  PROVE  CopyInv'
<1>1. TypeOK
  BY DEF CopyInv
<1>2. \E yes \in BOOLEAN, t \in Hosts, p \in Packet, d \in Clients : Prepares(h, yes, t, p, d)
  <2>0. established \in [Hosts -> [Clients -> CB \cup {None}]]
    BY <1>1 DEF TypeOK
  <2>1. CASE RxPrepare(h)
    <3>1. PICK d, t, p : d = Packet1(h).client /\ t = Packet1(h).src /\ p = PrepareAck(d, h)
      OBVIOUS
    <3>2. /\ inq[h] # <<>> /\ Packet1(h).type = "PREPARE" /\ Reply(h, t, p)
          /\ owner' = [owner EXCEPT ![d] = h] /\ established' = established
          /\ \E m : active' = [active EXCEPT ![h][d] = m]
      BY <2>1, <3>1 DEF RxPrepare, Received, tableVars
    <3>3. d \in Clients /\ t \in Hosts /\ 1 \in DOMAIN inq[h] /\ inq[h][1] = Packet1(h)
      BY <1>1, <3>1, <3>2, HeadOf DEF TcpMigTypes
    <3>4. p \in Packet /\ p.client = d /\ p.type = "PREPARE_ACK"
      BY <3>1, <3>3, MessageTypes DEF PrepareAck
    <3>5. ~Young(d) /\ ~InNet(d, h, 1)
      BY <3>1, <3>2, <3>3, Grown DEF InNet
    <3>6. Flows(TRUE, h, t, {p})
      BY <1>1, <3>2, <3>3, <3>4, FlowsAre
    <3> QED  BY <3>2, <3>3, <3>4, <3>5, <3>6 DEF Prepares
  <2>2. CASE RxReturned(h)
    <3>1. PICK d, p, m : /\ d = Packet1(h).client /\ p = Prepare(d, h)
                         /\ m = [stage |-> "Prepare", qd |-> qds[h][d], buf |-> <<>>]
      OBVIOUS
    <3>2. /\ inq[h] # <<>> /\ Packet1(h).type = "PREPARE" /\ \E t \in Hosts : Reply(h, t, p)
          /\ owner' = owner /\ established[h][d] # None
          /\ established' = [established EXCEPT ![h][d].tracked = FALSE]
          /\ active' = [active EXCEPT ![h][d] = m]
      BY <2>2, <3>1 DEF RxReturned, Received, clientVars
    <3>3. PICK t \in Hosts : Reply(h, t, p)
      BY <3>2
    <3>4. d \in Clients
      BY <1>1, <3>1, <3>2, HeadOf
    <3>5. p \in Packet /\ p.client = d /\ p.type = "PREPARE"
      BY <3>1, <3>4, MessageTypes DEF Prepare
    <3>6. ~Young(d)
      BY <3>2, <3>4, Grown
    <3>7. Flows(TRUE, h, t, {p})
      BY <1>1, <3>2, <3>3, <3>5, FlowsAre
    <3>8. \E x : established' = [established EXCEPT ![h][d] = x]
      BY <2>0, <3>2, <3>4
    <3>9. m.stage = "Prepare"
      BY <3>1
    <3>10. Prepares(h, TRUE, t, p, d)
      BY <3>2, <3>5, <3>6, <3>7, <3>8, <3>9 DEF Prepares
    <3> QED  BY <3>3, <3>4, <3>5, <3>10
  <2>3. ASSUME NEW d \in Clients, InitiateMigration(h, d)
        PROVE  \E t \in Hosts, p \in Packet : Prepares(h, FALSE, t, p, d)
    <3>1. PICK p, m : /\ p = Prepare(d, h)
                      /\ m = [stage |-> "Prepare", qd |-> qds[h][d], buf |-> <<>>]
      OBVIOUS
    <3>2. /\ \E t \in Hosts : Transmit(t, p)
          /\ owner' = owner /\ established[h][d] # None
          /\ established' = [established EXCEPT ![h][d].tracked = FALSE]
          /\ active' = [active EXCEPT ![h][d] = m]
      BY <2>3, <3>1 DEF InitiateMigration, clientVars
    <3>3. PICK t \in Hosts : Transmit(t, p)
      BY <3>2
    <3>5. p \in Packet /\ p.client = d /\ p.type = "PREPARE"
      BY <3>1, MessageTypes DEF Prepare
    <3>6. ~Young(d)
      BY <3>2, Grown
    <3>7. Flows(FALSE, h, t, {p})
      BY <1>1, <3>3, <3>5, FlowsAre
    <3>8. \E x : established' = [established EXCEPT ![h][d] = x]
      BY <2>0, <3>2
    <3>9. m.stage = "Prepare"
      BY <3>1
    <3> QED  BY <3>2, <3>5, <3>6, <3>7, <3>8, <3>9 DEF Prepares
  <2> QED  BY <2>1, <2>2, <2>3
<1>3. PICK yes \in BOOLEAN, t \in Hosts, p \in Packet, d \in Clients : Prepares(h, yes, t, p, d)
  BY <1>2
<1>4. UNCHANGED <<inflight, ready, conn, dropped>>
  BY DEF RxPrepare, RxReturned, InitiateMigration, listenVars, clientVars
<1>5. \A c \in Clients, g \in Hosts : Opening(c, g) => owner'[c] = owner[c]
  <2>1. owner \in [Clients -> Hosts]
    BY <1>1 DEF TypeOK
  <2> QED  BY <1>3, <2>1 DEF Young, Prepares
<1>6. \A c \in Clients, g \in Hosts : established'[g][c] # None => established[g][c] # None
  BY <1>1, <1>3, EstablishedSet DEF Prepares
<1>7. \A c \in Clients, g \in Hosts :
        \/ active'[g][c] \in {None, active[g][c]}
        \/ ~Young(c) /\ (Spent(c, g) /\ InNet(c, g, 1) => Spent(c, g)')
  <2>1. PICK m : /\ active' = [active EXCEPT ![h][d] = m]
                 /\ ~InNet(d, h, 1) \/ m.stage = "Prepare"
    BY <1>3 DEF Prepares
  <2>2. \A g \in Hosts, c \in Clients :
            active'[g][c] = IF g = h /\ c = d THEN m ELSE active[g][c]
    <3>1. active \in [Hosts -> [Clients -> Migration \cup {None}]]
      BY <1>1 DEF TypeOK
    <3>2. active' = [active EXCEPT ![h][d] = m]
      BY <2>1
    <3> QED  BY <3>1, <3>2
  <2> QED  BY <1>3, <2>1, <2>2 DEF Spent, Prepares
<1>8. PICK in : in = {p}
  OBVIOUS
<1>9. Flows(yes, h, t, in) /\ \A x \in in : x.type \notin {"SYN", "DATA", "CONN_STATE"} /\ ~Young(x.client)
  BY <1>3, <1>8 DEF Prepares
<1> QED  BY <1>4, <1>5, <1>6, <1>7, <1>9, CopyAside

(* Only the last entry of h's accept queue is new. *)
LEMMA Joins ==
  ASSUME TypeOK, NEW h \in Hosts, NEW e \in [client: Clients, cb: CB],
         Joined(h, e),
         NEW c \in Clients, NEW g \in Hosts, NEW i \in DOMAIN ready'[g], InReady(c, g, i)'
  PROVE  \/ InReady(c, g, i)
         \/ (c = e.client /\ g = h /\ i = Len(ready[h]) + 1)
<1>1. ready \in [Hosts -> Seq([client: Clients, cb: CB])]
  BY DEF TypeOK
<1>2. CASE g = h
  <2>1. ready[h] \in Seq([client: Clients, cb: CB]) /\ ready'[h] = Append(ready[h], e)
    BY <1>1 DEF Joined
  <2>2. i \in 1..(Len(ready[h]) + 1)
    BY <1>2, <2>1
  <2>3. CASE i = Len(ready[h]) + 1
    BY <1>2, <2>1, <2>3 DEF InReady
  <2>4. CASE i # Len(ready[h]) + 1
    BY <1>2, <2>1, <2>2, <2>4 DEF InReady
  <2> QED  BY <2>3, <2>4
<1>3. CASE g # h
  BY <1>1, <1>3 DEF InReady, Joined
<1> QED  BY <1>2, <1>3

(* Segments to the listening socket. *)
LEMMA CopyPassive ==
  ASSUME CopyInv, TypeOK', NEW h \in Hosts, RxPassive(h)
  PROVE  CopyInv'
<1>1. PICK d : d = Packet1(h).client
  OBVIOUS
<1>2. TypeOK /\ inq[h] # <<>> /\ Consume(h) /\ UNCHANGED <<active, established, conn, owner>>
  BY DEF RxPassive, Received, tableVars, CopyInv
<1>3. PICK yes \in BOOLEAN, no \in BOOLEAN : yes = TRUE /\ no = FALSE
  OBVIOUS
<1>4. PICK in : in = {}
  OBVIOUS
<1>5. Flows(yes, h, h, in)
  BY <1>2, <1>3, <1>4, FlowsAre
<1>6. /\ d \in Clients /\ conn[d] # "closed" /\ 1 \in DOMAIN inq[h]
      /\ inq[h][1].client = d /\ inq[h][1] = Packet1(h)
  BY <1>1, <1>2, HeadOf, Grown
<1>7. /\ inflight \in [Hosts -> SUBSET Clients] /\ dropped \in [Clients -> SUBSET Segs]
  BY <1>2 DEF TypeOK
<1>8. ASSUME NEW c \in Clients,
             \A g \in Hosts : c \in inflight'[g] => Opening(c, g),
             conn[c] = "closed" => dropped'[c] = dropped[c],
             \A g \in Hosts : \A i \in DOMAIN ready'[g] : InReady(c, g, i)' => InReady(c, g, i)
      PROVE  Youth(c)' /\ Runs(c)' /\ Sole(c)'
  <2>1. conn'[c] = "closed" => dropped'[c] = {}
    BY <1>2, <1>8 DEF CopyInv, Youth
  <2>2. \A g \in Hosts : \A i \in DOMAIN ready'[g] :
            InReady(c, g, i)' => InReady(c, g, Age(no, h, g, i))
    BY <1>3, <1>8 DEF Age
  <2>3. /\ \A g \in Hosts : established'[g][c] # None => established[g][c] # None
        /\ Young(c) => \A g \in Hosts : active'[g][c] \in {None, active[g][c]}
        /\ \A g \in Hosts : Spent(c, g) /\ InNet(c, g, 1) => Spent(c, g)'
        /\ \A g \in Hosts : Opening(c, g) => owner'[c] = owner[c]
        /\ conn'[c] = conn[c]
    BY <1>2 DEF Spent
  <2>4. \A p \in in : p.client = c =>
            \/ p.type = "SYN" /\ conn'[c] = "syn_sent" /\ h = owner'[c]
            \/ p.type = "DATA" /\ conn'[c] = "open"
            \/ p.type \notin {"SYN", "DATA", "CONN_STATE"} /\ ~Young(c)
    BY <1>4
  <2> QED  BY <1>5, <1>8, <2>1, <2>2, <2>3, <2>4, CopyKept
<1>9. CASE /\ Completes(h, Packet1(h))
           /\ inflight' = [inflight EXCEPT ![h] = @ \ {d}]
           /\ ready' = [ready EXCEPT ![h] = Append(@, [client |-> d, cb |-> NewCB])]
           /\ dropped' = [dropped EXCEPT ![d] = @ \cup ({Packet1(h).seq} \ {0})]
  <2>1. PICK e : e = [client |-> d, cb |-> NewCB]
    OBVIOUS
  <2>2. e \in [client: Clients, cb: CB] /\ e.client = d
    BY <1>6, <2>1, NewCBType
  <2>3. Joined(h, e)
    BY <1>9, <2>1 DEF Joined
  <2>4. d \in inflight[h] /\ Msg(h, 1, d, "DATA") /\ Opening(d, h)
    BY <1>1, <1>6, <1>9 DEF Completes, Msg, Opening
  <2>5. Youth(d) /\ Young(d) /\ owner[d] = h /\ conn[d] = "open"
    BY <1>6, <2>4 DEF CopyInv, Youth, Young
  <2>6. ASSUME NEW c \in Clients, c # d PROVE Youth(c)' /\ Runs(c)' /\ Sole(c)'
    <3>1. \A g \in Hosts : c \in inflight'[g] => Opening(c, g)
      BY <1>7, <1>9, <2>6 DEF Opening
    <3>2. dropped'[c] = dropped[c]
      BY <1>6, <1>7, <1>9, <2>6
    <3>3. \A g \in Hosts : \A i \in DOMAIN ready'[g] : InReady(c, g, i)' => InReady(c, g, i)
      <4> SUFFICES ASSUME NEW g \in Hosts, NEW i \in DOMAIN ready'[g], InReady(c, g, i)'
                   PROVE  InReady(c, g, i)
        OBVIOUS
      <4>1. InReady(c, g, i) \/ (c = e.client /\ g = h /\ i = Len(ready[h]) + 1)
        BY <1>2, <2>2, <2>3, Joins
      <4> QED  BY <2>2, <2>6, <4>1
    <3> QED  BY <1>8, <3>1, <3>2, <3>3
  <2>7. \A g \in Hosts : \A i \in DOMAIN inq'[g] : Came(yes, h, g, i)
    BY <1>4, <1>5 DEF Flows
  <2>8. ASSUME NEW g \in Hosts, NEW i \in DOMAIN inq'[g] PROVE ~Msg(g, i, d, "SYN")'
    <3>1. SUFFICES ASSUME Msg(g, i, d, "SYN")' PROVE FALSE
      OBVIOUS
    <3>2. Msg(g, Age(yes, h, g, i), d, "SYN") /\ Age(yes, h, g, i) \in DOMAIN inq[g]
      BY <2>7, <3>1 DEF Came, Msg
    <3>3. g = h
      BY <2>5, <3>2 DEF Youth, Opening
    <3>4. i \in Nat \ {0}
      BY <1>2, <1>3, FlowPlaces
    <3>5. 1 < Age(yes, h, g, i)
      BY <1>3, <3>3, <3>4 DEF Age
    <3> QED  BY <1>6, <2>4, <2>5, <3>2, <3>3, <3>5 DEF Youth
  <2>9. \A g \in Hosts : ~Opening(d, g)'
    <3>1. \A g \in Hosts : d \notin inflight'[g]
      <4>1. \A g \in Hosts : d \in inflight[g] => g = h
        BY <2>5 DEF Youth, Opening
      <4> QED  BY <1>7, <1>9, <4>1
    <3> QED  BY <2>8, <3>1 DEF Opening
  <2>10. ~Young(d)' /\ Youth(d)'
    BY <1>2, <2>5, <2>8, <2>9 DEF Young, Youth
  <2>11. \A g \in Hosts : \A i \in DOMAIN inq'[g] : ~InNet(d, g, i)'
    <3>1. \A g \in Hosts : \A i \in DOMAIN inq[g] : ~InNet(d, g, i)
      BY <2>5 DEF Youth, InNet
    <3> QED  BY <2>7, <3>1 DEF Came, InNet
  <2>12. \A g \in Hosts : ~Here(d, g)
    BY <2>5 DEF Youth
  <2>13. \A g \in Hosts : \A i \in DOMAIN ready'[g] :
            InReady(d, g, i)' => g = h /\ i = Len(ready[h]) + 1
    <3>1. \A g \in Hosts : \A i \in DOMAIN ready'[g] : ~InReady(d, g, i)
      BY <2>12 DEF Here, InReady
    <3> SUFFICES ASSUME NEW g \in Hosts, NEW i \in DOMAIN ready'[g], InReady(d, g, i)'
                 PROVE  g = h /\ i = Len(ready[h]) + 1
      OBVIOUS
    <3>2. InReady(d, g, i) \/ (d = e.client /\ g = h /\ i = Len(ready[h]) + 1)
      BY <1>2, <1>6, <2>2, <2>3, Joins
    <3> QED  BY <3>1, <3>2
  <2>14. \A g \in Hosts : established'[g][d] = None
    BY <1>2, <2>12 DEF Here
  <2> QED  BY <2>6, <1>2, <2>10, <2>11, <2>13, <2>14 DEF CopyInv, Runs, Sole, Here, InTable
<1>10. CASE /\ Starts(h, Packet1(h)) /\ UNCHANGED <<ready, dropped>>
            /\ inflight' = [inflight EXCEPT ![h] = @ \cup {d}]
  <2>1. Opening(d, h)
    BY <1>1, <1>6, <1>10 DEF Starts, Opening, Msg
  <2>2. \A c \in Clients, g \in Hosts : c \in inflight'[g] => Opening(c, g)
    BY <1>7, <1>10, <2>1 DEF Opening
  <2>3. \A c \in Clients : Youth(c)' /\ Runs(c)' /\ Sole(c)'
    BY <1>8, <1>10, <2>2 DEF InReady
  <2> QED  BY <2>3 DEF CopyInv
<1>11. CASE /\ UNCHANGED <<inflight, ready>>
            /\ dropped' = [dropped EXCEPT ![d] = @ \cup {Packet1(h).seq}]
  <2>1. \A c \in Clients, g \in Hosts : c \in inflight'[g] => Opening(c, g)
    BY <1>11 DEF Opening
  <2>2. \A c \in Clients : conn[c] = "closed" => dropped'[c] = dropped[c]
    BY <1>6, <1>7, <1>11
  <2>3. \A c \in Clients : Youth(c)' /\ Runs(c)' /\ Sole(c)'
    BY <1>8, <1>11, <2>1, <2>2 DEF InReady
  <2> QED  BY <2>3 DEF CopyInv
<1> QED  BY <1>1, <1>9, <1>10, <1>11 DEF RxPassive, listenVars

(* The connections a step does not concern, but for the queues. *)
LEMMA CopyOther ==
  ASSUME CopyInv, TypeOK', NEW c \in Clients,
         NEW s \in BOOLEAN, NEW h, NEW t, NEW in, Flows(s, h, t, in),
         NEW r \in BOOLEAN, NEW f,
         \A p \in in : p.client # c,
         UNCHANGED <<inflight, conn, dropped, owner>>,
         \A g \in Hosts : established'[g][c] = established[g][c],
         \A g \in Hosts : active'[g][c] = active[g][c],
         \A g \in Hosts : \A i \in DOMAIN ready'[g] :
            InReady(c, g, i)' => InReady(c, g, Age(r, f, g, i))
  PROVE  Youth(c)' /\ Runs(c)' /\ Sole(c)'
<1>1. conn'[c] = "closed" => dropped'[c] = {}
  BY DEF CopyInv, Youth
<1>2. \A g \in Hosts : c \in inflight'[g] => Opening(c, g)
  BY DEF Opening
<1>3. \A g \in Hosts : Spent(c, g) /\ InNet(c, g, 1) => Spent(c, g)'
  BY DEF Spent
<1>4. /\ \A g \in Hosts : established'[g][c] # None => established[g][c] # None
      /\ Young(c) => \A g \in Hosts : active'[g][c] \in {None, active[g][c]}
      /\ \A g \in Hosts : Opening(c, g) => owner'[c] = owner[c]
      /\ conn'[c] = conn[c]
  OBVIOUS
<1>5. \A p \in in : p.client = c =>
            \/ p.type = "SYN" /\ conn'[c] = "syn_sent" /\ t = owner'[c]
            \/ p.type = "DATA" /\ conn'[c] = "open"
            \/ p.type \notin {"SYN", "DATA", "CONN_STATE"} /\ ~Young(c)
  OBVIOUS
<1> QED  BY <1>1, <1>2, <1>3, <1>4, <1>5, CopyKept

(* The state of a connection is sent. *)
LEMMA CopyPrepareAck ==
  ASSUME CopyInv, TypeOK', NEW h \in Hosts, RxPrepareAck(h)
  PROVE  CopyInv'
<1>1. PICK q, d, cs : /\ q = active[h][Packet1(h).client].qd
                      /\ d = MigrateOutConn(h, Packet1(h))
                      /\ cs = ConnState(d, h, Serialized(established[h][d]))
  OBVIOUS
<1>2. /\ TypeOK /\ inq[h] # <<>> /\ Packet1(h).type = "PREPARE_ACK"
      /\ active[h][Packet1(h).client] # None
      /\ CanMigrateOut(h, Packet1(h)) /\ MigrateOut(h, q, d)
      /\ active' = [active EXCEPT ![h][d].stage = "ConnState"]
      /\ \E t \in IF d = Packet1(h).client THEN {Packet1(h).src} ELSE Hosts \ {h} : Reply(h, t, cs)
      /\ UNCHANGED <<inflight, ready, conn, dropped, owner>>
  BY <1>1 DEF RxPrepareAck, Received, listenVars, clientVars, CopyInv
<1>3. /\ 1 \in DOMAIN inq[h] /\ inq[h][1] = Packet1(h) /\ Packet1(h).src \in Hosts
      /\ Packet1(h).client \in Clients
  BY <1>2, HeadOf DEF TcpMigTypes
<1>4. PICK t \in Hosts : Reply(h, t, cs)
  BY <1>2, <1>3
<1>5. /\ d \in Clients /\ established[h][d] # None
      /\ active[h][d] # None
      /\ active'[h][d] \in Migration
  <2>1. q # None /\ sockets[h][q] # None /\ established[h][d] # None /\ active[h][d] # None
    BY <1>1, <1>2 DEF CanMigrateOut
  <2>2. active[h][Packet1(h).client] \in Migration
    BY <1>2, <1>3 DEF TypeOK
  <2>3. q \in QDs
    BY <1>1, <2>1, <2>2 DEF Migration
  <2>4. sockets[h][q] \in Socket
    BY <1>2, <2>1, <2>3 DEF TypeOK
  <2>5. d \in Clients
    BY <1>1, <2>4 DEF MigrateOutConn, Socket
  <2>6. active[h][d] \in Migration /\ active'[h][d] = [active[h][d] EXCEPT !.stage = "ConnState"]
    BY <1>2, <2>1, <2>5 DEF TypeOK
  <2> QED  BY <2>1, <2>5, <2>6 DEF Migration, Stages
<1>6. cs \in Packet /\ cs.client = d /\ cs.type = "CONN_STATE"
  <2>1. established[h][d] \in CB
    BY <1>2, <1>5 DEF TypeOK
  <2>2. Serialized(established[h][d]) \in CB
    BY <2>1, CBTypes
  <2> QED  BY <1>1, <1>5, <2>2, MessageTypes DEF ConnState
<1>7. PICK yes \in BOOLEAN, no \in BOOLEAN : yes = TRUE /\ no = FALSE
  OBVIOUS
<1>8. PICK in : in = {cs}
  OBVIOUS
<1>9. Flows(yes, h, t, in)
  BY <1>2, <1>4, <1>6, <1>7, <1>8, FlowsAre
<1>10. /\ Here(d, h) /\ ~Young(d) /\ \A g \in Hosts : Here(d, g) => g = h
       /\ \A i \in DOMAIN ready[h] : ~InReady(d, h, i)
       /\ \A g \in Hosts : \A i \in DOMAIN inq[g] : ~InNet(d, g, i)
  <2>1. Here(d, h) /\ ~Young(d) /\ \A g \in Hosts : Here(d, g) => g = h
    BY <1>5, Grown DEF CopyInv, Sole
  <2>2. \A i \in DOMAIN ready[h] : ~InReady(d, h, i)
    BY <1>5 DEF CopyInv, Sole, InTable
  <2>3. ASSUME NEW g \in Hosts, NEW i \in DOMAIN inq[g], InNet(d, g, i) PROVE FALSE
    <3>1. g = h /\ Run(d, g, i)
      BY <1>5, <2>1, <2>3 DEF CopyInv, Runs
    <3>2. i \in Nat \ {0}
      <4>1. inq[g] \in Seq(Packet)
        BY <1>2 DEF TypeOK
      <4> QED  BY <2>3, <4>1
    <3>3. 1 \in 1..i
      BY <3>2
    <3> QED  BY <1>2, <1>3, <3>1, <3>3 DEF Run, InNet
  <2> QED  BY <2>1, <2>2, <2>3
<1>11. established' = [established EXCEPT ![h][d] = None]
  BY <1>2 DEF MigrateOut
<1>12. ASSUME NEW c \in Clients, c # d PROVE Youth(c)' /\ Runs(c)' /\ Sole(c)'
  <2>0. /\ established \in [Hosts -> [Clients -> CB \cup {None}]]
        /\ active \in [Hosts -> [Clients -> Migration \cup {None}]]
    BY <1>2 DEF TypeOK
  <2>4. PICK m : active' = [active EXCEPT ![h][d] = m]
    BY <1>2, <2>0
  <2>1. /\ \A g \in Hosts : established'[g][c] = established[g][c]
        /\ \A g \in Hosts : active'[g][c] = active[g][c]
    BY <1>11, <1>12, <2>0, <2>4
  <2>2. \A g \in Hosts : \A i \in DOMAIN ready'[g] :
            InReady(c, g, i)' => InReady(c, g, Age(no, h, g, i))
    BY <1>2, <1>7 DEF InReady, Age
  <2>3. \A p \in in : p.client # c
    BY <1>6, <1>8, <1>12
  <2> QED  BY <1>2, <1>9, <2>1, <2>2, <2>3, CopyOther
<1>13. Youth(d)'
  <2>1. \A p \in in : p.client = d => p.type # "SYN"
    BY <1>6, <1>8
  <2>2. conn'[d] = conn[d] /\ \A g \in Hosts : d \in inflight'[g] => d \in inflight[g]
    BY <1>2
  <2> QED  BY <1>2, <1>5, <1>9, <1>10, <2>1, <2>2, OldKept
<1>14. \A g \in Hosts : ~Here(d, g)'
  <2>1. \A g \in Hosts : established'[g][d] = IF g = h THEN None ELSE established[g][d]
    BY <1>2, <1>5, <1>11 DEF TypeOK
  <2> QED  BY <1>2, <1>10, <2>1 DEF Here, InReady
<1>15. ASSUME NEW g \in Hosts, NEW i \in DOMAIN inq'[g], InNet(d, g, i)'
       PROVE  g = t /\ i = Len(inq'[t])
  BY <1>8, <1>9, <1>10, <1>15 DEF Flows, Came, New, InNet
<1>16. Runs(d)' /\ Sole(d)'
  <2>1. Sole(d)'
    BY <1>14 DEF Sole, Here
  <2> QED  BY <1>14, <1>15, <2>1 DEF Runs
<1> QED  BY <1>2, <1>12, <1>13, <1>16 DEF CopyInv

(* The state of a connection is taken. *)
LEMMA CopyConnState ==
  ASSUME CopyInv, TypeOK', NEW h \in Hosts, RxConnState(h)
  PROVE  CopyInv'
<1>1. PICK d, e, a : /\ d = Packet1(h).client
                     /\ e = [client |-> d, cb |-> Packet1(h).cb]
                     /\ a = ConnStateAck(d, h)
  OBVIOUS
<1>2. /\ TypeOK /\ inq[h] # <<>> /\ Packet1(h).type = "CONN_STATE"
      /\ active[h][d] # None /\ active[h][d].stage = "PrepareAck"
      /\ active' = [active EXCEPT ![h][d].stage = "ConnStateAck"]
      /\ Joined(h, e) /\ Reply(h, Packet1(h).src, a)
      /\ UNCHANGED <<inflight, established, conn, dropped, owner>>
  BY <1>1 DEF RxConnState, Received, clientVars, tableVars, CopyInv, Joined
<1>3. /\ 1 \in DOMAIN inq[h] /\ inq[h][1] = Packet1(h) /\ Packet1(h).src \in Hosts
      /\ d \in Clients /\ Packet1(h) \in Packet
  BY <1>1, <1>2, HeadOf DEF TcpMigTypes
<1>4. e \in [client: Clients, cb: CB] /\ e.client = d
  <2>1. Packet1(h).cb \in CB
    BY <1>2, <1>3, PacketTypes
  <2> QED  BY <1>1, <1>3, <2>1
<1>5. PICK t \in Hosts : t = Packet1(h).src
  BY <1>3
<1>6. a \in Packet /\ a.client = d /\ a.type = "CONN_STATE_ACK"
  BY <1>1, <1>3, MessageTypes DEF ConnStateAck
<1>7. PICK yes \in BOOLEAN, no \in BOOLEAN : yes = TRUE /\ no = FALSE
  OBVIOUS
<1>8. PICK in : in = {a}
  OBVIOUS
<1>9. Flows(yes, h, t, in)
  BY <1>2, <1>5, <1>6, <1>7, <1>8, FlowsAre
<1>10. InNet(d, h, 1) /\ ~Spent(d, h) /\ ~Young(d) /\ Youth(d) /\ Runs(d)
  BY <1>1, <1>2, <1>3, Grown DEF InNet, Spent, CopyInv
<1>11. \A g \in Hosts : ~Here(d, g)
  BY <1>3, <1>10 DEF Runs
<1>12. ASSUME NEW c \in Clients, c # d PROVE Youth(c)' /\ Runs(c)' /\ Sole(c)'
  <2>1. \A g \in Hosts : established'[g][c] = established[g][c]
    BY <1>2
  <2>2. \A g \in Hosts : active'[g][c] = active[g][c]
    BY <1>2, <1>3, <1>12 DEF TypeOK
  <2>3. ASSUME NEW g \in Hosts, NEW i \in DOMAIN ready'[g], InReady(c, g, i)'
        PROVE  InReady(c, g, Age(no, h, g, i))
    <3>1. InReady(c, g, i) \/ (c = e.client /\ g = h /\ i = Len(ready[h]) + 1)
      BY <1>2, <1>4, <2>3, Joins
    <3> QED  BY <1>4, <1>7, <1>12, <3>1 DEF Age
  <2>4. \A p \in in : p.client # c
    BY <1>6, <1>8, <1>12
  <2> QED  BY <1>2, <1>9, <2>1, <2>2, <2>3, <2>4, CopyOther
<1>13. Youth(d)'
  <2>1. \A p \in in : p.client = d => p.type # "SYN"
    BY <1>6, <1>8
  <2>2. conn'[d] = conn[d] /\ \A g \in Hosts : d \in inflight'[g] => d \in inflight[g]
    BY <1>2
  <2> QED  BY <1>2, <1>3, <1>9, <1>10, <2>1, <2>2, OldKept
<1>14. ASSUME NEW g \in Hosts, NEW i \in DOMAIN ready'[g], InReady(d, g, i)'
       PROVE  g = h /\ i = Len(ready[h]) + 1
  <2>1. InReady(d, g, i) \/ (d = e.client /\ g = h /\ i = Len(ready[h]) + 1)
    BY <1>2, <1>3, <1>4, <1>14, Joins
  <2> QED  BY <1>11, <2>1 DEF Here, InReady
<1>15. \A g \in Hosts : established'[g][d] = None
  BY <1>2, <1>11 DEF Here
<1>16. ASSUME NEW g \in Hosts, NEW i \in DOMAIN inq'[g], InNet(d, g, i)'
       PROVE  g = h /\ Run(d, h, i)'
  <2>1. \A p \in in : p.client = d => p.type # "CONN_STATE"
    BY <1>6, <1>8
  <2>2. /\ Age(yes, h, g, i) \in DOMAIN inq[g] /\ InNet(d, g, Age(yes, h, g, i))
        /\ Run(d, g, Age(yes, h, g, i)) => Run(d, g, i)'
    BY <1>2, <1>3, <1>9, <1>16, <2>1, RunOn
  <2>3. g = h /\ (Age(yes, h, g, i) = 1 \/ Run(d, g, Age(yes, h, g, i)))
    BY <1>3, <1>10, <2>2 DEF Runs
  <2>4. i \in Nat \ {0}
    BY <1>2, FlowPlaces
  <2>5. Age(yes, h, g, i) # 1
    BY <1>7, <2>3, <2>4 DEF Age
  <2> QED  BY <2>2, <2>3, <2>5
<1>17. Spent(d, h)'
  <2>1. active[h][d] \in Migration
    BY <1>2, <1>3 DEF TypeOK
  <2>2. active'[h][d] = [active[h][d] EXCEPT !.stage = "ConnStateAck"]
    BY <1>2, <1>3 DEF TypeOK
  <2>3. active'[h][d].stage = "ConnStateAck"
    BY <2>1, <2>2 DEF Migration
  <2> QED  BY <2>3 DEF Spent
<1>18. Runs(d)' /\ Sole(d)'
  <2>1. \A g \in Hosts : Here(d, g)' => g = h
    BY <1>14, <1>15 DEF Here
  <2>2. Sole(d)'
    BY <1>14, <1>15, <2>1 DEF Sole, InTable
  <2> QED  BY <1>16, <1>17, <2>1, <2>2 DEF Runs
<1> QED  BY <1>2, <1>12, <1>13, <1>18 DEF CopyInv

(* A connection is accepted. *)
LEMMA CopyPollAccept ==
  ASSUME CopyInv, TypeOK', NEW h \in Hosts, PollAccept(h)
  PROVE  CopyInv'
<1>1. PICK d : d = Head(ready[h]).client
  OBVIOUS
<1>2. /\ TypeOK /\ ready[h] # <<>> /\ ready' = [ready EXCEPT ![h] = Tail(@)]
      /\ active' = [active EXCEPT ![h][d] = None]
      /\ UNCHANGED <<inq, inflight, conn, dropped, owner>>
  BY <1>1 DEF PollAccept, Acceptor, CloseMigration, clientVars, CopyInv
<1>3. PICK x : established' = [established EXCEPT ![h][d] = x]
  <2>1. \E x : established' = [established EXCEPT ![h][Head(ready[h]).client] = x]
    BY DEF PollAccept
  <2> QED  BY <1>1, <2>1
<1>4. ready \in [Hosts -> Seq([client: Clients, cb: CB])]
  BY <1>2 DEF TypeOK
<1>5. d \in Clients /\ 1 \in DOMAIN ready[h] /\ InReady(d, h, 1)
  <2>1. ready[h] \in Seq([client: Clients, cb: CB])
    BY <1>4
  <2>2. Head(ready[h]) = ready[h][1] /\ 1 \in DOMAIN ready[h]
    BY <1>2, <2>1
  <2>3. d \in Clients
    BY <1>1, <1>2, ReadyHead
  <2> QED  BY <1>1, <2>2, <2>3 DEF InReady
<1>6. PICK yes \in BOOLEAN, no \in BOOLEAN : yes = TRUE /\ no = FALSE
  OBVIOUS
<1>7. PICK in : in = {}
  OBVIOUS
<1>8. Flows(no, h, h, in)
  BY <1>2, <1>6, <1>7, FlowsAre
<1>9. ASSUME NEW c \in Clients, NEW g \in Hosts, NEW i \in DOMAIN ready'[g], InReady(c, g, i)'
      PROVE  InReady(c, g, Age(yes, h, g, i)) /\ i \in Nat \ {0}
  <2>1. CASE g = h
    <3>1. /\ ready[h] \in Seq([client: Clients, cb: CB])
          /\ ready'[h] = Tail(ready[h])
      BY <1>2, <1>4
    <3>2. /\ Len(Tail(ready[h])) = Len(ready[h]) - 1 /\ Tail(ready[h]) \in Seq([client: Clients, cb: CB])
          /\ \A k \in 1..Len(Tail(ready[h])) : Tail(ready[h])[k] = ready[h][k + 1]
      BY <1>2, <3>1, HeadTailProperties
    <3>3. i \in 1..Len(Tail(ready[h])) /\ Age(yes, h, g, i) = i + 1
      BY <1>6, <1>9, <2>1, <3>1, <3>2 DEF Age
    <3>4. Len(ready[h]) \in Nat /\ DOMAIN ready[h] = 1..Len(ready[h])
      BY <3>1
    <3>5. i + 1 \in DOMAIN ready[h] /\ ready[h][i + 1] = ready'[h][i]
      BY <3>1, <3>2, <3>3, <3>4
    <3> QED  BY <1>9, <2>1, <3>3, <3>5 DEF InReady
  <2>2. CASE g # h
    <3>1. ready'[g] = ready[g] /\ ready[g] \in Seq([client: Clients, cb: CB])
      BY <1>2, <1>4, <2>2
    <3> QED  BY <1>6, <1>9, <2>2, <3>1 DEF InReady, Age
  <2> QED  BY <2>1, <2>2
<1>10. Here(d, h) /\ ~Young(d) /\ Youth(d) /\ Runs(d) /\ Sole(d)
  BY <1>5, Grown DEF Here, CopyInv
<1>11. ASSUME NEW c \in Clients, c # d PROVE Youth(c)' /\ Runs(c)' /\ Sole(c)'
  <2>1. \A g \in Hosts : established'[g][c] = established[g][c]
    BY <1>2, <1>3, <1>5, <1>11 DEF TypeOK
  <2>2. \A g \in Hosts : active'[g][c] = active[g][c]
    BY <1>2, <1>5, <1>11 DEF TypeOK
  <2>3. \A g \in Hosts : \A i \in DOMAIN ready'[g] :
            InReady(c, g, i)' => InReady(c, g, Age(yes, h, g, i))
    BY <1>9
  <2>4. \A p \in in : p.client # c
    BY <1>7
  <2> QED  BY <1>2, <1>8, <2>1, <2>2, <2>3, <2>4, CopyOther
<1>12. Youth(d)'
  <2>1. \A p \in in : p.client = d => p.type # "SYN"
    BY <1>7
  <2>2. conn'[d] = conn[d] /\ \A g \in Hosts : d \in inflight'[g] => d \in inflight[g]
    BY <1>2
  <2> QED  BY <1>2, <1>5, <1>8, <1>10, <2>1, <2>2, OldKept
<1>13. \A g \in Hosts : g # h => established'[g][d] = established[g][d]
  BY <1>2, <1>3, <1>5 DEF TypeOK
<1>14. ASSUME NEW g \in Hosts, Here(d, g)' PROVE Here(d, g)
  <2>1. CASE g = h
    BY <1>10, <2>1
  <2>2. CASE \E i \in DOMAIN ready'[g] : InReady(d, g, i)'
    <3>1. PICK i \in DOMAIN ready'[g] : InReady(d, g, i)'
      BY <2>2
    <3>2. InReady(d, g, Age(yes, h, g, i))
      BY <1>5, <1>9, <3>1
    <3> QED  BY <3>2 DEF Here, InReady
  <2>3. CASE g # h /\ established'[g][d] # None
    BY <1>13, <2>3 DEF Here
  <2> QED  BY <1>14, <2>1, <2>2, <2>3 DEF Here
<1>15. Runs(d)'
  <2>1. \A p \in in : p.client = d => p.type # "CONN_STATE"
    BY <1>7
  <2>2. \A g \in Hosts : Spent(d, g) /\ InNet(d, g, 1) => Spent(d, g)'
    <3>1. \A g \in Hosts : active'[g][d] = IF g = h THEN None ELSE active[g][d]
      BY <1>2, <1>5 DEF TypeOK
    <3> QED  BY <3>1 DEF Spent
  <2> QED  BY <1>2, <1>5, <1>8, <1>10, <1>14, <2>1, <2>2, RunsKept
<1>16. Sole(d)'
  <2>1. \A g \in Hosts : Here(d, g)' => g = h
    BY <1>10, <1>14 DEF Sole
  <2>2. ASSUME NEW g \in Hosts, NEW i \in DOMAIN ready'[g], InReady(d, g, i)' PROVE FALSE
    <3>1. g = h
      BY <2>1, <2>2 DEF Here
    <3>2. InReady(d, h, i + 1) /\ i \in Nat \ {0}
      BY <1>5, <1>6, <1>9, <2>2, <3>1 DEF Age
    <3>3. i + 1 = 1
      BY <1>5, <1>10, <3>2 DEF Sole, InReady
    <3> QED  BY <3>2, <3>3
  <2> QED  BY <2>1, <2>2 DEF Sole
<1> QED  BY <1>2, <1>11, <1>12, <1>15, <1>16 DEF CopyInv

(* A second copy of the head stands beside it: a run grows, no entry waits *)
(* that did not, and the segments of a handshake keep their order.         *)
LEMMA CopyDuplicate ==
  ASSUME CopyInv, TypeOK', NEW h \in Hosts, Duplicate(h)
  PROVE  CopyInv'
<1>1. /\ TypeOK /\ inq[h] # <<>> /\ inq' = [inq EXCEPT ![h] = <<Head(inq[h])>> \o inq[h]]
      /\ UNCHANGED <<inflight, ready, active, established, owner, conn, dropped>>
  BY DEF Duplicate, listenVars, tableVars, clientVars, CopyInv
<1>2. ASSUME NEW g \in Hosts, NEW i \in DOMAIN inq'[g]
      PROVE  /\ i \in Nat \ {0} /\ Back(h, g, i) \in DOMAIN inq[g] /\ Back(h, g, i) \in Nat \ {0}
             /\ inq'[g][i] = inq[g][Back(h, g, i)]
             /\ \A k \in 1..i : k \in DOMAIN inq'[g] /\ Back(h, g, k) \in 1..Back(h, g, i)
  <2>1. inq \in [Hosts -> Seq(Packet)] /\ inq[g] \in Seq(Packet)
    BY <1>1 DEF TypeOK
  <2>2. CASE g = h
    <3>1. /\ Head(inq[h]) = inq[h][1] /\ <<Head(inq[h])>> \in Seq(Packet) /\ Len(inq[h]) \in Nat \ {0}
          /\ Len(<<Head(inq[h])>>) = 1 /\ <<Head(inq[h])>>[1] = Head(inq[h])
          /\ DOMAIN inq[h] = 1..Len(inq[h])
      BY <1>1, <2>1, <2>2, HeadTailProperties
    <3>2. PICK s \in Seq(Packet) : s = <<Head(inq[h])>> \o inq[h]
      BY <2>1, <2>2, <3>1, ConcatProperties
    <3>3. /\ Len(s) = Len(inq[h]) + 1 /\ DOMAIN s = 1..Len(s) /\ s[1] = inq[h][1]
          /\ \A k \in 2..Len(s) : s[k] = inq[h][k - 1]
      BY <2>1, <2>2, <3>1, <3>2, ConcatProperties
    <3>4. inq'[g] = s
      BY <1>1, <2>1, <2>2, <3>2
    <3>5. i \in 1..(Len(inq[h]) + 1) /\ \A k \in 1..i : k \in 1..Len(s)
      BY <1>2, <3>1, <3>3, <3>4
    <3>6. /\ Back(h, g, i) \in 1..Len(inq[h])
          /\ \A k \in 1..i : Back(h, g, k) \in 1..Back(h, g, i)
      BY <2>2, <3>1, <3>5 DEF Back
    <3>7. s[i] = inq[h][Back(h, g, i)]
      BY <2>2, <3>1, <3>3, <3>5 DEF Back
    <3> QED  BY <2>2, <3>1, <3>3, <3>4, <3>5, <3>6, <3>7
  <2>3. CASE g # h
    <3>1. inq'[g] = inq[g] /\ \A k : Back(h, g, k) = k
      BY <1>1, <2>1, <2>3 DEF Back
    <3> QED  BY <2>1, <3>1
  <2> QED  BY <2>2, <2>3
<1>3. ASSUME NEW c \in Clients PROVE Youth(c)' /\ Runs(c)' /\ Sole(c)'
  <2>1. Youth(c) /\ Runs(c) /\ Sole(c)
    BY <1>3 DEF CopyInv
  <2>2. \A g \in Hosts : /\ Here(c, g)' <=> Here(c, g)
                         /\ Spent(c, g)' <=> Spent(c, g)
                         /\ InTable(c, g)' <=> InTable(c, g)
                         /\ \A i : InReady(c, g, i)' <=> InReady(c, g, i)
    BY <1>1 DEF Here, Spent, InTable, InReady
  <2>3. ASSUME NEW g \in Hosts, NEW i \in DOMAIN inq'[g]
        PROVE  /\ \A type : Msg(g, i, c, type)' => Msg(g, Back(h, g, i), c, type)
               /\ InNet(c, g, i)' <=> InNet(c, g, Back(h, g, i))
    BY <1>2 DEF Msg, InNet
  <2>4. \A g \in Hosts : Opening(c, g)' => Opening(c, g)
    <3> SUFFICES ASSUME NEW g \in Hosts, Opening(c, g)' PROVE Opening(c, g)
      OBVIOUS
    <3>1. CASE c \in inflight'[g]
      BY <1>1, <3>1 DEF Opening
    <3>2. CASE \E i \in DOMAIN inq'[g] : Msg(g, i, c, "SYN")'
      <4>1. PICK i \in DOMAIN inq'[g] : Msg(g, i, c, "SYN")'
        BY <3>2
      <4> QED  BY <1>2, <2>3, <4>1 DEF Opening
    <3> QED  BY <3>1, <3>2 DEF Opening
  <2>5. Young(c)' => Young(c)
    BY <1>1, <2>4 DEF Young
  <2>6. Youth(c)'
    <3>1. ASSUME Young(c)', NEW g \in Hosts
          PROVE  /\ ~Here(c, g)' /\ active'[g][c] = None
                 /\ \A i \in DOMAIN inq'[g] : inq'[g][i].client = c =>
                        inq'[g][i].type \in {"SYN", "DATA"}
      <4>1. Young(c)
        BY <2>5, <3>1
      <4>2. \A i \in DOMAIN inq[g] : inq[g][i].client = c => inq[g][i].type \in {"SYN", "DATA"}
        BY <2>1, <4>1 DEF Youth
      <4> QED  BY <1>1, <1>2, <2>1, <2>2, <4>1, <4>2 DEF Youth
    <3>2. \A g \in Hosts : Opening(c, g)' => owner'[c] = g /\ conn'[c] # "closed"
      BY <1>1, <2>1, <2>4 DEF Youth
    <3>3. ASSUME NEW g \in Hosts, NEW i \in DOMAIN inq'[g], NEW j \in DOMAIN inq'[g],
                 Msg(g, i, c, "DATA")'
          PROVE  conn'[c] = "open" /\ ~(i < j /\ Msg(g, j, c, "SYN")')
      <4>1. Msg(g, Back(h, g, i), c, "DATA") /\ Back(h, g, i) \in DOMAIN inq[g]
        BY <1>2, <2>3, <3>3
      <4>2. conn[c] = "open"
        BY <2>1, <4>1 DEF Youth
      <4>3. ASSUME i < j, Msg(g, j, c, "SYN")' PROVE FALSE
        <5>1. Msg(g, Back(h, g, j), c, "SYN") /\ Back(h, g, j) \in DOMAIN inq[g]
          BY <1>2, <2>3, <4>3
        <5>2. i \in 1..j
          BY <1>2, <4>3
        <5>3. Back(h, g, i) \in 1..Back(h, g, j)
          BY <1>2, <5>2
        <5>4. Back(h, g, i) # Back(h, g, j)
          BY <4>1, <5>1 DEF Msg
        <5>5. Back(h, g, i) < Back(h, g, j)
          BY <1>2, <5>3, <5>4
        <5> QED  BY <2>1, <4>1, <5>1, <5>5 DEF Youth
      <4> QED  BY <1>1, <4>2, <4>3
    <3>4. conn'[c] = "closed" => dropped'[c] = {}
      BY <1>1, <2>1 DEF Youth
    <3> QED  BY <3>1, <3>2, <3>3, <3>4 DEF Youth
  <2>7. ASSUME NEW g \in Hosts, NEW i \in DOMAIN inq'[g], Run(c, g, Back(h, g, i))
        PROVE  Run(c, g, i)'
    <3> SUFFICES ASSUME NEW k \in 1..i PROVE InNet(c, g, k)'
      BY DEF Run
    <3>1. k \in DOMAIN inq'[g] /\ Back(h, g, k) \in 1..Back(h, g, i)
      BY <1>2, <2>7
    <3>2. InNet(c, g, Back(h, g, k))
      BY <2>7, <3>1 DEF Run
    <3> QED  BY <2>3, <3>1, <3>2
  <2>8. ASSUME NEW g \in Hosts, NEW f \in Hosts, NEW i \in DOMAIN inq'[g],
               NEW j \in DOMAIN inq'[f], InNet(c, g, i)', InNet(c, f, j)'
        PROVE  g = f /\ (i = j \/ Run(c, g, i)')
    <3>1. /\ Back(h, g, i) \in DOMAIN inq[g] /\ InNet(c, g, Back(h, g, i))
          /\ Back(h, f, j) \in DOMAIN inq[f] /\ InNet(c, f, Back(h, f, j))
      BY <1>2, <2>3, <2>8
    <3>2. g = f /\ (Back(h, g, i) = Back(h, g, j) \/ Run(c, g, Back(h, g, i)))
      BY <2>1, <3>1 DEF Runs
    <3>3. CASE Back(h, g, i) = Back(h, g, j) /\ i # j
      <4>1. i \in Nat \ {0} /\ j \in Nat \ {0} /\ j \in DOMAIN inq'[g]
        BY <1>2, <3>2
      <4>2. Back(h, g, i) = 1
        BY <3>3, <4>1 DEF Back
      <4>3. Run(c, g, Back(h, g, i))
        BY <3>1, <4>2 DEF Run
      <4> QED  BY <2>7, <3>2, <4>3
    <3> QED  BY <2>7, <3>2, <3>3
  <2>9. ASSUME NEW g \in Hosts, NEW f \in Hosts, NEW i \in DOMAIN inq'[g],
               InNet(c, g, i)', Here(c, f)'
        PROVE  g = f /\ Run(c, g, i)' /\ Spent(c, g)'
    <3>1. Back(h, g, i) \in DOMAIN inq[g] /\ InNet(c, g, Back(h, g, i)) /\ Here(c, f)
      BY <1>2, <2>2, <2>3, <2>9
    <3>2. g = f /\ Run(c, g, Back(h, g, i)) /\ Spent(c, g)
      BY <2>1, <3>1 DEF Runs
    <3> QED  BY <2>2, <2>7, <3>2
  <2>10. Sole(c)'
    BY <1>1, <2>1, <2>2 DEF Sole
  <2> QED  BY <2>6, <2>8, <2>9, <2>10 DEF Runs
<1> QED  BY <1>3 DEF CopyInv

(* Every step keeps the invariant. *)
LEMMA CopyStep ==
  ASSUME CopyInv, [Next]_vars
  PROVE  CopyInv'
<1>1. TypeOK'
  BY TypeStep DEF CopyInv
<1>2. CASE UNCHANGED vars
  <2>1. CASE \E h \in Hosts : TRUE
    BY <1>1, <1>2, <2>1, CopyIdle
  <2>2. CASE Hosts = {}
    <3>1. UNCHANGED <<inq, inflight, ready, active, established, owner, conn, dropped>>
      BY <1>2 DEF vars, listenVars, tableVars, clientVars
    <3>2. conn'=conn /\ dropped' = dropped
      BY <3>1
    <3> QED  BY <1>1, <2>2, <3>2 DEF CopyInv, Youth, Runs, Sole, Young
  <2> QED  BY <2>1, <2>2
<1>3. CASE Next
  <2>1. ASSUME NEW c \in Clients, Client(c) PROVE CopyInv'
    BY <1>1, <2>1, CopyClient
  <2>2. ASSUME NEW h \in Hosts, Receive(h) PROVE CopyInv'
    BY <1>1, <2>2, CopyConsumed, CopyPassive, CopyPrepares, CopyPrepareAck,
       CopyConnState DEF Receive
  <2>3. ASSUME NEW h \in Hosts, PollAccept(h) PROVE CopyInv'
    BY <1>1, <2>3, CopyPollAccept
  <2>4. ASSUME NEW h \in Hosts, Accept(h) \/ Abort(h) PROVE CopyInv'
    BY <1>1, <2>4, CopyIdle
  <2>5. ASSUME NEW h \in Hosts, Lose(h) PROVE CopyInv'
    BY <1>1, <2>5, CopyConsumed
  <2>6. ASSUME NEW h \in Hosts, Duplicate(h) PROVE CopyInv'
    BY <1>1, <2>6, CopyDuplicate
  <2>7. ASSUME NEW h \in Hosts, NEW c \in Clients, InitiateMigration(h, c)
        PROVE  CopyInv'
    BY <1>1, <2>7, CopyPrepares
  <2>8. ASSUME NEW h \in Hosts, NEW q \in QDs,
               \/ Pop(h, q) \/ PollRecv(h, q)
               \/ PollMigratedOut(h, q) \/ Close(h, q)
        PROVE  CopyInv'
    BY <1>1, <2>8, CopyIdle
  <2> QED  BY <1>3, <2>1, <2>2, <2>3, <2>4, <2>5, <2>6, <2>7, <2>8 DEF Next
<1> QED  BY <1>2, <1>3

(* Whatever the network loses or delivers twice in a row, and whether the  *)
(* application closes connections or not, at most one state of each        *)
(* migration becomes a control block: the stage of the entry               *)
(* (process_packet) turns the other copies away.                           *)
THEOREM OneControlBlockInvariant == Spec => []OneControlBlock
<1>1. Init => CopyInv
  BY CopyInit
<1>2. CopyInv /\ [Next]_vars => CopyInv'
  BY CopyStep
<1>3. CopyInv => OneControlBlock
  BY SoleIsOne DEF CopyInv
<1> QED  BY <1>1, <1>2, <1>3, PTL DEF Spec

-----------------------------------------------------------------------------
(* Messages in the queues, before and after a step. *)

(* A message stands at a position of a queue. *)
LEMMA MsgTypes ==
  ASSUME TypeOK, NEW g \in Hosts, NEW i, NEW c, NEW type, Msg(g, i, c, type)
  PROVE  /\ i \in Nat /\ i > 0
         /\ inq[g][i] \in Packet /\ c \in Clients
         /\ type \in TcpMigTypes => From(g, i) \in Hosts
         /\ type \in {"SYN", "DATA"} \cup TcpMigTypes
<1>1. inq[g] \in Seq(Packet) /\ i \in DOMAIN inq[g]
  BY DEF TypeOK, Msg
<1>2. i \in Nat /\ i > 0 /\ inq[g][i] \in Packet
  BY <1>1
<1> QED  BY <1>2, PacketTypes DEF Msg, From

(* A queue, and what is left of it without its head. *)
LEMMA QueueTypes ==
  ASSUME TypeOK, NEW g \in Hosts
  PROVE  /\ Len(inq[g]) \in Nat /\ DOMAIN inq[g] = 1..Len(inq[g])
         /\ inq[g] # <<>> =>
              /\ Len(inq[g]) > 0
              /\ Len(Tail(inq[g])) = Len(inq[g]) - 1
              /\ DOMAIN Tail(inq[g]) = 1..(Len(inq[g]) - 1)
              /\ \A i \in DOMAIN Tail(inq[g]) : Tail(inq[g])[i] = inq[g][i + 1]
              /\ Tail(inq[g]) \in Seq(Packet)
<1>1. inq[g] \in Seq(Packet)
  BY DEF TypeOK
<1>2. ASSUME inq[g] # <<>>
      PROVE  /\ Tail(inq[g]) \in Seq(Packet) /\ Len(inq[g]) > 0
             /\ Len(Tail(inq[g])) = Len(inq[g]) - 1
             /\ \A i \in 1..Len(Tail(inq[g])) : Tail(inq[g])[i] = inq[g][i + 1]
  BY <1>1, <1>2, HeadTailProperties, EmptySeq
<1> QED  BY <1>1, <1>2

(* The head of a queue as a message. *)
LEMMA HeadMsg ==
  ASSUME TypeOK, NEW h \in Hosts, inq[h] # <<>>
  PROVE  /\ Packet1(h) \in Packet
         /\ Msg(h, 1, Packet1(h).client, Packet1(h).type)
         /\ From(h, 1) = Packet1(h).src
         /\ \A c, type : Msg(h, 1, c, type) =>
                c = Packet1(h).client /\ type = Packet1(h).type
<1>1. inq \in Queues
  BY DEF TypeOK, Queues
<1>2. Packet1(h) \in Packet /\ 1 \in DOMAIN inq[h] /\ Packet1(h) = inq[h][1]
  BY <1>1, HeadIsPacket
<1> QED  BY <1>2 DEF Msg, From

(* A handled packet is gone and the others move up. *)
LEMMA ConsumeDrains ==
  ASSUME TypeOK, NEW h \in Hosts, inq[h] # <<>>, Consume(h)
  PROVE  Drains(TRUE, h)
<1>1. inq \in [Hosts -> Seq(Packet)]
  BY DEF TypeOK
<1>2. inq' = [inq EXCEPT ![h] = Tail(inq[h])]
  BY DEF Consume
<1>3. ASSUME NEW g \in Hosts, NEW i \in Nat
      PROVE  /\ i \in DOMAIN inq'[g] <=> i > 0 /\ Old(TRUE, h, g, i) \in DOMAIN inq[g]
             /\ i \in DOMAIN inq'[g] => inq'[g][i] = inq[g][Old(TRUE, h, g, i)]
  <2>1. CASE g = h
    <3>1. inq'[g] = Tail(inq[h])
      BY <1>1, <1>2, <2>1
    <3> QED  BY <2>1, <3>1, QueueTypes DEF Old
  <2>2. CASE g # h
    <3>1. inq'[g] = inq[g]
      BY <1>1, <1>2, <2>2
    <3> QED  BY <2>2, <3>1, QueueTypes DEF Old
  <2> QED  BY <2>1, <2>2
<1>4. SUFFICES ASSUME NEW g \in Hosts, NEW i \in Nat, NEW c, NEW type
      PROVE  /\ Msg(g, i, c, type)' => Stays(TRUE, h, g, i, c, type)
             /\ i > 0 /\ Msg(g, Old(TRUE, h, g, i), c, type) =>
                    Msg(g, i, c, type)'
  BY DEF Drains
<1> DEFINE o == Old(TRUE, h, g, i)
<1>5. /\ i \in DOMAIN inq'[g] <=> i > 0 /\ o \in DOMAIN inq[g]
      /\ i \in DOMAIN inq'[g] => inq'[g][i] = inq[g][o]
  BY <1>3
<1> HIDE DEF o
<1>6. /\ Msg(g, i, c, type)' =>
            i > 0 /\ Msg(g, o, c, type) /\ From(g, i)' = From(g, o)
      /\ i > 0 /\ Msg(g, o, c, type) => Msg(g, i, c, type)'
  BY <1>5 DEF Msg, From
<1> QED  BY <1>6 DEF Stays, o

(* A packet that is sent is the last of its queue. *)
LEMMA TransmitSends ==
  ASSUME TypeOK, NEW h \in Hosts, NEW t \in Hosts, NEW p \in Packet,
         Transmit(t, p)
  PROVE  \E n \in Nat : Sends(FALSE, h, t, n, p)
<1>1. inq \in [Hosts -> Seq(Packet)]
  BY DEF TypeOK
<1>2. inq' = [inq EXCEPT ![t] = Append(inq[t], p)]
  BY DEF Transmit
<1>0. PICK n \in Nat : n = Len(inq[t]) + 1
  BY QueueTypes
<1>3. /\ n = Len(inq[t]) + 1
      /\ Len(inq[t]) \in Nat /\ DOMAIN inq[t] = 1..Len(inq[t])
      /\ DOMAIN Append(inq[t], p) = 1..n
      /\ \A i \in 1..Len(inq[t]) : Append(inq[t], p)[i] = inq[t][i]
      /\ Append(inq[t], p)[n] = p
  <2>1. inq[t] \in Seq(Packet)
    BY <1>1
  <2>2. /\ Append(inq[t], p) \in Seq(Packet)
        /\ Len(Append(inq[t], p)) = n
        /\ \A i \in 1..Len(inq[t]) : Append(inq[t], p)[i] = inq[t][i]
        /\ Append(inq[t], p)[n] = p
    BY <1>0, <2>1, AppendProperties
  <2> QED  BY <1>0, <2>1, <2>2
<1>4. /\ n \in DOMAIN inq'[t] /\ inq'[t][n] = p
  BY <1>1, <1>2, <1>3
<1>5. ASSUME NEW g \in Hosts, NEW i \in Nat
      PROVE  /\ i \in DOMAIN inq'[g] => i \in DOMAIN inq[g] \/ (g = t /\ i = n)
             /\ i \in DOMAIN inq[g] => /\ i \in DOMAIN inq'[g] /\ i > 0
                                       /\ inq'[g][i] = inq[g][i]
                                       /\ g = t => i < n
  <2>1. CASE g = t
    <3>1. inq'[g] = Append(inq[t], p)
      BY <1>1, <1>2, <2>1
    <3> QED  BY <1>3, <2>1, <3>1, QueueTypes
  <2>2. CASE g # t
    <3>1. inq'[g] = inq[g]
      BY <1>1, <1>2, <2>2
    <3> QED  BY <2>2, <3>1, QueueTypes
  <2> QED  BY <2>1, <2>2
<1>6. Msg(t, n, p.client, p.type)' /\ From(t, n)' = p.src
  BY <1>4 DEF Msg, From
<1>7. ASSUME NEW g \in Hosts, NEW i \in Nat, NEW c, NEW type
      PROVE  /\ Msg(g, i, c, type)' =>
                    \/ i > 0 /\ Msg(g, i, c, type) /\ From(g, i)' = From(g, i)
                    \/ g = t /\ i = n /\ c = p.client /\ type = p.type
             /\ i > 0 /\ Msg(g, i, c, type) =>
                    Msg(g, i, c, type)' /\ (g = t => i < n)
  <2>1. CASE i \in DOMAIN inq[g]
    BY <1>5, <2>1 DEF Msg, From
  <2>2. CASE i \notin DOMAIN inq[g]
    BY <1>4, <1>5, <2>2 DEF Msg, From
  <2> QED  BY <2>1, <2>2
<1>8. Sends(FALSE, h, t, n, p)
  <2>1. ASSUME NEW g \in Hosts, NEW i \in Nat, NEW c, NEW type
        PROVE  /\ Msg(g, i, c, type)' =>
                    \/ Stays(FALSE, h, g, i, c, type)
                    \/ g = t /\ i = n /\ c = p.client /\ type = p.type
               /\ i > 0 /\ Msg(g, Old(FALSE, h, g, i), c, type) =>
                    Msg(g, i, c, type)' /\ (g = t => i < n)
    <3>1. Old(FALSE, h, g, i) = i
      BY DEF Old
    <3>2. Stays(FALSE, h, g, i, c, type) <=>
                /\ i > 0 /\ Msg(g, i, c, type)
                /\ From(g, i)' = From(g, i)
      BY <3>1 DEF Stays
    <3> QED  BY <1>7, <3>1, <3>2
  <2> QED  BY <1>6, <2>1 DEF Sends
<1> QED  BY <1>8

(* A packet that is answered is gone, the answer is the last of its queue. *)
LEMMA ReplySends ==
  ASSUME TypeOK, NEW h \in Hosts, inq[h] # <<>>,
         NEW t \in Hosts, NEW p \in Packet, Reply(h, t, p)
  PROVE  \E n \in Nat : Sends(TRUE, h, t, n, p)
<1> DEFINE mid == [inq EXCEPT ![h] = Tail(inq[h])]
<1>1. inq \in [Hosts -> Seq(Packet)]
  BY DEF TypeOK
<1>2. inq' = [mid EXCEPT ![t] = Append(mid[t], p)]
  BY DEF Reply
<1>3. /\ Tail(inq[h]) \in Seq(Packet)
      /\ mid \in [Hosts -> Seq(Packet)]
  BY <1>1, QueueTypes
<1>a. mid[h] = Tail(inq[h]) /\ \A g \in Hosts \ {h} : mid[g] = inq[g]
  BY <1>1
<1> HIDE DEF mid
<1>4. ASSUME NEW g \in Hosts, NEW i \in Nat
      PROVE  /\ i \in DOMAIN mid[g] <=> i > 0 /\ Old(TRUE, h, g, i) \in DOMAIN inq[g]
             /\ i \in DOMAIN mid[g] => mid[g][i] = inq[g][Old(TRUE, h, g, i)]
  <2>1. CASE g = h
    <3>1. mid[g] = Tail(inq[h])
      BY <1>a, <2>1
    <3> QED  BY <2>1, <3>1, QueueTypes DEF Old
  <2>2. CASE g # h
    <3>1. mid[g] = inq[g]
      BY <1>a, <2>2
    <3> QED  BY <2>2, <3>1, QueueTypes DEF Old
  <2> QED  BY <2>1, <2>2
<1>b. PICK n \in Nat : n = Len(mid[t]) + 1
  <2>1. mid[t] \in Seq(Packet)
    BY <1>3
  <2> QED  BY <2>1
<1>5. /\ n = Len(mid[t]) + 1
      /\ DOMAIN mid[t] = 1..Len(mid[t]) /\ Len(mid[t]) \in Nat
      /\ DOMAIN Append(mid[t], p) = 1..n
      /\ \A i \in 1..Len(mid[t]) : Append(mid[t], p)[i] = mid[t][i]
      /\ Append(mid[t], p)[n] = p
  <2>1. mid[t] \in Seq(Packet)
    BY <1>3
  <2>2. /\ Append(mid[t], p) \in Seq(Packet)
        /\ Len(Append(mid[t], p)) = n
        /\ \A i \in 1..Len(mid[t]) : Append(mid[t], p)[i] = mid[t][i]
        /\ Append(mid[t], p)[n] = p
    BY <1>b, <2>1, AppendProperties
  <2> QED  BY <1>b, <2>1, <2>2
<1>6. /\ n \in DOMAIN inq'[t] /\ inq'[t][n] = p
  BY <1>2, <1>3, <1>5
<1>7. ASSUME NEW g \in Hosts, NEW i \in Nat
      PROVE  /\ i \in DOMAIN inq'[g] => i \in DOMAIN mid[g] \/ (g = t /\ i = n)
             /\ i \in DOMAIN mid[g] => /\ i \in DOMAIN inq'[g]
                                       /\ inq'[g][i] = mid[g][i]
                                       /\ g = t => i < n
  <2>1. CASE g = t
    <3>1. inq'[g] = Append(mid[t], p)
      BY <1>2, <1>3, <2>1
    <3> QED  BY <1>5, <2>1, <3>1
  <2>2. CASE g # t
    <3>1. inq'[g] = mid[g]
      BY <1>2, <1>3, <2>2
    <3> QED  BY <2>2, <3>1
  <2> QED  BY <2>1, <2>2
<1>8. ASSUME NEW g \in Hosts, NEW i \in Nat
      PROVE  /\ i \in DOMAIN inq'[g] =>
                    \/ /\ i > 0 /\ Old(TRUE, h, g, i) \in DOMAIN inq[g]
                       /\ inq'[g][i] = inq[g][Old(TRUE, h, g, i)]
                    \/ g = t /\ i = n
             /\ i > 0 /\ Old(TRUE, h, g, i) \in DOMAIN inq[g] =>
                    /\ i \in DOMAIN inq'[g]
                    /\ inq'[g][i] = inq[g][Old(TRUE, h, g, i)]
                    /\ g = t => i < n
  <2> DEFINE o == Old(TRUE, h, g, i)
  <2>1. /\ i \in DOMAIN mid[g] <=> i > 0 /\ o \in DOMAIN inq[g]
        /\ i \in DOMAIN mid[g] => mid[g][i] = inq[g][o]
    BY <1>4
  <2>2. /\ i \in DOMAIN inq'[g] => i \in DOMAIN mid[g] \/ (g = t /\ i = n)
        /\ i \in DOMAIN mid[g] => /\ i \in DOMAIN inq'[g]
                                  /\ inq'[g][i] = mid[g][i]
                                  /\ g = t => i < n
    BY <1>7
  <2> HIDE DEF o
  <2>3. CASE i \in DOMAIN mid[g]
    BY <2>1, <2>2, <2>3 DEF o
  <2>4. CASE i \notin DOMAIN mid[g]
    BY <2>1, <2>2, <2>4 DEF o
  <2> QED  BY <2>3, <2>4
<1>9. Msg(t, n, p.client, p.type)' /\ From(t, n)' = p.src
  BY <1>6 DEF Msg, From
<1>10. ASSUME NEW g \in Hosts, NEW i \in Nat, NEW c, NEW type
       PROVE  /\ Msg(g, i, c, type)' =>
                    \/ Stays(TRUE, h, g, i, c, type)
                    \/ g = t /\ i = n /\ c = p.client /\ type = p.type
              /\ i > 0 /\ Msg(g, Old(TRUE, h, g, i), c, type) =>
                    Msg(g, i, c, type)' /\ (g = t => i < n)
  <2> DEFINE o == Old(TRUE, h, g, i)
  <2>1. /\ i \in DOMAIN inq'[g] =>
                    \/ /\ i > 0 /\ o \in DOMAIN inq[g]
                       /\ inq'[g][i] = inq[g][o]
                    \/ g = t /\ i = n
        /\ i > 0 /\ o \in DOMAIN inq[g] =>
                    /\ i \in DOMAIN inq'[g]
                    /\ inq'[g][i] = inq[g][o]
                    /\ g = t => i < n
    BY <1>8
  <2> HIDE DEF o
  <2>2. /\ Msg(g, i, c, type)' =>
              \/ i > 0 /\ Msg(g, o, c, type) /\ From(g, i)' = From(g, o)
              \/ g = t /\ i = n /\ c = p.client /\ type = p.type
        /\ i > 0 /\ Msg(g, o, c, type) =>
              Msg(g, i, c, type)' /\ (g = t => i < n)
    BY <1>6, <2>1 DEF Msg, From
  <2> QED  BY <2>2 DEF Stays, o
<1>11. Sends(TRUE, h, t, n, p)
  BY <1>6, <1>9, <1>10 DEF Sends
<1> QED  BY <1>6, <1>11

-----------------------------------------------------------------------------
(* A step that leaves the migrations of a connection alone. *)

(* What a stage can be. *)
LEMMA StageTypes ==
  ASSUME TypeOK, NEW g \in Hosts, NEW c \in Clients
  PROVE  /\ Stage(g, c) \in {"Idle", "Prepare", "PrepareAck", "ConnState",
                             "ConnStateAck"}
         /\ active[g][c] # None =>
              active[g][c] \in Migration /\ Stage(g, c) = active[g][c].stage
         /\ Stage(g, c) = "Idle" <=> active[g][c] = None
<1>1. active[g][c] \in Migration \cup {None}
  BY DEF TypeOK
<1> QED  BY <1>1 DEF Stage, Migration, Stages

(* A message about a migration is where it was, moved up if it must. *)
LEMMA MessageStays ==
  ASSUME TypeOK, NEW d \in Clients, NEW consumed, NEW h,
         Undisturbed(d, consumed, h),
         NEW g \in Hosts, NEW j \in Nat, NEW type \in TcpMigTypes,
         Msg(g, j, d, type)
  PROVE  \E i \in Nat : /\ i > 0 /\ j = Old(consumed, h, g, i)
                        /\ Msg(g, i, d, type)' /\ From(g, i)' = From(g, j)
<1>1. j > 0
  BY MsgTypes
<1>2. consumed /\ g = h => j # 1
  BY DEF Undisturbed
<1>3. PICK i \in Nat : i > 0 /\ j = Old(consumed, h, g, i)
  <2>1. CASE consumed /\ g = h
    <3>1. j - 1 \in Nat /\ j - 1 > 0 /\ j = Old(consumed, h, g, j - 1)
      BY <1>1, <1>2, <2>1 DEF Old
    <3> QED  BY <3>1
  <2>2. CASE ~(consumed /\ g = h)
    BY <1>1, <2>2 DEF Old
  <2> QED  BY <2>1, <2>2
<1>4. Msg(g, i, d, type)'
  BY <1>3 DEF Undisturbed
<1>5. type \notin {"SYN", "DATA"}
  BY DEF TcpMigTypes
<1>6. Stays(consumed, h, g, i, d, type)
  BY <1>4, <1>5 DEF Undisturbed
<1> QED  BY <1>3, <1>4, <1>6 DEF Stays

(* Such a step keeps what the invariant says of the connection. *)
LEMMA ProtocolUndisturbed ==
  ASSUME TypeOK, NEW d \in Clients, NEW consumed, NEW h,
         Undisturbed(d, consumed, h), Protocol(d)
  PROVE  Protocol(d)'
<1>1. owner[d] \in Hosts /\ owner'[d] = owner[d]
  BY DEF TypeOK, Undisturbed
<1>2. \A g \in Hosts :
        /\ Stage(g, d)' = Stage(g, d)
        /\ InTable(d, g)' <=> InTable(d, g)
        /\ Waits(g, d) => Waits(g, d)'
        /\ Waits(g, d)' => Waits(g, d) \/ Hands(g, d)
        /\ Hands(g, d)' => Hands(g, d) \/ (owner[d] = g /\ NoEntries(d))
        /\ Quiet(g, d) /\ Stage(g, d) \notin {"PrepareAck", "ConnStateAck"} =>
                Quiet(g, d)'
        /\ Initiated(g, d) /\ Stage(g, d) = "Prepare" => Initiated(g, d)'
  BY DEF Undisturbed
<1>3. NoEntries(d)' <=> NoEntries(d)
  BY <1>2 DEF NoEntries
<1>4. Entries(d)'
  <2>1. SUFFICES ASSUME NEW g \in Hosts
        PROVE
        /\ Stage(g, d) = "Prepare" => InTable(d, g) /\ Initiated(g, d)'
        /\ Stage(g, d) = "PrepareAck" => owner[d] = g
        /\ Stage(g, d) = "ConnStateAck" => owner[d] = g /\ Waits(g, d)'
        /\ Stage(g, d) = "ConnState" => owner[d] # g /\ Quiet(g, d)'
        /\ InTable(d, g) =>
              /\ Stage(g, d) \in {"Idle", "Prepare"} /\ Quiet(g, d)'
              /\ \/ owner[d] = g
                 \/ Stage(g, d) = "Prepare" /\ Stage(owner[d], d) = "PrepareAck"
        /\ Waits(g, d)' => /\ owner[d] = g
                           /\ Stage(g, d) = "ConnStateAck" \/ NoEntries(d)
        /\ Hands(g, d)' => owner[d] = g /\ NoEntries(d)
    BY <1>1, <1>2, <1>3 DEF Entries
  <2>2. Entries(d)
    BY DEF Protocol
  <2> QED  BY <1>2, <2>2 DEF Entries
<1>5. ASSUME NEW g \in Hosts, NEW j \in Nat, NEW type \in TcpMigTypes,
             Msg(g, j, d, type)
      PROVE  \E i \in Nat : /\ i > 0 /\ j = Old(consumed, h, g, i)
                            /\ Msg(g, i, d, type)' /\ From(g, i)' = From(g, j)
  BY <1>5, MessageStays
<1>6. ASSUME NEW g \in Hosts, NEW i \in Nat, NEW type, Msg(g, i, d, type)'
      PROVE  \/ Stays(consumed, h, g, i, d, type)
             \/ type \in {"SYN", "DATA"} /\ owner[d] = g
  BY <1>6 DEF Undisturbed
<1>7. \A g \in Hosts, i, j \in Nat :
          /\ Old(consumed, h, g, i) \in Nat
          /\ Old(consumed, h, g, i) < Old(consumed, h, g, j) <=> i < j
          /\ Old(consumed, h, g, i) = Old(consumed, h, g, j) <=> i = j
  BY DEF Old
<1>8. Answers(d)'
  <2>1. SUFFICES ASSUME NEW g \in Hosts, NEW i \in Nat
        PROVE  /\ Msg(g, i, d, "PREPARE")' => PrepareFits(g, i, d)'
               /\ Msg(g, i, d, "PREPARE_ACK")' => PrepareAckFits(g, i, d)'
               /\ Msg(g, i, d, "CONN_STATE")' => ConnStateFits(g, i, d)'
               /\ Msg(g, i, d, "CONN_STATE_ACK")' => Stage(g, d) = "ConnState"
               /\ Msg(g, i, d, "SYN")' => owner[d] = g
               /\ Msg(g, i, d, "DATA")' => DataFits(g, d)'
    BY <1>1, <1>2 DEF Answers
  <2> DEFINE o == Old(consumed, h, g, i)
  <2>2. o \in Nat /\ Answers(d)
    BY <1>7 DEF Protocol
  <2>3. TcpMigTypes = {"PREPARE", "PREPARE_ACK", "CONN_STATE", "CONN_STATE_ACK"}
    BY DEF TcpMigTypes
  <2>4. \A type \in TcpMigTypes : Msg(g, i, d, type)' =>
            /\ Msg(g, o, d, type) /\ From(g, i)' = From(g, o)
            /\ From(g, o) \in Hosts
    <3>1. \A type \in TcpMigTypes : type \notin {"SYN", "DATA"}
      BY DEF TcpMigTypes
    <3> QED  BY <1>6, <2>2, <3>1, MsgTypes DEF Stays
  <2>5. ASSUME Msg(g, i, d, "PREPARE")' PROVE PrepareFits(g, i, d)'
    <3>1. /\ Msg(g, o, d, "PREPARE") /\ From(g, i)' = From(g, o)
          /\ From(g, o) \in Hosts
      BY <2>3, <2>4, <2>5
    <3>2. PrepareFits(g, o, d)
      BY <2>2, <3>1 DEF Answers
    <3>3. ASSUME NEW j \in Nat, j < o, Msg(g, j, d, "CONN_STATE_ACK")
          PROVE  \E k \in Nat : k < i /\ Msg(g, k, d, "CONN_STATE_ACK")'
      BY <1>5, <1>7, <2>3, <3>3
    <3> HIDE DEF o
    <3> QED  BY <1>2, <3>1, <3>2, <3>3 DEF PrepareFits
  <2>6. ASSUME Msg(g, i, d, "PREPARE_ACK")' PROVE PrepareAckFits(g, i, d)'
    <3>1. /\ Msg(g, o, d, "PREPARE_ACK") /\ From(g, i)' = From(g, o)
          /\ From(g, o) \in Hosts
      BY <2>3, <2>4, <2>6
    <3>2. PrepareAckFits(g, o, d)
      BY <2>2, <3>1 DEF Answers
    <3>3. owner[d] # g
      BY <3>1, <3>2 DEF PrepareAckFits
    <3>4. ASSUME NEW j \in Nat, Msg(g, j, d, "DATA")' PROVE j < i
      <4>1. Msg(g, Old(consumed, h, g, j), d, "DATA")
        BY <1>6, <3>3, <3>4 DEF Stays
      <4>2. Old(consumed, h, g, j) < o
        BY <1>7, <3>2, <4>1 DEF PrepareAckFits
      <4> QED  BY <1>7, <4>2
    <3> HIDE DEF o
    <3> QED  BY <1>1, <1>2, <3>1, <3>2, <3>4 DEF PrepareAckFits
  <2>7. ASSUME Msg(g, i, d, "CONN_STATE")' PROVE ConnStateFits(g, i, d)'
    <3>1. /\ Msg(g, o, d, "CONN_STATE") /\ From(g, i)' = From(g, o)
          /\ From(g, o) \in Hosts
      BY <2>3, <2>4, <2>7
    <3>2. ConnStateFits(g, o, d)
      BY <2>2, <3>1 DEF Answers
    <3>a. PICK s \in Hosts : s = From(g, o)
      BY <3>1
    <3>3. ASSUME NEW j \in Nat, Msg(s, j, d, "CONN_STATE_ACK")'
          PROVE  FALSE
      <4>1. Msg(s, Old(consumed, h, s, j), d, "CONN_STATE_ACK")
        BY <1>6, <3>3 DEF Stays
      <4> QED  BY <1>7, <3>a, <3>2, <4>1 DEF ConnStateFits
    <3>4. From(g, i)' = s
      BY <3>1, <3>a
    <3> HIDE DEF o
    <3>5. Stage(g, d)' = "PrepareAck" /\ Stage(s, d)' = "ConnState"
      BY <1>2, <3>2, <3>a DEF ConnStateFits
    <3> QED  BY <3>3, <3>4, <3>5 DEF ConnStateFits
  <2>8. Msg(g, i, d, "CONN_STATE_ACK")' => Stage(g, d) = "ConnState"
    BY <2>2, <2>3, <2>4 DEF Answers
  <2>9. Msg(g, i, d, "SYN")' => owner[d] = g
    BY <1>6, <2>2 DEF Stays, Answers
  <2>10. ASSUME Msg(g, i, d, "DATA")' PROVE DataFits(g, d)'
    <3>1. owner[d] = g \/ Msg(g, o, d, "DATA")
      BY <1>6, <2>10 DEF Stays
    <3>2. DataFits(g, d)
      BY <2>2, <3>1 DEF Answers, DataFits
    <3> QED  BY <1>1, <1>2, <1>5, <2>3, <3>2 DEF DataFits
  <2> QED  BY <2>5, <2>6, <2>7, <2>8, <2>9, <2>10
<1>9. OneAnswer(d)'
  <2>1. OneAnswer(d)
    BY DEF Protocol
  <2>2. ASSUME NEW g \in Hosts, NEW i \in Nat
        PROVE  /\ Current(g, i, d)' => Current(g, Old(consumed, h, g, i), d)
               /\ Final(g, i, d)' => Final(g, Old(consumed, h, g, i), d)
    <3>1. \A type \in TcpMigTypes :
            Msg(g, i, d, type)' => Msg(g, Old(consumed, h, g, i), d, type)
      <4>1. \A type \in TcpMigTypes : type \notin {"SYN", "DATA"}
        BY DEF TcpMigTypes
      <4> QED  BY <1>6, <4>1 DEF Stays
    <3> QED  BY <3>1 DEF Current, Final, TcpMigTypes
  <2>3. SUFFICES ASSUME NEW g \in Hosts, NEW f \in Hosts,
                        NEW i \in Nat, NEW j \in Nat
        PROVE  /\ Current(g, i, d)' /\ Current(f, j, d)' => g = f /\ i = j
               /\ Final(g, i, d)' /\ Final(g, j, d)' => i = j
    BY DEF OneAnswer
  <2>4. /\ Old(consumed, h, g, i) \in Nat /\ Old(consumed, h, f, j) \in Nat
        /\ Old(consumed, h, g, j) \in Nat
    BY <1>7
  <2> QED  BY <1>7, <2>1, <2>2, <2>4 DEF OneAnswer
<1>10. Awaited(d)'
  <2>1. Awaited(d)
    BY DEF Protocol
  <2>2. \A g \in Hosts, j \in Nat, type \in TcpMigTypes : Msg(g, j, d, type) =>
            \E i \in Nat : Msg(g, i, d, type)' /\ From(g, i)' = From(g, j)
    BY <1>5
  <2>3. {"PREPARE_ACK", "CONN_STATE", "CONN_STATE_ACK"} \subseteq TcpMigTypes
    BY DEF TcpMigTypes
  <2>4. Somewhere(d) => Somewhere(d)'
    BY <1>2, <2>2, <2>3 DEF Somewhere
  <2>5. SUFFICES ASSUME NEW g \in Hosts
        PROVE  /\ Stage(g, d) = "PrepareAck" =>
                    \E e \in Hosts, i \in Nat : \/ Msg(e, i, d, "PREPARE_ACK")'
                                                \/ Msg(e, i, d, "CONN_STATE")'
               /\ Stage(g, d) = "ConnState" =>
                    \/ \E e \in Hosts, i \in Nat :
                            Msg(e, i, d, "CONN_STATE")' /\ From(e, i)' = g
                    \/ \E i \in Nat : Msg(g, i, d, "CONN_STATE_ACK")'
               /\ Stage(g, d) # "Idle" => Somewhere(d)'
    BY <1>2 DEF Awaited
  <2>6. Stage(g, d) = "PrepareAck" =>
            \E e \in Hosts, i \in Nat : \/ Msg(e, i, d, "PREPARE_ACK")'
                                        \/ Msg(e, i, d, "CONN_STATE")'
    BY <2>1, <2>2, <2>3 DEF Awaited
  <2>7. Stage(g, d) = "ConnState" =>
            \/ \E e \in Hosts, i \in Nat :
                    Msg(e, i, d, "CONN_STATE")' /\ From(e, i)' = g
            \/ \E i \in Nat : Msg(g, i, d, "CONN_STATE_ACK")'
    BY <2>1, <2>2, <2>3 DEF Awaited
  <2>8. Stage(g, d) # "Idle" => Somewhere(d)'
    BY <2>1, <2>4 DEF Awaited
  <2> QED  BY <2>6, <2>7, <2>8
<1> QED  BY <1>4, <1>8, <1>9, <1>10 DEF Protocol

-----------------------------------------------------------------------------
(* What the other invariants say of a connection. *)

(* The state of a connection is in one place, and before its client's      *)
(* handshake is over nothing but that handshake exists.                    *)
LEMMA OneCopy ==
  ASSUME OwnerInv, NEW c \in Clients, NEW g \in Hosts, NEW h \in Hosts,
         NEW i \in Nat, NEW j \in Nat
  PROVE  /\ InTable(c, g) =>
              /\ InTable(c, h) => g = h
              /\ ~Waits(h, c) /\ ~Hands(h, c) /\ ~Msg(h, i, c, "CONN_STATE")
         /\ Waits(g, c) =>
              /\ Waits(h, c) => g = h
              /\ ~Hands(h, c) /\ ~Msg(h, i, c, "CONN_STATE")
         /\ InReady(c, g, i) /\ InReady(c, g, j) => i = j
         /\ Hands(g, c) /\ Hands(h, c) => g = h
         /\ conn[c] # "open" =>
              /\ Stage(g, c) = "Idle" /\ ~InTable(c, g) /\ ~Waits(g, c)
              /\ \A type : Msg(g, i, c, type) => type = "SYN"
         /\ conn[c] = "open" => ~Msg(g, i, c, "SYN")
         /\ conn[c] = "closed" => ~Hands(g, c) /\ \A type : ~Msg(g, i, c, type)
<1>1. InTable(c, g) => Holds(c, "table", g, 0)
  BY DEF InTable, Holds
<1>2. /\ InTable(c, h) => Holds(c, "table", h, 0)
      /\ Hands(h, c) => Holds(c, "hand", h, 0)
      /\ Hands(g, c) => Holds(c, "hand", g, 0)
      /\ Msg(h, i, c, "CONN_STATE") => Holds(c, "net", h, i)
      /\ InReady(c, g, i) => Holds(c, "ready", g, i)
      /\ InReady(c, g, j) => Holds(c, "ready", g, j)
  BY DEF InTable, Hands, InReady, Msg, Holds, Carries
<1>3. /\ \A f \in Hosts : Waits(f, c) => \E k \in Nat : Holds(c, "ready", f, k)
  <2>1. SUFFICES ASSUME NEW f \in Hosts, Waits(f, c)
                 PROVE  \E k \in Nat : Holds(c, "ready", f, k)
    OBVIOUS
  <2>2. PICK k \in DOMAIN ready[f] : ready[f][k].client = c
    BY <2>1 DEF Waits, ReadyAt
  <2>3. k \in Nat
    <3>1. ready[f] \in Seq([client: Clients, cb: CB])
      BY DEF OwnerInv, TypeOK
    <3> QED  BY <3>1
  <2> QED  BY <2>2, <2>3 DEF Holds
<1>4. \A k, l \in Kinds, e, f \in Hosts, m, n \in Nat :
        Holds(c, k, e, m) /\ Holds(c, l, f, n) => k = l /\ e = f /\ m = n
  BY DEF OwnerInv, OneHolder
<1>5. {"table", "hand", "ready", "net"} \subseteq Kinds /\ 0 \in Nat
  BY DEF Kinds
<1>6. InTable(c, g) =>
              /\ InTable(c, h) => g = h
              /\ ~Waits(h, c) /\ ~Hands(h, c) /\ ~Msg(h, i, c, "CONN_STATE")
  BY <1>1, <1>2, <1>3, <1>4, <1>5
<1>7. Waits(g, c) => /\ Waits(h, c) => g = h
                     /\ ~Hands(h, c) /\ ~Msg(h, i, c, "CONN_STATE")
  BY <1>2, <1>3, <1>4, <1>5
<1>8. /\ InReady(c, g, i) /\ InReady(c, g, j) => i = j
      /\ Hands(g, c) /\ Hands(h, c) => g = h
  BY <1>2, <1>4, <1>5
<1>9. ASSUME conn[c] # "open"
      PROVE  /\ Stage(g, c) = "Idle" /\ ~InTable(c, g) /\ ~Waits(g, c)
             /\ \A type : Msg(g, i, c, type) => type = "SYN"
  <2>1. NotOpen(c)
    BY <1>9 DEF OwnerInv, Phases
  <2> QED  BY <2>1 DEF NotOpen, Stage, InTable, Waits, ReadyAt, Msg, Packets
<1>10. ASSUME conn[c] = "open" PROVE ~Msg(g, i, c, "SYN")
  <2>1. Open(c)
    BY <1>10 DEF OwnerInv, Phases
  <2> QED  BY <2>1 DEF Open, Msg, Packets
<1>11. ASSUME conn[c] = "closed"
       PROVE  ~Hands(g, c) /\ \A type : ~Msg(g, i, c, type)
  <2>1. Closed(c)
    BY <1>11 DEF OwnerInv, Phases
  <2> QED  BY <2>1 DEF Closed, Hands, Msg, Packets
<1> QED  BY <1>6, <1>7, <1>8, <1>9, <1>10, <1>11

(* The same, for the uses below. *)
LEMMA Alone ==
  ASSUME OwnerInv, NEW c \in Clients
  PROVE  /\ \A g, h \in Hosts :
              /\ InTable(c, g) =>
                    (InTable(c, h) => g = h) /\ ~Waits(h, c) /\ ~Hands(h, c)
              /\ Waits(g, c) => (Waits(h, c) => g = h) /\ ~Hands(h, c)
              /\ Hands(g, c) /\ Hands(h, c) => g = h
         /\ \A g, h \in Hosts, i \in Nat :
              Msg(h, i, c, "CONN_STATE") => ~InTable(c, g) /\ ~Waits(g, c)
BY OneCopy

(* Nothing of a connection exists before its client's handshake is over. *)
LEMMA Early ==
  ASSUME OwnerInv, NEW c \in Clients
  PROVE  /\ conn[c] # "open" =>
              /\ NoEntries(c)
              /\ \A g \in Hosts : ~InTable(c, g) /\ ~Waits(g, c)
              /\ \A g \in Hosts, i \in Nat : \A type :
                    Msg(g, i, c, type) => type = "SYN"
         /\ conn[c] = "open" => \A g \in Hosts, i \in Nat : ~Msg(g, i, c, "SYN")
         /\ conn[c] = "closed" =>
              /\ \A g \in Hosts : ~Hands(g, c)
              /\ \A g \in Hosts, i \in Nat : \A type : ~Msg(g, i, c, type)
<1>1. 0 \in Nat
  OBVIOUS
<1>2. conn[c] # "open" =>
          /\ \A g \in Hosts : Stage(g, c) = "Idle" /\ ~InTable(c, g) /\ ~Waits(g, c)
          /\ \A g \in Hosts, i \in Nat : \A type :
                Msg(g, i, c, type) => type = "SYN"
  BY <1>1, OneCopy
<1>3. conn[c] = "open" => \A g \in Hosts, i \in Nat : ~Msg(g, i, c, "SYN")
  BY OneCopy
<1>4. conn[c] = "closed" =>
          /\ \A g \in Hosts : ~Hands(g, c)
          /\ \A g \in Hosts, i \in Nat : \A type : ~Msg(g, i, c, type)
  BY <1>1, OneCopy
<1> QED  BY <1>2, <1>3, <1>4 DEF NoEntries

-----------------------------------------------------------------------------
(* Steps that leave every migration alone. *)

(* Entries that did not change leave the connection undisturbed. *)
LEMMA EntriesKept ==
  ASSUME NEW d, SameEntries(d)
  PROVE  \A g \in Hosts :
        /\ Stage(g, d)' = Stage(g, d)
        /\ InTable(d, g)' <=> InTable(d, g)
        /\ Waits(g, d) => Waits(g, d)'
        /\ Waits(g, d)' => Waits(g, d) \/ Hands(g, d)
        /\ Hands(g, d)' => Hands(g, d) \/ (owner[d] = g /\ NoEntries(d))
        /\ Quiet(g, d) /\ Stage(g, d) \notin {"PrepareAck", "ConnStateAck"} =>
                Quiet(g, d)'
        /\ Initiated(g, d) /\ Stage(g, d) = "Prepare" => Initiated(g, d)'
<1> SUFFICES ASSUME NEW g \in Hosts
    PROVE
        /\ Stage(g, d)' = Stage(g, d)
        /\ InTable(d, g)' <=> InTable(d, g)
        /\ Waits(g, d) => Waits(g, d)'
        /\ Waits(g, d)' => Waits(g, d) \/ Hands(g, d)
        /\ Hands(g, d)' => Hands(g, d) \/ (owner[d] = g /\ NoEntries(d))
        /\ Quiet(g, d) /\ Stage(g, d) \notin {"PrepareAck", "ConnStateAck"} =>
                Quiet(g, d)'
        /\ Initiated(g, d) /\ Stage(g, d) = "Prepare" => Initiated(g, d)'
  OBVIOUS
<1>1. /\ active'[g][d] = active[g][d] /\ qds'[g][d] = qds[g][d]
      /\ established'[g][d] # None <=> established[g][d] # None
      /\ established'[g][d].tracked = established[g][d].tracked
      /\ Waits(g, d)' <=> Waits(g, d)
      /\ Hands(g, d)' => Hands(g, d)
  BY DEF SameEntries
<1>2. Stage(g, d)' = Stage(g, d) /\ (Quiet(g, d)' <=> Quiet(g, d))
  BY <1>1 DEF Stage, Quiet
<1>3. InTable(d, g)' <=> InTable(d, g)
  BY <1>1 DEF InTable
<1>4. Initiated(g, d)' <=> Initiated(g, d)
  BY <1>1 DEF Initiated
<1> QED  BY <1>1, <1>2, <1>3, <1>4

(* A step that sends nothing and whose packet, if it handled one, was not  *)
(* about a migration of d.                                                 *)
LEMMA DrainUndisturbed ==
  ASSUME NEW d, NEW consumed, NEW h, Drains(consumed, h), SameEntries(d),
         owner'[d] = owner[d],
         consumed => \A type \in TcpMigTypes : ~Msg(h, 1, d, type)
  PROVE  Undisturbed(d, consumed, h)
<1>1. \A g \in Hosts, i \in Nat : \A type :
          /\ Msg(g, i, d, type)' => Stays(consumed, h, g, i, d, type)
          /\ i > 0 /\ Msg(g, Old(consumed, h, g, i), d, type) =>
                Msg(g, i, d, type)'
  BY DEF Drains
<1> QED  BY <1>1, EntriesKept DEF Undisturbed

(* The same when a packet was sent that is not about d, or is a segment of *)
(* d's client to its owner.                                                *)
LEMMA SendUndisturbed ==
  ASSUME NEW d, NEW consumed, NEW h, NEW t, NEW n, NEW p,
         Sends(consumed, h, t, n, p), SameEntries(d), owner'[d] = owner[d],
         consumed => \A type \in TcpMigTypes : ~Msg(h, 1, d, type),
         p.client = d => p.type \in {"SYN", "DATA"} /\ owner[d] = t
  PROVE  Undisturbed(d, consumed, h)
<1>1. ASSUME NEW g \in Hosts, NEW i \in Nat, NEW type
      PROVE  /\ Msg(g, i, d, type)' =>
                    \/ Stays(consumed, h, g, i, d, type)
                    \/ type \in {"SYN", "DATA"} /\ owner[d] = g
             /\ i > 0 /\ Msg(g, Old(consumed, h, g, i), d, type) =>
                    Msg(g, i, d, type)'
  BY DEF Sends
<1> QED  BY <1>1, EntriesKept DEF Undisturbed

(* Nothing is received or sent. *)
LEMMA NothingDrains ==
  ASSUME TypeOK, UNCHANGED inq, NEW h
  PROVE  Drains(FALSE, h)
<1> SUFFICES ASSUME NEW g \in Hosts, NEW i \in Nat, NEW c, NEW type
    PROVE  /\ Msg(g, i, c, type)' => Stays(FALSE, h, g, i, c, type)
           /\ i > 0 /\ Msg(g, Old(FALSE, h, g, i), c, type) =>
                Msg(g, i, c, type)'
  BY DEF Drains
<1>1. /\ Msg(g, i, c, type)' <=> Msg(g, i, c, type)
      /\ From(g, i)' = From(g, i)
  BY DEF Msg, From
<1>2. Old(FALSE, h, g, i) = i
  BY DEF Old
<1> QED  BY <1>1, <1>2, MsgTypes DEF Stays

(* accept(), pop() and poll_recv. *)
LEMMA ProtocolApplication ==
  ASSUME TypeOK, NEW d \in Clients, Protocol(d),
         \/ UNCHANGED vars
         \/ \E h \in Hosts : Accept(h)
         \/ \E h \in Hosts, q \in QDs :
                Pop(h, q) \/ PollRecv(h, q) \/ PollMigratedOut(h, q)
  PROVE  Protocol(d)'
<1>1. CASE /\ UNCHANGED <<inq, inflight, ready, active, qds, owner>>
           /\ \A g \in Hosts :
                /\ established'[g][d] # None <=> established[g][d] # None
                /\ established'[g][d].tracked = established[g][d].tracked
  <2>1. SameEntries(d)
    BY <1>1 DEF SameEntries, Waits, ReadyAt, Hands
  <2>2. Undisturbed(d, FALSE, 0)
    BY <1>1, <2>1, NothingDrains, DrainUndisturbed
  <2> QED  BY <2>2, ProtocolUndisturbed
<1>2. CASE UNCHANGED <<inq, inflight, ready, active, qds, owner, established>>
  BY <1>1, <1>2
<1>3. CASE UNCHANGED vars
  BY <1>2, <1>3 DEF vars, listenVars, tableVars, clientVars
<1>4. ASSUME NEW h \in Hosts, Accept(h) PROVE Protocol(d)'
  BY <1>2, <1>4 DEF Accept, listenVars, tableVars, clientVars
<1>5. ASSUME NEW h \in Hosts, NEW q \in QDs, Pop(h, q) \/ PollMigratedOut(h, q)
      PROVE  Protocol(d)'
  BY <1>2, <1>5 DEF Pop, PollMigratedOut, listenVars, tableVars, clientVars
<1>6. ASSUME NEW h \in Hosts, NEW q \in QDs, PollRecv(h, q)
      PROVE  Protocol(d)'
  <2>1. PICK c \in Clients : c = sockets[h][q].client
    <3>1. sockets[h][q] # None
      BY <1>6 DEF PollRecv
    <3> QED  BY <3>1, SocketTypes
  <2>2. /\ established[h][c] # None
        /\ \/ \E n \in established[h][c].got :
                established' = [established EXCEPT ![h][c].read = n]
           \/ UNCHANGED established
    BY <1>6, <2>1, Zenon DEF PollRecv
  <2>3. UNCHANGED <<inq, inflight, ready, active, qds, owner>>
    BY <1>6 DEF PollRecv, listenVars, clientVars
  <2>4. CASE UNCHANGED established
    BY <1>2, <2>3, <2>4
  <2>5. ASSUME NEW n \in established[h][c].got,
               established' = [established EXCEPT ![h][c].read = n]
        PROVE  Protocol(d)'
    <3>1. established[h][c] \in CB
      BY <2>1, <2>2, TableTypes
    <3>2. [established[h][c] EXCEPT !.read = n] \in CB
      BY <3>1, CBTypes
    <3>3. established' =
            [established EXCEPT ![h][c] = [established[h][c] EXCEPT !.read = n]]
      BY <2>1, <2>5, TableTypes
    <3>4. [established[h][c] EXCEPT !.read = n].tracked =
                established[h][c].tracked
      BY <3>1 DEF CB
    <3>5. ASSUME NEW g \in Hosts
          PROVE  /\ established'[g][d] # None <=> established[g][d] # None
                 /\ established'[g][d].tracked = established[g][d].tracked
      <4>1. CASE g = h /\ d = c
        <5>1. established'[g][d] = [established[h][c] EXCEPT !.read = n]
          BY <2>1, <3>3, <4>1, TableTypes
        <5> QED  BY <2>2, <3>2, <3>4, <4>1, <5>1, NoneAssumption
      <4>2. CASE ~(g = h /\ d = c)
        <5>1. established'[g][d] = established[g][d]
          BY <2>1, <3>3, <4>2, TableTypes
        <5> QED  BY <5>1
      <4> QED  BY <4>1, <4>2
    <3> QED  BY <1>1, <2>3, <3>5
  <2> QED  BY <2>2, <2>4, <2>5
<1> QED  BY <1>3, <1>4, <1>5, <1>6

-----------------------------------------------------------------------------
(* Steps that take part in a migration. *)

(* The position a surviving message moves to. *)
LEMMA MovesUp ==
  ASSUME TypeOK, NEW c, NEW consumed, NEW h, NEW g \in Hosts, NEW j \in Nat,
         NEW type, Msg(g, j, c, type), ~Handled(consumed, h, g, j)
  PROVE  \E i \in Nat : i > 0 /\ j = Old(consumed, h, g, i)
<1>1. j > 0
  BY MsgTypes
<1>2. CASE consumed /\ g = h
  <2>1. j - 1 \in Nat /\ j - 1 > 0 /\ j = Old(consumed, h, g, j - 1)
    BY <1>1, <1>2 DEF Old, Handled
  <2> QED  BY <2>1
<1>3. CASE ~(consumed /\ g = h)
  BY <1>1, <1>3 DEF Old
<1> QED  BY <1>2, <1>3

(* What a step that sends nothing does to the messages about c ... *)
LEMMA DrainsMessages ==
  ASSUME TypeOK, NEW c, NEW consumed, NEW h, Drains(consumed, h)
  PROVE  /\ Survive(consumed, h, c)
         /\ \A g \in Hosts, i \in Nat : \A type :
                Msg(g, i, c, type)' => Known(consumed, h, g, i, c, type)
<1>1. ASSUME NEW g \in Hosts, NEW j \in Nat, NEW type,
             Msg(g, j, c, type), ~Handled(consumed, h, g, j)
      PROVE  \E i \in Nat : /\ i > 0 /\ j = Old(consumed, h, g, i)
                            /\ Msg(g, i, c, type)' /\ From(g, i)' = From(g, j)
  <2>1. PICK i \in Nat : i > 0 /\ j = Old(consumed, h, g, i)
    BY <1>1, MovesUp
  <2>2. Msg(g, i, c, type)'
    BY <1>1, <2>1 DEF Drains
  <2>3. Stays(consumed, h, g, i, c, type)
    BY <2>2 DEF Drains
  <2> QED  BY <2>1, <2>2, <2>3 DEF Stays
<1>2. ASSUME NEW g \in Hosts, NEW i \in Nat, NEW type, Msg(g, i, c, type)'
      PROVE  Known(consumed, h, g, i, c, type)
  <2>1. Stays(consumed, h, g, i, c, type)
    BY <1>2 DEF Drains
  <2> QED  BY <2>1 DEF Stays, Known, Old, Handled
<1> QED  BY <1>1, <1>2 DEF Survive

(* ... and one that sends p, which stands behind all others of its queue. *)
LEMMA SendsMessages ==
  ASSUME TypeOK, NEW c, NEW consumed, NEW h, NEW t \in Hosts, NEW n, NEW p,
         p.client = c, Sends(consumed, h, t, n, p)
  PROVE  /\ Survive(consumed, h, c)
         /\ n \in Nat /\ Msg(t, n, c, p.type)' /\ From(t, n)' = p.src
         /\ \A g \in Hosts, i \in Nat : \A type : Msg(g, i, c, type)' =>
                \/ /\ Known(consumed, h, g, i, c, type)
                   /\ g = t => i < n
                \/ g = t /\ i = n /\ type = p.type
<1>1. ASSUME NEW g \in Hosts, NEW j \in Nat, NEW type,
             Msg(g, j, c, type), ~Handled(consumed, h, g, j)
      PROVE  \E i \in Nat : /\ i > 0 /\ j = Old(consumed, h, g, i)
                            /\ Msg(g, i, c, type)' /\ From(g, i)' = From(g, j)
  <2>1. PICK i \in Nat : i > 0 /\ j = Old(consumed, h, g, i)
    BY <1>1, MovesUp
  <2>2. Msg(g, i, c, type)' /\ (g = t => i < n) /\ n \in Nat
    BY <1>1, <2>1 DEF Sends
  <2>3. Stays(consumed, h, g, i, c, type)
    <3>1. ~(g = t /\ i = n)
      BY <2>2
    <3> QED  BY <2>2, <3>1 DEF Sends
  <2> QED  BY <2>1, <2>2, <2>3 DEF Stays
<1>2. ASSUME NEW g \in Hosts, NEW i \in Nat, NEW type, Msg(g, i, c, type)'
      PROVE  \/ /\ Known(consumed, h, g, i, c, type)
                /\ g = t => i < n
             \/ g = t /\ i = n /\ type = p.type
  <2>1. \/ Stays(consumed, h, g, i, c, type)
        \/ g = t /\ i = n /\ type = p.type
    BY <1>2 DEF Sends
  <2>2. Stays(consumed, h, g, i, c, type) => (g = t => i < n)
    BY DEF Stays, Sends
  <2> QED  BY <2>1, <2>2 DEF Stays, Known, Old, Handled
<1>3. n \in Nat /\ Msg(t, n, c, p.type)' /\ From(t, n)' = p.src
  BY DEF Sends
<1> QED  BY <1>1, <1>2, <1>3 DEF Survive

(* What is known of a connection that is in a host's tables. *)
LEMMA AtTable ==
  ASSUME OwnerInv, NEW c \in Clients, Protocol(c), NEW h \in Hosts, InTable(c, h)
  PROVE  /\ \A g \in Hosts :
              /\ InTable(c, g) => g = h
              /\ ~Waits(g, c) /\ ~Hands(g, c)
              /\ Stage(g, c) = "Prepare" => g = h
              /\ Stage(g, c) # "ConnStateAck"
              /\ Stage(g, c) = "ConnState" =>
                    \E i \in Nat : Msg(g, i, c, "CONN_STATE_ACK")
         /\ \A g \in Hosts, i \in Nat :
              ~Msg(g, i, c, "CONN_STATE") /\ ~Msg(g, i, c, "SYN")
         /\ Stage(h, c) \in {"Idle", "Prepare"}
         /\ (\A i \in Nat : ~Msg(h, i, c, "PREPARE_ACK")) =>
              /\ owner[c] = h
              /\ \A g \in Hosts : /\ Stage(g, c) # "PrepareAck"
                                  /\ \A i \in Nat : ~Msg(g, i, c, "PREPARE_ACK")
              /\ \A g \in Hosts, i \in Nat : Msg(g, i, c, "DATA") => g = h
<1>1. /\ Entries(c) /\ Answers(c) /\ Awaited(c)
      /\ owner[c] \in Hosts
  BY DEF Protocol, OwnerInv, TypeOK
<1>2. /\ \A g \in Hosts : /\ InTable(c, g) => g = h
                          /\ ~Waits(g, c) /\ ~Hands(g, c)
      /\ \A g \in Hosts, i \in Nat : ~Msg(g, i, c, "CONN_STATE")
  BY Alone
<1>3. \A g \in Hosts, i \in Nat : ~Msg(g, i, c, "SYN")
  BY Early
<1>4. \A g \in Hosts : /\ Stage(g, c) = "Prepare" => g = h
                       /\ Stage(g, c) # "ConnStateAck"
  BY <1>1, <1>2 DEF Entries
<1>5. \A g \in Hosts : Stage(g, c) = "ConnState" =>
          \E i \in Nat : Msg(g, i, c, "CONN_STATE_ACK")
  BY <1>1, <1>2 DEF Awaited
<1>6. Stage(h, c) \in {"Idle", "Prepare"}
  BY <1>1 DEF Entries
<1>7. ASSUME \A i \in Nat : ~Msg(h, i, c, "PREPARE_ACK")
      PROVE  /\ owner[c] = h
             /\ \A g \in Hosts : /\ Stage(g, c) # "PrepareAck"
                                 /\ \A i \in Nat : ~Msg(g, i, c, "PREPARE_ACK")
             /\ \A g \in Hosts, i \in Nat : Msg(g, i, c, "DATA") => g = h
  <2>1. \A g \in Hosts, i \in Nat : ~Msg(g, i, c, "PREPARE_ACK")
    BY <1>1, <1>4, <1>7 DEF Answers, PrepareAckFits
  <2>2. \A g \in Hosts : Stage(g, c) # "PrepareAck"
    BY <1>1, <1>2, <2>1 DEF Awaited
  <2>3. owner[c] = h
    BY <1>1, <2>2 DEF Entries
  <2>4. \A g \in Hosts, i \in Nat : Msg(g, i, c, "DATA") => g = h
    BY <1>1, <2>1, <2>3 DEF Answers, DataFits
  <2> QED  BY <2>1, <2>2, <2>3, <2>4
<1> QED  BY <1>2, <1>3, <1>4, <1>5, <1>6, <1>7

(* A PREPARE is sent, for the first time or because the switch returned it.*)
LEMMA ProtocolPrepares ==
  ASSUME OwnerInv, NEW c \in Clients, Protocol(c), NEW h \in Hosts, InTable(c, h),
         NEW consumed, NEW t \in Hosts, NEW n, NEW p,
         p.client = c, p.type = "PREPARE", p.src = h,
         Sends(consumed, h, t, n, p),
         \A g \in Hosts, i \in Nat :
            /\ Current(g, i, c) => Handled(consumed, h, g, i)
            /\ Handled(consumed, h, g, i) =>
                    \A type : Msg(g, i, c, type) => type = "PREPARE",
         owner'[c] = owner[c], \A g \in Hosts \ {h} : SameAt(g, c),
         InTable(c, h)', ~Waits(h, c)', ~Hands(h, c)',
         Stage(h, c)' = "Prepare", Initiated(h, c)', Quiet(h, c)'
  PROVE  Protocol(c)'
<1>1. TypeOK /\ Entries(c) /\ Answers(c) /\ OneAnswer(c) /\ Awaited(c)
  BY DEF OwnerInv, Protocol
<1>2. /\ Survive(consumed, h, c)
      /\ n \in Nat /\ Msg(t, n, c, "PREPARE")' /\ From(t, n)' = h
      /\ \A g \in Hosts, i \in Nat : \A type : Msg(g, i, c, type)' =>
                \/ /\ Known(consumed, h, g, i, c, type)
                   /\ g = t => i < n
                \/ g = t /\ i = n /\ type = "PREPARE"
  BY <1>1, SendsMessages
<1>3. \A type \in {"PREPARE", "PREPARE_ACK", "CONN_STATE"},
         g \in Hosts, i \in Nat : ~Known(consumed, h, g, i, c, type)
  BY DEF Known, Current
<1>4. \A i \in Nat : ~Msg(h, i, c, "PREPARE_ACK")
  BY DEF Current
<1>5. /\ \A g \in Hosts :
            /\ InTable(c, g) => g = h
            /\ ~Waits(g, c) /\ ~Hands(g, c)
            /\ Stage(g, c) = "Prepare" => g = h
            /\ Stage(g, c) \notin {"PrepareAck", "ConnStateAck"}
            /\ Stage(g, c) = "ConnState" =>
                    \E i \in Nat : Msg(g, i, c, "CONN_STATE_ACK")
      /\ Stage(h, c) \in {"Idle", "Prepare"} /\ owner[c] = h
      /\ \A g \in Hosts, i \in Nat :
            /\ ~Msg(g, i, c, "SYN")
            /\ Msg(g, i, c, "DATA") => g = h
  BY <1>4, AtTable
<1>6. \A g \in Hosts \ {h} :
          /\ Stage(g, c)' = Stage(g, c) /\ Stage(g, c) \in {"Idle", "ConnState"}
          /\ ~InTable(c, g)' /\ ~Waits(g, c)' /\ ~Hands(g, c)'
          /\ Quiet(g, c)' <=> Quiet(g, c)
  BY <1>1, <1>5, StageTypes DEF SameAt
<1>7. ASSUME NEW g \in Hosts, Stage(g, c) = "ConnState"
      PROVE  \E i \in Nat : /\ Msg(g, i, c, "CONN_STATE_ACK")'
                            /\ g = t => i < n
  <2>1. PICK j \in Nat : Msg(g, j, c, "CONN_STATE_ACK")
    BY <1>5, <1>7
  <2>2. ~Handled(consumed, h, g, j)
    BY <2>1
  <2>3. PICK i \in Nat : Msg(g, i, c, "CONN_STATE_ACK")'
    BY <1>2, <2>1, <2>2 DEF Survive
  <2> QED  BY <1>2, <2>3
<1>8. Entries(c)'
  <2>1. ASSUME NEW g \in Hosts, g # h
        PROVE  Stage(g, c) = "ConnState" => owner[c] # g /\ Quiet(g, c)
    BY <1>1, <2>1 DEF Entries
  <2> QED  BY <1>5, <1>6, <2>1 DEF Entries
<1>9. Answers(c)'
  <2>1. SUFFICES ASSUME NEW g \in Hosts, NEW i \in Nat
        PROVE  /\ Msg(g, i, c, "PREPARE")' => PrepareFits(g, i, c)'
               /\ Msg(g, i, c, "PREPARE_ACK")' => PrepareAckFits(g, i, c)'
               /\ Msg(g, i, c, "CONN_STATE")' => ConnStateFits(g, i, c)'
               /\ Msg(g, i, c, "CONN_STATE_ACK")' => Stage(g, c)' = "ConnState"
               /\ Msg(g, i, c, "SYN")' => owner'[c] = g
               /\ Msg(g, i, c, "DATA")' => DataFits(g, c)'
    BY DEF Answers
  <2>2. ASSUME Msg(g, i, c, "PREPARE")' PROVE PrepareFits(g, i, c)'
    <3>1. g = t /\ i = n
      BY <1>2, <1>3, <2>2
    <3>2. From(g, i)' = h
      BY <1>2, <3>1
    <3>3. g # h => \/ Stage(g, c)' = "Idle"
                   \/ /\ Stage(g, c)' = "ConnState"
                      /\ \E j \in Nat : j < i /\ Msg(g, j, c, "CONN_STATE_ACK")'
      BY <1>6, <1>7, <3>1
    <3> QED  BY <3>2, <3>3 DEF PrepareFits
  <2>3. ~Msg(g, i, c, "PREPARE_ACK")' /\ ~Msg(g, i, c, "CONN_STATE")'
    BY <1>2, <1>3
  <2>4. ASSUME Msg(g, i, c, "CONN_STATE_ACK")' PROVE Stage(g, c)' = "ConnState"
    <3>1. Stage(g, c) = "ConnState"
      BY <1>1, <1>2, <2>4 DEF Known, Answers
    <3> QED  BY <1>5, <1>6, <3>1
  <2>5. /\ ~Msg(g, i, c, "SYN")'
        /\ Msg(g, i, c, "DATA")' => owner'[c] = g
    BY <1>2, <1>5 DEF Known
  <2> QED  BY <2>2, <2>3, <2>4, <2>5 DEF DataFits
<1>10. OneAnswer(c)'
  <2>1. ASSUME NEW g \in Hosts, NEW i \in Nat, Current(g, i, c)'
        PROVE  g = t /\ i = n
    BY <1>2, <1>3, <2>1 DEF Current
  <2>2. ASSUME NEW g \in Hosts, NEW i \in Nat, NEW j \in Nat,
               Final(g, i, c)', Final(g, j, c)'
        PROVE  i = j
    <3>1. /\ Final(g, Old(consumed, h, g, i), c) /\ Old(consumed, h, g, i) \in Nat
          /\ Final(g, Old(consumed, h, g, j), c) /\ Old(consumed, h, g, j) \in Nat
      BY <1>2, <2>2 DEF Final, Known
    <3>2. Old(consumed, h, g, i) = Old(consumed, h, g, j)
      BY <1>1, <3>1 DEF OneAnswer
    <3> QED  BY <3>2 DEF Old
  <2> QED  BY <2>1, <2>2 DEF OneAnswer
<1>11. Awaited(c)'
  <2>1. Somewhere(c)'
    BY DEF Somewhere
  <2>2. \A g \in Hosts :
            /\ Stage(g, c)' # "PrepareAck"
            /\ Stage(g, c)' = "ConnState" =>
                    \E i \in Nat : Msg(g, i, c, "CONN_STATE_ACK")'
    BY <1>6, <1>7
  <2> QED  BY <2>1, <2>2 DEF Awaited
<1> QED  BY <1>8, <1>9, <1>10, <1>11 DEF Protocol

(* Messages that are known by their kind after a step that answers one. *)
LEMMA ReplyMessages ==
  ASSUME OwnerInv, NEW c \in Clients, OneAnswer(c), NEW h \in Hosts,
         NEW consumed, Reads(consumed, h),
         NEW t \in Hosts, NEW n, NEW p, p.client = c, Sends(consumed, h, t, n, p),
         Current(h, 1, c)
  PROVE  /\ n \in Nat /\ Msg(t, n, c, p.type)' /\ From(t, n)' = p.src
         /\ \A g \in Hosts, i \in Nat :
              \A type \in {"PREPARE", "PREPARE_ACK", "CONN_STATE"} :
                Msg(g, i, c, type)' => g = t /\ i = n /\ type = p.type
         /\ \A g \in Hosts, i \in Nat :
              \A type \in {"CONN_STATE_ACK", "SYN", "DATA"} :
                Msg(g, i, c, type)' =>
                    \/ /\ Msg(g, Old(consumed, h, g, i), c, type)
                       /\ Old(consumed, h, g, i) \in Nat
                       /\ g = t => i < n
                    \/ g = t /\ i = n /\ type = p.type
         /\ \A g \in Hosts, j \in Nat : Msg(g, j, c, "CONN_STATE_ACK") =>
                \E i \in Nat : Msg(g, i, c, "CONN_STATE_ACK")'
<1>1. TypeOK
  BY DEF OwnerInv
<1>2. /\ Survive(consumed, h, c)
      /\ n \in Nat /\ Msg(t, n, c, p.type)' /\ From(t, n)' = p.src
      /\ \A g \in Hosts, i \in Nat : \A type : Msg(g, i, c, type)' =>
                \/ /\ Known(consumed, h, g, i, c, type)
                   /\ g = t => i < n
                \/ g = t /\ i = n /\ type = p.type
  BY <1>1, SendsMessages
<1>3. ASSUME NEW g \in Hosts, NEW i \in Nat,
             NEW type \in {"PREPARE", "PREPARE_ACK", "CONN_STATE"}
      PROVE  ~Known(consumed, h, g, i, c, type)
  <2>1. SUFFICES ASSUME Known(consumed, h, g, i, c, type) PROVE FALSE
    OBVIOUS
  <2>2. Current(g, Old(consumed, h, g, i), c) /\ Old(consumed, h, g, i) \in Nat
    BY <2>1 DEF Known, Current
  <2>3. g = h /\ Old(consumed, h, g, i) = 1
    BY <2>2 DEF OneAnswer
  <2> QED  BY <2>1, <2>3 DEF Known, Reads
<1>4. ASSUME NEW g \in Hosts, NEW j \in Nat, Msg(g, j, c, "CONN_STATE_ACK")
      PROVE  \E i \in Nat : Msg(g, i, c, "CONN_STATE_ACK")'
  <2>1. ~Handled(consumed, h, g, j)
    BY <1>4 DEF Current, Msg, Reads
  <2> QED  BY <1>2, <1>4, <2>1 DEF Survive
<1> QED  BY <1>2, <1>3, <1>4 DEF Known

(* The owner has a single position for the acknowledgement of a host. *)
LEMMA FinalsStay ==
  ASSUME NEW c, OneAnswer(c), NEW h, NEW consumed, NEW g \in Hosts,
         \A i \in Nat : Final(g, i, c)' => /\ Final(g, Old(consumed, h, g, i), c)
                                          /\ Old(consumed, h, g, i) \in Nat,
         NEW i \in Nat, NEW j \in Nat, Final(g, i, c)', Final(g, j, c)'
  PROVE  i = j
<1>1. Old(consumed, h, g, i) = Old(consumed, h, g, j)
  BY DEF OneAnswer
<1> QED  BY <1>1 DEF Old

(* A target answers PREPARE; the switch steers the client to it. *)
LEMMA ProtocolTakes ==
  ASSUME OwnerInv, NEW c \in Clients, Protocol(c), NEW h \in Hosts,
         Msg(h, 1, c, "PREPARE"), NEW o \in Hosts, From(h, 1) = o,
         Stage(h, c) = "Idle",
         NEW consumed, Reads(consumed, h), NEW n, NEW p,
         p.client = c, p.type = "PREPARE_ACK", p.src = h, Sends(consumed, h, o, n, p),
         owner'[c] = h, \A g \in Hosts \ {h} : SameAt(g, c),
         InTable(c, h)' <=> InTable(c, h), Waits(h, c)' <=> Waits(h, c),
         Hands(h, c)' <=> Hands(h, c), Stage(h, c)' = "PrepareAck"
  PROVE  Protocol(c)'
<1>1. /\ TypeOK /\ Entries(c) /\ Answers(c) /\ OneAnswer(c) /\ Awaited(c)
      /\ 1 \in Nat /\ Current(h, 1, c)
  BY DEF OwnerInv, Protocol, Current
<1>2. Stage(o, c) = "Prepare" /\ InTable(c, o) /\ Initiated(o, c) /\ o # h
  BY <1>1 DEF Answers, PrepareFits, Entries
<1>3. /\ n \in Nat /\ Msg(o, n, c, "PREPARE_ACK")' /\ From(o, n)' = h
      /\ \A g \in Hosts, i \in Nat :
            /\ ~Msg(g, i, c, "PREPARE")' /\ ~Msg(g, i, c, "CONN_STATE")'
            /\ Msg(g, i, c, "PREPARE_ACK")' => g = o /\ i = n
      /\ \A g \in Hosts, i \in Nat :
            \A type \in {"CONN_STATE_ACK", "SYN", "DATA"} :
                Msg(g, i, c, type)' => /\ Msg(g, Old(consumed, h, g, i), c, type)
                                       /\ Old(consumed, h, g, i) \in Nat
                                       /\ g = o => i < n
      /\ \A g \in Hosts, j \in Nat : Msg(g, j, c, "CONN_STATE_ACK") =>
                \E i \in Nat : Msg(g, i, c, "CONN_STATE_ACK")'
  BY <1>1, ReplyMessages
<1>4. \A i \in Nat : ~Msg(o, i, c, "PREPARE_ACK")
  <2>1. ASSUME NEW i \in Nat, Msg(o, i, c, "PREPARE_ACK") PROVE FALSE
    <3>1. Current(o, i, c)
      BY <2>1 DEF Current
    <3> QED  BY <1>1, <1>2, <3>1 DEF OneAnswer
  <2> QED  BY <2>1
<1>5. /\ \A g \in Hosts :
            /\ InTable(c, g) => g = o
            /\ ~Waits(g, c) /\ ~Hands(g, c)
            /\ Stage(g, c) = "Prepare" => g = o
            /\ Stage(g, c) \notin {"PrepareAck", "ConnStateAck"}
            /\ Stage(g, c) = "ConnState" =>
                    \E i \in Nat : Msg(g, i, c, "CONN_STATE_ACK")
      /\ owner[c] = o
      /\ \A g \in Hosts, i \in Nat :
            /\ ~Msg(g, i, c, "SYN")
            /\ Msg(g, i, c, "DATA") => g = o
  BY <1>2, <1>4, AtTable
<1>6. \A g \in Hosts \ {h} :
          /\ Stage(g, c)' = Stage(g, c)
          /\ Stage(g, c) \in {"Idle", "ConnState"} \/ g = o
          /\ InTable(c, g)' <=> g = o
          /\ ~Waits(g, c)' /\ ~Hands(g, c)'
          /\ Quiet(g, c)' <=> Quiet(g, c)
          /\ Initiated(g, c)' <=> Initiated(g, c)
  BY <1>1, <1>2, <1>5, StageTypes DEF SameAt
<1>7. ~InTable(c, h)' /\ ~Waits(h, c)' /\ ~Hands(h, c)'
  BY <1>2, <1>5
<1>8. Entries(c)'
  <2>1. ASSUME NEW g \in Hosts, g # h
        PROVE  /\ Stage(g, c) = "ConnState" => Quiet(g, c)
               /\ g = o => Quiet(g, c)
    BY <1>1, <1>2, <2>1 DEF Entries
  <2> QED  BY <1>2, <1>6, <1>7, <2>1 DEF Entries
<1>9. Answers(c)'
  <2>1. SUFFICES ASSUME NEW g \in Hosts, NEW i \in Nat
        PROVE  /\ Msg(g, i, c, "PREPARE")' => PrepareFits(g, i, c)'
               /\ Msg(g, i, c, "PREPARE_ACK")' => PrepareAckFits(g, i, c)'
               /\ Msg(g, i, c, "CONN_STATE")' => ConnStateFits(g, i, c)'
               /\ Msg(g, i, c, "CONN_STATE_ACK")' => Stage(g, c)' = "ConnState"
               /\ Msg(g, i, c, "SYN")' => owner'[c] = g
               /\ Msg(g, i, c, "DATA")' => DataFits(g, c)'
    BY DEF Answers
  <2>2. ~Msg(g, i, c, "PREPARE")' /\ ~Msg(g, i, c, "CONN_STATE")'
    BY <1>3
  <2>3. ASSUME Msg(g, i, c, "PREPARE_ACK")' PROVE PrepareAckFits(g, i, c)'
    <3>1. g = o /\ i = n /\ From(g, i)' = h
      BY <1>3, <2>3
    <3>2. \A j \in Nat : Msg(g, j, c, "DATA")' => j < i
      BY <1>3, <3>1
    <3> QED  BY <1>2, <1>6, <3>1, <3>2 DEF PrepareAckFits
  <2>4. ASSUME Msg(g, i, c, "CONN_STATE_ACK")' PROVE Stage(g, c)' = "ConnState"
    <3>1. Stage(g, c) = "ConnState"
      BY <1>1, <1>3, <2>4 DEF Answers
    <3> QED  BY <1>6, <3>1
  <2>5. ~Msg(g, i, c, "SYN")'
    BY <1>3, <1>5
  <2>6. ASSUME Msg(g, i, c, "DATA")' PROVE DataFits(g, c)'
    <3>1. g = o
      BY <1>3, <1>5, <2>6
    <3> QED  BY <1>2, <1>3, <1>6, <3>1 DEF DataFits
  <2> QED  BY <2>2, <2>3, <2>4, <2>5, <2>6
<1>10. OneAnswer(c)'
  <2>1. ASSUME NEW g \in Hosts, NEW i \in Nat, Current(g, i, c)'
        PROVE  g = o /\ i = n
    BY <1>3, <2>1 DEF Current
  <2>2. ASSUME NEW g \in Hosts, NEW i \in Nat, NEW j \in Nat,
               Final(g, i, c)', Final(g, j, c)'
        PROVE  i = j
    <3>1. \A k \in Nat : Final(g, k, c)' =>
                /\ Final(g, Old(consumed, h, g, k), c)
                /\ Old(consumed, h, g, k) \in Nat
      BY <1>3 DEF Final
    <3> QED  BY <1>1, <2>2, <3>1, FinalsStay
  <2> QED  BY <2>1, <2>2 DEF OneAnswer
<1>11. Awaited(c)'
  <2>1. Somewhere(c)'
    BY <1>2, <1>6 DEF Somewhere
  <2>2. ASSUME NEW g \in Hosts
        PROVE  Stage(g, c)' = "ConnState" =>
                    \E i \in Nat : Msg(g, i, c, "CONN_STATE_ACK")'
    BY <1>3, <1>5, <1>6
  <2> QED  BY <1>3, <2>1, <2>2 DEF Awaited
<1> QED  BY <1>8, <1>9, <1>10, <1>11 DEF Protocol

(* The origin's connection leaves; the client's segments that reached it   *)
(* are behind it, those sent since go to the target.                       *)
LEMMA ProtocolLeaves ==
  ASSUME OwnerInv, NEW c \in Clients, Protocol(c), NEW h \in Hosts,
         Msg(h, 1, c, "PREPARE_ACK"), Stage(h, c) = "Prepare",
         NEW t \in Hosts, From(h, 1) = t,
         NEW consumed, Reads(consumed, h), NEW n, NEW p,
         p.client = c, p.type = "CONN_STATE", p.src = h,
         Sends(consumed, h, t, n, p),
         owner'[c] = owner[c], \A g \in Hosts \ {h} : SameAt(g, c),
         ~InTable(c, h)', Waits(h, c)' <=> Waits(h, c),
         Hands(h, c)' <=> Hands(h, c), Quiet(h, c)' <=> Quiet(h, c),
         Stage(h, c)' = "ConnState"
  PROVE  Protocol(c)'
<1>1. /\ TypeOK /\ Entries(c) /\ Answers(c) /\ OneAnswer(c) /\ Awaited(c)
      /\ 1 \in Nat /\ Current(h, 1, c)
  BY DEF OwnerInv, Protocol, Current
<1>2. /\ InTable(c, h) /\ owner[c] = t /\ Stage(t, c) = "PrepareAck" /\ t # h
      /\ \A j \in Nat : ~Msg(h, j, c, "DATA")
  <2>1. /\ InTable(c, h) /\ owner[c] = t /\ Stage(t, c) = "PrepareAck" /\ t # h
        /\ \A j \in Nat : Msg(h, j, c, "DATA") => j < 1
    BY <1>1 DEF Answers, PrepareAckFits, Entries
  <2>2. \A j \in Nat : Msg(h, j, c, "DATA") => j > 0
    BY <1>1, MsgTypes
  <2> QED  BY <2>1, <2>2
<1>3. /\ n \in Nat /\ Msg(t, n, c, "CONN_STATE")' /\ From(t, n)' = h
      /\ \A g \in Hosts, i \in Nat :
            /\ ~Msg(g, i, c, "PREPARE")' /\ ~Msg(g, i, c, "PREPARE_ACK")'
            /\ Msg(g, i, c, "CONN_STATE")' => g = t /\ i = n
      /\ \A g \in Hosts, i \in Nat :
            \A type \in {"CONN_STATE_ACK", "SYN", "DATA"} :
                Msg(g, i, c, type)' => /\ Msg(g, Old(consumed, h, g, i), c, type)
                                       /\ Old(consumed, h, g, i) \in Nat
      /\ \A g \in Hosts, j \in Nat : Msg(g, j, c, "CONN_STATE_ACK") =>
                \E i \in Nat : Msg(g, i, c, "CONN_STATE_ACK")'
  BY <1>1, ReplyMessages
<1>4. /\ \A g \in Hosts :
            /\ InTable(c, g) => g = h
            /\ ~Waits(g, c) /\ ~Hands(g, c)
            /\ Stage(g, c) = "Prepare" => g = h
            /\ Stage(g, c) # "ConnStateAck"
            /\ Stage(g, c) = "PrepareAck" => g = t
            /\ Stage(g, c) = "ConnState" =>
                    \E i \in Nat : Msg(g, i, c, "CONN_STATE_ACK")
      /\ \A g \in Hosts, i \in Nat : ~Msg(g, i, c, "SYN")
  <2>1. \A g \in Hosts : Stage(g, c) = "PrepareAck" => g = t
    BY <1>1, <1>2 DEF Entries
  <2> QED  BY <1>2, <2>1, AtTable
<1>5. \A g \in Hosts \ {h} :
          /\ Stage(g, c)' = Stage(g, c)
          /\ Stage(g, c) \in {"Idle", "ConnState"} \/ g = t
          /\ ~InTable(c, g)' /\ ~Waits(g, c)' /\ ~Hands(g, c)'
          /\ Quiet(g, c)' <=> Quiet(g, c)
  BY <1>1, <1>4, StageTypes DEF SameAt
<1>6. ~InTable(c, h)' /\ ~Waits(h, c)' /\ ~Hands(h, c)'
  BY <1>4
<1>7. Entries(c)'
  <2>1. ASSUME NEW g \in Hosts
        PROVE  /\ g # h /\ Stage(g, c) = "ConnState" => owner[c] # g /\ Quiet(g, c)
               /\ g = h => Quiet(g, c)
    BY <1>1, <1>2, <2>1 DEF Entries
  <2> QED  BY <1>2, <1>5, <1>6, <2>1 DEF Entries
<1>8. Answers(c)'
  <2>1. SUFFICES ASSUME NEW g \in Hosts, NEW i \in Nat
        PROVE  /\ Msg(g, i, c, "PREPARE")' => PrepareFits(g, i, c)'
               /\ Msg(g, i, c, "PREPARE_ACK")' => PrepareAckFits(g, i, c)'
               /\ Msg(g, i, c, "CONN_STATE")' => ConnStateFits(g, i, c)'
               /\ Msg(g, i, c, "CONN_STATE_ACK")' => Stage(g, c)' = "ConnState"
               /\ Msg(g, i, c, "SYN")' => owner'[c] = g
               /\ Msg(g, i, c, "DATA")' => DataFits(g, c)'
    BY DEF Answers
  <2>2. ~Msg(g, i, c, "PREPARE")' /\ ~Msg(g, i, c, "PREPARE_ACK")'
    BY <1>3
  <2>3. ASSUME NEW f \in Hosts, NEW j \in Nat, Msg(f, j, c, "CONN_STATE_ACK")'
        PROVE  Stage(f, c)' = "ConnState" /\ f # h
    <3>1. Stage(f, c) = "ConnState"
      BY <1>1, <1>3, <2>3 DEF Answers
    <3> QED  BY <1>5, <3>1
  <2>4. ASSUME Msg(g, i, c, "CONN_STATE")' PROVE ConnStateFits(g, i, c)'
    <3>1. g = t /\ From(g, i)' = h
      BY <1>3, <2>4
    <3>2. \A j \in Nat : ~Msg(h, j, c, "CONN_STATE_ACK")'
      BY <2>3
    <3> QED  BY <1>2, <1>5, <3>1, <3>2 DEF ConnStateFits
  <2>5. ~Msg(g, i, c, "SYN")'
    BY <1>3, <1>4
  <2>6. ASSUME Msg(g, i, c, "DATA")' PROVE DataFits(g, c)'
    <3>1. /\ DataFits(g, c) /\ Msg(g, Old(consumed, h, g, i), c, "DATA")
          /\ Old(consumed, h, g, i) \in Nat
      BY <1>1, <1>3, <2>6 DEF Answers
    <3>2. g # h
      BY <1>2, <3>1
    <3>3. owner[c] = g
      BY <1>4, <3>1, <3>2 DEF DataFits
    <3> QED  BY <3>3 DEF DataFits
  <2> QED  BY <2>2, <2>3, <2>4, <2>5, <2>6
<1>9. OneAnswer(c)'
  <2>1. ASSUME NEW g \in Hosts, NEW i \in Nat, Current(g, i, c)'
        PROVE  g = t /\ i = n
    BY <1>3, <2>1 DEF Current
  <2>2. ASSUME NEW g \in Hosts, NEW i \in Nat, NEW j \in Nat,
               Final(g, i, c)', Final(g, j, c)'
        PROVE  i = j
    <3>1. \A k \in Nat : Final(g, k, c)' =>
                /\ Final(g, Old(consumed, h, g, k), c)
                /\ Old(consumed, h, g, k) \in Nat
      BY <1>3 DEF Final
    <3> QED  BY <1>1, <2>2, <3>1, FinalsStay
  <2> QED  BY <2>1, <2>2 DEF OneAnswer
<1>10. Awaited(c)'
  <2>1. Somewhere(c)'
    BY <1>3 DEF Somewhere
  <2>2. \E e \in Hosts, i \in Nat : Msg(e, i, c, "CONN_STATE")' /\ From(e, i)' = h
    BY <1>3
  <2>3. ASSUME NEW g \in Hosts, g # h
        PROVE  Stage(g, c)' = "ConnState" =>
                    \E i \in Nat : Msg(g, i, c, "CONN_STATE_ACK")'
    BY <1>3, <1>4, <1>5, <2>3
  <2> QED  BY <2>1, <2>2, <2>3 DEF Awaited
<1> QED  BY <1>7, <1>8, <1>9, <1>10 DEF Protocol

(* The state of the connection arrives, to be accepted. *)
LEMMA ProtocolArrives ==
  ASSUME OwnerInv, NEW c \in Clients, Protocol(c), NEW h \in Hosts,
         Msg(h, 1, c, "CONN_STATE"), NEW o \in Hosts, From(h, 1) = o,
         NEW consumed, Reads(consumed, h), NEW n, NEW p,
         p.client = c, p.type = "CONN_STATE_ACK", p.src = h,
         Sends(consumed, h, o, n, p),
         owner'[c] = owner[c], \A g \in Hosts \ {h} : SameAt(g, c),
         InTable(c, h)' <=> InTable(c, h), Waits(h, c)',
         Hands(h, c)' <=> Hands(h, c), Stage(h, c)' = "ConnStateAck"
  PROVE  Protocol(c)'
<1>1. /\ TypeOK /\ Entries(c) /\ Answers(c) /\ OneAnswer(c) /\ Awaited(c)
      /\ 1 \in Nat /\ Current(h, 1, c)
  BY DEF OwnerInv, Protocol, Current
<1>2. /\ Stage(h, c) = "PrepareAck" /\ Stage(o, c) = "ConnState" /\ o # h
      /\ owner[c] = h /\ \A j \in Nat : ~Msg(o, j, c, "CONN_STATE_ACK")
  BY <1>1 DEF Answers, ConnStateFits, Entries
<1>3. /\ n \in Nat /\ Msg(o, n, c, "CONN_STATE_ACK")'
      /\ \A g \in Hosts, i \in Nat : \A type \in {"PREPARE", "PREPARE_ACK", "CONN_STATE"} :
            ~Msg(g, i, c, type)'
      /\ \A g \in Hosts, i \in Nat :
            \A type \in {"SYN", "DATA"} :
                Msg(g, i, c, type)' => /\ Msg(g, Old(consumed, h, g, i), c, type)
                                       /\ Old(consumed, h, g, i) \in Nat
      /\ \A g \in Hosts, i \in Nat : Msg(g, i, c, "CONN_STATE_ACK")' =>
                \/ /\ Msg(g, Old(consumed, h, g, i), c, "CONN_STATE_ACK")
                   /\ Old(consumed, h, g, i) \in Nat
                \/ g = o /\ i = n
      /\ \A g \in Hosts, j \in Nat : Msg(g, j, c, "CONN_STATE_ACK") =>
                \E i \in Nat : Msg(g, i, c, "CONN_STATE_ACK")'
  BY <1>1, ReplyMessages
<1>4. \A g \in Hosts : ~InTable(c, g) /\ ~Waits(g, c)
  BY <1>1, Alone
<1>5. \A g \in Hosts :
          /\ ~Hands(g, c)
          /\ Stage(g, c) \notin {"Prepare", "ConnStateAck"}
          /\ Stage(g, c) = "PrepareAck" => g = h
          /\ Stage(g, c) = "ConnState" => owner[c] # g /\ Quiet(g, c)
  BY <1>1, <1>2, <1>4 DEF Entries, NoEntries
<1>6. \A g \in Hosts, j \in Nat : Msg(g, j, c, "CONN_STATE") => g = h /\ j = 1
  <2>1. ASSUME NEW g \in Hosts, NEW j \in Nat, Msg(g, j, c, "CONN_STATE")
        PROVE  g = h /\ j = 1
    <3>1. Current(g, j, c)
      BY <2>1 DEF Current
    <3> QED  BY <1>1, <3>1 DEF OneAnswer
  <2> QED  BY <2>1
<1>7. \A g \in Hosts \ {h} :
          /\ Stage(g, c)' = Stage(g, c) /\ Stage(g, c) \in {"Idle", "ConnState"}
          /\ ~InTable(c, g)' /\ ~Waits(g, c)' /\ ~Hands(g, c)'
          /\ Quiet(g, c)' <=> Quiet(g, c)
  BY <1>1, <1>4, <1>5, StageTypes DEF SameAt
<1>8. Entries(c)'
  BY <1>2, <1>4, <1>5, <1>7 DEF Entries
<1>9. Answers(c)'
  <2>1. ASSUME NEW g \in Hosts, NEW i \in Nat, Msg(g, i, c, "CONN_STATE_ACK")'
        PROVE  Stage(g, c)' = "ConnState"
    <3>1. Stage(g, c) = "ConnState"
      BY <1>1, <1>2, <1>3, <2>1 DEF Answers
    <3> QED  BY <1>2, <1>7, <3>1
  <2>2. ASSUME NEW g \in Hosts, NEW i \in Nat
        PROVE  /\ Msg(g, i, c, "SYN")' => owner'[c] = g
               /\ Msg(g, i, c, "DATA")' => owner'[c] = g
    BY <1>1, <1>3, <1>4 DEF Answers, DataFits
  <2> QED  BY <1>3, <2>1, <2>2 DEF Answers, DataFits
<1>10. OneAnswer(c)'
  <2>1. ASSUME NEW g \in Hosts, NEW i \in Nat, NEW j \in Nat,
               Final(g, i, c)', Final(g, j, c)'
        PROVE  i = j
    <3>1. CASE g = o
      BY <1>2, <1>3, <2>1, <3>1 DEF Final
    <3>2. CASE g # o
      <4>1. \A k \in Nat : Final(g, k, c)' =>
                /\ Final(g, Old(consumed, h, g, k), c)
                /\ Old(consumed, h, g, k) \in Nat
        BY <1>3, <3>2 DEF Final
      <4>2. Old(consumed, h, g, i) = Old(consumed, h, g, j)
        BY <1>1, <2>1, <4>1 DEF OneAnswer
      <4> QED  BY <4>2 DEF Old
    <3> QED  BY <3>1, <3>2
  <2>2. \A g \in Hosts, i \in Nat : ~Current(g, i, c)'
    BY <1>3 DEF Current
  <2> QED  BY <2>1, <2>2 DEF OneAnswer
<1>11. Awaited(c)'
  <2>1. Somewhere(c)'
    BY DEF Somewhere
  <2>2. ASSUME NEW g \in Hosts
        PROVE  Stage(g, c)' = "ConnState" =>
                    \E i \in Nat : Msg(g, i, c, "CONN_STATE_ACK")'
    <3>1. CASE g = o
      BY <1>3, <3>1
    <3>2. CASE g # o /\ g # h /\ Stage(g, c) = "ConnState"
      <4>1. \E i \in Nat : Msg(g, i, c, "CONN_STATE_ACK")
        BY <1>1, <1>6, <3>2 DEF Awaited
      <4> QED  BY <1>3, <4>1
    <3> QED  BY <1>7, <3>1, <3>2
  <2> QED  BY <1>7, <2>1, <2>2 DEF Awaited
<1> QED  BY <1>8, <1>9, <1>10, <1>11 DEF Protocol

(* The acknowledgement ends a migration at its origin. *)
LEMMA ProtocolEnds ==
  ASSUME OwnerInv, NEW c \in Clients, Protocol(c), NEW h \in Hosts,
         Msg(h, 1, c, "CONN_STATE_ACK"),
         NEW consumed, Reads(consumed, h), Drains(consumed, h),
         owner'[c] = owner[c], \A g \in Hosts \ {h} : SameAt(g, c),
         InTable(c, h)' <=> InTable(c, h), Waits(h, c)' <=> Waits(h, c),
         Hands(h, c)' <=> Hands(h, c), Stage(h, c)' = "Idle"
  PROVE  Protocol(c)'
<1>1. /\ TypeOK /\ Entries(c) /\ Answers(c) /\ OneAnswer(c) /\ Awaited(c)
      /\ 1 \in Nat /\ owner[c] \in Hosts
  BY DEF OwnerInv, Protocol, TypeOK
<1>2. Stage(h, c) = "ConnState" /\ owner[c] # h /\ ~InTable(c, h)
  BY <1>1 DEF Answers, Entries
<1>3. /\ Survive(consumed, h, c)
      /\ \A g \in Hosts, i \in Nat : \A type :
            Msg(g, i, c, type)' => Known(consumed, h, g, i, c, type)
  BY <1>1, DrainsMessages
<1>4. ASSUME NEW g \in Hosts, NEW j \in Nat, NEW type,
             Msg(g, j, c, type), type # "CONN_STATE_ACK" \/ g # h
      PROVE  \E i \in Nat : /\ j = Old(consumed, h, g, i)
                            /\ Msg(g, i, c, type)' /\ From(g, i)' = From(g, j)
  <2>1. ~Handled(consumed, h, g, j)
    BY <1>4 DEF Reads, Msg
  <2> QED  BY <1>3, <1>4, <2>1 DEF Survive
<1>5. \A g \in Hosts \ {h} :
          /\ Stage(g, c)' = Stage(g, c)
          /\ InTable(c, g)' <=> InTable(c, g)
          /\ Waits(g, c)' <=> Waits(g, c)
          /\ Hands(g, c)' <=> Hands(g, c)
          /\ Quiet(g, c)' <=> Quiet(g, c)
          /\ Initiated(g, c)' <=> Initiated(g, c)
  BY DEF SameAt
<1>6. ~InTable(c, h)' /\ ~Waits(h, c)' /\ ~NoEntries(c)
      /\ \A g \in Hosts : ~Hands(g, c)
  <2>1. ~NoEntries(c)
    BY <1>2 DEF NoEntries
  <2> QED  BY <1>1, <1>2, <2>1 DEF Entries
<1>7. Entries(c)'
  <2>1. SUFFICES ASSUME NEW g \in Hosts
        PROVE
        /\ Stage(g, c)' = "Prepare" => InTable(c, g)' /\ Initiated(g, c)'
        /\ Stage(g, c)' = "PrepareAck" => owner'[c] = g
        /\ Stage(g, c)' = "ConnStateAck" => owner'[c] = g /\ Waits(g, c)'
        /\ Stage(g, c)' = "ConnState" => owner'[c] # g /\ Quiet(g, c)'
        /\ InTable(c, g)' =>
              /\ Stage(g, c)' \in {"Idle", "Prepare"} /\ Quiet(g, c)'
              /\ \/ owner'[c] = g
                 \/ /\ Stage(g, c)' = "Prepare"
                    /\ Stage(owner[c], c)' = "PrepareAck"
        /\ Waits(g, c)' => /\ owner'[c] = g
                           /\ Stage(g, c)' = "ConnStateAck" \/ NoEntries(c)'
        /\ Hands(g, c)' => owner'[c] = g /\ NoEntries(c)'
    BY DEF Entries
  <2>2. CASE g = h
    BY <1>6, <2>2
  <2>3. CASE g # h
    <3>1. PICK w \in Hosts : w = owner[c]
      BY <1>1
    <3>a. Stage(w, c)' = Stage(w, c) /\ owner'[c] = w
      BY <1>2, <1>5, <3>1
    <3>2. /\ Stage(g, c) = "Prepare" => InTable(c, g) /\ Initiated(g, c)
          /\ Stage(g, c) = "PrepareAck" => owner[c] = g
          /\ Stage(g, c) = "ConnStateAck" => owner[c] = g /\ Waits(g, c)
          /\ Stage(g, c) = "ConnState" => owner[c] # g /\ Quiet(g, c)
          /\ InTable(c, g) =>
              /\ Stage(g, c) \in {"Idle", "Prepare"} /\ Quiet(g, c)
              /\ \/ owner[c] = g
                 \/ Stage(g, c) = "Prepare" /\ Stage(owner[c], c) = "PrepareAck"
          /\ Waits(g, c) => owner[c] = g /\ Stage(g, c) = "ConnStateAck"
          /\ ~Hands(g, c)
      BY <1>1, <1>6 DEF Entries
    <3>3. Stage(owner[c], c)' = Stage(w, c)'
      BY <3>a
    <3> QED  BY <1>5, <2>3, <3>1, <3>2, <3>3, <3>a
  <2> QED  BY <2>2, <2>3
<1>8. Answers(c)'
  <2>1. SUFFICES ASSUME NEW g \in Hosts, NEW i \in Nat
        PROVE  /\ Msg(g, i, c, "PREPARE")' => PrepareFits(g, i, c)'
               /\ Msg(g, i, c, "PREPARE_ACK")' => PrepareAckFits(g, i, c)'
               /\ Msg(g, i, c, "CONN_STATE")' => ConnStateFits(g, i, c)'
               /\ Msg(g, i, c, "CONN_STATE_ACK")' => Stage(g, c)' = "ConnState"
               /\ Msg(g, i, c, "SYN")' => owner'[c] = g
               /\ Msg(g, i, c, "DATA")' => DataFits(g, c)'
    BY DEF Answers
  <2>2. PICK k \in Nat : k = Old(consumed, h, g, i)
    BY DEF Old
  <2>3. \A type : Msg(g, i, c, type)' =>
            /\ Msg(g, k, c, type) /\ From(g, i)' = From(g, k)
            /\ ~Handled(consumed, h, g, k)
    BY <1>3, <2>2 DEF Known
  <2>4. ASSUME Msg(g, i, c, "PREPARE")' PROVE PrepareFits(g, i, c)'
    <3>1. PICK f \in Hosts : From(g, k) = f
      BY <1>1, <2>3, <2>4, MsgTypes DEF TcpMigTypes
    <3>2. PrepareFits(g, k, c) /\ From(g, i)' = f
      BY <1>1, <2>3, <2>4, <3>1 DEF Answers
    <3>3. Stage(f, c)' = "Prepare"
      BY <1>2, <1>5, <3>1, <3>2 DEF PrepareFits
    <3>4. CASE g = f \/ Stage(g, c) = "Idle" \/ g = h
      <4>1. g = f \/ Stage(g, c)' = "Idle"
        BY <1>5, <3>4
      <4> QED  BY <3>2, <3>3, <4>1 DEF PrepareFits
    <3>5. CASE ~(g = f \/ Stage(g, c) = "Idle" \/ g = h)
      <4>1. PICK j \in Nat : j < k /\ Msg(g, j, c, "CONN_STATE_ACK")
        BY <3>1, <3>2, <3>5 DEF PrepareFits
      <4>2. Stage(g, c)' = "ConnState"
        BY <1>5, <3>1, <3>2, <3>5 DEF PrepareFits
      <4>3. PICK m \in Nat : /\ j = Old(consumed, h, g, m)
                             /\ Msg(g, m, c, "CONN_STATE_ACK")'
        BY <1>4, <3>5, <4>1
      <4>4. m < i
        BY <2>2, <4>1, <4>3 DEF Old
      <4> QED  BY <3>2, <3>3, <4>2, <4>3, <4>4 DEF PrepareFits
    <3> QED  BY <3>4, <3>5
  <2>5. ASSUME Msg(g, i, c, "PREPARE_ACK")' PROVE PrepareAckFits(g, i, c)'
    <3>1. PICK f \in Hosts : From(g, k) = f
      BY <1>1, <2>3, <2>5, MsgTypes DEF TcpMigTypes
    <3>2. PrepareAckFits(g, k, c) /\ From(g, i)' = f
      BY <1>1, <2>3, <2>5, <3>1 DEF Answers
    <3>3. /\ Stage(g, c)' = "Prepare" /\ owner'[c] = f
          /\ Stage(f, c)' = "PrepareAck"
      BY <1>2, <1>5, <3>1, <3>2 DEF PrepareAckFits
    <3>4. ASSUME NEW j \in Nat, Msg(g, j, c, "DATA")' PROVE j < i
      <4>1. /\ Msg(g, Old(consumed, h, g, j), c, "DATA")
            /\ Old(consumed, h, g, j) \in Nat
        BY <1>3, <3>4 DEF Known
      <4>2. Old(consumed, h, g, j) < k
        BY <3>2, <4>1 DEF PrepareAckFits
      <4> QED  BY <2>2, <4>2 DEF Old
    <3> QED  BY <3>2, <3>3, <3>4 DEF PrepareAckFits
  <2>6. ASSUME Msg(g, i, c, "CONN_STATE")' PROVE ConnStateFits(g, i, c)'
    <3>1. PICK f \in Hosts : From(g, k) = f
      BY <1>1, <2>3, <2>6, MsgTypes DEF TcpMigTypes
    <3>2. ConnStateFits(g, k, c) /\ From(g, i)' = f
      BY <1>1, <2>3, <2>6, <3>1 DEF Answers
    <3>3. \A j \in Nat : ~Msg(f, j, c, "CONN_STATE_ACK")
      BY <3>1, <3>2 DEF ConnStateFits
    <3>4. Stage(g, c)' = "PrepareAck" /\ Stage(f, c)' = "ConnState"
      <4>1. f # h
        BY <1>1, <3>3
      <4> QED  BY <1>2, <1>5, <3>1, <3>2, <4>1 DEF ConnStateFits
    <3>5. \A j \in Nat : ~Msg(f, j, c, "CONN_STATE_ACK")'
      BY <1>3, <3>3 DEF Known
    <3> QED  BY <3>2, <3>4, <3>5 DEF ConnStateFits
  <2>7. ASSUME Msg(g, i, c, "CONN_STATE_ACK")' PROVE Stage(g, c)' = "ConnState"
    <3>1. Msg(g, k, c, "CONN_STATE_ACK") /\ ~Handled(consumed, h, g, k)
      BY <2>3, <2>7
    <3>2. g # h
      BY <1>1, <3>1 DEF OneAnswer, Final, Reads
    <3> QED  BY <1>1, <1>5, <3>1, <3>2 DEF Answers
  <2>8. Msg(g, i, c, "SYN")' => owner'[c] = g
    BY <1>1, <2>3 DEF Answers
  <2>9. ASSUME Msg(g, i, c, "DATA")' PROVE DataFits(g, c)'
    <3>1. DataFits(g, c)
      BY <1>1, <2>3, <2>9 DEF Answers
    <3>2. CASE owner[c] = g
      BY <3>2 DEF DataFits
    <3>3. ASSUME InTable(c, g), NEW j \in Nat, Msg(g, j, c, "PREPARE_ACK")
          PROVE  DataFits(g, c)'
      <4>1. \E m \in Nat : Msg(g, m, c, "PREPARE_ACK")'
        BY <1>4, <3>3
      <4>2. InTable(c, g)'
        BY <1>2, <1>5, <3>3
      <4> QED  BY <4>1, <4>2 DEF DataFits
    <3> QED  BY <3>1, <3>2, <3>3 DEF DataFits
  <2> QED  BY <2>4, <2>5, <2>6, <2>7, <2>8, <2>9
<1>9. OneAnswer(c)'
  <2>1. ASSUME NEW g \in Hosts, NEW i \in Nat
        PROVE  /\ Old(consumed, h, g, i) \in Nat
               /\ Current(g, i, c)' => Current(g, Old(consumed, h, g, i), c)
               /\ Final(g, i, c)' => Final(g, Old(consumed, h, g, i), c)
    BY <1>3 DEF Current, Final, Known, Old
  <2>2. SUFFICES ASSUME NEW g \in Hosts, NEW f \in Hosts, NEW i \in Nat, NEW j \in Nat
        PROVE  /\ Current(g, i, c)' /\ Current(f, j, c)' => g = f /\ i = j
               /\ Final(g, i, c)' /\ Final(g, j, c)' => i = j
    BY DEF OneAnswer
  <2>3. /\ g = f /\ Old(consumed, h, g, i) = Old(consumed, h, f, j) => i = j
        /\ Old(consumed, h, g, i) = Old(consumed, h, g, j) => i = j
    BY DEF Old
  <2> QED  BY <1>1, <2>1, <2>3 DEF OneAnswer
<1>10. Awaited(c)'
  <2>1. Somewhere(c) => Somewhere(c)'
    <3>1. ASSUME NEW g \in Hosts, InTable(c, g) \/ Waits(g, c) PROVE Somewhere(c)'
      <4>1. InTable(c, g)' \/ Waits(g, c)'
        BY <1>2, <1>5, <3>1
      <4> QED  BY <4>1 DEF Somewhere
    <3>2. ASSUME NEW g \in Hosts, NEW j \in Nat, Msg(g, j, c, "CONN_STATE")
          PROVE  Somewhere(c)'
      <4>1. \E i \in Nat : Msg(g, i, c, "CONN_STATE")'
        BY <1>4, <3>2
      <4> QED  BY <4>1 DEF Somewhere
    <3> QED  BY <3>1, <3>2 DEF Somewhere
  <2>2. ASSUME NEW g \in Hosts, Stage(g, c)' # "Idle"
        PROVE  Stage(g, c)' = Stage(g, c) /\ g # h
    BY <1>5, <2>2
  <2>3. ASSUME NEW g \in Hosts, Stage(g, c)' = "PrepareAck"
        PROVE  \E e \in Hosts, i \in Nat : \/ Msg(e, i, c, "PREPARE_ACK")'
                                           \/ Msg(e, i, c, "CONN_STATE")'
    <3>1. PICK e \in Hosts, j \in Nat : \/ Msg(e, j, c, "PREPARE_ACK")
                                        \/ Msg(e, j, c, "CONN_STATE")
      BY <1>1, <2>2, <2>3 DEF Awaited
    <3> QED  BY <1>4, <3>1
  <2>4. ASSUME NEW g \in Hosts, Stage(g, c)' = "ConnState"
        PROVE  \/ \E e \in Hosts, i \in Nat : Msg(e, i, c, "CONN_STATE")'
                                              /\ From(e, i)' = g
               \/ \E i \in Nat : Msg(g, i, c, "CONN_STATE_ACK")'
    <3>1. \/ \E e \in Hosts, j \in Nat : /\ Msg(e, j, c, "CONN_STATE")
                                         /\ From(e, j) = g
          \/ \E j \in Nat : Msg(g, j, c, "CONN_STATE_ACK")
      BY <1>1, <2>2, <2>4 DEF Awaited
    <3>2. ASSUME NEW e \in Hosts, NEW j \in Nat, Msg(e, j, c, "CONN_STATE"),
                 From(e, j) = g
          PROVE  \E i \in Nat : Msg(e, i, c, "CONN_STATE")' /\ From(e, i)' = g
      BY <1>4, <3>2
    <3>3. ASSUME NEW j \in Nat, Msg(g, j, c, "CONN_STATE_ACK")
          PROVE  \E i \in Nat : Msg(g, i, c, "CONN_STATE_ACK")'
      BY <1>4, <2>2, <2>4, <3>3
    <3> QED  BY <3>1, <3>2, <3>3
  <2>5. \A g \in Hosts : Stage(g, c)' # "Idle" => Somewhere(c)'
    BY <1>1, <2>1, <2>2 DEF Awaited
  <2> QED  BY <2>3, <2>4, <2>5 DEF Awaited
<1> QED  BY <1>7, <1>8, <1>9, <1>10 DEF Protocol

(* poll_accept takes the connection into the tables of its owner. *)
LEMMA ProtocolAccepts ==
  ASSUME OwnerInv, NEW c \in Clients, Protocol(c), NEW h \in Hosts, Waits(h, c),
         NEW consumed, Drains(consumed, h),
         \A g \in Hosts, i \in Nat : ~Handled(consumed, h, g, i),
         owner'[c] = owner[c], \A g \in Hosts \ {h} : SameAt(g, c),
         InTable(c, h)', ~Waits(h, c)',
         Hands(h, c)' <=> Hands(h, c), Stage(h, c)' = "Idle", Quiet(h, c)'
  PROVE  Protocol(c)'
<1>1. /\ TypeOK /\ Entries(c) /\ Answers(c) /\ OneAnswer(c) /\ Awaited(c)
      /\ owner[c] \in Hosts
  BY DEF OwnerInv, Protocol, TypeOK
<1>2. /\ \A g \in Hosts : /\ ~InTable(c, g) /\ ~Hands(g, c)
                          /\ Waits(g, c) => g = h
      /\ \A g \in Hosts, i \in Nat : ~Msg(g, i, c, "CONN_STATE")
  BY Alone
<1>3. owner[c] = h
  BY <1>1 DEF Entries
<1>4. \A g \in Hosts \ {h} : /\ Stage(g, c) \in {"Idle", "ConnState"}
                             /\ Stage(g, c)' = Stage(g, c)
                             /\ Stage(g, c) = "ConnState" => Quiet(g, c)
                             /\ ~InTable(c, g)' /\ ~Waits(g, c)' /\ ~Hands(g, c)'
                             /\ Quiet(g, c)' <=> Quiet(g, c)
  BY <1>1, <1>2, <1>3, StageTypes DEF Entries, SameAt
<1>5. Stage(h, c) \in {"ConnStateAck", "Idle"}
  BY <1>1 DEF Entries, NoEntries
<1>6. /\ Survive(consumed, h, c)
      /\ \A g \in Hosts, i \in Nat : \A type :
            Msg(g, i, c, type)' => Known(consumed, h, g, i, c, type)
  BY <1>1, DrainsMessages
<1>7. \A g \in Hosts, i \in Nat : ~Current(g, i, c)
  <2>1. ASSUME NEW g \in Hosts, NEW i \in Nat, Msg(g, i, c, "PREPARE")
        PROVE  FALSE
    <3>1. From(g, i) \in Hosts /\ Stage(From(g, i), c) = "Prepare"
      BY <1>1, <2>1, MsgTypes DEF TcpMigTypes, Answers, PrepareFits
    <3> QED  BY <1>4, <1>5, <3>1
  <2>2. ASSUME NEW g \in Hosts, NEW i \in Nat, Msg(g, i, c, "PREPARE_ACK")
        PROVE  FALSE
    <3>1. Stage(g, c) = "Prepare"
      BY <1>1, <2>2 DEF Answers, PrepareAckFits
    <3> QED  BY <1>4, <1>5, <3>1
  <2> QED  BY <1>2, <2>1, <2>2 DEF Current
<1>8. Entries(c)'
  <2>1. ~Hands(h, c)'
    BY <1>2
  <2> QED  BY <1>3, <1>4, <2>1 DEF Entries
<1>9. Answers(c)'
  <2>1. SUFFICES ASSUME NEW g \in Hosts, NEW i \in Nat
        PROVE  /\ ~Msg(g, i, c, "PREPARE")'
               /\ ~Msg(g, i, c, "PREPARE_ACK")'
               /\ ~Msg(g, i, c, "CONN_STATE")'
               /\ Msg(g, i, c, "CONN_STATE_ACK")' => Stage(g, c)' = "ConnState"
               /\ Msg(g, i, c, "SYN")' => owner'[c] = g
               /\ Msg(g, i, c, "DATA")' => owner'[c] = g
    BY DEF Answers, DataFits
  <2>2. PICK k \in Nat : k = Old(consumed, h, g, i)
    BY DEF Old
  <2>3. \A type : Msg(g, i, c, type)' => Msg(g, k, c, type)
    BY <1>6, <2>2 DEF Known
  <2>4. ~Current(g, k, c)
    BY <1>7
  <2>5. Msg(g, k, c, "CONN_STATE_ACK") => Stage(g, c) = "ConnState"
    BY <1>1 DEF Answers
  <2>6. /\ Msg(g, k, c, "SYN") => owner[c] = g
        /\ Msg(g, k, c, "DATA") => owner[c] = g
    BY <1>1, <1>2 DEF Answers, DataFits
  <2> QED  BY <1>4, <1>5, <2>3, <2>4, <2>5, <2>6 DEF Current
<1>10. OneAnswer(c)'
  <2>1. ASSUME NEW g \in Hosts, NEW i \in Nat
        PROVE  /\ Old(consumed, h, g, i) \in Nat
               /\ ~Current(g, i, c)'
               /\ Final(g, i, c)' => Final(g, Old(consumed, h, g, i), c)
    BY <1>6, <1>7 DEF Current, Final, Known, Old
  <2>2. SUFFICES ASSUME NEW g \in Hosts, NEW i \in Nat, NEW j \in Nat
        PROVE  Final(g, i, c)' /\ Final(g, j, c)' => i = j
    BY <2>1 DEF OneAnswer
  <2>3. Old(consumed, h, g, i) = Old(consumed, h, g, j) => i = j
    BY DEF Old
  <2> QED  BY <1>1, <2>1, <2>3 DEF OneAnswer
<1>11. Awaited(c)'
  <2>1. Somewhere(c)'
    BY DEF Somewhere
  <2>2. ASSUME NEW g \in Hosts, Stage(g, c)' = "ConnState"
        PROVE  \E i \in Nat : Msg(g, i, c, "CONN_STATE_ACK")'
    <3>1. Stage(g, c) = "ConnState"
      BY <1>4, <2>2
    <3>2. \E j \in Nat : Msg(g, j, c, "CONN_STATE_ACK")
      BY <1>1, <1>2, <3>1 DEF Awaited
    <3> QED  BY <1>6, <3>2 DEF Survive
  <2>3. \A g \in Hosts : Stage(g, c)' # "PrepareAck"
    BY <1>4
  <2> QED  BY <2>1, <2>2, <2>3 DEF Awaited
<1> QED  BY <1>8, <1>9, <1>10, <1>11 DEF Protocol

-----------------------------------------------------------------------------
(* The actions, one by one. *)

(* The other clients' entries, and c's on the other hosts, are the same. *)
LEMMA OthersSame ==
  ASSUME NEW h \in Hosts, NEW c \in Clients, ChangesOnly(h, c)
  PROVE  /\ \A d \in Clients \ {c} : SameEntries(d)
         /\ \A g \in Hosts \ {h} : SameAt(g, c)
<1>1. ASSUME NEW d \in Clients \ {c} PROVE SameEntries(d)
  BY <1>1 DEF ChangesOnly, SameEntries
<1>2. ASSUME NEW g \in Hosts \ {h} PROVE SameAt(g, c)
  <2>1. /\ active'[g][c] = active[g][c] /\ qds'[g][c] = qds[g][c]
        /\ established'[g][c] = established[g][c]
        /\ Waits(g, c)' <=> Waits(g, c)
        /\ Hands(g, c)' <=> Hands(g, c)
    BY <1>2 DEF ChangesOnly
  <2> QED  BY <2>1 DEF SameAt, Stage, InTable, Quiet, Initiated
<1> QED  BY <1>1, <1>2

(* A connection joins those that wait to be accepted ... *)
LEMMA ReadyJoined ==
  ASSUME TypeOK, NEW h \in Hosts, NEW r,
         ready' = [ready EXCEPT ![h] = Append(ready[h], r)]
  PROVE  \A g \in Hosts, d \in Clients :
            Waits(g, d)' <=> Waits(g, d) \/ (g = h /\ d = r.client)
<1> DEFINE E == [client: Clients, cb: CB]
<1>1. ready \in [Hosts -> Seq(E)]
  BY DEF TypeOK
<1> HIDE DEF E
<1> SUFFICES ASSUME NEW g \in Hosts, NEW d \in Clients
             PROVE  Waits(g, d)' <=> Waits(g, d) \/ (g = h /\ d = r.client)
  OBVIOUS
<1>2. Waits(g, d) <=> \E i \in DOMAIN ready[g] : ready[g][i].client = d
  BY DEF Waits, ReadyAt
<1>3. Waits(g, d)' <=> \E i \in DOMAIN ready'[g] : ready'[g][i].client = d
  BY DEF Waits, ReadyAt
<1>4. CASE g = h
  <2>1. ready'[g] = Append(ready[h], r) /\ ready[h] \in Seq(E)
    BY <1>1, <1>4
  <2>2. PICK n \in Nat : n = Len(ready[h])
    BY <2>1
  <2>3. /\ DOMAIN ready[h] = 1..n /\ DOMAIN ready'[g] = 1..(n + 1)
        /\ ready'[g][n + 1] = r
        /\ \A i \in 1..n : ready'[g][i] = ready[h][i]
    BY <2>1, <2>2
  <2>4. \A i \in 1..(n + 1) : i \in 1..n \/ i = n + 1
    OBVIOUS
  <2>5. n + 1 \in 1..(n + 1) /\ \A i \in 1..n : i \in 1..(n + 1)
    OBVIOUS
  <2> QED  BY <1>2, <1>3, <1>4, <2>3, <2>4, <2>5
<1>5. CASE g # h
  BY <1>1, <1>2, <1>3, <1>5
<1> QED  BY <1>4, <1>5

(* ... and the oldest of them leaves; it stood there only once. *)
LEMMA ReadyLeft ==
  ASSUME OwnerInv, NEW h \in Hosts, ready[h] # <<>>,
         ready' = [ready EXCEPT ![h] = Tail(ready[h])]
  PROVE  /\ Waits(h, Head(ready[h]).client)
         /\ \A g \in Hosts, d \in Clients :
                Waits(g, d)' <=>
                    Waits(g, d) /\ ~(g = h /\ d = Head(ready[h]).client)
<1> DEFINE E == [client: Clients, cb: CB]
           c == Head(ready[h]).client
<1>1. ready \in [Hosts -> Seq(E)]
  BY DEF OwnerInv, TypeOK
<1> HIDE DEF E
<1>2. /\ Len(ready[h]) \in Nat /\ Len(ready[h]) > 0
      /\ DOMAIN ready[h] = 1..Len(ready[h])
      /\ Tail(ready[h]) \in Seq(E) /\ Len(Tail(ready[h])) = Len(ready[h]) - 1
      /\ DOMAIN Tail(ready[h]) = 1..(Len(ready[h]) - 1)
      /\ \A i \in 1..(Len(ready[h]) - 1) : Tail(ready[h])[i] = ready[h][i + 1]
      /\ Head(ready[h]) = ready[h][1]
  <2>1. ready[h] \in Seq(E)
    BY <1>1
  <2>2. /\ Tail(ready[h]) \in Seq(E) /\ Len(ready[h]) > 0
        /\ Len(Tail(ready[h])) = Len(ready[h]) - 1
        /\ \A i \in 1..Len(Tail(ready[h])) : Tail(ready[h])[i] = ready[h][i + 1]
        /\ Head(ready[h]) = ready[h][1]
    BY <2>1, HeadTailProperties, EmptySeq
  <2> QED  BY <2>1, <2>2
<1>3. c \in Clients /\ InReady(c, h, 1)
  <2>1. c \in Clients
    BY ReadyHead DEF OwnerInv
  <2>2. 1 \in DOMAIN ready[h] /\ ready[h][1].client = c
    BY <1>2
  <2> QED  BY <2>1, <2>2 DEF InReady
<1>4. \A i \in Nat : InReady(c, h, i) => i = 1
  BY <1>3, OneCopy
<1>5. Waits(h, c)
  BY <1>3 DEF Waits, ReadyAt, InReady
<1> HIDE DEF c
<1>6. ASSUME NEW g \in Hosts, NEW d \in Clients
      PROVE  Waits(g, d)' <=> Waits(g, d) /\ ~(g = h /\ d = c)
  <2>1. Waits(g, d) <=> \E i \in DOMAIN ready[g] : ready[g][i].client = d
    BY DEF Waits, ReadyAt
  <2>2. Waits(g, d)' <=> \E i \in DOMAIN ready'[g] : ready'[g][i].client = d
    BY DEF Waits, ReadyAt
  <2>3. CASE g = h
    <3>1. ready'[g] = Tail(ready[h])
      BY <1>1, <2>3
    <3>2. ASSUME Waits(g, d)' PROVE Waits(g, d) /\ d # c
      <4>1. PICK i \in 1..(Len(ready[h]) - 1) : Tail(ready[h])[i].client = d
        BY <1>2, <2>2, <3>1, <3>2
      <4>2. i + 1 \in DOMAIN ready[h] /\ ready[h][i + 1].client = d
        BY <1>2, <4>1
      <4>3. d # c
        BY <1>2, <1>4, <4>1, <4>2 DEF InReady
      <4> QED  BY <2>1, <2>3, <4>2, <4>3
    <3>3. ASSUME Waits(g, d), d # c PROVE Waits(g, d)'
      <4>1. PICK i \in DOMAIN ready[h] : ready[h][i].client = d
        BY <2>1, <2>3, <3>3
      <4>2. i # 1
        BY <1>3, <3>3, <4>1 DEF InReady
      <4>3. PICK j \in 1..(Len(ready[h]) - 1) : i = j + 1
        <5>1. i - 1 \in 1..(Len(ready[h]) - 1) /\ i = (i - 1) + 1
          BY <1>2, <4>1, <4>2
        <5> QED  BY <5>1
      <4>4. Tail(ready[h])[j].client = d
        BY <1>2, <4>1, <4>3
      <4> QED  BY <1>2, <2>2, <3>1, <4>3, <4>4
    <3> QED  BY <2>3, <3>2, <3>3
  <2>4. CASE g # h
    <3>1. ready'[g] = ready[g]
      BY <1>1, <2>4
    <3> QED  BY <2>1, <2>2, <2>4, <3>1
  <2> QED  BY <2>3, <2>4
<1> QED  BY <1>5, <1>6 DEF c

(* Connections of which a packet was neither handled nor sent. *)
LEMMA ProtocolOthers ==
  ASSUME TypeOK, NEW d \in Clients, Protocol(d), SameEntries(d),
         owner'[d] = owner[d], NEW h \in Hosts,
         \/ UNCHANGED inq
         \/ inq[h] # <<>> /\ Consume(h) /\ Packet1(h).client # d
         \/ \E t \in Hosts, p \in Packet : p.client # d /\ Transmit(t, p)
         \/ \E t \in Hosts, p \in Packet :
                /\ p.client # d /\ Packet1(h).client # d
                /\ inq[h] # <<>> /\ Reply(h, t, p)
  PROVE  Protocol(d)'
<1>1. inq[h] # <<>> /\ Packet1(h).client # d => \A type : ~Msg(h, 1, d, type)
  BY HeadMsg
<1>2. CASE UNCHANGED inq
  <2>1. Undisturbed(d, FALSE, h)
    BY <1>2, NothingDrains, DrainUndisturbed
  <2> QED  BY <2>1, ProtocolUndisturbed
<1>3. CASE inq[h] # <<>> /\ Consume(h) /\ Packet1(h).client # d
  <2>1. Drains(TRUE, h)
    BY <1>3, ConsumeDrains
  <2>2. Undisturbed(d, TRUE, h)
    BY <1>1, <1>3, <2>1, DrainUndisturbed
  <2> QED  BY <2>2, ProtocolUndisturbed
<1>4. ASSUME NEW t \in Hosts, NEW p \in Packet, p.client # d, Transmit(t, p)
      PROVE  Protocol(d)'
  <2>1. PICK n \in Nat : Sends(FALSE, h, t, n, p)
    BY <1>4, TransmitSends
  <2>2. Undisturbed(d, FALSE, h)
    BY <1>4, <2>1, SendUndisturbed
  <2> QED  BY <2>2, ProtocolUndisturbed
<1>5. ASSUME NEW t \in Hosts, NEW p \in Packet, p.client # d,
             Packet1(h).client # d, inq[h] # <<>>, Reply(h, t, p)
      PROVE  Protocol(d)'
  <2>1. PICK n \in Nat : Sends(TRUE, h, t, n, p)
    BY <1>5, ReplySends
  <2>2. Undisturbed(d, TRUE, h)
    BY <1>1, <1>5, <2>1, SendUndisturbed
  <2> QED  BY <2>2, ProtocolUndisturbed
<1> QED  BY <1>2, <1>3, <1>4, <1>5

(* A client's segment goes to the owner of its connection. *)
LEMMA ProtocolClient ==
  ASSUME OwnerInv, NEW c \in Clients, Client(c), NEW d \in Clients, Protocol(d)
  PROVE  Protocol(d)'
<1>0. TypeOK
  BY DEF OwnerInv
<1>1. CASE ~ClientConnect(c)
  <2>1. \E p \in Packet : /\ p.client = c /\ p.type \in {"SYN", "DATA"}
                          /\ Transmit(owner[c], p)
    <3>1. 0 \in Segs
      BY BoundsAssumption DEF Segs
    <3>2. /\ \A n \in Segs : /\ Data(c, n) \in Packet /\ Data(c, n).client = c
                             /\ Data(c, n).type = "DATA"
          /\ Syn(c) \in Packet /\ Syn(c).client = c /\ Syn(c).type = "SYN"
      <4>1. owner[c] \in Hosts
        BY <1>0 DEF TypeOK
      <4> QED  BY <4>1, MessageTypes DEF Data, Syn
    <3>3. CASE ClientEstablish(c)
      BY <3>1, <3>2, <3>3 DEF ClientEstablish
    <3>4. CASE ClientSend(c)
      <4>1. sent[c] + 1 \in Segs /\ Transmit(owner[c], Data(c, sent[c] + 1))
        BY <1>0, <3>4, BoundsAssumption DEF ClientSend, Segs, TypeOK
      <4> QED  BY <3>2, <4>1
    <3>5. CASE ClientRetransmit(c)
      <4>1. PICK n \in dropped[c] :
                Transmit(owner[c],
                         IF conn[c] = "syn_sent" THEN Syn(c) ELSE Data(c, n))
        BY <3>5 DEF ClientRetransmit
      <4>2. n \in Segs
        BY <1>0 DEF TypeOK
      <4> QED  BY <3>2, <4>1, <4>2
    <3> QED  BY <1>1, <3>3, <3>4, <3>5 DEF Client
  <2>2. PICK p \in Packet : /\ p.client = c /\ p.type \in {"SYN", "DATA"}
                            /\ Transmit(owner[c], p)
    BY <2>1
  <2>3. UNCHANGED <<active, qds, established, ready, inflight, owner>>
    BY <1>1 DEF Client, ClientEstablish, ClientSend, ClientRetransmit,
                listenVars, tableVars
  <2>4. SameEntries(d)
    BY <2>3 DEF SameEntries, Waits, ReadyAt, Hands
  <2>5. owner[c] \in Hosts
    BY <1>0 DEF TypeOK
  <2>6. PICK n \in Nat : Sends(FALSE, 0, owner[c], n, p)
    <3>1. ASSUME NEW t \in Hosts, Transmit(t, p), NEW h \in Hosts
          PROVE  \E n \in Nat : Sends(FALSE, h, t, n, p)
      BY <1>0, <3>1, TransmitSends
    <3>2. \A t, n : Sends(FALSE, 0, t, n, p) <=> Sends(FALSE, owner[c], t, n, p)
      BY DEF Sends, Stays, Old
    <3> QED  BY <2>2, <2>5, <3>1, <3>2
  <2>7. Undisturbed(d, FALSE, 0)
    BY <2>2, <2>3, <2>4, <2>6, SendUndisturbed
  <2> QED  BY <1>0, <2>7, ProtocolUndisturbed
<1>2. CASE ClientConnect(c)
  <2>1. /\ conn[c] = "closed"
        /\ UNCHANGED <<active, qds, established, ready, inflight>>
    BY <1>2 DEF ClientConnect, listenVars, tableVars
  <2>2. PICK h \in Hosts : /\ owner' = [owner EXCEPT ![c] = h]
                           /\ Transmit(h, Syn(c))
    BY <1>2 DEF ClientConnect
  <2>3. Syn(c) \in Packet /\ Syn(c).client = c /\ Syn(c).type = "SYN"
    BY MessageTypes DEF Syn
  <2>4. owner'[c] = h /\ (d # c => owner'[d] = owner[d])
    BY <1>0, <2>2 DEF TypeOK
  <2>5. SameEntries(d)
    BY <2>1 DEF SameEntries, Waits, ReadyAt, Hands
  <2>6. CASE d # c
    BY <1>0, <2>2, <2>3, <2>4, <2>5, <2>6, ProtocolOthers
  <2>7. CASE d = c
    <3>1. /\ \A g \in Hosts : /\ Stage(g, c) = "Idle" /\ ~Hands(g, c)
                              /\ ~InTable(c, g) /\ ~Waits(g, c)
          /\ \A g \in Hosts, i \in Nat : \A type : ~Msg(g, i, c, type)
      BY <2>1, Early DEF NoEntries
    <3>2. \A g \in Hosts : /\ Stage(g, c)' = "Idle" /\ ~Hands(g, c)'
                           /\ ~InTable(c, g)' /\ ~Waits(g, c)'
      BY <2>1, <3>1 DEF Stage, Hands, InTable, Waits, ReadyAt
    <3>3. PICK n \in Nat : Sends(FALSE, h, h, n, Syn(c))
      BY <1>0, <2>2, <2>3, TransmitSends
    <3>4. ASSUME NEW g \in Hosts, NEW i \in Nat, NEW type, Msg(g, i, c, type)'
          PROVE  g = h /\ type = "SYN"
      <4>1. CASE Stays(FALSE, h, g, i, c, type)
        BY <3>1, <4>1 DEF Stays, Old
      <4>2. CASE ~Stays(FALSE, h, g, i, c, type)
        BY <2>3, <3>3, <3>4, <4>2 DEF Sends
      <4> QED  BY <4>1, <4>2
    <3>5. Entries(c)'
      BY <3>2 DEF Entries
    <3>6. Answers(c)'
      BY <2>4, <3>4 DEF Answers
    <3>7. OneAnswer(c)'
      BY <3>4 DEF OneAnswer, Current, Final
    <3>8. Awaited(c)'
      BY <3>2 DEF Awaited
    <3> QED  BY <2>7, <3>5, <3>6, <3>7, <3>8 DEF Protocol
  <2> QED  BY <2>6, <2>7
<1> QED  BY <1>1, <1>2

(* A segment changes the migration of its connection only by being         *)
(* buffered, which happens at the target.                                  *)
LEMMA ProtocolSegment ==
  ASSUME OwnerInv, NEW h \in Hosts, NEW d \in Clients, Protocol(d),
         RxEstablished(h) \/ RxBuffered(h) \/ RxPassive(h)
  PROVE  Protocol(d)'
<1>0. TypeOK
  BY DEF OwnerInv
<1>p. PICK p, c : p = Packet1(h) /\ c = p.client
  OBVIOUS
<1>1. /\ inq[h] # <<>> /\ Consume(h) /\ p.type \in {"SYN", "DATA"}
      /\ UNCHANGED owner
  BY <1>p DEF RxEstablished, RxBuffered, RxPassive, Received, clientVars
<1>2. /\ p \in Packet /\ c \in Clients /\ p.seq \in Segs
      /\ Msg(h, 1, c, p.type) /\ (p.type = "SYN" => p.seq = 0)
      /\ \A e, type : Msg(h, 1, e, type) => e = c /\ type = p.type
  BY <1>0, <1>1, <1>p, HeadMsg, PacketTypes
<1>3. \A e : \A type \in TcpMigTypes : ~Msg(h, 1, e, type)
  BY <1>1, <1>2 DEF TcpMigTypes
<1>4. PICK consumed : Drains(consumed, h)
  BY <1>0, <1>1, ConsumeDrains
<1>5. CASE RxEstablished(h)
  <2>1. /\ established[h][c] # None /\ UNCHANGED <<active, qds, inflight, ready>>
        /\ established' = [established EXCEPT ![h][c] =
                                CbReceive(established[h][c], p.seq)]
    BY <1>5, <1>p DEF RxEstablished, listenVars
  <2>2. established[h][c] \in CB
    BY <1>0, <1>2, <2>1, TableTypes
  <2>3. PICK cb \in CB : cb = CbReceive(established[h][c], p.seq)
    BY <1>2, <2>2, CBTypes
  <2>4. cb.tracked = established[h][c].tracked /\ cb # None
    BY <2>2, <2>3, NoneAssumption DEF CbReceive, CB
  <2>5. \A g \in Hosts, e \in Clients :
            established'[g][e] = IF g = h /\ e = c THEN cb ELSE established[g][e]
    <3>1. established' = [established EXCEPT ![h][c] = cb]
      BY <2>1, <2>3
    <3> QED  BY <1>0, <1>2, <3>1, TableTypes
  <2>6. SameEntries(d)
    BY <2>1, <2>4, <2>5 DEF SameEntries, Waits, ReadyAt, Hands
  <2>7. Undisturbed(d, consumed, h)
    BY <1>1, <1>3, <1>4, <2>6, DrainUndisturbed
  <2> QED  BY <1>0, <2>7, ProtocolUndisturbed
<1>6. CASE RxBuffered(h)
  <2>1. /\ established[h][c] = None /\ active[h][c] # None
        /\ active' = [active EXCEPT ![h][c].buf = Append(@, p)]
        /\ UNCHANGED <<established, qds, inflight, ready>>
    BY <1>6, <1>p DEF RxBuffered, Buffers, listenVars, tableVars
  <2>2. active[h][c] \in Migration
    BY <1>0, <1>2, <2>1, TableTypes
  <2>3. PICK m : m = [active[h][c] EXCEPT !.buf = Append(active[h][c].buf, p)]
    OBVIOUS
  <2>4. m \in Migration /\ m # None /\ m.stage = active[h][c].stage
    <3>1. m \in Migration
      BY <1>1, <1>2, <2>2, <2>3, MigrationTypes, PacketTypes
    <3> QED  BY <2>2, <2>3, <3>1, NoneAssumption DEF Migration
  <2>5. \A g \in Hosts, e \in Clients :
            active'[g][e] = IF g = h /\ e = c THEN m ELSE active[g][e]
    <3>1. active' = [active EXCEPT ![h][c] = m]
      BY <1>0, <1>2, <2>1, <2>3, TableTypes
    <3> QED  BY <1>0, <1>2, <3>1, TableTypes
  <2>6. CASE d # c
    <3>1. SameEntries(d)
      BY <2>1, <2>5, <2>6 DEF SameEntries, Waits, ReadyAt, Hands
    <3>2. Undisturbed(d, consumed, h)
      BY <1>1, <1>3, <1>4, <3>1, DrainUndisturbed
    <3> QED  BY <1>0, <3>2, ProtocolUndisturbed
  <2>7. CASE d = c
    <3>1. Entries(c) /\ Answers(c) /\ ~InTable(c, h)
      BY <2>1, <2>7 DEF Protocol, InTable
    <3>2. owner[c] = h
      BY <1>1, <1>2, <3>1 DEF Answers, DataFits
    <3>3. Stage(h, c) \in {"PrepareAck", "ConnStateAck"}
      BY <1>0, <1>2, <2>1, <3>1, <3>2, StageTypes DEF Entries
    <3>4. ASSUME NEW g \in Hosts
          PROVE  /\ Stage(g, c)' = Stage(g, c)
                 /\ InTable(c, g)' <=> InTable(c, g)
                 /\ Waits(g, c)' <=> Waits(g, c)
                 /\ Hands(g, c)' <=> Hands(g, c)
                 /\ g # h => /\ Quiet(g, c)' <=> Quiet(g, c)
                             /\ Initiated(g, c)' <=> Initiated(g, c)
      <4>1. /\ InTable(c, g)' <=> InTable(c, g)
            /\ Waits(g, c)' <=> Waits(g, c)
            /\ Hands(g, c)' <=> Hands(g, c)
        BY <2>1 DEF InTable, Waits, ReadyAt, Hands
      <4>2. CASE g = h
        <5>1. active'[g][c] = m
          BY <1>2, <2>5, <4>2
        <5> QED  BY <2>1, <2>4, <4>1, <4>2, <5>1 DEF Stage
      <4>3. CASE g # h
        <5>1. active'[g][c] = active[g][c]
          BY <1>2, <2>5, <4>3
        <5> QED  BY <2>1, <4>1, <5>1 DEF Stage, Quiet, Initiated
      <4> QED  BY <4>2, <4>3
    <3>5. Undisturbed(c, consumed, h)
      <4>1. \A g \in Hosts, i \in Nat : \A type :
              /\ Msg(g, i, c, type)' => Stays(consumed, h, g, i, c, type)
              /\ i > 0 /\ Msg(g, Old(consumed, h, g, i), c, type) =>
                    Msg(g, i, c, type)'
        BY <1>4 DEF Drains
      <4>2. \A g \in Hosts :
              /\ Stage(g, c)' = Stage(g, c)
              /\ InTable(c, g)' <=> InTable(c, g)
              /\ Waits(g, c) => Waits(g, c)'
              /\ Waits(g, c)' => Waits(g, c) \/ Hands(g, c)
              /\ Hands(g, c)' => Hands(g, c) \/ (owner[c] = g /\ NoEntries(c))
              /\ Quiet(g, c) /\ Stage(g, c) \notin {"PrepareAck", "ConnStateAck"}
                    => Quiet(g, c)'
              /\ Initiated(g, c) /\ Stage(g, c) = "Prepare" => Initiated(g, c)'
        BY <3>3, <3>4
      <4> QED  BY <1>1, <1>3, <4>1, <4>2 DEF Undisturbed
    <3> QED  BY <1>0, <2>7, <3>5, ProtocolUndisturbed
  <2> QED  BY <2>6, <2>7
<1>7. CASE RxPassive(h)
  <2>1. UNCHANGED <<active, qds, established>>
    BY <1>7 DEF RxPassive, tableVars
  <2>2. \/ /\ Hands(h, c)
           /\ inflight' = [inflight EXCEPT ![h] = @ \ {c}]
           /\ ready' = [ready EXCEPT ![h] =
                            Append(ready[h], [client |-> c, cb |-> NewCB])]
        \/ /\ p.type = "SYN"
           /\ inflight' = [inflight EXCEPT ![h] = @ \cup {c}]
           /\ UNCHANGED ready
        \/ UNCHANGED <<inflight, ready>>
    BY <1>7, <1>p DEF RxPassive, Completes, Starts, listenVars, Hands
  <2>3. inflight \in [Hosts -> SUBSET Clients]
    BY <1>0 DEF TypeOK
  <2>4. \A g \in Hosts :
          /\ Waits(g, d) => Waits(g, d)'
          /\ Waits(g, d)' => Waits(g, d) \/ Hands(g, d)
          /\ Hands(g, d)' => Hands(g, d) \/ (owner[d] = g /\ NoEntries(d))
    <3>1. CASE /\ Hands(h, c)
               /\ inflight' = [inflight EXCEPT ![h] = @ \ {c}]
               /\ ready' = [ready EXCEPT ![h] =
                            Append(ready[h], [client |-> c, cb |-> NewCB])]
      <4>1. PICK r : /\ r.client = c
                     /\ ready' = [ready EXCEPT ![h] = Append(ready[h], r)]
        BY <3>1
      <4>2. \A g \in Hosts : Waits(g, d)' <=> Waits(g, d) \/ (g = h /\ d = c)
        BY <1>0, <3>1, <4>1, ReadyJoined
      <4>3. \A g \in Hosts : Hands(g, d)' => Hands(g, d)
        BY <2>3, <3>1 DEF Hands
      <4> QED  BY <3>1, <4>2, <4>3
    <3>2. CASE /\ p.type = "SYN"
               /\ inflight' = [inflight EXCEPT ![h] = @ \cup {c}]
               /\ UNCHANGED ready
      <4>1. \A g \in Hosts : Hands(g, d)' => Hands(g, d) \/ (g = h /\ d = c)
        BY <2>3, <3>2 DEF Hands
      <4>2. d = c => owner[d] = h /\ NoEntries(d)
        <5>1. ASSUME d = c PROVE owner[d] = h
          BY <1>2, <3>2, <5>1 DEF Protocol, Answers
        <5>2. conn[c] # "open"
          BY <1>2, <3>2, Early
        <5> QED  BY <1>2, <5>1, <5>2, Early
      <4> QED  BY <3>2, <4>1, <4>2 DEF Waits, ReadyAt
    <3>3. CASE UNCHANGED <<inflight, ready>>
      BY <3>3 DEF Waits, ReadyAt, Hands
    <3> QED  BY <2>2, <3>1, <3>2, <3>3
  <2>5. \A g \in Hosts :
          /\ Stage(g, d)' = Stage(g, d)
          /\ InTable(d, g)' <=> InTable(d, g)
          /\ Quiet(g, d)' <=> Quiet(g, d)
          /\ Initiated(g, d)' <=> Initiated(g, d)
    BY <2>1 DEF Stage, InTable, Quiet, Initiated
  <2>6. \A g \in Hosts, i \in Nat : \A type :
          /\ Msg(g, i, d, type)' => Stays(consumed, h, g, i, d, type)
          /\ i > 0 /\ Msg(g, Old(consumed, h, g, i), d, type) =>
                Msg(g, i, d, type)'
    BY <1>4 DEF Drains
  <2>7. Undisturbed(d, consumed, h)
    BY <1>1, <1>3, <2>4, <2>5, <2>6 DEF Undisturbed
  <2> QED  BY <1>0, <2>7, ProtocolUndisturbed
<1> QED  BY <1>5, <1>6, <1>7

(* What a host that handles a packet does to the queues. *)
LEMMA Reading ==
  ASSUME TypeOK, NEW h \in Hosts, inq[h] # <<>>
  PROVE  /\ Consume(h) => \E consumed : Reads(consumed, h) /\ Drains(consumed, h)
         /\ \A t \in Hosts, p \in Packet : Reply(h, t, p) =>
                \E consumed : \E n \in Nat :
                    Reads(consumed, h) /\ Sends(consumed, h, t, n, p)
<1>1. Reads(TRUE, h)
  BY DEF Reads, Handled
<1> QED  BY <1>1, ConsumeDrains, ReplySends

(* The migration of a connection in the tables that has not begun. *)
LEMMA ProtocolInitiate ==
  ASSUME OwnerInv, NEW h \in Hosts, NEW c \in Clients, InitiateMigration(h, c),
         Protocol(c), NEW d \in Clients, Protocol(d)
  PROVE  Protocol(d)'
<1>0. TypeOK
  BY DEF OwnerInv
<1>1. /\ established[h][c] # None /\ active[h][c] = None /\ qds[h][c] # None
      /\ UNCHANGED <<qds, inflight, ready, owner>>
  BY DEF InitiateMigration, listenVars, clientVars
<1>2. PICK m : m = [stage |-> "Prepare", qd |-> qds[h][c], buf |-> <<>>]
  OBVIOUS
<1>3. PICK cb : cb = [established[h][c] EXCEPT !.tracked = FALSE]
  OBVIOUS
<1>4. PICK p \in Packet : /\ p = Prepare(c, h)
                          /\ p.client = c /\ p.type = "PREPARE" /\ p.src = h
  BY MessageTypes DEF Prepare
<1>5. PICK t \in Hosts : Transmit(t, p)
  BY <1>4 DEF InitiateMigration
<1>6. /\ m.stage = "Prepare" /\ m.qd = qds[h][c] /\ m.buf = <<>> /\ m # None
  <2>1. m \in Migration
    BY <1>0, <1>2, NewMigrationTypes DEF Stages, TypeOK
  <2> QED  BY <1>2, <2>1, NoneAssumption
<1>7. cb # None /\ cb.tracked = FALSE
  <2>1. established[h][c] \in CB
    BY <1>0, <1>1, TableTypes
  <2>2. cb \in CB
    BY <1>3, <2>1, CBTypes
  <2>3. cb.tracked = FALSE
    BY <1>3, <2>1 DEF CB
  <2> QED  BY <2>2, <2>3, NoneAssumption
<1>8. \A g \in Hosts, e \in Clients :
          /\ active'[g][e] = IF g = h /\ e = c THEN m ELSE active[g][e]
          /\ established'[g][e] = IF g = h /\ e = c THEN cb ELSE established[g][e]
  <2>1. /\ active' = [active EXCEPT ![h][c] = m]
        /\ established' = [established EXCEPT ![h][c].tracked = FALSE]
    BY <1>2 DEF InitiateMigration
  <2>2. established' = [established EXCEPT ![h][c] = cb]
    BY <1>0, <1>3, <2>1, TableTypes
  <2>3. \A g \in Hosts, e \in Clients :
            active'[g][e] = IF g = h /\ e = c THEN m ELSE active[g][e]
    BY <1>0, <2>1, TableTypes
  <2>4. \A g \in Hosts, e \in Clients :
            established'[g][e] = IF g = h /\ e = c THEN cb ELSE established[g][e]
    BY <1>0, <2>2, TableTypes
  <2> QED  BY <2>3, <2>4
<1>9. ChangesOnly(h, c)
  BY <1>1, <1>8 DEF ChangesOnly, Waits, ReadyAt, Hands
<1>10. CASE d # c
  BY <1>0, <1>1, <1>4, <1>5, <1>9, <1>10, OthersSame, ProtocolOthers
<1>11. CASE d = c
  <2>1. InTable(c, h) /\ Stage(h, c) = "Idle"
    BY <1>1 DEF InTable, Stage
  <2>2. PICK n \in Nat : Sends(FALSE, h, t, n, p)
    BY <1>0, <1>5, TransmitSends
  <2>3. PICK consumed : /\ Sends(consumed, h, t, n, p)
                        /\ \A g \in Hosts, i \in Nat : ~Handled(consumed, h, g, i)
    <3>1. \A g \in Hosts, i \in Nat : ~Handled(FALSE, h, g, i)
      BY DEF Handled
    <3> QED  BY <2>2, <3>1
  <2>4. \A g \in Hosts, i \in Nat : ~Current(g, i, c)
    <3>1. \A i \in Nat : ~Msg(h, i, c, "PREPARE_ACK")
      BY <2>1, <1>11 DEF Protocol, Answers, PrepareAckFits
    <3>2. /\ \A g \in Hosts : Stage(g, c) = "Prepare" => g = h
          /\ \A g \in Hosts, i \in Nat : /\ ~Msg(g, i, c, "CONN_STATE")
                                         /\ ~Msg(g, i, c, "PREPARE_ACK")
      BY <2>1, <3>1, AtTable
    <3>3. ASSUME NEW g \in Hosts, NEW i \in Nat, Msg(g, i, c, "PREPARE")
          PROVE  FALSE
      <4>1. From(g, i) \in Hosts /\ Stage(From(g, i), c) = "Prepare"
        BY <1>0, <3>3, MsgTypes DEF TcpMigTypes, Protocol, Answers, PrepareFits
      <4> QED  BY <2>1, <3>2, <4>1
    <3> QED  BY <3>2, <3>3 DEF Current
  <2>5. /\ InTable(c, h)' /\ Stage(h, c)' = "Prepare"
        /\ Initiated(h, c)' /\ Quiet(h, c)'
    BY <1>1, <1>6, <1>7, <1>8 DEF InTable, Stage, Initiated, Quiet
  <2>6. ~Waits(h, c)' /\ ~Hands(h, c)'
    <3>1. ~Waits(h, c) /\ ~Hands(h, c)
      BY <2>1, Alone
    <3> QED  BY <1>1, <3>1 DEF Waits, ReadyAt, Hands
  <2>7. \A g \in Hosts \ {h} : SameAt(g, c)
    BY <1>9, OthersSame
  <2>8. owner'[c] = owner[c]
    BY <1>1
  <2> QED  BY <1>4, <1>11, <2>1, <2>3, <2>4, <2>5, <2>6, <2>7, <2>8, ProtocolPrepares
<1> QED  BY <1>10, <1>11

(* A PREPARE the switch returned to its sender. *)
LEMMA ProtocolReturned ==
  ASSUME OwnerInv, NEW h \in Hosts, RxReturned(h),
         \A e \in Clients : Protocol(e), NEW d \in Clients
  PROVE  Protocol(d)'
<1>0. TypeOK
  BY DEF OwnerInv
<1>a. PICK c : c = Packet1(h).client
  OBVIOUS
<1>1. /\ inq[h] # <<>> /\ Packet1(h).type = "PREPARE" /\ Packet1(h).src = h
      /\ established[h][c] # None /\ active[h][c] # None /\ qds[h][c] # None
      /\ UNCHANGED <<qds, inflight, ready, owner>>
  BY <1>a DEF RxReturned, Received, listenVars, clientVars
<1>b. c \in Clients /\ Msg(h, 1, c, "PREPARE")
      /\ \A type : Msg(h, 1, c, type) => type = "PREPARE"
  BY <1>0, <1>1, <1>a, HeadMsg, PacketTypes
<1>2. PICK m : m = [stage |-> "Prepare", qd |-> qds[h][c], buf |-> <<>>]
  OBVIOUS
<1>3. PICK cb : cb = [established[h][c] EXCEPT !.tracked = FALSE]
  OBVIOUS
<1>4. PICK p \in Packet : /\ p = Prepare(c, h)
                          /\ p.client = c /\ p.type = "PREPARE" /\ p.src = h
  BY <1>b, MessageTypes DEF Prepare
<1>5. PICK t \in Hosts : Reply(h, t, p)
  BY <1>a, <1>4 DEF RxReturned
<1>6. /\ m.stage = "Prepare" /\ m.qd = qds[h][c] /\ m.buf = <<>> /\ m # None
  <2>1. m \in Migration
    BY <1>0, <1>b, <1>2, NewMigrationTypes DEF Stages, TypeOK
  <2> QED  BY <1>2, <2>1, NoneAssumption
<1>7. cb # None /\ cb.tracked = FALSE
  <2>1. established[h][c] \in CB
    BY <1>0, <1>1, <1>b, TableTypes
  <2>2. cb \in CB
    BY <1>3, <2>1, CBTypes
  <2>3. cb.tracked = FALSE
    BY <1>3, <2>1 DEF CB
  <2> QED  BY <2>2, <2>3, NoneAssumption
<1>8. \A g \in Hosts, e \in Clients :
          /\ active'[g][e] = IF g = h /\ e = c THEN m ELSE active[g][e]
          /\ established'[g][e] = IF g = h /\ e = c THEN cb ELSE established[g][e]
  <2>1. /\ active' = [active EXCEPT ![h][c] = m]
        /\ established' = [established EXCEPT ![h][c].tracked = FALSE]
    BY <1>2, <1>a DEF RxReturned
  <2>2. established' = [established EXCEPT ![h][c] = cb]
    BY <1>0, <1>b, <1>3, <2>1, TableTypes
  <2>3. \A g \in Hosts, e \in Clients :
            active'[g][e] = IF g = h /\ e = c THEN m ELSE active[g][e]
    BY <1>0, <1>b, <2>1, TableTypes
  <2>4. \A g \in Hosts, e \in Clients :
            established'[g][e] = IF g = h /\ e = c THEN cb ELSE established[g][e]
    BY <1>0, <1>b, <2>2, TableTypes
  <2> QED  BY <2>3, <2>4
<1>9. ChangesOnly(h, c)
  BY <1>1, <1>8 DEF ChangesOnly, Waits, ReadyAt, Hands
<1>10. CASE d # c
  BY <1>0, <1>a, <1>b, <1>1, <1>4, <1>5, <1>9, <1>10, OthersSame, ProtocolOthers
<1>11. CASE d = c
  <2>1. InTable(c, h)
    BY <1>1 DEF InTable
  <2>2. PICK consumed : \E n \in Nat : Reads(consumed, h) /\ Sends(consumed, h, t, n, p)
    BY <1>0, <1>1, <1>5, Reading
  <2>3. PICK n \in Nat : Reads(consumed, h) /\ Sends(consumed, h, t, n, p)
    BY <2>2
  <2>4. \A g \in Hosts, i \in Nat :
            /\ Current(g, i, c) => Handled(consumed, h, g, i)
            /\ Handled(consumed, h, g, i) =>
                    \A type : Msg(g, i, c, type) => type = "PREPARE"
    <3>1. Current(h, 1, c) /\ OneAnswer(c) /\ 1 \in Nat
      BY <1>b DEF Current, Protocol
    <3> QED  BY <1>b, <2>3, <3>1 DEF OneAnswer, Reads
  <2>5. /\ InTable(c, h)' /\ Stage(h, c)' = "Prepare"
        /\ Initiated(h, c)' /\ Quiet(h, c)'
    BY <1>b, <1>1, <1>6, <1>7, <1>8 DEF InTable, Stage, Initiated, Quiet
  <2>6. ~Waits(h, c)' /\ ~Hands(h, c)'
    <3>1. ~Waits(h, c) /\ ~Hands(h, c)
      BY <1>b, <2>1, Alone
    <3> QED  BY <1>1, <3>1 DEF Waits, ReadyAt, Hands
  <2>7. \A g \in Hosts \ {h} : SameAt(g, c)
    BY <1>b, <1>9, OthersSame
  <2>8. owner'[c] = owner[c] /\ Protocol(c)
    BY <1>b, <1>1
  <2> QED  BY <1>b, <1>4, <1>11, <2>1, <2>3, <2>4, <2>5, <2>6, <2>7, <2>8,
              ProtocolPrepares
<1> QED  BY <1>10, <1>11

(* A PREPARE at another host. *)
LEMMA ProtocolPrepare ==
  ASSUME OwnerInv, NEW h \in Hosts, RxPrepare(h),
         \A e \in Clients : Protocol(e), NEW d \in Clients
  PROVE  Protocol(d)'
<1>0. TypeOK
  BY DEF OwnerInv
<1>a. PICK c, o : c = Packet1(h).client /\ o = Packet1(h).src
  OBVIOUS
<1>1. /\ inq[h] # <<>> /\ Packet1(h).type = "PREPARE" /\ active[h][c] = None
      /\ owner' = [owner EXCEPT ![c] = h]
      /\ UNCHANGED <<established, qds, inflight, ready>>
  BY <1>a DEF RxPrepare, Received, listenVars, tableVars
<1>b. /\ c \in Clients /\ o \in Hosts /\ Msg(h, 1, c, "PREPARE") /\ From(h, 1) = o
  BY <1>0, <1>1, <1>a, HeadMsg, PacketTypes DEF TcpMigTypes
<1>2. PICK m : m = [stage |-> "PrepareAck", qd |-> None, buf |-> <<>>]
  OBVIOUS
<1>4. PICK p \in Packet : /\ p = PrepareAck(c, h)
                          /\ p.client = c /\ p.type = "PREPARE_ACK" /\ p.src = h
  BY <1>b, MessageTypes DEF PrepareAck
<1>5. Reply(h, o, p)
  BY <1>a, <1>4 DEF RxPrepare
<1>6. m.stage = "PrepareAck" /\ m # None
  <2>1. m \in Migration
    BY <1>2, NewMigrationTypes DEF Stages
  <2> QED  BY <1>2, <2>1, NoneAssumption
<1>8. \A g \in Hosts, e \in Clients :
          active'[g][e] = IF g = h /\ e = c THEN m ELSE active[g][e]
  <2>1. active' = [active EXCEPT ![h][c] = m]
    BY <1>2, <1>a DEF RxPrepare
  <2> QED  BY <1>0, <1>b, <2>1, TableTypes
<1>9. ChangesOnly(h, c)
  BY <1>1, <1>8 DEF ChangesOnly, Waits, ReadyAt, Hands
<1>c. owner'[c] = h /\ (d # c => owner'[d] = owner[d])
  BY <1>0, <1>1, <1>b DEF TypeOK
<1>10. CASE d # c
  BY <1>0, <1>a, <1>b, <1>c, <1>1, <1>4, <1>5, <1>9, <1>10, OthersSame,
     ProtocolOthers
<1>11. CASE d = c
  <2>1. Stage(h, c) = "Idle"
    BY <1>1 DEF Stage
  <2>2. PICK consumed : \E n \in Nat : Reads(consumed, h) /\ Sends(consumed, h, o, n, p)
    BY <1>0, <1>b, <1>1, <1>5, Reading
  <2>3. PICK n \in Nat : Reads(consumed, h) /\ Sends(consumed, h, o, n, p)
    BY <2>2
  <2>5. /\ Stage(h, c)' = "PrepareAck" /\ (InTable(c, h)' <=> InTable(c, h))
        /\ Waits(h, c)' <=> Waits(h, c)
        /\ Hands(h, c)' <=> Hands(h, c)
    BY <1>b, <1>1, <1>6, <1>8 DEF InTable, Stage, Waits, ReadyAt, Hands
  <2>7. \A g \in Hosts \ {h} : SameAt(g, c)
    BY <1>b, <1>9, OthersSame
  <2> QED  BY <1>b, <1>c, <1>4, <1>11, <2>1, <2>3, <2>5, <2>7, ProtocolTakes
<1> QED  BY <1>10, <1>11

(* The descriptor a migration was initiated with is the open descriptor of *)
(* the connection as long as it has not left.                              *)
LEMMA InitiatedOpen ==
  ASSUME TypeOK, TablesHold, ~AppCloses, NEW h \in Hosts, NEW c \in Clients,
         Protocol(c), Stage(h, c) = "Prepare"
  PROVE  /\ active[h][c] # None /\ active[h][c].stage = "Prepare"
         /\ active[h][c].qd \in QDs /\ active[h][c].qd = qds[h][c]
         /\ established[h][c] # None /\ qds[h][c] # None
         /\ IsOpenFor(h, active[h][c].qd, c)
         /\ sockets[h][active[h][c].qd] # None
<1>1. /\ active[h][c] # None /\ active[h][c] \in Migration
      /\ active[h][c].stage = "Prepare"
  BY StageTypes
<1>2. /\ active[h][c].qd = qds[h][c] /\ established[h][c] # None
  BY DEF Protocol, Entries, Initiated, InTable
<1>3. qds[h][c] # None /\ qds[h][c] \in QDs
  BY <1>2, TableTypes DEF TablesHold, TablesAgree
<1>4. IsOpenFor(h, qds[h][c], c)
  BY <1>3 DEF TablesHold, TablesAgree
<1>5. sockets[h][qds[h][c]] # None
  BY <1>4, NoneAssumption DEF IsOpenFor, Socket
<1> QED  BY <1>1, <1>2, <1>3, <1>4, <1>5

(* PREPARE_ACK at the origin. *)
LEMMA ProtocolPrepareAck ==
  ASSUME OwnerInv, TablesHold, ~AppCloses, NEW h \in Hosts, RxPrepareAck(h),
         \A e \in Clients : Protocol(e), NEW d \in Clients
  PROVE  Protocol(d)'
<1>0. TypeOK
  BY DEF OwnerInv
<1>a. PICK c, t : c = Packet1(h).client /\ t = Packet1(h).src
  OBVIOUS
<1>1. /\ inq[h] # <<>> /\ Packet1(h).type = "PREPARE_ACK"
      /\ active[h][c] # None /\ active[h][c].stage = "Prepare"
      /\ UNCHANGED <<inflight, ready, owner>>
  BY <1>a DEF RxPrepareAck, Received, listenVars, clientVars
<1>b. /\ c \in Clients /\ t \in Hosts /\ Msg(h, 1, c, "PREPARE_ACK")
      /\ From(h, 1) = t
  BY <1>0, <1>1, <1>a, HeadMsg, PacketTypes DEF TcpMigTypes
<1>c. Stage(h, c) = "Prepare"
  BY <1>1 DEF Stage
<1>2. /\ active[h][c].qd \in QDs /\ IsOpenFor(h, active[h][c].qd, c)
      /\ established[h][c] # None /\ established[h][c] \in CB
      /\ active[h][c] \in Migration
  BY <1>0, <1>b, <1>c, <1>1, InitiatedOpen, TableTypes
<1>3. MigrateOutConn(h, Packet1(h)) = c
  BY <1>a, <1>2 DEF MigrateOutConn, IsOpenFor
<1>4. PICK p \in Packet : /\ p = ConnState(c, h, Serialized(established[h][c]))
                          /\ p.client = c /\ p.type = "CONN_STATE" /\ p.src = h
  <2>1. Serialized(established[h][c]) \in CB
    BY <1>2, CBTypes
  <2> QED  BY <1>b, <2>1, MessageTypes DEF ConnState
<1>5. Reply(h, t, p)
  BY <1>a, <1>3, <1>4 DEF RxPrepareAck
<1>6. PICK m : m = [active[h][c] EXCEPT !.stage = "ConnState"]
  OBVIOUS
<1>7. m.stage = "ConnState" /\ m.buf = active[h][c].buf /\ m # None
  <2>1. m \in Migration
    BY <1>2, <1>6, MigrationTypes DEF Stages
  <2> QED  BY <1>2, <1>6, <2>1, NoneAssumption DEF Migration
<1>8. /\ active' = [active EXCEPT ![h][c] = m]
      /\ established' = [established EXCEPT ![h][c] = None]
      /\ qds' = [qds EXCEPT ![h][c] = None]
  <2>1. /\ active' = [active EXCEPT ![h][c].stage = "ConnState"]
        /\ MigrateOut(h, active[h][c].qd, c)
    BY <1>a, <1>3 DEF RxPrepareAck
  <2> QED  BY <1>0, <1>b, <1>6, <2>1, TableTypes DEF MigrateOut
<1>9. /\ \A g \in Hosts, e \in Clients :
            active'[g][e] = IF g = h /\ e = c THEN m ELSE active[g][e]
      /\ \A g \in Hosts, e \in Clients : established'[g][e] =
            IF g = h /\ e = c THEN None ELSE established[g][e]
      /\ \A g \in Hosts, e \in Clients : qds'[g][e] =
            IF g = h /\ e = c THEN None ELSE qds[g][e]
  <2>1. \A g \in Hosts, e \in Clients :
            active'[g][e] = IF g = h /\ e = c THEN m ELSE active[g][e]
    BY <1>0, <1>b, <1>8, TableTypes
  <2>2. \A g \in Hosts, e \in Clients : established'[g][e] =
            IF g = h /\ e = c THEN None ELSE established[g][e]
    BY <1>0, <1>b, <1>8, TableTypes
  <2>3. \A g \in Hosts, e \in Clients : qds'[g][e] =
            IF g = h /\ e = c THEN None ELSE qds[g][e]
    BY <1>0, <1>b, <1>8, TableTypes
  <2> QED  BY <2>1, <2>2, <2>3
<1>10. ChangesOnly(h, c)
  BY <1>1, <1>9 DEF ChangesOnly, Waits, ReadyAt, Hands
<1>11. CASE d # c
  BY <1>0, <1>a, <1>b, <1>1, <1>4, <1>5, <1>10, <1>11, OthersSame, ProtocolOthers
<1>12. CASE d = c
  <2>1. PICK consumed : \E n \in Nat : Reads(consumed, h) /\ Sends(consumed, h, t, n, p)
    BY <1>0, <1>b, <1>1, <1>5, Reading
  <2>2. PICK n \in Nat : Reads(consumed, h) /\ Sends(consumed, h, t, n, p)
    BY <2>1
  <2>3. /\ Stage(h, c)' = "ConnState" /\ ~InTable(c, h)'
        /\ Waits(h, c)' <=> Waits(h, c)
        /\ Hands(h, c)' <=> Hands(h, c)
    BY <1>b, <1>1, <1>7, <1>9 DEF InTable, Stage, Waits, ReadyAt, Hands
  <2>4. Quiet(h, c)' <=> Quiet(h, c)
    BY <1>b, <1>1, <1>7, <1>9 DEF Quiet
  <2>5. \A g \in Hosts \ {h} : SameAt(g, c)
    BY <1>b, <1>10, OthersSame
  <2>6. owner'[c] = owner[c] /\ Protocol(c)
    BY <1>b, <1>1
  <2> QED  BY <1>b, <1>c, <1>4, <1>12, <2>2, <2>3, <2>4, <2>5, <2>6, ProtocolLeaves
<1> QED  BY <1>11, <1>12

(* CONNECTION_STATE at the target. *)
LEMMA ProtocolConnState ==
  ASSUME OwnerInv, NEW h \in Hosts, RxConnState(h),
         \A e \in Clients : Protocol(e), NEW d \in Clients
  PROVE  Protocol(d)'
<1>0. TypeOK
  BY DEF OwnerInv
<1>a. PICK c, o : c = Packet1(h).client /\ o = Packet1(h).src
  OBVIOUS
<1>1. /\ inq[h] # <<>> /\ Packet1(h).type = "CONN_STATE" /\ active[h][c] # None
      /\ UNCHANGED <<inflight, established, qds, owner>>
  BY <1>a DEF RxConnState, Received, tableVars, clientVars
<1>b. /\ c \in Clients /\ o \in Hosts /\ Msg(h, 1, c, "CONN_STATE")
      /\ From(h, 1) = o
  BY <1>0, <1>1, <1>a, HeadMsg, PacketTypes DEF TcpMigTypes
<1>4. PICK p \in Packet : /\ p = ConnStateAck(c, h)
                          /\ p.client = c /\ p.type = "CONN_STATE_ACK" /\ p.src = h
  BY <1>b, MessageTypes DEF ConnStateAck
<1>5. Reply(h, o, p)
  BY <1>a, <1>4 DEF RxConnState
<1>6. PICK m : m = [active[h][c] EXCEPT !.stage = "ConnStateAck"]
  OBVIOUS
<1>7. m.stage = "ConnStateAck" /\ m # None
  <2>1. active[h][c] \in Migration
    BY <1>0, <1>b, <1>1, TableTypes
  <2>2. m \in Migration
    BY <1>6, <2>1, MigrationTypes DEF Stages
  <2> QED  BY <1>6, <2>1, <2>2, NoneAssumption DEF Migration
<1>8. \A g \in Hosts, e \in Clients :
          active'[g][e] = IF g = h /\ e = c THEN m ELSE active[g][e]
  <2>1. active' = [active EXCEPT ![h][c].stage = "ConnStateAck"]
    BY <1>a DEF RxConnState
  <2>2. active' = [active EXCEPT ![h][c] = m]
    BY <1>0, <1>b, <1>6, <2>1, TableTypes
  <2> QED  BY <1>0, <1>b, <2>2, TableTypes
<1>9. \A g \in Hosts, e \in Clients :
          Waits(g, e)' <=> Waits(g, e) \/ (g = h /\ e = c)
  <2>1. PICK r : /\ r.client = c
                 /\ ready' = [ready EXCEPT ![h] = Append(ready[h], r)]
    BY <1>a DEF RxConnState
  <2> QED  BY <1>0, <2>1, ReadyJoined
<1>10. ChangesOnly(h, c)
  BY <1>1, <1>8, <1>9 DEF ChangesOnly, Hands
<1>11. CASE d # c
  BY <1>0, <1>a, <1>b, <1>1, <1>4, <1>5, <1>10, <1>11, OthersSame, ProtocolOthers
<1>12. CASE d = c
  <2>1. PICK consumed : \E n \in Nat : Reads(consumed, h) /\ Sends(consumed, h, o, n, p)
    BY <1>0, <1>b, <1>1, <1>5, Reading
  <2>2. PICK n \in Nat : Reads(consumed, h) /\ Sends(consumed, h, o, n, p)
    BY <2>1
  <2>3. /\ Stage(h, c)' = "ConnStateAck" /\ (InTable(c, h)' <=> InTable(c, h))
        /\ Waits(h, c)'
        /\ Hands(h, c)' <=> Hands(h, c)
    BY <1>b, <1>1, <1>7, <1>8, <1>9 DEF InTable, Stage, Hands
  <2>4. \A g \in Hosts \ {h} : SameAt(g, c)
    BY <1>b, <1>10, OthersSame
  <2>5. owner'[c] = owner[c] /\ Protocol(c)
    BY <1>b, <1>1
  <2> QED  BY <1>b, <1>4, <1>12, <2>2, <2>3, <2>4, <2>5, ProtocolArrives
<1> QED  BY <1>11, <1>12

(* CONNECTION_STATE_ACK at the origin. *)
LEMMA ProtocolConnStateAck ==
  ASSUME OwnerInv, NEW h \in Hosts, RxConnStateAck(h),
         \A e \in Clients : Protocol(e), NEW d \in Clients
  PROVE  Protocol(d)'
<1>0. TypeOK
  BY DEF OwnerInv
<1>a. PICK c : c = Packet1(h).client
  OBVIOUS
<1>1. /\ inq[h] # <<>> /\ Packet1(h).type = "CONN_STATE_ACK" /\ Consume(h)
      /\ active' = [active EXCEPT ![h][c] = None]
      /\ UNCHANGED <<inflight, ready, established, qds, owner>>
  BY <1>a DEF RxConnStateAck, Received, CloseMigration, listenVars, tableVars
<1>b. c \in Clients /\ Msg(h, 1, c, "CONN_STATE_ACK")
  BY <1>0, <1>1, <1>a, HeadMsg, PacketTypes
<1>2. \A g \in Hosts, e \in Clients :
          active'[g][e] = IF g = h /\ e = c THEN None ELSE active[g][e]
  BY <1>0, <1>b, <1>1, TableTypes
<1>3. ChangesOnly(h, c)
  BY <1>1, <1>2 DEF ChangesOnly, Waits, ReadyAt, Hands
<1>4. CASE d # c
  BY <1>0, <1>a, <1>b, <1>1, <1>3, <1>4, OthersSame, ProtocolOthers
<1>5. CASE d = c
  <2>1. PICK consumed : Reads(consumed, h) /\ Drains(consumed, h)
    BY <1>0, <1>1, Reading
  <2>2. /\ Stage(h, c)' = "Idle" /\ (InTable(c, h)' <=> InTable(c, h))
        /\ Waits(h, c)' <=> Waits(h, c)
        /\ Hands(h, c)' <=> Hands(h, c)
    BY <1>b, <1>1, <1>2 DEF InTable, Stage, Waits, ReadyAt, Hands
  <2>3. \A g \in Hosts \ {h} : SameAt(g, c)
    BY <1>b, <1>3, OthersSame
  <2>4. owner'[c] = owner[c] /\ Protocol(c)
    BY <1>b, <1>1
  <2> QED  BY <1>b, <1>5, <2>1, <2>2, <2>3, <2>4, ProtocolEnds
<1> QED  BY <1>4, <1>5

(* poll_accept. *)
LEMMA ProtocolPollAccept ==
  ASSUME OwnerInv, TypeOK', NEW h \in Hosts, PollAccept(h),
         \A e \in Clients : Protocol(e), NEW d \in Clients
  PROVE  Protocol(d)'
<1>0. TypeOK
  BY DEF OwnerInv
<1>a. PICK c : c = Head(ready[h]).client
  OBVIOUS
<1>1. /\ ready[h] # <<>> /\ ready' = [ready EXCEPT ![h] = Tail(ready[h])]
      /\ active' = [active EXCEPT ![h][c] = None]
      /\ UNCHANGED <<inq, inflight, owner>>
  BY <1>a DEF PollAccept, Acceptor, CloseMigration, clientVars
<1>b. c \in Clients
  BY <1>0, <1>1, <1>a, ReadyHead
<1>2. PICK cb, q : /\ established' = [established EXCEPT ![h][c] = cb]
                   /\ qds' = [qds EXCEPT ![h][c] = q]
  BY <1>a DEF PollAccept
<1>c. acceptQd[h] # None
  BY DEF PollAccept, Acceptor
<1>3. /\ \A g \in Hosts, e \in Clients :
            active'[g][e] = IF g = h /\ e = c THEN None ELSE active[g][e]
      /\ \A g \in Hosts, e \in Clients : established'[g][e] =
            IF g = h /\ e = c THEN cb ELSE established[g][e]
      /\ \A g \in Hosts, e \in Clients : qds'[g][e] =
            IF g = h /\ e = c THEN q ELSE qds[g][e]
  <2>1. \A g \in Hosts, e \in Clients :
            active'[g][e] = IF g = h /\ e = c THEN None ELSE active[g][e]
    BY <1>0, <1>b, <1>1, TableTypes
  <2>2. \A g \in Hosts, e \in Clients : established'[g][e] =
            IF g = h /\ e = c THEN cb ELSE established[g][e]
    BY <1>0, <1>b, <1>2, TableTypes
  <2>3. \A g \in Hosts, e \in Clients : qds'[g][e] =
            IF g = h /\ e = c THEN q ELSE qds[g][e]
    BY <1>0, <1>b, <1>2, TableTypes
  <2> QED  BY <2>1, <2>2, <2>3
<1>4. /\ Waits(h, c)
      /\ \A g \in Hosts, e \in Clients :
            Waits(g, e)' <=> Waits(g, e) /\ ~(g = h /\ e = c)
  BY <1>1, <1>a, ReadyLeft
<1>5. ChangesOnly(h, c)
  BY <1>1, <1>3, <1>4 DEF ChangesOnly, Hands
<1>6. CASE d # c
  BY <1>0, <1>a, <1>b, <1>1, <1>5, <1>6, OthersSame, ProtocolOthers
<1>7. CASE d = c
  <2>1. PICK consumed : /\ Drains(consumed, h)
                        /\ \A g \in Hosts, i \in Nat : ~Handled(consumed, h, g, i)
    <3>1. Drains(FALSE, h)
      BY <1>0, <1>1, NothingDrains
    <3>2. \A g \in Hosts, i \in Nat : ~Handled(FALSE, h, g, i)
      BY DEF Handled
    <3> QED  BY <3>1, <3>2
  <2>2. InTable(c, h)'
    <3>1. PICK buf, old : /\ old \in CB /\ buf \in Seq(Segment)
                          /\ established' = [established EXCEPT ![h][c] =
                                [CbReplay(old, buf) EXCEPT !.tracked = TRUE]]
      <4> DEFINE buf == IF active[h][c] = None THEN <<>> ELSE active[h][c].buf
                 old == Head(ready[h]).cb
      <4>1. established' = [established EXCEPT ![h][c] =
                                [CbReplay(old, buf) EXCEPT !.tracked = TRUE]]
        BY <1>a DEF PollAccept
      <4>2. old \in CB
        BY <1>0, <1>1, ReadyHead
      <4>3. buf \in Seq(Segment)
        <5>1. active[h][c] \in Migration \cup {None}
          BY <1>0, <1>b, TableTypes
        <5> QED  BY <5>1, MigrationTypes, EmptySeq
      <4> HIDE DEF buf, old
      <4> QED  BY <4>1, <4>2, <4>3
    <3>2. CbReplay(old, buf) \in CB
      BY <3>1, CBTypes
    <3>3. PICK new : new = [CbReplay(old, buf) EXCEPT !.tracked = TRUE]
      OBVIOUS
    <3>4. new \in CB
      BY <3>2, <3>3, CBTypes
    <3>5. established'[h][c] = new
      BY <1>0, <1>b, <3>1, <3>3, TableTypes
    <3> QED  BY <3>4, <3>5, NoneAssumption DEF InTable
  <2>3. /\ Stage(h, c)' = "Idle" /\ Quiet(h, c)' /\ ~Waits(h, c)'
        /\ Hands(h, c)' <=> Hands(h, c)
    BY <1>b, <1>1, <1>3, <1>4 DEF Stage, Quiet, Hands
  <2>4. \A g \in Hosts \ {h} : SameAt(g, c)
    BY <1>b, <1>5, OthersSame
  <2>5. owner'[c] = owner[c] /\ Protocol(c)
    BY <1>b, <1>1
  <2> QED  BY <1>b, <1>4, <1>7, <2>1, <2>2, <2>3, <2>4, <2>5, ProtocolAccepts
<1> QED  BY <1>6, <1>7

-----------------------------------------------------------------------------
(* The panics. *)

(* Every message finds the entry, the tables and the accept queue that its *)
(* handler relies on.                                                      *)
LEMMA NothingRefused ==
  ASSUME OwnerInv, TablesHold, ~AppCloses, \A e \in Clients : Protocol(e),
         NEW h \in Hosts
  PROVE  RxPanics(h) = {}
<1>0. TypeOK
  BY DEF OwnerInv
<1>1. CASE ~Received(h)
  BY <1>1 DEF RxPanics
<1>2. CASE Received(h)
  <2>1. PICK p, c : p = Packet1(h) /\ c = p.client
    OBVIOUS
  <2>2. p \in Packet /\ c \in Clients /\ Msg(h, 1, c, p.type) /\ p.src = From(h, 1)
    BY <1>0, <1>2, <2>1, HeadMsg, PacketTypes DEF Received
  <2>3. Entries(c) /\ 1 \in Nat
        /\ (p.type = "PREPARE" => PrepareFits(h, 1, c))
        /\ (p.type = "PREPARE_ACK" => PrepareAckFits(h, 1, c))
        /\ (p.type = "CONN_STATE" => ConnStateFits(h, 1, c))
        /\ (p.type = "CONN_STATE_ACK" => Stage(h, c) = "ConnState")
    BY <2>2 DEF Protocol, Answers
  <2>4. ~NoEntry(h, p)
    BY <2>1, <2>3
       DEF NoEntry, PrepareAckFits, ConnStateFits, TcpMigTypes, Stage
  <2>5. ~NotMine(h, p)
    <3>1. SUFFICES ASSUME p.type = "PREPARE", active[h][c] # None
                   PROVE  /\ p.src = h /\ qds[h][c] # None
                          /\ established[h][c] # None
      BY <2>1 DEF NotMine
    <3>2. Stage(h, c) # "Idle"
      BY <1>0, <2>2, <3>1, StageTypes
    <3>3. \A j \in Nat : j < 1 => ~Msg(h, j, c, "CONN_STATE_ACK")
      BY <1>0, MsgTypes
    <3>4. Stage(h, c) = "Prepare" /\ p.src = h
      BY <2>2, <2>3, <3>1, <3>2, <3>3 DEF PrepareFits
    <3>5. established[h][c] # None
      BY <2>3, <3>4 DEF Entries, InTable
    <3> QED  BY <2>2, <3>4, <3>5 DEF TablesHold, TablesAgree
  <2>6. Acked(h, p) => ~NoSocket(h, p) /\ CanMigrateOut(h, p)
    <3>1. SUFFICES ASSUME Acked(h, p)
                   PROVE  ~NoSocket(h, p) /\ CanMigrateOut(h, p)
      OBVIOUS
    <3>2. Stage(h, c) = "Prepare" /\ Protocol(c)
      BY <2>1, <2>2, <3>1 DEF Acked, Stage
    <3>3. /\ active[h][c] # None /\ active[h][c].stage = "Prepare"
          /\ active[h][c].qd \in QDs /\ active[h][c].qd = qds[h][c]
          /\ established[h][c] # None /\ qds[h][c] # None
          /\ IsOpenFor(h, active[h][c].qd, c)
          /\ sockets[h][active[h][c].qd] # None
      BY <1>0, <2>2, <3>2, InitiatedOpen
    <3>4. MigrateOutConn(h, p) = c
      BY <2>1, <3>3 DEF MigrateOutConn, IsOpenFor
    <3> QED  BY <2>1, <3>3, <3>4, NoneAssumption
             DEF NoSocket, CanMigrateOut, IsOpenFor
  <2>7. ~Twice(h, p)
    <3>1. SUFFICES ASSUME p.type = "CONN_STATE" PROVE ~Waits(h, c)
      BY <2>1 DEF Twice, Waits
    <3> QED  BY <2>2, <2>3, <3>1, Alone
  <2> QED  BY <1>2, <2>1, <2>4, <2>5, <2>6, <2>7 DEF RxPanics, Reason
<1> QED  BY <1>1, <1>2

(* The descriptor and the connection that poll_accept enters are new. *)
LEMMA NothingTwice ==
  ASSUME OwnerInv, TablesHold, NEW h \in Hosts
  PROVE  AcceptPanics(h) = {}
<1>0. TypeOK
  BY DEF OwnerInv
<1>1. SUFFICES ASSUME Acceptor(h) PROVE Acceptable(h)
  BY DEF AcceptPanics, Reason
<1>2. PICK c : c = Head(ready[h]).client
  OBVIOUS
<1>3. ready[h] # <<>> /\ acceptQd[h] # None /\ c \in Clients
  BY <1>0, <1>1, <1>2, ReadyHead DEF Acceptor
<1>4. Waits(h, c)
  <2>1. ready[h] \in Seq([client: Clients, cb: CB])
    BY <1>0 DEF TypeOK
  <2>2. 1 \in DOMAIN ready[h] /\ Head(ready[h]) = ready[h][1]
    BY <1>3, <2>1, HeadTailProperties, EmptySeq
  <2> QED  BY <1>2, <2>2 DEF Waits, ReadyAt
<1>5. established[h][c] = None
  BY <1>3, <1>4, Alone DEF InTable
<1>6. qds[h][c] = None
  BY <1>3, <1>5 DEF TablesHold, TablesAgree
<1>7. acceptQd[h] \in QDs
  BY <1>0, <1>3, TableTypes
<1>8. sockets[h][acceptQd[h]] = None
  BY <1>7 DEF TablesHold, DescriptorsUnique
<1> QED  BY <1>2, <1>5, <1>6, <1>8 DEF Acceptable

(* The statistics do not count a connection that is migrating away. *)
LEMMA NothingInitiatedTwice ==
  ASSUME OwnerInv, \A e \in Clients : Protocol(e), NEW h \in Hosts
  PROVE  PolicyPanics(h) = {}
<1>0. TypeOK
  BY DEF OwnerInv
<1>1. SUFFICES ASSUME NEW c \in Clients, established[h][c] # None,
                      active[h][c] # None
               PROVE  ~established[h][c].tracked
  BY DEF PolicyPanics, Reason
<1>2. Stage(h, c) = "Prepare"
  BY <1>0, <1>1, StageTypes DEF Protocol, Entries, InTable
<1> QED  BY <1>2 DEF Protocol, Entries, Initiated

LEMMA NothingAborts ==
  ASSUME OwnerInv, TablesHold, ~AppCloses, \A e \in Clients : Protocol(e),
         NEW h \in Hosts
  PROVE  ~Abort(h)
BY NothingRefused, NothingTwice, NothingInitiatedTwice DEF Abort

(* No message is refused either. *)
LEMMA NothingUnexpected ==
  ASSUME OwnerInv, \A e \in Clients : Protocol(e), NEW h \in Hosts
  PROVE  ~RxUnexpected(h)
<1>0. TypeOK
  BY DEF OwnerInv
<1>1. SUFFICES ASSUME Received(h), Packet1(h).type \in TcpMigTypes \ {"PREPARE"}
               PROVE  /\ active[h][Packet1(h).client] # None
                      /\ Packet1(h).type =
                            Expected(active[h][Packet1(h).client].stage)
  BY DEF RxUnexpected
<1>2. PICK p, c : p = Packet1(h) /\ c = p.client
  OBVIOUS
<1>3. c \in Clients /\ Msg(h, 1, c, p.type)
  BY <1>0, <1>1, <1>2, HeadMsg, PacketTypes DEF Received
<1>4. /\ p.type = "PREPARE_ACK" => Stage(h, c) = "Prepare"
      /\ p.type = "CONN_STATE" => Stage(h, c) = "PrepareAck"
      /\ p.type = "CONN_STATE_ACK" => Stage(h, c) = "ConnState"
  <2>1. Answers(c) /\ 1 \in Nat
    BY <1>3 DEF Protocol
  <2> QED  BY <1>3, <2>1 DEF Answers, PrepareAckFits, ConnStateFits
<1>5. p.type \in {"PREPARE_ACK", "CONN_STATE", "CONN_STATE_ACK"}
  BY <1>1, <1>2 DEF TcpMigTypes
<1>6. active[h][c] # None /\ active[h][c].stage = Stage(h, c)
  BY <1>4, <1>5 DEF Stage
<1> QED  BY <1>2, <1>4, <1>5, <1>6 DEF Expected

-----------------------------------------------------------------------------
(* The invariant is inductive. *)

(* Initially there are no messages, entries or connections. *)
LEMMA ProtocolInit ==
  ASSUME Init
  PROVE  ProtocolInv
<1>1. OwnerInv
  BY OwnerInit
<1>2. TablesHold
  BY TypeInit, TablesInit
<1>3. NoAbort
  BY DEF Init, NoAbort, Up
<1>4. ASSUME NEW c \in Clients PROVE Protocol(c)
  <2>1. \A g \in Hosts : /\ Stage(g, c) = "Idle" /\ ~InTable(c, g)
                         /\ ~Waits(g, c) /\ ~Hands(g, c)
    BY DEF Init, Stage, InTable, Waits, ReadyAt, Hands
  <2>2. \A g \in Hosts, i \in Nat : \A type : ~Msg(g, i, c, type)
    BY DEF Init, Msg
  <2>3. Entries(c)
    BY <2>1 DEF Entries
  <2>4. Answers(c)
    BY <2>2 DEF Answers
  <2>5. OneAnswer(c)
    BY <2>2 DEF OneAnswer, Current, Final
  <2>6. Awaited(c)
    BY <2>1 DEF Awaited
  <2> QED  BY <2>3, <2>4, <2>5, <2>6 DEF Protocol
<1> QED  BY <1>1, <1>2, <1>3, <1>4 DEF ProtocolInv

LEMMA ProtocolStep ==
  ASSUME Reliable, ProtocolInv, [Next]_vars
  PROVE  ProtocolInv'
<1>1. /\ OwnerInv /\ TypeOK /\ TablesHold /\ ~AppCloses
      /\ \A e \in Clients : Protocol(e)
  BY DEF ProtocolInv, OwnerInv, Reliable
<1>2. OwnerInv' /\ TypeOK'
  <2>1. OwnerInv'
    BY <1>1, OwnerStep DEF Reliable
  <2> QED  BY <2>1 DEF OwnerInv
<1>3. TablesHold'
  BY <1>1, TablesStep DEF TablesInv
<1>4. \A h \in Hosts : ~Abort(h) /\ ~RxUnexpected(h)
  BY <1>1, NothingAborts, NothingUnexpected
<1>5. \A h \in Hosts : ~Lose(h) /\ ~Duplicate(h)
  <2>1. budget.loss \in 0..0 /\ budget.dup \in 0..0
    BY <1>1 DEF Reliable, TypeOK, Budget
  <2> QED  BY <2>1 DEF Lose, Duplicate
<1>6. \A h \in Hosts, q \in QDs : ~Close(h, q)
  BY <1>1 DEF Close
<1>7. NoAbort'
  <2>1. UNCHANGED panicked
    <3>1. CASE UNCHANGED vars
      BY <3>1 DEF vars
    <3>2. ASSUME NEW c \in Clients, Client(c) PROVE UNCHANGED panicked
      BY <3>2 DEF Client, ClientConnect, ClientEstablish, ClientSend,
                  ClientRetransmit
    <3>3. ASSUME NEW h \in Hosts, Receive(h) PROVE UNCHANGED panicked
      BY <3>3 DEF Receive, RxEstablished, RxBuffered, RxPassive, RxPrepare,
                  RxReturned, RxPrepareAck, RxConnState, RxConnStateAck,
                  RxUnexpected
    <3>4. ASSUME NEW h \in Hosts, Accept(h) \/ PollAccept(h)
          PROVE  UNCHANGED panicked
      BY <3>4 DEF Accept, PollAccept
    <3>5. ASSUME NEW h \in Hosts, NEW c \in Clients, InitiateMigration(h, c)
          PROVE  UNCHANGED panicked
      BY <3>5 DEF InitiateMigration
    <3>6. ASSUME NEW h \in Hosts, NEW q \in QDs,
                 Pop(h, q) \/ PollRecv(h, q) \/ PollMigratedOut(h, q)
          PROVE  UNCHANGED panicked
      BY <3>6 DEF Pop, PollRecv, PollMigratedOut
    <3> QED  BY <1>4, <1>5, <1>6, <3>1, <3>2, <3>3, <3>4, <3>5, <3>6 DEF Next
  <2> QED  BY <2>1 DEF ProtocolInv, NoAbort, Up
<1>8. ASSUME NEW d \in Clients PROVE Protocol(d)'
  <2>0. Protocol(d)
    BY <1>1
  <2>1. CASE UNCHANGED vars
    BY <1>1, <2>0, <2>1, ProtocolApplication
  <2>2. ASSUME NEW c \in Clients, Client(c) PROVE Protocol(d)'
    BY <1>1, <2>0, <2>2, ProtocolClient
  <2>3. ASSUME NEW h \in Hosts, Receive(h) PROVE Protocol(d)'
    BY <1>1, <1>4, <2>0, <2>3, ProtocolSegment, ProtocolPrepare,
       ProtocolReturned, ProtocolPrepareAck, ProtocolConnState,
       ProtocolConnStateAck DEF Receive
  <2>4. ASSUME NEW h \in Hosts, PollAccept(h) PROVE Protocol(d)'
    BY <1>1, <1>2, <2>4, ProtocolPollAccept
  <2>5. ASSUME NEW h \in Hosts, Accept(h) PROVE Protocol(d)'
    BY <1>1, <2>0, <2>5, ProtocolApplication
  <2>6. ASSUME NEW h \in Hosts, NEW c \in Clients, InitiateMigration(h, c)
        PROVE  Protocol(d)'
    <3>1. Protocol(c)
      BY <1>1
    <3> QED  BY <1>1, <2>0, <2>6, <3>1, ProtocolInitiate
  <2>7. ASSUME NEW h \in Hosts, NEW q \in QDs,
               Pop(h, q) \/ PollRecv(h, q) \/ PollMigratedOut(h, q)
        PROVE  Protocol(d)'
    BY <1>1, <2>0, <2>7, ProtocolApplication
  <2> QED  BY <1>4, <1>5, <1>6, <2>1, <2>2, <2>3, <2>4, <2>5, <2>6, <2>7 DEF Next
<1> QED  BY <1>2, <1>3, <1>7, <1>8 DEF ProtocolInv

(* However many hosts, connections and overlapping migrations there are,   *)
(* no message ever reaches an entry that cannot take it, no connection is  *)
(* entered twice and no descriptor is missing: on a network that neither   *)
(* loses nor duplicates, and with an application that closes nothing, none *)
(* of the panics of tcp/peer.rs and tcpmig/peer.rs is reachable.           *)
THEOREM NoAbortInvariant ==
  ASSUME Reliable
  PROVE  Spec => []NoAbort
<1>1. Init => ProtocolInv
  BY ProtocolInit
<1>2. ProtocolInv /\ [Next]_vars => ProtocolInv'
  BY ProtocolStep
<1>3. ProtocolInv => NoAbort
  BY DEF ProtocolInv
<1> QED  BY <1>1, <1>2, <1>3, PTL DEF Spec
-----------------------------------------------------------------------------
(* Queues as sets. *)

LEMMA FlowNone ==
  ASSUME UNCHANGED inq, NEW t
  PROVE  Flow({}, t, {})
BY DEF Flow, Packets

(* A handled packet is gone. *)
LEMMA FlowConsume ==
  ASSUME TypeOK, NEW h \in Hosts, inq[h] # <<>>, Consume(h)
  PROVE  Flow({Packet1(h)}, h, {})
<1>1. \A g \in Hosts : Packets(g)' \subseteq Packets(g)
  BY NetConsume
<1>2. ASSUME NEW g \in Hosts, NEW i \in DOMAIN inq[g]
      PROVE  inq[g][i] \in Packets(g)' \cup {Packet1(h)}
  <2>1. CASE g # h
    <3>1. inq'[g] = inq[g]
      BY <2>1 DEF Consume, TypeOK
    <3> QED  BY <1>2, <3>1 DEF Packets
  <2>2. CASE g = h /\ i = 1
    <3>1. inq \in Queues
      BY DEF TypeOK, Queues
    <3> QED  BY <2>2, <3>1, HeadIsPacket
  <2>3. CASE g = h /\ i # 1
    <3>1. inq'[g] = Tail(inq[h])
      BY <2>3 DEF Consume, TypeOK
    <3>2. i - 1 \in DOMAIN Tail(inq[h]) /\ (i - 1) + 1 = i
      BY <1>2, <2>3, QueueTypes
    <3>3. Tail(inq[h])[i - 1] = inq[g][i]
      BY <2>3, <3>2, QueueTypes
    <3> QED  BY <3>1, <3>2, <3>3 DEF Packets
  <2> QED  BY <2>1, <2>2, <2>3
<1>3. \A g \in Hosts : Packets(g) \subseteq Packets(g)' \cup {Packet1(h)}
  BY <1>2 DEF Packets
<1> QED  BY <1>1, <1>3 DEF Flow

(* A packet that is sent is there, with all the others. *)
LEMMA FlowTransmit ==
  ASSUME TypeOK, NEW t \in Hosts, NEW p \in Packet, Transmit(t, p)
  PROVE  Flow({}, t, {p})
<1>1. \A g \in Hosts : Packets(g)' \subseteq Packets(g) \cup {p}
  BY NetSend
<1>2. /\ inq[t] \in Seq(Packet) /\ inq'[t] = Append(inq[t], p)
      /\ \A g \in Hosts : g # t => inq'[g] = inq[g]
  BY DEF Transmit, TypeOK
<1>3. /\ \A i \in DOMAIN inq[t] : /\ i \in DOMAIN Append(inq[t], p)
                                  /\ Append(inq[t], p)[i] = inq[t][i]
      /\ Len(inq[t]) + 1 \in DOMAIN Append(inq[t], p)
      /\ Append(inq[t], p)[Len(inq[t]) + 1] = p
  BY <1>2
<1>4. p \in Packets(t)' /\ Packets(t) \subseteq Packets(t)'
  BY <1>2, <1>3 DEF Packets
<1>5. \A g \in Hosts : Packets(g) \subseteq Packets(g)'
  BY <1>2, <1>4 DEF Packets
<1> QED  BY <1>1, <1>4, <1>5 DEF Flow

(* An answer does both. *)
LEMMA FlowReply ==
  ASSUME TypeOK, NEW h \in Hosts, inq[h] # <<>>,
         NEW t \in Hosts, NEW p \in Packet, Reply(h, t, p)
  PROVE  Flow({Packet1(h)}, t, {p})
<1>1. \A g \in Hosts : Packets(g)' \subseteq Packets(g) \cup {p}
  BY NetReply
<1>2. PICK mid : mid = [inq EXCEPT ![h] = Tail(inq[h])]
  OBVIOUS
<1>3. /\ mid \in [Hosts -> Seq(Packet)] /\ inq' = [mid EXCEPT ![t] = Append(mid[t], p)]
      /\ mid[h] = Tail(inq[h]) /\ \A g \in Hosts : g # h => mid[g] = inq[g]
  BY <1>2, QueueTypes DEF Reply, TypeOK
<1>4. /\ mid[t] \in Seq(Packet) /\ inq'[t] = Append(mid[t], p)
      /\ \A g \in Hosts : g # t => inq'[g] = mid[g]
  BY <1>3
<1>5. /\ \A i \in DOMAIN mid[t] : /\ i \in DOMAIN Append(mid[t], p)
                                  /\ Append(mid[t], p)[i] = mid[t][i]
      /\ Len(mid[t]) + 1 \in DOMAIN Append(mid[t], p)
      /\ Append(mid[t], p)[Len(mid[t]) + 1] = p
  BY <1>4
<1>6. p \in Packets(t)' /\ \A i \in DOMAIN mid[t] : mid[t][i] \in Packets(t)'
  BY <1>4, <1>5 DEF Packets
<1>7. \A g \in Hosts : \A i \in DOMAIN mid[g] : mid[g][i] \in Packets(g)'
  BY <1>4, <1>6 DEF Packets
<1>8. ASSUME NEW g \in Hosts, NEW i \in DOMAIN inq[g]
      PROVE  inq[g][i] \in Packets(g)' \cup {Packet1(h)}
  <2>1. CASE g # h
    BY <1>3, <1>7, <1>8, <2>1
  <2>2. CASE g = h /\ i = 1
    <3>1. inq \in Queues
      BY DEF TypeOK, Queues
    <3> QED  BY <2>2, <3>1, HeadIsPacket
  <2>3. CASE g = h /\ i # 1
    <3>1. i - 1 \in DOMAIN Tail(inq[h]) /\ (i - 1) + 1 = i
      BY <1>8, <2>3, QueueTypes
    <3>2. Tail(inq[h])[i - 1] = inq[g][i]
      BY <2>3, <3>1, QueueTypes
    <3> QED  BY <1>3, <1>7, <2>3, <3>1, <3>2
  <2> QED  BY <2>1, <2>2, <2>3
<1>9. \A g \in Hosts : Packets(g) \subseteq Packets(g)' \cup {Packet1(h)}
  BY <1>8 DEF Packets
<1> QED  BY <1>1, <1>6, <1>9 DEF Flow

(* A connection that joins those to be accepted ... *)
LEMMA AccepteeJoins ==
  ASSUME TypeOK, NEW h \in Hosts, NEW r,
         ready' = [ready EXCEPT ![h] = Append(ready[h], r)]
  PROVE  /\ Acceptees(h)' = Acceptees(h) \cup {r}
         /\ \A g \in Hosts : g # h => Acceptees(g)' = Acceptees(g)
<1> DEFINE E == [client: Clients, cb: CB]
<1>1. ready \in [Hosts -> Seq(E)]
  BY DEF TypeOK
<1> HIDE DEF E
<1>2. /\ ready[h] \in Seq(E) /\ ready'[h] = Append(ready[h], r)
      /\ \A g \in Hosts : g # h => ready'[g] = ready[g]
  BY <1>1
<1>3. /\ \A i \in DOMAIN ready[h] : /\ i \in DOMAIN Append(ready[h], r)
                                    /\ Append(ready[h], r)[i] = ready[h][i]
      /\ Len(ready[h]) + 1 \in DOMAIN Append(ready[h], r)
      /\ Append(ready[h], r)[Len(ready[h]) + 1] = r
      /\ \A i \in DOMAIN Append(ready[h], r) :
            i \in DOMAIN ready[h] \/ i = Len(ready[h]) + 1
  BY <1>2
<1>4. Acceptees(h)' = Acceptees(h) \cup {r}
  BY <1>2, <1>3 DEF Acceptees
<1> QED  BY <1>2, <1>4 DEF Acceptees

(* ... and one that leaves them. *)
LEMMA AccepteeLeaves ==
  ASSUME TypeOK, NEW h \in Hosts, ready[h] # <<>>,
         ready' = [ready EXCEPT ![h] = Tail(ready[h])]
  PROVE  /\ Head(ready[h]) \in Acceptees(h)
         /\ \A g \in Hosts : /\ Acceptees(g)' \subseteq Acceptees(g)
                             /\ Acceptees(g) \subseteq
                                    Acceptees(g)' \cup {Head(ready[h])}
<1> DEFINE E == [client: Clients, cb: CB]
<1>1. ready \in [Hosts -> Seq(E)]
  BY DEF TypeOK
<1> HIDE DEF E
<1>2. /\ ready[h] \in Seq(E) /\ ready'[h] = Tail(ready[h])
      /\ \A g \in Hosts : g # h => ready'[g] = ready[g]
  BY <1>1
<1>3. /\ Len(ready[h]) \in Nat /\ Len(ready[h]) > 0
      /\ DOMAIN ready[h] = 1..Len(ready[h])
      /\ Tail(ready[h]) \in Seq(E) /\ Len(Tail(ready[h])) = Len(ready[h]) - 1
      /\ DOMAIN Tail(ready[h]) = 1..(Len(ready[h]) - 1)
      /\ \A i \in 1..(Len(ready[h]) - 1) : Tail(ready[h])[i] = ready[h][i + 1]
      /\ Head(ready[h]) = ready[h][1]
  <2>1. /\ Tail(ready[h]) \in Seq(E) /\ Len(ready[h]) > 0
        /\ Len(Tail(ready[h])) = Len(ready[h]) - 1
        /\ \A i \in 1..Len(Tail(ready[h])) : Tail(ready[h])[i] = ready[h][i + 1]
        /\ Head(ready[h]) = ready[h][1]
    BY <1>2, HeadTailProperties, EmptySeq
  <2> QED  BY <1>2, <2>1
<1>4. /\ \A i \in DOMAIN Tail(ready[h]) :
            i + 1 \in DOMAIN ready[h] /\ Tail(ready[h])[i] = ready[h][i + 1]
      /\ \A i \in DOMAIN ready[h] :
            \/ i = 1
            \/ /\ i - 1 \in DOMAIN Tail(ready[h])
               /\ Tail(ready[h])[i - 1] = ready[h][i]
  BY <1>3
<1>5. /\ Acceptees(h)' \subseteq Acceptees(h)
      /\ Acceptees(h) \subseteq Acceptees(h)' \cup {Head(ready[h])}
  <2>1. Acceptees(h)' \subseteq Acceptees(h)
    BY <1>2, <1>4 DEF Acceptees
  <2>2. ASSUME NEW i \in DOMAIN ready[h]
        PROVE  ready[h][i] \in Acceptees(h)' \cup {Head(ready[h])}
    <3>1. CASE i = 1
      BY <1>3, <3>1
    <3>2. CASE i # 1
      BY <1>2, <1>4, <2>2, <3>2 DEF Acceptees
    <3> QED  BY <3>1, <3>2
  <2> QED  BY <2>1, <2>2 DEF Acceptees
<1>6. Head(ready[h]) \in Acceptees(h)
  BY <1>3 DEF Acceptees
<1>7. \A g \in Hosts : g # h => Acceptees(g)' = Acceptees(g)
  BY <1>2 DEF Acceptees
<1> QED  BY <1>5, <1>6, <1>7

-----------------------------------------------------------------------------
(* The state of a connection. *)

LEMMA CopiesAre == \A c \in Clients : Located(c)
<1> SUFFICES ASSUME NEW c \in Clients, NEW x
             PROVE  x \in Copies(c) <=>
                        \E g \in Hosts : \/ Entered(g, c, x)
                                        \/ Awaiting(g, c, x)
                                        \/ Travels(g, c, x)
  BY DEF Located
<1>1. ASSUME NEW g \in Hosts
      PROVE  /\ x \in {established[g][c]} \ {None} <=> Entered(g, c, x)
             /\ x \in {ready[g][i].cb : i \in {j \in DOMAIN ready[g] : InReady(c, g, j)}}
                    <=> Awaiting(g, c, x)
             /\ x \in {inq[g][i].cb : i \in {j \in DOMAIN inq[g] : InNet(c, g, j)}}
                    <=> Travels(g, c, x)
  <2>1. x \in {established[g][c]} \ {None} <=> Entered(g, c, x)
    BY DEF Entered, InTable
  <2>2. x \in {ready[g][i].cb : i \in {j \in DOMAIN ready[g] : InReady(c, g, j)}}
                    <=> Awaiting(g, c, x)
    BY DEF Awaiting, Acceptees, InReady
  <2>3. x \in {inq[g][i].cb : i \in {j \in DOMAIN inq[g] : InNet(c, g, j)}}
                    <=> Travels(g, c, x)
    BY DEF Travels, Packets, InNet
  <2> QED  BY <2>1, <2>2, <2>3
<1> QED  BY <1>1 DEF Copies

LEMMA CopiesAreNext == (\A c \in Clients : Located(c))'
BY CopiesAre, PTL

LEMMA StateOnce == OwnerInv => \A c \in Clients : OneState(c)
<1> SUFFICES ASSUME OwnerInv, NEW c \in Clients PROVE OneState(c)
  OBVIOUS
<1>0. /\ \A g \in Hosts : DOMAIN inq[g] \subseteq Nat /\ DOMAIN ready[g] \subseteq Nat
      /\ 0 \in Nat
  <2>1. ASSUME NEW g \in Hosts
        PROVE  DOMAIN inq[g] \subseteq Nat /\ DOMAIN ready[g] \subseteq Nat
    <3>1. inq[g] \in Seq(Packet) /\ ready[g] \in Seq([client: Clients, cb: CB])
      BY DEF OwnerInv, TypeOK
    <3> QED  BY <3>1
  <2> QED  BY <2>1
<1>1. \A k, l \in Kinds, f, e \in Hosts, i, j \in Nat :
        Holds(c, k, f, i) /\ Holds(c, l, e, j) => k = l /\ f = e /\ i = j
  BY DEF OwnerInv, OneHolder
<1>2. {"table", "ready", "net", "hand"} \subseteq Kinds
  BY DEF Kinds
<1>3. /\ \A g \in Hosts : InTable(c, g) <=> Holds(c, "table", g, 0)
      /\ \A g \in Hosts : Hands(g, c) <=> Holds(c, "hand", g, 0)
      /\ \A g \in Hosts : \A r \in Acceptees(g) : r.client = c =>
            \E i \in Nat : Holds(c, "ready", g, i) /\ ready[g][i] = r
      /\ \A g \in Hosts : \A p \in Packets(g) :
            p.client = c /\ p.type = "CONN_STATE" =>
                \E i \in Nat : Holds(c, "net", g, i) /\ inq[g][i] = p
  <2>1. \A g \in Hosts : /\ InTable(c, g) <=> Holds(c, "table", g, 0)
                         /\ Hands(g, c) <=> Holds(c, "hand", g, 0)
    BY DEF InTable, Hands, Holds
  <2>2. \A g \in Hosts : \A r \in Acceptees(g) : r.client = c =>
            \E i \in Nat : Holds(c, "ready", g, i) /\ ready[g][i] = r
    BY <1>0 DEF Acceptees, Holds
  <2>3. \A g \in Hosts : \A p \in Packets(g) :
            p.client = c /\ p.type = "CONN_STATE" =>
                \E i \in Nat : Holds(c, "net", g, i) /\ inq[g][i] = p
    BY <1>0 DEF Packets, Holds, Carries
  <2> QED  BY <2>1, <2>2, <2>3
<1>4. ASSUME NEW g \in Hosts, InTable(c, g)
      PROVE  Copies(c) = {established[g][c]} /\ Place(c) = g
  <2>1. \A h \in Hosts : InTable(c, h) => h = g
    BY <1>0, <1>1, <1>2, <1>3, <1>4
  <2>2. \A h \in Hosts : \A x : ~Awaiting(h, c, x) /\ ~Travels(h, c, x)
    BY <1>0, <1>1, <1>2, <1>3, <1>4 DEF Awaiting, Travels
  <2>3. Copies(c) = {established[g][c]}
    BY <1>4, <2>1, <2>2, CopiesAre DEF Located, Entered
  <2>4. Place(c) = g
    BY <1>4, <2>1 DEF Place
  <2> QED  BY <2>3, <2>4
<1>5. ASSUME NEW g \in Hosts, NEW r \in Acceptees(g), r.client = c
      PROVE  Copies(c) = {r.cb} /\ \A h \in Hosts : ~InTable(c, h)
  <2>1. PICK i \in Nat : Holds(c, "ready", g, i) /\ ready[g][i] = r
    BY <1>3, <1>5
  <2>2. \A h \in Hosts : \A x : ~InTable(c, h) /\ ~Travels(h, c, x)
    BY <1>0, <1>1, <1>2, <1>3, <2>1 DEF Travels
  <2>3. \A h \in Hosts : \A x : Awaiting(h, c, x) => x = r.cb
    BY <1>1, <1>2, <1>3, <2>1 DEF Awaiting
  <2>4. Awaiting(g, c, r.cb)
    BY <1>5 DEF Awaiting
  <2> QED  BY <2>2, <2>3, <2>4, CopiesAre DEF Located, Entered
<1>6. ASSUME NEW g \in Hosts, NEW p \in Packets(g), p.client = c, p.type = "CONN_STATE"
      PROVE  Copies(c) = {p.cb} /\ \A h \in Hosts : ~InTable(c, h)
  <2>1. PICK i \in Nat : Holds(c, "net", g, i) /\ inq[g][i] = p
    BY <1>3, <1>6
  <2>2. \A h \in Hosts : \A x : ~InTable(c, h) /\ ~Awaiting(h, c, x)
    BY <1>0, <1>1, <1>2, <1>3, <2>1 DEF Awaiting
  <2>3. \A h \in Hosts : \A x : Travels(h, c, x) => x = p.cb
    BY <1>1, <1>2, <1>3, <2>1 DEF Travels
  <2>4. Travels(g, c, p.cb)
    BY <1>6 DEF Travels
  <2> QED  BY <2>2, <2>3, <2>4, CopiesAre DEF Located, Entered
<1>7. ASSUME NEW g \in Hosts, Hands(g, c)
      PROVE  Copies(c) = {} /\ \A h \in Hosts : ~InTable(c, h)
  <2>1. \A h \in Hosts : \A x : /\ ~InTable(c, h) /\ ~Awaiting(h, c, x)
                            /\ ~Travels(h, c, x)
    BY <1>0, <1>1, <1>2, <1>3, <1>7 DEF Awaiting, Travels
  <2> QED  BY <2>1, CopiesAre DEF Located, Entered
<1>8. (\A g \in Hosts : ~InTable(c, g)) =>
            Place(c) = IF Copies(c) = {} THEN "none" ELSE "moving"
  BY DEF Place
<1> QED  BY <1>4, <1>5, <1>6, <1>7, <1>8 DEF OneState

LEMMA StateOnceNext == (OwnerInv => \A c \in Clients : OneState(c))'
BY StateOnce, PTL

-----------------------------------------------------------------------------
(* What each step does to the state of the connections. *)

LEMMA Untouched ==
  ASSUME OwnerInv, OwnerInv', NEW d \in Clients, Still(d),
         \A g \in Hosts : established'[g][d] = established[g][d],
         \A g \in Hosts : \A r : r.client = d =>
                (r \in Acceptees(g)' <=> r \in Acceptees(g))
  PROVE  Same(d)
<1>1. ASSUME NEW g \in Hosts, NEW x
      PROVE  /\ Entered(g, d, x)' <=> Entered(g, d, x)
             /\ Awaiting(g, d, x)' <=> Awaiting(g, d, x)
             /\ Travels(g, d, x)' <=> Travels(g, d, x)
  <2>1. Entered(g, d, x)' <=> Entered(g, d, x)
    BY DEF Entered, InTable
  <2>2. Awaiting(g, d, x)' <=> Awaiting(g, d, x)
    BY DEF Awaiting
  <2>3. Travels(g, d, x)' <=> Travels(g, d, x)
    <3>1. PICK out, t, in : /\ Flow(out, t, in)
                            /\ \A p \in out \cup in :
                                    p.client = d => p.type # "CONN_STATE"
      BY DEF Still
    <3>2. \A p : p.client = d /\ p.type = "CONN_STATE" =>
                (p \in Packets(g)' <=> p \in Packets(g))
      BY <3>1 DEF Flow
    <3> QED  BY <3>2 DEF Travels
  <2> QED  BY <2>1, <2>2, <2>3
<1>2. ASSUME NEW x PROVE x \in Copies(d)' <=> x \in Copies(d)
  <2>1. Located(d) /\ Located(d)'
    BY CopiesAre, CopiesAreNext
  <2> QED  BY <1>1, <2>1 DEF Located
<1>3. Copies(d)' = Copies(d)
  BY <1>2
<1>4. OneState(d) /\ OneState(d)'
  BY StateOnce, StateOnceNext
<1>5. \A g \in Hosts : InTable(d, g)' <=> InTable(d, g)
  BY DEF InTable
<1>6. Place(d)' = Place(d)
  <2>1. CASE \E g \in Hosts : InTable(d, g)
    BY <1>4, <1>5, <2>1 DEF OneState
  <2>2. CASE \A g \in Hosts : ~InTable(d, g)
    BY <1>3, <1>4, <1>5, <2>2 DEF OneState
  <2> QED  BY <2>1, <2>2
<1> QED  BY <1>3, <1>6 DEF Same

(* Nothing happens to any of them ... *)
LEMMA NothingMoves ==
  ASSUME OwnerInv, OwnerInv', UNCHANGED <<established, ready>>,
         \A d \in Clients : Still(d)
  PROVE  \A d \in Clients : Same(d)
BY Untouched DEF Acceptees

(* ... or one of them is updated where it is. *)
LEMMA UpdatedInPlace ==
  ASSUME OwnerInv, OwnerInv', NEW h \in Hosts, NEW c \in Clients, NEW y \in CB,
         established[h][c] # None,
         established' = [established EXCEPT ![h][c] = y], UNCHANGED ready,
         \A d \in Clients : Still(d)
  PROVE  Becomes(c, established[h][c], h, y, h) /\ Others(c)
<1>0. TypeOK
  BY DEF OwnerInv
<1>1. \A g \in Hosts, d \in Clients :
          established'[g][d] = IF g = h /\ d = c THEN y ELSE established[g][d]
  BY <1>0, TableTypes
<1>2. \A d \in Clients \ {c} : Same(d)
  <2>1. ASSUME NEW d \in Clients \ {c} PROVE Same(d)
    <3>1. \A g \in Hosts : established'[g][d] = established[g][d]
      BY <1>1, <2>1
    <3> QED  BY <3>1, Untouched DEF Acceptees
  <2> QED  BY <2>1
<1>3. InTable(c, h) /\ InTable(c, h)' /\ established'[h][c] = y
  BY <1>1, NoneAssumption DEF InTable
<1>4. OneState(c) /\ OneState(c)'
  BY StateOnce, StateOnceNext
<1> QED  BY <1>2, <1>3, <1>4 DEF Becomes, Others, OneState

(* What a host reads, or sends, that is no state. *)
LEMMA StillFlows ==
  ASSUME TypeOK, NEW d \in Clients
  PROVE  /\ UNCHANGED inq => Still(d)
         /\ \A t \in Hosts, p \in Packet :
                Transmit(t, p) /\ (p.client = d => p.type # "CONN_STATE") => Still(d)
         /\ \A h \in Hosts :
                /\ inq[h] # <<>>
                /\ Packet1(h).client = d => Packet1(h).type # "CONN_STATE"
                => /\ Consume(h) => Still(d)
                   /\ \A t \in Hosts, p \in Packet :
                        /\ Reply(h, t, p)
                        /\ p.client = d => p.type # "CONN_STATE"
                        => Still(d)
<1>1. ASSUME UNCHANGED inq PROVE Still(d)
  BY <1>1, FlowNone DEF Still
<1>2. ASSUME NEW t \in Hosts, NEW p \in Packet, Transmit(t, p),
             p.client = d => p.type # "CONN_STATE"
      PROVE  Still(d)
  <2>1. Flow({}, t, {p})
    BY <1>2, FlowTransmit
  <2> QED  BY <1>2, <2>1 DEF Still
<1>3. ASSUME NEW h \in Hosts, inq[h] # <<>>, Consume(h),
             Packet1(h).client = d => Packet1(h).type # "CONN_STATE"
      PROVE  Still(d)
  <2>1. PICK o : o = Packet1(h)
    OBVIOUS
  <2>2. Flow({o}, h, {})
    BY <1>3, <2>1, FlowConsume
  <2> QED  BY <1>3, <2>1, <2>2 DEF Still
<1>4. ASSUME NEW h \in Hosts, inq[h] # <<>>, NEW t \in Hosts, NEW p \in Packet,
             Reply(h, t, p), p.client = d => p.type # "CONN_STATE",
             Packet1(h).client = d => Packet1(h).type # "CONN_STATE"
      PROVE  Still(d)
  <2>1. PICK o : o = Packet1(h)
    OBVIOUS
  <2>2. Flow({o}, t, {p})
    BY <1>4, <2>1, FlowReply
  <2> QED  BY <1>4, <2>1, <2>2 DEF Still
<1> QED  BY <1>1, <1>2, <1>3, <1>4

-----------------------------------------------------------------------------
(* The actions, one by one. *)

(* What a client sends is a segment. *)
LEMMA ClientSegment ==
  ASSUME TypeOK, NEW c \in Clients, Client(c)
  PROVE  \E t \in Hosts, p \in Packet :
            /\ p.client = c /\ p.type \in {"SYN", "DATA"} /\ Transmit(t, p)
<1>1. /\ \A n \in Segs : /\ Data(c, n) \in Packet /\ Data(c, n).client = c
                         /\ Data(c, n).type = "DATA"
      /\ Syn(c) \in Packet /\ Syn(c).client = c /\ Syn(c).type = "SYN"
      /\ owner[c] \in Hosts /\ 0 \in Segs
  <2>1. owner[c] \in Hosts /\ 0 \in Segs
    BY BoundsAssumption DEF Segs, TypeOK
  <2>2. PICK g \in Hosts : TRUE
    BY <2>1
  <2>3. Syn(c) \in Packet /\ \A n \in Segs : Data(c, n) \in Packet
    BY <2>2, MessageTypes
  <2> QED  BY <2>1, <2>3 DEF Data, Syn
<1>2. CASE ClientConnect(c)
  BY <1>1, <1>2 DEF ClientConnect
<1>3. CASE ClientEstablish(c)
  BY <1>1, <1>3 DEF ClientEstablish
<1>4. CASE ClientSend(c)
  <2>1. sent[c] + 1 \in Segs
    BY <1>4, BoundsAssumption DEF ClientSend, Segs, TypeOK
  <2> QED  BY <1>1, <1>4, <2>1 DEF ClientSend
<1>5. CASE ClientRetransmit(c)
  <2>1. PICK n \in dropped[c] :
            Transmit(owner[c],
                     IF conn[c] = "syn_sent" THEN Syn(c) ELSE Data(c, n))
    BY <1>5 DEF ClientRetransmit
  <2>2. n \in Segs
    BY DEF TypeOK
  <2> QED  BY <1>1, <2>1, <2>2
<1> QED  BY <1>2, <1>3, <1>4, <1>5 DEF Client

(* Steps that touch neither a control block nor a message with one. *)
LEMMA StateRests ==
  ASSUME OwnerInv, OwnerInv',
         \/ UNCHANGED vars
         \/ \E c \in Clients : Client(c)
         \/ \E h \in Hosts : RxBuffered(h) \/ RxPrepare(h) \/ RxConnStateAck(h)
                             \/ Accept(h) \/ Abort(h)
         \/ \E h \in Hosts, q \in QDs : Pop(h, q) \/ PollMigratedOut(h, q) \/ Close(h, q)
  PROVE  Rests
<1>0. TypeOK
  BY DEF OwnerInv
<1>1. CASE UNCHANGED vars
  <2>1. \A d \in Clients : Still(d)
    BY <1>0, <1>1, StillFlows DEF vars
  <2> QED  BY <1>1, <2>1, NothingMoves DEF vars, listenVars, tableVars, Rests
<1>2. ASSUME NEW c \in Clients, Client(c) PROVE Rests
  <2>1. PICK t \in Hosts, p \in Packet : p.type \in {"SYN", "DATA"} /\ Transmit(t, p)
    BY <1>0, <1>2, ClientSegment
  <2>2. \A d \in Clients : Still(d)
    BY <1>0, <2>1, StillFlows
  <2>3. UNCHANGED <<established, ready>>
    BY <1>2 DEF Client, ClientConnect, ClientEstablish, ClientSend,
                ClientRetransmit, listenVars, tableVars
  <2> QED  BY <2>2, <2>3, NothingMoves DEF Rests
<1>3. ASSUME NEW h \in Hosts, RxBuffered(h) \/ RxConnStateAck(h) PROVE Rests
  <2>1. /\ inq[h] # <<>> /\ Consume(h)
        /\ Packet1(h).type \in {"SYN", "DATA", "CONN_STATE_ACK"}
        /\ UNCHANGED <<established, ready>>
    BY <1>3 DEF RxBuffered, RxConnStateAck, Received, listenVars, tableVars
  <2>2. \A d \in Clients : Still(d)
    BY <1>0, <2>1, StillFlows
  <2> QED  BY <2>1, <2>2, NothingMoves DEF Rests
<1>4. ASSUME NEW h \in Hosts, RxPrepare(h) PROVE Rests
  <2>1. PICK o, p : /\ o = Packet1(h).src
                    /\ p = PrepareAck(Packet1(h).client, h) /\ Reply(h, o, p)
    BY <1>4 DEF RxPrepare
  <2>2. /\ inq[h] # <<>> /\ Packet1(h).type = "PREPARE"
        /\ UNCHANGED <<established, ready>>
    BY <1>4 DEF RxPrepare, Received, listenVars, tableVars
  <2>3. o \in Hosts /\ Packet1(h).client \in Clients
    BY <1>0, <2>1, <2>2, HeadMsg, PacketTypes DEF TcpMigTypes
  <2>4. p \in Packet /\ p.type = "PREPARE_ACK"
    BY <2>1, <2>3, MessageTypes DEF PrepareAck
  <2>5. \A d \in Clients : Still(d)
    BY <1>0, <2>1, <2>2, <2>3, <2>4, StillFlows
  <2> QED  BY <2>2, <2>5, NothingMoves DEF Rests
<1>5. ASSUME NEW h \in Hosts, Accept(h) \/ Abort(h) PROVE Rests
  <2>1. UNCHANGED <<inq, established, ready>>
    BY <1>5 DEF Accept, Abort, listenVars, tableVars
  <2>2. \A d \in Clients : Still(d)
    BY <1>0, <2>1, StillFlows
  <2> QED  BY <2>1, <2>2, NothingMoves DEF Rests
<1>6. ASSUME NEW h \in Hosts, NEW q \in QDs,
             Pop(h, q) \/ PollMigratedOut(h, q) \/ Close(h, q)
      PROVE  Rests
  <2>1. UNCHANGED <<inq, established, ready>>
    BY <1>6 DEF Pop, PollMigratedOut, Close, listenVars, tableVars
  <2>2. \A d \in Clients : Still(d)
    BY <1>0, <2>1, StillFlows
  <2> QED  BY <2>1, <2>2, NothingMoves DEF Rests
<1> QED  BY <1>1, <1>2, <1>3, <1>4, <1>5, <1>6

(* A segment is received where the connection is in the tables. *)
LEMMA StateTakes ==
  ASSUME OwnerInv, OwnerInv', NEW h \in Hosts, RxEstablished(h)
  PROVE  Takes(h, Packet1(h).client) /\ Packet1(h).client \in Clients
<1>0. TypeOK
  BY DEF OwnerInv
<1>1. PICK c, n : c = Packet1(h).client /\ n = Packet1(h).seq
  OBVIOUS
<1>2. /\ inq[h] # <<>> /\ Consume(h) /\ Packet1(h).type \in {"SYN", "DATA"}
      /\ established[h][c] # None /\ UNCHANGED ready
      /\ established' = [established EXCEPT ![h][c] = CbReceive(@, n)]
  BY <1>1 DEF RxEstablished, Received, listenVars
<1>3. c \in Clients /\ n \in Segs
  BY <1>0, <1>1, <1>2, HeadMsg, PacketTypes
<1>4. PICK x \in CB, y \in CB : x = established[h][c] /\ y = CbReceive(x, n)
  <2>1. established[h][c] \in CB
    BY <1>0, <1>2, <1>3, TableTypes
  <2> QED  BY <1>3, <2>1, CBTypes
<1>5. established' = [established EXCEPT ![h][c] = y]
  BY <1>0, <1>2, <1>3, <1>4, TableTypes
<1>6. \A d \in Clients : Still(d)
  BY <1>0, <1>2, StillFlows
<1>7. Becomes(c, x, h, y, h) /\ Others(c)
  BY <1>2, <1>3, <1>4, <1>5, <1>6, UpdatedInPlace
<1> QED  BY <1>1, <1>3, <1>4, <1>7 DEF Takes

(* A migration begins, or begins once more: the statistics let go. *)
LEMMA StateUntracks ==
  ASSUME OwnerInv, OwnerInv', NEW h \in Hosts,
         RxReturned(h) \/ \E c \in Clients : InitiateMigration(h, c)
  PROVE  \E c \in Clients : Untracks(h, c)
<1>0. TypeOK
  BY DEF OwnerInv
<1>1. \E c \in Clients :
        /\ established[h][c] # None /\ UNCHANGED ready
        /\ established' = [established EXCEPT ![h][c].tracked = FALSE]
        /\ \A d \in Clients : Still(d)
  <2>1. ASSUME RxReturned(h)
        PROVE  \E c \in Clients :
                  /\ established[h][c] # None /\ UNCHANGED ready
                  /\ established' = [established EXCEPT ![h][c].tracked = FALSE]
                  /\ \A d \in Clients : Still(d)
    <3>1. PICK c, p : c = Packet1(h).client /\ p = Prepare(c, h)
      OBVIOUS
    <3>2. /\ inq[h] # <<>> /\ Packet1(h).type = "PREPARE"
          /\ established[h][c] # None /\ UNCHANGED ready
          /\ established' = [established EXCEPT ![h][c].tracked = FALSE]
          /\ \E t \in Hosts : Reply(h, t, p)
      BY <2>1, <3>1 DEF RxReturned, Received, listenVars
    <3>3. c \in Clients
      BY <1>0, <3>1, <3>2, HeadMsg, PacketTypes
    <3>4. p \in Packet /\ p.type = "PREPARE"
      BY <3>1, <3>3, MessageTypes DEF Prepare
    <3>5. \A d \in Clients : Still(d)
      BY <1>0, <3>2, <3>4, StillFlows
    <3> QED  BY <3>2, <3>3, <3>5
  <2>2. ASSUME NEW c \in Clients, InitiateMigration(h, c)
        PROVE  /\ established[h][c] # None /\ UNCHANGED ready
               /\ established' = [established EXCEPT ![h][c].tracked = FALSE]
               /\ \A d \in Clients : Still(d)
    <3>1. PICK p : p = Prepare(c, h)
      OBVIOUS
    <3>2. /\ established[h][c] # None /\ UNCHANGED ready
          /\ established' = [established EXCEPT ![h][c].tracked = FALSE]
          /\ \E t \in Hosts : Transmit(t, p)
      BY <2>2, <3>1 DEF InitiateMigration, listenVars
    <3>3. p \in Packet /\ p.type = "PREPARE"
      BY <3>1, MessageTypes DEF Prepare
    <3>4. \A d \in Clients : Still(d)
      BY <1>0, <3>2, <3>3, StillFlows
    <3> QED  BY <3>2, <3>4
  <2> QED  BY <2>1, <2>2
<1>2. PICK c \in Clients :
        /\ established[h][c] # None /\ UNCHANGED ready
        /\ established' = [established EXCEPT ![h][c].tracked = FALSE]
        /\ \A d \in Clients : Still(d)
  BY <1>1
<1>3. PICK x \in CB, y \in CB : /\ x = established[h][c]
                                /\ y = [x EXCEPT !.tracked = FALSE]
  <2>1. established[h][c] \in CB
    BY <1>0, <1>2, TableTypes
  <2> QED  BY <2>1, CBTypes
<1>4. established' = [established EXCEPT ![h][c] = y]
  BY <1>0, <1>2, <1>3, TableTypes
<1>5. Becomes(c, x, h, y, h) /\ Others(c)
  BY <1>2, <1>3, <1>4, UpdatedInPlace
<1> QED  BY <1>3, <1>5 DEF Untracks

(* The application reads a segment, or finds none. *)
LEMMA StateRead ==
  ASSUME OwnerInv, OwnerInv', NEW h \in Hosts, NEW q \in QDs, PollRecv(h, q)
  PROVE  \/ Rests /\ UNCHANGED delivered
         \/ \E c \in Clients : /\ ReadsNext(h, c)
                               /\ delivered' = [delivered EXCEPT ![c] = @ + 1]
<1>0. TypeOK
  BY DEF OwnerInv
<1>1. PICK c, x, n : /\ c = sockets[h][q].client /\ x = established[h][c]
                     /\ n = x.read + 1
  OBVIOUS
<1>2. /\ sockets[h][q] # None /\ x # None /\ UNCHANGED <<inq, ready>>
      /\ \/ /\ n \in x.got
            /\ established' = [established EXCEPT ![h][c].read = n]
            /\ delivered' = [delivered EXCEPT ![c] = @ + 1]
         \/ UNCHANGED <<established, delivered>>
  BY <1>1, Zenon DEF PollRecv, listenVars
<1>3. c \in Clients
  BY <1>0, <1>1, <1>2, SocketTypes
<1>4. \A d \in Clients : Still(d)
  BY <1>0, <1>2, StillFlows
<1>5. CASE UNCHANGED <<established, delivered>>
  BY <1>2, <1>4, <1>5, NothingMoves DEF Rests
<1>6. CASE /\ n \in x.got
           /\ established' = [established EXCEPT ![h][c].read = n]
           /\ delivered' = [delivered EXCEPT ![c] = @ + 1]
  <2>1. x \in CB
    BY <1>0, <1>1, <1>2, <1>3, TableTypes
  <2>2. PICK y \in CB : y = [x EXCEPT !.read = n]
    BY <1>6, <2>1, CBTypes
  <2>3. established' = [established EXCEPT ![h][c] = y]
    BY <1>0, <1>1, <1>3, <1>6, <2>2, TableTypes
  <2>4. Becomes(c, x, h, y, h) /\ Others(c)
    BY <1>1, <1>2, <1>3, <1>4, <2>3, UpdatedInPlace
  <2> QED  BY <1>1, <1>3, <1>6, <2>1, <2>2, <2>4 DEF ReadsNext
<1> QED  BY <1>2, <1>5, <1>6

(* A connection leaves the tables in the step that sends its state. *)
LEMMA StateLeaves ==
  ASSUME OwnerInv, OwnerInv', NEW h \in Hosts, RxPrepareAck(h)
  PROVE  \E c \in Clients : Leaves(h, c)
<1>0. TypeOK
  BY DEF OwnerInv
<1>1. PICK c, e, q : /\ c = MigrateOutConn(h, Packet1(h))
                     /\ e = Packet1(h).client /\ q = active[h][e].qd
  OBVIOUS
<1>2. /\ inq[h] # <<>> /\ Packet1(h).type = "PREPARE_ACK"
      /\ active[h][e] # None /\ established[h][c] # None
      /\ q # None /\ sockets[h][q] # None /\ UNCHANGED ready
      /\ established' = [established EXCEPT ![h][c] = None]
  BY <1>1 DEF RxPrepareAck, CanMigrateOut, MigrateOut, Received, listenVars
<1>3. e \in Clients /\ Packet1(h).src \in Hosts
  BY <1>0, <1>1, <1>2, HeadMsg, PacketTypes DEF TcpMigTypes
<1>4. c \in Clients
  <2>1. active[h][e] \in Migration
    BY <1>0, <1>2, <1>3, TableTypes
  <2>2. q \in QDs
    BY <1>1, <1>2, <2>1, MigrationTypes
  <2> QED  BY <1>0, <1>1, <1>2, <2>2, SocketTypes DEF MigrateOutConn
<1>5. PICK x \in CB, y \in CB : x = established[h][c] /\ y = Serialized(x)
  <2>1. established[h][c] \in CB
    BY <1>0, <1>2, <1>4, TableTypes
  <2> QED  BY <2>1, CBTypes
<1>6. PICK p \in Packet : /\ p = ConnState(c, h, y) /\ p.client = c
                          /\ p.type = "CONN_STATE" /\ p.cb = y
  BY <1>4, <1>5, MessageTypes DEF ConnState
<1>7. PICK t \in Hosts : Reply(h, t, p)
  <2>1. \E t \in IF c = e THEN {Packet1(h).src} ELSE Hosts \ {h} : Reply(h, t, p)
    BY <1>1, <1>5, <1>6 DEF RxPrepareAck
  <2> QED  BY <1>3, <2>1
<1>8. \A g \in Hosts, d \in Clients :
          established'[g][d] = IF g = h /\ d = c THEN None ELSE established[g][d]
  BY <1>0, <1>2, <1>4, TableTypes
<1>9. Others(c)
  <2>1. ASSUME NEW d \in Clients \ {c} PROVE Same(d)
    <3>1. Still(d)
      BY <1>0, <1>2, <1>6, <1>7, <2>1, StillFlows
    <3>2. \A g \in Hosts : established'[g][d] = established[g][d]
      BY <1>8, <2>1
    <3> QED  BY <1>2, <3>1, <3>2, Untouched DEF Acceptees
  <2> QED  BY <2>1 DEF Others
<1>10. Copies(c) = {x} /\ Place(c) = h
  <2>1. OneState(c) /\ InTable(c, h)
    BY <1>2, <1>4, StateOnce DEF InTable
  <2> QED  BY <1>5, <2>1 DEF OneState
<1>11. Copies(c)' = {y} /\ Place(c)' = "moving"
  <2>1. p \in Packets(t)'
    <3>1. Flow({Packet1(h)}, t, {p})
      BY <1>0, <1>2, <1>7, FlowReply
    <3> QED  BY <3>1 DEF Flow
  <2>2. OneState(c)'
    BY <1>4, StateOnceNext
  <2> QED  BY <1>6, <2>1, <2>2 DEF OneState
<1> QED  BY <1>4, <1>5, <1>9, <1>10, <1>11 DEF Leaves, Becomes

(* Its state arrives, and waits to be accepted. *)
LEMMA StateArrives ==
  ASSUME OwnerInv, OwnerInv', NEW h \in Hosts, RxConnState(h)
  PROVE  Rests
<1>0. TypeOK
  BY DEF OwnerInv
<1>1. PICK m, c, o, r : /\ m = Packet1(h) /\ c = m.client /\ o = m.src
                        /\ r = [client |-> c, cb |-> m.cb]
  OBVIOUS
<1>2. /\ inq[h] # <<>> /\ m.type = "CONN_STATE" /\ UNCHANGED established
      /\ ready' = [ready EXCEPT ![h] = Append(ready[h], r)]
      /\ Reply(h, o, ConnStateAck(c, h))
  BY <1>1 DEF RxConnState, Received, tableVars
<1>3. /\ c \in Clients /\ o \in Hosts /\ m \in Packets(h)
      /\ r.client = c /\ r.cb = m.cb
  <2>1. c \in Clients /\ o \in Hosts /\ r.client = c /\ r.cb = m.cb
    BY <1>0, <1>1, <1>2, HeadMsg, PacketTypes DEF TcpMigTypes
  <2>2. inq \in Queues
    BY <1>0 DEF TypeOK, Queues
  <2> QED  BY <1>1, <1>2, <2>1, <2>2, HeadIsPacket DEF Packets
<1>4. PICK p \in Packet : /\ p = ConnStateAck(c, h)
                          /\ p.client = c /\ p.type = "CONN_STATE_ACK"
  BY <1>3, MessageTypes DEF ConnStateAck
<1>5. /\ Acceptees(h)' = Acceptees(h) \cup {r}
      /\ \A g \in Hosts : g # h => Acceptees(g)' = Acceptees(g)
  BY <1>0, <1>2, AccepteeJoins
<1>6. ASSUME NEW d \in Clients \ {c} PROVE Same(d)
  <2>1. Still(d)
    BY <1>0, <1>1, <1>2, <1>3, <1>4, <1>6, StillFlows
  <2>2. \A g \in Hosts : \A s : s.client = d =>
                (s \in Acceptees(g)' <=> s \in Acceptees(g))
    BY <1>3, <1>5, <1>6
  <2> QED  BY <1>2, <2>1, <2>2, Untouched
<1>7. Same(c)
  <2>1. OneState(c) /\ OneState(c)'
    BY <1>3, StateOnce, StateOnceNext
  <2>2. Copies(c) = {m.cb} /\ Place(c) = "moving"
    BY <1>1, <1>2, <1>3, <2>1 DEF OneState
  <2>3. Copies(c)' = {m.cb} /\ Place(c)' = "moving"
    BY <1>3, <1>5, <2>1 DEF OneState
  <2> QED  BY <2>2, <2>3 DEF Same
<1> QED  BY <1>6, <1>7 DEF Rests

(* It is accepted, with the segments its migration buffered. *)
LEMMA StateEnters ==
  ASSUME OwnerInv, OwnerInv', NEW h \in Hosts, PollAccept(h)
  PROVE  \E c \in Clients : Enters(h, c)
<1>0. TypeOK
  BY DEF OwnerInv
<1>1. PICK c, x, buf : /\ c = Head(ready[h]).client /\ x = Head(ready[h]).cb
                       /\ buf = IF active[h][c] = None THEN <<>>
                                                       ELSE active[h][c].buf
  OBVIOUS
<1>2. PICK y : y = [CbReplay(x, buf) EXCEPT !.tracked = TRUE]
  OBVIOUS
<1>3. /\ ready[h] # <<>> /\ ready' = [ready EXCEPT ![h] = Tail(ready[h])]
      /\ UNCHANGED inq /\ established' = [established EXCEPT ![h][c] = y]
  BY <1>1, <1>2 DEF PollAccept, Acceptor
<1>4. c \in Clients /\ x \in CB /\ buf \in Seq(Segment)
  <2>1. c \in Clients /\ x \in CB
    BY <1>0, <1>1, <1>3, ReadyHead
  <2>2. active[h][c] \in Migration \cup {None}
    BY <1>0, <2>1, TableTypes
  <2> QED  BY <1>1, <2>1, <2>2, MigrationTypes, EmptySeq
<1>5. y \in CB
  BY <1>2, <1>4, CBTypes
<1>6. \A g \in Hosts, d \in Clients :
          established'[g][d] = IF g = h /\ d = c THEN y ELSE established[g][d]
  BY <1>0, <1>3, <1>4, TableTypes
<1>7. PICK r : r = Head(ready[h])
  OBVIOUS
<1>8. /\ r \in Acceptees(h) /\ r.client = c /\ r.cb = x
      /\ \A g \in Hosts : /\ Acceptees(g)' \subseteq Acceptees(g)
                          /\ Acceptees(g) \subseteq Acceptees(g)' \cup {r}
  BY <1>0, <1>1, <1>3, <1>7, AccepteeLeaves
<1>9. Others(c)
  <2>1. ASSUME NEW d \in Clients \ {c} PROVE Same(d)
    <3>1. Still(d)
      BY <1>0, <1>3, StillFlows
    <3>2. /\ \A g \in Hosts : established'[g][d] = established[g][d]
          /\ \A g \in Hosts : \A s : s.client = d =>
                (s \in Acceptees(g)' <=> s \in Acceptees(g))
      BY <1>6, <1>8, <2>1
    <3> QED  BY <3>1, <3>2, Untouched
  <2> QED  BY <2>1 DEF Others
<1>10. OneState(c) /\ OneState(c)'
  BY <1>4, StateOnce, StateOnceNext
<1>11. Copies(c) = {x} /\ Place(c) = "moving"
  BY <1>8, <1>10 DEF OneState
<1>12. Copies(c)' = {y} /\ Place(c)' = h
  <2>1. InTable(c, h)' /\ established'[h][c] = y
    BY <1>4, <1>5, <1>6, NoneAssumption DEF InTable
  <2> QED  BY <1>10, <2>1 DEF OneState
<1> QED  BY <1>2, <1>4, <1>9, <1>11, <1>12 DEF Enters, Becomes

(* A handshake completes, and makes the state of a connection; or the      *)
(* listening socket does something else.                                   *)
LEMMA StateOpens ==
  ASSUME OwnerInv, OwnerInv', NEW h \in Hosts, RxPassive(h)
  PROVE  \/ Rests
         \/ \E c \in Clients : Hands(h, c) /\ Opens(c)
<1>0. TypeOK
  BY DEF OwnerInv
<1>1. PICK p, c, r : /\ p = Packet1(h) /\ c = p.client
                     /\ r = [client |-> c, cb |-> NewCB]
  OBVIOUS
<1>2. /\ inq[h] # <<>> /\ Consume(h) /\ p.type \in {"SYN", "DATA"}
      /\ UNCHANGED established
      /\ \/ UNCHANGED ready
         \/ /\ Hands(h, c)
            /\ ready' = [ready EXCEPT ![h] = Append(ready[h], r)]
  BY <1>1, Zenon DEF RxPassive, Received, Completes, Hands, listenVars, tableVars
<1>3. c \in Clients /\ r.client = c /\ r.cb = NewCB
  BY <1>0, <1>1, <1>2, HeadMsg, PacketTypes
<1>4. \A d \in Clients : Still(d)
  BY <1>0, <1>1, <1>2, StillFlows
<1>5. CASE UNCHANGED ready
  BY <1>2, <1>4, <1>5, NothingMoves DEF Rests
<1>6. CASE Hands(h, c) /\ ready' = [ready EXCEPT ![h] = Append(ready[h], r)]
  <2>1. /\ Acceptees(h)' = Acceptees(h) \cup {r}
        /\ \A g \in Hosts : g # h => Acceptees(g)' = Acceptees(g)
    BY <1>0, <1>6, AccepteeJoins
  <2>2. Others(c)
    <3>1. ASSUME NEW d \in Clients \ {c} PROVE Same(d)
      <4>1. \A g \in Hosts : \A s : s.client = d =>
                (s \in Acceptees(g)' <=> s \in Acceptees(g))
        BY <1>3, <2>1, <3>1
      <4> QED  BY <1>2, <1>4, <4>1, Untouched
    <3> QED  BY <3>1 DEF Others
  <2>3. OneState(c) /\ OneState(c)'
    BY <1>3, StateOnce, StateOnceNext
  <2>4. Copies(c) = {} /\ Place(c) = "none"
    BY <1>6, <2>3 DEF OneState
  <2>5. Copies(c)' = {NewCB} /\ Place(c)' = "moving"
    BY <1>3, <2>1, <2>3 DEF OneState
  <2> QED  BY <1>3, <1>6, <2>2, <2>4, <2>5 DEF Opens
<1> QED  BY <1>2, <1>5, <1>6

(* A packet is lost, or refused: at most a state is gone. *)
LEMMA StateGone ==
  ASSUME TypeOK, NEW h \in Hosts, Lose(h) \/ RxUnexpected(h)
  PROVE  \A d \in Clients : Copies(d)' \subseteq Copies(d)
<1>1. inq[h] # <<>> /\ Consume(h) /\ UNCHANGED <<established, ready>>
  BY DEF Lose, RxUnexpected, Received, listenVars, tableVars
<1>2. \A g \in Hosts : Packets(g)' \subseteq Packets(g)
  BY <1>1, NetConsume
<1>3. ASSUME NEW d \in Clients, NEW x, x \in Copies(d)' PROVE x \in Copies(d)
  <2>1. Located(d) /\ Located(d)'
    BY CopiesAre, CopiesAreNext
  <2>2. PICK g \in Hosts : \/ Entered(g, d, x)' \/ Awaiting(g, d, x)'
                           \/ Travels(g, d, x)'
    BY <1>3, <2>1 DEF Located
  <2>3. Entered(g, d, x) \/ Awaiting(g, d, x) \/ Travels(g, d, x)
    BY <1>1, <1>2, <2>2 DEF Entered, InTable, Awaiting, Acceptees, Travels
  <2> QED  BY <2>1, <2>3 DEF Located
<1> QED  BY <1>3

(* All steps of a network that duplicates nothing. *)
LEMMA StateStep ==
  ASSUME MaxDup = 0, OwnerInv, [Next]_vars
  PROVE  /\ OwnerInv'
         /\ \/ /\ UNCHANGED delivered
               /\ \/ Rests
                  \/ \E h \in Hosts, c \in Clients :
                        Takes(h, c) \/ Untracks(h, c) \/ Leaves(h, c) \/ Enters(h, c)
                  \/ \E h \in Hosts, c \in Clients : Hands(h, c) /\ Opens(c)
            \/ \E h \in Hosts, c \in Clients :
                    ReadsNext(h, c) /\ delivered' = [delivered EXCEPT ![c] = @ + 1]
            \/ \E h \in Hosts : /\ Lose(h) \/ RxUnexpected(h)
                                /\ UNCHANGED delivered
                                /\ \A d \in Clients : Copies(d)' \subseteq Copies(d)
<1>0. OwnerInv' /\ TypeOK
  BY OwnerStep DEF OwnerInv
<1>1. \A h \in Hosts : ~Duplicate(h)
  BY <1>0 DEF Duplicate, TypeOK, Budget
<1>2. CASE UNCHANGED vars
  BY <1>0, <1>2, StateRests DEF vars
<1>3. ASSUME NEW c \in Clients, Client(c) PROVE Rests /\ UNCHANGED delivered
  BY <1>0, <1>3, StateRests
     DEF Client, ClientConnect, ClientEstablish, ClientSend, ClientRetransmit
<1>4. ASSUME NEW h \in Hosts,
             \/ RxBuffered(h) \/ RxPrepare(h) \/ RxConnStateAck(h)
             \/ Accept(h) \/ Abort(h) \/ RxConnState(h)
      PROVE  Rests /\ UNCHANGED delivered
  <2>1. Rests
    BY <1>0, <1>4, StateRests, StateArrives
  <2> QED  BY <1>4, <2>1 DEF RxBuffered, RxPrepare, RxConnStateAck, Accept,
                             Abort, RxConnState
<1>5. ASSUME NEW h \in Hosts, NEW q \in QDs,
             Pop(h, q) \/ PollMigratedOut(h, q) \/ Close(h, q)
      PROVE  Rests /\ UNCHANGED delivered
  <2>1. Rests
    BY <1>0, <1>5, StateRests
  <2> QED  BY <1>5, <2>1 DEF Pop, PollMigratedOut, Close
<1>6. ASSUME NEW h \in Hosts,
             \/ RxEstablished(h) \/ RxReturned(h)
             \/ RxPrepareAck(h) \/ PollAccept(h)
      PROVE  /\ UNCHANGED delivered
             /\ \E c \in Clients : \/ Takes(h, c) \/ Untracks(h, c)
                                   \/ Leaves(h, c) \/ Enters(h, c)
  <2>1. \E c \in Clients : \/ Takes(h, c) \/ Untracks(h, c)
                           \/ Leaves(h, c) \/ Enters(h, c)
    BY <1>0, <1>6, StateTakes, StateUntracks, StateLeaves, StateEnters
  <2> QED  BY <1>6, <2>1 DEF RxEstablished, RxReturned, RxPrepareAck, PollAccept
<1>7. ASSUME NEW h \in Hosts, NEW e \in Clients, InitiateMigration(h, e)
      PROVE  UNCHANGED delivered /\ \E c \in Clients : Untracks(h, c)
  <2>1. \E c \in Clients : Untracks(h, c)
    BY <1>0, <1>7, StateUntracks
  <2> QED  BY <1>7, <2>1 DEF InitiateMigration
<1>8. ASSUME NEW h \in Hosts, RxPassive(h)
      PROVE  /\ UNCHANGED delivered
             /\ Rests \/ \E c \in Clients : Hands(h, c) /\ Opens(c)
  <2>1. Rests \/ \E c \in Clients : Hands(h, c) /\ Opens(c)
    BY <1>0, <1>8, StateOpens
  <2> QED  BY <1>8, <2>1 DEF RxPassive
<1>9. ASSUME NEW h \in Hosts, Lose(h) \/ RxUnexpected(h)
      PROVE  /\ UNCHANGED delivered
             /\ \A d \in Clients : Copies(d)' \subseteq Copies(d)
  <2>1. \A d \in Clients : Copies(d)' \subseteq Copies(d)
    BY <1>0, <1>9, StateGone
  <2> QED  BY <1>9, <2>1 DEF Lose, RxUnexpected
<1>10. ASSUME NEW h \in Hosts, NEW q \in QDs, PollRecv(h, q)
       PROVE  \/ Rests /\ UNCHANGED delivered
              \/ \E c \in Clients : /\ ReadsNext(h, c)
                                    /\ delivered' = [delivered EXCEPT ![c] = @ + 1]
  BY <1>0, <1>10, StateRead
<1> QED
  BY <1>0, <1>1, <1>2, <1>3, <1>4, <1>5, <1>6, <1>7, <1>8, <1>9, <1>10
     DEF Next, Receive

-----------------------------------------------------------------------------
(* Readers resume where the last one stopped. *)

LEMMA NoneYet == OwnerInv => \A c \in Clients : NotYet(c)
<1> SUFFICES ASSUME OwnerInv, NEW c \in Clients, conn[c] # "open"
             PROVE  Copies(c) = {}
  BY DEF NotYet
<1>1. NotOpen(c)
  BY DEF OwnerInv, Phases
<1>2. ASSUME NEW g \in Hosts, NEW x
      PROVE  ~Entered(g, c, x) /\ ~Awaiting(g, c, x) /\ ~Travels(g, c, x)
  BY <1>1 DEF NotOpen, Entered, InTable, Awaiting, Acceptees, Travels
<1> QED  BY <1>2, CopiesAre DEF Located

LEMMA NoneYetNext == (OwnerInv => \A c \in Clients : NotYet(c))'
BY NoneYet, PTL

(* What the steps of a connection do to its reader's position. *)
LEMMA ReadPositions ==
  ASSUME NEW x \in CB
  PROVE  /\ \A n : CbReceive(x, n).read = x.read
         /\ [x EXCEPT !.tracked = FALSE].read = x.read
         /\ Serialized(x).read = x.read
         /\ \A buf : [CbReplay(x, buf) EXCEPT !.tracked = TRUE].read = x.read
         /\ \A n : [x EXCEPT !.read = n].read = n
         /\ NewCB.read = 0
BY DEF CB, CbReceive, Serialized, CbReplay, NewCB

(* A handshake never starts over. *)
LEMMA HandshakeStep ==
  ASSUME OwnerInv, [Next]_vars, NEW c \in Clients
  PROVE  /\ conn'[c] # "open" => conn[c] # "open"
         /\ (\E h \in Hosts : Hands(h, c)') =>
                conn[c] # "open" \/ \E h \in Hosts : Hands(h, c)
<1>0. TypeOK
  BY DEF OwnerInv
<1>1. CASE UNCHANGED <<conn, inflight>>
  BY <1>1 DEF Hands
<1>2. CASE UNCHANGED vars
  BY <1>1, <1>2 DEF vars, listenVars, clientVars
<1>3. ASSUME NEW d \in Clients, Client(d)
      PROVE  UNCHANGED inflight /\ (conn'[c] # "open" => conn[c] # "open")
  BY <1>0, <1>3 DEF Client, ClientConnect, ClientEstablish, ClientSend,
                    ClientRetransmit, listenVars, TypeOK
<1>4. ASSUME NEW h \in Hosts, RxPassive(h)
      PROVE  /\ UNCHANGED conn
             /\ (\E g \in Hosts : Hands(g, c)') =>
                    conn[c] # "open" \/ \E g \in Hosts : Hands(g, c)
  <2>1. PICK p, d : p = Packet1(h) /\ d = p.client
    OBVIOUS
  <2>2. /\ inq[h] # <<>> /\ UNCHANGED conn
        /\ \/ inflight' = inflight
           \/ inflight' = [inflight EXCEPT ![h] = @ \ {d}]
           \/ p.type = "SYN" /\ inflight' = [inflight EXCEPT ![h] = @ \cup {d}]
    BY <1>4, <2>1, Zenon DEF RxPassive, Received, Starts, listenVars, clientVars
  <2>3. p.type = "SYN" => conn[d] # "open"
    <3>1. Msg(h, 1, d, p.type) /\ d \in Clients /\ 1 \in Nat
      BY <1>0, <2>1, <2>2, HeadMsg, PacketTypes
    <3> QED  BY <3>1, Early
  <2>4. inflight \in [Hosts -> SUBSET Clients]
    BY <1>0 DEF TypeOK
  <2>5. ASSUME NEW g \in Hosts, Hands(g, c)'
        PROVE  conn[c] # "open" \/ Hands(g, c)
    BY <2>2, <2>3, <2>4, <2>5 DEF Hands
  <2> QED  BY <2>2, <2>5
<1>5. ASSUME NEW h \in Hosts, Receive(h), ~RxPassive(h)
      PROVE  UNCHANGED <<conn, inflight>>
  BY <1>5 DEF Receive, RxEstablished, RxBuffered, RxPrepare, RxReturned,
              RxPrepareAck, RxConnState, RxConnStateAck, RxUnexpected,
              listenVars, clientVars
<1>6. ASSUME NEW h \in Hosts,
             \/ Accept(h) \/ PollAccept(h) \/ Abort(h) \/ Lose(h) \/ Duplicate(h)
             \/ \E d \in Clients : InitiateMigration(h, d)
             \/ \E q \in QDs : Pop(h, q) \/ PollRecv(h, q)
                               \/ PollMigratedOut(h, q) \/ Close(h, q)
      PROVE  UNCHANGED <<conn, inflight>>
  BY <1>6 DEF Accept, PollAccept, Abort, Lose, Duplicate, InitiateMigration,
              Pop, PollRecv, PollMigratedOut, Close, listenVars, clientVars
<1> QED  BY <1>1, <1>2, <1>3, <1>4, <1>5, <1>6 DEF Next, Hands

LEMMA ReadInit ==
  ASSUME Init
  PROVE  ReadInv
<1>2. OwnerInv /\ \A c \in Clients : delivered[c] = 0 /\ conn[c] # "open"
  BY OwnerInit DEF Init
<1>3. \A c \in Clients : Copies(c) = {}
  BY <1>2, NoneYet DEF NotYet
<1> QED  BY <1>2, <1>3 DEF ReadInv, ReadsResume, Unread

LEMMA ReadStep ==
  ASSUME MaxDup = 0, ReadInv, [Next]_vars
  PROVE  ReadInv'
<1>1. OwnerInv /\ OwnerInv' /\ TypeOK
  BY StateStep DEF ReadInv, OwnerInv
<1>2. \A c \in Clients : \A x \in Copies(c) : x.read = delivered[c]
  BY DEF ReadInv, ReadsResume
<1>3. \A c \in Clients : Unread(c)
  BY DEF ReadInv
<1>4. ASSUME UNCHANGED delivered,
             \A c \in Clients : Copies(c)' \subseteq Copies(c)
      PROVE  ReadsResume'
  <2>1. ASSUME NEW c \in Clients, NEW x \in Copies(c)'
        PROVE  x.read = delivered'[c]
    BY <1>2, <1>4, <2>1
  <2> QED  BY <2>1 DEF ReadsResume
<1>5. ASSUME UNCHANGED delivered, NEW c \in Clients, Others(c),
             NEW y, Copies(c)' = {y}, y.read = delivered[c]
      PROVE  ReadsResume'
  <2>1. ASSUME NEW d \in Clients, NEW x \in Copies(d)'
        PROVE  x.read = delivered'[d]
    <3>1. CASE d = c
      BY <1>5, <2>1, <3>1
    <3>2. CASE d # c
      BY <1>2, <1>5, <2>1, <3>2 DEF Others, Same
    <3> QED  BY <3>1, <3>2
  <2> QED  BY <2>1 DEF ReadsResume
<1>6. ReadsResume' /\ \A c \in Clients : delivered'[c] = delivered[c] \/ Copies(c)' # {}
  <2>1. ASSUME UNCHANGED delivered, Rests PROVE ReadsResume'
    <3>1. \A c \in Clients : Copies(c)' \subseteq Copies(c)
      BY <2>1 DEF Rests, Same
    <3> QED  BY <1>4, <2>1, <3>1
  <2>2. ASSUME UNCHANGED delivered, NEW h \in Hosts, NEW c \in Clients,
               Takes(h, c) \/ Untracks(h, c) \/ Leaves(h, c) \/ Enters(h, c)
        PROVE  ReadsResume'
    <3>1. \E x, y : /\ Copies(c) = {x} /\ Copies(c)' = {y}
                    /\ y.read = x.read /\ Others(c)
      BY <2>2, ReadPositions DEF Takes, Untracks, Leaves, Enters, Becomes
    <3> QED  BY <1>2, <1>5, <2>2, <3>1
  <2>3. ASSUME UNCHANGED delivered, NEW h \in Hosts, NEW c \in Clients,
               Hands(h, c), Opens(c)
        PROVE  ReadsResume'
    <3>1. delivered[c] = 0
      BY <1>3, <2>3 DEF Unread
    <3>2. NewCB.read = 0
      BY DEF NewCB
    <3> QED  BY <1>5, <2>3, <3>1, <3>2 DEF Opens
  <2>4. ASSUME NEW h \in Hosts, NEW c \in Clients, ReadsNext(h, c),
               delivered' = [delivered EXCEPT ![c] = @ + 1]
        PROVE  /\ ReadsResume'
               /\ \A d \in Clients : delivered'[d] = delivered[d] \/ Copies(d)' # {}
    <3>1. PICK x, y : /\ Copies(c) = {x} /\ Copies(c)' = {y}
                      /\ y.read = x.read + 1 /\ Others(c)
      BY <2>4, ReadPositions DEF ReadsNext, Becomes
    <3>2. delivered'[c] = x.read + 1
      BY <1>1, <1>2, <2>4, <3>1 DEF TypeOK
    <3>3. \A d \in Clients \ {c} : delivered'[d] = delivered[d]
      BY <1>1, <2>4 DEF TypeOK
    <3>4. ASSUME NEW d \in Clients, NEW z \in Copies(d)'
          PROVE  z.read = delivered'[d]
      <4>1. CASE d = c
        BY <3>1, <3>2, <3>4, <4>1
      <4>2. CASE d # c
        BY <1>2, <3>1, <3>3, <3>4, <4>2 DEF Others, Same
      <4> QED  BY <4>1, <4>2
    <3> QED  BY <3>1, <3>3, <3>4 DEF ReadsResume
  <2> QED  BY <1>4, <2>1, <2>2, <2>3, <2>4, StateStep DEF ReadInv
<1>7. ASSUME NEW c \in Clients PROVE Unread(c)'
  <2>1. CASE Copies(c)' # {}
    <3>1. NotYet(c)' /\ OneState(c)'
      BY <1>1, NoneYetNext, StateOnceNext
    <3> QED  BY <2>1, <3>1 DEF NotYet, OneState, Unread
  <2>2. CASE delivered'[c] = delivered[c]
    BY <1>1, <1>3, <2>2, HandshakeStep DEF Unread
  <2> QED  BY <1>6, <2>1, <2>2
<1> QED  BY <1>1, <1>6, <1>7 DEF ReadInv

(* Whatever is lost, and however migrations overlap, the host that takes a *)
(* connection over resumes reading exactly where the last one stopped: the *)
(* application sees each byte once, in order, across hosts (to_state and   *)
(* from_state carry the reader's position with the receive queue).         *)
THEOREM ReadsResumeInvariant ==
  ASSUME MaxDup = 0
  PROVE  Spec => []ReadsResume
<1>1. Init => ReadInv
  BY ReadInit
<1>2. ReadInv /\ [Next]_vars => ReadInv'
  BY ReadStep
<1>3. ReadInv => ReadsResume
  BY DEF ReadInv
<1> QED  BY <1>1, <1>2, <1>3, PTL DEF Spec

-----------------------------------------------------------------------------
(* Nothing a client sent is forgotten. *)

LEMMA KeptAll ==
  DataConserved <=> \A c \in Clients : \A n \in 1..sent[c] : Remembered(c, n)
BY DEF DataConserved, Remembered, InCopy, InBuf, Packets, Buffered

LEMMA KeptAllNext ==
  (DataConserved <=> \A c \in Clients : \A n \in 1..sent[c] : Remembered(c, n))'
BY KeptAll, PTL

(* A copy in a host's tables is a copy. *)
LEMMA TableCopy ==
  ASSUME NEW h \in Hosts, NEW c \in Clients, NEW n, InTable(c, h)',
         n \in established'[h][c].got
  PROVE  InCopy(c, n)'
<1>1. PICK x : x = established'[h][c]
  OBVIOUS
<1>2. Entered(h, c, x)'
  BY <1>1 DEF Entered
<1>3. x \in Copies(c)'
  BY <1>2, CopiesAreNext DEF Located
<1> QED  BY <1>1, <1>3 DEF InCopy

(* What a control block has received it keeps. *)
LEMMA GotGrows ==
  ASSUME NEW x \in CB
  PROVE  /\ \A n : x.got \subseteq CbReceive(x, n).got /\ n \in CbReceive(x, n).got
         /\ [x EXCEPT !.tracked = FALSE].got = x.got
         /\ Serialized(x).got = x.got
         /\ \A buf : /\ x.got \subseteq [CbReplay(x, buf) EXCEPT !.tracked = TRUE].got
                     /\ \A i \in DOMAIN buf : buf[i].seq \in
                            [CbReplay(x, buf) EXCEPT !.tracked = TRUE].got
         /\ \A n : [x EXCEPT !.read = n].got = x.got
BY DEF CB, CbReceive, Serialized, CbReplay

LEMMA CopiesGrow ==
  ASSUME MaxDup = 0, OwnerInv, [Next]_vars,
         \A h \in Hosts : ~Lose(h) /\ ~RxUnexpected(h), NEW d \in Clients
  PROVE  \A x \in Copies(d) : \E y \in Copies(d)' : x.got \subseteq y.got
<1>1. ASSUME Same(d)
      PROVE  \A x \in Copies(d) : \E y \in Copies(d)' : x.got \subseteq y.got
  BY <1>1 DEF Same
<1>2. ASSUME NEW h \in Hosts, NEW c \in Clients,
             \/ Takes(h, c) \/ Untracks(h, c) \/ Leaves(h, c) \/ Enters(h, c)
             \/ ReadsNext(h, c)
      PROVE  \A x \in Copies(d) : \E y \in Copies(d)' : x.got \subseteq y.got
  <2>1. PICK x, y : /\ Copies(c) = {x} /\ Copies(c)' = {y}
                    /\ x.got \subseteq y.got /\ Others(c)
    BY <1>2, GotGrows DEF Takes, Untracks, Leaves, Enters, ReadsNext, Becomes
  <2> QED  BY <1>1, <2>1 DEF Others
<1>3. ASSUME NEW c \in Clients, Opens(c)
      PROVE  \A x \in Copies(d) : \E y \in Copies(d)' : x.got \subseteq y.got
  BY <1>1, <1>3 DEF Opens, Others
<1> QED  BY <1>1, <1>2, <1>3, StateStep DEF Rests

(* What is kept where nothing but the place of the state changes. *)
LEMMA KeptStill ==
  ASSUME NEW c \in Clients, NEW n, Remembered(c, n),
         n \in dropped[c] => n \in dropped'[c],
         InCopy(c, n) => InCopy(c, n)',
         \A h \in Hosts : InBuf(h, c, n) => InBuf(h, c, n)' \/ InCopy(c, n)',
         \E out, t, in : Flow(out, t, in) /\ Data(c, n) \notin out
  PROVE  Remembered(c, n)'
<1>1. \A h \in Hosts : Data(c, n) \in Packets(h) => Data(c, n) \in Packets(h)'
  BY DEF Flow
<1>2. Data(c, n)' = Data(c, n)
  BY DEF Data
<1> QED  BY <1>1, <1>2 DEF Remembered

(* A data segment is its client and its position. *)
LEMMA DataPacket ==
  ASSUME NEW p \in Packet, p.type = "DATA"
  PROVE  p = Data(p.client, p.seq) /\ p.seq \in Segs
BY DEF Packet, Segment, Control, State, Data

(* A step that handles another packet, or only sends, keeps the segment. *)
LEMMA SegmentFlows ==
  ASSUME TypeOK, NEW c \in Clients, NEW n,
         \/ UNCHANGED inq
         \/ \E t \in Hosts, p \in Packet : Transmit(t, p)
         \/ \E h \in Hosts : /\ inq[h] # <<>> /\ Packet1(h) # Data(c, n)
                             /\ \/ Consume(h)
                                \/ \E t \in Hosts, p \in Packet : Reply(h, t, p)
  PROVE  \E out, t, in : Flow(out, t, in) /\ Data(c, n) \notin out
<1>1. CASE UNCHANGED inq
  <2>1. Flow({}, 0, {})
    BY <1>1, FlowNone
  <2> QED  BY <2>1
<1>2. ASSUME NEW t \in Hosts, NEW p \in Packet, Transmit(t, p)
      PROVE  \E out, s, in : Flow(out, s, in) /\ Data(c, n) \notin out
  <2>1. Flow({}, t, {p})
    BY <1>2, FlowTransmit
  <2> QED  BY <2>1
<1>3. ASSUME NEW h \in Hosts, inq[h] # <<>>, Packet1(h) # Data(c, n), Consume(h)
      PROVE  \E out, t, in : Flow(out, t, in) /\ Data(c, n) \notin out
  <2>1. Flow({Packet1(h)}, h, {})
    BY <1>3, FlowConsume
  <2> QED  BY <1>3, <2>1
<1>4. ASSUME NEW h \in Hosts, inq[h] # <<>>, Packet1(h) # Data(c, n),
             NEW t \in Hosts, NEW p \in Packet, Reply(h, t, p)
      PROVE  \E out, s, in : Flow(out, s, in) /\ Data(c, n) \notin out
  <2>1. Flow({Packet1(h)}, t, {p})
    BY <1>4, FlowReply
  <2> QED  BY <1>4, <2>1
<1> QED  BY <1>1, <1>2, <1>3, <1>4

(* Steps of the application, of the clients, and migrations that begin. *)
LEMMA DataRests ==
  ASSUME TypeOK, NEW c \in Clients, NEW n, Remembered(c, n),
         InCopy(c, n) => InCopy(c, n)',
         \/ UNCHANGED vars
         \/ \E h \in Hosts : Accept(h)
         \/ \E h \in Hosts, q \in QDs : \/ Pop(h, q) \/ PollRecv(h, q)
                                        \/ PollMigratedOut(h, q)
         \/ \E d \in Clients : \/ ClientConnect(d) \/ ClientEstablish(d)
                               \/ ClientSend(d)
         \/ \E h \in Hosts, d \in Clients : InitiateMigration(h, d)
  PROVE  Remembered(c, n)'
<1>1. UNCHANGED dropped
  BY DEF vars, clientVars, Accept, Pop, PollRecv, PollMigratedOut,
         ClientConnect, ClientEstablish, ClientSend, InitiateMigration
<1>2. \A h \in Hosts : InBuf(h, c, n) => InBuf(h, c, n)'
  <2>1. CASE UNCHANGED active
    BY <2>1 DEF InBuf, Buffered, Data
  <2>2. ASSUME NEW h \in Hosts, NEW d \in Clients, InitiateMigration(h, d)
        PROVE  \A g \in Hosts : InBuf(g, c, n) => InBuf(g, c, n)'
    <3>1. PICK m : active' = [active EXCEPT ![h][d] = m] /\ active[h][d] = None
      BY <2>2 DEF InitiateMigration
    <3>2. \A g \in Hosts : active[g][c] # None => active'[g][c] = active[g][c]
      BY <3>1, TableTypes
    <3> QED  BY <3>2 DEF InBuf, Buffered, Data
  <2> QED
    BY <2>1, <2>2 DEF vars, Accept, Pop, PollRecv, PollMigratedOut,
                      ClientConnect, ClientEstablish, ClientSend
<1>3. UNCHANGED inq \/ \E t \in Hosts, p \in Packet : Transmit(t, p)
  <2>1. ASSUME NEW d \in Clients,
               \/ ClientConnect(d) \/ ClientEstablish(d) \/ ClientSend(d)
        PROVE  \E t \in Hosts, p \in Packet : Transmit(t, p)
    BY <2>1, ClientSegment DEF Client
  <2>2. ASSUME NEW h \in Hosts, NEW d \in Clients, InitiateMigration(h, d)
        PROVE  \E t \in Hosts, p \in Packet : Transmit(t, p)
    <3>1. Prepare(d, h) \in Packet
      BY MessageTypes
    <3> QED  BY <2>2, <3>1 DEF InitiateMigration
  <2> QED  BY <2>1, <2>2 DEF vars, Accept, Pop, PollRecv, PollMigratedOut
<1>4. \E out, t, in : Flow(out, t, in) /\ Data(c, n) \notin out
  BY <1>3, SegmentFlows
<1> QED  BY <1>1, <1>2, <1>4, KeptStill

(* A client sends again what is dropped, and only that leaves the set. *)
LEMMA DataRetransmit ==
  ASSUME OwnerInv, NEW c \in Clients, NEW n, n # 0, Remembered(c, n),
         InCopy(c, n) => InCopy(c, n)', NEW d \in Clients, ClientRetransmit(d)
  PROVE  Remembered(c, n)'
<1>0. TypeOK
  BY DEF OwnerInv
<1>1. PICK m \in dropped[d] :
          /\ dropped' = [dropped EXCEPT ![d] = @ \ {m}]
          /\ Transmit(owner[d],
                      IF conn[d] = "syn_sent" THEN Syn(d) ELSE Data(d, m))
          /\ UNCHANGED active
  BY DEF ClientRetransmit
<1>2. CASE d = c /\ m = n
  <2>1. conn[c] = "open"
    <3>1. conn[c] # "open" => dropped[c] \subseteq {0}
      BY DEF OwnerInv, Phases, NotOpen
    <3> QED  BY <1>1, <1>2, <3>1
  <2>2. PICK t \in Hosts : Transmit(t, Data(c, n))
    BY <1>0, <1>1, <1>2, <2>1 DEF TypeOK
  <2>3. Data(c, n) \in Packet
    <3>1. n \in Segs
      BY <1>0, <1>1, <1>2 DEF TypeOK
    <3> QED  BY <2>2, <3>1, MessageTypes
  <2>4. Flow({}, t, {Data(c, n)})
    BY <1>0, <2>2, <2>3, FlowTransmit
  <2>5. Data(c, n) \in Packets(t)' /\ Data(c, n)' = Data(c, n)
    BY <2>4 DEF Flow, Data
  <2> QED  BY <2>5 DEF Remembered
<1>3. CASE d # c \/ m # n
  <2>1. n \in dropped[c] => n \in dropped'[c]
    BY <1>0, <1>1, <1>3 DEF TypeOK
  <2>2. \A h \in Hosts : InBuf(h, c, n) => InBuf(h, c, n)'
    BY <1>1 DEF InBuf, Buffered, Data
  <2>3. \E t \in Hosts, p \in Packet : Transmit(t, p)
    BY <1>0, ClientSegment DEF Client
  <2>4. \E out, t, in : Flow(out, t, in) /\ Data(c, n) \notin out
    BY <1>0, <2>3, SegmentFlows
  <2> QED  BY <2>1, <2>2, <2>4, KeptStill
<1> QED  BY <1>2, <1>3

(* A received segment: taken in, buffered, or known to be dropped. *)
LEMMA DataReceived ==
  ASSUME OwnerInv, TypeOK', NEW c \in Clients, NEW n, n # 0, Remembered(c, n),
         InCopy(c, n) => InCopy(c, n)', NEW h \in Hosts,
         RxEstablished(h) \/ RxBuffered(h) \/ RxPassive(h)
  PROVE  Remembered(c, n)'
<1>0. TypeOK
  BY DEF OwnerInv
<1>1. PICK p, d, m : p = Packet1(h) /\ d = p.client /\ m = p.seq
  OBVIOUS
<1>2. inq[h] # <<>> /\ p.type \in {"SYN", "DATA"} /\ Consume(h)
  BY <1>1 DEF RxEstablished, RxBuffered, RxPassive, Received
<1>3. p \in Packet /\ p \in Segment /\ d \in Clients /\ m \in Segs
  BY <1>0, <1>1, <1>2, HeadMsg, PacketTypes
<1>4. p = Data(c, n) => d = c /\ m = n /\ p.type = "DATA"
  BY <1>1 DEF Data
<1>5. CASE RxEstablished(h)
  <2>1. /\ established[h][d] # None /\ UNCHANGED <<active, dropped>>
        /\ established' = [established EXCEPT ![h][d] = CbReceive(@, m)]
    BY <1>1, <1>5 DEF RxEstablished, clientVars
  <2>2. \A g \in Hosts : InBuf(g, c, n) => InBuf(g, c, n)'
    BY <2>1 DEF InBuf, Buffered, Data
  <2>3. CASE p = Data(c, n)
    <3>1. established[h][c] \in CB /\ established'[h][c] = CbReceive(established[h][c], n)
      BY <1>0, <1>3, <1>4, <2>1, <2>3, TableTypes
    <3>2. /\ CbReceive(established[h][c], n) \in CB
          /\ n \in CbReceive(established[h][c], n).got
      BY <1>3, <1>4, <2>3, <3>1, CBTypes, GotGrows
    <3>3. InTable(c, h)' /\ n \in established'[h][c].got
      BY <3>1, <3>2, NoneAssumption DEF InTable
    <3> QED  BY <3>3, TableCopy DEF Remembered
  <2>4. CASE p # Data(c, n)
    <3>1. \E out, t, in : Flow(out, t, in) /\ Data(c, n) \notin out
      BY <1>0, <1>1, <1>2, <2>4, SegmentFlows
    <3> QED  BY <2>1, <2>2, <3>1, KeptStill
  <2> QED  BY <2>3, <2>4
<1>6. CASE RxBuffered(h)
  <2>1. /\ active[h][d] # None /\ UNCHANGED dropped
        /\ active' = [active EXCEPT ![h][d].buf = Append(@, p)]
    BY <1>1, <1>6 DEF RxBuffered, Buffers, clientVars
  <2>2. active[h][d] \in Migration
    BY <1>0, <1>3, <2>1, TableTypes
  <2>3. PICK e : e = [active[h][d] EXCEPT !.buf = Append(active[h][d].buf, p)]
    OBVIOUS
  <2>4. e \in Migration /\ e.buf = Append(active[h][d].buf, p)
        /\ active[h][d].buf \in Seq(Segment)
    <3>1. e \in Migration /\ active[h][d].buf \in Seq(Segment)
      BY <1>3, <2>2, <2>3, MigrationTypes
    <3>2. e.buf = Append(active[h][d].buf, p)
      BY <2>2, <2>3 DEF Migration
    <3> QED  BY <3>1, <3>2
  <2>5. \A g \in Hosts, f \in Clients :
            active'[g][f] = IF g = h /\ f = d THEN e ELSE active[g][f]
    <3>1. active' = [active EXCEPT ![h][d] = e]
      BY <1>0, <1>3, <2>1, <2>3, TableTypes
    <3> QED  BY <1>0, <1>3, <3>1, TableTypes
  <2>6. /\ Buffered(h, d)' = Buffered(h, d) \cup {p}
        /\ active'[h][d] # None
    <3>1. active'[h][d] = e
      BY <1>3, <2>5
    <3>2. {e.buf[i] : i \in DOMAIN e.buf} =
                {active[h][d].buf[i] : i \in DOMAIN active[h][d].buf} \cup {p}
      <4>1. PICK b \in Seq(Segment) : b = active[h][d].buf
        BY <2>4
      <4>2. e.buf = Append(b, p)
        BY <2>4, <4>1
      <4>3. /\ Len(b) \in Nat
            /\ DOMAIN b = 1..Len(b) /\ DOMAIN Append(b, p) = 1..(Len(b) + 1)
            /\ \A i \in 1..Len(b) : Append(b, p)[i] = b[i]
            /\ Append(b, p)[Len(b) + 1] = p
        BY <1>3
      <4>4. \A i \in 1..(Len(b) + 1) : i \in 1..Len(b) \/ i = Len(b) + 1
        BY <4>3
      <4>5. \A i \in 1..Len(b) : i \in 1..(Len(b) + 1)
        BY <4>3
      <4>6. Len(b) + 1 \in 1..(Len(b) + 1)
        BY <4>3
      <4> QED  BY <4>1, <4>2, <4>3, <4>4, <4>5, <4>6
    <3>3. e # None
      BY <2>4, NoneAssumption
    <3> QED  BY <3>1, <3>2, <3>3 DEF Buffered
  <2>7. \A g \in Hosts : InBuf(g, c, n) => InBuf(g, c, n)'
    BY <1>3, <2>5, <2>6 DEF InBuf, Buffered, Data
  <2>8. CASE p = Data(c, n)
    <3>1. InBuf(h, c, n)'
      BY <1>4, <2>6, <2>8 DEF InBuf, Data
    <3> QED  BY <3>1 DEF Remembered
  <2>9. CASE p # Data(c, n)
    <3>1. \E out, t, in : Flow(out, t, in) /\ Data(c, n) \notin out
      BY <1>0, <1>1, <1>2, <2>9, SegmentFlows
    <3> QED  BY <2>1, <2>7, <3>1, KeptStill
  <2> QED  BY <2>8, <2>9
<1>7. CASE RxPassive(h)
  <2>1. /\ UNCHANGED active
        /\ \/ dropped' = [dropped EXCEPT ![d] = @ \cup ({m} \ {0})]
           \/ dropped' = [dropped EXCEPT ![d] = @ \cup {m}]
           \/ p.type = "SYN" /\ UNCHANGED dropped
    BY <1>1, <1>7 DEF RxPassive, Starts
  <2>2. \A g \in Hosts : InBuf(g, c, n) => InBuf(g, c, n)'
    BY <2>1 DEF InBuf, Buffered, Data
  <2>3. n \in dropped[c] => n \in dropped'[c]
    <3>1. CASE UNCHANGED dropped
      BY <3>1
    <3>2. ASSUME NEW s, dropped' = [dropped EXCEPT ![d] = @ \cup s]
          PROVE  n \in dropped[c] => n \in dropped'[c]
      BY <1>0, <1>3, <3>2 DEF TypeOK
    <3> QED  BY <2>1, <3>1, <3>2
  <2>4. CASE p = Data(c, n)
    <3>1. n \in dropped'[c]
      BY <1>0, <1>3, <1>4, <2>1, <2>4 DEF TypeOK
    <3> QED  BY <3>1 DEF Remembered
  <2>5. CASE p # Data(c, n)
    <3>1. \E out, t, in : Flow(out, t, in) /\ Data(c, n) \notin out
      BY <1>0, <1>1, <1>2, <2>5, SegmentFlows
    <3> QED  BY <2>2, <2>3, <3>1, KeptStill
  <2> QED  BY <2>4, <2>5
<1> QED  BY <1>5, <1>6, <1>7

(* A migration message is answered by another, or by nothing. *)
LEMMA MessageReplies ==
  ASSUME TypeOK, NEW h \in Hosts,
         \/ RxPrepare(h) \/ RxReturned(h) \/ RxPrepareAck(h)
         \/ RxConnState(h) \/ RxConnStateAck(h)
  PROVE  Consume(h) \/ \E t \in Hosts, r \in Packet : Reply(h, t, r)
<1>1. PICK p, c, o : p = Packet1(h) /\ c = p.client /\ o = p.src
  OBVIOUS
<1>2. inq[h] # <<>> /\ p.type \in TcpMigTypes
  BY <1>1 DEF RxPrepare, RxReturned, RxPrepareAck, RxConnState, RxConnStateAck,
              Received, TcpMigTypes
<1>3. c \in Clients /\ o \in Hosts
  BY <1>1, <1>2, HeadMsg, PacketTypes
<1>4. CASE RxConnStateAck(h)
  BY <1>4 DEF RxConnStateAck
<1>5. CASE RxPrepare(h)
  BY <1>1, <1>3, <1>5, MessageTypes DEF RxPrepare
<1>6. CASE RxConnState(h)
  BY <1>1, <1>3, <1>6, MessageTypes DEF RxConnState
<1>7. CASE RxReturned(h)
  BY <1>1, <1>3, <1>7, MessageTypes DEF RxReturned
<1>8. CASE RxPrepareAck(h)
  <2>1. PICK d, q : d = MigrateOutConn(h, p) /\ q = active[h][c].qd
    OBVIOUS
  <2>2. /\ active[h][c] # None /\ established[h][d] # None
        /\ q # None /\ sockets[h][q] # None /\ d = sockets[h][q].client
        /\ \E t \in IF d = c THEN {o} ELSE Hosts \ {h} :
                Reply(h, t, ConnState(d, h, Serialized(established[h][d])))
    BY <1>1, <1>8, <2>1 DEF RxPrepareAck, CanMigrateOut, MigrateOutConn
  <2>3. q \in QDs
    <3>1. active[h][c] \in Migration
      BY <1>3, <2>2, TableTypes
    <3> QED  BY <2>1, <2>2, <3>1, MigrationTypes
  <2>4. d \in Clients
    BY <2>2, <2>3, SocketTypes
  <2>5. Serialized(established[h][d]) \in CB
    BY <2>2, <2>4, TableTypes, CBTypes
  <2>6. ConnState(d, h, Serialized(established[h][d])) \in Packet
    BY <2>4, <2>5, MessageTypes
  <2> QED  BY <1>3, <2>2, <2>6
<1> QED  BY <1>4, <1>5, <1>6, <1>7, <1>8

(* A migration message: no entry that goes, or starts anew, has a segment  *)
(* in its buffer.                                                          *)
LEMMA DataMessage ==
  ASSUME OwnerInv, \A e \in Clients : Protocol(e),
         NEW c \in Clients, NEW n, Remembered(c, n),
         InCopy(c, n) => InCopy(c, n)', NEW h \in Hosts,
         \/ RxPrepare(h) \/ RxReturned(h) \/ RxPrepareAck(h)
         \/ RxConnState(h) \/ RxConnStateAck(h)
  PROVE  Remembered(c, n)' /\ dropped[c] \subseteq dropped'[c]
<1>0. TypeOK
  BY DEF OwnerInv
<1>1. PICK p, d : p = Packet1(h) /\ d = p.client
  OBVIOUS
<1>2. /\ inq[h] # <<>> /\ p.type \in TcpMigTypes
      /\ RxConnStateAck(h) => Consume(h)
  BY <1>1 DEF RxPrepare, RxReturned, RxPrepareAck, RxConnState, RxConnStateAck,
              Received, TcpMigTypes
<1>3. p \in Packet /\ d \in Clients /\ p.src \in Hosts
  BY <1>0, <1>1, <1>2, HeadMsg, PacketTypes
<1>4. p # Data(c, n)
  BY <1>2 DEF Data, TcpMigTypes
<1>5. dropped[c] \subseteq dropped'[c]
  <2>1. CASE UNCHANGED dropped
    BY <2>1
  <2>2. ASSUME RxConnStateAck(h) PROVE dropped[c] \subseteq dropped'[c]
    <3>1. \E s : dropped' = [dropped EXCEPT ![d] = @ \cup s]
      BY <1>1, <2>2 DEF RxConnStateAck
    <3> QED  BY <1>0, <1>3, <3>1 DEF TypeOK
  <2> QED  BY <2>1, <2>2 DEF RxPrepare, RxReturned, RxPrepareAck, RxConnState, clientVars
<1>6. \A g \in Hosts : InBuf(g, c, n) => InBuf(g, c, n)'
  <2>1. ASSUME NEW e \in Clients, ~InBuf(h, e, n),
               \E m : active' = [active EXCEPT ![h][e] = m]
        PROVE  \A g \in Hosts : InBuf(g, c, n) => InBuf(g, c, n)'
    <3>1. \A g \in Hosts : g # h \/ c # e => active'[g][c] = active[g][c]
      BY <1>0, <2>1, TableTypes
    <3> QED  BY <2>1, <3>1 DEF InBuf, Buffered, Data
  <2>2. ASSUME NEW e \in Clients, active[h][e] # None, NEW s,
               active' = [active EXCEPT ![h][e].stage = s], s \in Stages
        PROVE  \A g \in Hosts : InBuf(g, c, n) => InBuf(g, c, n)'
    <3>1. PICK m : m = [active[h][e] EXCEPT !.stage = s]
      OBVIOUS
    <3>2. m # None /\ m.buf = active[h][e].buf
      <4>1. active[h][e] \in Migration
        BY <1>0, <2>2, TableTypes
      <4>2. m \in Migration /\ m.buf = active[h][e].buf
        BY <2>2, <3>1, <4>1 DEF Migration
      <4> QED  BY <4>2, NoneAssumption
    <3>3. active' = [active EXCEPT ![h][e] = m]
      BY <1>0, <2>2, <3>1, TableTypes
    <3>4. \A g \in Hosts : active'[g][c] = IF g = h /\ c = e THEN m ELSE active[g][c]
      BY <1>0, <3>3, TableTypes
    <3> QED  BY <3>2, <3>4 DEF InBuf, Buffered, Data
  <2>3. ASSUME RxPrepare(h)
        PROVE  ~InBuf(h, d, n) /\ \E m : active' = [active EXCEPT ![h][d] = m]
    BY <1>1, <2>3 DEF RxPrepare, InBuf
  <2>4. ASSUME NEW e \in Clients, Quiet(h, e) PROVE ~InBuf(h, e, n)
    BY <2>4 DEF Quiet, InBuf, Buffered
  <2>5. ASSUME RxReturned(h)
        PROVE  ~InBuf(h, d, n) /\ \E m : active' = [active EXCEPT ![h][d] = m]
    <3>1. InTable(d, h) /\ \E m : active' = [active EXCEPT ![h][d] = m]
      BY <1>1, <2>5 DEF RxReturned, InTable
    <3>2. Quiet(h, d)
      BY <1>3, <3>1 DEF Protocol, Entries
    <3> QED  BY <1>3, <2>4, <3>1, <3>2
  <2>6. ASSUME RxConnStateAck(h)
        PROVE  ~InBuf(h, d, n) /\ \E m : active' = [active EXCEPT ![h][d] = m]
    <3>1. /\ active[h][d] # None /\ active[h][d].stage = "ConnState"
          /\ \E m : active' = [active EXCEPT ![h][d] = m]
      BY <1>1, <2>6 DEF RxConnStateAck, CloseMigration
    <3>2. Quiet(h, d)
      BY <1>3, <3>1 DEF Protocol, Entries, Stage
    <3> QED  BY <1>3, <2>4, <3>1, <3>2
  <2>7. ASSUME RxPrepareAck(h)
        PROVE  \E e \in Clients :
                    /\ active[h][e] # None
                    /\ active' = [active EXCEPT ![h][e].stage = "ConnState"]
    <3>1. PICK q, e : q = active[h][d].qd /\ e = sockets[h][q].client
      OBVIOUS
    <3>2. /\ active[h][d] # None /\ q # None /\ sockets[h][q] # None
          /\ active[h][e] # None
          /\ active' = [active EXCEPT ![h][e].stage = "ConnState"]
      BY <1>1, <2>7, <3>1 DEF RxPrepareAck, CanMigrateOut, MigrateOutConn
    <3>3. q \in QDs
      <4>1. active[h][d] \in Migration
        BY <1>0, <1>3, <3>2, TableTypes
      <4> QED  BY <3>1, <3>2, <4>1 DEF Migration
    <3>4. e \in Clients
      BY <1>0, <3>1, <3>2, <3>3, SocketTypes
    <3> QED  BY <3>2, <3>4
  <2>8. ASSUME RxConnState(h)
        PROVE  /\ active[h][d] # None
               /\ active' = [active EXCEPT ![h][d].stage = "ConnStateAck"]
    BY <1>1, <2>8 DEF RxConnState
  <2>9. {"ConnState", "ConnStateAck"} \subseteq Stages
    BY DEF Stages
  <2> QED  BY <1>3, <2>1, <2>2, <2>3, <2>5, <2>6, <2>7, <2>8, <2>9
<1>7. \/ Consume(h)
      \/ \E t \in Hosts, r \in Packet : Reply(h, t, r)
  BY <1>0, <1>2, MessageReplies
<1>8. \E out, t, in : Flow(out, t, in) /\ Data(c, n) \notin out
  BY <1>0, <1>1, <1>2, <1>4, <1>7, SegmentFlows
<1> QED  BY <1>5, <1>6, <1>8, KeptStill

(* poll_accept replays what the migration buffered. *)
LEMMA DataAccepted ==
  ASSUME TypeOK, NEW c \in Clients, NEW n, Remembered(c, n),
         InCopy(c, n) => InCopy(c, n)', NEW h \in Hosts, PollAccept(h)
  PROVE  Remembered(c, n)'
<1>1. PICK d, x, buf : /\ d = Head(ready[h]).client /\ x = Head(ready[h]).cb
                       /\ buf = IF active[h][d] = None THEN <<>>
                                                       ELSE active[h][d].buf
  OBVIOUS
<1>2. PICK y : y = [CbReplay(x, buf) EXCEPT !.tracked = TRUE]
  OBVIOUS
<1>3. /\ ready[h] # <<>> /\ UNCHANGED <<inq, dropped>>
      /\ established' = [established EXCEPT ![h][d] = y]
      /\ active' = [active EXCEPT ![h][d] = None]
  BY <1>1, <1>2 DEF PollAccept, Acceptor, CloseMigration, clientVars
<1>4. d \in Clients /\ x \in CB /\ buf \in Seq(Segment)
  <2>1. d \in Clients /\ x \in CB
    BY <1>1, <1>3, ReadyHead
  <2>2. active[h][d] \in Migration \cup {None}
    BY <2>1, TableTypes
  <2> QED  BY <1>1, <2>1, <2>2, MigrationTypes, EmptySeq
<1>5. /\ y \in CB /\ \A i \in DOMAIN buf : buf[i].seq \in y.got
  BY <1>2, <1>4, CBTypes, GotGrows
<1>6. ASSUME NEW g \in Hosts, InBuf(g, c, n) PROVE InBuf(g, c, n)' \/ InCopy(c, n)'
  <2>1. CASE g # h \/ c # d
    <3>1. active'[g][c] = active[g][c]
      BY <1>3, <2>1, TableTypes
    <3> QED  BY <1>6, <3>1 DEF InBuf, Buffered, Data
  <2>2. CASE g = h /\ c = d
    <3>1. PICK i \in DOMAIN buf : buf[i] = Data(c, n)
      BY <1>1, <1>6, <2>2 DEF InBuf, Buffered
    <3>2. n \in y.got
      BY <1>5, <3>1 DEF Data
    <3>3. established'[h][c] = y
      BY <1>3, <1>4, <2>2, TableTypes
    <3>4. InTable(c, h)'
      BY <1>5, <3>3, NoneAssumption DEF InTable
    <3> QED  BY <3>2, <3>3, <3>4, TableCopy
  <2> QED  BY <2>1, <2>2
<1>7. \E out, t, in : Flow(out, t, in) /\ Data(c, n) \notin out
  BY <1>3, SegmentFlows
<1> QED  BY <1>3, <1>6, <1>7, KeptStill

(* On a reliable network nothing gets lost, and no host gives up. *)
LEMMA ReliableSteps ==
  ASSUME Reliable, ProtocolInv
  PROVE  /\ \A h \in Hosts : /\ ~Lose(h) /\ ~Duplicate(h)
                             /\ ~Abort(h) /\ ~RxUnexpected(h)
         /\ \A h \in Hosts, q \in QDs : ~Close(h, q)
<1>1. /\ OwnerInv /\ TypeOK /\ TablesHold /\ ~AppCloses
      /\ \A e \in Clients : Protocol(e)
  BY DEF ProtocolInv, OwnerInv, Reliable
<1>2. \A h \in Hosts : ~Abort(h) /\ ~RxUnexpected(h)
  BY <1>1, NothingAborts, NothingUnexpected
<1>3. \A h \in Hosts : ~Lose(h) /\ ~Duplicate(h)
  <2>1. budget.loss \in 0..0 /\ budget.dup \in 0..0
    BY <1>1 DEF Reliable, TypeOK, Budget
  <2> QED  BY <2>1 DEF Lose, Duplicate
<1>4. \A h \in Hosts, q \in QDs : ~Close(h, q)
  BY <1>1 DEF Close
<1> QED  BY <1>2, <1>3, <1>4

(* A segment is sent into a queue. *)
LEMMA DataSent ==
  ASSUME TypeOK, NEW c \in Clients, ClientSend(c)
  PROVE  /\ sent' = [sent EXCEPT ![c] = @ + 1]
         /\ \E t \in Hosts : Data(c, sent[c] + 1) \in Packets(t)'
<1>1. PICK t, n : t = owner[c] /\ n = sent[c] + 1
  OBVIOUS
<1>2. Transmit(t, Data(c, n)) /\ sent' = [sent EXCEPT ![c] = @ + 1] /\ sent[c] < MaxData
  BY <1>1 DEF ClientSend
<1>3. t \in Hosts /\ n \in Segs
  <2>1. sent[c] \in Segs /\ t \in Hosts
    BY <1>1 DEF TypeOK
  <2> QED  BY <1>1, <1>2, <2>1, BoundsAssumption DEF Segs
<1>4. Data(c, n) \in Packet
  BY <1>3, MessageTypes
<1>5. Flow({}, t, {Data(c, n)})
  BY <1>2, <1>3, <1>4, FlowTransmit
<1> QED  BY <1>1, <1>2, <1>3, <1>5 DEF Flow

LEMMA DataStep ==
  ASSUME Reliable, DataInv, [Next]_vars
  PROVE  DataInv'
<1>1. /\ OwnerInv /\ TypeOK /\ MaxDup = 0 /\ ProtocolInv
      /\ \A e \in Clients : Protocol(e)
  BY DEF DataInv, ProtocolInv, OwnerInv, Reliable
<1>2. ProtocolInv' /\ TypeOK'
  <2>1. ProtocolInv'
    BY <1>1, ProtocolStep
  <2> QED  BY <2>1 DEF ProtocolInv, OwnerInv
<1>3. /\ \A h \in Hosts : /\ ~Lose(h) /\ ~Duplicate(h)
                          /\ ~Abort(h) /\ ~RxUnexpected(h)
      /\ \A h \in Hosts, q \in QDs : ~Close(h, q)
  BY <1>1, ReliableSteps
<1>6. \/ UNCHANGED vars \/ \E d \in Clients : Client(d)
      \/ \E h \in Hosts :
            \/ Receive(h) \/ Accept(h) \/ PollAccept(h)
            \/ \E d \in Clients : InitiateMigration(h, d)
            \/ \E q \in QDs : Pop(h, q) \/ PollRecv(h, q) \/ PollMigratedOut(h, q)
  BY <1>3 DEF Next
<1>4. ASSUME NEW c \in Clients, NEW n \in 1..sent[c] PROVE Remembered(c, n)'
  <2>1. Remembered(c, n) /\ n # 0
    <3>1. Remembered(c, n)
      BY KeptAll DEF DataInv
    <3> QED  BY <3>1
  <2>2. InCopy(c, n) => InCopy(c, n)'
    <3>1. \A x \in Copies(c) : \E y \in Copies(c)' : x.got \subseteq y.got
      BY <1>1, <1>3, CopiesGrow
    <3> QED  BY <3>1 DEF InCopy
  <2>3. CASE UNCHANGED vars
    BY <1>1, <2>1, <2>2, <2>3, DataRests
  <2>4. ASSUME NEW d \in Clients, Client(d) PROVE Remembered(c, n)'
    <3>1. CASE ClientRetransmit(d)
      BY <1>1, <2>1, <2>2, <3>1, DataRetransmit
    <3>2. CASE ClientConnect(d) \/ ClientEstablish(d) \/ ClientSend(d)
      BY <1>1, <2>1, <2>2, <3>2, DataRests
    <3> QED  BY <2>4, <3>1, <3>2 DEF Client
  <2>5. ASSUME NEW h \in Hosts, Receive(h) PROVE Remembered(c, n)'
    <3>1. CASE RxEstablished(h) \/ RxBuffered(h) \/ RxPassive(h)
      BY <1>1, <1>2, <2>1, <2>2, <3>1, DataReceived
    <3>2. CASE \/ RxPrepare(h) \/ RxReturned(h) \/ RxPrepareAck(h)
               \/ RxConnState(h) \/ RxConnStateAck(h)
      BY <1>1, <2>1, <2>2, <3>2, DataMessage
    <3> QED  BY <1>3, <2>5, <3>1, <3>2 DEF Receive
  <2>6. ASSUME NEW h \in Hosts, PollAccept(h) PROVE Remembered(c, n)'
    BY <1>1, <2>1, <2>2, <2>6, DataAccepted
  <2>7. ASSUME NEW h \in Hosts, Accept(h) PROVE Remembered(c, n)'
    BY <1>1, <2>1, <2>2, <2>7, DataRests
  <2>8. ASSUME NEW h \in Hosts, NEW d \in Clients, InitiateMigration(h, d)
        PROVE  Remembered(c, n)'
    BY <1>1, <2>1, <2>2, <2>8, DataRests
  <2>9. ASSUME NEW h \in Hosts, NEW q \in QDs,
               Pop(h, q) \/ PollRecv(h, q) \/ PollMigratedOut(h, q)
        PROVE  Remembered(c, n)'
    BY <1>1, <2>1, <2>2, <2>9, DataRests
  <2> QED  BY <2>3, <2>4, <2>5, <2>6, <2>7, <2>8, <2>9, <1>6
<1>5. ASSUME NEW c \in Clients, NEW n \in 1..sent'[c], n \notin 1..sent[c]
      PROVE  Remembered(c, n)'
  <2>1. PICK d \in Clients : ClientSend(d)
    <3>1. sent' # sent
      BY <1>5
    <3>2. ASSUME NEW d \in Clients, Client(d), ~ClientSend(d) PROVE UNCHANGED sent
      BY <3>2 DEF Client, ClientConnect, ClientEstablish, ClientRetransmit
    <3>3. ASSUME NEW h \in Hosts, Receive(h) PROVE UNCHANGED sent
      BY <1>3, <3>3 DEF Receive, RxEstablished, RxBuffered, RxPassive, RxPrepare,
         RxReturned, RxPrepareAck, RxConnState, RxConnStateAck, clientVars
    <3>4. ASSUME NEW h \in Hosts
          PROVE  /\ Accept(h) \/ PollAccept(h) => UNCHANGED sent
                 /\ \A e \in Clients : InitiateMigration(h, e) => UNCHANGED sent
                 /\ \A q \in QDs :
                       Pop(h, q) \/ PollRecv(h, q) \/ PollMigratedOut(h, q)
                           => UNCHANGED sent
      <4>1. Accept(h) \/ PollAccept(h) => UNCHANGED sent
        BY DEF Accept, PollAccept, clientVars
      <4>2. ASSUME NEW e \in Clients, InitiateMigration(h, e) PROVE UNCHANGED sent
        BY <4>2 DEF InitiateMigration, clientVars
      <4>3. ASSUME NEW q \in QDs, Pop(h, q) PROVE UNCHANGED sent
        BY <4>3 DEF Pop, clientVars
      <4>4. ASSUME NEW q \in QDs, PollRecv(h, q) PROVE UNCHANGED sent
        BY <4>4 DEF PollRecv, clientVars
      <4>5. ASSUME NEW q \in QDs, PollMigratedOut(h, q) PROVE UNCHANGED sent
        BY <4>5 DEF PollMigratedOut, clientVars
      <4> QED  BY <4>1, <4>2, <4>3, <4>4, <4>5
    <3>5. UNCHANGED vars => UNCHANGED sent
      BY DEF vars, clientVars
    <3> QED  BY <1>6, <3>1, <3>2, <3>3, <3>4, <3>5
  <2>2. /\ sent' = [sent EXCEPT ![d] = @ + 1]
        /\ \E t \in Hosts : Data(d, sent[d] + 1) \in Packets(t)'
    BY <1>1, <2>1, DataSent
  <2>3. sent \in [Clients -> Segs] /\ \A e \in Clients : sent[e] \in Nat
    BY <1>1 DEF TypeOK, Segs
  <2>4. d = c /\ n = sent[c] + 1
    <3>1. sent'[c] = IF c = d THEN sent[c] + 1 ELSE sent[c]
      BY <2>2, <2>3
    <3> QED  BY <1>5, <2>3, <3>1
  <2>5. Data(c, n)' = Data(c, n)
    BY DEF Data
  <2> QED  BY <2>2, <2>4, <2>5 DEF Remembered
<1>7. DataConserved'
  BY <1>4, <1>5, KeptAllNext
<1> QED  BY <1>2, <1>7 DEF DataInv

LEMMA DataInit ==
  ASSUME Init
  PROVE  DataInv
<1>1. \A c \in Clients : 1..sent[c] = {}
  BY DEF Init
<1> QED  BY <1>1, ProtocolInit, KeptAll DEF DataInv

(* Every segment a client ever sent is in a control block, in a queue, in  *)
(* the buffer of a migration, or known to be dropped and sent again; and   *)
(* what the application has read is never read again (try_buffer_packet,   *)
(* migrate_in_connection, poll_accept).                                    *)
THEOREM DataKeptInvariant ==
  ASSUME Reliable
  PROVE  Spec => []DataKept
<1>1. Init => DataInv
  BY DataInit
<1>2. DataInv /\ [Next]_vars => DataInv'
  BY DataStep
<1>3. DataInv => DataConserved
  BY DEF DataInv
<1>4. Spec => []ReadsResume
  BY ReadsResumeInvariant DEF Reliable
<1>5. DataKept <=> DataConserved /\ ReadsResume
  BY DEF DataKept
<1> QED  BY <1>1, <1>2, <1>3, <1>4, <1>5, PTL DEF Spec

-----------------------------------------------------------------------------
(* Migration costs no segment. *)

(* The listening socket sees no segment of a connection that is served or  *)
(* migrates: its client's packets go to the host that has the connection,  *)
(* or to one that buffers them.                                            *)
LEMMA NotListening ==
  ASSUME ProtocolInv, NEW h \in Hosts, RxPassive(h)
  PROVE  Packet1(h).client \in Clients /\ ~Serving(Packet1(h).client)
<1>0. TypeOK /\ \A e \in Clients : Protocol(e)
  BY DEF ProtocolInv, OwnerInv
<1>1. PICK c, type : c = Packet1(h).client /\ type = Packet1(h).type
  OBVIOUS
<1>2. /\ inq[h] # <<>> /\ type \in {"SYN", "DATA"}
      /\ established[h][c] = None /\ active[h][c] = None
  BY <1>1 DEF RxPassive, Received, Buffers
<1>3. Msg(h, 1, c, type) /\ c \in Clients /\ 1 \in Nat
  BY <1>0, <1>1, <1>2, HeadMsg, PacketTypes
<1>4. Entries(c) /\ Answers(c) /\ Awaited(c)
  BY <1>0, <1>3 DEF Protocol
<1>5. owner[c] = h /\ Stage(h, c) = "Idle" /\ ~InTable(c, h)
  BY <1>2, <1>3, <1>4 DEF Answers, DataFits, InTable, Stage
<1>6. \A g \in Hosts : ~InTable(c, g)
  BY <1>4, <1>5 DEF Entries
<1>7. \A g \in Hosts, i \in Nat : ~Msg(g, i, c, "CONN_STATE")
  BY <1>4, <1>5 DEF Entries, Answers, ConnStateFits
<1>8. ASSUME NEW g \in Hosts, Stage(g, c) # "Idle" PROVE FALSE
  <2>1. PICK k \in Hosts : Waits(k, c)
    BY <1>4, <1>6, <1>7, <1>8 DEF Awaited, Somewhere
  <2>2. k = h /\ ~NoEntries(c)
    BY <1>4, <1>5, <1>8, <2>1 DEF Entries, NoEntries
  <2> QED  BY <1>4, <1>5, <2>1, <2>2 DEF Entries
<1>9. ASSUME NEW g \in Hosts PROVE active[g][c] = None
  <2>1. ASSUME active[g][c] # None PROVE Stage(g, c) # "Idle"
    <3>1. active[g][c] \in Migration
      BY <1>0, <1>3, <2>1, TableTypes
    <3> QED  BY <2>1, <3>1 DEF Stage, Migration, Stages
  <2> QED  BY <1>8, <2>1
<1> QED  BY <1>1, <1>3, <1>6, <1>9 DEF Serving, InTable

LEMMA DropsNothing ==
  ASSUME Reliable, ProtocolInv, [Next]_vars, NEW c \in Clients, Serving(c)
  PROVE  dropped'[c] \subseteq dropped[c]
<1>1. /\ OwnerInv /\ TypeOK /\ \A e \in Clients : Protocol(e)
      /\ dropped \in [Clients -> SUBSET Segs]
  BY DEF ProtocolInv, OwnerInv, TypeOK
<1>2. /\ \A h \in Hosts : /\ ~Lose(h) /\ ~Duplicate(h)
                          /\ ~Abort(h) /\ ~RxUnexpected(h)
      /\ \A h \in Hosts, q \in QDs : ~Close(h, q)
  BY ReliableSteps
<1>3. ASSUME NEW d \in Clients, ClientRetransmit(d)
      PROVE  dropped'[c] \subseteq dropped[c]
  <2>1. PICK n : dropped' = [dropped EXCEPT ![d] = @ \ {n}]
    BY <1>3 DEF ClientRetransmit
  <2> QED  BY <1>1, <2>1
<1>4. ASSUME NEW h \in Hosts, RxPassive(h)
      PROVE  dropped'[c] \subseteq dropped[c]
  <2>1. PICK d : d = Packet1(h).client
    OBVIOUS
  <2>2. d \in Clients /\ d # c
    BY <1>4, <2>1, NotListening
  <2>3. UNCHANGED dropped \/ \E s : dropped' = [dropped EXCEPT ![d] = s]
    BY <1>4, <2>1 DEF RxPassive
  <2> QED  BY <1>1, <2>2, <2>3
<1>5. ASSUME NEW h \in Hosts, RxConnStateAck(h)
      PROVE  dropped'[c] \subseteq dropped[c]
  <2>1. PICK d, buf : d = Packet1(h).client /\ buf = active[h][d].buf
    OBVIOUS
  <2>2. /\ inq[h] # <<>> /\ Packet1(h).type = "CONN_STATE_ACK"
        /\ active[h][d] # None /\ active[h][d].stage = "ConnState"
        /\ dropped' = [dropped EXCEPT ![d] =
                            @ \cup {buf[i].seq : i \in DOMAIN buf}]
    BY <1>5, <2>1 DEF RxConnStateAck, Received
  <2>3. d \in Clients
    <3>1. Packet1(h) \in Packet
      BY <1>1, <2>2, HeadMsg
    <3> QED  BY <2>1, <3>1, PacketTypes
  <2>4. buf = <<>>
    BY <1>1, <2>1, <2>2, <2>3 DEF Protocol, Entries, Stage, Quiet
  <2>5. {buf[i].seq : i \in DOMAIN buf} = {}
    BY <2>4
  <2> QED  BY <1>1, <2>2, <2>3, <2>5
<1>6. CASE UNCHANGED dropped
  BY <1>6
<1>7. ASSUME NEW d \in Clients, Client(d)
      PROVE  ClientRetransmit(d) \/ UNCHANGED dropped
  BY <1>7 DEF Client, ClientConnect, ClientEstablish, ClientSend
<1>8. ASSUME NEW h \in Hosts, Receive(h)
      PROVE  RxPassive(h) \/ RxConnStateAck(h) \/ UNCHANGED dropped
  BY <1>2, <1>8 DEF Receive, RxEstablished, RxBuffered, RxPrepare, RxReturned,
     RxPrepareAck, RxConnState, clientVars
<1>9. ASSUME NEW h \in Hosts,
             \/ Accept(h) \/ PollAccept(h)
             \/ \E d \in Clients : InitiateMigration(h, d)
             \/ \E q \in QDs : Pop(h, q) \/ PollRecv(h, q) \/ PollMigratedOut(h, q)
      PROVE  UNCHANGED dropped
  BY <1>9 DEF Accept, PollAccept, InitiateMigration, Pop, PollRecv,
     PollMigratedOut, clientVars
<1>10. CASE UNCHANGED vars
  BY <1>10 DEF vars, clientVars
<1>11. \/ UNCHANGED vars \/ \E d \in Clients : Client(d)
       \/ \E h \in Hosts :
             \/ Receive(h) \/ Accept(h) \/ PollAccept(h)
             \/ \E d \in Clients : InitiateMigration(h, d)
             \/ \E q \in QDs : Pop(h, q) \/ PollRecv(h, q) \/ PollMigratedOut(h, q)
  BY <1>2 DEF Next
<1> QED
  BY <1>3, <1>4, <1>5, <1>6, <1>7, <1>8, <1>9, <1>10, <1>11

(* Once a connection was accepted, no step of any host discards one of its *)
(* segments, before, during or after a hand-over (receive,                 *)
(* try_buffer_packet).                                                     *)
THEOREM DropsNothingHolds ==
  ASSUME Reliable
  PROVE  Spec => MigrationDropsNothing
<1>1. Init => ProtocolInv
  BY ProtocolInit
<1>2. ProtocolInv /\ [Next]_vars => ProtocolInv'
  BY ProtocolStep
<1>3. ProtocolInv /\ [Next]_vars =>
          [\A c \in Clients : Serving(c) => dropped'[c] \subseteq dropped[c]]_vars
  BY DropsNothing
<1> QED  BY <1>1, <1>2, <1>3, PTL DEF Spec, MigrationDropsNothing

-----------------------------------------------------------------------------
(* The protocol is a hand-over. *)

LEMMA OneChanges ==
  ASSUME NEW c \in Clients, NEW x, NEW k, NEW y, NEW l, Becomes(c, x, k, y, l),
         Others(c)
  PROVE  /\ Places[c] = k /\ Places' = [Places EXCEPT ![c] = l]
         /\ Datas[c] = x.got /\ Datas' = [Datas EXCEPT ![c] = y.got]
<1>1. /\ Place(c) = k /\ Place(c)' = l
      /\ AckedData(c) = x.got /\ AckedData(c)' = y.got
  BY DEF Becomes, AckedData
<1>2. \A d \in Clients \ {c} : Place(d)' = Place(d) /\ AckedData(d)' = AckedData(d)
  BY DEF Others, Same, AckedData
<1> QED  BY <1>1, <1>2 DEF Places, Datas

LEMMA NoneChanges ==
  ASSUME Rests
  PROVE  UNCHANGED <<Places, Datas>>
<1>1. \A d \in Clients : Place(d)' = Place(d) /\ AckedData(d)' = AckedData(d)
  BY DEF Rests, Same, AckedData
<1> QED  BY <1>1 DEF Places, Datas

LEMMA HandoffInit ==
  ASSUME Init
  PROVE  Abstract!Init
<1>1. OwnerInv /\ \A c \in Clients : conn[c] # "open"
  BY OwnerInit DEF Init
<1>2. \A c \in Clients : Copies(c) = {}
  BY <1>1, NoneYet DEF NotYet
<1>3. \A c \in Clients : Place(c) = "none"
  <2>1. \A c \in Clients, h \in Hosts : ~InTable(c, h)
    BY DEF Init, InTable
  <2> QED  BY <1>2, <2>1 DEF Place
<1>4. \A c \in Clients : AckedData(c) = {}
  BY <1>2 DEF AckedData
<1>5. delivered = [c \in Clients |-> 0]
  BY DEF Init
<1> QED  BY <1>3, <1>4, <1>5 DEF Abstract!Init

LEMMA HandoffStep ==
  ASSUME Reliable, ProtocolInv, ReadInv, [Next]_vars
  PROVE  [Abstract!Next]_(Abstract!vars)
<1>1. OwnerInv /\ MaxDup = 0 /\ delivered \in [Clients -> Nat]
  BY DEF ProtocolInv, OwnerInv, TypeOK, Reliable
<1>2. ReadsResume /\ \A h \in Hosts : ~Lose(h) /\ ~RxUnexpected(h)
  BY ReliableSteps DEF ReadInv
<1>3. ASSUME UNCHANGED delivered, Rests
      PROVE  UNCHANGED Abstract!vars
  BY <1>3, NoneChanges DEF Abstract!vars, Places, Datas
<1>4. ASSUME UNCHANGED delivered, NEW h \in Hosts, NEW c \in Clients, Takes(h, c)
      PROVE  Abstract!Receive(c)
  <2>1. PICK x \in CB, n \in Segs : Becomes(c, x, h, CbReceive(x, n), h) /\ Others(c)
    BY <1>4 DEF Takes
  <2>2. CbReceive(x, n).got = x.got \cup {n}
    BY DEF CB, CbReceive
  <2>3. /\ Places[c] = h /\ Places' = [Places EXCEPT ![c] = h]
        /\ Datas[c] = x.got /\ Datas' = [Datas EXCEPT ![c] = x.got \cup {n}]
    BY <2>1, <2>2, OneChanges
  <2>4. Places' = Places /\ Datas' = [Datas EXCEPT ![c] = @ \cup {n}]
    BY <2>3 DEF Places, Datas
  <2> QED  BY <1>4, <2>3, <2>4 DEF Abstract!Receive, Places, Datas, Segs
<1>5. ASSUME UNCHANGED delivered, NEW h \in Hosts, NEW c \in Clients, Untracks(h, c)
      PROVE  UNCHANGED Abstract!vars
  <2>0. PICK x \in CB : /\ Becomes(c, x, h, [x EXCEPT !.tracked = FALSE], h)
                        /\ Others(c)
    BY <1>5 DEF Untracks
  <2>1. PICK y : y.got = x.got /\ Becomes(c, x, h, y, h)
    BY <2>0, GotGrows, Zenon
  <2>3. /\ Places[c] = h /\ Places' = [Places EXCEPT ![c] = h]
        /\ Datas[c] = x.got /\ Datas' = [Datas EXCEPT ![c] = x.got]
    <3>1. Others(c)
      BY <2>0
    <3> QED  BY <3>1, <2>1, OneChanges
  <2>4. Places' = Places /\ Datas' = Datas
    BY <2>3 DEF Places, Datas
  <2> QED  BY <1>5, <2>4 DEF Abstract!vars, Places, Datas
<1>6. ASSUME UNCHANGED delivered, NEW h \in Hosts, NEW c \in Clients, Leaves(h, c)
      PROVE  Abstract!Depart(c)
  <2>1. PICK x \in CB : Becomes(c, x, h, Serialized(x), "moving") /\ Others(c)
    BY <1>6 DEF Leaves
  <2>2. Serialized(x).got = x.got
    BY GotGrows
  <2>3. /\ Places[c] = h /\ Places' = [Places EXCEPT ![c] = "moving"]
        /\ Datas[c] = x.got /\ Datas' = [Datas EXCEPT ![c] = x.got]
    BY <2>1, <2>2, OneChanges
  <2>4. Datas' = Datas
    BY <2>3 DEF Datas
  <2> QED  BY <1>6, <2>3, <2>4 DEF Abstract!Depart, Places, Datas
<1>7. ASSUME UNCHANGED delivered, NEW h \in Hosts, NEW c \in Clients, Enters(h, c)
      PROVE  Abstract!Settle(c, h)
  <2>0. PICK x \in CB, buf \in Seq(Segment) :
          /\ Becomes(c, x, "moving", [CbReplay(x, buf) EXCEPT !.tracked = TRUE], h)
          /\ Others(c)
    BY <1>7 DEF Enters
  <2>2. PICK new : new = {buf[i].seq : i \in DOMAIN buf}
    OBVIOUS
  <2>3. new \in SUBSET (0..MaxData)
    <3>1. \A i \in DOMAIN buf : buf[i] \in Segment
      OBVIOUS
    <3>2. \A i \in DOMAIN buf : buf[i].seq \in Segs
      BY <3>1, BoundsAssumption DEF Segment, Segs
    <3> QED  BY <2>2, <3>2 DEF Segs
  <2>1. [CbReplay(x, buf) EXCEPT !.tracked = TRUE].got = x.got \cup new
    BY <2>2 DEF CB, CbReplay
  <2>4. PICK y : y.got = x.got \cup new /\ Becomes(c, x, "moving", y, h)
    BY <2>0, <2>1, Zenon
  <2>5. /\ Places[c] = "moving" /\ Places' = [Places EXCEPT ![c] = h]
        /\ Datas[c] = x.got /\ Datas' = [Datas EXCEPT ![c] = x.got \cup new]
    <3>1. Others(c)
      BY <2>0
    <3> QED  BY <3>1, <2>4, OneChanges
  <2>6. Datas' = [Datas EXCEPT ![c] = @ \cup new]
    BY <2>5 DEF Datas
  <2> QED  BY <1>7, <2>3, <2>5, <2>6 DEF Abstract!Settle, Places, Datas
<1>8. ASSUME UNCHANGED delivered, NEW c \in Clients, Opens(c)
      PROVE  Abstract!Open(c)
  <2>1. /\ Place(c) = "none" /\ Place(c)' = "moving"
        /\ AckedData(c) = {} /\ AckedData(c)' = {}
    BY <1>8 DEF Opens, AckedData, NewCB
  <2>2. \A d \in Clients \ {c} : Place(d)' = Place(d) /\ AckedData(d)' = AckedData(d)
    BY <1>8 DEF Opens, Others, Same, AckedData
  <2>3. Places[c] = "none" /\ Places' = [Places EXCEPT ![c] = "moving"] /\ Datas' = Datas
    BY <2>1, <2>2 DEF Places, Datas
  <2> QED  BY <1>8, <2>3 DEF Abstract!Open, Places, Datas
<1>9. ASSUME NEW h \in Hosts, NEW c \in Clients, ReadsNext(h, c),
             delivered' = [delivered EXCEPT ![c] = @ + 1]
      PROVE  Abstract!Read(c)
  <2>0. PICK x \in CB : /\ x.read + 1 \in x.got
                        /\ Becomes(c, x, h, [x EXCEPT !.read = x.read + 1], h)
                        /\ Others(c)
    BY <1>9 DEF ReadsNext
  <2>2. [x EXCEPT !.read = x.read + 1].got = x.got
    BY GotGrows
  <2>1. PICK y : y.got = x.got /\ Becomes(c, x, h, y, h)
    BY <2>0, <2>2, Zenon
  <2>3. /\ Places[c] = h /\ Places' = [Places EXCEPT ![c] = h]
        /\ Datas[c] = x.got /\ Datas' = [Datas EXCEPT ![c] = x.got]
    <3>1. Others(c)
      BY <2>0
    <3> QED  BY <3>1, <2>1, OneChanges
  <2>4. Places' = Places /\ Datas' = Datas
    BY <2>3 DEF Places, Datas
  <2>5. delivered[c] = x.read
    BY <1>2, <2>0 DEF Becomes, ReadsResume
  <2>6. x.read + 1 \in x.got
    BY <2>0
  <2> QED  BY <1>9, <2>6, <2>3, <2>4, <2>5 DEF Abstract!Read, Places, Datas
<1>10. \/ UNCHANGED Abstract!vars
       \/ \E c \in Clients :
            \/ Abstract!Open(c) \/ Abstract!Receive(c) \/ Abstract!Read(c)
            \/ Abstract!Depart(c) \/ \E h \in Hosts : Abstract!Settle(c, h)
  BY <1>1, <1>2, <1>3, <1>4, <1>5, <1>6, <1>7, <1>8, <1>9, StateStep
<1> QED  BY <1>10 DEF Abstract!Next

LEMMA HandoffInvariants ==
  ASSUME Reliable
  PROVE  /\ Init => ProtocolInv /\ ReadInv
         /\ ProtocolInv /\ ReadInv /\ [Next]_vars => ProtocolInv' /\ ReadInv'
<1>1. Init => ProtocolInv /\ ReadInv
  BY ProtocolInit, ReadInit
<1>2. ProtocolInv /\ ReadInv /\ [Next]_vars => ProtocolInv' /\ ReadInv'
  BY ProtocolStep, ReadStep DEF Reliable
<1> QED  BY <1>1, <1>2

(* The migration protocol is the hand-over of Handoff: every step of the   *)
(* hosts, the clients and the network is an abstract step of one           *)
(* connection, or none (take_connection, migrate_in_connection,            *)
(* poll_accept, receive).                                                  *)
THEOREM ProtocolImplementsHandoff ==
  ASSUME Reliable
  PROVE  Spec => ImplementsHandoff
<1>1. Init => ProtocolInv /\ ReadInv
  BY HandoffInvariants
<1>2. ProtocolInv /\ ReadInv /\ [Next]_vars => ProtocolInv' /\ ReadInv'
  BY HandoffInvariants
<1>3. Init => Abstract!Init
  BY HandoffInit
<1>4. ProtocolInv /\ ReadInv /\ [Next]_vars => [Abstract!Next]_(Abstract!vars)
  BY HandoffStep
<1> QED  BY <1>1, <1>2, <1>3, <1>4, PTL DEF Spec, ImplementsHandoff, Abstract!Spec

LEMMA Forgets ==
  ASSUME Reliable, ProtocolInv, [Next]_vars, NEW c \in Clients
  PROVE  AckedData(c) \subseteq AckedData(c)' /\ (Copies(c) # {} => Copies(c)' # {})
<1>1. OwnerInv /\ MaxDup = 0 /\ \A h \in Hosts : ~Lose(h) /\ ~RxUnexpected(h)
  BY ReliableSteps DEF ProtocolInv, Reliable
<1>2. \A x \in Copies(c) : \E y \in Copies(c)' : x.got \subseteq y.got
  BY <1>1, CopiesGrow
<1> QED  BY <1>2 DEF AckedData

(* What a host has received, and so may have acknowledged, is never        *)
(* forgotten: the client cannot send it again (to_state, from_state).      *)
THEOREM NothingForgotten ==
  ASSUME Reliable
  PROVE  Spec => NeverForgets
<1>1. ProtocolInv /\ [Next]_vars =>
        [\A c \in Clients : /\ AckedData(c) \subseteq AckedData(c)'
                            /\ Copies(c) # {} => Copies(c)' # {}]_vars
  BY Forgets
<1>2. Init => ProtocolInv
  BY ProtocolInit
<1>3. ProtocolInv /\ [Next]_vars => ProtocolInv'
  BY ProtocolStep
<1> QED  BY <1>1, <1>2, <1>3, PTL DEF Spec, NeverForgets
=============================================================================

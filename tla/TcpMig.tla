------------------------------- MODULE TcpMig -------------------------------
(***************************************************************************)
(* Live migration of TCP connections between the servers ("hosts") of a    *)
(* Capybara cluster: the socket tables of every host (tcp/peer.rs), its    *)
(* listening socket (tcp/passive_open.rs), the migration protocol peer     *)
(* (tcpmig/peer.rs, tcpmig/active.rs), and, as far as the hosts rely on    *)
(* them, the switch that steers a client's packets to the owner of its     *)
(* connection and the clients themselves.                                  *)
(*                                                                         *)
(* A host is single threaded: it handles one received packet, or one poll  *)
(* of one coroutine, to completion.  Each action below is one such step.   *)
(* All packets to a host arrive through one FIFO receive queue.  The       *)
(* switch forwards a packet in the step in which it is sent; since links   *)
(* are FIFO this orders the receive queues in every way a real delay can.  *)
(*                                                                         *)
(* Each host listens on one address, so that a connection, (local, remote) *)
(* in the code, is named by its client, the remote.                        *)
(***************************************************************************)
EXTENDS Naturals, Sequences, FiniteSets

CONSTANTS
    Hosts,          \* servers running the Capybara stack
    Clients,        \* remote addresses; each opens one connection
    QDs,            \* queue descriptors of a host
    None,           \* "no such entry"
    MaxData,        \* data segments a client sends
    MaxBacklog,     \* backlog given to listen()
    MaxMigrations,  \* bound: migrations the hosts decide on
    MaxBounces,     \* bound: times the switch returns a PREPARE to its origin
    MaxLoss,        \* bound: packets the network loses
    MaxDup,         \* bound: packets the network duplicates (next to each other)
    AppCloses       \* whether the server application closes connections

ASSUME BoundsAssumption ==
    /\ MaxData \in Nat /\ MaxBacklog \in Nat
    /\ MaxMigrations \in Nat /\ MaxBounces \in Nat
    /\ MaxLoss \in Nat /\ MaxDup \in Nat
    /\ AppCloses \in BOOLEAN

VARIABLES
    (* every host *)
    inq,         \* received packets not yet handled, in order
    inflight,    \* passive socket: clients with a handshake in progress
    ready,       \* passive socket: connections waiting to be accepted
    active,      \* active_migrations, by client
    established, \* control blocks of the connections served here, by client
    sockets,     \* sockets table, by queue descriptor
    qds,         \* queue descriptor of each served connection
    freeQds,     \* descriptors the file table can hand out
    acceptQd,    \* descriptor reserved by the pending accept operation
    pop,         \* state of the pop operation on each descriptor
    panicked,    \* reason the host aborted, or None
    (* switch, clients and history *)
    owner,       \* switch: the host a client's packets go to
    conn,        \* client: progress of its handshake
    sent,        \* client: data segments sent so far
    dropped,     \* segments nobody holds any more (0 is the handshake)
    delivered,   \* history: segments handed to the application, on any host
    (* what is left of the bounds *)
    budget

listenVars == <<inflight, ready>>
tableVars  == <<established, sockets, qds>>
appVars    == <<freeQds, acceptQd, pop>>
clientVars == <<owner, conn, sent, dropped>>
vars == <<inq, listenVars, active, tableVars, appVars, panicked, clientVars,
          delivered, budget>>

-----------------------------------------------------------------------------
(* Data. *)

Segs == 0..MaxData          \* 0 stands for the segment that opens a connection

(* What a control block knows about its byte stream: the segments it has   *)
(* received, in order or not, how far the application has read, and        *)
(* whether the load statistics still count the connection.                 *)
CB == [got: SUBSET Segs, read: Segs, tracked: BOOLEAN]

Segment == [type: {"SYN"}, client: Clients, seq: {0}]
           \cup [type: {"DATA"}, client: Clients, seq: Segs]
Control == [type: {"PREPARE", "PREPARE_ACK", "CONN_STATE_ACK"},
            client: Clients, src: Hosts]
State   == [type: {"CONN_STATE"}, client: Clients, src: Hosts, cb: CB]
Packet  == Segment \cup Control \cup State

Stages  == {"Prepare", "PrepareAck", "ConnState", "ConnStateAck"}

(* An ActiveMigration: the stage last sent, the descriptor (on the origin) *)
(* and the client's packets buffered while the connection is elsewhere.    *)
Migration == [stage: Stages, qd: QDs \cup {None}, buf: Seq(Segment)]

Socket == [tag: {"Established", "MigratedOut"}, client: Clients]

(* None is no entry of a table. *)
ASSUME NoneAssumption == None \notin QDs \cup Socket \cup CB \cup Migration

(* What is left of the bounds on migrations and on faults. *)
Budget == [migrations: 0..MaxMigrations, bounces: 0..MaxBounces,
           loss: 0..MaxLoss, dup: 0..MaxDup]

NewCB == [got |-> {}, read |-> 0, tracked |-> FALSE]

Syn(c)            == [type |-> "SYN", client |-> c, seq |-> 0]
Data(c, n)        == [type |-> "DATA", client |-> c, seq |-> n]
Prepare(c, h)     == [type |-> "PREPARE", client |-> c, src |-> h]
PrepareAck(c, h)  == [type |-> "PREPARE_ACK", client |-> c, src |-> h]
ConnState(c, h, cb) ==
    [type |-> "CONN_STATE", client |-> c, src |-> h, cb |-> cb]
ConnStateAck(c, h) == [type |-> "CONN_STATE_ACK", client |-> c, src |-> h]

(* ControlBlock::receive, to the extent that matters here: the segment is  *)
(* kept unless it was already there.                                       *)
CbReceive(cb, n) == [cb EXCEPT !.got = @ \cup {n}]

(* Replay of a buffer of packets into a control block. *)
NoReplay(cb, buf) == cb            \* mutant
CbReplay(cb, buf) == [cb EXCEPT !.got = @ \cup {buf[i].seq : i \in DOMAIN buf}]

(* The state a connection travels in: statistics handles stay behind. *)
SerializedFromStart(cb) ==         \* mutant: reader position not carried
    [cb EXCEPT !.tracked = FALSE, !.read = 0]
SerializedRead(cb) ==              \* mutant: receive queue not carried
    [cb EXCEPT !.tracked = FALSE, !.got = {n \in @ : n <= cb.read}]
Serialized(cb) == [cb EXCEPT !.tracked = FALSE]


-----------------------------------------------------------------------------
(* Helpers on a host's state. *)

Up(h)        == panicked[h] = None
Received(h)  == Up(h) /\ inq[h] # <<>>
Packet1(h)   == Head(inq[h])
ReadyAt(h)   == {ready[h][i].client : i \in DOMAIN ready[h]}
TcpMigTypes  == {"PREPARE", "PREPARE_ACK", "CONN_STATE", "CONN_STATE_ACK"}

(* The head of h's queue is consumed; p is sent to t in the same step. *)
Consume(h)      == inq' = [inq EXCEPT ![h] = Tail(@)]
Reply(h, t, p)  == LET rest == [inq EXCEPT ![h] = Tail(@)]
                   IN  inq' = [rest EXCEPT ![t] = Append(@, p)]
Transmit(t, p)  == inq' = [inq EXCEPT ![t] = Append(@, p)]

(* The descriptors through which h's application reads c's connection, and *)
(* the pops on them once the waker of the control block was called.        *)
IsOpenFor(h, q, c) == sockets[h][q] = [tag |-> "Established", client |-> c]

WakeReaders(h, c) ==
    pop' = [pop EXCEPT ![h] = [q \in QDs |->
                IF IsOpenFor(h, q, c) /\ @[q] = "asleep" THEN "runnable"
                                                         ELSE @[q]]]

(* The switch sends a PREPARE of h to the host of its choice, which may be *)
(* h itself.                                                               *)
Bounces(h, t) == IF t = h THEN 1 ELSE 0

(* A migration entry is removed. *)
LeaveMigration(h, c) == UNCHANGED active       \* mutant
CloseMigration(h, c) == active' = [active EXCEPT ![h][c] = None]

-----------------------------------------------------------------------------
(* Clients and switch (environment). *)

(* The first SYN: the switch picks the host that serves the connection.    *)
ClientConnect(c) ==
    /\ conn[c] = "closed"
    /\ conn' = [conn EXCEPT ![c] = "syn_sent"]
    /\ \E h \in Hosts : /\ owner' = [owner EXCEPT ![c] = h]
                        /\ Transmit(h, Syn(c))
    /\ UNCHANGED <<listenVars, active, tableVars, appVars, panicked, sent,
                   dropped, delivered, budget>>

(* The SYN+ACK of the serving host arrived: the client completes the       *)
(* handshake with an ACK and may send data.                                *)
ClientEstablish(c) ==
    /\ conn[c] = "syn_sent"
    /\ c \in inflight[owner[c]]
    /\ conn' = [conn EXCEPT ![c] = "open"]
    /\ Transmit(owner[c], Data(c, 0))
    /\ UNCHANGED <<listenVars, active, tableVars, appVars, panicked, owner,
                   sent, dropped, delivered, budget>>

ClientSend(c) ==
    /\ conn[c] = "open"
    /\ sent[c] < MaxData
    /\ sent' = [sent EXCEPT ![c] = @ + 1]
    /\ Transmit(owner[c], Data(c, sent[c] + 1))
    /\ UNCHANGED <<listenVars, active, tableVars, appVars, panicked, owner,
                   conn, dropped, delivered, budget>>

(* A segment nobody holds any more is sent again when its timer expires.   *)
ClientRetransmit(c) ==
    \E n \in dropped[c] :
        /\ dropped' = [dropped EXCEPT ![c] = @ \ {n}]
        /\ Transmit(owner[c],
                    IF conn[c] = "syn_sent" THEN Syn(c) ELSE Data(c, n))
        /\ UNCHANGED <<listenVars, active, tableVars, appVars, panicked, owner,
                       conn, sent, delivered, budget>>

(* The network loses the packet at the head of a queue ... *)
Lose(h) ==
    /\ inq[h] # <<>> /\ budget.loss > 0
    /\ Consume(h)
    /\ dropped' = IF Packet1(h).type \in {"SYN", "DATA"}
                    THEN [dropped EXCEPT ![Packet1(h).client] =
                                            @ \cup {Packet1(h).seq}]
                    ELSE dropped
    /\ budget' = [budget EXCEPT !.loss = @ - 1]
    /\ UNCHANGED <<listenVars, active, tableVars, appVars, panicked, owner,
                   conn, sent, delivered>>

(* ... or delivers it twice in a row. *)
Duplicate(h) ==
    /\ inq[h] # <<>> /\ budget.dup > 0
    /\ inq' = [inq EXCEPT ![h] = <<Head(@)>> \o @]
    /\ budget' = [budget EXCEPT !.dup = @ - 1]
    /\ UNCHANGED <<listenVars, active, tableVars, appVars, panicked,
                   clientVars, delivered>>

-----------------------------------------------------------------------------
(* A host receives a TCP segment: Inner::receive, which tries in turn the  *)
(* established connections, the active migrations and the listening socket. *)

(* To an established connection; a waiting pop is woken by new data. *)
RxEstablished(h) ==
    LET p == Packet1(h)
        c == p.client
    IN /\ Received(h)
       /\ p.type \in {"SYN", "DATA"}
       /\ established[h][c] # None
       /\ Consume(h)
       /\ established' = [established EXCEPT ![h][c] = CbReceive(@, p.seq)]
       /\ WakeReaders(h, c)
       /\ UNCHANGED <<listenVars, active, sockets, qds, freeQds, acceptQd,
                      panicked, clientVars, delivered, budget>>

(* To a connection being migrated: buffered (try_buffer_packet). *)
BuffersOnceReceived(h, c) ==       \* mutant: only after CONNECTION_STATE
    active[h][c] # None /\ active[h][c].stage = "ConnStateAck"
Buffers(h, c) == active[h][c] # None

RxBuffered(h) ==
    LET p == Packet1(h)
        c == p.client
    IN /\ Received(h)
       /\ p.type \in {"SYN", "DATA"}
       /\ established[h][c] = None
       /\ Buffers(h, c)
       /\ Consume(h)
       /\ active' = [active EXCEPT ![h][c].buf = Append(@, p)]
       /\ UNCHANGED <<listenVars, tableVars, appVars, panicked, clientVars,
                      delivered, budget>>

(* To the listening socket: PassiveSocket::receive.  A connection that is  *)
(* ready drops it; an ACK for a handshake in progress completes it (its    *)
(* payload is not looked at); a SYN starts one if the backlog allows.      *)
Completes(h, p) == p.client \in inflight[h] /\ p.type = "DATA"
Starts(h, p)    == /\ p.client \notin inflight[h] /\ p.type = "SYN"
                   /\ Cardinality(inflight[h]) + Len(ready[h]) < MaxBacklog

RxPassive(h) ==
    LET p == Packet1(h)
        c == p.client
    IN /\ Received(h)
       /\ p.type \in {"SYN", "DATA"}
       /\ established[h][c] = None
       /\ ~Buffers(h, c)
       /\ Consume(h)
       /\ \/ /\ c \notin ReadyAt(h) /\ Completes(h, p)
             /\ inflight' = [inflight EXCEPT ![h] = @ \ {c}]
             /\ ready' = [ready EXCEPT ![h] =
                                Append(@, [client |-> c, cb |-> NewCB])]
             /\ dropped' = [dropped EXCEPT ![c] = @ \cup ({p.seq} \ {0})]
          \/ /\ c \notin ReadyAt(h) /\ Starts(h, p)
             /\ inflight' = [inflight EXCEPT ![h] = @ \cup {c}]
             /\ UNCHANGED <<ready, dropped>>
          \/ /\ c \in ReadyAt(h) \/ ~(Completes(h, p) \/ Starts(h, p))
             /\ dropped' = [dropped EXCEPT ![c] = @ \cup {p.seq}]
             /\ UNCHANGED <<listenVars>>
       /\ UNCHANGED <<active, tableVars, appVars, panicked, owner, conn, sent,
                      delivered, budget>>

-----------------------------------------------------------------------------
(* Migration. *)

(* The load policy (or the application, which does so once per descriptor) *)
(* decides to migrate a connection: initiate_migration_by_addr and by_qd.  *)
InitiateMigration(h, c) ==
    /\ Up(h) /\ budget.migrations > 0
    /\ established[h][c] # None /\ established[h][c].tracked
    /\ qds[h][c] # None
    /\ active[h][c] = None
    /\ established' = [established EXCEPT ![h][c].tracked = FALSE]
    /\ active' = [active EXCEPT ![h][c] =
                    [stage |-> "Prepare", qd |-> qds[h][c], buf |-> <<>>]]
    /\ \E t \in Hosts :
        /\ budget.bounces >= Bounces(h, t)
        /\ budget' = [budget EXCEPT !.migrations = @ - 1,
                                    !.bounces = @ - Bounces(h, t)]
        /\ Transmit(t, Prepare(c, h))
    /\ UNCHANGED <<listenVars, sockets, qds, appVars, panicked, clientVars,
                   delivered>>

(* PREPARE at a target: an entry that buffers the client's packets, and an *)
(* acknowledgement whose LOAD flag makes the switch steer the client here. *)
RxPrepare(h) ==
    LET p == Packet1(h)
        c == p.client
    IN /\ Received(h)
       /\ p.type = "PREPARE"
       /\ active[h][c] = None
       /\ active' = [active EXCEPT ![h][c] =
                        [stage |-> "PrepareAck", qd |-> None, buf |-> <<>>]]
       /\ Reply(h, p.src, PrepareAck(c, h))
       /\ owner' = [owner EXCEPT ![c] = h]
       /\ UNCHANGED <<listenVars, tableVars, appVars, panicked, conn, sent,
                      dropped, delivered, budget>>

(* PREPARE while the connection already has an entry: the host takes it    *)
(* for its own, returned by the switch.  The old entry is dropped and the  *)
(* migration initiated once more.                                          *)
RxReturned(h) ==
    LET p == Packet1(h)
        c == p.client
    IN /\ Received(h)
       /\ p.type = "PREPARE"
       /\ active[h][c] # None
       /\ p.src = h /\ qds[h][c] # None /\ established[h][c] # None
       /\ established' = [established EXCEPT ![h][c].tracked = FALSE]
       /\ active' = [active EXCEPT ![h][c] =
                        [stage |-> "Prepare", qd |-> qds[h][c], buf |-> <<>>]]
       /\ \E t \in Hosts :
            /\ budget.bounces >= Bounces(h, t)
            /\ budget' = [budget EXCEPT !.bounces = @ - Bounces(h, t)]
            /\ Reply(h, t, Prepare(c, h))
       /\ UNCHANGED <<listenVars, sockets, qds, appVars, panicked, clientVars,
                      delivered>>

(* migrate_out_connection: the socket is marked, the other two tables      *)
(* forget the connection, and a pop that waits on it is woken.             *)
MigrateOutKeepsCB(h, q, c) ==      \* mutant
    /\ sockets' = [sockets EXCEPT ![h][q].tag = "MigratedOut"]
    /\ qds' = [qds EXCEPT ![h][c] = None]
    /\ UNCHANGED established
    /\ WakeReaders(h, c)


MigrateOut(h, q, c) ==
    /\ sockets' = [sockets EXCEPT ![h][q].tag = "MigratedOut"]
    /\ qds' = [qds EXCEPT ![h][c] = None]
    /\ established' = [established EXCEPT ![h][c] = None]
    /\ WakeReaders(h, c)

(* PREPARE_ACK at the origin: the connection that now has the descriptor   *)
(* of the migration leaves, and its state is sent (send_tcp_state).        *)
MigrateOutConn(h, p) == sockets[h][active[h][p.client].qd].client

CanMigrateOut(h, p) ==
    LET q == active[h][p.client].qd
    IN /\ q # None
       /\ sockets[h][q] # None /\ sockets[h][q].tag = "Established"
       /\ qds[h][MigrateOutConn(h, p)] # None
       /\ established[h][MigrateOutConn(h, p)] # None
       /\ active[h][MigrateOutConn(h, p)] # None
       /\ active[h][MigrateOutConn(h, p)].stage = "Prepare"

RxPrepareAck(h) ==
    LET p == Packet1(h)
        q == active[h][p.client].qd
        c == MigrateOutConn(h, p)
    IN /\ Received(h)
       /\ p.type = "PREPARE_ACK"
       /\ active[h][p.client] # None /\ active[h][p.client].stage = "Prepare"
       /\ CanMigrateOut(h, p)
       /\ MigrateOut(h, q, c)
       /\ active' = [active EXCEPT ![h][c].stage = "ConnState"]
       /\ \E t \in IF c = p.client THEN {p.src} ELSE Hosts \ {h} :
            Reply(h, t, ConnState(c, h, Serialized(established[h][c])))
       /\ UNCHANGED <<listenVars, freeQds, acceptQd, panicked, clientVars,
                      delivered, budget>>

(* CONNECTION_STATE at the target: acknowledged, then the connection waits *)
(* to be accepted (migrate_in_connection, push_migrated_in).               *)
RxConnState(h) ==
    LET p == Packet1(h)
        c == p.client
    IN /\ Received(h)
       /\ p.type = "CONN_STATE"
       /\ active[h][c] # None /\ active[h][c].stage = "PrepareAck"
       /\ c \notin ReadyAt(h)
       /\ active' = [active EXCEPT ![h][c].stage = "ConnStateAck"]
       /\ ready' = [ready EXCEPT ![h] = Append(@, [client |-> c, cb |-> p.cb])]
       /\ Reply(h, p.src, ConnStateAck(c, h))
       /\ UNCHANGED <<inflight, tableVars, appVars, panicked, clientVars,
                      delivered, budget>>

(* CONNECTION_STATE_ACK at the origin: the migration is over; the packets  *)
(* its entry may have buffered go with it.                                 *)
RxConnStateAck(h) ==
    LET p == Packet1(h)
        c == p.client
        buf == active[h][c].buf
    IN /\ Received(h)
       /\ p.type = "CONN_STATE_ACK"
       /\ active[h][c] # None /\ active[h][c].stage = "ConnState"
       /\ Consume(h)
       /\ CloseMigration(h, c)
       /\ dropped' = [dropped EXCEPT ![c] =
                            @ \cup {buf[i].seq : i \in DOMAIN buf}]
       /\ UNCHANGED <<listenVars, tableVars, appVars, panicked, owner, conn,
                      sent, delivered, budget>>

(* Any other message for the stage the entry is in is refused (EBADMSG)    *)
(* or, once the state was acknowledged, silently ignored.                  *)
Expected(stage) == CASE stage = "Prepare"      -> "PREPARE_ACK"
                     [] stage = "PrepareAck"   -> "CONN_STATE"
                     [] stage = "ConnState"    -> "CONN_STATE_ACK"
                     [] stage = "ConnStateAck" -> "nothing"

RxUnexpected(h) ==
    LET p == Packet1(h)
    IN /\ Received(h)
       /\ p.type \in TcpMigTypes \ {"PREPARE"}
       /\ active[h][p.client] # None
       /\ p.type # Expected(active[h][p.client].stage)
       /\ Consume(h)
       /\ UNCHANGED <<listenVars, active, tableVars, appVars, panicked,
                      clientVars, delivered, budget>>

-----------------------------------------------------------------------------
(* The server application and the coroutines that serve it. *)

(* accept(): reserves the descriptor of the next connection. *)
AcceptLeavesFree(h) ==             \* mutant
    /\ Up(h) /\ acceptQd[h] = None
    /\ \E q \in freeQds[h] : acceptQd' = [acceptQd EXCEPT ![h] = q]
    /\ UNCHANGED <<inq, listenVars, active, tableVars, freeQds, pop, panicked,
                   clientVars, delivered, budget>>

Accept(h) ==
    /\ Up(h) /\ acceptQd[h] = None
    /\ \E q \in freeQds[h] :
        /\ acceptQd' = [acceptQd EXCEPT ![h] = q]
        /\ freeQds' = [freeQds EXCEPT ![h] = @ \ {q}]
    /\ UNCHANGED <<inq, listenVars, active, tableVars, pop, panicked,
                   clientVars, delivered, budget>>

(* Conditions under which poll_accept can enter the connection. *)
Acceptable(h) ==
    LET c == Head(ready[h]).client
        s == sockets[h][acceptQd[h]]
    IN /\ s # None => s.tag = "MigratedOut"
       /\ qds[h][c] = None /\ established[h][c] = None

Acceptor(h) == Up(h) /\ acceptQd[h] # None /\ ready[h] # <<>>

(* poll_accept: takes the oldest ready connection, replays what its        *)
(* migration buffered, and enters it in the three tables.                  *)
PollAccept(h) ==
    LET c   == Head(ready[h]).client
        cb  == Head(ready[h]).cb
        buf == IF active[h][c] = None THEN <<>> ELSE active[h][c].buf
    IN /\ Acceptor(h)
       /\ Acceptable(h)
       /\ ready' = [ready EXCEPT ![h] = Tail(@)]
       /\ CloseMigration(h, c)
       /\ established' = [established EXCEPT ![h][c] =
                                [CbReplay(cb, buf) EXCEPT !.tracked = TRUE]]
       /\ sockets' = [sockets EXCEPT ![h][acceptQd[h]] =
                                [tag |-> "Established", client |-> c]]
       /\ qds' = [qds EXCEPT ![h][c] = acceptQd[h]]
       /\ acceptQd' = [acceptQd EXCEPT ![h] = None]
       /\ UNCHANGED <<inq, inflight, freeQds, pop, panicked, clientVars,
                      delivered, budget>>

(* pop(): schedules a coroutine that will poll the descriptor. *)
Pop(h, q) ==
    /\ Up(h)
    /\ sockets[h][q] # None /\ pop[h][q] = "idle"
    /\ pop' = [pop EXCEPT ![h][q] = "runnable"]
    /\ UNCHANGED <<inq, listenVars, active, tableVars, freeQds, acceptQd,
                   panicked, clientVars, delivered, budget>>

(* poll_recv by a runnable pop: the next segment in order, or wait for it. *)
PollRecv(h, q) ==
    LET c  == sockets[h][q].client
        cb == established[h][c]
        next == cb.read + 1
    IN /\ Up(h) /\ pop[h][q] = "runnable"
       /\ sockets[h][q] # None /\ sockets[h][q].tag = "Established"
       /\ cb # None
       /\ \/ /\ next \in cb.got
             /\ pop' = [pop EXCEPT ![h][q] = "idle"]
             /\ established' = [established EXCEPT ![h][c].read = next]
             /\ delivered' = [delivered EXCEPT ![c] = @ + 1]
          \/ /\ next \notin cb.got
             /\ pop' = [pop EXCEPT ![h][q] = "asleep"]
             /\ UNCHANGED <<established, delivered>>
       /\ UNCHANGED <<inq, listenVars, active, sockets, qds, freeQds, acceptQd,
                      panicked, clientVars, budget>>

(* A runnable pop on a connection that left returns ETCPMIG, after which   *)
(* the application stops using the descriptor.                             *)
PollMigratedOut(h, q) ==
    /\ Up(h) /\ pop[h][q] = "runnable"
    /\ sockets[h][q] # None /\ sockets[h][q].tag = "MigratedOut"
    /\ pop' = [pop EXCEPT ![h][q] = "migrated"]
    /\ UNCHANGED <<inq, listenVars, active, tableVars, freeQds, acceptQd,
                   panicked, clientVars, delivered, budget>>

(* close(), by an application that has no pop pending on the descriptor:   *)
(* the socket goes, the control block and the qds entry stay.  On a socket *)
(* that migrated out close() fails after removing the socket, and the      *)
(* descriptor is not freed.                                                *)
Close(h, q) ==
    /\ AppCloses /\ Up(h)
    /\ sockets[h][q] # None /\ pop[h][q] \in {"idle", "migrated"}
    /\ sockets' = [sockets EXCEPT ![h][q] = None]
    /\ freeQds' = IF sockets[h][q].tag = "Established"
                    THEN [freeQds EXCEPT ![h] = @ \cup {q}] ELSE freeQds
    /\ pop' = [pop EXCEPT ![h][q] = "idle"]
    /\ UNCHANGED <<inq, listenVars, active, established, qds, acceptQd,
                   panicked, clientVars, delivered, budget>>

-----------------------------------------------------------------------------
(* Where the code gives up: panic!, expect, unwrap and assert! abort the   *)
(* process.  The reasons for which h's next step would do so.              *)
Reasons == {"no such active migration", "no QD found for connection",
            "invalid QD for migrating out", "cannot migrate out",
            "endpoint is ready twice", "duplicate entry in a table",
            "duplicate initiate migration"}

Reason(r, condition) == IF condition THEN {r} ELSE {}

NoEntry(h, p) == /\ p.type \in TcpMigTypes \ {"PREPARE"}
                 /\ active[h][p.client] = None
NotMine(h, p) == /\ p.type = "PREPARE" /\ active[h][p.client] # None
                 /\ ~(p.src = h /\ qds[h][p.client] # None
                                /\ established[h][p.client] # None)
Acked(h, p)   == /\ p.type = "PREPARE_ACK" /\ active[h][p.client] # None
                 /\ active[h][p.client].stage = "Prepare"
NoSocket(h, p) == sockets[h][active[h][p.client].qd] = None
Twice(h, p)   == /\ p.type = "CONN_STATE" /\ active[h][p.client] # None
                 /\ active[h][p.client].stage = "PrepareAck"
                 /\ p.client \in ReadyAt(h)

RxPanics(h) ==
    IF ~Received(h) THEN {} ELSE
    LET p == Packet1(h) IN
        Reason("no such active migration", NoEntry(h, p))
        \cup Reason("no QD found for connection", NotMine(h, p))
        \cup Reason("invalid QD for migrating out",
                    Acked(h, p) /\ NoSocket(h, p))
        \cup Reason("cannot migrate out",
                    Acked(h, p) /\ ~NoSocket(h, p) /\ ~CanMigrateOut(h, p))
        \cup Reason("endpoint is ready twice", Twice(h, p))

AcceptPanics(h) ==
    Reason("duplicate entry in a table", Acceptor(h) /\ ~Acceptable(h))

PolicyPanics(h) ==
    Reason("duplicate initiate migration",
           Up(h) /\ \E c \in Clients :
                        /\ established[h][c] # None
                        /\ established[h][c].tracked
                        /\ active[h][c] # None)

Abort(h) ==
    /\ \E why \in RxPanics(h) \cup AcceptPanics(h) \cup PolicyPanics(h) :
            panicked' = [panicked EXCEPT ![h] = why]
    /\ UNCHANGED <<inq, listenVars, active, tableVars, appVars, clientVars,
                   delivered, budget>>

-----------------------------------------------------------------------------
Init ==
    /\ inq         = [h \in Hosts |-> <<>>]
    /\ inflight    = [h \in Hosts |-> {}]
    /\ ready       = [h \in Hosts |-> <<>>]
    /\ active      = [h \in Hosts |-> [c \in Clients |-> None]]
    /\ established = [h \in Hosts |-> [c \in Clients |-> None]]
    /\ sockets     = [h \in Hosts |-> [q \in QDs |-> None]]
    /\ qds         = [h \in Hosts |-> [c \in Clients |-> None]]
    /\ freeQds     = [h \in Hosts |-> QDs]
    /\ acceptQd    = [h \in Hosts |-> None]
    /\ pop         = [h \in Hosts |-> [q \in QDs |-> "idle"]]
    /\ panicked    = [h \in Hosts |-> None]
    /\ owner       \in [Clients -> Hosts]
    /\ conn        = [c \in Clients |-> "closed"]
    /\ sent        = [c \in Clients |-> 0]
    /\ dropped     = [c \in Clients |-> {}]
    /\ delivered   = [c \in Clients |-> 0]
    /\ budget      = [migrations |-> MaxMigrations, bounces |-> MaxBounces,
                      loss |-> MaxLoss, dup |-> MaxDup]

Client(c) == \/ ClientConnect(c) \/ ClientEstablish(c)
             \/ ClientSend(c) \/ ClientRetransmit(c)

Receive(h) == \/ RxEstablished(h) \/ RxBuffered(h) \/ RxPassive(h)
              \/ RxPrepare(h) \/ RxReturned(h) \/ RxPrepareAck(h)
              \/ RxConnState(h) \/ RxConnStateAck(h) \/ RxUnexpected(h)

Next ==
    \/ \E c \in Clients : Client(c)
    \/ \E h \in Hosts :
        \/ Receive(h) \/ Accept(h) \/ PollAccept(h) \/ Abort(h)
        \/ Lose(h) \/ Duplicate(h)
        \/ \E c \in Clients : InitiateMigration(h, c)
        \/ \E q \in QDs : \/ Pop(h, q) \/ PollRecv(h, q)
                          \/ PollMigratedOut(h, q) \/ Close(h, q)

Spec == Init /\ [][Next]_vars

(* The poll loop of a host handles every packet received and polls every   *)
(* runnable coroutine; the application re-arms accept and pop; a client    *)
(* keeps connecting and retransmitting.  Nothing obliges a host to migrate *)
(* or to close a connection, or a client to send.                          *)
Fairness ==
    /\ \A h \in Hosts :
        /\ WF_vars(Receive(h)) /\ WF_vars(Accept(h)) /\ WF_vars(PollAccept(h))
        /\ \A q \in QDs : WF_vars(Pop(h, q) \/ PollRecv(h, q)
                                            \/ PollMigratedOut(h, q))
    /\ \A c \in Clients :
        WF_vars(ClientConnect(c) \/ ClientEstablish(c) \/ ClientRetransmit(c))

FairSpec == Spec /\ Fairness

-----------------------------------------------------------------------------
(* Properties. *)

(* Every variable keeps its shape; descriptors are reserved or free, never *)
(* both (Inner, TcpMigPeer and PassiveSocket keep well-formed tables).     *)
TypeOK ==
    /\ inq \in [Hosts -> Seq(Packet)]
    /\ inflight \in [Hosts -> SUBSET Clients]
    /\ ready \in [Hosts -> Seq([client: Clients, cb: CB])]
    /\ active \in [Hosts -> [Clients -> Migration \cup {None}]]
    /\ established \in [Hosts -> [Clients -> CB \cup {None}]]
    /\ sockets \in [Hosts -> [QDs -> Socket \cup {None}]]
    /\ qds \in [Hosts -> [Clients -> QDs \cup {None}]]
    /\ freeQds \in [Hosts -> SUBSET QDs]
    /\ acceptQd \in [Hosts -> QDs \cup {None}]
    /\ pop \in [Hosts -> [QDs -> {"idle", "runnable", "asleep", "migrated"}]]
    /\ panicked \in [Hosts -> Reasons \cup {None}]
    /\ owner \in [Clients -> Hosts]
    /\ conn \in [Clients -> {"closed", "syn_sent", "open"}]
    /\ sent \in [Clients -> Segs]
    /\ dropped \in [Clients -> SUBSET Segs]
    /\ delivered \in [Clients -> Nat]
    /\ budget \in Budget

(* Where the state of a connection can be: in a host's tables, in its      *)
(* queue of connections to accept, or in a CONNECTION_STATE message.       *)
InTable(c, h)    == established[h][c] # None
InReady(c, h, i) == i \in DOMAIN ready[h] /\ ready[h][i].client = c
InNet(c, h, i)   == /\ i \in DOMAIN inq[h]
                    /\ inq[h][i].type = "CONN_STATE" /\ inq[h][i].client = c

Copies(c) ==
    UNION {   ({established[h][c]} \ {None})
          \cup {ready[h][i].cb : i \in {j \in DOMAIN ready[h] : InReady(c, h, j)}}
          \cup {inq[h][i].cb : i \in {j \in DOMAIN inq[h] : InNet(c, h, j)}}
          : h \in Hosts}

(* A connection is in one place at a time: however many migrations overlap *)
(* and whatever is lost, no two hosts (and no host and a message) hold its *)
(* state, so that it can never be served twice.                            *)
SingleOwner ==
    \A c \in Clients, g, h \in Hosts :
        /\ InTable(c, g) /\ InTable(c, h) => g = h
        /\ \A i \in DOMAIN ready[g] :
            InReady(c, g, i) =>
                /\ ~InTable(c, h)
                /\ \A j \in DOMAIN ready[h] : InReady(c, h, j) => g = h /\ i = j
                /\ \A j \in DOMAIN inq[h] : ~InNet(c, h, j)
        /\ \A i \in DOMAIN inq[g] :
            InNet(c, g, i) =>
                /\ ~InTable(c, h)
                /\ \A j \in DOMAIN inq[h] : InNet(c, h, j) => g = h /\ i = j

(* With a network that duplicates packets in place, at most one copy ever  *)
(* becomes a control block, established or waiting to be accepted: the     *)
(* stage of the migration entry turns the second CONNECTION_STATE away.    *)
OneControlBlock ==
    \A c \in Clients, g, h \in Hosts :
        /\ InTable(c, g) /\ InTable(c, h) => g = h
        /\ \A i \in DOMAIN ready[g] :
            InReady(c, g, i) =>
                /\ ~InTable(c, h)
                /\ \A j \in DOMAIN ready[h] : InReady(c, h, j) => g = h /\ i = j

(* sockets, qds and established are three views of the same connections:   *)
(* migrate_out_connection and poll_accept panic when they differ.  A closed*)
(* connection only leaves the first.                                       *)
TablesAgree ==
    \A h \in Hosts, c \in Clients :
        /\ established[h][c] # None <=> qds[h][c] # None
        /\ \A q \in QDs : IsOpenFor(h, q, c) => qds[h][c] = q
        /\ ~AppCloses /\ qds[h][c] # None => IsOpenFor(h, qds[h][c], c)

(* A descriptor is free, reserved by an accept, or the descriptor of a     *)
(* socket, never two of these: the file table and the sockets table would  *)
(* otherwise hand one connection's descriptor to another.                  *)
DescriptorsUnique ==
    \A h \in Hosts, q \in QDs :
        /\ ~(q \in freeQds[h] /\ q = acceptQd[h])
        /\ sockets[h][q] # None => q \notin freeQds[h] /\ q # acceptQd[h]

(* "invalid QD for migrating out" (tcp/peer.rs): the descriptor a          *)
(* migration was initiated with is still a socket when the target's        *)
(* acknowledgement arrives.                                                *)
QdOutlivesMigration ==
    \A h \in Hosts : panicked[h] # "invalid QD for migrating out"

(* On a network that neither loses nor duplicates, and with an application *)
(* that closes nothing, no host ever aborts: the protocol never reaches    *)
(* one of its panics, whatever overlaps.                                   *)
NoAbort == \A h \in Hosts : Up(h)

(* Of what a client sent, every segment was received, is on its way, waits *)
(* in the buffer of a migration, or is known to be dropped.                *)
DataConserved ==
    \A c \in Clients : \A n \in 1..sent[c] :
        \/ n \in dropped[c]
        \/ \E cb \in Copies(c) : n \in cb.got
        \/ \E h \in Hosts :
            \/ \E i \in DOMAIN inq[h] : inq[h][i] = Data(c, n)
            \/ active[h][c] # None /\ \E i \in DOMAIN active[h][c].buf :
                                        active[h][c].buf[i] = Data(c, n)

(* The application reads each segment once, in order, across hosts: every  *)
(* copy of the state resumes exactly where the last host's reader stopped. *)
ReadsResume ==
    \A c \in Clients : \A cb \in Copies(c) : cb.read = delivered[c]

(* Migration costs the client no segment: once its connection was accepted *)
(* nothing it sends is discarded, before, during or after a hand-over.     *)
Serving(c) == \E h \in Hosts : established[h][c] # None \/ active[h][c] # None
MigrationDropsNothing ==
    [][\A c \in Clients : Serving(c) => dropped'[c] \subseteq dropped[c]]_vars

(* What the server received, and so may have acknowledged, it never        *)
(* forgets: a client discards acknowledged data and cannot send it again.  *)
AckedData(c) == UNION {cb.got : cb \in Copies(c)}
NeverForgets ==
    [][\A c \in Clients : /\ AckedData(c) \subseteq AckedData(c)'
                          /\ Copies(c) # {} => Copies(c)' # {}]_vars

(* The protocol implements the hand-over of Handoff, whose place of a      *)
(* connection is the host that has it in its tables.                       *)
Place(c) == IF \E h \in Hosts : InTable(c, h)
              THEN CHOOSE h \in Hosts : InTable(c, h)
              ELSE IF Copies(c) = {} THEN "none" ELSE "moving"

Abstract == INSTANCE Handoff WITH place <- [c \in Clients |-> Place(c)],
                                  got   <- [c \in Clients |-> AckedData(c)],
                                  read  <- delivered
ImplementsHandoff == Abstract!Spec

(* Every migration that starts comes to an end at every host involved.     *)
MigrationEnds ==
    \A h \in Hosts, c \in Clients : active[h][c] # None ~> active[h][c] = None

(* Whatever is sent is read by the application on some host.               *)
AllDelivered ==
    \A c \in Clients : \A n \in 1..MaxData : sent[c] >= n ~> delivered[c] >= n

(* "never returning ETCPMIG error" is the deadlock the wake-up in          *)
(* migrate_out_connection is there for: a pop pending on a connection that *)
(* migrates away returns ETCPMIG.                                          *)
LeftBehind(h, q) ==
    sockets[h][q] # None /\ sockets[h][q].tag = "MigratedOut"

OriginIsTold ==
    \A h \in Hosts, q \in QDs :
        LeftBehind(h, q) /\ pop[h][q] # "idle" ~> pop[h][q] = "migrated"

(* What was sent is kept or known to be dropped, and every copy of a       *)
(* connection resumes where the last reader stopped (to_state, from_state).*)
DataKept == DataConserved /\ ReadsResume

(* Connections and descriptors: the three tables agree and no descriptor   *)
(* has two uses (poll_accept, migrate_out_connection, close).              *)
TablesHold == TablesAgree /\ DescriptorsUnique

(* Every migration comes to an end, and the application of the origin is   *)
(* told so (take_connection, migrate_out_connection).                      *)
MigrationsEnd == MigrationEnds /\ OriginIsTold
=============================================================================

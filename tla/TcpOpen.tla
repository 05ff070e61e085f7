------------------------------ MODULE TcpOpen -------------------------------
(***************************************************************************)
(* Opening TCP connections between a client host and a server host: the    *)
(* calls of the application (inetstack/mod.rs), the tables of the TCP peer *)
(* (tcp/peer.rs) with its ephemeral ports (ip/ephemeral.rs), the active    *)
(* open (tcp/active_open.rs), the listening socket (tcp/passive_open.rs)   *)
(* and the coroutines that send SYN and SYN+ACK again.                     *)
(*                                                                         *)
(* The client application opens, binds, connects and closes sockets; the   *)
(* server application accepts on one address, where it listens, or does    *)
(* not, from the start.  The remote address is always the server's, so a   *)
(* connection is named by its local port at the client.  Segments may be   *)
(* lost, delayed or duplicated.  A timer may expire whenever it is set,    *)
(* and ARP knows both hosts: a failed query uses up a try of the           *)
(* handshake, as a lost segment does.                                      *)
(***************************************************************************)
EXTENDS Naturals, Sequences, FiniteSets

CONSTANTS
    QDs,          \* queue descriptors of the client, numbers
    Ephemeral,    \* private ports (is_private)
    Fixed,        \* other ports a client binds explicitly
    CorePorts,    \* of these, the one of CORE_ID that the pool holds as well
    Accepts,      \* accept operations of the server
    None,         \* "no such entry"
    Retries,      \* handshake_retries
    Backlog,      \* backlog given to listen()
    MaxIsn,       \* bound: initial sequence numbers a host generates
    MaxDup        \* bound: segments the network delivers twice

Ports == Ephemeral \cup Fixed
Isns  == 1..MaxIsn

ASSUME OpenAssumption ==
    /\ Ephemeral \cap Fixed = {} /\ CorePorts \subseteq Fixed
    /\ 0 \notin Ports
    /\ None \notin Ports \cup QDs \cup Accepts
    /\ None \notin Nat /\ QDs \subseteq Nat /\ Accepts \subseteq Nat
    /\ Retries \in Nat \ {0} /\ Backlog \in Nat \ {0}
    /\ MaxIsn \in Nat /\ MaxDup \in Nat

VARIABLES
    (* client *)
    fileTable,    \* descriptors in use
    sockets,      \* Inner.sockets
    pool,         \* EphemeralPorts.ports
    connecting,   \* Inner.connecting, by local port
    op,           \* the connect operation on each descriptor: none, runnable, asleep
    established,  \* Inner.established, by local port
    isn,          \* isn_generator: the last number given out
    (* server *)
    listening,    \* whether the passive socket exists
    inflight,     \* PassiveSocket.inflight, by client port
    ready,        \* ReadySockets.ready
    waker,        \* ReadySockets.waker: the operation it wakes
    accepting,    \* each accept operation: idle (not called), runnable, asleep, done
    serving,      \* the server's established table, by client port
    serverIsn,    \* isn_generator of the passive socket
    (* both *)
    net,          \* segments on their way
    panicked,     \* an assertion failed
    budget        \* duplications left

clientVars == <<fileTable, sockets, pool, connecting, op, established, isn>>
serverVars == <<listening, inflight, ready, waker, accepting, serving, serverIsn>>
vars == <<clientVars, serverVars, net, panicked, budget>>

-----------------------------------------------------------------------------
(* Data. *)

Socket(tag, port) == [tag |-> tag, port |-> port]
(* A control block: the initial numbers of both sides, and its state.      *)
Pair(mine, theirs) == [mine |-> mine, theirs |-> theirs, open |-> TRUE]
TimedOut == [mine |-> 0, theirs |-> 0, open |-> FALSE]      \* Err(ETIMEDOUT), not a block

(* An ActiveOpenSocket: its number, its ConnectResult and how many more    *)
(* SYNs its coroutine sends (None once it has timed out).                  *)
Active(n) == [isn |-> n, result |-> None, waker |-> None, tries |-> Retries]

Segment(to, port, syn, seq, ack) ==
    [to |-> to, port |-> port, syn |-> syn, seq |-> seq, ack |-> ack]
Syn(p, n)        == Segment("server", p, TRUE, n, None)
SynAck(p, n, m)  == Segment("client", p, TRUE, n, m)
Ack(to, p, n, m) == Segment(to, p, FALSE, n, m)
(* send_rst sets neither a sequence nor an acknowledgement number. *)
Rst(to, p)       == Segment(to, p, FALSE, None, None)

(* The values of the tables; only a segment with SYN always has a number.  *)
Block    == [mine: Nat, theirs: Nat, open: BOOLEAN]
Opening  == [isn: Nat, result: Block \cup {None}, waker: QDs \cup {None},
             tries: Nat \cup {None}]
Endpoint == [tag: {"Inactive", "Connecting", "Established"}, port: Ports \cup {None}]
Embryo   == [mine: Nat, theirs: Nat, tries: Nat]
Waiting  == [port: Ports, cb: Block]
Segments ==
    [to: {"client", "server"}, port: Ports, syn: {TRUE}, seq: Nat, ack: Nat \cup {None}]
    \cup [to: {"client", "server"}, port: Ports, syn: {FALSE}, seq: Nat \cup {None},
          ack: Nat \cup {None}]

(* None is no entry of a table. *)
ASSUME NoneAssumption == None \notin Block \cup Opening \cup Endpoint \cup Embryo

Bound(p)  == \E q \in QDs : sockets[q] # None /\ sockets[q].port = p
ReadyPorts == {ready[i].port : i \in DOMAIN ready}

-----------------------------------------------------------------------------
(* Calls of the client application. *)

(* The table of descriptors gives out a free one: the least, as any other  *)
(* would be this one renamed.                                              *)
DoSocket(q) ==
    /\ panicked' = (panicked \/ sockets[q] # None)
    /\ sockets' = [sockets EXCEPT ![q] = Socket("Inactive", None)]
SocketCall(q) ==
    /\ q \notin fileTable /\ \A r \in QDs : r < q => r \in fileTable
    /\ fileTable' = fileTable \cup {q}
    /\ DoSocket(q)
    /\ UNCHANGED <<pool, connecting, op, established, isn, serverVars, net, budget>>

(* bind to a given port, or to any (0).  The port is taken from the pool   *)
(* before the descriptor is looked at, and given back if that fails: but   *)
(* only a private one.  A given port that is not private is not looked for *)
(* in the pool, although the pool may hold it.                             *)
Choices(addr) ==
    IF addr = 0 THEN pool ELSE IF addr \in Ephemeral THEN {addr} \cap pool ELSE {addr}
Taken(addr, p) == IF addr \in Fixed THEN pool ELSE pool \ {p}
DoBindUnreserved(q, addr) ==       \* mutant: the port stays in the pool
    \E p \in Choices(addr) :
        /\ ~Bound(addr) /\ sockets[q] = Socket("Inactive", None)
        /\ sockets' = [sockets EXCEPT ![q].port = p]
        /\ UNCHANGED pool
DoBind(q, addr) ==
    \E p \in Choices(addr) :
        /\ ~Bound(addr)
        /\ \/ /\ sockets[q] = Socket("Inactive", None)
              /\ sockets' = [sockets EXCEPT ![q].port = p]
              /\ pool' = Taken(addr, p)
           \/ /\ sockets[q] # Socket("Inactive", None)       \* rolled back
              /\ pool' = IF p \in Ephemeral THEN pool ELSE Taken(addr, p)
              /\ UNCHANGED sockets
Bind(q, addr) ==
    /\ q \in fileTable /\ DoBind(q, addr)
    /\ UNCHANGED <<fileTable, connecting, op, established, isn, serverVars, net,
                   panicked, budget>>

(* connect.  The socket is Connecting before the table of active opens is  *)
(* found to have an entry for the address: then the call fails, and the    *)
(* new active open replaces the old one with nobody to wait for it.        *)
DoConnect(q, p) ==
    /\ sockets[q] # None /\ sockets[q].tag = "Inactive" /\ isn < MaxIsn
    /\ \/ sockets[q].port = None /\ p \in pool /\ pool' = pool \ {p}
       \/ sockets[q].port = p /\ UNCHANGED pool
    /\ sockets' = [sockets EXCEPT ![q] = Socket("Connecting", p)]
    /\ isn' = isn + 1
    /\ connecting' = [connecting EXCEPT ![p] = Active(isn + 1)]
Connect(q) ==
    /\ q \in fileTable
    /\ \E p \in Ports :
        /\ DoConnect(q, p)
        /\ op' = [op EXCEPT ![q] = IF connecting[p] = None THEN "runnable" ELSE "none"]
    /\ UNCHANGED <<fileTable, established, serverVars, net, panicked, budget>>

(* close.  Only that of an established connection succeeds; any other      *)
(* removes the socket all the same and keeps the descriptor.               *)
DoClose(q) == sockets[q] # None /\ sockets' = [sockets EXCEPT ![q] = None]
Close(q) ==
    /\ q \in fileTable /\ DoClose(q)
    /\ fileTable' = IF sockets[q].tag = "Established" THEN fileTable \ {q} ELSE fileTable
    /\ UNCHANGED <<pool, connecting, op, established, isn, serverVars, net, panicked,
                   budget>>

-----------------------------------------------------------------------------
(* Coroutines of the client. *)

Woken(s)  == IF s = "asleep" THEN "runnable" ELSE s
WakeUp(w) == [q \in QDs |-> IF q = w THEN Woken(op[q]) ELSE op[q]]

(* ActiveOpenSocket::background: SYNs, each with a timeout after it, then  *)
(* a timeout for a result, whatever the result was.                        *)
SendSyn(p) ==
    /\ connecting[p] # None /\ connecting[p].tries \in 1..Retries
    /\ net' = net \cup {Syn(p, connecting[p].isn)}
    /\ connecting' = [connecting EXCEPT ![p].tries = @ - 1]
    /\ UNCHANGED <<fileTable, sockets, pool, op, established, isn, serverVars,
                   panicked, budget>>

TimeOut(p) ==
    /\ connecting[p] # None /\ connecting[p].tries = 0
    /\ connecting' = [connecting EXCEPT ![p].tries = None, ![p].waker = None,
                                        ![p].result = TimedOut]
    /\ op' = WakeUp(connecting[p].waker)
    /\ UNCHANGED <<fileTable, sockets, pool, established, isn, serverVars, net,
                   panicked, budget>>

(* poll_connect_finished. *)
PollResult(q, p) ==
    /\ connecting[p].result = None
    /\ op' = [op EXCEPT ![q] = "asleep"]
    /\ connecting' = [connecting EXCEPT ![p].waker = q]
PollConnect(q) ==
    LET p == sockets[q].port
        found == /\ sockets[q] # None /\ sockets[q].tag = "Connecting"
                 /\ connecting[p] # None
        result == connecting[p].result
    IN  /\ op[q] = "runnable"
        /\ \/ /\ ~found
              /\ op' = [op EXCEPT ![q] = "none"]
              /\ UNCHANGED <<sockets, connecting, established, panicked>>
           \/ /\ found /\ PollResult(q, p)
              /\ UNCHANGED <<sockets, established, panicked>>
           \/ /\ found /\ result = TimedOut
              /\ op' = [op EXCEPT ![q] = "none"]
              /\ connecting' = [connecting EXCEPT ![p] = None]
              /\ UNCHANGED <<sockets, established, panicked>>
           \/ /\ found /\ result \notin {None, TimedOut}
              /\ op' = [op EXCEPT ![q] = "none"]
              /\ connecting' = [connecting EXCEPT ![p] = None]
              /\ established' = [established EXCEPT ![p] = result]
              /\ sockets' = [sockets EXCEPT ![q].tag = "Established"]
              /\ panicked' = (panicked \/ established[p] # None)
        /\ UNCHANGED <<fileTable, pool, isn, serverVars, net, budget>>

-----------------------------------------------------------------------------
(* What a received segment s does; the action that delivers it says        *)
(* whether the network keeps a copy.  rest is what remains in the network. *)

(* ActiveOpenSocket::receive. *)
AnswersAny(s, c) == s.syn          \* mutant: any SYN+ACK will do
Answers(s, c) == s.ack = c.isn /\ s.syn
ClientConnecting(s, rest) ==
    LET p == s.port IN
    /\ established[p] = None /\ connecting[p] # None
    /\ IF Answers(s, connecting[p])
         THEN /\ net' = rest \cup {Ack("server", p, connecting[p].isn, s.seq)}
              /\ connecting' = [connecting EXCEPT ![p].waker = None,
                                    ![p].result = Pair(connecting[p].isn, s.seq)]
              /\ op' = WakeUp(connecting[p].waker)
         ELSE net' = rest /\ UNCHANGED <<connecting, op>>
    /\ UNCHANGED <<fileTable, sockets, pool, established, isn>>

(* ControlBlock::receive: what is older than the peer's side of the        *)
(* connection is acknowledged and dropped; a SYN that is newer is in the   *)
(* window, for the numbers of one port only grow, and closes the block.    *)
(* The segments of send_rst, numbered 0, are outside the window.           *)
Old(s, cb) == s.seq # None /\ (s.seq < cb.theirs \/ (s.syn /\ s.seq = cb.theirs))
New(s, cb) == s.syn /\ s.seq > cb.theirs
Answer(to, s, cb) == IF Old(s, cb) THEN {Ack(to, s.port, cb.mine, cb.theirs)} ELSE {}
After(s, cb) == IF New(s, cb) THEN [cb EXCEPT !.open = FALSE] ELSE cb

ClientEstablished(s, rest) ==
    LET p == s.port  cb == established[p] IN
    /\ cb # None
    /\ net' = rest \cup Answer("server", s, cb)
    /\ established' = [established EXCEPT ![p] = After(s, cb)]
    /\ UNCHANGED <<fileTable, sockets, pool, connecting, op, isn>>

(* No socket is open for it: send_rst. *)
ClientRefuses(s, rest) ==
    /\ established[s.port] = None /\ connecting[s.port] = None
    /\ net' = rest \cup {Rst("server", s.port)}
    /\ UNCHANGED clientVars

ClientReceive(s, rest) ==
    /\ s.to = "client"
    /\ \/ ClientEstablished(s, rest) \/ ClientConnecting(s, rest)
       \/ ClientRefuses(s, rest)
    /\ UNCHANGED <<serverVars, panicked>>

-----------------------------------------------------------------------------
(* The server. *)

WakeAccept(w) == [a \in Accepts |-> IF a = w THEN Woken(accepting[a]) ELSE accepting[a]]

(* ReadySockets::push_ok. *)
PushOkSilently(p, cb) ==           \* mutant: the accept operation is not woken
    /\ ready' = Append(ready, [port |-> p, cb |-> cb])
    /\ panicked' = (panicked \/ p \in ReadyPorts)
    /\ UNCHANGED <<waker, accepting>>
PushOk(p, cb) ==
    /\ ready' = Append(ready, [port |-> p, cb |-> cb])
    /\ panicked' = (panicked \/ p \in ReadyPorts)
    /\ waker' = None
    /\ accepting' = WakeAccept(waker)

ServerEstablished(s, rest) ==
    LET p == s.port  cb == serving[p] IN
    /\ cb # None
    /\ net' = rest \cup Answer("client", s, cb)
    /\ serving' = [serving EXCEPT ![p] = After(s, cb)]
    /\ UNCHANGED <<listening, inflight, ready, waker, accepting, serverIsn, panicked>>

(* No socket is open for it: send_rst. *)
ServerRefuses(s, rest) ==
    /\ serving[s.port] = None /\ ~listening
    /\ net' = rest \cup {Rst("client", s.port)}
    /\ UNCHANGED <<serverVars, panicked>>

(* PassiveSocket::receive. *)
Ignored(s)    == s.port \in ReadyPorts
Acknowledges(s, a) == ~s.syn /\ s.ack = a.mine
Refused       == Cardinality({p \in Ports : inflight[p] # None}) + Len(ready) >= Backlog
IsSyn(s)      == s.syn /\ s.ack = None

Finish(s) ==             \* the acknowledgement of the SYN+ACK
    LET p == s.port  a == inflight[p] IN
    /\ ~Ignored(s) /\ a # None /\ Acknowledges(s, a)
    /\ inflight' = [inflight EXCEPT ![p] = None]
    /\ PushOk(p, Pair(a.mine, a.theirs))
    /\ UNCHANGED <<listening, serving, serverIsn>>
Begin(s) ==              \* a SYN
    LET p == s.port IN
    /\ ~Ignored(s) /\ inflight[p] = None /\ IsSyn(s) /\ ~Refused
    /\ serverIsn' = serverIsn + 1
    /\ inflight' = [inflight EXCEPT ![p] =
                       [mine |-> serverIsn + 1, theirs |-> s.seq, tries |-> Retries]]
    /\ UNCHANGED <<listening, ready, waker, accepting, serving, panicked>>
Drop(s) ==               \* every other segment: an error, or nothing
    /\ \/ Ignored(s)
       \/ inflight[s.port] # None /\ ~Acknowledges(s, inflight[s.port])
       \/ inflight[s.port] = None /\ (~IsSyn(s) \/ Refused)
    /\ UNCHANGED <<serverVars, panicked>>

ServerReceive(s, rest) ==
    /\ s.to = "server"
    /\ \/ ServerEstablished(s, rest)
       \/ ServerRefuses(s, rest)
       \/ /\ serving[s.port] = None /\ listening /\ net' = rest
          /\ (Finish(s) \/ Begin(s) \/ Drop(s))
    /\ UNCHANGED clientVars

(* PassiveSocket::background.  When the tries are used up it ends, and     *)
(* the entry of inflight stays.                                            *)
SendSynAck(p) ==
    /\ inflight[p] # None /\ inflight[p].tries > 0
    /\ net' = net \cup {SynAck(p, inflight[p].mine, inflight[p].theirs)}
    /\ inflight' = [inflight EXCEPT ![p].tries = @ - 1]
    /\ UNCHANGED <<clientVars, listening, ready, waker, accepting, serving, serverIsn,
                   panicked, budget>>

(* The operations are called in the order of their names. *)
Accept(a) ==
    /\ listening /\ accepting[a] = "idle"
    /\ \A b \in Accepts : b < a => accepting[b] # "idle"
    /\ accepting' = [accepting EXCEPT ![a] = "runnable"]
    /\ UNCHANGED <<clientVars, listening, inflight, ready, waker, serving, serverIsn,
                   net, panicked, budget>>

(* ReadySockets::poll. *)
PollReady(a) ==
    \/ /\ ready = <<>>
       /\ accepting' = [accepting EXCEPT ![a] = "asleep"]
       /\ waker' = a
       /\ UNCHANGED ready
    \/ /\ ready # <<>>
       /\ ready' = Tail(ready)
       /\ accepting' = [accepting EXCEPT ![a] = "done"]
       /\ UNCHANGED waker
PollAccept(a) ==
    /\ accepting[a] = "runnable"
    /\ PollReady(a)
    /\ IF ready = <<>> THEN UNCHANGED <<serving, panicked>>
         ELSE LET p == Head(ready).port IN
              /\ panicked' = (panicked \/ serving[p] # None)
              /\ serving' = [serving EXCEPT ![p] = Head(ready).cb]
    /\ UNCHANGED <<clientVars, listening, inflight, serverIsn, net, budget>>

-----------------------------------------------------------------------------
(* The network: a segment that is lost is one that stays in net for ever.  *)

Receive(s, rest) == ClientReceive(s, rest) \/ ServerReceive(s, rest)

Deliver(s) == s \in net /\ Receive(s, net \ {s}) /\ UNCHANGED budget
DeliverTwice(s) ==
    /\ s \in net /\ budget > 0 /\ Receive(s, net)
    /\ budget' = budget - 1

-----------------------------------------------------------------------------

NewPassive ==
    /\ inflight = [p \in Ports |-> None] /\ ready = <<>> /\ waker = None /\ serverIsn = 0
Init ==
    /\ fileTable = {} /\ sockets = [q \in QDs |-> None]
    /\ pool = Ephemeral \cup CorePorts
    /\ connecting = [p \in Ports |-> None] /\ op = [q \in QDs |-> "none"]
    /\ established = [p \in Ports |-> None] /\ isn = 0
    /\ listening \in BOOLEAN /\ NewPassive /\ accepting = [a \in Accepts |-> "idle"]
    /\ serving = [p \in Ports |-> None]
    /\ net = {} /\ panicked = FALSE /\ budget = MaxDup

ClientCoroutine ==
    \/ \E p \in Ports : SendSyn(p) \/ TimeOut(p)
    \/ \E q \in QDs : PollConnect(q)
Next ==
    /\ ~panicked
    /\ \/ \E q \in QDs : SocketCall(q) \/ Connect(q) \/ Close(q)
       \/ \E q \in QDs, p \in Ports \cup {0} : Bind(q, p)
       \/ ClientCoroutine
       \/ \E p \in Ports : SendSynAck(p)
       \/ \E a \in Accepts : Accept(a) \/ PollAccept(a)
       \/ \E s \in net : Deliver(s) \/ DeliverTwice(s)
Spec == Init /\ [][Next]_vars

(* The scheduler runs what is runnable, and a timer that is set expires;   *)
(* what the application and the network do is up to them.  It runs every   *)
(* coroutine, but that some of each host is run is enough here.            *)
FairSpec ==
    /\ Spec
    /\ WF_vars(~panicked /\ ClientCoroutine)
    /\ WF_vars(~panicked /\ \E a \in Accepts : PollAccept(a))

-----------------------------------------------------------------------------
(* Properties. *)

(* What the tables of both peers hold (Inner, PassiveSocket). *)
TypeOK ==
    /\ fileTable \in SUBSET QDs /\ pool \in SUBSET (Ephemeral \cup CorePorts)
    /\ sockets \in [QDs -> Endpoint \cup {None}]
    /\ connecting \in [Ports -> Opening \cup {None}]
    /\ op \in [QDs -> {"none", "runnable", "asleep"}]
    /\ established \in [Ports -> Block \cup {None}]
    /\ serving \in [Ports -> Block \cup {None}]
    /\ inflight \in [Ports -> Embryo \cup {None}]
    /\ ready \in Seq(Waiting)
    /\ waker \in Accepts \cup {None}
    /\ accepting \in [Accepts -> {"idle", "runnable", "asleep", "done"}]
    /\ isn \in Nat /\ serverIsn \in Nat /\ budget \in Nat
    /\ net \in SUBSET Segments
    /\ listening \in BOOLEAN /\ panicked \in BOOLEAN

(* The port of CORE_ID, once the pool has given it out: nobody looked      *)
(* whether a socket was bound to it explicitly.                            *)
GivenOut == CorePorts \ pool

(* A connection the client takes for established is one the server holds,  *)
(* being opened, ready or accepted, and both agree on the two initial      *)
(* numbers, whatever was lost, delayed, duplicated or tried again; and as  *)
(* long as a socket of the client stands for it no segment has closed it   *)
(* at the server, unless it has the port of CORE_ID, from which another    *)
(* socket may send a SYN (active_open.rs receive, passive_open.rs receive).*)
Held(p) ==
    (IF inflight[p] = None THEN {} ELSE {Pair(inflight[p].mine, inflight[p].theirs)})
    \cup {ready[i].cb : i \in {j \in DOMAIN ready : ready[j].port = p}}
    \cup (IF serving[p] = None THEN {} ELSE {serving[p]})
HandshakeAgrees ==
    \A p \in Ports : established[p] # None =>
        \E cb \in Held(p) :
            /\ cb.mine = established[p].theirs /\ cb.theirs = established[p].mine
            /\ (\E q \in QDs : sockets[q] = Socket("Established", p))
                  => cb.open \/ p \in GivenOut

(* No two sockets share a port, unless it is that of CORE_ID; a private    *)
(* port of the pool belongs to no socket and to no connection, open or     *)
(* being opened; and the descriptor of a socket is not free.  A failed     *)
(* connect, a failed close and a rolled back bind all keep this (peer.rs   *)
(* bind, connect, do_close; ephemeral.rs).                                 *)
PortsHeld ==
    /\ \A q, r \in QDs : /\ q # r /\ sockets[q] # None /\ sockets[r] # None
                         /\ sockets[q].port # None
                         => \/ sockets[q].port # sockets[r].port
                            \/ sockets[q].port \in GivenOut
    /\ \A p \in pool \ CorePorts :
            ~Bound(p) /\ connecting[p] = None /\ established[p] = None
    /\ \A q \in QDs : sockets[q] # None => q \in fileTable

(* None of the assertions on the tables of connections fails: a connection *)
(* becomes ready, accepted or established once (passive_open.rs push_ok,   *)
(* peer.rs poll_accept and poll_connect_finished).                         *)
NoPanic == ~panicked

(* A connect does not last for ever: it ends, in success or in failure,    *)
(* unless the application closes the socket meanwhile, or another socket   *)
(* connects from the port of CORE_ID too: it replaces the active open, and *)
(* with it the waker (active_open.rs background, set_result; peer.rs       *)
(* connect).                                                               *)
ConnectEnds ==
    \A q \in QDs : []<>(op[q] = "none" \/ sockets[q] = None \/ sockets[q].port \in GivenOut)

(* No accept is pending for ever while a connection is ready (inetstack    *)
(* accept: the token "can be used to wait for a connection request to      *)
(* arrive"), unless it sleeps and is forgotten, another one having been    *)
(* polled after it: the queue keeps one waker (passive_open.rs poll).      *)
Pending(a)   == accepting[a] \in {"runnable", "asleep"}
Forgotten(a) == accepting[a] = "asleep" /\ waker # a
AcceptEnds ==
    \A a \in Accepts : []<>(~Pending(a) \/ Forgotten(a) \/ ready = <<>>)

(* Ports, descriptors and the tables of connections hold together (bind,   *)
(* connect, poll_accept, do_close).                                        *)
TablesHold == PortsHeld /\ NoPanic

(* Neither side waits for ever (background, poll_accept).                  *)
OpensEnd == ConnectEnds /\ AcceptEnds
============================================================================

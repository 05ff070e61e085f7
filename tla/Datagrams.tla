------------------------------ MODULE Datagrams ------------------------------
(***************************************************************************)
(* UDP (udp/peer.rs, udp/queue.rs, udp/futures/pop.rs) and ICMPv4          *)
(* (icmpv4/peer.rs) of one host, on top of its address resolution (Arp).   *)
(*                                                                         *)
(* A datagram for a neighbour whose link address is known leaves at once.  *)
(* Any other goes to one bounded queue, which a background coroutine       *)
(* empties: it awaits the queue, and then the query of each datagram's     *)
(* address.  Another coroutine answers echo requests in the same way, and  *)
(* a ping queries, sends and waits for its reply or a timeout.  They share *)
(* the cache and the wait queues of ARP with the coroutines of TCP, which  *)
(* may be dropped while they wait.                                         *)
(*                                                                         *)
(* Everything runs on one thread: while the coroutine of UDP is being      *)
(* polled ("running") nothing else happens.                                *)
(***************************************************************************)
EXTENDS Arp, Sequences, Functions

CONSTANTS
    QDs,            \* queue descriptors
    Endpoints,      \* local addresses and ports
    Ephemeral,      \* those with a private port
    CorePorts,      \* those with the port 9999 + CORE_ID
    Fallback,       \* the same port at the wildcard address
    Pings,          \* calls of ping()
    Capacity,       \* SEND_QUEUE_MAX_SIZE and RECV_QUEUE_MAX_SIZE
    Loads           \* bounds: how many sockets are opened and
                    \* datagrams pushed, how many datagrams and echo requests
                    \* arrive, how many pings and whether TCP queries too;
                    \* and whether CORE_ID is set

(* A coroutine has a query for each address, of which it runs one at a     *)
(* time.                                                                   *)
Coroutines == {"udp", "icmp", "tcp"} \cup Pings
CoroutineQueries == Coroutines \X Addrs
QueryAddr == [q \in CoroutineQueries |-> q[2]]

ASSUME DatagramAssumption ==
    /\ Queries = CoroutineQueries /\ AddrOf = QueryAddr
    /\ Endpoints \cap {"free", "leaked", "unbound"} = {}
    /\ Ephemeral \subseteq Endpoints /\ CorePorts \subseteq Endpoints \ Ephemeral
    /\ Fallback \in [Endpoints -> Endpoints]
    /\ Capacity \in Nat \ {0, 1}
    /\ Loads \subseteq [opens : Nat, pushes : Nat, arrivals : Nat, echoes : Nat,
                        pings : Nat, tcp : BOOLEAN, core : BOOLEAN]

VARIABLES
    sockets,        \* UdpPeer.sockets: "free", "leaked", "unbound" or an endpoint
    opens,          \* how often a descriptor was given out
    pool,           \* EphemeralPorts: the ports in it, as wildcard endpoints
    bound,          \* UdpPeer.bound: the receive queue of an endpoint; 0: none
    doubled,        \* whether an endpoint was given out that a socket had
    queues,         \* receive queues: of a datagram, the socket it is meant for
    pops,           \* pop operations under way
    read,           \* of the last datagram read: who was meant, and who read it
    sendq,          \* UdpPeer.send_queue
    udp,            \* the background coroutine: its state, and its datagram
    pushed,         \* datagrams pushed so far; they are numbered
    lastSent,       \* the last one that left through the queue
    arrivals,       \* datagrams that arrived
    echoes,         \* echo requests to answer: who sent them
    icmp,           \* the coroutine that answers: the address it resolves
    echoed,         \* echo requests that arrived
    ping,           \* progress of a ping
    requests,       \* Icmpv4Peer.requests
    load            \* the bounds of this run

udpVars  == <<sockets, opens, pool, bound, doubled, queues, pops, read, arrivals>>
sendVars == <<sendq, udp, pushed, lastSent>>
icmpVars == <<echoes, icmp, echoed, ping, requests, load>>
datagramVars == <<arpVars, panicked, udpVars, sendVars, icmpVars>>

NoQueue == 0
NoDatagram == [n |-> 0, to |-> CHOOSE a \in Addrs : TRUE]
Quiet == Running /\ udp.state # "running"

-----------------------------------------------------------------------------
(* SharedQueue::push: a full queue loses its older half. *)

Newer(q)     == SubSeq(q, Len(q) - Capacity \div 2 + 2, Len(q))
Pushed(q, x) == Append(IF Len(q) = Capacity THEN Newer(q) ELSE q, x)

-----------------------------------------------------------------------------
(* UDP: calls of the application, and datagrams that arrive. *)

IsBound(q) == sockets[q] \in Endpoints
Reads(q)   == IsBound(q) /\ bound[sockets[q]] # NoQueue
Owner(q)   == <<q, opens[q]>>

SocketCall(q) ==
    /\ Quiet /\ sockets[q] = "free" /\ FoldFunction(+, 0, opens) < load.opens
    /\ sockets' = [sockets EXCEPT ![q] = "unbound"]
    /\ opens' = [opens EXCEPT ![q] = @ + 1]
    /\ UNCHANGED <<arpVars, panicked, pool, bound, doubled, queues, pops, read, arrivals,
                   sendVars, icmpVars>>

(* bind.  The queue of the endpoint is new, even if there was one.         *)
BindTo(q, e) ==
    /\ sockets' = [sockets EXCEPT ![q] = e]
    /\ queues' = Append(queues, <<>>)
    /\ bound' = [bound EXCEPT ![e] = Len(queues) + 1]
    /\ doubled' = (doubled \/ bound[e] # NoQueue)

(* To a given endpoint: a private port is taken out of the pool, which has *)
(* no part in any other.  Where it fails the port is given back.           *)
Bind(q, e) ==
    /\ Quiet /\ bound[e] = NoQueue /\ (e \in Ephemeral => Fallback[e] \in pool)
    /\ sockets[q] = "unbound"
    /\ pool' = IF e \in Ephemeral THEN pool \ {Fallback[e]} ELSE pool
    /\ BindTo(q, e)
    /\ UNCHANGED <<arpVars, panicked, opens, pops, read, arrivals, sendVars, icmpVars>>

(* To port 0: the pool gives the port, and whether a socket has the        *)
(* endpoint was asked before.  The error that is returned if one has comes *)
(* too late; for a socket that is bound already, the port of the core is   *)
(* lost.                                                                   *)
BindAny(q, e) ==
    /\ Quiet /\ Fallback[e] \in pool
    /\ \/ /\ sockets[q] = "unbound"
          /\ pool' = pool \ {Fallback[e]}
          /\ BindTo(q, e)
       \/ /\ IsBound(q) /\ e \notin Ephemeral
          /\ pool' = pool \ {Fallback[e]}
          /\ UNCHANGED <<sockets, queues, bound, doubled>>
    /\ UNCHANGED <<arpVars, panicked, opens, pops, read, arrivals, sendVars, icmpVars>>

(* close.  The port does not go back to the pool; that of a socket without *)
(* a queue fails once the socket is removed, and keeps the descriptor.     *)
CloseKeepsBinding(q) ==            \* mutant: the endpoint stays bound
    /\ Quiet /\ sockets[q] \in Endpoints \cup {"unbound"}
    /\ sockets' = [sockets EXCEPT ![q] = IF Reads(q) THEN "free" ELSE "leaked"]
    /\ UNCHANGED <<arpVars, panicked, opens, pool, bound, doubled, queues, pops, read,
                   arrivals, sendVars, icmpVars>>
Close(q) ==
    /\ Quiet /\ sockets[q] \in Endpoints \cup {"unbound"}
    /\ sockets' = [sockets EXCEPT ![q] = IF Reads(q) THEN "free" ELSE "leaked"]
    /\ bound' = [e \in Endpoints |-> IF e = sockets[q] THEN NoQueue ELSE bound[e]]
    /\ UNCHANGED <<arpVars, panicked, opens, pool, doubled, queues, pops, read, arrivals,
                   sendVars, icmpVars>>

(* pop: the operation keeps the queue, even past the close of the socket.  *)
(* It panics for a socket that has none.                                   *)
Pop(q) ==
    /\ Quiet /\ sockets[q] \in Endpoints \cup {"unbound"}
    /\ panicked' = ~Reads(q)
    /\ pops' = IF Reads(q) THEN pops \cup {[by |-> Owner(q), queue |-> bound[sockets[q]]]}
                           ELSE pops
    /\ UNCHANGED <<arpVars, sockets, opens, pool, bound, doubled, queues, read, arrivals,
                   sendVars, icmpVars>>

(* UdpPopFuture::poll, which asks to be polled again and again.            *)
PollPop(o) ==
    /\ Quiet /\ o \in pops /\ queues[o.queue] # <<>>
    /\ queues' = [queues EXCEPT ![o.queue] = Tail(@)]
    /\ read' = [meant |-> Head(queues[o.queue]), by |-> {o.by}]
    /\ pops' = pops \ {o}
    /\ UNCHANGED <<arpVars, panicked, sockets, opens, pool, bound, doubled, arrivals,
                   sendVars, icmpVars>>

(* Who a datagram to e is meant for: the socket of that endpoint, or else  *)
(* that of the wildcard address.                                           *)
Meant(e) ==
    LET of(f) == {Owner(q) : q \in {r \in QDs : sockets[r] = f}}
    IN  IF of(e) # {} THEN of(e) ELSE of(Fallback[e])

(* do_receive. *)
Receiver(e) == IF bound[e] # NoQueue THEN bound[e] ELSE bound[Fallback[e]]
Arrive(e) ==
    LET k == Receiver(e) IN
    /\ Quiet /\ arrivals < load.arrivals
    /\ arrivals' = arrivals + 1
    /\ queues' = IF k = NoQueue THEN queues
                 ELSE [queues EXCEPT ![k] = Pushed(@, Meant(e))]
    /\ UNCHANGED <<arpVars, panicked, sockets, opens, pool, bound, doubled, pops, read,
                   sendVars, icmpVars>>

(* pushto.  The coroutine keeps the queue borrowed while it awaits it, so  *)
(* that a push that finds it full, before the coroutine has run, panics.   *)
PushTo(q, a) ==
    /\ Quiet /\ pushed < load.pushes /\ IsBound(q)
    /\ pushed' = pushed + 1
    /\ IF Known(a) THEN UNCHANGED <<sendq, panicked>>
       ELSE /\ panicked' = (Len(sendq) = Capacity /\ udp.state = "popping")
            /\ sendq' = IF panicked' THEN sendq
                        ELSE Pushed(sendq, [n |-> pushed + 1, to |-> a])
    /\ UNCHANGED <<arpVars, udpVars, udp, lastSent, icmpVars>>

-----------------------------------------------------------------------------
(* background_sender. *)

UdpIs(state, d) == udp' = [state |-> state, dgram |-> d]
UdpQuery == <<"udp", udp.dgram.to>>

(* It takes a datagram; the query for its address is answered from the     *)
(* cache, or it waits.                                                     *)
DoSend(d) == lastSent' = d.n
UdpTake ==
    LET d == Head(sendq) IN
    /\ Running /\ udp.state \in {"created", "popping", "running"} /\ sendq # <<>>
    /\ sendq' = Tail(sendq)
    /\ \/ /\ Known(d.to)
          /\ UdpIs("running", NoDatagram)
          /\ DoSend(d)
          /\ UNCHANGED <<arpVars, panicked>>
       \/ /\ Start(<<"udp", d.to>>)
          /\ UdpIs("querying", d)
          /\ UNCHANGED lastSent
    /\ UNCHANGED <<udpVars, pushed, icmpVars>>

UdpPark ==
    /\ Running /\ udp.state \in {"created", "running"} /\ sendq = <<>>
    /\ UdpIs("popping", NoDatagram)
    /\ UNCHANGED <<arpVars, panicked, udpVars, sendq, pushed, lastSent, icmpVars>>

UdpAnswered ==
    /\ udp.state = "querying" /\ Answered(UdpQuery)
    /\ UdpIs("running", NoDatagram)
    /\ DoSend(udp.dgram)
    /\ UNCHANGED <<udpVars, sendq, pushed, icmpVars>>

UdpGiveUpRequeues ==               \* mutant: a datagram without an address is tried again
    /\ udp.state = "querying" /\ GiveUp(UdpQuery)
    /\ UdpIs("running", NoDatagram)
    /\ sendq' = Append(sendq, udp.dgram)
    /\ UNCHANGED <<udpVars, lastSent, pushed, icmpVars>>
UdpGiveUp ==
    /\ udp.state = "querying" /\ GiveUp(UdpQuery)
    /\ UdpIs("running", NoDatagram)
    /\ UNCHANGED <<udpVars, sendq, lastSent, pushed, icmpVars>>

UdpWaits ==
    /\ udp.state = "querying" /\ (Retry(UdpQuery) \/ Dropped(UdpQuery))
    /\ UNCHANGED <<udpVars, sendVars, icmpVars>>

UdpPoll == UdpTake \/ UdpPark \/ UdpAnswered \/ UdpGiveUp \/ UdpWaits

-----------------------------------------------------------------------------
(* ICMP. *)

Idle == "idle"
IcmpQuery == <<"icmp", icmp>>

EchoArrives(a) ==
    /\ Quiet /\ echoed < load.echoes
    /\ echoed' = echoed + 1
    /\ echoes' = Append(echoes, a)
    /\ UNCHANGED <<arpVars, panicked, udpVars, sendVars, icmp, ping, requests, load>>

(* background. *)
IcmpTake ==
    LET a == Head(echoes) IN
    /\ Quiet /\ icmp = Idle /\ echoes # <<>>
    /\ echoes' = Tail(echoes)
    /\ \/ Known(a) /\ UNCHANGED <<arpVars, panicked, icmp>>
       \/ Start(<<"icmp", a>>) /\ icmp' = a
    /\ UNCHANGED <<udpVars, sendVars, echoed, ping, requests, load>>
IcmpEnds ==
    /\ Quiet /\ icmp # Idle
    /\ \/ (Answered(IcmpQuery) \/ GiveUp(IcmpQuery)) /\ icmp' = Idle
       \/ (Retry(IcmpQuery) \/ Dropped(IcmpQuery)) /\ UNCHANGED icmp
    /\ UNCHANGED <<udpVars, sendVars, echoes, echoed, ping, requests, load>>

(* ping: the request is sent and registered in one go.                     *)
PingSends(p) ==
    /\ ping' = [ping EXCEPT ![p] = "waiting"]
    /\ requests' = requests \cup {p}
PingCall(p, a) ==
    /\ Quiet /\ ping[p] = "idle"
    /\ Cardinality({r \in Pings : ping[r] # "idle"}) < load.pings
    /\ \/ Known(a) /\ PingSends(p) /\ UNCHANGED <<arpVars, panicked>>
       \/ Start(<<p, a>>) /\ ping' = [ping EXCEPT ![p] = a] /\ UNCHANGED requests
    /\ UNCHANGED <<udpVars, sendVars, echoes, icmp, echoed, load>>
PingResolves(p) ==
    /\ Quiet /\ ping[p] \in Addrs
    /\ \/ Answered(<<p, ping[p]>>) /\ PingSends(p)
       \/ GiveUp(<<p, ping[p]>>) /\ ping' = [ping EXCEPT ![p] = "failed"] /\ UNCHANGED requests
       \/ (Retry(<<p, ping[p]>>) \/ Dropped(<<p, ping[p]>>)) /\ UNCHANGED <<ping, requests>>
    /\ UNCHANGED <<udpVars, sendVars, echoes, icmp, echoed, load>>

(* A reply, possibly late; it removes the request.                         *)
ReplyArrives(p) ==
    /\ Quiet /\ p \in requests
    /\ requests' = requests \ {p}
    /\ ping' = [ping EXCEPT ![p] = IF @ = "waiting" THEN "replied" ELSE @]
    /\ UNCHANGED <<arpVars, panicked, udpVars, sendVars, echoes, icmp, echoed, load>>
(* The future finds the reply, or that its timer has expired: the request  *)
(* then stays.                                                             *)
PingEnd(p) ==
    /\ Quiet
    /\ \/ ping[p] = "replied" /\ ping' = [ping EXCEPT ![p] = "done"]
       \/ ping[p] \in {"waiting", "replied"} /\ ping' = [ping EXCEPT ![p] = "failed"]
    /\ UNCHANGED <<arpVars, panicked, udpVars, sendVars, echoes, icmp, echoed, requests, load>>

-----------------------------------------------------------------------------
(* A coroutine of TCP queries too, and may be dropped.                     *)
TcpQuery(a) ==
    LET q == <<"tcp", a>> IN
    /\ Quiet /\ load.tcp
    /\ (\A b \in Addrs : ~Waiting(<<"tcp", b>>)) /\ Start(q)
    /\ UNCHANGED <<udpVars, sendVars, icmpVars>>
TcpPoll(a) ==
    LET q == <<"tcp", a>> IN
    /\ Quiet
    /\ (Answered(q) \/ GiveUp(q) \/ Retry(q) \/ Dropped(q))
    /\ UNCHANGED <<udpVars, sendVars, icmpVars>>
TcpCancel(a) ==
    Quiet /\ Cancel(<<"tcp", a>>) /\ UNCHANGED <<udpVars, sendVars, icmpVars>>

-----------------------------------------------------------------------------
NewUdpPeer ==
    /\ sockets = [q \in QDs |-> "free"] /\ opens = [q \in QDs |-> 0]
    /\ pool = {Fallback[e] : e \in Ephemeral \cup (IF load.core THEN CorePorts ELSE {})}
    /\ bound = [e \in Endpoints |-> NoQueue] /\ doubled = FALSE /\ queues = <<>> /\ pops = {}
    /\ read = [meant |-> {}, by |-> {}]
    /\ sendq = <<>> /\ udp = [state |-> "created", dgram |-> NoDatagram]
    /\ pushed = 0 /\ lastSent = 0 /\ arrivals = 0
NewIcmpPeer ==
    /\ echoes = <<>> /\ icmp = Idle /\ echoed = 0
    /\ ping = [p \in Pings |-> "idle"] /\ requests = {}
Init == load \in Loads /\ ArpInit /\ NewUdpPeer /\ NewIcmpPeer

Call(q) ==
    \/ SocketCall(q) \/ Close(q) \/ Pop(q)
    \/ \E e \in Endpoints : Bind(q, e) \/ BindAny(q, e)
    \/ \E a \in Addrs : PushTo(q, a)
PingPoll(p) == PingResolves(p) \/ PingEnd(p)

Next ==
    \/ \E q \in QDs : Call(q)
    \/ \E o \in pops : PollPop(o)
    \/ \E e \in Endpoints : Arrive(e)
    \/ \E a \in Addrs : EchoArrives(a) \/ TcpQuery(a) \/ TcpPoll(a) \/ TcpCancel(a)
    \/ UdpPoll \/ IcmpTake \/ IcmpEnds
    \/ \E p \in Pings : \/ ReplyArrives(p) \/ PingPoll(p)
                        \/ \E a \in Addrs : PingCall(p, a)
    \/ Quiet /\ Neighbours /\ UNCHANGED <<udpVars, sendVars, icmpVars>>
Spec == Init /\ [][Next]_datagramVars

(* The scheduler polls a coroutine when its queue, its channel or its      *)
(* timer wakes it; nobody is obliged to answer.                            *)
FairSpec ==
    /\ Spec
    /\ WF_datagramVars(UdpPoll) /\ WF_datagramVars(IcmpTake \/ IcmpEnds)
    /\ \A a \in Addrs : WF_datagramVars(TcpPoll(a))
    /\ \A p \in Pings : WF_datagramVars(PingPoll(p))

-----------------------------------------------------------------------------
(* Properties. *)

(* What went through the queue leaves in the order it was pushed and       *)
(* leaves once, however the queue was full, queries failed and datagrams   *)
(* for known neighbours overtook it (peer.rs background_sender, queue.rs   *)
(* push, pop).                                                             *)
InFlight == (IF udp.state = "querying" THEN <<udp.dgram>> ELSE <<>>) \o sendq
SlowPathInOrder ==
    /\ \A i, j \in DOMAIN InFlight : i < j => InFlight[i].n < InFlight[j].n
    /\ \A i \in DOMAIN InFlight : InFlight[i].n > lastSent

(* A datagram is read by the socket that held its address, or else the     *)
(* wildcard address of its port, when it arrived: not by one that binds    *)
(* the address later, nor by another of the same descriptor; until port    *)
(* 9999 + CORE_ID, which the pool keeps while a socket is bound to it, is  *)
(* given to a second one (peer.rs do_receive, do_bind, do_close, do_pop).  *)
OwnersRead == ~doubled => read.meant = read.by

(* What waits in the queues of the background coroutines is dealt with,    *)
(* although the first one may have to wait for an address nobody answers   *)
(* for, unless another's failed query takes the process down (peer.rs      *)
(* background_sender, icmpv4/peer.rs background, arp/peer.rs query).       *)
QueuesDrain ==
    /\ (sendq # <<>> \/ udp.state = "querying")
         ~> ((sendq = <<>> /\ udp.state # "querying") \/ panicked)
    /\ (echoes # <<>> \/ icmp # Idle) ~> ((echoes = <<>> /\ icmp = Idle) \/ panicked)

(* A ping ends: with its reply, a timeout, or the process (ping).          *)
PingEnds == \A p \in Pings :
    (ping[p] # "idle") ~> (ping[p] \in {"done", "failed"} \/ panicked)

(* Nobody who has something to send or to hear waits for ever (background, *)
(* ping).                                                                  *)
SendersEnd == QueuesDrain /\ PingEnds
=============================================================================

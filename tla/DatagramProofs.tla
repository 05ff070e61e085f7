---------------------------- MODULE DatagramProofs ---------------------------
(***************************************************************************)
(* Proofs about Datagrams and Arp: no coroutine that waits for an address  *)
(* is forgotten, what goes through the send queue leaves once and in       *)
(* order, and a datagram is read by the socket it was meant for; for any   *)
(* number of neighbours, sockets, pings, retries and queue lengths.        *)
(*                                                                         *)
(* The argument of the first is that a query that does not run has an      *)
(* empty channel.  That of the second is the chain of the numbers last     *)
(* sent, being resolved, queued and given out.  That of the third is that  *)
(* an endpoint, a queue and a socket belong to each other while the socket *)
(* is bound, and that a pop keeps to a queue that nobody else will use:    *)
(* all of it until the pool gives out an endpoint that is bound.           *)
(***************************************************************************)
EXTENDS Datagrams, SequenceTheorems, TLAPS

-----------------------------------------------------------------------------
(* Address resolution. *)

ArpTyped ==
  /\ cache \in [Addrs -> {"none", "live", "expired"}]
  /\ waiters \in [Addrs -> SUBSET Queries]
  /\ tries \in [Queries -> Nat]
  /\ channel \in [Queries -> {"empty", "answer", "dropped"}]
EmptyWhenIdle == \A q \in Queries : ~Waiting(q) => channel[q] = "empty"
ArpInv == ArpTyped /\ EmptyWhenIdle /\ WaitersAreQueued

(* The same facts, one by one. *)
LEMMA ArpFacts ==
  ASSUME ArpInv
  PROVE  /\ cache \in [Addrs -> {"none", "live", "expired"}]
         /\ waiters \in [Addrs -> SUBSET Queries]
         /\ tries \in [Queries -> Nat]
         /\ channel \in [Queries -> {"empty", "answer", "dropped"}]
         /\ \A q \in Queries : AddrOf[q] \in Addrs
         /\ \A q \in Queries : tries[q] = 0 => channel[q] = "empty"
         /\ \A q \in Queries, a \in Addrs :
              q \in waiters[a] <=> tries[q] > 0 /\ channel[q] = "empty" /\ a = AddrOf[q]
         /\ \A a \in Addrs : cache[a] # "none" => waiters[a] = {}
BY ArpAssumption DEF ArpInv, ArpTyped, EmptyWhenIdle, WaitersAreQueued, Waiting, Known

LEMMA ArpFrom ==
  ASSUME ArpTyped',
         \A q \in Queries : tries'[q] = 0 => channel'[q] = "empty",
         \A q \in Queries, a \in Addrs :
            q \in waiters'[a] <=> tries'[q] > 0 /\ channel'[q] = "empty" /\ a = AddrOf[q],
         \A a \in Addrs : cache'[a] # "none" => waiters'[a] = {}
  PROVE  ArpInv'
<1>1. EmptyWhenIdle'
  BY DEF EmptyWhenIdle, Waiting, ArpTyped
<1>2. WaitersAreQueued'
  BY DEF WaitersAreQueued, Waiting, Known
<1> QED  BY <1>1, <1>2 DEF ArpInv

(* A query begins, repeats its request or ends in one of four ways; what   *)
(* else happens to the cache and the wait queues concerns an address.      *)
LEMMA QueriesKeepArp ==
  ASSUME ArpInv, NEW q \in Queries,
         \/ Start(q) \/ Retry(q) \/ Answered(q) \/ Dropped(q) \/ GiveUp(q) \/ Cancel(q)
  PROVE  ArpInv'
<1> USE ArpFacts
<1>0. AddrOf[q] \in Addrs
  OBVIOUS
<1>1. CASE Start(q)
  <2>1. /\ tries[q] = 0 /\ cache[AddrOf[q]] = "none"
        /\ tries' = [tries EXCEPT ![q] = 1]
        /\ waiters' = [waiters EXCEPT ![AddrOf[q]] = waiters[AddrOf[q]] \cup {q}]
        /\ UNCHANGED <<cache, channel>>
    BY <1>1 DEF Start, Waiting, Known, DoWaitLinkAddr
  <2>2. ArpTyped'
    BY <1>0, <2>1 DEF ArpTyped
  <2>3. \A a \in Addrs : waiters'[a] = IF a = AddrOf[q] THEN waiters[a] \cup {q} ELSE waiters[a]
    BY <1>0, <2>1
  <2>4. \A r \in Queries : tries'[r] = IF r = q THEN 1 ELSE tries[r]
    BY <2>1
  <2>5. channel[q] = "empty"
    BY <2>1
  <2> QED  BY <2>1, <2>2, <2>3, <2>4, <2>5, ArpFrom
<1>2. CASE Retry(q)
  <2>1. /\ tries[q] > 0 /\ tries' = [tries EXCEPT ![q] = tries[q] + 1]
        /\ UNCHANGED <<cache, waiters, channel>>
    BY <1>2 DEF Retry, Waiting
  <2>2. ArpTyped'
    BY <2>1 DEF ArpTyped
  <2>3. \A r \in Queries : (tries'[r] > 0 <=> tries[r] > 0) /\ (tries'[r] = 0 <=> tries[r] = 0)
    BY <2>1
  <2> QED  BY <2>1, <2>2, <2>3, ArpFrom
<1>3. CASE Answered(q)
  <2>1. /\ channel[q] = "answer"
        /\ tries' = [tries EXCEPT ![q] = 0] /\ channel' = [channel EXCEPT ![q] = "empty"]
        /\ UNCHANGED <<cache, waiters>>
    BY <1>3 DEF Answered, Ended
  <2>2. ArpTyped'
    BY <2>1 DEF ArpTyped
  <2>3. \A r \in Queries : r # q => tries'[r] = tries[r] /\ channel'[r] = channel[r]
    BY <2>1
  <2>4. tries'[q] = 0 /\ channel'[q] = "empty"
    BY <2>1
  <2> QED  BY <2>1, <2>2, <2>3, <2>4, ArpFrom
<1>4. CASE Dropped(q)
  <2>1. UNCHANGED <<cache, waiters, tries, channel>>
    BY <1>4 DEF Dropped, arpVars, queryVars
  <2>2. ArpTyped'
    BY <2>1 DEF ArpTyped
  <2> QED  BY <2>1, <2>2, ArpFrom
<1>5. CASE GiveUp(q)
  <2> DEFINE a == AddrOf[q]
             rest == [r \in Queries |-> IF r \in waiters[a] THEN "dropped" ELSE channel[r]]
  <2>1. /\ tries' = [tries EXCEPT ![q] = 0] /\ channel' = [rest EXCEPT ![q] = "empty"]
        /\ waiters' = [waiters EXCEPT ![a] = {}]
        /\ UNCHANGED cache
    BY <1>5 DEF GiveUp, Ended
  <2>2. /\ \A r \in Queries : rest[r] = IF r \in waiters[a] THEN "dropped" ELSE channel[r]
        /\ rest \in [Queries -> {"empty", "answer", "dropped"}]
    OBVIOUS
  <2> HIDE DEF rest
  <2>3. ArpTyped'
    BY <1>0, <2>1, <2>2 DEF ArpTyped
  <2>4. \A r \in Queries : r # q => tries'[r] = tries[r] /\ channel'[r] = rest[r]
    BY <2>1, <2>2
  <2>5. tries'[q] = 0 /\ channel'[q] = "empty"
    BY <2>1, <2>2
  <2>6. \A b \in Addrs : waiters'[b] = IF b = a THEN {} ELSE waiters[b]
    BY <1>0, <2>1
  <2> QED  BY <1>0, <2>1, <2>2, <2>3, <2>4, <2>5, <2>6, ArpFrom
<1>6. CASE Cancel(q)
  <2>1. /\ tries' = [tries EXCEPT ![q] = 0] /\ channel' = [channel EXCEPT ![q] = "empty"]
        /\ waiters' = [waiters EXCEPT ![AddrOf[q]] = waiters[AddrOf[q]] \ {q}]
        /\ UNCHANGED cache
    BY <1>6 DEF Cancel, Ended
  <2>2. ArpTyped'
    BY <1>0, <2>1 DEF ArpTyped
  <2>3. \A r \in Queries : r # q => tries'[r] = tries[r] /\ channel'[r] = channel[r]
    BY <2>1
  <2>4. tries'[q] = 0 /\ channel'[q] = "empty"
    BY <2>1
  <2>5. \A b \in Addrs : waiters'[b] = IF b = AddrOf[q] THEN waiters[b] \ {q} ELSE waiters[b]
    BY <1>0, <2>1
  <2> QED  BY <2>1, <2>2, <2>3, <2>4, <2>5, ArpFrom
<1> QED  BY <1>1, <1>2, <1>3, <1>4, <1>5, <1>6

LEMMA NeighboursKeepArp ==
  ASSUME ArpInv, Neighbours
  PROVE  ArpInv'
<1> USE ArpFacts
<1>1. ASSUME NEW a \in Addrs, Expire(a) PROVE ArpInv'
  <2>1. /\ cache[a] = "live" /\ cache' = [cache EXCEPT ![a] = "expired"]
        /\ UNCHANGED <<waiters, tries, channel>>
    BY <1>1 DEF Expire, queryVars
  <2>2. ArpTyped'
    BY <2>1 DEF ArpTyped
  <2>3. \A b \in Addrs : cache'[b] # "none" <=> cache[b] # "none"
    BY <2>1
  <2> QED  BY <2>1, <2>2, <2>3, ArpFrom
<1>2. ASSUME NEW a \in Addrs, NEW forUs \in BOOLEAN, Receive(a, forUs) PROVE ArpInv'
  <2>1. /\ channel' = [q \in Queries |-> IF q \in waiters[a] THEN "answer" ELSE channel[q]]
        /\ waiters' = [waiters EXCEPT ![a] = {}]
        /\ cache' = [b \in Addrs |-> IF b = a THEN "live"
                                     ELSE IF cache[b] = "expired" THEN "none" ELSE cache[b]]
        /\ UNCHANGED tries
    BY <1>2 DEF Receive, DoInsert, Inserted
  <2>2. ArpTyped'
    BY <2>1 DEF ArpTyped
  <2>3. \A q \in Queries : channel'[q] = IF q \in waiters[a] THEN "answer" ELSE channel[q]
    BY <2>1
  <2>4. \A b \in Addrs : waiters'[b] = IF b = a THEN {} ELSE waiters[b]
    BY <2>1
  <2>5. \A b \in Addrs : b # a /\ cache'[b] # "none" => cache[b] # "none"
    BY <2>1
  <2> QED  BY <2>1, <2>2, <2>3, <2>4, <2>5, ArpFrom
<1> QED  BY <1>1, <1>2 DEF Neighbours, Background

-----------------------------------------------------------------------------
(* The workers: which query each of them runs.                             *)

Datagram == [n : Nat, to : Addrs]
Workers ==
  /\ sendq \in Seq(Datagram) /\ pushed \in Nat
  /\ udp.state = "querying" => udp.dgram \in Datagram
  /\ echoes \in Seq(Addrs) /\ icmp \in Addrs \cup {Idle}

LEMMA QueriesOfAll ==
  ASSUME NEW a \in Addrs
  PROVE  /\ <<"udp", a>> \in Queries /\ <<"icmp", a>> \in Queries /\ <<"tcp", a>> \in Queries
         /\ \A p \in Pings : <<p, a>> \in Queries
BY DatagramAssumption DEF CoroutineQueries, Coroutines

(* A full queue loses its older half, its first d elements, say.           *)
LEMMA PushedIs ==
  ASSUME NEW S, NEW q \in Seq(S), NEW x \in S
  PROVE  /\ Pushed(q, x) \in Seq(S)
         /\ \E d \in 0..Len(q) :
              /\ Len(Pushed(q, x)) = Len(q) - d + 1
              /\ \A i \in 1..(Len(q) - d) : Pushed(q, x)[i] = q[i + d]
              /\ Pushed(q, x)[Len(q) - d + 1] = x
<1> DEFINE h == Capacity \div 2
           kept == IF Len(q) = Capacity THEN Newer(q) ELSE q
<1>1. \E d \in 0..Len(q) : /\ kept \in Seq(S) /\ Len(kept) = Len(q) - d
                           /\ \A i \in 1..(Len(q) - d) : kept[i] = q[i + d]
  <2>1. CASE Len(q) = Capacity
    <3>1. h \in Nat /\ h >= 1 /\ h <= Capacity /\ Capacity \in Nat
      BY DatagramAssumption
    <3> DEFINE m == Len(q) - h + 2
               d == m - 1
    <3> HIDE DEF h
    <3>2. m \in Int /\ Len(q) \in Int /\ d \in 0..Len(q) /\ m = d + 1 /\ m >= 1
      BY <2>1, <3>1
    <3>3. \A i \in m..Len(q) : q[i] \in S
      BY <3>2
    <3>4. kept = SubSeq(q, m, Len(q))
      BY <2>1 DEF Newer, h
    <3> HIDE DEF kept, m, d
    <3>5. /\ kept \in Seq(S) /\ Len(kept) = IF m <= Len(q) THEN Len(q) - m + 1 ELSE 0
          /\ \A i \in 1..(Len(q) - m + 1) : kept[i] = q[m + i - 1]
      BY <3>2, <3>3, <3>4, SubSeqProperties
    <3>6. Len(kept) = Len(q) - d
      BY <3>2, <3>5
    <3>7. \A i \in 1..(Len(q) - d) : kept[i] = q[i + d]
      <4> TAKE i \in 1..(Len(q) - d)
      <4>1. i \in 1..(Len(q) - m + 1) /\ m + i - 1 = i + d
        BY <3>2
      <4> QED  BY <3>5, <4>1
    <3> QED  BY <3>2, <3>5, <3>6, <3>7
  <2>2. CASE Len(q) # Capacity
    <3>1. 0 \in 0..Len(q) /\ \A i \in 1..(Len(q) - 0) : i = i + 0
      OBVIOUS
    <3> QED  BY <2>2, <3>1
  <2> QED  BY <2>1, <2>2
<1>2. PICK d \in 0..Len(q) : /\ kept \in Seq(S) /\ Len(kept) = Len(q) - d
                             /\ \A i \in 1..(Len(q) - d) : kept[i] = q[i + d]
  BY <1>1
<1>3. Pushed(q, x) = Append(kept, x)
  BY DEF Pushed
<1> HIDE DEF kept
<1>4. /\ Append(kept, x) \in Seq(S) /\ Len(Append(kept, x)) = Len(q) - d + 1
      /\ \A i \in 1..(Len(q) - d) : Append(kept, x)[i] = kept[i]
      /\ Append(kept, x)[Len(q) - d + 1] = x
  BY <1>2
<1> QED  BY <1>2, <1>3, <1>4

LEMMA TailTyped ==
  ASSUME NEW S, NEW q \in Seq(S), q # <<>>
  PROVE  /\ Head(q) \in S /\ Tail(q) \in Seq(S)
         /\ Len(q) \in Nat /\ Len(q) > 0 /\ Head(q) = q[1]
         /\ Len(Tail(q)) = Len(q) - 1
         /\ \A i \in 1..(Len(q) - 1) : Tail(q)[i] = q[i + 1]
BY HeadTailProperties, EmptySeq

LEMMA ArpRests ==
  ASSUME ArpInv, UNCHANGED arpVars
  PROVE  ArpInv'
BY DEF ArpInv, arpVars, queryVars, ArpTyped, EmptyWhenIdle, WaitersAreQueued, Waiting, Known

LEMMA CallsKeepWorkers ==
  ASSUME ArpInv, Workers, NEW q \in QDs, Call(q)
  PROVE  ArpInv' /\ Workers'
<1>1. UNCHANGED arpVars
  BY DEF Call, SocketCall, Close, Pop, Bind, BindAny, PushTo
<1>2. ASSUME UNCHANGED <<sendVars, icmpVars>> PROVE Workers'
  BY <1>2 DEF Workers, sendVars, icmpVars
<1>3. ASSUME NEW a \in Addrs, PushTo(q, a) PROVE Workers'
  <2>1. UNCHANGED <<udp, echoes, icmp>> /\ pushed' = pushed + 1
    BY <1>3 DEF PushTo, icmpVars
  <2>2. sendq' = sendq \/ sendq' = Pushed(sendq, [n |-> pushed + 1, to |-> a])
    BY <1>3 DEF PushTo
  <2>3. [n |-> pushed + 1, to |-> a] \in Datagram
    BY DEF Datagram, Workers
  <2>4. sendq' \in Seq(Datagram)
    BY <2>2, <2>3, PushedIs DEF Workers
  <2> QED  BY <2>1, <2>4 DEF Workers
<1>4. Workers'
  BY <1>2, <1>3 DEF Call, SocketCall, Close, Pop, Bind, BindAny
<1> QED  BY <1>1, <1>4, ArpRests

LEMMA UdpKeepsWorkers ==
  ASSUME ArpInv, Workers, UdpPoll
  PROVE  ArpInv' /\ Workers'
<1> USE DEF Workers
<1>1. CASE UdpTake
  <2> DEFINE d == Head(sendq)
  <2>1. d \in Datagram /\ Tail(sendq) \in Seq(Datagram) /\ d.to \in Addrs
    <3>1. sendq # <<>> /\ sendq \in Seq(Datagram)
      BY <1>1 DEF UdpTake
    <3>2. d \in Datagram /\ Tail(sendq) \in Seq(Datagram)
      BY <3>1, TailTyped
    <3> QED  BY <3>2 DEF Datagram
  <2>2. sendq' = Tail(sendq) /\ UNCHANGED <<pushed, echoes, icmp>>
    BY <1>1 DEF UdpTake, icmpVars
  <2>3. udp'.state = "querying" => udp'.dgram \in Datagram
    BY <1>1, <2>1 DEF UdpTake, UdpIs
  <2>4. ArpInv'
    <3>1. UNCHANGED arpVars \/ Start(<<"udp", d.to>>)
      BY <1>1 DEF UdpTake
    <3> QED  BY <2>1, <3>1, ArpRests, QueriesKeepArp, QueriesOfAll
  <2> QED  BY <2>1, <2>2, <2>3, <2>4
<1>2. CASE UdpPark
  BY <1>2, ArpRests DEF UdpPark, UdpIs, icmpVars
<1>3. CASE udp.state = "querying"
  <2>1. UdpQuery \in Queries
    BY <1>3, QueriesOfAll DEF UdpQuery, Datagram
  <2>2. CASE UdpAnswered
    BY <2>1, <2>2, QueriesKeepArp DEF UdpAnswered, UdpIs, icmpVars
  <2>3. CASE UdpGiveUp
    BY <2>1, <2>3, QueriesKeepArp DEF UdpGiveUp, UdpIs, icmpVars
  <2>4. CASE UdpWaits
    BY <2>1, <2>4, QueriesKeepArp DEF UdpWaits, sendVars, icmpVars
  <2>5. CASE UdpTake \/ UdpPark
    BY <1>1, <1>2, <2>5
  <2> QED  BY <2>2, <2>3, <2>4, <2>5 DEF UdpPoll
<1> QED  BY <1>1, <1>2, <1>3 DEF UdpPoll, UdpAnswered, UdpGiveUp, UdpWaits

LEMMA IcmpKeepsWorkers ==
  ASSUME ArpInv, Workers, IcmpTake \/ IcmpEnds
  PROVE  ArpInv' /\ Workers'
<1> USE DEF Workers
<1>1. UNCHANGED <<sendq, udp, pushed>>
  BY DEF IcmpTake, IcmpEnds, sendVars
<1>2. CASE IcmpTake
  <2> DEFINE a == Head(echoes)
  <2>1. a \in Addrs /\ Tail(echoes) \in Seq(Addrs)
    BY <1>2, TailTyped DEF IcmpTake
  <2>2. /\ echoes' = Tail(echoes)
        /\ \/ UNCHANGED <<arpVars, icmp>>
           \/ Start(<<"icmp", a>>) /\ icmp' = a
    BY <1>2 DEF IcmpTake
  <2> HIDE DEF a
  <2>3. ArpInv' /\ icmp' \in Addrs \cup {Idle}
    BY <2>1, <2>2, ArpRests, QueriesKeepArp, QueriesOfAll
  <2> QED  BY <1>1, <2>1, <2>2, <2>3
<1>3. CASE IcmpEnds
  <2>1. IcmpQuery \in Queries
    BY <1>3, QueriesOfAll DEF IcmpEnds, IcmpQuery
  <2>2. ArpInv'
    BY <1>3, <2>1, QueriesKeepArp DEF IcmpEnds
  <2>3. UNCHANGED echoes /\ icmp' \in {icmp, Idle}
    BY <1>3 DEF IcmpEnds
  <2> QED  BY <1>1, <2>2, <2>3
<1> QED  BY <1>2, <1>3

LEMMA OthersKeepWorkers ==
  ASSUME ArpInv, Workers,
         \/ \E o \in pops : PollPop(o)
         \/ \E e \in Endpoints : Arrive(e)
         \/ \E a \in Addrs : EchoArrives(a) \/ TcpQuery(a) \/ TcpPoll(a) \/ TcpCancel(a)
         \/ \E p \in Pings : \/ ReplyArrives(p) \/ PingPoll(p)
                             \/ \E a \in Addrs : PingCall(p, a)
         \/ Neighbours /\ UNCHANGED <<udpVars, sendVars, icmpVars>>
  PROVE  ArpInv' /\ Workers'
<1> USE DEF Workers
<1>0. ASSUME UNCHANGED <<sendVars, echoes, icmp>> PROVE Workers'
  BY <1>0 DEF sendVars
<1>1. ASSUME \/ \E o \in pops : PollPop(o)
             \/ \E e \in Endpoints : Arrive(e)
             \/ \E p \in Pings : ReplyArrives(p) \/ PingEnd(p)
      PROVE  ArpInv' /\ Workers'
  BY <1>0, <1>1, ArpRests DEF PollPop, Arrive, ReplyArrives, PingEnd, icmpVars
<1>2. ASSUME NEW a \in Addrs, EchoArrives(a) PROVE ArpInv' /\ Workers'
  <2>1. Append(echoes, a) \in Seq(Addrs)
    OBVIOUS
  <2> QED  BY <1>2, <2>1, ArpRests DEF EchoArrives, sendVars
<1>3. ASSUME NEW a \in Addrs, TcpQuery(a) \/ TcpPoll(a) \/ TcpCancel(a)
      PROVE  ArpInv' /\ Workers'
  <2>1. ArpInv'
    BY <1>3, QueriesOfAll, QueriesKeepArp DEF TcpQuery, TcpPoll, TcpCancel
  <2> QED  BY <1>0, <1>3, <2>1 DEF TcpQuery, TcpPoll, TcpCancel, icmpVars
<1>4. ASSUME NEW p \in Pings, NEW a \in Addrs, PingCall(p, a) PROVE ArpInv' /\ Workers'
  <2>1. ArpInv'
    BY <1>4, QueriesOfAll, QueriesKeepArp, ArpRests DEF PingCall
  <2> QED  BY <1>0, <1>4, <2>1 DEF PingCall
<1>5. ASSUME NEW p \in Pings, PingResolves(p) PROVE ArpInv' /\ Workers'
  <2>1. <<p, ping[p]>> \in Queries
    BY <1>5, QueriesOfAll DEF PingResolves
  <2>2. ArpInv'
    BY <1>5, <2>1, QueriesKeepArp DEF PingResolves
  <2> QED  BY <1>0, <1>5, <2>2 DEF PingResolves
<1>6. ASSUME Neighbours, UNCHANGED <<udpVars, sendVars, icmpVars>> PROVE ArpInv' /\ Workers'
  BY <1>0, <1>6, NeighboursKeepArp DEF icmpVars
<1> QED  BY <1>1, <1>2, <1>3, <1>4, <1>5, <1>6 DEF PingPoll

LEMMA StepKeepsWorkers ==
  ASSUME ArpInv, Workers, [Next]_datagramVars
  PROVE  ArpInv' /\ Workers'
<1>1. ASSUME UNCHANGED datagramVars PROVE ArpInv' /\ Workers'
  BY <1>1, ArpRests DEF datagramVars, sendVars, icmpVars, Workers
<1> QED
  BY <1>1, CallsKeepWorkers, UdpKeepsWorkers, IcmpKeepsWorkers, OthersKeepWorkers DEF Next

LEMMA WorkersStart ==
  ASSUME Init
  PROVE  ArpInv /\ Workers
<1>1. ArpInv
  <2>1. ArpTyped
    BY DEF Init, ArpInit, NewCache, ArpTyped
  <2>2. EmptyWhenIdle /\ WaitersAreQueued
    BY DEF Init, ArpInit, EmptyWhenIdle, WaitersAreQueued, Waiting
  <2> QED  BY <2>1, <2>2 DEF ArpInv
<1>2. <<>> \in Seq(Datagram) /\ <<>> \in Seq(Addrs)
  OBVIOUS
<1> QED  BY <1>1, <1>2 DEF Init, NewUdpPeer, NewIcmpPeer, Workers

LEMMA WorkersAlways == Spec => [](ArpInv /\ Workers)
BY WorkersStart, StepKeepsWorkers, PTL DEF Spec

(* Whoever waits for an address and was neither answered nor dropped is in *)
(* the wait queue of that address, nobody else is, and nobody waits for an *)
(* address that is known, whatever coroutines query, are dropped or give   *)
(* up and whatever the neighbours send (arp/cache/mod.rs do_insert,        *)
(* do_drop, do_wait_link_addr; arp/peer.rs query).                         *)
THEOREM WaitersInvariant == Spec => []WaitersAreQueued
BY WorkersAlways, PTL DEF ArpInv

-----------------------------------------------------------------------------
(* The send queue: numbers grow from the last one sent through the one     *)
(* being resolved and those queued to the last one given out.              *)

Numbered ==
  /\ \A i, j \in DOMAIN sendq : i < j => sendq[i].n < sendq[j].n
  /\ \A i \in DOMAIN sendq : lastSent < sendq[i].n /\ sendq[i].n <= pushed
  /\ udp.state = "querying" =>
       /\ lastSent < udp.dgram.n /\ udp.dgram.n <= pushed
       /\ \A i \in DOMAIN sendq : udp.dgram.n < sendq[i].n
  /\ lastSent \in Nat /\ lastSent <= pushed

LEMMA QueuedTyped ==
  ASSUME Workers
  PROVE  /\ pushed \in Nat /\ sendq \in Seq(Datagram) /\ Len(sendq) \in Nat
         /\ DOMAIN sendq = 1..Len(sendq)
         /\ \A i \in 1..Len(sendq) : sendq[i].n \in Nat
         /\ udp.state = "querying" => udp.dgram.n \in Nat
<1>1. \A i \in 1..Len(sendq) : sendq[i] \in Datagram
  BY DEF Workers
<1> QED  BY <1>1 DEF Workers, Datagram

LEMMA PushNumbers ==
  ASSUME Workers, Numbered, NEW q \in QDs, NEW a \in Addrs, PushTo(q, a)
  PROVE  Numbered'
<1> DEFINE x == [n |-> pushed + 1, to |-> a]
<1>0. UNCHANGED <<udp, lastSent>> /\ pushed' = pushed + 1
  BY DEF PushTo
<1>1. UNCHANGED sendq \/ sendq' = Pushed(sendq, x)
  BY DEF PushTo
<1>2. CASE UNCHANGED sendq
  BY <1>0, <1>2, QueuedTyped DEF Numbered
<1>3. CASE sendq' = Pushed(sendq, x)
  <2>1. x \in Datagram /\ x.n = pushed + 1
    BY QueuedTyped DEF Datagram
  <2> HIDE DEF x
  <2>0. PICK d \in 0..Len(sendq) :
          /\ Pushed(sendq, x) \in Seq(Datagram)
          /\ Len(Pushed(sendq, x)) = Len(sendq) - d + 1
          /\ \A i \in 1..(Len(sendq) - d) : Pushed(sendq, x)[i] = sendq[i + d]
          /\ Pushed(sendq, x)[Len(sendq) - d + 1] = x
    <3>1. x \in Datagram /\ sendq \in Seq(Datagram)
      BY <2>1, QueuedTyped
    <3> QED  BY <3>1, PushedIs, ZenonT(60)
  <2>2. /\ sendq' \in Seq(Datagram)
        /\ Len(sendq') = Len(sendq) - d + 1
        /\ \A i \in 1..(Len(sendq) - d) : sendq'[i] = sendq[i + d]
        /\ sendq'[Len(sendq) - d + 1] = x
    BY <1>3, <2>0
  <2> DEFINE n == Len(sendq) - d
  <2>3. /\ n \in Nat /\ DOMAIN sendq' = 1..(n + 1)
        /\ \A i \in 1..n : i + d \in 1..Len(sendq) /\ i + d \in DOMAIN sendq
        /\ \A i \in 1..(n + 1) : i \in 1..n \/ i = n + 1
        /\ \A i, j \in 1..(n + 1) : i < j => i \in 1..n /\ (j \in 1..n => i + d < j + d)
    BY <2>2, QueuedTyped
  <2>4. \A i \in 1..n : /\ sendq'[i].n \in Nat /\ sendq'[i].n = sendq[i + d].n
                        /\ lastSent < sendq'[i].n /\ sendq'[i].n <= pushed
                        /\ udp.state = "querying" => udp.dgram.n < sendq'[i].n
    BY <2>2, <2>3, QueuedTyped DEF Numbered
  <2>5. sendq'[n + 1].n = pushed + 1
    BY <2>1, <2>2
  <2> HIDE DEF n
  <2>6. \A i, j \in DOMAIN sendq' : i < j => sendq'[i].n < sendq'[j].n
    <3> SUFFICES ASSUME NEW i \in 1..(n + 1), NEW j \in 1..(n + 1), i < j
                 PROVE  sendq'[i].n < sendq'[j].n
      BY <2>3
    <3>1. i \in 1..n
      BY <2>3
    <3>2. CASE j \in 1..n
      BY <2>3, <2>4, <3>1, <3>2 DEF Numbered
    <3>3. CASE j = n + 1
      BY <2>4, <2>5, <3>1, <3>3, QueuedTyped
    <3> QED  BY <2>3, <3>2, <3>3
  <2>7. \A i \in DOMAIN sendq' : lastSent < sendq'[i].n /\ sendq'[i].n <= pushed + 1
    BY <2>3, <2>4, <2>5, QueuedTyped DEF Numbered
  <2>8. udp.state = "querying" =>
           /\ lastSent < udp.dgram.n /\ udp.dgram.n <= pushed + 1
           /\ \A i \in DOMAIN sendq' : udp.dgram.n < sendq'[i].n
    BY <2>3, <2>4, <2>5, QueuedTyped DEF Numbered
  <2> QED  BY <1>0, <2>6, <2>7, <2>8, QueuedTyped DEF Numbered
<1> QED  BY <1>1, <1>2, <1>3

LEMMA UdpNumbers ==
  ASSUME Workers, Numbered, UdpPoll
  PROVE  Numbered'
<1> USE QueuedTyped
<1>1. CASE UdpTake
  <2> DEFINE d == Head(sendq)
             n == Len(sendq)
  <2>1. /\ d = sendq[1] /\ n > 0 /\ Tail(sendq) \in Seq(Datagram) /\ Len(Tail(sendq)) = n - 1
        /\ \A i \in 1..(n - 1) : Tail(sendq)[i] = sendq[i + 1]
    <3>1. sendq # <<>> /\ sendq \in Seq(Datagram)
      BY <1>1 DEF UdpTake
    <3> QED  BY <3>1, TailTyped
  <2>2. sendq' = Tail(sendq) /\ UNCHANGED pushed
    BY <1>1 DEF UdpTake
  <2>3. \/ udp'.state = "running" /\ lastSent' = d.n
        \/ udp'.state = "querying" /\ udp'.dgram = d /\ UNCHANGED lastSent
    BY <1>1 DEF UdpTake, UdpIs, DoSend
  <2>4. /\ d.n \in Nat /\ lastSent < d.n /\ d.n <= pushed
    BY <2>1 DEF Numbered
  <2>5. /\ DOMAIN sendq' = 1..(n - 1) /\ 1 \in 1..n
        /\ \A i \in 1..(n - 1) : i + 1 \in 1..n /\ 1 < i + 1
        /\ \A i, j \in 1..(n - 1) : i < j => i + 1 < j + 1
    BY <2>1, <2>2
  <2>6. \A i \in 1..(n - 1) : /\ sendq'[i] = sendq[i + 1] /\ sendq'[i].n \in Nat
                              /\ d.n < sendq'[i].n /\ sendq'[i].n <= pushed
    <3> TAKE i \in 1..(n - 1)
    <3>1. sendq'[i] = sendq[i + 1]
      BY <2>1, <2>2
    <3>2. sendq[i + 1].n \in Nat /\ sendq[1].n < sendq[i + 1].n /\ sendq[i + 1].n <= pushed
      BY <2>5 DEF Numbered
    <3> QED  BY <2>1, <3>1, <3>2
  <2>7. \A i, j \in 1..(n - 1) : i < j => sendq'[i].n < sendq'[j].n
    BY <2>5, <2>6 DEF Numbered
  <2>8. UNCHANGED pushed
    BY <2>2
  <2>9. lastSent \in Nat /\ lastSent <= pushed
    BY DEF Numbered
  <2>10. DOMAIN sendq' = 1..(n - 1)
    BY <2>5
  <2> HIDE DEF d, n
  <2>11. CASE udp'.state = "running" /\ lastSent' = d.n
    BY <2>4, <2>6, <2>7, <2>8, <2>10, <2>11 DEF Numbered
  <2>12. CASE udp'.state = "querying" /\ udp'.dgram = d /\ UNCHANGED lastSent
    <3>1. \A i \in 1..(n - 1) : lastSent < sendq'[i].n
      BY <2>4, <2>6, <2>9
    <3> QED  BY <2>4, <2>6, <2>7, <2>8, <2>9, <2>10, <2>12, <3>1 DEF Numbered
  <2> QED  BY <2>3, <2>11, <2>12
<1>2. CASE UdpPark
  BY <1>2 DEF UdpPark, UdpIs, Numbered
<1>3. CASE UdpAnswered
  BY <1>3 DEF UdpAnswered, UdpIs, DoSend, Numbered
<1>4. CASE UdpGiveUp
  BY <1>4 DEF UdpGiveUp, UdpIs, Numbered
<1>5. CASE UdpWaits
  BY <1>5 DEF UdpWaits, sendVars, Numbered
<1> QED  BY <1>1, <1>2, <1>3, <1>4, <1>5 DEF UdpPoll

LEMMA StepKeepsNumbers ==
  ASSUME Workers, Numbered, [Next]_datagramVars
  PROVE  Numbered'
<1>1. ASSUME UNCHANGED sendVars PROVE Numbered'
  BY <1>1 DEF sendVars, Numbered
<1>2. ASSUME UNCHANGED datagramVars PROVE Numbered'
  BY <1>1, <1>2 DEF datagramVars
<1>3. ASSUME NEW q \in QDs, Call(q) PROVE Numbered'
  BY <1>1, <1>3, PushNumbers DEF Call, SocketCall, Close, Pop, Bind, BindAny
<1>4. ASSUME IcmpTake \/ IcmpEnds PROVE Numbered'
  BY <1>1, <1>4 DEF IcmpTake, IcmpEnds
<1>5. ASSUME \/ \E o \in pops : PollPop(o)
             \/ \E e \in Endpoints : Arrive(e)
             \/ \E a \in Addrs : EchoArrives(a) \/ TcpQuery(a) \/ TcpPoll(a) \/ TcpCancel(a)
             \/ \E p \in Pings : \/ ReplyArrives(p) \/ PingPoll(p)
                                 \/ \E a \in Addrs : PingCall(p, a)
      PROVE  Numbered'
  BY <1>1, <1>5 DEF PollPop, Arrive, EchoArrives, TcpQuery, TcpPoll, TcpCancel, ReplyArrives,
                    PingPoll, PingResolves, PingEnd, PingCall
<1> QED  BY <1>1, <1>2, <1>3, <1>4, <1>5, UdpNumbers DEF Next

LEMMA NumbersAlways == Spec => [](ArpInv /\ Workers /\ Numbered)
<1>1. ASSUME Init PROVE Numbered
  BY <1>1 DEF Init, NewUdpPeer, Numbered
<1> QED  BY <1>1, WorkersStart, StepKeepsWorkers, StepKeepsNumbers, PTL DEF Spec

(* What goes through the send queue leaves once and in the order it was    *)
(* pushed, however often the queue was full, queries failed and datagrams  *)
(* for known neighbours overtook it (udp/peer.rs background_sender).       *)
THEOREM SlowPathInvariant == Spec => []SlowPathInOrder
<1>1. ASSUME Workers, Numbered PROVE SlowPathInOrder
  <2> USE QueuedTyped, <1>1
  <2>1. CASE udp.state = "querying"
    <3> DEFINE n == Len(sendq)
    <3>1. /\ InFlight = <<udp.dgram>> \o sendq
          /\ DOMAIN InFlight = 1..(n + 1) /\ InFlight[1] = udp.dgram
          /\ \A i \in 2..(n + 1) : InFlight[i] = sendq[i - 1]
      BY <2>1 DEF InFlight
    <3>2. /\ \A i \in 1..(n + 1) : i = 1 \/ (i \in 2..(n + 1) /\ i - 1 \in 1..n)
          /\ \A i, j \in 1..(n + 1) : i < j => j \in 2..(n + 1) /\ i - 1 < j - 1
      OBVIOUS
    <3>3. ASSUME NEW i \in 1..(n + 1), NEW j \in 1..(n + 1), i < j
          PROVE  InFlight[i].n < InFlight[j].n
      <4>1. InFlight[j] = sendq[j - 1] /\ j - 1 \in 1..n
        BY <3>1, <3>2, <3>3
      <4>2. CASE i = 1
        BY <2>1, <3>1, <4>1, <4>2 DEF Numbered
      <4>3. CASE i # 1
        BY <3>1, <3>2, <3>3, <4>1, <4>3 DEF Numbered
      <4> QED  BY <4>2, <4>3
    <3>4. \A i \in DOMAIN InFlight : InFlight[i].n > lastSent
      BY <2>1, <3>1, <3>2 DEF Numbered
    <3> QED  BY <3>1, <3>3, <3>4 DEF SlowPathInOrder
  <2>2. CASE udp.state # "querying"
    <3>1. InFlight = sendq
      BY <2>2 DEF InFlight
    <3> QED  BY <3>1 DEF Numbered, SlowPathInOrder
  <2> QED  BY <2>1, <2>2
<1> QED  BY <1>1, NumbersAlways, PTL

-----------------------------------------------------------------------------
(* Receive queues: a bound endpoint has one socket and a queue of its own, *)
(* all of which is meant for that socket; and a pop keeps to a queue that  *)
(* is still its socket's, or nobody's any more.                            *)

Audience == SUBSET (QDs \X Nat)
Bindings ==
  /\ sockets \in [QDs -> Endpoints \cup {"free", "leaked", "unbound"}]
  /\ opens \in [QDs -> Nat]
  /\ queues \in Seq(Seq(Audience))
  /\ bound \in [Endpoints -> Nat]
  /\ \A e \in Endpoints : bound[e] <= Len(queues)
  /\ \A e \in Endpoints : bound[e] # NoQueue <=> \E q \in QDs : sockets[q] = e
  /\ \A q, r \in QDs : IsBound(q) /\ sockets[q] = sockets[r] => q = r
  /\ \A e, f \in Endpoints : bound[e] = bound[f] /\ bound[e] # NoQueue => e = f

Only(k, o) == \A i \in 1..Len(queues[k]) : queues[k][i] = {o}
Owned ==
  /\ \A q \in QDs, k \in Nat : IsBound(q) /\ bound[sockets[q]] = k => Only(k, Owner(q))
  /\ \A o \in pops :
       /\ o.queue \in 1..Len(queues) /\ Only(o.queue, o.by)
       /\ \A q \in QDs : IsBound(q) /\ bound[sockets[q]] = o.queue => o.by = Owner(q)

AsMeant == read.meant = read.by
OwnersInv == Bindings /\ Owned /\ AsMeant

(* An endpoint that is bound, and its socket. *)
LEMMA BoundTo ==
  ASSUME Bindings, NEW q \in QDs, IsBound(q)
  PROVE  /\ sockets[q] \in Endpoints
         /\ bound[sockets[q]] \in 1..Len(queues)
         /\ \A r \in QDs : sockets[r] = sockets[q] => r = q
         /\ \A e \in Endpoints : bound[e] = bound[sockets[q]] => e = sockets[q]
<1>1. sockets[q] \in Endpoints
  BY DEF IsBound
<1>2. Len(queues) \in Nat
  BY DEF Bindings
<1> QED  BY <1>1, <1>2 DEF Bindings, IsBound, NoQueue

LEMMA SocketKeepsOwners ==
  ASSUME OwnersInv, NEW q \in QDs, SocketCall(q)
  PROVE  OwnersInv'
<1>1. /\ sockets[q] = "free" /\ "free" \notin Endpoints /\ "unbound" \notin Endpoints
      /\ sockets' = [sockets EXCEPT ![q] = "unbound"]
      /\ opens' = [opens EXCEPT ![q] = opens[q] + 1]
      /\ UNCHANGED <<bound, queues, pops, read>>
  BY DatagramAssumption DEF SocketCall
<1>2. /\ \A r \in QDs : r # q => sockets'[r] = sockets[r] /\ opens'[r] = opens[r]
      /\ sockets'[q] = "unbound"
      /\ sockets' \in [QDs -> Endpoints \cup {"free", "leaked", "unbound"}]
      /\ opens' \in [QDs -> Nat]
  BY <1>1 DEF OwnersInv, Bindings
<1>3. \A e \in Endpoints, r \in QDs : sockets'[r] = e <=> sockets[r] = e
  BY <1>1, <1>2
<1>4. \A r \in QDs : IsBound(r)' => /\ IsBound(r) /\ sockets'[r] = sockets[r]
                                    /\ opens'[r] = opens[r]
  BY <1>1, <1>2 DEF IsBound
<1>5. Bindings'
  <2>1. \A e \in Endpoints : bound'[e] # NoQueue <=> \E r \in QDs : sockets'[r] = e
    BY <1>1, <1>3 DEF OwnersInv, Bindings, NoQueue
  <2>2. \A r, t \in QDs : IsBound(r)' /\ sockets'[r] = sockets'[t] => r = t
    BY <1>3, <1>4 DEF OwnersInv, Bindings, IsBound
  <2> QED  BY <1>1, <1>2, <2>1, <2>2 DEF OwnersInv, Bindings, IsBound, NoQueue
<1>6. Owned'
  BY <1>1, <1>4 DEF OwnersInv, Owned, Only, Owner
<1> QED  BY <1>1, <1>5, <1>6 DEF OwnersInv, AsMeant

LEMMA CloseKeepsOwners ==
  ASSUME OwnersInv, NEW q \in QDs, Close(q)
  PROVE  OwnersInv'
<1> DEFINE tag == IF Reads(q) THEN "free" ELSE "leaked"
<1>1. /\ tag \in {"free", "leaked"} /\ tag \notin Endpoints
      /\ sockets' = [sockets EXCEPT ![q] = tag]
      /\ bound' = [e \in Endpoints |-> IF e = sockets[q] THEN NoQueue ELSE bound[e]]
      /\ UNCHANGED <<opens, queues, pops, read>>
  BY DatagramAssumption DEF Close
<1> HIDE DEF tag
<1>2. /\ \A r \in QDs : r # q => sockets'[r] = sockets[r]
      /\ sockets'[q] = tag
      /\ sockets' \in [QDs -> Endpoints \cup {"free", "leaked", "unbound"}]
      /\ bound' \in [Endpoints -> Nat]
      /\ \A e \in Endpoints : bound'[e] = IF e = sockets[q] THEN NoQueue ELSE bound[e]
  BY <1>1 DEF OwnersInv, Bindings, NoQueue
<1>3. \A r \in QDs : IsBound(r)' => /\ IsBound(r) /\ r # q /\ sockets'[r] = sockets[r]
                                    /\ sockets[r] # sockets[q]
                                    /\ bound'[sockets'[r]] = bound[sockets[r]]
  BY <1>1, <1>2 DEF OwnersInv, Bindings, IsBound
<1>4. Bindings'
  <2>1. \A e \in Endpoints : bound'[e] # NoQueue <=> \E r \in QDs : sockets'[r] = e
    <3> TAKE e \in Endpoints
    <3>1. CASE e = sockets[q]
      <4>1. \A r \in QDs : sockets'[r] # e
        BY <1>1, <1>2, <3>1 DEF OwnersInv, Bindings, IsBound
      <4> QED  BY <1>2, <3>1, <4>1
    <3>2. CASE e # sockets[q]
      BY <1>1, <1>2, <3>2 DEF OwnersInv, Bindings
    <3> QED  BY <3>1, <3>2
  <2>2. \A r, t \in QDs : IsBound(r)' /\ sockets'[r] = sockets'[t] => r = t
    BY <1>1, <1>2, <1>3 DEF OwnersInv, Bindings, IsBound
  <2>3. \A e \in Endpoints : bound'[e] <= Len(queues)
    BY <1>2 DEF OwnersInv, Bindings, NoQueue
  <2>4. \A e, f \in Endpoints : bound'[e] = bound'[f] /\ bound'[e] # NoQueue => e = f
    BY <1>2 DEF OwnersInv, Bindings, NoQueue
  <2> QED  BY <1>1, <1>2, <2>1, <2>2, <2>3, <2>4 DEF OwnersInv, Bindings, IsBound, NoQueue
<1>5. Owned'
  BY <1>1, <1>3 DEF OwnersInv, Owned, Only, Owner
<1> QED  BY <1>1, <1>4, <1>5 DEF OwnersInv, AsMeant

LEMMA BindKeepsOwners ==
  ASSUME OwnersInv, NEW q \in QDs, NEW e \in Endpoints, BindTo(q, e),
         sockets[q] = "unbound", bound[e] = NoQueue, UNCHANGED <<opens, pops, read>>
  PROVE  OwnersInv'
<1> DEFINE n == Len(queues)
<1>1. /\ bound[e] = NoQueue /\ sockets[q] = "unbound" /\ "unbound" \notin Endpoints
      /\ sockets' = [sockets EXCEPT ![q] = e]
      /\ queues' = Append(queues, <<>>)
      /\ bound' = [bound EXCEPT ![e] = n + 1]
      /\ UNCHANGED <<opens, pops, read>>
  BY DatagramAssumption DEF BindTo
<1>2. /\ n \in Nat
      /\ \A r \in QDs : r # q => sockets'[r] = sockets[r]
      /\ sockets'[q] = e
      /\ \A f \in Endpoints : f # e => bound'[f] = bound[f]
      /\ bound'[e] = n + 1
      /\ sockets' \in [QDs -> Endpoints \cup {"free", "leaked", "unbound"}]
      /\ bound' \in [Endpoints -> Nat]
  BY <1>1 DEF OwnersInv, Bindings
<1>3. /\ queues' \in Seq(Seq(Audience)) /\ Len(queues') = n + 1
      /\ \A k \in 1..n : queues'[k] = queues[k]
      /\ queues'[n + 1] = <<>>
  <2>1. <<>> \in Seq(Audience)
    OBVIOUS
  <2> QED  BY <1>1, <2>1 DEF OwnersInv, Bindings
<1>4. \A f \in Endpoints : bound[f] \in Nat /\ bound[f] <= n
  BY DEF OwnersInv, Bindings
<1> HIDE DEF n
<1>5. Bindings'
  <2>1. \A f \in Endpoints : bound'[f] # NoQueue <=> \E r \in QDs : sockets'[r] = f
    <3> TAKE f \in Endpoints
    <3>1. CASE f = e
      BY <1>2, <3>1 DEF NoQueue
    <3>2. CASE f # e
      BY <1>1, <1>2, <3>2 DEF OwnersInv, Bindings
    <3> QED  BY <3>1, <3>2
  <2>2. \A r \in QDs : sockets[r] # e
    BY <1>1 DEF OwnersInv, Bindings
  <2>3. \A r, t \in QDs : IsBound(r)' /\ sockets'[r] = sockets'[t] => r = t
    BY <1>1, <1>2, <2>2 DEF OwnersInv, Bindings, IsBound
  <2>4. \A f \in Endpoints : bound'[f] <= n + 1
    BY <1>2, <1>4
  <2>5. \A f, g \in Endpoints : bound'[f] = bound'[g] /\ bound'[f] # NoQueue => f = g
    <3> TAKE f, g \in Endpoints
    <3>1. CASE f # e /\ g # e
      BY <1>2, <3>1 DEF OwnersInv, Bindings
    <3>2. CASE f = e /\ g # e
      BY <1>2, <1>4, <3>2
    <3>3. CASE f # e /\ g = e
      BY <1>2, <1>4, <3>3
    <3> QED  BY <3>1, <3>2, <3>3
  <2>6. \A f \in Endpoints : bound'[f] <= Len(queues')
    BY <1>3, <2>4
  <2>7. UNCHANGED opens /\ opens \in [QDs -> Nat]
    BY <1>1 DEF OwnersInv, Bindings
  <2> QED  BY <1>2, <1>3, <2>1, <2>3, <2>5, <2>6, <2>7 DEF Bindings, IsBound, NoQueue
<1>6. Owned'
  <2>1. ASSUME NEW r \in QDs, NEW k \in Nat, IsBound(r)', bound'[sockets'[r]] = k
        PROVE  Only(k, Owner(r))'
    <3>1. CASE r = q
      <4>1. k = n + 1 /\ Len(queues'[k]) = 0
        BY <1>2, <1>3, <2>1, <3>1
      <4> QED  BY <4>1 DEF Only
    <3>2. CASE r # q
      <4>1. IsBound(r) /\ sockets'[r] = sockets[r] /\ sockets[r] # e /\ bound[sockets[r]] = k
        BY <1>1, <1>2, <2>1, <3>2 DEF OwnersInv, Bindings, IsBound
      <4>2. k \in 1..n /\ Only(k, Owner(r))
        BY <4>1, BoundTo DEF OwnersInv, Owned, n
      <4> QED  BY <1>1, <1>3, <4>2 DEF Only, Owner
    <3> QED  BY <3>1, <3>2
  <2>2. ASSUME NEW o \in pops'
        PROVE  /\ o.queue \in 1..Len(queues') /\ Only(o.queue, o.by)'
               /\ \A r \in QDs : IsBound(r)' /\ bound'[sockets'[r]] = o.queue
                                 => o.by = <<r, opens'[r]>>
    <3>1. /\ o.queue \in 1..n /\ Only(o.queue, o.by)
          /\ \A r \in QDs : IsBound(r) /\ bound[sockets[r]] = o.queue => o.by = <<r, opens[r]>>
      BY <1>1, <2>2 DEF OwnersInv, Owned, Owner, n
    <3>2. o.queue \in 1..Len(queues') /\ Only(o.queue, o.by)'
      <4>1. queues'[o.queue] = queues[o.queue]
        BY <1>3, <3>1
      <4>2. Only(o.queue, o.by)'
        BY <3>1, <4>1 DEF Only
      <4> QED  BY <1>2, <1>3, <3>1, <4>2
    <3>3. ASSUME NEW r \in QDs, IsBound(r)', bound'[sockets'[r]] = o.queue
          PROVE  o.by = <<r, opens'[r]>>
      <4>1. r # q
        BY <1>2, <3>1, <3>3
      <4>2. IsBound(r) /\ sockets'[r] = sockets[r] /\ sockets[r] # e
        BY <1>1, <1>2, <3>3, <4>1 DEF OwnersInv, Bindings, IsBound
      <4> QED  BY <1>1, <1>2, <3>1, <3>3, <4>2 DEF IsBound
    <3> QED  BY <3>2, <3>3
  <2> QED  BY <2>1, <2>2 DEF Owned, Owner
<1> QED  BY <1>1, <1>5, <1>6 DEF OwnersInv, AsMeant

LEMMA PopKeepsOwners ==
  ASSUME OwnersInv, NEW q \in QDs, Pop(q)
  PROVE  OwnersInv'
<1>1. /\ UNCHANGED <<sockets, opens, bound, queues, read>>
      /\ IF IsBound(q) THEN pops' = pops \cup {[by |-> Owner(q), queue |-> bound[sockets[q]]]}
                       ELSE UNCHANGED pops
  BY BoundTo DEF Pop, Reads, OwnersInv, NoQueue
<1>2. Bindings' /\ AsMeant'
  BY <1>1 DEF OwnersInv, Bindings, IsBound, AsMeant
<1>3. Owned'
  <2>1. ASSUME NEW o \in pops'
        PROVE  /\ o.queue \in 1..Len(queues) /\ Only(o.queue, o.by)
               /\ \A r \in QDs : IsBound(r) /\ bound[sockets[r]] = o.queue => o.by = Owner(r)
    <3>1. CASE o \in pops
      BY <3>1 DEF OwnersInv, Owned
    <3>2. CASE IsBound(q) /\ o = [by |-> Owner(q), queue |-> bound[sockets[q]]]
      <4>1. o.by = Owner(q) /\ o.queue = bound[sockets[q]] /\ o.queue \in 1..Len(queues)
        BY <3>2, BoundTo DEF OwnersInv
      <4>2. Only(o.queue, o.by)
        BY <3>2, <4>1 DEF OwnersInv, Owned
      <4>3. \A r \in QDs : IsBound(r) /\ bound[sockets[r]] = o.queue => r = q
        BY <3>2, <4>1, BoundTo DEF OwnersInv, IsBound
      <4> QED  BY <4>1, <4>2, <4>3
    <3> QED  BY <1>1, <2>1, <3>1, <3>2
  <2> QED  BY <1>1, <2>1 DEF OwnersInv, Owned, Only, Owner, IsBound
<1> QED  BY <1>2, <1>3 DEF OwnersInv

(* One queue changes, and holds still nothing but what is meant for those  *)
(* it was for.                                                             *)
LEMMA QueueChanges ==
  ASSUME OwnersInv, UNCHANGED <<sockets, opens, bound>>, pops' \subseteq pops,
         NEW k \in 1..Len(queues),
         queues' \in Seq(Seq(Audience)), Len(queues') = Len(queues),
         \A j \in 1..Len(queues) : j # k => queues'[j] = queues[j],
         \A q \in QDs : IsBound(q) /\ bound[sockets[q]] = k
                        => \A i \in 1..Len(queues'[k]) : queues'[k][i] = {Owner(q)},
         \A o \in pops : o.queue = k => \A i \in 1..Len(queues'[k]) : queues'[k][i] = {o.by}
  PROVE  Bindings' /\ Owned'
<1>1. Bindings'
  BY DEF OwnersInv, Bindings, IsBound
<1>2. ASSUME NEW q \in QDs, NEW j \in Nat, IsBound(q), bound[sockets[q]] = j
      PROVE  \A i \in 1..Len(queues'[j]) : queues'[j][i] = {Owner(q)}
  <2>1. j \in 1..Len(queues) /\ Only(j, Owner(q))
    BY <1>2, BoundTo DEF OwnersInv, Owned
  <2>2. CASE j = k
    BY <1>2, <2>2
  <2>3. CASE j # k
    BY <2>1, <2>3 DEF Only
  <2> QED  BY <2>2, <2>3
<1>3. ASSUME NEW o \in pops
      PROVE  /\ o.queue \in 1..Len(queues')
             /\ \A i \in 1..Len(queues'[o.queue]) : queues'[o.queue][i] = {o.by}
  <2>1. o.queue \in 1..Len(queues) /\ Only(o.queue, o.by)
    BY <1>3 DEF OwnersInv, Owned
  <2>2. CASE o.queue = k
    BY <1>3, <2>1, <2>2
  <2>3. CASE o.queue # k
    <3>1. queues'[o.queue] = queues[o.queue]
      BY <2>1, <2>3
    <3> QED  BY <2>1, <3>1 DEF Only
  <2> QED  BY <2>2, <2>3
<1>4. Owned'
  BY <1>2, <1>3 DEF OwnersInv, Owned, Only, Owner, IsBound
<1> QED  BY <1>1, <1>4

LEMMA PollKeepsOwners ==
  ASSUME OwnersInv, NEW o \in pops, PollPop(o)
  PROVE  OwnersInv'
<1> DEFINE k == o.queue
           z == Tail(queues[k])
<1>1. /\ queues[k] # <<>> /\ queues' = [queues EXCEPT ![k] = z]
      /\ read' = [meant |-> Head(queues[k]), by |-> {o.by}]
      /\ pops' \subseteq pops
      /\ UNCHANGED <<sockets, opens, bound>>
  BY DEF PollPop
<1>2. k \in 1..Len(queues) /\ Only(k, o.by) /\ queues[k] \in Seq(Audience)
  BY DEF OwnersInv, Owned, Bindings
<1>3. /\ z \in Seq(Audience) /\ Len(queues[k]) \in Nat /\ Len(queues[k]) > 0
      /\ Head(queues[k]) = queues[k][1] /\ Len(z) = Len(queues[k]) - 1
      /\ \A i \in 1..(Len(queues[k]) - 1) : z[i] = queues[k][i + 1]
  BY <1>1, <1>2, TailTyped
<1>4. \A x : Only(k, x) => \A i \in 1..Len(z) : z[i] = {x}
  <2> SUFFICES ASSUME NEW x, Only(k, x), NEW i \in 1..Len(z) PROVE z[i] = {x}
    OBVIOUS
  <2>1. i \in 1..(Len(queues[k]) - 1) /\ i + 1 \in 1..Len(queues[k])
    BY <1>3
  <2> HIDE DEF z
  <2> QED  BY <1>3, <2>1 DEF Only
<1> HIDE DEF z
<1>5. Bindings' /\ Owned'
  <2>1. \A q \in QDs : IsBound(q) /\ bound[sockets[q]] = k => Only(k, Owner(q))
    BY <1>2 DEF OwnersInv, Owned
  <2>2. \A p \in pops : p.queue = k => Only(k, p.by)
    BY DEF OwnersInv, Owned
  <2>3. /\ queues' \in Seq(Seq(Audience)) /\ Len(queues') = Len(queues)
        /\ \A j \in 1..Len(queues) : j # k => queues'[j] = queues[j]
        /\ queues'[k] = z
    BY <1>1, <1>2, <1>3 DEF OwnersInv, Bindings
  <2>4. \A x : Only(k, x) => \A i \in 1..Len(queues'[k]) : queues'[k][i] = {x}
    BY <1>4, <2>3
  <2>5. k \in 1..Len(queues) /\ pops' \subseteq pops /\ UNCHANGED <<sockets, opens, bound>>
    BY <1>1, <1>2
  <2>6. /\ queues' \in Seq(Seq(Audience)) /\ Len(queues') = Len(queues)
        /\ \A j \in 1..Len(queues) : j # k => queues'[j] = queues[j]
    BY <2>3
  <2> HIDE DEF k
  <2>7. \A q \in QDs : IsBound(q) /\ bound[sockets[q]] = k
                        => \A i \in 1..Len(queues'[k]) : queues'[k][i] = {Owner(q)}
    BY <2>1, <2>4
  <2>8. \A p \in pops : p.queue = k
                        => \A i \in 1..Len(queues'[k]) : queues'[k][i] = {p.by}
    BY <2>2, <2>4
  <2> QED  BY <2>5, <2>6, <2>7, <2>8, QueueChanges
<1>6. Head(queues[k]) = {o.by}
  BY <1>2, <1>3 DEF Only
<1> QED  BY <1>1, <1>5, <1>6 DEF OwnersInv, AsMeant

LEMMA ArriveKeepsOwners ==
  ASSUME OwnersInv, NEW e \in Endpoints, Arrive(e)
  PROVE  OwnersInv'
<1> DEFINE k == Receiver(e)
           z == Pushed(queues[k], Meant(e))
           f == IF bound[e] # NoQueue THEN e ELSE Fallback[e]
<1>1. /\ UNCHANGED <<sockets, opens, bound, pops, read>>
      /\ IF k = NoQueue THEN UNCHANGED queues ELSE queues' = [queues EXCEPT ![k] = z]
  BY DEF Arrive
<1>2. AsMeant'
  BY <1>1 DEF OwnersInv, AsMeant
<1>3. CASE k = NoQueue
  <2>1. UNCHANGED <<sockets, opens, bound, pops, read, queues>>
    BY <1>1, <1>3
  <2>2. Bindings'
    BY <2>1 DEF OwnersInv, Bindings, IsBound
  <2>3. Owned'
    BY <2>1 DEF OwnersInv, Owned, Only, Owner, IsBound
  <2> QED  BY <1>2, <2>2, <2>3 DEF OwnersInv
<1>4. CASE k # NoQueue
  <2>1. f \in Endpoints /\ k = bound[f]
    BY DatagramAssumption DEF Receiver
  <2>2. PICK q \in QDs : sockets[q] = f
    BY <1>4, <2>1 DEF OwnersInv, Bindings
  <2>3. IsBound(q) /\ bound[sockets[q]] = k
    BY <2>1, <2>2 DEF IsBound
  <2>4. k \in 1..Len(queues)
    BY <2>3, BoundTo DEF OwnersInv
  <2>5. Meant(e) = {Owner(q)}
    <3>1. {Owner(r) : r \in {t \in QDs : sockets[t] = f}} = {Owner(q)}
      BY <2>1, <2>2 DEF OwnersInv, Bindings, IsBound
    <3>2. CASE bound[e] # NoQueue
      BY <3>1, <3>2 DEF Meant
    <3>3. CASE bound[e] = NoQueue
      <4>1. {Owner(r) : r \in {t \in QDs : sockets[t] = e}} = {}
        BY <3>3 DEF OwnersInv, Bindings
      <4> QED  BY <3>1, <3>3, <4>1 DEF Meant
    <3> QED  BY <3>2, <3>3
  <2>6. {Owner(q)} \in Audience /\ queues[k] \in Seq(Audience) /\ Only(k, Owner(q))
    BY <2>3, <2>4 DEF Audience, Owner, OwnersInv, Bindings, Owned
  <2>7. z \in Seq(Audience) /\ \A i \in 1..Len(z) : z[i] = {Owner(q)}
    <3> DEFINE w == queues[k]
               y == {Owner(q)}
    <3>1. z = Pushed(w, y)
      BY <2>5
    <3>2. w \in Seq(Audience) /\ y \in Audience
      BY <2>6
    <3> HIDE DEF w, y
    <3>3. /\ Pushed(w, y) \in Seq(Audience)
          /\ \E d \in 0..Len(w) :
               /\ Len(Pushed(w, y)) = Len(w) - d + 1
               /\ \A i \in 1..(Len(w) - d) : Pushed(w, y)[i] = w[i + d]
               /\ Pushed(w, y)[Len(w) - d + 1] = y
      BY <3>2, PushedIs, ZenonT(60)
    <3> HIDE DEF z
    <3>4. PICK d \in 0..Len(w) :
               /\ Len(z) = Len(w) - d + 1
               /\ \A i \in 1..(Len(w) - d) : z[i] = w[i + d]
               /\ z[Len(w) - d + 1] = y
      BY <3>1, <3>3
    <3>5. \A i \in 1..Len(w) : w[i] = y
      BY <2>6 DEF Only, w, y
    <3>6. ASSUME NEW i \in 1..Len(z) PROVE z[i] = y
      <4>1. Len(w) \in Nat
        BY <3>2
      <4>2. CASE i = Len(w) - d + 1
        BY <3>4, <4>2
      <4>3. CASE i # Len(w) - d + 1
        <5>1. i \in 1..(Len(w) - d) /\ i + d \in 1..Len(w)
          <6>1. i \in 1..(Len(w) - d + 1)
            BY <3>4, <3>6
          <6> QED  BY <4>1, <4>3, <6>1
        <5> QED  BY <3>4, <3>5, <5>1
      <4> QED  BY <4>2, <4>3
    <3> QED  BY <3>1, <3>3, <3>6 DEF y
  <2>8. \A r \in QDs : IsBound(r) /\ bound[sockets[r]] = k => Owner(r) = Owner(q)
    BY <2>3, BoundTo DEF OwnersInv, IsBound
  <2>9. \A o \in pops : o.queue = k => o.by = Owner(q)
    BY <2>3 DEF OwnersInv, Owned
  <2> HIDE DEF z
  <2>10. queues' = [queues EXCEPT ![k] = z]
    BY <1>1, <1>4
  <2>11. /\ queues' \in Seq(Seq(Audience)) /\ Len(queues') = Len(queues)
         /\ \A j \in 1..Len(queues) : j # k => queues'[j] = queues[j]
         /\ queues'[k] = z
    BY <2>4, <2>7, <2>10 DEF OwnersInv, Bindings
  <2>12. /\ queues' \in Seq(Seq(Audience)) /\ Len(queues') = Len(queues)
         /\ \A j \in 1..Len(queues) : j # k => queues'[j] = queues[j]
         /\ \A i \in 1..Len(queues'[k]) : queues'[k][i] = {Owner(q)}
    BY <2>7, <2>11
  <2>13. pops' \subseteq pops /\ UNCHANGED <<sockets, opens, bound>>
    BY <1>1
  <2> HIDE DEF k
  <2>14. Bindings' /\ Owned'
    <3>1. \A r \in QDs : IsBound(r) /\ bound[sockets[r]] = k
                          => \A i \in 1..Len(queues'[k]) : queues'[k][i] = {Owner(r)}
      BY <2>8, <2>12
    <3>2. \A o \in pops : o.queue = k
                          => \A i \in 1..Len(queues'[k]) : queues'[k][i] = {o.by}
      BY <2>9, <2>12
    <3> QED  BY <2>4, <2>12, <2>13, <3>1, <3>2, QueueChanges
  <2> QED  BY <1>2, <2>14 DEF OwnersInv
<1> QED  BY <1>3, <1>4

(* Of the calls only bind to port 0 can give an endpoint out again. *)
LEMMA CallKeepsOwners ==
  ASSUME OwnersInv, NEW q \in QDs, Call(q)
  PROVE  doubled' \/ OwnersInv'
<1>1. ASSUME UNCHANGED udpVars PROVE OwnersInv'
  BY <1>1 DEF udpVars, OwnersInv, Bindings, Owned, Only, Owner, IsBound, AsMeant
<1>2. ASSUME NEW e \in Endpoints, Bind(q, e) PROVE OwnersInv'
  BY <1>2, BindKeepsOwners DEF Bind
<1>3. ASSUME NEW e \in Endpoints, BindAny(q, e) PROVE doubled' \/ OwnersInv'
  <2>1. CASE sockets[q] = "unbound" /\ BindTo(q, e)
    <3>1. UNCHANGED <<opens, pops, read>>
      BY <1>3 DEF BindAny
    <3>2. CASE bound[e] = NoQueue
      BY <2>1, <3>1, <3>2, BindKeepsOwners
    <3>3. CASE bound[e] # NoQueue
      BY <2>1, <3>3 DEF BindTo
    <3> QED  BY <3>2, <3>3
  <2>2. CASE UNCHANGED <<sockets, queues, bound, doubled>>
    BY <1>3, <2>2 DEF BindAny, OwnersInv, Bindings, Owned, Only, Owner, IsBound, AsMeant
  <2> QED  BY <1>3, <2>1, <2>2 DEF BindAny
<1> QED
  BY <1>1, <1>2, <1>3, SocketKeepsOwners, CloseKeepsOwners, PopKeepsOwners DEF Call, PushTo

LEMMA StepKeepsOwners ==
  ASSUME doubled \/ OwnersInv, [Next]_datagramVars
  PROVE  doubled' \/ OwnersInv'
<1>1. ASSUME OwnersInv, UNCHANGED udpVars PROVE OwnersInv'
  BY <1>1 DEF udpVars, OwnersInv, Bindings, Owned, Only, Owner, IsBound, AsMeant
<1>2. CASE UNCHANGED datagramVars
  BY <1>1, <1>2 DEF datagramVars, udpVars
<1>3. ASSUME NEW q \in QDs, Call(q) PROVE doubled' \/ OwnersInv'
  <2>1. ASSUME doubled PROVE doubled'
    BY <1>3, <2>1 DEF Call, SocketCall, Close, Pop, Bind, BindAny, BindTo, PushTo, udpVars
  <2> QED  BY <1>3, <2>1, CallKeepsOwners
<1>4. CASE UdpPoll \/ IcmpTake \/ IcmpEnds
  <2>1. UNCHANGED udpVars
    BY <1>4 DEF UdpPoll, UdpTake, UdpPark, UdpAnswered, UdpGiveUp, UdpWaits, IcmpTake, IcmpEnds
  <2> QED  BY <1>1, <2>1 DEF udpVars
<1>5. CASE \/ \E a \in Addrs : EchoArrives(a) \/ TcpQuery(a) \/ TcpPoll(a) \/ TcpCancel(a)
           \/ \E p \in Pings : \/ ReplyArrives(p) \/ PingPoll(p)
                               \/ \E a \in Addrs : PingCall(p, a)
           \/ Quiet /\ Neighbours /\ UNCHANGED <<udpVars, sendVars, icmpVars>>
  <2>1. UNCHANGED udpVars
    BY <1>5 DEF EchoArrives, TcpQuery, TcpPoll, TcpCancel, ReplyArrives,
                PingPoll, PingResolves, PingEnd, PingCall
  <2> QED  BY <1>1, <2>1 DEF udpVars
<1>6. CASE (\E o \in pops : PollPop(o)) \/ (\E e \in Endpoints : Arrive(e))
  BY <1>6, PollKeepsOwners, ArriveKeepsOwners DEF PollPop, Arrive
<1> QED  BY <1>2, <1>3, <1>4, <1>5, <1>6 DEF Next

(* A datagram is read by the socket that held its address when it arrived, *)
(* or else by that of the wildcard address, whatever is bound, closed and  *)
(* bound again meanwhile and however long a pop waits, as long as the pool *)
(* gives no endpoint out that is bound (udp/peer.rs do_receive, do_bind,   *)
(* do_close, do_pop).                                                      *)
THEOREM OwnersInvariant == Spec => []OwnersRead
<1>1. ASSUME Init PROVE OwnersInv
  <2>1. \A e \in Endpoints : e # "free"
    BY DatagramAssumption
  <2>2. Bindings
    <3>1. <<>> \in Seq(Seq(Audience)) /\ Len(<<>>) = 0
      OBVIOUS
    <3> QED
      BY <1>1, <2>1, <3>1 DEF Init, NewUdpPeer, Bindings, IsBound, NoQueue
  <2>3. Owned
    BY <1>1, <2>1 DEF Init, NewUdpPeer, Owned, IsBound
  <2> QED  BY <1>1, <2>2, <2>3 DEF Init, NewUdpPeer, OwnersInv, AsMeant
<1>2. Init => doubled \/ OwnersInv
  BY <1>1
<1>3. doubled \/ OwnersInv => OwnersRead
  BY DEF OwnersInv, OwnersRead, AsMeant
<1> QED  BY <1>2, <1>3, StepKeepsOwners, PTL DEF Spec
=============================================================================

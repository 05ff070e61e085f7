---------------------------- MODULE TcpOpenProofs ----------------------------
(***************************************************************************)
(* Proofs about TcpOpen: whatever the network loses, delays or delivers    *)
(* twice, and whatever the application does meanwhile, the tables of both  *)
(* peers hold together, no assertion on them fails, and a connection the   *)
(* client takes for established is one the server holds.                   *)
(*                                                                         *)
(* The argument: the first SYN the server accepts from a port decides for  *)
(* ever what it holds of that port, in one of three places; what SYN+ACKs, *)
(* results and control blocks of the client say agrees with it; and the    *)
(* numbers of the SYNs of a port only grow, so that none can close the     *)
(* connection once a socket stands for it.                                 *)
(***************************************************************************)
EXTENDS TcpOpen, SequenceTheorems, TLAPS

-----------------------------------------------------------------------------
(* Values. *)

LEMMA SegmentFields ==
  ASSUME NEW s \in Segments
  PROVE  /\ s.port \in Ports /\ s.syn \in BOOLEAN
         /\ s.to \in {"client", "server"}
         /\ s.seq \in Nat \cup {None} /\ s.ack \in Nat \cup {None}
         /\ s.syn => s.seq \in Nat
BY DEF Segments

LEMMA SegmentMade ==
  ASSUME NEW p \in Ports, NEW n \in Nat, NEW m \in Nat
  PROVE  /\ Syn(p, n) \in Segments
         /\ SynAck(p, n, m) \in Segments
         /\ \A to \in {"client", "server"} :
                /\ Ack(to, p, n, m) \in Segments /\ ~Ack(to, p, n, m).syn
                /\ Rst(to, p) \in Segments /\ ~Rst(to, p).syn
BY DEF Syn, SynAck, Ack, Rst, Segment, Segments

LEMMA PairType ==
  ASSUME NEW m \in Nat, NEW n \in Nat
  PROVE  /\ Pair(m, n) \in Block /\ Pair(m, n) # TimedOut
         /\ Pair(m, n).mine = m /\ Pair(m, n).theirs = n /\ Pair(m, n).open
         /\ TimedOut \in Block
BY DEF Pair, Block, TimedOut

LEMMA ActiveType ==
  ASSUME NEW n \in Nat
  PROVE  /\ Active(n) \in Opening /\ Active(n).result = None /\ Active(n).isn = n
BY OpenAssumption DEF Active, Opening

(* What an entry of the active opens becomes.                              *)
LEMMA OpeningTypes ==
  ASSUME NEW a \in Opening
  PROVE  /\ a.isn \in Nat /\ a.result \in Block \cup {None}
         /\ a.waker \in QDs \cup {None}
         /\ \A n \in Nat \cup {None} :
              /\ [a EXCEPT !.tries = n] \in Opening
              /\ [a EXCEPT !.tries = n].isn = a.isn
              /\ [a EXCEPT !.tries = n].result = a.result
         /\ \A w \in QDs :
              /\ [a EXCEPT !.waker = w] \in Opening
              /\ [a EXCEPT !.waker = w].isn = a.isn
              /\ [a EXCEPT !.waker = w].result = a.result
         /\ \A b \in Block :
              /\ [a EXCEPT !.waker = None, !.result = b] \in Opening
              /\ [a EXCEPT !.waker = None, !.result = b].isn = a.isn
              /\ [a EXCEPT !.waker = None, !.result = b].result = b
              /\ [a EXCEPT !.tries = None, !.waker = None, !.result = b] \in Opening
              /\ [a EXCEPT !.tries = None, !.waker = None, !.result = b].isn = a.isn
              /\ [a EXCEPT !.tries = None, !.waker = None, !.result = b].result = b
BY DEF Opening

(* What a received segment makes of a control block, and its answer.       *)
LEMMA ReceivedTypes ==
  ASSUME NEW s \in Segments, NEW cb \in Block, NEW to \in {"client", "server"}
  PROVE  /\ After(s, cb) \in Block
         /\ After(s, cb).mine = cb.mine /\ After(s, cb).theirs = cb.theirs
         /\ ~New(s, cb) => After(s, cb) = cb
         /\ \A a \in Answer(to, s, cb) : a \in Segments /\ ~a.syn
<1>1. /\ After(s, cb) \in Block
      /\ After(s, cb).mine = cb.mine /\ After(s, cb).theirs = cb.theirs
      /\ ~New(s, cb) => After(s, cb) = cb
  BY DEF After, Block
<1>2. Ack(to, s.port, cb.mine, cb.theirs) \in Segments
      /\ ~Ack(to, s.port, cb.mine, cb.theirs).syn
  BY SegmentFields, SegmentMade DEF Block
<1> QED  BY <1>1, <1>2 DEF Answer

LEMMA EmbryoTypes ==
  ASSUME NEW a \in Embryo
  PROVE  /\ a.mine \in Nat /\ a.theirs \in Nat /\ a.tries \in Nat
         /\ \A n \in Nat : /\ [a EXCEPT !.tries = n] \in Embryo
                           /\ [a EXCEPT !.tries = n].mine = a.mine
                           /\ [a EXCEPT !.tries = n].theirs = a.theirs
BY DEF Embryo

(* A table, entry by entry.                                                *)
LEMMA Tables ==
  ASSUME TypeOK
  PROVE  /\ sockets \in [QDs -> Endpoint \cup {None}]
         /\ connecting \in [Ports -> Opening \cup {None}]
         /\ established \in [Ports -> Block \cup {None}]
         /\ serving \in [Ports -> Block \cup {None}]
         /\ inflight \in [Ports -> Embryo \cup {None}]
         /\ ready \in Seq(Waiting)
         /\ net \subseteq Segments
BY DEF TypeOK

(* What waits to be accepted, and its ports.                               *)
Acceptable == {ready[i] : i \in DOMAIN ready}
Distinct   == \A i, j \in DOMAIN ready : ready[i].port = ready[j].port => i = j

LEMMA ReadyJoins ==
  ASSUME ready \in Seq(Waiting), NEW r \in Waiting, ready' = Append(ready, r)
  PROVE  /\ ready' \in Seq(Waiting) /\ Acceptable' = Acceptable \cup {r}
         /\ ReadyPorts' = ReadyPorts \cup {r.port}
         /\ Distinct /\ r.port \notin ReadyPorts => Distinct'
<1>1. PICK n \in Nat : n = Len(ready) /\ DOMAIN ready = 1..n
  OBVIOUS
<1>2. /\ ready' \in Seq(Waiting) /\ DOMAIN ready' = 1..(n + 1)
      /\ \A i \in 1..n : ready'[i] = ready[i]
      /\ ready'[n + 1] = r
  BY <1>1
<1>3. /\ \A i \in 1..(n + 1) : i \in 1..n \/ i = n + 1
      /\ \A i \in 1..n : i \in 1..(n + 1) /\ i # n + 1
      /\ n + 1 \in 1..(n + 1)
  OBVIOUS
<1>4. Acceptable' = Acceptable \cup {r}
  BY <1>1, <1>2, <1>3 DEF Acceptable
<1>5. ReadyPorts' = ReadyPorts \cup {r.port}
  BY <1>1, <1>2, <1>3 DEF ReadyPorts
<1>6. ASSUME Distinct, r.port \notin ReadyPorts PROVE Distinct'
  BY <1>1, <1>2, <1>3, <1>6 DEF Distinct, ReadyPorts
<1> QED  BY <1>2, <1>4, <1>5, <1>6

LEMMA ReadyLeaves ==
  ASSUME ready \in Seq(Waiting), ready # <<>>, ready' = Tail(ready),
         NEW r, r = Head(ready)
  PROVE  /\ ready' \in Seq(Waiting) /\ r \in Waiting
         /\ Acceptable = Acceptable' \cup {r}
         /\ ReadyPorts = ReadyPorts' \cup {r.port}
         /\ Distinct => Distinct' /\ r.port \notin ReadyPorts'
<1>1. PICK n \in Nat : n = Len(ready) /\ DOMAIN ready = 1..n
  OBVIOUS
<1>2. /\ n > 0 /\ ready' \in Seq(Waiting) /\ r = ready[1] /\ r \in Waiting
      /\ DOMAIN ready' = 1..(n - 1)
      /\ \A i \in 1..(n - 1) : ready'[i] = ready[i + 1]
  <2>1. /\ Tail(ready) \in Seq(Waiting) /\ Len(Tail(ready)) = Len(ready) - 1
        /\ \A i \in 1..Len(Tail(ready)) : Tail(ready)[i] = ready[i + 1]
        /\ Head(ready) \in Waiting
    BY HeadTailProperties
  <2>2. Len(ready) > 0
    BY EmptySeq
  <2> QED  BY <1>1, <2>1, <2>2
<1>3. /\ \A i \in 1..n : i = 1 \/ (i - 1 \in 1..(n - 1) /\ (i - 1) + 1 = i)
      /\ \A i \in 1..(n - 1) : i + 1 \in 1..n /\ i + 1 # 1
      /\ 1 \in 1..n
      /\ \A i, j \in 1..(n - 1) : i + 1 = j + 1 => i = j
  BY <1>2
<1>4. ASSUME NEW i \in 1..n, i # 1
      PROVE  \E j \in 1..(n - 1) : ready[i] = ready'[j]
  <2>1. i - 1 \in 1..(n - 1) /\ (i - 1) + 1 = i
    BY <1>3, <1>4
  <2>2. ready'[i - 1] = ready[i]
    BY <1>2, <2>1
  <2> QED  BY <2>1, <2>2
<1>5. Acceptable = Acceptable' \cup {r}
  <2>1. ASSUME NEW i \in 1..n PROVE ready[i] \in Acceptable' \cup {r}
    <3>1. CASE i = 1  BY <3>1, <1>2
    <3>2. CASE i # 1
      <4>1. PICK j \in 1..(n - 1) : ready[i] = ready'[j]
        BY <3>2, <1>4
      <4> QED  BY <4>1, <1>2 DEF Acceptable
    <3> QED  BY <3>1, <3>2
  <2>2. ASSUME NEW x \in Acceptable' PROVE x \in Acceptable
    <3>1. PICK j \in 1..(n - 1) : x = ready'[j]
      BY <1>2 DEF Acceptable
    <3> QED  BY <1>1, <1>2, <1>3, <3>1 DEF Acceptable
  <2>3. r \in Acceptable
    BY <1>1, <1>2, <1>3 DEF Acceptable
  <2>4. \A x \in Acceptable : \E i \in 1..n : x = ready[i]
    BY <1>1 DEF Acceptable
  <2> QED  BY <2>1, <2>2, <2>3, <2>4
<1>6. ReadyPorts = ReadyPorts' \cup {r.port}
  <2>1. ReadyPorts = {x.port : x \in Acceptable}
    BY DEF ReadyPorts, Acceptable
  <2>2. ReadyPorts' = {x.port : x \in Acceptable'}
    BY DEF ReadyPorts, Acceptable
  <2> QED  BY <1>5, <2>1, <2>2
<1>7. ASSUME Distinct PROVE Distinct' /\ r.port \notin ReadyPorts'
  BY <1>1, <1>2, <1>3, <1>7 DEF Distinct, ReadyPorts
<1> QED  BY <1>2, <1>5, <1>6, <1>7

LEMMA WakeTypes ==
  ASSUME TypeOK
  PROVE  /\ \A w \in QDs \cup {None} : WakeUp(w) \in [QDs -> {"none", "runnable", "asleep"}]
         /\ \A w \in Accepts \cup {None} :
              WakeAccept(w) \in [Accepts -> {"idle", "runnable", "asleep", "done"}]
BY DEF TypeOK, WakeUp, WakeAccept, Woken

(* What the pool holds, and what bind may choose.                          *)
LEMMA PoolOf ==
  ASSUME TypeOK
  PROVE  /\ pool \subseteq Ports /\ pool \ CorePorts \subseteq Ephemeral
         /\ CorePorts \subseteq Fixed /\ Fixed \cap Ephemeral = {} /\ 0 \notin Ports
BY OpenAssumption DEF TypeOK, Ports

LEMMA ChoicesArePorts ==
  ASSUME TypeOK, NEW addr \in Ports \cup {0}, NEW p \in Choices(addr)
  PROVE  p \in Ports
BY PoolOf DEF Choices

-----------------------------------------------------------------------------
(* Types. *)

LEMMA CallsKeepTypes ==
  ASSUME TypeOK,
         \E q \in QDs : \/ SocketCall(q) \/ Connect(q) \/ Close(q)
                        \/ \E p \in Ports \cup {0} : Bind(q, p)
  PROVE  TypeOK'
<1> PICK q \in QDs : \/ SocketCall(q) \/ Connect(q) \/ Close(q)
                     \/ \E p \in Ports \cup {0} : Bind(q, p)
  OBVIOUS
<1>1. CASE SocketCall(q)
  <2>1. Socket("Inactive", None) \in Endpoint
    BY DEF Socket, Endpoint
  <2> QED  BY <1>1, <2>1 DEF SocketCall, DoSocket, TypeOK, serverVars
<1>2. CASE Connect(q)
  <2>1. PICK p \in Ports : DoConnect(q, p)
        /\ op' = [op EXCEPT ![q] = IF connecting[p] = None THEN "runnable" ELSE "none"]
    BY <1>2 DEF Connect
  <2>2. Socket("Connecting", p) \in Endpoint /\ Active(isn + 1) \in Opening
    BY ActiveType DEF Socket, Endpoint, TypeOK
  <2> QED  BY <1>2, <2>1, <2>2 DEF Connect, DoConnect, TypeOK, serverVars
<1>3. CASE Close(q)
  BY <1>3 DEF Close, DoClose, TypeOK, serverVars
<1>4. ASSUME NEW addr \in Ports \cup {0}, Bind(q, addr) PROVE TypeOK'
  <2>1. PICK p \in Choices(addr) :
           /\ pool' \subseteq pool
           /\ \/ /\ sockets[q] = Socket("Inactive", None)
                 /\ sockets' = [sockets EXCEPT ![q].port = p]
              \/ UNCHANGED sockets
    BY <1>4 DEF Bind, DoBind, Taken
  <2>2. p \in Ports
    BY <2>1, ChoicesArePorts
  <2>3. CASE UNCHANGED sockets
    BY <1>4, <2>1, <2>3 DEF Bind, TypeOK, serverVars
  <2>4. CASE /\ sockets[q] = Socket("Inactive", None)
             /\ sockets' = [sockets EXCEPT ![q].port = p]
    <3>1. [sockets[q] EXCEPT !.port = p] \in Endpoint
      BY <2>2, <2>4 DEF Socket, Endpoint
    <3> QED  BY <1>4, <2>1, <2>4, <3>1 DEF Bind, TypeOK, serverVars
  <2> QED  BY <2>1, <2>3, <2>4
<1> QED  BY <1>1, <1>2, <1>3, <1>4

LEMMA CoroutinesKeepTypes ==
  ASSUME TypeOK, ClientCoroutine
  PROVE  TypeOK'
<1>1. ASSUME NEW p \in Ports, SendSyn(p) PROVE TypeOK'
  <2>1. connecting[p] \in Opening /\ connecting[p].tries \in Nat \ {0}
    BY <1>1 DEF SendSyn, TypeOK
  <2>2. [connecting[p] EXCEPT !.tries = @ - 1] \in Opening
    <3>1. connecting[p].tries - 1 \in Nat
      BY <2>1
    <3> QED  BY <2>1, <3>1, OpeningTypes
  <2>3. Syn(p, connecting[p].isn) \in Segments
    BY <2>1, OpeningTypes, SegmentMade
  <2> QED  BY <1>1, <2>2, <2>3 DEF SendSyn, TypeOK, serverVars
<1>2. ASSUME NEW p \in Ports, TimeOut(p) PROVE TypeOK'
  <2>1. connecting[p] \in Opening
    BY <1>2 DEF TimeOut, TypeOK
  <2>2. [connecting[p] EXCEPT !.tries = None, !.waker = None, !.result = TimedOut] \in Opening
    BY <2>1, OpeningTypes, PairType
  <2>3. WakeUp(connecting[p].waker) \in [QDs -> {"none", "runnable", "asleep"}]
    BY <2>1, OpeningTypes, WakeTypes
  <2> QED  BY <1>2, <2>2, <2>3 DEF TimeOut, TypeOK, serverVars
<1>3. ASSUME NEW q \in QDs, PollConnect(q) PROVE TypeOK'
  <2> DEFINE p == sockets[q].port
             found == /\ sockets[q] # None /\ sockets[q].tag = "Connecting"
                      /\ connecting[p] # None
  <2>1. /\ UNCHANGED <<fileTable, pool, isn, serverVars, net, budget>>
        /\ \/ /\ op' = [op EXCEPT ![q] = "none"]
              /\ UNCHANGED <<sockets, connecting, established, panicked>>
           \/ /\ found /\ PollResult(q, p)
              /\ UNCHANGED <<sockets, established, panicked>>
           \/ /\ found
              /\ op' = [op EXCEPT ![q] = "none"]
              /\ connecting' = [connecting EXCEPT ![p] = None]
              /\ UNCHANGED <<sockets, established, panicked>>
           \/ /\ found /\ connecting[p].result # None
              /\ op' = [op EXCEPT ![q] = "none"]
              /\ connecting' = [connecting EXCEPT ![p] = None]
              /\ established' = [established EXCEPT ![p] = connecting[p].result]
              /\ sockets' = [sockets EXCEPT ![q].tag = "Established"]
              /\ panicked' = (panicked \/ established[p] # None)
    BY <1>3 DEF PollConnect
  <2>2. CASE op' = [op EXCEPT ![q] = "none"]
             /\ UNCHANGED <<sockets, connecting, established, panicked>>
    BY <2>1, <2>2 DEF TypeOK, serverVars
  <2>3. CASE /\ found
             /\ op' = [op EXCEPT ![q] = "none"]
             /\ connecting' = [connecting EXCEPT ![p] = None]
             /\ UNCHANGED <<sockets, established, panicked>>
    BY <2>1, <2>3 DEF TypeOK, serverVars
  <2>4. CASE found /\ PollResult(q, p) /\ UNCHANGED <<sockets, established, panicked>>
    <3>1. p \in Ports \cup {None} /\ op' = [op EXCEPT ![q] = "asleep"]
          /\ connecting' = [connecting EXCEPT ![p].waker = q]
      BY <2>4 DEF PollResult, TypeOK, Endpoint
    <3>2. p \in Ports => [connecting[p] EXCEPT !.waker = q] \in Opening
      <4>1. p \in Ports => connecting[p] \in Opening
        BY <2>4 DEF TypeOK
      <4> QED  BY <4>1, OpeningTypes
    <3> HIDE DEF p
    <3>3. connecting' \in [Ports -> Opening \cup {None}]
      BY <3>1, <3>2 DEF TypeOK
    <3> QED  BY <2>1, <2>4, <3>1, <3>3 DEF TypeOK, serverVars
  <2>5. CASE /\ found /\ connecting[p].result # None
             /\ op' = [op EXCEPT ![q] = "none"]
             /\ connecting' = [connecting EXCEPT ![p] = None]
             /\ established' = [established EXCEPT ![p] = connecting[p].result]
             /\ sockets' = [sockets EXCEPT ![q].tag = "Established"]
             /\ panicked' = (panicked \/ established[p] # None)
    <3>1. [sockets[q] EXCEPT !.tag = "Established"] \in Endpoint
          /\ p \in Ports \cup {None}
      BY <2>5 DEF TypeOK, Endpoint
    <3>2. p \in Ports => connecting[p].result \in Block
      BY <2>5, OpeningTypes DEF TypeOK
    <3> HIDE DEF p
    <3>3. /\ established' \in [Ports -> Block \cup {None}]
          /\ sockets' \in [QDs -> Endpoint \cup {None}]
          /\ connecting' \in [Ports -> Opening \cup {None}]
      BY <2>5, <3>1, <3>2 DEF TypeOK
    <3> QED  BY <2>1, <2>5, <3>3 DEF TypeOK, serverVars
  <2> QED  BY <2>1, <2>2, <2>3, <2>4, <2>5
<1> QED  BY <1>1, <1>2, <1>3 DEF ClientCoroutine

LEMMA ReceiptKeepsTypes ==
  ASSUME TypeOK, NEW s \in net, NEW rest \in SUBSET net, Receive(s, rest),
         budget' \in Nat
  PROVE  TypeOK'
<1> DEFINE p == s.port
<1>0. s \in Segments /\ p \in Ports /\ rest \in SUBSET Segments
  BY SegmentFields, Tables
<1>1. ASSUME ClientReceive(s, rest) PROVE TypeOK'
  <2>1. CASE ClientEstablished(s, rest)
    <3>1. established[p] \in Block
      BY <1>0, <2>1 DEF ClientEstablished, TypeOK
    <3>2. /\ After(s, established[p]) \in Block
          /\ Answer("server", s, established[p]) \subseteq Segments
      BY <1>0, <3>1, ReceivedTypes
    <3>3. net' \in SUBSET Segments /\ established' \in [Ports -> Block \cup {None}]
      BY <1>0, <2>1, <3>2 DEF ClientEstablished, TypeOK
    <3> QED  BY <1>1, <2>1, <3>3 DEF ClientReceive, ClientEstablished, TypeOK, serverVars
  <2>2. CASE ClientConnecting(s, rest)
    <3>1. connecting[p] \in Opening
      BY <1>0, <2>2 DEF ClientConnecting, TypeOK
    <3>2. CASE Answers(s, connecting[p])
      <4>1. s.seq \in Nat /\ connecting[p].isn \in Nat
        BY <1>0, <3>1, <3>2, SegmentFields, OpeningTypes DEF Answers
      <4>2. Ack("server", p, connecting[p].isn, s.seq) \in Segments
        BY <1>0, <4>1, SegmentMade
      <4>3. Pair(connecting[p].isn, s.seq) \in Block
        BY <4>1, PairType
      <4>4. [connecting[p] EXCEPT !.waker = None, !.result = Pair(connecting[p].isn, s.seq)]
               \in Opening
        BY <3>1, <4>3, OpeningTypes
      <4>5. WakeUp(connecting[p].waker) \in [QDs -> {"none", "runnable", "asleep"}]
        BY <3>1, OpeningTypes, WakeTypes
      <4>6. /\ net' \in SUBSET Segments
            /\ connecting' \in [Ports -> Opening \cup {None}]
            /\ op' \in [QDs -> {"none", "runnable", "asleep"}]
        <5>1. /\ net' = rest \cup {Ack("server", p, connecting[p].isn, s.seq)}
              /\ connecting' = [connecting EXCEPT ![p] =
                    [connecting[p] EXCEPT !.waker = None,
                                          !.result = Pair(connecting[p].isn, s.seq)]]
              /\ op' = WakeUp(connecting[p].waker)
          BY <2>2, <3>2 DEF ClientConnecting
        <5>2. net' \in SUBSET Segments
          BY <1>0, <4>2, <5>1
        <5>3. connecting' \in [Ports -> Opening \cup {None}]
          BY <4>4, <5>1 DEF TypeOK
        <5> QED  BY <4>5, <5>1, <5>2, <5>3
      <4> QED  BY <1>1, <2>2, <4>6 DEF ClientReceive, ClientConnecting, TypeOK, serverVars
    <3>3. CASE ~Answers(s, connecting[p])
      BY <1>0, <1>1, <2>2, <3>3 DEF ClientReceive, ClientConnecting, TypeOK, serverVars
    <3> QED  BY <3>2, <3>3
  <2>3. CASE ClientRefuses(s, rest)
    <3>1. net' \in SUBSET Segments
      <4>1. Rst("server", p) \in Segments
        BY <1>0 DEF Rst, Segment, Segments
      <4> QED  BY <1>0, <2>3, <4>1 DEF ClientRefuses
    <3> QED  BY <1>1, <2>3, <3>1 DEF ClientReceive, ClientRefuses, TypeOK, serverVars, clientVars
  <2> QED  BY <1>1, <2>1, <2>2, <2>3 DEF ClientReceive
<1>2. ASSUME ServerReceive(s, rest) PROVE TypeOK'
  <2>1. CASE ServerEstablished(s, rest)
    <3>1. serving[p] \in Block
      BY <1>0, <2>1 DEF ServerEstablished, TypeOK
    <3>2. /\ After(s, serving[p]) \in Block
          /\ Answer("client", s, serving[p]) \subseteq Segments
      BY <1>0, <3>1, ReceivedTypes
    <3>3. net' \in SUBSET Segments /\ serving' \in [Ports -> Block \cup {None}]
      BY <1>0, <2>1, <3>2 DEF ServerEstablished, TypeOK
    <3> QED  BY <1>2, <2>1, <3>3 DEF ServerReceive, ServerEstablished, TypeOK, clientVars
  <2>2. CASE ServerRefuses(s, rest)
    <3>1. net' \in SUBSET Segments
      <4>1. Rst("client", p) \in Segments
        BY <1>0 DEF Rst, Segment, Segments
      <4> QED  BY <1>0, <2>2, <4>1 DEF ServerRefuses
    <3> QED  BY <1>2, <2>2, <3>1 DEF ServerReceive, ServerRefuses, TypeOK, clientVars, serverVars
  <2>3. ASSUME net' = rest, Finish(s) PROVE TypeOK'
    <3>1. inflight[p] \in Embryo
      BY <1>0, <2>3 DEF Finish, TypeOK
    <3>2. Pair(inflight[p].mine, inflight[p].theirs) \in Block
      BY <3>1, EmbryoTypes, PairType
    <3>3. [port |-> p, cb |-> Pair(inflight[p].mine, inflight[p].theirs)] \in Waiting
      BY <1>0, <3>2 DEF Waiting
    <3>4. ready' \in Seq(Waiting)
      BY <2>3, <3>3 DEF Finish, PushOk, TypeOK
    <3>5. /\ inflight' \in [Ports -> Embryo \cup {None}]
          /\ accepting' \in [Accepts -> {"idle", "runnable", "asleep", "done"}]
          /\ panicked' \in BOOLEAN
      BY <2>3, WakeTypes DEF Finish, PushOk, TypeOK
    <3> QED
      BY <1>0, <1>2, <2>3, <3>4, <3>5 DEF ServerReceive, Finish, PushOk, TypeOK, clientVars
  <2>4. ASSUME net' = rest, Begin(s) PROVE TypeOK'
    <3>1. s.seq \in Nat
      BY <1>0, <2>4, SegmentFields DEF Begin, IsSyn
    <3>2. [mine |-> serverIsn + 1, theirs |-> s.seq, tries |-> Retries] \in Embryo
      BY <3>1, OpenAssumption DEF Embryo, TypeOK
    <3> QED
      BY <1>0, <1>2, <2>4, <3>2 DEF ServerReceive, Begin, TypeOK, clientVars
  <2>5. ASSUME net' = rest, Drop(s) PROVE TypeOK'
    BY <1>0, <1>2, <2>5 DEF ServerReceive, Drop, TypeOK, clientVars, serverVars
  <2> QED  BY <1>2, <2>1, <2>2, <2>3, <2>4, <2>5 DEF ServerReceive
<1> QED  BY <1>1, <1>2 DEF Receive

LEMMA ServerKeepsTypes ==
  ASSUME TypeOK,
         \/ \E p \in Ports : SendSynAck(p)
         \/ \E a \in Accepts : Accept(a) \/ PollAccept(a)
  PROVE  TypeOK'
<1>1. ASSUME NEW p \in Ports, SendSynAck(p) PROVE TypeOK'
  <2>1. /\ inflight[p] \in Embryo /\ inflight[p].tries - 1 \in Nat
        /\ net' = net \cup {SynAck(p, inflight[p].mine, inflight[p].theirs)}
        /\ inflight' = [inflight EXCEPT ![p] =
                           [inflight[p] EXCEPT !.tries = inflight[p].tries - 1]]
    BY <1>1, EmbryoTypes DEF SendSynAck, TypeOK
  <2>2. /\ SynAck(p, inflight[p].mine, inflight[p].theirs) \in Segments
        /\ [inflight[p] EXCEPT !.tries = inflight[p].tries - 1] \in Embryo
    BY <2>1, EmbryoTypes, SegmentMade
  <2>3. net' \in SUBSET Segments /\ inflight' \in [Ports -> Embryo \cup {None}]
    BY <2>1, <2>2 DEF TypeOK
  <2> QED  BY <1>1, <2>3 DEF SendSynAck, TypeOK, clientVars
<1>2. ASSUME NEW a \in Accepts, Accept(a) PROVE TypeOK'
  BY <1>2 DEF Accept, TypeOK, clientVars
<1>3. ASSUME NEW a \in Accepts, PollAccept(a) PROVE TypeOK'
  <2>1. /\ accepting' \in [Accepts -> {"idle", "runnable", "asleep", "done"}]
        /\ waker' \in Accepts \cup {None}
    BY <1>3 DEF PollAccept, PollReady, TypeOK
  <2>2. CASE ready = <<>>
    BY <1>3, <2>1, <2>2 DEF PollAccept, PollReady, TypeOK, clientVars
  <2>3. CASE ready # <<>>
    <3> DEFINE r == Head(ready)
    <3>1. ready' = Tail(ready)
      BY <1>3, <2>3 DEF PollAccept, PollReady
    <3>2. ready' \in Seq(Waiting) /\ r \in Waiting
      BY <2>3, <3>1, ReadyLeaves, Tables
    <3>3. r.port \in Ports /\ r.cb \in Block
      BY <3>2 DEF Waiting
    <3>4. /\ serving' = [serving EXCEPT ![r.port] = r.cb]
          /\ panicked' = (panicked \/ serving[r.port] # None)
      BY <1>3, <2>3 DEF PollAccept
    <3> HIDE DEF r
    <3>5. /\ serving' \in [Ports -> Block \cup {None}] /\ panicked' \in BOOLEAN
      BY <3>3, <3>4 DEF TypeOK
    <3> QED  BY <1>3, <2>1, <3>2, <3>5 DEF PollAccept, TypeOK, clientVars
  <2> QED  BY <2>2, <2>3
<1> QED  BY <1>1, <1>2, <1>3

LEMMA StepKeepsTypes ==
  ASSUME TypeOK, [Next]_vars
  PROVE  TypeOK'
<1>1. ASSUME NEW s \in net, Deliver(s) PROVE TypeOK'
  <2>1. budget' \in Nat /\ Receive(s, net \ {s})
    BY <1>1 DEF Deliver, TypeOK
  <2> QED  BY <2>1, ReceiptKeepsTypes
<1>2. ASSUME NEW s \in net, DeliverTwice(s) PROVE TypeOK'
  <2>1. budget' \in Nat /\ Receive(s, net)
    BY <1>2 DEF DeliverTwice, TypeOK
  <2> QED  BY <2>1, ReceiptKeepsTypes
<1>3. ASSUME UNCHANGED vars PROVE TypeOK'
  BY <1>3 DEF vars, clientVars, serverVars, TypeOK
<1> QED
  BY <1>1, <1>2, <1>3, CallsKeepTypes, CoroutinesKeepTypes, ServerKeepsTypes DEF Next

(* The tables of both peers hold what their types say (Inner,              *)
(* ActiveOpenSocket, PassiveSocket).                                       *)
THEOREM TablesTyped == Spec => []TypeOK
<1>1. ASSUME Init PROVE TypeOK
  <2>1. <<>> \in Seq(Waiting)
    OBVIOUS
  <2> QED  BY <1>1, <2>1, OpenAssumption DEF Init, NewPassive, TypeOK
<1> QED  BY <1>1, StepKeepsTypes, PTL DEF Spec

-----------------------------------------------------------------------------
(* The tables.  At the client a result is stored only while no connection  *)
(* is established on the port, and a socket that connects has a port.  At  *)
(* the server a port is in one of three places: being opened, ready,       *)
(* accepted.                                                               *)

HasResult(p) == connecting[p] # None /\ connecting[p].result \notin {None, TimedOut}
ResultFirst  == \A p \in Ports : HasResult(p) => established[p] = None
Addressed    ==
  \A q \in QDs : sockets[q] # None /\ sockets[q].tag # "Inactive" => sockets[q].port # None
ClientTables == PortsHeld /\ ResultFirst /\ Addressed

OnceOpened ==
  /\ Distinct
  /\ \A p \in Ports : p \in ReadyPorts => serving[p] = None
  /\ \A p \in Ports : inflight[p] # None => p \notin ReadyPorts /\ serving[p] = None

TablesInv == TypeOK /\ ClientTables /\ OnceOpened /\ NoPanic

LEMMA CallsKeepTables ==
  ASSUME TypeOK, ClientTables, ~panicked,
         \E q \in QDs : \/ SocketCall(q) \/ Connect(q) \/ Close(q)
                        \/ \E p \in Ports \cup {0} : Bind(q, p)
  PROVE  ClientTables' /\ ~panicked'
<1> PICK q \in QDs : \/ SocketCall(q) \/ Connect(q) \/ Close(q)
                     \/ \E p \in Ports \cup {0} : Bind(q, p)
  OBVIOUS
<1>0. /\ \A r, t \in QDs : /\ r # t /\ sockets[r] # None /\ sockets[t] # None
                           /\ sockets[r].port # None
                           => \/ sockets[r].port # sockets[t].port
                              \/ sockets[r].port \in GivenOut
      /\ \A p \in pool \ CorePorts :
            /\ p \in Ports /\ connecting[p] = None /\ established[p] = None
            /\ \A r \in QDs : sockets[r] # None => sockets[r].port # p
      /\ \A r \in QDs : sockets[r] # None => r \in fileTable
      /\ \A r \in QDs : sockets[r] # None /\ sockets[r].tag # "Inactive"
                        => sockets[r].port # None
      /\ \A p \in Ports : HasResult(p) => established[p] = None
      /\ None \notin Ports
  BY OpenAssumption, PoolOf DEF ClientTables, PortsHeld, Bound, GivenOut, Addressed, ResultFirst, Ports
<1>1. CASE SocketCall(q)
  <2>1. /\ sockets[q] = None
        /\ sockets' = [sockets EXCEPT ![q] = Socket("Inactive", None)]
        /\ fileTable' = fileTable \cup {q}
        /\ UNCHANGED <<pool, connecting, established>>
    BY <1>0, <1>1 DEF SocketCall, DoSocket
  <2>2. /\ sockets'[q] # None /\ sockets'[q].port = None /\ sockets'[q].tag = "Inactive"
        /\ \A r \in QDs : r # q => sockets'[r] = sockets[r]
    BY <2>1, NoneAssumption DEF TypeOK, Socket, Endpoint
  <2>3. PortsHeld'
    BY <1>0, <2>1, <2>2 DEF PortsHeld, Bound, GivenOut
  <2>4. ResultFirst' /\ Addressed'
    BY <1>0, <2>1, <2>2 DEF ResultFirst, HasResult, Addressed
  <2> QED  BY <1>1, <2>1, <2>3, <2>4 DEF ClientTables, SocketCall, DoSocket
(* q gets port p, of which the pool has only a copy left if any. *)
<1>2. ASSUME NEW p \in Ports, sockets[q] # None,
             sockets'[q] # None, sockets'[q].port = p,
             \A r \in QDs : r # q => sockets'[r] = sockets[r],
             \/ \A r \in QDs : r # q /\ sockets[r] # None => sockets[r].port # p
             \/ p \in GivenOut',
             pool' \subseteq pool, p \notin pool' \ CorePorts,
             \A t \in Ports : t # p => connecting'[t] = connecting[t],
             UNCHANGED <<fileTable, established>>
      PROVE  PortsHeld' /\ Addressed'
  <2>1. \A r, t \in QDs : /\ r # t /\ sockets'[r] # None /\ sockets'[t] # None
                          /\ sockets'[r].port # None
                          => \/ sockets'[r].port # sockets'[t].port
                             \/ sockets'[r].port \in GivenOut'
    <3>1. GivenOut \subseteq GivenOut'
      BY <1>2 DEF GivenOut
    <3> QED  BY <1>0, <1>2, <3>1
  <2>2. \A t \in pool' \ CorePorts :
            /\ connecting'[t] = None /\ established'[t] = None
            /\ \A r \in QDs : sockets'[r] # None => sockets'[r].port # t
    BY <1>0, <1>2
  <2>3. \A r \in QDs : sockets'[r] # None => r \in fileTable'
    BY <1>0, <1>2
  <2>4. \A r \in QDs : sockets'[r] # None /\ sockets'[r].tag # "Inactive"
                       => sockets'[r].port # None
    BY <1>0, <1>2
  <2> QED  BY <2>1, <2>2, <2>3, <2>4 DEF PortsHeld, Bound, GivenOut, Addressed
<1>3. CASE Connect(q)
  <2>1. PICK p \in Ports : DoConnect(q, p)
    BY <1>3 DEF Connect
  <2>2. UNCHANGED <<fileTable, established, panicked>>
    BY <1>3 DEF Connect
  <2>3. /\ sockets[q] # None
        /\ \/ p \in pool /\ pool' = pool \ {p}
           \/ sockets[q].port = p /\ pool' = pool
        /\ sockets' = [sockets EXCEPT ![q] = Socket("Connecting", p)]
        /\ connecting' = [connecting EXCEPT ![p] = Active(isn + 1)]
    BY <2>1 DEF DoConnect
  <2>4. /\ sockets'[q] # None /\ sockets'[q].port = p
        /\ \A r \in QDs : r # q => sockets'[r] = sockets[r]
    BY <2>3, NoneAssumption DEF TypeOK, Socket, Endpoint
  <2>5. /\ \/ \A r \in QDs : r # q /\ sockets[r] # None => sockets[r].port # p
           \/ p \in GivenOut'
        /\ pool' \subseteq pool /\ p \notin pool' \ CorePorts
    BY <1>0, <2>3 DEF GivenOut
  <2>6. /\ \A t \in Ports : t # p => connecting'[t] = connecting[t]
        /\ connecting'[p].result = None
    BY <2>3, ActiveType DEF TypeOK
  <2>7. PortsHeld' /\ Addressed'
    BY <1>2, <2>2, <2>3, <2>4, <2>5, <2>6
  <2>8. ResultFirst'
    BY <1>0, <2>2, <2>6 DEF ResultFirst, HasResult
  <2> QED  BY <2>2, <2>7, <2>8 DEF ClientTables
<1>4. CASE Close(q)
  <2>1. /\ sockets' = [sockets EXCEPT ![q] = None]
        /\ \A r \in QDs : r # q /\ r \in fileTable => r \in fileTable'
        /\ UNCHANGED <<pool, connecting, established, panicked>>
    BY <1>4 DEF Close, DoClose
  <2>2. /\ sockets'[q] = None
        /\ \A r \in QDs : r # q => sockets'[r] = sockets[r]
    BY <2>1 DEF TypeOK
  <2>3. PortsHeld'
    BY <1>0, <2>1, <2>2 DEF PortsHeld, Bound, GivenOut
  <2>4. ResultFirst' /\ Addressed'
    BY <1>0, <2>1, <2>2 DEF ResultFirst, HasResult, Addressed
  <2> QED  BY <2>1, <2>3, <2>4 DEF ClientTables
<1>5. ASSUME NEW addr \in Ports \cup {0}, Bind(q, addr) PROVE ClientTables' /\ ~panicked'
  <2>1. PICK p \in Choices(addr) :
           /\ ~Bound(addr)
           /\ \/ /\ sockets[q] = Socket("Inactive", None)
                 /\ sockets' = [sockets EXCEPT ![q].port = p]
                 /\ pool' = Taken(addr, p)
              \/ UNCHANGED sockets /\ pool' \subseteq pool
    BY <1>5 DEF Bind, DoBind, Taken
  <2>2. UNCHANGED <<fileTable, connecting, established, panicked>>
    BY <1>5 DEF Bind
  <2>3. CASE UNCHANGED sockets /\ pool' \subseteq pool
    <3>1. PortsHeld'
      BY <1>0, <2>2, <2>3 DEF PortsHeld, Bound, GivenOut
    <3>2. ResultFirst' /\ Addressed'
      BY <1>0, <2>2, <2>3 DEF ResultFirst, HasResult, Addressed
    <3> QED  BY <2>2, <3>1, <3>2 DEF ClientTables
  <2> SUFFICES ASSUME sockets[q] = Socket("Inactive", None),
                      sockets' = [sockets EXCEPT ![q].port = p],
                      pool' = Taken(addr, p)
               PROVE  ClientTables' /\ ~panicked'
    BY <2>1, <2>3
  <2>4. p \in Ports /\ (p = addr \/ (addr = 0 /\ p \in pool))
    BY <2>1, ChoicesArePorts DEF Choices
  <2>5. /\ sockets[q] # None /\ sockets'[q] # None /\ sockets'[q].port = p
        /\ \A r \in QDs : r # q => sockets'[r] = sockets[r]
    <3>1. /\ sockets[q] = Socket("Inactive", None) /\ sockets[q] \in Endpoint
          /\ [sockets[q] EXCEPT !.port = p] \in Endpoint
          /\ [sockets[q] EXCEPT !.port = p].port = p
      BY <2>4 DEF Socket, Endpoint
    <3>2. /\ sockets'[q] = [sockets[q] EXCEPT !.port = p]
          /\ \A r \in QDs : r # q => sockets'[r] = sockets[r]
      BY DEF TypeOK
    <3> QED  BY <3>1, <3>2, NoneAssumption
  <2>6. /\ \/ \A r \in QDs : r # q /\ sockets[r] # None => sockets[r].port # p
           \/ p \in GivenOut'
        /\ pool' \subseteq pool /\ p \notin pool' \ CorePorts
    <3>1. CASE p = addr
      <4>1. \A r \in QDs : r # q /\ sockets[r] # None => sockets[r].port # p
        BY <2>1, <3>1 DEF Bound
      <4> QED  BY <4>1, <2>4, <3>1, PoolOf DEF Taken
    <3>2. CASE addr = 0 /\ p \in pool
      <4>1. pool' = pool \ {p}
        BY <3>2, PoolOf DEF Taken, Ports
      <4> QED  BY <1>0, <3>2, <4>1 DEF GivenOut
    <3> QED  BY <2>4, <3>1, <3>2
  <2>7. PortsHeld' /\ Addressed'
    BY <1>2, <2>2, <2>4, <2>5, <2>6
  <2>8. ResultFirst'
    BY <1>0, <2>2 DEF ResultFirst, HasResult
  <2> QED  BY <2>2, <2>7, <2>8 DEF ClientTables
<1> QED  BY <1>1, <1>3, <1>4, <1>5

LEMMA CoroutinesKeepTables ==
  ASSUME TypeOK, ClientTables, ~panicked, ClientCoroutine
  PROVE  ClientTables' /\ ~panicked'
<1>0. /\ \A p \in Ports : HasResult(p) => established[p] = None
      /\ \A r \in QDs : sockets[r] # None /\ sockets[r].tag # "Inactive"
                        => sockets[r].port # None
      /\ \A p \in pool \ CorePorts :
            p \in Ports /\ connecting[p] = None /\ established[p] = None
  BY PoolOf DEF ClientTables, ResultFirst, Addressed, PortsHeld
(* Sockets keep their ports, and an entry of a table was there before. *)
<1>1. ASSUME UNCHANGED <<fileTable, pool>>,
             \A r \in QDs : sockets'[r] # None => /\ sockets[r] # None
                                                  /\ sockets'[r].port = sockets[r].port,
             \A r \in QDs : sockets'[r] # None /\ sockets'[r].tag # "Inactive" =>
                               sockets[r].tag # "Inactive",
             \A p \in Ports : /\ connecting[p] = None => connecting'[p] = None
                              /\ connecting[p] = None => established'[p] = established[p]
      PROVE  PortsHeld' /\ Addressed'
  <2>1. PortsHeld'
    BY <1>0, <1>1 DEF ClientTables, PortsHeld, Bound, GivenOut
  <2>2. Addressed'
    BY <1>0, <1>1 DEF Addressed
  <2> QED  BY <2>1, <2>2
<1>2. ASSUME NEW p \in Ports, SendSyn(p) PROVE ClientTables' /\ ~panicked'
  <2>1. /\ connecting[p] \in Opening /\ connecting[p].tries - 1 \in Nat
        /\ connecting' = [connecting EXCEPT ![p] =
                             [connecting[p] EXCEPT !.tries = connecting[p].tries - 1]]
        /\ UNCHANGED <<fileTable, sockets, pool, established, panicked>>
    BY <1>2 DEF SendSyn, TypeOK
  <2>2. /\ \A t \in Ports : t # p => connecting'[t] = connecting[t]
        /\ connecting[p] # None /\ connecting'[p].result = connecting[p].result
    <3>1. /\ \A t \in Ports : t # p => connecting'[t] = connecting[t]
          /\ connecting[p] # None
          /\ connecting'[p] = [connecting[p] EXCEPT !.tries = connecting[p].tries - 1]
      BY <1>2, <2>1 DEF SendSyn, TypeOK
    <3>2. [connecting[p] EXCEPT !.tries = connecting[p].tries - 1].result
             = connecting[p].result
      BY <2>1, OpeningTypes
    <3> QED  BY <3>1, <3>2
  <2>3. PortsHeld' /\ Addressed'
    BY <1>1, <2>1, <2>2
  <2>4. ResultFirst'
    BY <1>0, <2>1, <2>2 DEF ResultFirst, HasResult
  <2> QED  BY <2>1, <2>3, <2>4 DEF ClientTables
<1>3. ASSUME NEW p \in Ports, TimeOut(p) PROVE ClientTables' /\ ~panicked'
  <2>1. /\ connecting[p] \in Opening
        /\ connecting' = [connecting EXCEPT ![p] =
             [connecting[p] EXCEPT !.tries = None, !.waker = None, !.result = TimedOut]]
        /\ UNCHANGED <<fileTable, sockets, pool, established, panicked>>
    BY <1>3 DEF TimeOut, TypeOK
  <2>2. /\ \A t \in Ports : t # p => connecting'[t] = connecting[t]
        /\ connecting[p] # None /\ connecting'[p].result = TimedOut
    <3>1. /\ \A t \in Ports : t # p => connecting'[t] = connecting[t]
          /\ connecting[p] # None
          /\ connecting'[p] = [connecting[p] EXCEPT !.tries = None, !.waker = None,
                                                   !.result = TimedOut]
      BY <1>3, <2>1 DEF TimeOut, TypeOK
    <3>2. TimedOut \in Block
      BY DEF TimedOut, Block
    <3>3. [connecting[p] EXCEPT !.tries = None, !.waker = None, !.result = TimedOut].result
             = TimedOut
      BY <2>1, <3>2, OpeningTypes
    <3> QED  BY <3>1, <3>3
  <2>3. PortsHeld' /\ Addressed'
    BY <1>1, <2>1, <2>2
  <2>4. ResultFirst'
    BY <1>0, <2>1, <2>2 DEF ResultFirst, HasResult
  <2> QED  BY <2>1, <2>3, <2>4 DEF ClientTables
<1>4. ASSUME NEW q \in QDs, PollConnect(q) PROVE ClientTables' /\ ~panicked'
  <2> DEFINE p == sockets[q].port
             found == /\ sockets[q] # None /\ sockets[q].tag = "Connecting"
                      /\ connecting[p] # None
  <2>1. /\ UNCHANGED <<fileTable, pool>>
        /\ \/ UNCHANGED <<sockets, connecting, established, panicked>>
           \/ /\ found
              /\ connecting[p].result = None /\ connecting' = [connecting EXCEPT ![p].waker = q]
              /\ UNCHANGED <<sockets, established, panicked>>
           \/ /\ found
              /\ connecting' = [connecting EXCEPT ![p] = None]
              /\ UNCHANGED <<sockets, established, panicked>>
           \/ /\ found /\ connecting[p].result \notin {None, TimedOut}
              /\ connecting' = [connecting EXCEPT ![p] = None]
              /\ established' = [established EXCEPT ![p] = connecting[p].result]
              /\ sockets' = [sockets EXCEPT ![q].tag = "Established"]
              /\ panicked' = (panicked \/ established[p] # None)
    BY <1>4 DEF PollConnect, PollResult
  <2>2. CASE UNCHANGED <<sockets, connecting, established, panicked>>
    BY <2>1, <2>2 DEF ClientTables, PortsHeld, Bound, GivenOut, ResultFirst, HasResult, Addressed
  <2> SUFFICES ASSUME found, ~UNCHANGED <<sockets, connecting, established, panicked>>
               PROVE  ClientTables' /\ ~panicked'
    BY <2>1, <2>2
  <2>3. /\ p \in Ports /\ connecting[p] \in Opening /\ sockets[q] \in Endpoint
    BY <1>0 DEF TypeOK, Endpoint
  <2>4. CASE /\ connecting[p].result = None
             /\ connecting' = [connecting EXCEPT ![p].waker = q]
             /\ UNCHANGED <<sockets, established, panicked>>
    <3>1. /\ \A t \in Ports : t # p => connecting'[t] = connecting[t]
          /\ connecting'[p].result = None
      <4>1. /\ \A t \in Ports : t # p => connecting'[t] = connecting[t]
            /\ connecting'[p] = [connecting[p] EXCEPT !.waker = q]
        BY <2>3, <2>4 DEF TypeOK
      <4>2. [connecting[p] EXCEPT !.waker = q].result = None
        BY <2>3, <2>4, OpeningTypes
      <4> QED  BY <4>1, <4>2
    <3>2. PortsHeld' /\ Addressed'
      BY <1>1, <2>1, <2>3, <2>4, <3>1
    <3>3. ResultFirst'
      BY <1>0, <2>4, <3>1 DEF ResultFirst, HasResult
    <3> QED  BY <2>4, <3>2, <3>3 DEF ClientTables
  <2>5. CASE /\ connecting' = [connecting EXCEPT ![p] = None]
             /\ UNCHANGED <<sockets, established, panicked>>
    <3>1. /\ \A t \in Ports : t # p => connecting'[t] = connecting[t]
          /\ connecting'[p] = None
      BY <2>3, <2>5 DEF TypeOK
    <3>2. PortsHeld' /\ Addressed'
      BY <1>1, <2>1, <2>3, <2>5, <3>1
    <3>3. ResultFirst'
      BY <1>0, <2>5, <3>1 DEF ResultFirst, HasResult
    <3> QED  BY <2>5, <3>2, <3>3 DEF ClientTables
  <2>6. CASE /\ connecting[p].result \notin {None, TimedOut}
             /\ connecting' = [connecting EXCEPT ![p] = None]
             /\ established' = [established EXCEPT ![p] = connecting[p].result]
             /\ sockets' = [sockets EXCEPT ![q].tag = "Established"]
             /\ panicked' = (panicked \/ established[p] # None)
    <3>1. /\ \A t \in Ports : t # p => /\ connecting'[t] = connecting[t]
                                       /\ established'[t] = established[t]
          /\ connecting'[p] = None /\ connecting[p] # None
      BY <2>3, <2>6 DEF TypeOK
    <3>2. established[p] = None
      BY <1>0, <2>3, <2>6 DEF HasResult
    <3>3. /\ \A r \in QDs : r # q => sockets'[r] = sockets[r]
          /\ sockets'[q].port = sockets[q].port
      BY <2>3, <2>6 DEF TypeOK, Endpoint
    <3>4. PortsHeld' /\ Addressed'
      BY <1>1, <2>1, <2>3, <3>1, <3>3
    <3>5. ResultFirst'
      BY <1>0, <2>3, <3>1 DEF ResultFirst, HasResult
    <3> QED  BY <2>6, <3>2, <3>4, <3>5 DEF ClientTables
  <2> QED  BY <2>1, <2>4, <2>5, <2>6
<1> QED  BY <1>2, <1>3, <1>4 DEF ClientCoroutine

LEMMA ReceiptKeepsTables ==
  ASSUME TypeOK, ClientTables, OnceOpened, ~panicked,
         NEW s \in net, NEW rest \in SUBSET net, Receive(s, rest)
  PROVE  ClientTables' /\ OnceOpened' /\ ~panicked'
<1> DEFINE p == s.port
<1>0. s \in Segments /\ p \in Ports
  BY SegmentFields, Tables
(* At the client entries change where they are, and a result is stored     *)
(* where no connection is established.                                     *)
<1>1. ASSUME UNCHANGED <<fileTable, sockets, pool>>,
             \A t \in Ports : /\ connecting[t] = None => connecting'[t] = None
                              /\ established[t] = None => established'[t] = None
                              /\ connecting'[t] = connecting[t] \/ established[t] = None
      PROVE  ClientTables'
  <2>1. PortsHeld' /\ Addressed'
    BY <1>1 DEF ClientTables, PortsHeld, Bound, GivenOut, Addressed, TypeOK, Ports
  <2>2. \A t \in Ports : HasResult(t)' => established'[t] = None
    BY <1>1 DEF ClientTables, ResultFirst, HasResult
  <2> QED  BY <2>1, <2>2 DEF ClientTables, ResultFirst
<1>2. ASSUME ClientReceive(s, rest) PROVE ClientTables' /\ OnceOpened' /\ ~panicked'
  <2>1. OnceOpened' /\ ~panicked'
    BY <1>2 DEF ClientReceive, serverVars, OnceOpened, Distinct, ReadyPorts
  <2>2. UNCHANGED <<fileTable, sockets, pool>>
    BY <1>2 DEF ClientReceive, ClientEstablished, ClientConnecting, ClientRefuses, clientVars
  <2>3. \/ /\ UNCHANGED connecting /\ established[p] # None
           /\ established' = [established EXCEPT ![p] = After(s, established[p])]
        \/ /\ UNCHANGED established /\ established[p] = None /\ connecting[p] # None
           /\ \E a : connecting' = [connecting EXCEPT ![p] = a]
        \/ UNCHANGED <<established, connecting>>
    BY <1>2 DEF ClientReceive, ClientEstablished, ClientConnecting, ClientRefuses, clientVars
  <2>4. \A t \in Ports : /\ connecting[t] = None => connecting'[t] = None
                         /\ established[t] = None => established'[t] = None
                         /\ connecting'[t] = connecting[t] \/ established[t] = None
    BY <1>0, <2>3 DEF TypeOK
  <2> QED  BY <1>1, <2>1, <2>2, <2>4
<1>3. ASSUME ServerReceive(s, rest) PROVE ClientTables' /\ OnceOpened' /\ ~panicked'
  <2>1. ClientTables'
    <3>1. UNCHANGED <<fileTable, sockets, pool, connecting, established>>
      BY <1>3 DEF ServerReceive, clientVars
    <3> QED  BY <1>1, <3>1
  <2>2. CASE ServerEstablished(s, rest)
    <3>1. /\ serving[p] # None /\ UNCHANGED <<inflight, ready, panicked>>
          /\ \A t \in Ports : t # p => serving'[t] = serving[t]
      BY <1>0, <2>2 DEF ServerEstablished, TypeOK
    <3>2. OnceOpened'
      BY <1>0, <3>1 DEF OnceOpened, Distinct, ReadyPorts
    <3> QED  BY <2>1, <3>1, <3>2
  <2>3. CASE ServerRefuses(s, rest)
    <3>1. OnceOpened' /\ ~panicked'
      BY <2>3 DEF ServerRefuses, serverVars, OnceOpened, Distinct, ReadyPorts
    <3> QED  BY <2>1, <3>1
  <2>4. ASSUME serving[p] = None, Finish(s) PROVE OnceOpened' /\ ~panicked'
    <3> DEFINE cb == Pair(inflight[p].mine, inflight[p].theirs)
               r == [port |-> p, cb |-> cb]
    <3>1. /\ inflight[p] # None /\ p \notin ReadyPorts
          /\ ready' = Append(ready, r) /\ UNCHANGED <<serving, panicked>>
          /\ inflight'[p] = None
          /\ \A t \in Ports : t # p => inflight'[t] = inflight[t]
      BY <1>0, <2>4 DEF Finish, PushOk, Ignored, TypeOK
    <3>2. r \in Waiting /\ r.port = p
      <4>1. inflight[p] \in Embryo
        BY <1>0, <3>1 DEF TypeOK
      <4>2. cb \in Block
        BY <4>1, EmbryoTypes, PairType
      <4> QED  BY <1>0, <4>2 DEF Waiting
    <3> HIDE DEF r
    <3>3. ReadyPorts' = ReadyPorts \cup {p} /\ Distinct'
      BY <3>1, <3>2, ReadyJoins, Tables DEF OnceOpened
    <3> QED  BY <2>4, <3>1, <3>3 DEF OnceOpened
  <2>5. ASSUME serving[p] = None, Begin(s) PROVE OnceOpened' /\ ~panicked'
    <3>1. /\ p \notin ReadyPorts /\ UNCHANGED <<ready, serving, panicked>>
          /\ \A t \in Ports : t # p => inflight'[t] = inflight[t]
      BY <1>0, <2>5 DEF Begin, Ignored, TypeOK
    <3> QED  BY <2>5, <3>1 DEF OnceOpened, Distinct, ReadyPorts
  <2>6. ASSUME Drop(s) PROVE OnceOpened' /\ ~panicked'
    BY <2>6 DEF Drop, serverVars, OnceOpened, Distinct, ReadyPorts
  <2> QED  BY <1>3, <2>1, <2>2, <2>3, <2>4, <2>5, <2>6 DEF ServerReceive
<1> QED  BY <1>2, <1>3 DEF Receive

(* What a successful poll_accept does to the tables.                       *)
LEMMA AcceptedOnce ==
  ASSUME TypeOK, OnceOpened, NEW a \in Accepts, PollAccept(a), ready # <<>>
  PROVE  \E r \in Acceptable :
           /\ r.port \in Ports /\ r.cb \in Block
           /\ Acceptable = Acceptable' \cup {r} /\ ReadyPorts = ReadyPorts' \cup {r.port}
           /\ r.port \notin ReadyPorts' /\ Distinct'
           /\ serving[r.port] = None /\ inflight[r.port] = None
           /\ serving' = [serving EXCEPT ![r.port] = r.cb]
           /\ UNCHANGED panicked
<1> DEFINE r == Head(ready)
<1>1. ready' = Tail(ready)
  BY DEF PollAccept, PollReady
<1>2. /\ r \in Waiting
      /\ Acceptable = Acceptable' \cup {r} /\ ReadyPorts = ReadyPorts' \cup {r.port}
      /\ r.port \notin ReadyPorts' /\ Distinct'
  BY <1>1, ReadyLeaves, Tables DEF OnceOpened
<1>3. /\ serving' = [serving EXCEPT ![r.port] = r.cb]
      /\ panicked' = (panicked \/ serving[r.port] # None)
  BY DEF PollAccept
<1> HIDE DEF r
<1>4. r \in Acceptable /\ r.port \in Ports /\ r.cb \in Block
  BY <1>2 DEF Waiting
<1>5. serving[r.port] = None /\ inflight[r.port] = None
  BY <1>2, <1>4 DEF OnceOpened
<1>6. UNCHANGED panicked
  BY <1>3, <1>5 DEF TypeOK
<1> QED  BY <1>2, <1>3, <1>4, <1>5, <1>6

LEMMA ServerKeepsTables ==
  ASSUME TypeOK, ClientTables, OnceOpened, ~panicked,
         \/ \E p \in Ports : SendSynAck(p)
         \/ \E a \in Accepts : Accept(a) \/ PollAccept(a)
  PROVE  ClientTables' /\ OnceOpened' /\ ~panicked'
<1>1. ClientTables'
  BY DEF SendSynAck, Accept, PollAccept, clientVars, ClientTables, PortsHeld, Bound, GivenOut,
         ResultFirst, HasResult, Addressed
<1>2. ASSUME NEW p \in Ports, SendSynAck(p) PROVE OnceOpened' /\ ~panicked'
  <2>1. \A t \in Ports : inflight[t] = None => inflight'[t] = None
    BY <1>2 DEF SendSynAck, TypeOK
  <2> QED  BY <1>2, <2>1 DEF SendSynAck, OnceOpened, Distinct, ReadyPorts
<1>3. ASSUME NEW a \in Accepts, Accept(a) PROVE OnceOpened' /\ ~panicked'
  BY <1>3 DEF Accept, OnceOpened, Distinct, ReadyPorts
<1>4. ASSUME NEW a \in Accepts, PollAccept(a) PROVE OnceOpened' /\ ~panicked'
  <2>1. CASE ready = <<>>
    BY <1>4, <2>1 DEF PollAccept, PollReady, OnceOpened, Distinct, ReadyPorts
  <2>2. CASE ready # <<>>
    <3>1. PICK r \in Acceptable :
            /\ r.port \in Ports
            /\ ReadyPorts = ReadyPorts' \cup {r.port}
            /\ r.port \notin ReadyPorts' /\ Distinct'
            /\ inflight[r.port] = None
            /\ serving' = [serving EXCEPT ![r.port] = r.cb]
            /\ UNCHANGED panicked
      BY <1>4, <2>2, AcceptedOnce
    <3>2. \A t \in Ports : t # r.port => serving'[t] = serving[t]
      BY <3>1 DEF TypeOK
    <3>3. UNCHANGED inflight
      BY <1>4 DEF PollAccept
    <3> QED  BY <3>1, <3>2, <3>3 DEF OnceOpened
  <2> QED  BY <2>1, <2>2
<1> QED  BY <1>1, <1>2, <1>3, <1>4

LEMMA StepKeepsTables ==
  ASSUME TablesInv, [Next]_vars
  PROVE  TablesInv'
<1> USE DEF TablesInv, NoPanic
<1>1. TypeOK'
  BY StepKeepsTypes
<1>2. ASSUME UNCHANGED vars PROVE TablesInv'
  BY <1>1, <1>2
     DEF vars, clientVars, serverVars, ClientTables, PortsHeld, Bound, GivenOut, ResultFirst,
         HasResult, Addressed, OnceOpened, Distinct, ReadyPorts
<1>3. ASSUME \E q \in QDs : \/ SocketCall(q) \/ Connect(q) \/ Close(q)
                            \/ \E p \in Ports \cup {0} : Bind(q, p)
      PROVE  TablesInv'
  <2>1. ClientTables' /\ ~panicked'
    BY <1>3, CallsKeepTables
  <2>2. UNCHANGED <<inflight, ready, serving>>
    BY <1>3 DEF SocketCall, Connect, Close, Bind, serverVars
  <2> QED  BY <1>1, <2>1, <2>2 DEF OnceOpened, Distinct, ReadyPorts
<1>4. ASSUME ClientCoroutine PROVE TablesInv'
  <2>1. ClientTables' /\ ~panicked'
    BY <1>4, CoroutinesKeepTables
  <2>2. UNCHANGED <<inflight, ready, serving>>
    BY <1>4 DEF ClientCoroutine, SendSyn, TimeOut, PollConnect, serverVars
  <2> QED  BY <1>1, <2>1, <2>2 DEF OnceOpened, Distinct, ReadyPorts
<1>5. ASSUME NEW s \in net, Deliver(s) \/ DeliverTwice(s) PROVE TablesInv'
  <2>1. PICK rest \in SUBSET net : Receive(s, rest)
    <3>1. Receive(s, net \ {s}) \/ Receive(s, net)
      BY <1>5 DEF Deliver, DeliverTwice
    <3> QED  BY <3>1
  <2> QED  BY <1>1, <2>1, ReceiptKeepsTables
<1> QED  BY <1>1, <1>2, <1>3, <1>4, <1>5, ServerKeepsTables DEF Next

LEMMA TablesStart ==
  ASSUME Init
  PROVE  TablesInv
<1>1. TypeOK
  <2>1. <<>> \in Seq(Waiting)
    OBVIOUS
  <2> QED  BY <2>1, OpenAssumption DEF Init, NewPassive, TypeOK
<1>2. \A p \in pool : p \in Ports
  BY <1>1, PoolOf
<1>3. ClientTables
  BY <1>2 DEF Init, ClientTables, PortsHeld, Bound, GivenOut, ResultFirst, HasResult, Addressed
<1>4. OnceOpened
  BY DEF Init, NewPassive, OnceOpened, Distinct, ReadyPorts
<1> QED  BY <1>1, <1>3, <1>4 DEF TablesInv, NoPanic, Init

LEMMA TablesAlways == Spec => []TablesInv
BY TablesStart, StepKeepsTables, PTL DEF Spec

(* Ports, descriptors and the tables of connections hold together whatever *)
(* order calls, coroutines and segments come in: no two sockets share a    *)
(* port, no port of the pool is in use, a connection is made ready,        *)
(* accepted and established once (bind, connect, push_ok, poll_accept,     *)
(* poll_connect_finished).                                                 *)
THEOREM OpenTablesInvariant == Spec => []TablesHold
<1>1. TablesInv => TablesHold
  BY DEF TablesInv, ClientTables, TablesHold
<1> QED  BY <1>1, TablesAlways, PTL

-----------------------------------------------------------------------------
(* What the server holds of a port, in at most one of the three places.    *)

LEMMA HeldIs ==
  \A p \in Ports : \A cb : cb \in Held(p) <=>
     \/ inflight[p] # None /\ cb = Pair(inflight[p].mine, inflight[p].theirs)
     \/ \E r \in Acceptable : r.port = p /\ cb = r.cb
     \/ serving[p] # None /\ cb = serving[p]
<1> SUFFICES ASSUME NEW p \in Ports, NEW cb
             PROVE  cb \in Held(p) <=>
                      \/ inflight[p] # None /\ cb = Pair(inflight[p].mine, inflight[p].theirs)
                      \/ \E r \in Acceptable : r.port = p /\ cb = r.cb
                      \/ serving[p] # None /\ cb = serving[p]
  OBVIOUS
<1>1. cb \in {ready[i].cb : i \in {j \in DOMAIN ready : ready[j].port = p}}
        <=> \E r \in Acceptable : r.port = p /\ cb = r.cb
  BY DEF Acceptable
<1> QED  BY <1>1 DEF Held

LEMMA HeldIsNext ==
  (\A p \in Ports : \A cb : cb \in Held(p) <=>
     \/ inflight[p] # None /\ cb = Pair(inflight[p].mine, inflight[p].theirs)
     \/ \E r \in Acceptable : r.port = p /\ cb = r.cb
     \/ serving[p] # None /\ cb = serving[p])'
BY HeldIs, PTL

LEMMA HeldOnce ==
  ASSUME TypeOK, OnceOpened, NEW p \in Ports
  PROVE  /\ \A x, y \in Held(p) : x = y
         /\ Held(p) \subseteq Block
<1>1. \A r, t \in Acceptable : r.port = t.port => r = t
  BY DEF OnceOpened, Distinct, Acceptable
<1>2. \A r \in Acceptable : r.port \in ReadyPorts /\ r \in Waiting
  BY DEF Acceptable, ReadyPorts, TypeOK
<1>3. \A x, y \in Held(p) : x = y
  BY <1>1, <1>2, HeldIs DEF OnceOpened
<1>4. \A cb \in Held(p) : cb \in Block
  <2>1. inflight[p] # None => Pair(inflight[p].mine, inflight[p].theirs) \in Block
    BY EmbryoTypes, PairType DEF TypeOK
  <2>2. serving[p] # None => serving[p] \in Block
    BY DEF TypeOK
  <2> QED  BY <1>2, <2>1, <2>2, HeldIs DEF Waiting
<1> QED  BY <1>3, <1>4

(* A SYN from a port in the network, and how what is held of the port may  *)
(* change: it begins with a SYN, and a segment may close it.               *)
ToServer(s, p) == s.to = "server" /\ s.syn /\ s.port = p
SameHeld(p)  == Held(p)' = Held(p)
BeginsHeld(p) ==
  /\ Held(p) = {}
  /\ \E s \in net, n \in Nat : ToServer(s, p) /\ Held(p)' = {Pair(n, s.seq)}
MeetsHeld(p) ==
  \E s \in net : s.to = "server" /\ s.port = p
                 /\ \E cb \in Held(p) : Held(p)' = {After(s, cb)}
HeldMoves(p) == SameHeld(p) \/ BeginsHeld(p) \/ MeetsHeld(p)

LEMMA SameTables ==
  ASSUME UNCHANGED <<inflight, ready, serving>>, NEW p \in Ports
  PROVE  HeldMoves(p)
BY DEF HeldMoves, SameHeld, Held

LEMMA ReceiptMovesHeld ==
  ASSUME TablesInv, NEW s \in net, NEW rest \in SUBSET net, ServerReceive(s, rest),
         NEW p \in Ports
  PROVE  HeldMoves(p)
<1> USE DEF TablesInv
<1>0. s \in Segments /\ s.port \in Ports /\ s.to = "server"
  BY SegmentFields, Tables DEF ServerReceive
<1>1. CASE ServerEstablished(s, rest)
  <2>1. /\ serving[s.port] # None /\ UNCHANGED <<inflight, ready>>
        /\ \A t \in Ports : t # s.port => serving'[t] = serving[t]
        /\ serving'[s.port] = After(s, serving[s.port])
    BY <1>0, <1>1 DEF ServerEstablished, TypeOK
  <2>2. CASE p # s.port
    BY <2>1, <2>2 DEF HeldMoves, SameHeld, Held
  <2>3. CASE p = s.port
    <3>1. After(s, serving[p]) # None
      BY <1>0, <2>1, <2>3, ReceivedTypes, NoneAssumption DEF TypeOK
    <3>2. inflight[p] = None /\ \A r \in Acceptable : r.port # p
      BY <2>1, <2>3 DEF OnceOpened, ReadyPorts, Acceptable
    <3>3. inflight'[p] = None /\ \A r \in Acceptable' : r.port # p
      BY <2>1, <3>2 DEF Acceptable
    <3>4. serving[p] \in Held(p)
      BY <2>1, <2>3, HeldIs
    <3>5. \A cb : cb \in Held(p)' <=> cb = After(s, serving[p])
      BY <2>1, <2>3, <3>1, <3>3, HeldIsNext
    <3>6. Held(p)' = {After(s, serving[p])}
      BY <3>5
    <3> QED  BY <1>0, <2>3, <3>4, <3>6 DEF HeldMoves, MeetsHeld
  <2> QED  BY <2>2, <2>3
<1>2. ASSUME ServerRefuses(s, rest) \/ Drop(s) PROVE HeldMoves(p)
  BY <1>2, SameTables DEF ServerRefuses, Drop, serverVars
<1>3. ASSUME serving[s.port] = None, Finish(s) PROVE HeldMoves(p)
  <2> DEFINE cb == Pair(inflight[s.port].mine, inflight[s.port].theirs)
             r == [port |-> s.port, cb |-> cb]
  <2>1. /\ inflight[s.port] # None
        /\ ready' = Append(ready, r) /\ UNCHANGED serving
        /\ inflight'[s.port] = None
        /\ \A t \in Ports : t # s.port => inflight'[t] = inflight[t]
    BY <1>0, <1>3 DEF Finish, PushOk, TypeOK
  <2>2. r \in Waiting /\ r.port = s.port /\ r.cb = cb
    <3>1. inflight[s.port] \in Embryo
      BY <1>0, <2>1 DEF TypeOK
    <3>2. cb \in Block
      BY <3>1, EmbryoTypes, PairType
    <3> QED  BY <1>0, <3>2 DEF Waiting
  <2> HIDE DEF r
  <2>3. Acceptable' = Acceptable \cup {r}
    BY <2>1, <2>2, ReadyJoins, Tables
  <2>4. \A x : x \in Held(p)' <=> x \in Held(p)
    <3>1. CASE p = s.port
      BY <2>1, <2>2, <2>3, <3>1, HeldIs, HeldIsNext
    <3>2. CASE p # s.port
      BY <2>1, <2>2, <2>3, <3>2, HeldIs, HeldIsNext
    <3> QED  BY <3>1, <3>2
  <2> QED  BY <2>4 DEF HeldMoves, SameHeld
<1>4. ASSUME serving[s.port] = None, Begin(s) PROVE HeldMoves(p)
  <2> DEFINE a == [mine |-> serverIsn + 1, theirs |-> s.seq, tries |-> Retries]
  <2>1. /\ s.port \notin ReadyPorts /\ inflight[s.port] = None /\ s.syn
        /\ UNCHANGED <<ready, serving>>
        /\ inflight'[s.port] = a
        /\ \A t \in Ports : t # s.port => inflight'[t] = inflight[t]
    BY <1>0, <1>4 DEF Begin, Ignored, IsSyn, TypeOK
  <2>2. CASE p # s.port
    BY <2>1, <2>2 DEF HeldMoves, SameHeld, Held
  <2>3. CASE p = s.port
    <3>1. a \in Embryo /\ a.mine = serverIsn + 1 /\ a.theirs = s.seq
      BY <1>0, <2>1, SegmentFields, OpenAssumption DEF Embryo, TypeOK
    <3>2. a # None
      BY <3>1, NoneAssumption
    <3>3. \A r \in Acceptable : r.port # p
      BY <2>1, <2>3 DEF Acceptable, ReadyPorts
    <3>4. Acceptable' = Acceptable
      BY <2>1 DEF Acceptable
    <3>5. Held(p) = {}
      BY <1>4, <2>1, <2>3, <3>3, HeldIs
    <3> HIDE DEF a
    <3>6. \A x : x \in Held(p)' <=> x = Pair(serverIsn + 1, s.seq)
      BY <1>4, <2>1, <2>3, <3>1, <3>2, <3>3, <3>4, HeldIsNext
    <3>7. Held(p)' = {Pair(serverIsn + 1, s.seq)} /\ serverIsn + 1 \in Nat
      BY <3>6 DEF TypeOK
    <3>8. ToServer(s, p)
      BY <1>0, <2>1, <2>3 DEF ToServer
    <3> QED  BY <3>5, <3>7, <3>8 DEF HeldMoves, BeginsHeld
  <2> QED  BY <2>2, <2>3
<1> QED  BY <1>1, <1>2, <1>3, <1>4 DEF ServerReceive

LEMMA ServerMovesHeld ==
  ASSUME TablesInv, NEW p \in Ports,
         \/ \E t \in Ports : SendSynAck(t)
         \/ \E a \in Accepts : Accept(a) \/ PollAccept(a)
  PROVE  HeldMoves(p)
<1> USE DEF TablesInv
<1>1. ASSUME NEW t \in Ports, SendSynAck(t) PROVE HeldMoves(p)
  <2>1. /\ inflight[t] \in Embryo /\ inflight[t].tries - 1 \in Nat
        /\ inflight' = [inflight EXCEPT ![t] =
                           [inflight[t] EXCEPT !.tries = inflight[t].tries - 1]]
        /\ UNCHANGED <<ready, serving>>
    BY <1>1, EmbryoTypes DEF SendSynAck, TypeOK
  <2>2. /\ [inflight[t] EXCEPT !.tries = inflight[t].tries - 1] \in Embryo
        /\ [inflight[t] EXCEPT !.tries = inflight[t].tries - 1].mine = inflight[t].mine
        /\ [inflight[t] EXCEPT !.tries = inflight[t].tries - 1].theirs = inflight[t].theirs
    BY <2>1, EmbryoTypes
  <2>3. /\ inflight'[p] # None <=> inflight[p] # None
        /\ inflight[p] # None => /\ inflight'[p].mine = inflight[p].mine
                                 /\ inflight'[p].theirs = inflight[p].theirs
    <3>1. CASE p = t
      <4>1. inflight'[p] = [inflight[t] EXCEPT !.tries = inflight[t].tries - 1]
        BY <2>1, <3>1 DEF TypeOK
      <4> QED  BY <1>1, <2>2, <3>1, <4>1, NoneAssumption DEF SendSynAck
    <3>2. CASE p # t
      BY <2>1, <3>2 DEF TypeOK
    <3> QED  BY <3>1, <3>2
  <2> QED  BY <2>1, <2>3 DEF HeldMoves, SameHeld, Held
<1>2. ASSUME NEW a \in Accepts, Accept(a) PROVE HeldMoves(p)
  BY <1>2, SameTables DEF Accept
<1>3. ASSUME NEW a \in Accepts, PollAccept(a) PROVE HeldMoves(p)
  <2>1. UNCHANGED inflight
    BY <1>3 DEF PollAccept
  <2>2. CASE ready = <<>>
    BY <1>3, <2>2, SameTables DEF PollAccept, PollReady
  <2>3. CASE ready # <<>>
    <3>1. PICK r \in Acceptable :
            /\ r.port \in Ports /\ r.cb \in Block
            /\ Acceptable = Acceptable' \cup {r}
            /\ serving[r.port] = None
            /\ serving' = [serving EXCEPT ![r.port] = r.cb]
      BY <1>3, <2>3, AcceptedOnce
    <3>2. /\ serving'[r.port] = r.cb /\ r.cb # None
          /\ \A t \in Ports : t # r.port => serving'[t] = serving[t]
      BY <3>1, NoneAssumption DEF TypeOK
    <3>3. \A x : x \in Held(p)' <=> x \in Held(p)
      <4>1. CASE p = r.port
        BY <2>1, <3>1, <3>2, <4>1, HeldIs, HeldIsNext
      <4>2. CASE p # r.port
        BY <2>1, <3>1, <3>2, <4>2, HeldIs, HeldIsNext
      <4> QED  BY <4>1, <4>2
    <3> QED  BY <3>3 DEF HeldMoves, SameHeld
  <2> QED  BY <2>2, <2>3
<1> QED  BY <1>1, <1>2, <1>3

LEMMA HeldEvolves ==
  ASSUME TablesInv, [Next]_vars, NEW p \in Ports
  PROVE  HeldMoves(p)
<1>1. ASSUME UNCHANGED serverVars PROVE HeldMoves(p)
  BY <1>1, SameTables DEF serverVars
<1>2. ASSUME UNCHANGED vars PROVE HeldMoves(p)
  BY <1>1, <1>2 DEF vars
<1>3. ASSUME \E q \in QDs : \/ SocketCall(q) \/ Connect(q) \/ Close(q)
                            \/ \E t \in Ports \cup {0} : Bind(q, t)
      PROVE  HeldMoves(p)
  BY <1>1, <1>3 DEF SocketCall, Connect, Close, Bind
<1>4. ASSUME ClientCoroutine PROVE HeldMoves(p)
  BY <1>1, <1>4 DEF ClientCoroutine, SendSyn, TimeOut, PollConnect
<1>5. ASSUME NEW s \in net, Deliver(s) \/ DeliverTwice(s) PROVE HeldMoves(p)
  <2>1. PICK rest \in SUBSET net : Receive(s, rest)
    <3>1. Receive(s, net \ {s}) \/ Receive(s, net)
      BY <1>5 DEF Deliver, DeliverTwice
    <3> QED  BY <3>1
  <2> QED  BY <1>1, <2>1, ReceiptMovesHeld DEF Receive, ClientReceive
<1> QED  BY <1>2, <1>3, <1>4, <1>5, ServerMovesHeld DEF Next

-----------------------------------------------------------------------------
(* What the client may do with a port, and what it may send.               *)

(* A socket stands for the connection, and no other may share its port.    *)
Used(p) == p \notin GivenOut /\ \E q \in QDs : sockets[q] = Socket("Established", p)

OpeningMoves(p) ==       \* an active open keeps its number, a new one has a greater
  /\ isn <= isn'
  /\ connecting'[p] # None =>
    \/ connecting[p] # None /\ connecting'[p].isn = connecting[p].isn
    \/ /\ connecting'[p].isn = isn + 1 /\ isn' = isn + 1
       /\ connecting'[p].result = None /\ ~Used(p)'
ResultMoves(p) ==        \* a result is an answer to the number of the active open
  HasResult(p)' =>
    /\ connecting[p] # None /\ connecting'[p].isn = connecting[p].isn
    /\ \/ HasResult(p) /\ connecting'[p].result = connecting[p].result
       \/ \E s \in net :
            /\ s.to = "client" /\ s.syn /\ s.port = p /\ s.ack = connecting[p].isn
            /\ connecting'[p].result = Pair(connecting[p].isn, s.seq)
EstablishedMoves(p) ==   \* a connection is established by a result
  /\ established[p] # None => established'[p] # None
  /\ established'[p] # None =>
       \/ /\ established[p] # None
          /\ established'[p].mine = established[p].mine
          /\ established'[p].theirs = established[p].theirs
       \/ /\ HasResult(p) /\ established[p] = None
          /\ established'[p] = connecting[p].result
UseMoves(p) ==           \* and so is a socket
  Used(p)' => \/ Used(p)
              \/ /\ HasResult(p) /\ connecting'[p] = None
                 /\ established'[p] = connecting[p].result
ClientMoves(p) ==
  OpeningMoves(p) /\ ResultMoves(p) /\ EstablishedMoves(p) /\ UseMoves(p)

(* Where the active opens keep their numbers and no connection appears.    *)
LEMMA ClientRests ==
  ASSUME isn \in Nat, UNCHANGED <<isn, established>>, NEW p \in Ports, Used(p)' => Used(p),
         connecting'[p] # None =>
            /\ connecting[p] # None /\ connecting'[p].isn = connecting[p].isn
            /\ connecting'[p].result \in {connecting[p].result, None, TimedOut}
  PROVE  ClientMoves(p)
BY DEF ClientMoves, OpeningMoves, ResultMoves, EstablishedMoves, UseMoves, HasResult

LEMMA CallsMove ==
  ASSUME TablesInv, NEW p \in Ports,
         \E q \in QDs : \/ SocketCall(q) \/ Connect(q) \/ Close(q)
                        \/ \E t \in Ports \cup {0} : Bind(q, t)
  PROVE  ClientMoves(p)
<1> USE DEF TablesInv
<1> PICK q \in QDs : \/ SocketCall(q) \/ Connect(q) \/ Close(q)
                     \/ \E t \in Ports \cup {0} : Bind(q, t)
  OBVIOUS
<1>1. ASSUME \A r \in QDs : r # q => sockets'[r] = sockets[r],
             sockets'[q] = None \/ sockets'[q].tag # "Established",
             pool' \subseteq pool
      PROVE  Used(p)' => Used(p)
  <2>1. Socket("Established", p).tag = "Established" /\ Socket("Established", p) # None
    BY NoneAssumption DEF Socket, Endpoint
  <2> QED  BY <1>1, <2>1 DEF Used, GivenOut
<1>2. CASE SocketCall(q)
  <2>1. sockets' = [sockets EXCEPT ![q] = Socket("Inactive", None)]
        /\ UNCHANGED <<pool, connecting, established, isn>>
    BY <1>2 DEF SocketCall, DoSocket
  <2>2. /\ \A r \in QDs : r # q => sockets'[r] = sockets[r]
        /\ sockets'[q].tag = "Inactive"
    BY <2>1 DEF TypeOK, Socket
  <2> QED  BY <1>1, <2>1, <2>2, ClientRests DEF TypeOK
<1>3. CASE Close(q)
  <2>1. sockets' = [sockets EXCEPT ![q] = None] /\ UNCHANGED <<pool, connecting, established, isn>>
    BY <1>3 DEF Close, DoClose
  <2>2. /\ \A r \in QDs : r # q => sockets'[r] = sockets[r]
        /\ sockets'[q] = None
    BY <2>1 DEF TypeOK
  <2> QED  BY <1>1, <2>1, <2>2, ClientRests DEF TypeOK
<1>4. ASSUME NEW t \in Ports \cup {0}, Bind(q, t) PROVE ClientMoves(p)
  <2>1. /\ pool' \subseteq pool
        /\ \/ /\ sockets[q] = Socket("Inactive", None)
              /\ \E u : sockets' = [sockets EXCEPT ![q].port = u]
           \/ UNCHANGED sockets
    BY <1>4 DEF Bind, DoBind, Taken
  <2>2. UNCHANGED <<connecting, established, isn>>
    BY <1>4 DEF Bind
  <2>3. Used(p)' => Used(p)
    <3>1. CASE UNCHANGED sockets
      BY <2>1, <3>1 DEF Used, GivenOut
    <3>2. ASSUME sockets[q] = Socket("Inactive", None),
                 NEW u, sockets' = [sockets EXCEPT ![q].port = u]
          PROVE  /\ \A r \in QDs : r # q => sockets'[r] = sockets[r]
                 /\ sockets'[q].tag = "Inactive"
      BY <3>2 DEF TypeOK, Socket
    <3> QED  BY <1>1, <2>1, <3>1, <3>2
  <2> QED  BY <2>2, <2>3, ClientRests DEF TypeOK
<1>5. CASE Connect(q)
  <2>1. PICK t \in Ports : DoConnect(q, t)
    BY <1>5 DEF Connect
  <2>2. /\ sockets[q] # None /\ isn' = isn + 1 /\ UNCHANGED established
        /\ sockets' = [sockets EXCEPT ![q] = Socket("Connecting", t)]
        /\ connecting' = [connecting EXCEPT ![t] = Active(isn + 1)]
        /\ \/ t \in pool /\ pool' = pool \ {t}
           \/ sockets[q].port = t /\ pool' = pool
    BY <1>5, <2>1 DEF Connect, DoConnect
  <2>3. /\ \A r \in QDs : r # q => sockets'[r] = sockets[r]
        /\ sockets'[q].tag = "Connecting"
        /\ \A u \in Ports : u # t => connecting'[u] = connecting[u]
        /\ connecting'[t] = Active(isn + 1)
    BY <2>2 DEF TypeOK, Socket
  <2>4. Used(p)' => Used(p)
    BY <1>1, <2>2, <2>3
  <2>5. CASE p # t
    BY <2>2, <2>3, <2>4, <2>5
       DEF TypeOK, ClientMoves, OpeningMoves, ResultMoves, EstablishedMoves, UseMoves, HasResult
  <2>6. CASE p = t
    <3>1. connecting'[p].result = None /\ connecting'[p].isn = isn + 1
      BY <2>3, <2>6, ActiveType DEF TypeOK
    <3>2. \/ \A r \in QDs : r # q /\ sockets[r] # None => sockets[r].port # p
          \/ p \in GivenOut'
      BY <2>2, <2>6, OpenAssumption DEF ClientTables, PortsHeld, Bound, GivenOut
    <3>3. ~Used(p)'
      <4>1. /\ Socket("Established", p).tag = "Established"
            /\ Socket("Established", p).port = p /\ Socket("Established", p) # None
        BY NoneAssumption DEF Socket, Endpoint
      <4> QED  BY <2>3, <3>2, <4>1 DEF Used, GivenOut
    <3> QED
      BY <2>2, <3>1, <3>3
         DEF TypeOK, ClientMoves, OpeningMoves, ResultMoves, EstablishedMoves, UseMoves, HasResult
  <2> QED  BY <2>5, <2>6
<1> QED  BY <1>2, <1>3, <1>4, <1>5

LEMMA CoroutinesMove ==
  ASSUME TablesInv, NEW p \in Ports, ClientCoroutine
  PROVE  ClientMoves(p)
<1> USE DEF TablesInv
<1>1. ASSUME NEW t \in Ports, SendSyn(t) PROVE ClientMoves(p)
  <2>1. /\ connecting[t] \in Opening /\ connecting[t].tries - 1 \in Nat
        /\ connecting' = [connecting EXCEPT ![t] =
                             [connecting[t] EXCEPT !.tries = connecting[t].tries - 1]]
        /\ UNCHANGED <<sockets, pool, established, isn>>
    BY <1>1 DEF SendSyn, TypeOK
  <2>2. /\ [connecting[t] EXCEPT !.tries = connecting[t].tries - 1].isn = connecting[t].isn
        /\ [connecting[t] EXCEPT !.tries = connecting[t].tries - 1].result
              = connecting[t].result
    BY <2>1, OpeningTypes
  <2>3. /\ p # t => connecting'[p] = connecting[p]
        /\ connecting[t] # None
        /\ connecting'[t] = [connecting[t] EXCEPT !.tries = connecting[t].tries - 1]
    BY <1>1, <2>1 DEF SendSyn, TypeOK
  <2>4. connecting'[p] # None =>
           /\ connecting[p] # None /\ connecting'[p].isn = connecting[p].isn
           /\ connecting'[p].result = connecting[p].result
    BY <2>2, <2>3
  <2> QED  BY <2>1, <2>4, ClientRests DEF TypeOK, Used, GivenOut
<1>2. ASSUME NEW t \in Ports, TimeOut(t) PROVE ClientMoves(p)
  <2> DEFINE a == [connecting[t] EXCEPT !.tries = None, !.waker = None, !.result = TimedOut]
  <2>1. /\ connecting[t] \in Opening
        /\ connecting' = [connecting EXCEPT ![t] = a]
        /\ UNCHANGED <<sockets, pool, established, isn>>
    BY <1>2 DEF TimeOut, TypeOK
  <2>2. a.isn = connecting[t].isn /\ a.result = TimedOut
    <3>1. TimedOut \in Block
      BY DEF TimedOut, Block
    <3> QED  BY <2>1, <3>1, OpeningTypes
  <2> HIDE DEF a
  <2>3. /\ p # t => connecting'[p] = connecting[p]
        /\ connecting[t] # None /\ connecting'[t] = a
    BY <1>2, <2>1 DEF TimeOut, TypeOK
  <2>4. connecting'[p] # None =>
           /\ connecting[p] # None /\ connecting'[p].isn = connecting[p].isn
           /\ connecting'[p].result \in {connecting[p].result, TimedOut}
    BY <2>2, <2>3
  <2> QED  BY <2>1, <2>4, ClientRests DEF TypeOK, Used, GivenOut
<1>3. ASSUME NEW q \in QDs, PollConnect(q) PROVE ClientMoves(p)
  <2> DEFINE t == sockets[q].port
             found == /\ sockets[q] # None /\ sockets[q].tag = "Connecting"
                      /\ connecting[t] # None
  <2>1. /\ UNCHANGED <<isn, pool>>
        /\ \/ UNCHANGED <<sockets, connecting, established>>
           \/ /\ found
              /\ connecting[t].result = None /\ connecting' = [connecting EXCEPT ![t].waker = q]
              /\ UNCHANGED <<sockets, established>>
           \/ /\ found
              /\ connecting' = [connecting EXCEPT ![t] = None]
              /\ UNCHANGED <<sockets, established>>
           \/ /\ found /\ connecting[t].result \notin {None, TimedOut}
              /\ connecting' = [connecting EXCEPT ![t] = None]
              /\ established' = [established EXCEPT ![t] = connecting[t].result]
              /\ sockets' = [sockets EXCEPT ![q].tag = "Established"]
    BY <1>3 DEF PollConnect, PollResult
  <2>2. CASE UNCHANGED <<sockets, connecting, established>>
    BY <2>1, <2>2, ClientRests DEF TypeOK, Used, GivenOut
  <2> SUFFICES ASSUME found, ~UNCHANGED <<sockets, connecting, established>>
               PROVE  ClientMoves(p)
    BY <2>1, <2>2
  <2>3. t \in Ports /\ connecting[t] \in Opening /\ sockets[q] \in Endpoint
    BY DEF TypeOK, Endpoint, ClientTables, Addressed
  <2>4. CASE /\ connecting[t].result = None
             /\ connecting' = [connecting EXCEPT ![t].waker = q]
             /\ UNCHANGED <<sockets, established>>
    <3>1. /\ p # t => connecting'[p] = connecting[p]
          /\ connecting'[t] = [connecting[t] EXCEPT !.waker = q]
      BY <2>3, <2>4 DEF TypeOK
    <3>2. /\ [connecting[t] EXCEPT !.waker = q].isn = connecting[t].isn
          /\ [connecting[t] EXCEPT !.waker = q].result = connecting[t].result
      BY <2>3, OpeningTypes
    <3>3. connecting'[p] # None =>
             /\ connecting[p] # None /\ connecting'[p].isn = connecting[p].isn
             /\ connecting'[p].result = connecting[p].result
      BY <3>1, <3>2
    <3> QED  BY <2>1, <2>4, <3>3, ClientRests DEF TypeOK, Used, GivenOut
  <2>5. CASE connecting' = [connecting EXCEPT ![t] = None] /\ UNCHANGED <<sockets, established>>
    <3>1. connecting'[p] = None \/ connecting'[p] = connecting[p]
      BY <2>3, <2>5 DEF TypeOK
    <3> QED  BY <2>1, <2>5, <3>1, ClientRests DEF TypeOK, Used, GivenOut
  <2>6. CASE /\ connecting[t].result \notin {None, TimedOut}
             /\ connecting' = [connecting EXCEPT ![t] = None]
             /\ established' = [established EXCEPT ![t] = connecting[t].result]
             /\ sockets' = [sockets EXCEPT ![q].tag = "Established"]
    <3>1. /\ p # t => connecting'[p] = connecting[p] /\ established'[p] = established[p]
          /\ connecting'[t] = None /\ established'[t] = connecting[t].result
      BY <2>3, <2>6 DEF TypeOK
    <3>2. HasResult(t) /\ established[t] = None /\ connecting[t].result # None
      BY <2>3, <2>6 DEF HasResult, ClientTables, ResultFirst
    <3>3. Used(p)' => Used(p) \/ p = t
      <4>1. /\ \A r \in QDs : r # q => sockets'[r] = sockets[r]
            /\ sockets'[q].port = t
        BY <2>3, <2>6 DEF TypeOK, Endpoint
      <4>2. Socket("Established", p).port = p
        BY DEF Socket
      <4> HIDE DEF t
      <4> QED  BY <2>1, <4>1, <4>2 DEF Used, GivenOut
    <3> HIDE DEF t
    <3>4. isn \in Nat
      BY DEF TypeOK
    <3>5. CASE p = t
      BY <2>1, <3>1, <3>2, <3>4, <3>5
         DEF ClientMoves, OpeningMoves, ResultMoves, EstablishedMoves, UseMoves, HasResult
    <3>6. CASE p # t
      BY <2>1, <3>1, <3>3, <3>4, <3>6
         DEF ClientMoves, OpeningMoves, ResultMoves, EstablishedMoves, UseMoves, HasResult
    <3> QED  BY <3>5, <3>6
  <2> QED  BY <2>1, <2>4, <2>5, <2>6
<1> QED  BY <1>1, <1>2, <1>3 DEF ClientCoroutine

LEMMA ReceiptMoves ==
  ASSUME TablesInv, NEW p \in Ports, NEW s \in net, NEW rest \in SUBSET net,
         ClientReceive(s, rest)
  PROVE  ClientMoves(p)
<1> USE DEF TablesInv
<1> DEFINE t == s.port
<1>0. s \in Segments /\ t \in Ports /\ isn \in Nat /\ s.to = "client"
  BY SegmentFields, Tables DEF TypeOK, ClientReceive
<1>1. UNCHANGED <<isn, sockets, pool>>
  BY DEF ClientReceive, ClientEstablished, ClientConnecting, ClientRefuses, clientVars
<1>2. CASE UNCHANGED <<connecting, established>>
  BY <1>0, <1>1, <1>2, ClientRests DEF Used, GivenOut
<1>3. CASE ClientEstablished(s, rest)
  <2>1. /\ UNCHANGED connecting /\ established[t] # None
        /\ established' = [established EXCEPT ![t] = After(s, established[t])]
    BY <1>3 DEF ClientEstablished
  <2>2. /\ p # t => established'[p] = established[p]
        /\ established'[t] = After(s, established[t]) /\ established[t] \in Block
    BY <1>0, <2>1 DEF TypeOK
  <2>3. /\ established'[t] # None
        /\ established'[t].mine = established[t].mine
        /\ established'[t].theirs = established[t].theirs
    <3>1. After(s, established[t]) \in Block
          /\ After(s, established[t]).mine = established[t].mine
          /\ After(s, established[t]).theirs = established[t].theirs
      BY <1>0, <2>2, ReceivedTypes
    <3> QED  BY <2>2, <3>1, NoneAssumption
  <2> QED
    BY <1>0, <1>1, <2>1, <2>2, <2>3
       DEF ClientMoves, OpeningMoves, ResultMoves, EstablishedMoves, UseMoves, Used, HasResult, GivenOut
<1>4. CASE ClientConnecting(s, rest) /\ Answers(s, connecting[t])
  <2> DEFINE a == [connecting[t] EXCEPT !.waker = None,
                                        !.result = Pair(connecting[t].isn, s.seq)]
  <2>1. /\ UNCHANGED established /\ connecting[t] # None
        /\ connecting' = [connecting EXCEPT ![t] = a]
    BY <1>4 DEF ClientConnecting
  <2>2. connecting[t] \in Opening /\ s.syn /\ s.ack = connecting[t].isn /\ s.seq \in Nat
    BY <1>0, <1>4, <2>1, SegmentFields DEF TypeOK, Answers
  <2>3. a.isn = connecting[t].isn /\ a.result = Pair(connecting[t].isn, s.seq)
    <3>1. Pair(connecting[t].isn, s.seq) \in Block
      BY <2>2, OpeningTypes, PairType
    <3> QED  BY <2>2, <3>1, OpeningTypes
  <2> HIDE DEF a
  <2>4. /\ p # t => connecting'[p] = connecting[p]
        /\ connecting'[t] = a
    BY <1>0, <2>1 DEF TypeOK
  <2>5. CASE p = t
    BY <1>0, <1>1, <2>1, <2>2, <2>3, <2>4, <2>5
       DEF ClientMoves, OpeningMoves, ResultMoves, EstablishedMoves, UseMoves, Used, HasResult, GivenOut
  <2>6. CASE p # t
    BY <1>0, <1>1, <2>1, <2>4, <2>6, ClientRests DEF Used, GivenOut
  <2> QED  BY <2>5, <2>6
<1> QED
  BY <1>2, <1>3, <1>4 DEF ClientReceive, ClientConnecting, ClientRefuses, clientVars

LEMMA ClientEvolves ==
  ASSUME TablesInv, [Next]_vars, NEW p \in Ports
  PROVE  ClientMoves(p)
<1>1. ASSUME UNCHANGED clientVars PROVE ClientMoves(p)
  BY <1>1, ClientRests DEF clientVars, TablesInv, TypeOK, Used, GivenOut
<1>2. ASSUME UNCHANGED vars PROVE ClientMoves(p)
  BY <1>1, <1>2 DEF vars
<1>3. ASSUME \/ \E t \in Ports : SendSynAck(t)
             \/ \E a \in Accepts : Accept(a) \/ PollAccept(a)
      PROVE  ClientMoves(p)
  BY <1>1, <1>3 DEF SendSynAck, Accept, PollAccept
<1>4. ASSUME NEW s \in net, Deliver(s) \/ DeliverTwice(s) PROVE ClientMoves(p)
  <2>1. PICK rest \in SUBSET net : Receive(s, rest)
    <3>1. Receive(s, net \ {s}) \/ Receive(s, net)
      BY <1>4 DEF Deliver, DeliverTwice
    <3> QED  BY <3>1
  <2> QED  BY <1>1, <2>1, ReceiptMoves DEF Receive, ServerReceive
<1> QED  BY <1>2, <1>3, <1>4, CallsMove, CoroutinesMove DEF Next

(* A segment with SYN is there already, or carries the number of an active *)
(* open, or those of an entry of inflight.                                 *)
LEMMA NetEvolves ==
  ASSUME TablesInv, [Next]_vars, NEW s \in net', s.syn
  PROVE  \/ s \in net
         \/ \E p \in Ports : connecting[p] # None /\ s = Syn(p, connecting[p].isn)
         \/ \E p \in Ports : /\ inflight[p] # None
                             /\ s = SynAck(p, inflight[p].mine, inflight[p].theirs)
<1> DEFINE Goal == \/ s \in net
                   \/ \E p \in Ports : connecting[p] # None /\ s = Syn(p, connecting[p].isn)
                   \/ \E p \in Ports : /\ inflight[p] # None
                                       /\ s = SynAck(p, inflight[p].mine, inflight[p].theirs)
<1>1. ASSUME UNCHANGED net PROVE Goal
  BY <1>1
<1>2. ASSUME UNCHANGED vars PROVE Goal
  BY <1>1, <1>2 DEF vars
<1>3. ASSUME \E q \in QDs : \/ SocketCall(q) \/ Connect(q) \/ Close(q)
                            \/ \E t \in Ports \cup {0} : Bind(q, t)
      PROVE  Goal
  BY <1>1, <1>3 DEF SocketCall, Connect, Close, Bind
<1>4. ASSUME ClientCoroutine PROVE Goal
  <2>1. UNCHANGED net \/ \E p \in Ports : /\ connecting[p] # None
                                          /\ net' = net \cup {Syn(p, connecting[p].isn)}
    BY <1>4 DEF ClientCoroutine, SendSyn, TimeOut, PollConnect
  <2> QED  BY <2>1
<1>5. ASSUME \/ \E t \in Ports : SendSynAck(t)
             \/ \E a \in Accepts : Accept(a) \/ PollAccept(a)
      PROVE  Goal
  <2>1. \/ UNCHANGED net
        \/ \E p \in Ports : /\ inflight[p] # None
                            /\ net' = net \cup {SynAck(p, inflight[p].mine, inflight[p].theirs)}
    BY <1>5 DEF SendSynAck, Accept, PollAccept
  <2> QED  BY <2>1
<1>6. ASSUME NEW t \in net, Deliver(t) \/ DeliverTwice(t) PROVE Goal
  <2>1. PICK rest \in SUBSET net : Receive(t, rest)
    <3>1. Receive(t, net \ {t}) \/ Receive(t, net)
      BY <1>6 DEF Deliver, DeliverTwice
    <3> QED  BY <3>1
  <2>2. \A to, p, n, m : ~Ack(to, p, n, m).syn /\ ~Rst(to, p).syn
    BY DEF Ack, Rst, Segment
  <2>3. CASE ClientReceive(t, rest)
    BY <2>2, <2>3 DEF ClientReceive, ClientEstablished, ClientConnecting, ClientRefuses, Answer
  <2>4. CASE ServerReceive(t, rest)
    BY <2>2, <2>4 DEF ServerReceive, ServerEstablished, ServerRefuses, Answer
  <2> QED  BY <2>1, <2>3, <2>4 DEF Receive
<1> QED  BY <1>2, <1>3, <1>4, <1>5, <1>6 DEF Next

-----------------------------------------------------------------------------
(* The handshake.  Numbers: no SYN and no block of the server is ahead of  *)
(* the active open of its port, and one that closes a block is older than  *)
(* that.  Agreement: SYN+ACKs, results and blocks of the client name what  *)
(* the server holds.  InUse: nothing on its way can close a connection     *)
(* that a socket stands for.                                               *)

Agreed(p, mine, theirs) == \E cb \in Held(p) : cb.mine = theirs /\ cb.theirs = mine

NumbersIn(p) ==
  /\ connecting[p] # None => connecting[p].isn <= isn
  /\ \A s \in net : ToServer(s, p) =>
        s.seq <= isn /\ (connecting[p] # None => s.seq <= connecting[p].isn)
  /\ \A cb \in Held(p) :
        /\ cb.theirs <= isn
        /\ connecting[p] # None => /\ cb.theirs <= connecting[p].isn
                                   /\ cb.open \/ cb.theirs < connecting[p].isn
AgreementOn(p) ==
  /\ \A s \in net : s.to = "client" /\ s.syn /\ s.port = p => Agreed(p, s.ack, s.seq)
  /\ HasResult(p) =>
        /\ connecting[p].result.mine = connecting[p].isn
        /\ Agreed(p, connecting[p].result.mine, connecting[p].result.theirs)
  /\ established[p] # None => Agreed(p, established[p].mine, established[p].theirs)
InUse(p) ==
  Used(p) =>
    /\ connecting[p] = None /\ established[p] # None
    /\ \A cb \in Held(p) : cb.open
    /\ \A s \in net : ToServer(s, p) => s.seq <= established[p].mine

HandshakeInv ==
  TablesInv /\ \A p \in Ports : NumbersIn(p) /\ AgreementOn(p) /\ InUse(p)

LEMMA AgreedStays ==
  ASSUME HandshakeInv, [Next]_vars, NEW p \in Ports, NEW mine, NEW theirs,
         Agreed(p, mine, theirs)
  PROVE  Agreed(p, mine, theirs)'
<1> USE DEF HandshakeInv, TablesInv
<1>1. PICK cb \in Held(p) : cb.mine = theirs /\ cb.theirs = mine
  BY DEF Agreed
<1>2. CASE SameHeld(p)
  BY <1>1, <1>2 DEF SameHeld, Agreed
<1>3. CASE MeetsHeld(p)
  <2>1. PICK s \in net, x \in Held(p) : Held(p)' = {After(s, x)}
    BY <1>3 DEF MeetsHeld
  <2>2. x = cb /\ x \in Block /\ s \in Segments
    BY <1>1, HeldOnce, Tables
  <2>3. After(s, x).mine = theirs /\ After(s, x).theirs = mine
    BY <1>1, <2>2, ReceivedTypes
  <2> QED  BY <2>1, <2>3 DEF Agreed
<1> QED  BY <1>1, <1>2, <1>3, HeldEvolves DEF HeldMoves, BeginsHeld

(* What the server may add to what it holds.                               *)
LEMMA HeldComes ==
  ASSUME HandshakeInv, [Next]_vars, NEW p \in Ports, NEW cb \in Held(p)'
  PROVE  \/ cb \in Held(p)
         \/ \E s \in net : /\ ToServer(s, p) /\ cb.theirs = s.seq /\ cb.open
                           /\ Held(p) = {}
         \/ \E s \in net, x \in Held(p) :
               ToServer(s, p) /\ New(s, x) /\ cb.theirs = x.theirs
<1> USE DEF HandshakeInv, TablesInv
<1>1. CASE SameHeld(p)
  BY <1>1 DEF SameHeld
<1>2. CASE BeginsHeld(p)
  <2>1. PICK s \in net, n \in Nat : ToServer(s, p) /\ Held(p)' = {Pair(n, s.seq)}
    BY <1>2 DEF BeginsHeld
  <2>2. s.seq \in Nat
    BY <2>1, SegmentFields, Tables DEF ToServer
  <2> QED  BY <1>2, <2>1, <2>2, PairType DEF BeginsHeld
<1>3. CASE MeetsHeld(p)
  <2>1. PICK s \in net : s.to = "server" /\ s.port = p
                         /\ \E x \in Held(p) : Held(p)' = {After(s, x)}
    BY <1>3 DEF MeetsHeld
  <2>2. PICK x \in Held(p) : Held(p)' = {After(s, x)}
    BY <2>1
  <2>3. x \in Block /\ s \in Segments
    BY HeldOnce, Tables
  <2>4. cb = After(s, x) /\ After(s, x).theirs = x.theirs /\ (~New(s, x) => After(s, x) = x)
    BY <2>2, <2>3, ReceivedTypes
  <2> QED  BY <2>1, <2>4 DEF ToServer, New
<1> QED  BY <1>1, <1>2, <1>3, HeldEvolves DEF HeldMoves

(* The numbers are numbers.                                                *)
LEMMA NumbersTyped ==
  \A p \in Ports : TypeOK /\ OnceOpened =>
    /\ isn \in Nat
    /\ \A s \in net : ToServer(s, p) => s.seq \in Nat
    /\ \A cb \in Held(p) : cb.theirs \in Nat /\ cb.mine \in Nat
    /\ connecting[p] # None => connecting[p].isn \in Nat
    /\ established[p] # None => established[p].mine \in Nat
<1> SUFFICES ASSUME NEW p \in Ports, TypeOK, OnceOpened
             PROVE  /\ isn \in Nat
                    /\ \A s \in net : ToServer(s, p) => s.seq \in Nat
                    /\ \A cb \in Held(p) : cb.theirs \in Nat /\ cb.mine \in Nat
                    /\ connecting[p] # None => connecting[p].isn \in Nat
                    /\ established[p] # None => established[p].mine \in Nat
  OBVIOUS
<1>1. \A s \in net : ToServer(s, p) => s.seq \in Nat
  BY SegmentFields, Tables DEF ToServer
<1>2. \A cb \in Held(p) : cb.theirs \in Nat /\ cb.mine \in Nat
  BY HeldOnce DEF Block
<1>3. connecting[p] # None => connecting[p].isn \in Nat
  BY DEF TypeOK, Opening
<1>4. established[p] # None => established[p].mine \in Nat
  BY DEF TypeOK, Block
<1> QED  BY <1>1, <1>2, <1>3, <1>4 DEF TypeOK

LEMMA NumbersTypedNext ==
  (\A p \in Ports : TypeOK /\ OnceOpened =>
    /\ isn \in Nat
    /\ \A s \in net : ToServer(s, p) => s.seq \in Nat
    /\ \A cb \in Held(p) : cb.theirs \in Nat /\ cb.mine \in Nat
    /\ connecting[p] # None => connecting[p].isn \in Nat
    /\ established[p] # None => established[p].mine \in Nat)'
BY NumbersTyped, PTL

(* A SYN to the server was on its way, or carries the number of the active *)
(* open of its port.                                                       *)
LEMMA SynsToServer ==
  ASSUME HandshakeInv, [Next]_vars, NEW p \in Ports, NEW s \in net', ToServer(s, p)
  PROVE  s \in net \/ (connecting[p] # None /\ s.seq = connecting[p].isn)
<1>1. \A t, n : Syn(t, n).port = t /\ Syn(t, n).seq = n
  BY DEF Syn, Segment
<1>2. \A t, n, m : SynAck(t, n, m).to = "client"
  BY DEF SynAck, Segment
<1> QED  BY <1>1, <1>2, NetEvolves DEF HandshakeInv, ToServer

LEMMA NumbersKept ==
  ASSUME HandshakeInv, [Next]_vars, TablesInv', NEW p \in Ports
  PROVE  NumbersIn(p)'
<1> USE DEF HandshakeInv
<1>0. /\ isn \in Nat /\ isn' \in Nat /\ isn <= isn'
      /\ connecting[p] # None => connecting[p].isn \in Nat
      /\ connecting'[p] # None => connecting'[p].isn \in Nat
  BY NumbersTyped, NumbersTypedNext, ClientEvolves DEF TablesInv, ClientMoves, OpeningMoves
<1>1. connecting'[p] # None =>
         \/ connecting[p] # None /\ connecting'[p].isn = connecting[p].isn
         \/ connecting'[p].isn = isn + 1 /\ isn' = isn + 1
  BY ClientEvolves DEF ClientMoves, OpeningMoves
<1>2. connecting'[p] # None => connecting'[p].isn <= isn'
  BY <1>0, <1>1 DEF NumbersIn
<1>3. ASSUME NEW s \in net', ToServer(s, p)
      PROVE  s.seq <= isn' /\ (connecting'[p] # None => s.seq <= connecting'[p].isn)
  <2>1. CASE s \in net
    <3>1. /\ s.seq \in Nat /\ s.seq <= isn
          /\ connecting[p] # None => s.seq <= connecting[p].isn
      BY <1>3, <2>1, NumbersTyped DEF NumbersIn, TablesInv
    <3> QED  BY <1>0, <1>1, <3>1
  <2>2. CASE connecting[p] # None /\ s.seq = connecting[p].isn
    BY <1>0, <1>1, <2>2 DEF NumbersIn
  <2> QED  BY <1>3, <2>1, <2>2, SynsToServer
<1>4. ASSUME NEW cb \in Held(p)'
      PROVE  /\ cb.theirs <= isn'
             /\ connecting'[p] # None => /\ cb.theirs <= connecting'[p].isn
                                         /\ cb.open \/ cb.theirs < connecting'[p].isn
  <2> SUFFICES ASSUME cb.theirs \in Nat, cb.theirs <= isn,
                      connecting[p] # None => /\ cb.theirs <= connecting[p].isn
                                              /\ cb.open \/ cb.theirs < connecting[p].isn
               PROVE  /\ cb.theirs <= isn'
                      /\ connecting'[p] # None => /\ cb.theirs <= connecting'[p].isn
                                                  /\ cb.open \/ cb.theirs < connecting'[p].isn
    <3>1. cb.theirs \in Nat
      BY <1>4, NumbersTypedNext DEF TablesInv
    <3>2. CASE cb \in Held(p)
      BY <3>1, <3>2 DEF NumbersIn
    <3>3. ASSUME NEW s \in net, ToServer(s, p), cb.theirs = s.seq, cb.open
          PROVE  /\ cb.theirs <= isn
                 /\ connecting[p] # None => cb.theirs <= connecting[p].isn
      BY <3>3 DEF NumbersIn
    <3>4. ASSUME NEW s \in net, NEW x \in Held(p), ToServer(s, p), New(s, x),
                 cb.theirs = x.theirs
          PROVE  /\ cb.theirs <= isn
                 /\ connecting[p] # None => cb.theirs < connecting[p].isn
      <4>1. /\ s.seq \in Nat /\ x.theirs \in Nat /\ x.theirs < s.seq
            /\ s.seq <= isn /\ (connecting[p] # None => s.seq <= connecting[p].isn)
        BY <3>4, NumbersTyped DEF New, NumbersIn, TablesInv
      <4> QED  BY <1>0, <3>4, <4>1
    <3>5. /\ cb.theirs <= isn
          /\ connecting[p] # None => /\ cb.theirs <= connecting[p].isn
                                     /\ cb.open \/ cb.theirs < connecting[p].isn
      BY <1>0, <1>4, <3>1, <3>2, <3>3, <3>4, HeldComes DEF NumbersIn
    <3> QED  BY <3>1, <3>5
  <2> QED  BY <1>0, <1>1
<1> QED  BY <1>2, <1>3, <1>4 DEF NumbersIn, ToServer

LEMMA AgreementKept ==
  ASSUME HandshakeInv, [Next]_vars, NEW p \in Ports
  PROVE  AgreementOn(p)'
<1> USE DEF HandshakeInv
<1>1. ASSUME NEW s \in net', s.to = "client", s.syn, s.port = p
      PROVE  Agreed(p, s.ack, s.seq)'
  <2>1. CASE s \in net
    <3>1. Agreed(p, s.ack, s.seq)
      BY <1>1, <2>1 DEF AgreementOn
    <3> QED  BY <3>1, AgreedStays
  <2>2. ASSUME NEW t \in Ports, s = Syn(t, connecting[t].isn) PROVE FALSE
    BY <1>1, <2>2 DEF Syn, Segment
  <2>3. ASSUME NEW t \in Ports, inflight[t] # None,
               s = SynAck(t, inflight[t].mine, inflight[t].theirs)
        PROVE  Agreed(p, s.ack, s.seq)'
    <3>1. t = p /\ s.seq = inflight[t].mine /\ s.ack = inflight[t].theirs
      BY <1>1, <2>3 DEF SynAck, Segment
    <3>2. Pair(inflight[p].mine, inflight[p].theirs) \in Held(p)
      BY <2>3, <3>1, HeldIs
    <3>3. Agreed(p, s.ack, s.seq)
      BY <3>1, <3>2 DEF Agreed, Pair
    <3> QED  BY <3>3, AgreedStays
  <2> QED  BY <1>1, <2>1, <2>2, <2>3, NetEvolves
<1>2. ASSUME HasResult(p)'
      PROVE  /\ connecting'[p].result.mine = connecting'[p].isn
             /\ Agreed(p, connecting[p].result.mine, connecting[p].result.theirs)'
  <2>1. /\ connecting[p] # None /\ connecting'[p].isn = connecting[p].isn
        /\ \/ HasResult(p) /\ connecting'[p].result = connecting[p].result
           \/ \E s \in net :
                /\ s.to = "client" /\ s.syn /\ s.port = p /\ s.ack = connecting[p].isn
                /\ connecting'[p].result = Pair(connecting[p].isn, s.seq)
    BY <1>2, ClientEvolves DEF ClientMoves, ResultMoves
  <2>2. \E m, n : /\ m = connecting[p].isn /\ Agreed(p, m, n)
                  /\ connecting'[p].result.mine = m /\ connecting'[p].result.theirs = n
    <3>1. CASE HasResult(p) /\ connecting'[p].result = connecting[p].result
      BY <3>1 DEF AgreementOn
    <3>2. ASSUME NEW s \in net, s.to = "client", s.syn, s.port = p,
                 s.ack = connecting[p].isn,
                 connecting'[p].result = Pair(connecting[p].isn, s.seq)
          PROVE  /\ Agreed(p, connecting[p].isn, s.seq)
                 /\ connecting'[p].result.mine = connecting[p].isn
                 /\ connecting'[p].result.theirs = s.seq
      BY <3>2 DEF AgreementOn, Pair
    <3> QED  BY <2>1, <3>1, <3>2
  <2>3. PICK m, n : /\ m = connecting[p].isn /\ Agreed(p, m, n)
                    /\ connecting'[p].result.mine = m /\ connecting'[p].result.theirs = n
    BY <2>2
  <2>4. Agreed(p, m, n)'
    BY <2>3, AgreedStays
  <2> QED  BY <2>1, <2>3, <2>4 DEF Agreed
<1>3. ASSUME established'[p] # None
      PROVE  Agreed(p, established[p].mine, established[p].theirs)'
  <2>1. \/ /\ established[p] # None
           /\ established'[p].mine = established[p].mine
           /\ established'[p].theirs = established[p].theirs
        \/ HasResult(p) /\ established'[p] = connecting[p].result
    BY <1>3, ClientEvolves DEF ClientMoves, EstablishedMoves
  <2>2. Agreed(p, established'[p].mine, established'[p].theirs)
    BY <2>1 DEF AgreementOn
  <2>3. PICK m, n : m = established'[p].mine /\ n = established'[p].theirs
    OBVIOUS
  <2>4. Agreed(p, m, n)'
    BY <2>2, <2>3, AgreedStays
  <2> QED  BY <2>3, <2>4 DEF Agreed
<1> QED  BY <1>1, <1>2, <1>3 DEF AgreementOn, Agreed

LEMMA UseKept ==
  ASSUME HandshakeInv, [Next]_vars, NEW p \in Ports
  PROVE  InUse(p)'
<1> USE DEF HandshakeInv
<1> SUFFICES ASSUME Used(p)'
             PROVE  /\ connecting'[p] = None /\ established'[p] # None
                    /\ \A cb \in Held(p)' : cb.open
                    /\ \A s \in net' : ToServer(s, p) => s.seq <= established'[p].mine
  BY DEF InUse, ToServer
(* The number n of the client's SYN decides: the server's block is of it,  *)
(* and no SYN is ahead of it.                                              *)
<1>1. ASSUME NEW n \in Nat, NEW theirs, Agreed(p, n, theirs),
             connecting'[p] = None, established'[p] # None, established'[p].mine = n,
             connecting[p] # None => connecting[p].isn = n,
             \A cb \in Held(p) : cb.theirs = n => cb.open,
             \A s \in net : ToServer(s, p) => s.seq <= n
      PROVE  /\ connecting'[p] = None /\ established'[p] # None
             /\ \A cb \in Held(p)' : cb.open
             /\ \A s \in net' : ToServer(s, p) => s.seq <= established'[p].mine
  <2>1. \A cb \in Held(p) : cb.theirs = n
    BY <1>1, HeldOnce DEF Agreed, TablesInv
  <2>2. ASSUME NEW cb \in Held(p)' PROVE cb.open
    <3>1. ASSUME NEW s \in net, NEW x \in Held(p), ToServer(s, p), New(s, x) PROVE FALSE
      <4>1. s.seq \in Nat /\ s.seq <= n /\ s.seq > n
        BY <1>1, <2>1, <3>1, NumbersTyped DEF New, TablesInv
      <4> QED  BY <4>1
    <3> QED  BY <1>1, <2>1, <2>2, <3>1, HeldComes
  <2>3. ASSUME NEW s \in net', ToServer(s, p) PROVE s.seq <= n
    BY <1>1, <2>3, SynsToServer
  <2> QED  BY <1>1, <2>2, <2>3
<1>2. CASE Used(p)
  <2>1. /\ connecting[p] = None /\ established[p] # None
        /\ \A cb \in Held(p) : cb.open
        /\ \A s \in net : ToServer(s, p) => s.seq <= established[p].mine
    BY <1>2 DEF InUse
  <2>2. connecting'[p] = None
    BY <2>1, ClientEvolves DEF ClientMoves, OpeningMoves
  <2>3. established'[p] # None /\ established'[p].mine = established[p].mine
    BY <2>1, ClientEvolves DEF ClientMoves, EstablishedMoves, HasResult
  <2>4. established[p].mine \in Nat /\ Agreed(p, established[p].mine, established[p].theirs)
    BY <2>1, NumbersTyped DEF AgreementOn, TablesInv
  <2> QED  BY <1>1, <2>1, <2>2, <2>3, <2>4
<1>3. CASE /\ HasResult(p) /\ connecting'[p] = None
           /\ established'[p] = connecting[p].result
  <2> DEFINE n == connecting[p].isn
  <2>1. /\ connecting[p] # None /\ connecting[p].result # None /\ n \in Nat
        /\ connecting[p].result.mine = n
        /\ Agreed(p, connecting[p].result.mine, connecting[p].result.theirs)
    BY <1>3, NumbersTyped DEF HasResult, AgreementOn, TablesInv
  <2>2. /\ \A cb \in Held(p) : cb.open \/ cb.theirs < n
        /\ \A s \in net : ToServer(s, p) => s.seq <= n
    BY <2>1 DEF NumbersIn
  <2>3. ASSUME NEW cb \in Held(p), cb.theirs = n PROVE cb.open
    BY <2>1, <2>2, <2>3
  <2> QED  BY <1>1, <1>3, <2>1, <2>2, <2>3
<1> QED  BY <1>2, <1>3, ClientEvolves DEF ClientMoves, UseMoves

LEMMA StepKeepsHandshake ==
  ASSUME HandshakeInv, [Next]_vars
  PROVE  HandshakeInv'
<1>1. TablesInv'
  BY StepKeepsTables DEF HandshakeInv
<1> QED  BY <1>1, NumbersKept, AgreementKept, UseKept DEF HandshakeInv

LEMMA HandshakeStarts ==
  ASSUME Init
  PROVE  HandshakeInv
<1>1. TablesInv
  BY TablesStart
<1>2. ASSUME NEW p \in Ports PROVE NumbersIn(p) /\ AgreementOn(p) /\ InUse(p)
  <2>1. connecting[p] = None /\ established[p] = None /\ net = {}
    BY DEF Init
  <2>2. Held(p) = {}
    BY DEF Init, NewPassive, Held
  <2>3. ~Used(p)
    <3>1. Socket("Established", p) # None
      BY NoneAssumption DEF Socket, Endpoint
    <3> QED  BY <3>1 DEF Init, Used
  <2> QED  BY <2>1, <2>2, <2>3 DEF NumbersIn, AgreementOn, InUse, HasResult
<1> QED  BY <1>1, <1>2 DEF HandshakeInv

(* A connection the client takes for established is one the server holds,  *)
(* with the same two initial numbers, and open while a socket stands for   *)
(* it, whatever the network does to the segments, however often connects   *)
(* are tried again and whatever is closed meanwhile (active_open.rs        *)
(* receive and background, passive_open.rs receive, peer.rs connect).      *)
THEOREM HandshakeInvariant == Spec => []HandshakeAgrees
<1>1. HandshakeInv => HandshakeAgrees
  <2> SUFFICES ASSUME HandshakeInv, NEW p \in Ports, established[p] # None
               PROVE  \E cb \in Held(p) :
                        /\ cb.mine = established[p].theirs /\ cb.theirs = established[p].mine
                        /\ (\E q \in QDs : sockets[q] = Socket("Established", p))
                              => cb.open \/ p \in GivenOut
    BY DEF HandshakeAgrees
  <2>1. PICK cb \in Held(p) :
           cb.mine = established[p].theirs /\ cb.theirs = established[p].mine
    BY DEF HandshakeInv, AgreementOn, Agreed
  <2>2. (\E q \in QDs : sockets[q] = Socket("Established", p)) => cb.open \/ p \in GivenOut
    BY DEF HandshakeInv, InUse, Used
  <2> QED  BY <2>1, <2>2
<1> QED  BY <1>1, HandshakeStarts, StepKeepsHandshake, PTL DEF Spec
=============================================================================

-------------------------- MODULE TcpMigInvariants --------------------------
(***************************************************************************)
(* The inductive invariants that the proofs about TcpMig rest on, and what *)
(* they say of the steps: who holds a connection (OwnerInv), where the     *)
(* copies of its state are (CopyInv), the migration protocol on a reliable *)
(* network (ProtocolInv), and the bytes the server has received (ReadInv,  *)
(* DataInv).  TcpMigProofs proves them.                                    *)
(***************************************************************************)
EXTENDS TcpMig

-----------------------------------------------------------------------------
(* Queues of packets. *)

Queues == [Hosts -> Seq(Packet)]

(* Where the i-th packet of g's queue was before h consumed its head. *)
Before(h, g, i) == IF g = h THEN i + 1 ELSE i

(* Every packet of every queue was there before, h's head excepted; or it  *)
(* is p, at the end of t's queue.                                          *)
Kept(h, g, i) == /\ Before(h, g, i) \in DOMAIN inq[g]
                 /\ inq'[g][i] = inq[g][Before(h, g, i)]
Stayed(g, i)  == i \in DOMAIN inq[g] /\ inq'[g][i] = inq[g][i]
New(t, p, g, i) == g = t /\ i = Len(inq'[t]) /\ inq'[g][i] = p

-----------------------------------------------------------------------------
(* A connection has a single owner.  SingleOwner is not inductive: a copy   *)
(* of the state also comes from the handshake, so that the invariant has   *)
(* to follow a connection from the client's SYN on.                        *)

(* What will be, or is, the one control block of a connection: a SYN or a  *)
(* CONNECTION_STATE on its way, a handshake in progress, a connection      *)
(* waiting to be accepted, an entry of the established table.              *)
Kinds == {"net", "hand", "ready", "table"}

Carries(p, c) == p.client = c /\ p.type \in {"SYN", "CONN_STATE"}

Holds(c, k, h, i) ==
    \/ k = "net" /\ i \in DOMAIN inq[h] /\ Carries(inq[h][i], c)
    \/ k = "hand" /\ i = 0 /\ c \in inflight[h]
    \/ k = "ready" /\ i \in DOMAIN ready[h] /\ ready[h][i].client = c
    \/ k = "table" /\ i = 0 /\ established[h][c] # None

(* The SYN was lost or refused, and will be sent again. *)
SynLost(c) == conn[c] = "syn_sent" /\ 0 \in dropped[c]

OneHolder ==
    \A c \in Clients, k, l \in Kinds, g, h \in Hosts, i, j \in Nat :
        Holds(c, k, g, i) /\ Holds(c, l, h, j) => k = l /\ g = h /\ i = j

NoHolder(c) == \A k \in Kinds, h \in Hosts, i \in Nat : ~Holds(c, k, h, i)
LostAlone   == \A c \in Clients : SynLost(c) => NoHolder(c)

(* How far the client's handshake has come bounds what may exist of it. *)
Packets(h) == {inq[h][i] : i \in DOMAIN inq[h]}

Closed(c) == /\ dropped[c] = {}
             /\ \A h \in Hosts : /\ c \notin inflight[h]
                                 /\ \A p \in Packets(h) : p.client # c
NotOpen(c) == /\ dropped[c] \subseteq {0}
              /\ \A h \in Hosts :
                    /\ established[h][c] = None
                    /\ active[h][c] = None
                    /\ \A i \in DOMAIN ready[h] : ready[h][i].client # c
                    /\ \A p \in Packets(h) : p.client = c => p.type = "SYN"
Open(c) == \A h \in Hosts : \A p \in Packets(h) :
                p.client = c => p.type # "SYN"

Phases ==
    \A c \in Clients : /\ conn[c] = "closed" => Closed(c)
                       /\ conn[c] # "open" => NotOpen(c)
                       /\ conn[c] = "open" => Open(c)

OwnerInv == TypeOK /\ Phases /\ OneHolder /\ LostAlone

(* What a step does to the holders.  Positions in the queue of kind `from' *)
(* of host h shift by one when its head is consumed.                       *)
Was(from, h, k, g, i) == IF k = from /\ g = h THEN i + 1 ELSE i

(* There is no new holder; or there is one, at position n of the queue of  *)
(* kind `to' of host t, of a connection d that keeps no other.             *)
Keeps(from, h) ==
    \A c \in Clients, k \in Kinds, g \in Hosts, i \in Nat :
        Holds(c, k, g, i)' => Holds(c, k, g, Was(from, h, k, g, i))

Moves(from, h, d, to, t, n) ==
    \A c \in Clients, k \in Kinds, g \in Hosts, i \in Nat :
        Holds(c, k, g, i)' =>
            IF c = d THEN k = to /\ g = t /\ i = n
                     ELSE Holds(c, k, g, Was(from, h, k, g, i))

-----------------------------------------------------------------------------
(* The tables of a host agree and no descriptor has two uses, on any network *)
(* (lossy, duplicating) and whether or not the application closes            *)
(* connections.  Together with the type invariant the property is inductive  *)
(* as it stands.                                                             *)

TablesInv == TypeOK /\ TablesHold

-----------------------------------------------------------------------------
(* On any network, a connection becomes a control block at one host at     *)
(* most.  OneControlBlock is not inductive: what keeps a second            *)
(* CONNECTION_STATE from being taken is that all copies of it stand one    *)
(* after the other at the head of the queue of the host that took the      *)
(* first, whose entry no longer waits for one; and a second handshake is   *)
(* impossible because a client sends no SYN once it has sent data.         *)

(* The i-th packet of g's queue: whose it is, and what.                    *)
Msg(g, i, c, type) == /\ i \in DOMAIN inq[g]
                      /\ inq[g][i].client = c /\ inq[g][i].type = type

(* A host has the control block of a connection.                           *)
Here(c, g) == established[g][c] # None \/ \E i \in DOMAIN ready[g] : InReady(c, g, i)

(* A host's part of the handshake is not over: nobody else knows of the    *)
(* connection, and the client's SYNs come before its data.                 *)
Opening(c, g) == c \in inflight[g] \/ \E i \in DOMAIN inq[g] : Msg(g, i, c, "SYN")
Young(c)    == conn[c] # "open" \/ \E g \in Hosts : Opening(c, g)

Youth(c) ==
    /\ Young(c) => \A g \in Hosts : /\ ~Here(c, g) /\ active[g][c] = None
                                    /\ \A i \in DOMAIN inq[g] : inq[g][i].client = c =>
                                            inq[g][i].type \in {"SYN", "DATA"}
    /\ \A g \in Hosts : Opening(c, g) => owner[c] = g /\ conn[c] # "closed"
    /\ conn[c] = "closed" => dropped[c] = {}
    /\ \A g \in Hosts : \A i, j \in DOMAIN inq[g] :
            Msg(g, i, c, "DATA") => conn[c] = "open" /\ ~(i < j /\ Msg(g, j, c, "SYN"))

(* Copies of a CONNECTION_STATE stand together, first in a queue, from     *)
(* the moment there are two or one was taken; then no entry waits for them. *)
Run(c, g, i) == \A k \in 1..i : InNet(c, g, k)
Spent(c, g)  == active[g][c] = None \/ active[g][c].stage # "PrepareAck"
Runs(c) ==
    /\ \A g, h \in Hosts : \A i \in DOMAIN inq[g], j \in DOMAIN inq[h] :
            InNet(c, g, i) /\ InNet(c, h, j) => g = h /\ (i = j \/ Run(c, g, i))
    /\ \A g, h \in Hosts : \A i \in DOMAIN inq[g] :
            InNet(c, g, i) /\ Here(c, h) => g = h /\ Run(c, g, i) /\ Spent(c, g)

(* One host at most has the control block, in one place.                   *)
Sole(c) ==
    /\ \A g, h \in Hosts : Here(c, g) /\ Here(c, h) => g = h
    /\ \A g \in Hosts : \A i \in DOMAIN ready[g] :
            InReady(c, g, i) => /\ ~InTable(c, g)
                                /\ \A j \in DOMAIN ready[g] : InReady(c, g, j) => i = j

CopyInv == TypeOK /\ \A c \in Clients : Youth(c) /\ Runs(c) /\ Sole(c)

-----------------------------------------------------------------------------
(* What a step does to the queues: its head is taken (or not: s), and one  *)
(* of some packets is put at the end of t's.                               *)
Age(s, h, g, i)    == IF s /\ g = h THEN i + 1 ELSE i
Came(s, h, g, i)   == /\ Age(s, h, g, i) \in DOMAIN inq[g]
                      /\ inq'[g][i] = inq[g][Age(s, h, g, i)]
Flows(s, h, t, in) == \A g \in Hosts : \A i \in DOMAIN inq'[g] :
                        Came(s, h, g, i) \/ \E p \in in : New(t, p, g, i)

-----------------------------------------------------------------------------
(* What a client sends, and when.                                          *)
ClientSends(d, t, p) ==
    /\ Transmit(t, p) /\ p.client = d /\ t = owner'[d]
    /\ p.type \in {"SYN", "DATA"}
    /\ p.type = "SYN" => conn'[d] = "syn_sent"
    /\ p.type = "DATA" => conn'[d] = "open"
    /\ \/ conn' = conn
       \/ conn[d] = "closed" /\ conn' = [conn EXCEPT ![d] = "syn_sent"]
       \/ conn[d] = "syn_sent" /\ conn' = [conn EXCEPT ![d] = "open"]
    /\ \/ owner' = owner
       \/ conn[d] = "closed" /\ owner' = [owner EXCEPT ![d] = t]
    /\ \/ dropped' = dropped
       \/ conn[d] # "closed" /\ \E n : dropped' = [dropped EXCEPT ![d] = @ \ {n}]

(* What starting a migration sends, and what it changes.                   *)
Prepares(h, yes, t, p, d) ==
    /\ Flows(yes, h, t, {p})
    /\ p.client = d /\ p.type \in {"PREPARE", "PREPARE_ACK"} /\ ~Young(d)
    /\ \/ owner' = owner
       \/ owner' = [owner EXCEPT ![d] = h]
    /\ \/ established' = established
       \/ established[h][d] # None /\ \E x : established' = [established EXCEPT ![h][d] = x]
    /\ \E m : /\ active' = [active EXCEPT ![h][d] = m]
              /\ ~InNet(d, h, 1) \/ m.stage = "Prepare"

(* The accept queues, after d's connection was put at the end of h's.      *)
Joined(h, e) == ready' = [ready EXCEPT ![h] = Append(@, e)]

(* The network delivers a packet twice: where each one was before.         *)
Back(h, g, i) == IF g = h /\ i > 1 THEN i - 1 ELSE i

-----------------------------------------------------------------------------
(* The migration protocol on a reliable network. *)

(* The assumption of the theorems that follow. *)
Reliable == MaxLoss = 0 /\ MaxDup = 0 /\ AppCloses = FALSE

From(g, i) == inq[g][i].src

Stage(g, c) == IF active[g][c] = None THEN "Idle" ELSE active[g][c].stage
NoEntries(c) == \A g \in Hosts : Stage(g, c) = "Idle"

Waits(g, c) == c \in ReadyAt(g)
Hands(g, c) == c \in inflight[g]
Quiet(g, c) == active[g][c] # None => active[g][c].buf = <<>>
Initiated(g, c) == /\ active[g][c].qd = qds[g][c]
                   /\ ~established[g][c].tracked

-----------------------------------------------------------------------------
(* What a migration entry, and the state of a connection, say of each      *)
(* other and of the host the client's packets go to.                       *)
Entries(c) ==
    \A g \in Hosts :
        /\ Stage(g, c) = "Prepare" => InTable(c, g) /\ Initiated(g, c)
        /\ Stage(g, c) = "PrepareAck" => owner[c] = g
        /\ Stage(g, c) = "ConnStateAck" => owner[c] = g /\ Waits(g, c)
        /\ Stage(g, c) = "ConnState" => owner[c] # g /\ Quiet(g, c)
        /\ InTable(c, g) =>
              /\ Stage(g, c) \in {"Idle", "Prepare"} /\ Quiet(g, c)
              /\ \/ owner[c] = g
                 \/ Stage(g, c) = "Prepare" /\ Stage(owner[c], c) = "PrepareAck"
        /\ Waits(g, c) => /\ owner[c] = g
                          /\ Stage(g, c) = "ConnStateAck" \/ NoEntries(c)
        /\ Hands(g, c) => owner[c] = g /\ NoEntries(c)

(* A message arrives at an entry that waits for it.  A PREPARE may reach a *)
(* former origin, but then behind the acknowledgement that ends its old    *)
(* migration; the client's segments reach a host that is not the owner     *)
(* only ahead of the PREPARE_ACK that takes the connection away from it.   *)
PrepareFits(g, i, c) ==
    /\ Stage(From(g, i), c) = "Prepare"
    /\ \/ g = From(g, i)
       \/ Stage(g, c) = "Idle"
       \/ /\ Stage(g, c) = "ConnState"
          /\ \E j \in Nat : j < i /\ Msg(g, j, c, "CONN_STATE_ACK")

PrepareAckFits(g, i, c) ==
    /\ Stage(g, c) = "Prepare"
    /\ owner[c] = From(g, i) /\ Stage(From(g, i), c) = "PrepareAck"
    /\ \A j \in Nat : Msg(g, j, c, "DATA") => j < i

ConnStateFits(g, i, c) ==
    /\ Stage(g, c) = "PrepareAck"
    /\ Stage(From(g, i), c) = "ConnState"
    /\ \A j \in Nat : ~Msg(From(g, i), j, c, "CONN_STATE_ACK")

DataFits(g, c) == \/ owner[c] = g
                  \/ InTable(c, g) /\ \E j \in Nat : Msg(g, j, c, "PREPARE_ACK")

Answers(c) ==
    \A g \in Hosts, i \in Nat :
        /\ Msg(g, i, c, "PREPARE") => PrepareFits(g, i, c)
        /\ Msg(g, i, c, "PREPARE_ACK") => PrepareAckFits(g, i, c)
        /\ Msg(g, i, c, "CONN_STATE") => ConnStateFits(g, i, c)
        /\ Msg(g, i, c, "CONN_STATE_ACK") => Stage(g, c) = "ConnState"
        /\ Msg(g, i, c, "SYN") => owner[c] = g
        /\ Msg(g, i, c, "DATA") => DataFits(g, c)

(* One migration of a connection is under way at a time, apart from the    *)
(* acknowledgements that end earlier ones, one for each former origin.     *)
Current(g, i, c) == \E type \in {"PREPARE", "PREPARE_ACK", "CONN_STATE"} :
                        Msg(g, i, c, type)
Final(g, i, c) == Msg(g, i, c, "CONN_STATE_ACK")
OneAnswer(c) ==
    \A g, h \in Hosts, i, j \in Nat :
        /\ Current(g, i, c) /\ Current(h, j, c) => g = h /\ i = j
        /\ Final(g, i, c) /\ Final(g, j, c) => i = j

(* Every entry that waits for a message will get it, and the connection it *)
(* is about is somewhere.                                                  *)
Somewhere(c) == \E g \in Hosts : \/ InTable(c, g) \/ Waits(g, c)
                                 \/ \E i \in Nat : Msg(g, i, c, "CONN_STATE")
Awaited(c) ==
    \A g \in Hosts :
        /\ Stage(g, c) = "PrepareAck" =>
              \E h \in Hosts, i \in Nat : \/ Msg(h, i, c, "PREPARE_ACK")
                                          \/ Msg(h, i, c, "CONN_STATE")
        /\ Stage(g, c) = "ConnState" =>
              \/ \E h \in Hosts, i \in Nat : /\ Msg(h, i, c, "CONN_STATE")
                                             /\ From(h, i) = g
              \/ \E i \in Nat : Msg(g, i, c, "CONN_STATE_ACK")
        /\ Stage(g, c) # "Idle" => Somewhere(c)

Protocol(c) == Entries(c) /\ Answers(c) /\ OneAnswer(c) /\ Awaited(c)

ProtocolInv ==
    /\ OwnerInv /\ TablesHold /\ NoAbort
    /\ \A c \in Clients : Protocol(c)
-----------------------------------------------------------------------------
(* Messages in the queues, before and after a step. *)

(* Where the i-th packet of g's queue was, if (consumed) h read its head.  *)
Old(consumed, h, g, i) == IF consumed /\ g = h THEN i + 1 ELSE i

(* Every message was there before ... *)
Stays(consumed, h, g, i, c, type) ==
    /\ i > 0 /\ Msg(g, Old(consumed, h, g, i), c, type)
    /\ From(g, i)' = From(g, Old(consumed, h, g, i))

Drains(consumed, h) ==
    \A g \in Hosts, i \in Nat : \A c, type :
        /\ Msg(g, i, c, type)' => Stays(consumed, h, g, i, c, type)
        /\ i > 0 /\ Msg(g, Old(consumed, h, g, i), c, type) =>
                Msg(g, i, c, type)'

(* ... or is p, now the last, n-th one of t's queue. *)
Sends(consumed, h, t, n, p) ==
    /\ n \in Nat /\ Msg(t, n, p.client, p.type)' /\ From(t, n)' = p.src
    /\ \A g \in Hosts, i \in Nat : \A c, type :
        /\ Msg(g, i, c, type)' =>
                \/ Stays(consumed, h, g, i, c, type)
                \/ g = t /\ i = n /\ c = p.client /\ type = p.type
        /\ i > 0 /\ Msg(g, Old(consumed, h, g, i), c, type) =>
                Msg(g, i, c, type)' /\ (g = t => i < n)

-----------------------------------------------------------------------------
(* A step that leaves the migrations of a connection alone. *)

(* Entries, tables and messages of connection d are what they were, but    *)
(* for segments: some may have been read, and new ones sent to the owner.  *)
Undisturbed(d, consumed, h) ==
    /\ owner'[d] = owner[d]
    /\ consumed => \A type \in TcpMigTypes : ~Msg(h, 1, d, type)
    /\ \A g \in Hosts :
        /\ Stage(g, d)' = Stage(g, d)
        /\ InTable(d, g)' <=> InTable(d, g)
        /\ Waits(g, d) => Waits(g, d)'
        /\ Waits(g, d)' => Waits(g, d) \/ Hands(g, d)
        /\ Hands(g, d)' => Hands(g, d) \/ (owner[d] = g /\ NoEntries(d))
        /\ Quiet(g, d) /\ Stage(g, d) \notin {"PrepareAck", "ConnStateAck"} =>
                Quiet(g, d)'
        /\ Initiated(g, d) /\ Stage(g, d) = "Prepare" => Initiated(g, d)'
    /\ \A g \in Hosts, i \in Nat : \A type :
        /\ Msg(g, i, d, type)' =>
                \/ Stays(consumed, h, g, i, d, type)
                \/ type \in {"SYN", "DATA"} /\ owner[d] = g
        /\ type \in TcpMigTypes /\ i > 0
                /\ Msg(g, Old(consumed, h, g, i), d, type) => Msg(g, i, d, type)'

-----------------------------------------------------------------------------
(* Steps that leave every migration alone. *)

(* What Undisturbed says of entries and tables, when they stay as they are.*)
SameEntries(d) ==
    \A g \in Hosts :
        /\ active'[g][d] = active[g][d] /\ qds'[g][d] = qds[g][d]
        /\ established'[g][d] # None <=> established[g][d] # None
        /\ established'[g][d].tracked = established[g][d].tracked
        /\ Waits(g, d)' <=> Waits(g, d)
        /\ Hands(g, d)' => Hands(g, d)

-----------------------------------------------------------------------------
(* Steps that take part in a migration. *)

(* The j-th packet of g's queue is the one that h, if (consumed), handled. *)
Handled(consumed, h, g, j) == consumed /\ g = h /\ j = 1

(* Every message about c but the one that was handled is still there.      *)
Survive(consumed, h, c) ==
    \A g \in Hosts, j \in Nat : \A type :
        Msg(g, j, c, type) /\ ~Handled(consumed, h, g, j) =>
            \E i \in Nat : /\ i > 0 /\ j = Old(consumed, h, g, i)
                           /\ Msg(g, i, c, type)' /\ From(g, i)' = From(g, j)

(* Every message about c was there before, and was not the one handled.    *)
Known(consumed, h, g, i, c, type) ==
    /\ i > 0 /\ Old(consumed, h, g, i) \in Nat
    /\ ~Handled(consumed, h, g, Old(consumed, h, g, i))
    /\ Msg(g, Old(consumed, h, g, i), c, type)
    /\ From(g, i)' = From(g, Old(consumed, h, g, i))

(* What a host's tables, queues and entries say of c stays the same.       *)
SameAt(g, c) ==
    /\ Stage(g, c)' = Stage(g, c)
    /\ InTable(c, g)' <=> InTable(c, g)
    /\ Waits(g, c)' <=> Waits(g, c)
    /\ Hands(g, c)' <=> Hands(g, c)
    /\ Quiet(g, c)' <=> Quiet(g, c)
    /\ Initiated(g, c)' <=> Initiated(g, c)

(* h handles the head of its queue. *)
Reads(consumed, h) ==
    \A g \in Hosts, j \in Nat : Handled(consumed, h, g, j) <=> g = h /\ j = 1

-----------------------------------------------------------------------------
(* The actions, one by one. *)

(* A step changes nothing but c's entries on h. *)
ChangesOnly(h, c) ==
    \A g \in Hosts, d \in Clients :
        \/ g = h /\ d = c
        \/ /\ active'[g][d] = active[g][d] /\ qds'[g][d] = qds[g][d]
           /\ established'[g][d] = established[g][d]
           /\ Waits(g, d)' <=> Waits(g, d)
           /\ Hands(g, d)' <=> Hands(g, d)

-----------------------------------------------------------------------------
(***************************************************************************)
(* The data: what a client sent, and what the server received, read and    *)
(* acknowledged, survives every migration; and the protocol as a whole is  *)
(* the hand-over that Handoff describes.                                   *)
(*                                                                         *)
(* The positions of packets and connections in their queues do not matter  *)
(* here: the queues are sets, and the state of a connection is in one of   *)
(* them, or in the tables, once (SingleOwner).                             *)
(***************************************************************************)
Acceptees(h)   == {ready[h][i] : i \in DOMAIN ready[h]}
Buffered(h, c) == {active[h][c].buf[i] : i \in DOMAIN active[h][c].buf}

-----------------------------------------------------------------------------
(* Queues as sets. *)

(* Packets: those of `out' may be gone, those of `in' are new, t's. *)
Flow(out, t, in) ==
    /\ \A g \in Hosts : /\ Packets(g) \subseteq Packets(g)' \cup out
                        /\ Packets(g)' \subseteq Packets(g) \cup in
    /\ in \subseteq Packets(t)'

-----------------------------------------------------------------------------
(* The state of a connection. *)

Entered(g, c, x)  == InTable(c, g) /\ established[g][c] = x
Awaiting(g, c, x) == \E r \in Acceptees(g) : r.client = c /\ r.cb = x
Travels(g, c, x)  == \E p \in Packets(g) : /\ p.client = c /\ p.cb = x
                                           /\ p.type = "CONN_STATE"

Located(c) == \A x : x \in Copies(c) <=>
    \E g \in Hosts : Entered(g, c, x) \/ Awaiting(g, c, x) \/ Travels(g, c, x)

(* Where it is, and that it is there once.                                 *)
OneState(c) ==
    /\ \A g \in Hosts : InTable(c, g) =>
            Copies(c) = {established[g][c]} /\ Place(c) = g
    /\ \A g \in Hosts : \A r \in Acceptees(g) : r.client = c =>
            Copies(c) = {r.cb} /\ Place(c) = "moving"
    /\ \A g \in Hosts : \A p \in Packets(g) :
            p.client = c /\ p.type = "CONN_STATE" =>
                Copies(c) = {p.cb} /\ Place(c) = "moving"
    /\ \A g \in Hosts : Hands(g, c) => Copies(c) = {} /\ Place(c) = "none"
    /\ (\A g \in Hosts : ~InTable(c, g)) =>
            Place(c) = IF Copies(c) = {} THEN "none" ELSE "moving"

-----------------------------------------------------------------------------
(* What each step does to the state of the connections. *)

Same(d)   == Copies(d)' = Copies(d) /\ Place(d)' = Place(d)
Others(c) == \A d \in Clients \ {c} : Same(d)
Becomes(c, x, k, y, l) == /\ Copies(c) = {x} /\ Place(c) = k
                          /\ Copies(c)' = {y} /\ Place(c)' = l

(* No message with the state of d is sent or handled. *)
Still(d) == \E out, t, in : /\ Flow(out, t, in)
                            /\ \A p \in out \cup in :
                                    p.client = d => p.type # "CONN_STATE"

-----------------------------------------------------------------------------
(* The actions, one by one. *)

Rests == \A d \in Clients : Same(d)

Takes(h, c) == \E x \in CB, n \in Segs :
    Becomes(c, x, h, CbReceive(x, n), h) /\ Others(c)

Untracks(h, c) == \E x \in CB :
    Becomes(c, x, h, [x EXCEPT !.tracked = FALSE], h) /\ Others(c)

ReadsNext(h, c) == \E x \in CB :
    /\ x.read + 1 \in x.got
    /\ Becomes(c, x, h, [x EXCEPT !.read = x.read + 1], h) /\ Others(c)

Leaves(h, c) == \E x \in CB :
    Becomes(c, x, h, Serialized(x), "moving") /\ Others(c)

Enters(h, c) == \E x \in CB, buf \in Seq(Segment) :
    /\ Becomes(c, x, "moving", [CbReplay(x, buf) EXCEPT !.tracked = TRUE], h)
    /\ Others(c)

Opens(c) == /\ Copies(c) = {} /\ Place(c) = "none"
            /\ Copies(c)' = {NewCB} /\ Place(c)' = "moving" /\ Others(c)

-----------------------------------------------------------------------------
(* Readers resume where the last one stopped. *)

(* Before its handshake is over nothing of a connection was read.          *)
Unread(c)  == conn[c] # "open" \/ (\E h \in Hosts : Hands(h, c)) => delivered[c] = 0
ReadInv    == OwnerInv /\ ReadsResume /\ \A c \in Clients : Unread(c)
NotYet(c)  == conn[c] # "open" => Copies(c) = {}

-----------------------------------------------------------------------------
(* Nothing a client sent is forgotten. *)

InCopy(c, n)   == \E cb \in Copies(c) : n \in cb.got
InBuf(h, c, n) == active[h][c] # None /\ Data(c, n) \in Buffered(h, c)
Remembered(c, n) ==
    \/ n \in dropped[c] \/ InCopy(c, n)
    \/ \E h \in Hosts : Data(c, n) \in Packets(h) \/ InBuf(h, c, n)

(* The inductive invariant: the protocol, and no segment forgotten. *)
DataInv == ProtocolInv /\ DataConserved

-----------------------------------------------------------------------------
(* The protocol is a hand-over. *)

(* The abstract state changes where the state of one connection does. *)
Places   == [d \in Clients |-> Place(d)]
Datas    == [d \in Clients |-> AckedData(d)]
=============================================================================

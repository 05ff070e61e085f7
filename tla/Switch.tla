-------------------------------- MODULE Switch --------------------------------
(***************************************************************************)
(* The build with the feature capybara-switch: the TCP peer of one host is *)
(* no end point but a load balancer (Inner::receive of that build, and the *)
(* loop InetStack::capybara_switch that feeds it).  A SYN picks the next   *)
(* backend, migration_directory remembers it, and every other segment is   *)
(* sent on by it, with the switch's own address in what the backends send. *)
(*                                                                         *)
(* Clients and backends are addresses.  The directory has no operation     *)
(* that removes an entry, so that a second SYN of one client, sent again   *)
(* because the first was slow or to open another connection, ends the      *)
(* process.  The loop polls nothing but the card: the switch asks for no   *)
(* MAC address, it has those it was configured with and those of hosts     *)
(* that have sent it an ARP message, and none of them expires.  Its four   *)
(* backends are ports of one host; here each has a MAC address of its own. *)
(* The rewriting of checksums is in Wire.                                  *)
(***************************************************************************)
EXTENDS Naturals, Sequences, FiniteSets

CONSTANTS
    Clients,      \* addresses of clients
    Backends,     \* backend_servers, in order
    Vip,        \* the switch's own address, port 10000
    MaxSyns,      \* bound: SYNs a client sends
    Nobody        \* "no entry"

SwitchAssumption ==
    /\ Len(Backends) > 0 /\ MaxSyns \in Nat
    /\ Vip \notin Clients /\ Nobody \notin Clients
    /\ \A i \in DOMAIN Backends : Backends[i] \notin Clients \cup {Vip, Nobody}

VARIABLES
    directory,    \* migration_directory, by client
    turn,         \* BE_IDX, from 1
    macs,         \* backends whose MAC address the ARP cache has
    rx,           \* frames the card holds, in order
    wire,         \* frames the switch has sent
    syns,         \* SYNs each client has sent
    halted        \* "no", or why the process ended

switchVars == <<directory, turn, macs, rx, wire, syns, halted>>

Servers == {Backends[i] : i \in DOMAIN Backends}
Frame(src, dst, syn) == [src |-> src, dst |-> dst, syn |-> syn]

SwitchInit ==
    /\ directory = [c \in Clients |-> Nobody] /\ turn = 1
    /\ macs \in SUBSET Servers
    /\ rx = <<>> /\ wire = {}
    /\ syns = [c \in Clients |-> 0] /\ halted = "no"

-----------------------------------------------------------------------------
(* A frame f, the first of the batch, and what the switch does with it. *)

Transmit(f) == wire' = wire \cup {f} /\ rx' = Tail(rx)
Halt(why)   == halted' = why /\ UNCHANGED <<directory, turn, rx, wire>>

NewConnection(f) ==
    /\ f.syn
    /\ \/ Backends[turn] \notin macs /\ Halt("uncached")
       \/ /\ Backends[turn] \in macs /\ directory[f.src] # Nobody
          /\ Halt("duplicate")
       \/ /\ Backends[turn] \in macs /\ directory[f.src] = Nobody
          /\ directory' = [directory EXCEPT ![f.src] = Backends[turn]]
          /\ turn' = (turn % Len(Backends)) + 1
          /\ Transmit([f EXCEPT !.dst = Backends[turn]])
          /\ UNCHANGED halted

Matches(a) == a \in Clients /\ directory[a] # Nobody
Forward(f) ==
    /\ ~f.syn
    /\ \/ /\ Matches(f.src) /\ ~Matches(f.dst) /\ directory[f.src] \in macs
          /\ Transmit([f EXCEPT !.dst = directory[f.src]])
          /\ UNCHANGED <<directory, turn, halted>>
       \/ /\ Matches(f.src) /\ ~Matches(f.dst) /\ directory[f.src] \notin macs
          /\ Halt("uncached")
       \/ /\ ~Matches(f.src) /\ Matches(f.dst)
          /\ Transmit([f EXCEPT !.src = Vip])
          /\ UNCHANGED <<directory, turn, halted>>
       \/ Matches(f.src) /\ Matches(f.dst) /\ Halt("both match")
       \/ ~Matches(f.src) /\ ~Matches(f.dst) /\ Halt("no match")

SwitchReceive ==
    /\ halted = "no" /\ rx # <<>>
    /\ (NewConnection(Head(rx)) \/ Forward(Head(rx)))
    /\ UNCHANGED <<macs, syns>>

(* An ARP message of a backend, between two frames. *)
LearnMac(b) ==
    /\ halted = "no" /\ b \notin macs
    /\ macs' = macs \cup {b}
    /\ UNCHANGED <<directory, turn, rx, wire, syns, halted>>

-----------------------------------------------------------------------------
(* The hosts around it.  A client speaks after a SYN of its own; a backend *)
(* answers whom it has heard from.                                         *)

Arrives(f) == rx' = Append(rx, f) /\ UNCHANGED <<directory, turn, macs, wire, halted>>
ClientOpens(c) ==
    /\ Len(rx) < 2 /\ syns[c] < MaxSyns
    /\ syns' = [syns EXCEPT ![c] = @ + 1]
    /\ Arrives(Frame(c, Vip, TRUE))
ClientSends(c) ==
    /\ Len(rx) < 2 /\ syns[c] > 0
    /\ Arrives(Frame(c, Vip, FALSE)) /\ UNCHANGED syns
BackendSends(f) ==
    /\ Len(rx) < 2 /\ f.dst \in Servers
    /\ Arrives(Frame(f.dst, f.src, FALSE)) /\ UNCHANGED syns

SwitchNext ==
    \/ SwitchReceive
    \/ \E b \in Servers : LearnMac(b)
    \/ \E c \in Clients : ClientOpens(c) \/ ClientSends(c)
    \/ \E f \in wire : BackendSends(f)

-----------------------------------------------------------------------------
(* All a client ever sends reaches one backend, and only that one answers  *)
(* it, under the switch's address; connections are spread in turn; and of  *)
(* the panics of receive only two are ever met, both by a SYN: that of a   *)
(* client that has sent one before, and that of the next backend whose MAC *)
(* address is not cached; once a connection is in the directory, its       *)
(* frames always find their way (migration_directory, BE_IDX, try_query).  *)
Sticks ==
    /\ \A f, g \in wire : f.src = g.src /\ f.src \in Clients => f.dst = g.dst
    /\ \A f \in wire : f.dst \in Clients =>
           f.src = Vip /\ \E g \in wire : g.src = f.dst /\ g.dst \in Servers
    /\ \A b1, b2 \in Servers :
           Cardinality({c \in Clients : directory[c] = b1})
               <= Cardinality({c \in Clients : directory[c] = b2}) + 1
    /\ halted # "no" =>
           /\ Head(rx).syn
           /\ \/ halted = "duplicate" /\ syns[Head(rx).src] > 1
              \/ halted = "uncached" /\ Backends[turn] \notin macs
=============================================================================

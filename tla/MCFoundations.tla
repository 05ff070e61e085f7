---------------------------- MODULE MCFoundations ----------------------------
(***************************************************************************)
(* What the transport stands on: frames (Wire), the memory they are        *)
(* carried in (DpdkMemory), and the switch that spreads them over backends  *)
(* (Switch).  They share no state, and one of the three runs.               *)
(*                                                                          *)
(* The packets of the model: every kind, every stage of the migration, both *)
(* handshake options and the others, payloads of odd and even length, and   *)
(* two datagrams of an application that begin like control traffic.         *)
(***************************************************************************)
EXTENDS Wire

CONSTANTS
  HeaderMbufs, BodyMbufs, Arcs, Room, InlineBody, MaxBody, InlineSpace, Headers,
  Mss, TxRing, Workers, Me, Sizes, Loads, MaxArrays, MaxFrames, MaxPushes,
  MaxAllocs, MaxStates, Reuses, Echoes, FreesMoved, None,
  Clients, Vip, MaxSyns

VARIABLES mem, arrays, unsent, unacked, rx, recvq, tx, halted, budget

M == INSTANCE DpdkMemory
ASSUME DpdkParameters == M!DpdkAssumption

VARIABLES directory, turn, macs, frontRx, frontTx, syns, ended

MCBackends == <<"backend1", "backend2">>
F == INSTANCE Switch WITH Backends <- MCBackends, Nobody <- None, rx <- frontRx,
                          wire <- frontTx, halted <- ended
ASSUME SwitchParameters == F!SwitchAssumption

VARIABLE part   \* which of the three runs

A == <<10, 0, 1, 8>>
B == <<10, 0, 1, 9>>
C == <<192, 168, 255, 1>>
MCDst == <<1, 2, 3, 4, 5, 6>>
MCSrc == <<8, 9, 10, 11, 12, 13>>
IP == [src |-> A, dst |-> B]

Arps == {[to |-> "arp", op |-> o, sender_mac |-> MCSrc, sender_ip |-> A,
          target_mac |-> MCDst, target_ip |-> C] : o \in {"Request", "Reply"}}

Icmps == {[to |-> "icmp", ip |-> IP, type |-> t, code |-> 0, id |-> 513, seq |-> s]
            : t \in {"EchoRequest", "EchoReply"}, s \in {0, 65535}}
         \cup {[to |-> "icmp", ip |-> IP, type |-> "TimeExceeded", code |-> 1, id |-> 0, seq |-> 0]}

Tcp(flags, opts, data, seq) ==
  [to |-> "tcp", ip |-> IP, src_port |-> 10000, dst_port |-> 80, seq_num |-> seq,
   ack_num |-> <<65535, 65535>>, ns |-> FALSE, flags |-> flags, window_size |-> 4096,
   urgent_pointer |-> 0, options |-> opts, data |-> data]
MssOption == <<"MaximumSegmentSize", 1450>>
Tcps ==
  {Tcp({"syn"}, <<MssOption, <<"WindowScale", 0>>>>, <<>>, <<0, 7>>),
   Tcp({"syn", "ack"}, <<MssOption, <<"WindowScale", 7>>, <<"SackPermitted">>,
                         <<"Timestamp", <<1, 2>>, <<3, 4>>>>>>, <<>>, <<65535, 65535>>),
   Tcp({"ack"}, <<<<"Sack", <<<<0, 9>>, <<0, 12>>>>>>>>, <<>>, <<9, 9>>),
   Tcp({"ack", "psh"}, <<>>, <<1, 2, 255>>, <<0, 0>>),
   [Tcp({"fin", "ack", "urg", "ece", "cwr"}, <<>>, <<0, 128>>, <<1, 1>>) EXCEPT !.ns = TRUE],
   Tcp({"rst"}, <<>>, <<>>, <<0, 0>>)}

Udp(data) == [to |-> "udp", ip |-> IP, src_port |-> 5000, dst_port |-> 53, data |-> data]
Udps == {Udp(<<>>), Udp(<<7>>), Udp(<<0, 1, 2, 3>>),
         Udp(<<202, 254, 222, 173>>), Udp(<<202, 254, 222, 173>> \o [i \in 1..16 |-> i]),
         Udp(<<171, 205, 171, 205, 0, 0, 0, 1, 0, 0, 0, 2>>)}

Mig(stage, next, off, data) ==
  [to |-> "tcpmig", ip |-> IP, src_port |-> 10001, dst_port |-> 10002,
   length |-> 28 + Len(data), origin |-> [ip |-> A, port |-> 80], client |-> [ip |-> C, port |-> 3000],
   fragment_offset |-> off, load |-> off = 0, next_fragment |-> next, stage |-> stage, data |-> data]
Migs == {Mig(s, FALSE, 0, <<>>) : s \in {"Rejected", "PrepareMigration", "PrepareMigrationAck", "ConnectionStateAck"}}
        \cup {Mig("HeartbeatUpdate", FALSE, 0, <<0, 3>>), Mig("HeartbeatResponse", TRUE, 2, <<1, 2, 3>>)}

MCPackets == Arps \cup Icmps \cup Tcps \cup Udps \cup Migs
             \cup {[to |-> "rps", ip |-> IP, sum |-> <<0, 200>>, individual |-> <<0, 100>>]}

Sender0 == [unsent_seq_no |-> <<0, 12>>, send_unacked |-> <<0, 10>>, send_next |-> <<0, 12>>,
            send_window |-> <<0, 4096>>, last_update_seq |-> <<1, 0>>, last_update_ack |-> <<0, 10>>,
            mss |-> <<0, 1450>>, window_scale |-> 3, unacked_queue |-> <<>>, unsent_queue |-> <<>>]
Block(fin, ooo, recv, sender) ==
  [local |-> [ip |-> A, port |-> 80], remote |-> [ip |-> C, port |-> 3000],
   receive_buffer_size |-> <<0, 65535>>, window_scale |-> <<0, 7>>, out_of_order_fin |-> fin,
   out_of_order |-> ooo, reader_next |-> <<1, 2>>, receive_next |-> <<1, 5>>, recv_queue |-> recv,
   sender |-> sender, state |-> "Established", ack_deadline |-> "soon", retransmit_deadline |-> "later"]
Blocks ==
  {Block(<<>>, <<>>, <<>>, Sender0),
   Block(<<<<1, 9>>>>, <<<<<<1, 7>>, <<5, 6>>>>>>, <<<<1>>, <<2, 3>>>>,
         [Sender0 EXCEPT !.unacked_queue = <<<<9, 8>>, <<7>>>>, !.unsent_queue = <<<<4, 4, 4>>, <<>>>>])}
MCConnections ==
  {[cb |-> b, app |-> a, target |-> [ip |-> B, port |-> 10002]] : b \in Blocks,
     a \in {NoApp, Registered(<<>>), Registered(<<42, 0>>), MigratedIn(<<42>>)}}
-----------------------------------------------------------------------------
memVars == <<mem, arrays, unsent, unacked, rx, recvq, tx, halted, budget>>

frontVars == <<directory, turn, macs, frontRx, frontTx, syns, ended>>

PathInit ==
  /\ part \in {"frames", "memory", "switch"}
  /\ Init /\ M!Init /\ F!SwitchInit
  /\ part # "switch" => macs = {}
InFrames == part = "frames" /\ Next /\ UNCHANGED <<part, memVars, frontVars>>
InMemory == part = "memory" /\ M!Next /\ UNCHANGED <<part, vars, frontVars>>
InSwitch == part = "switch" /\ F!SwitchNext /\ UNCHANGED <<part, vars, memVars>>
PathSpec == PathInit /\ [][InFrames \/ InMemory \/ InSwitch]_<<part, vars, memVars, frontVars>>

(* No reference is lost and none is left over, whoever holds the buffer: the *)
(* application, the stack, or the card (Clone, Drop, into_sgarray, transmit).*)
RefsAreHeld == M!RefsAreHeld

(* What is sent is what was pushed, but for the end that clone_sgarray cuts  *)
(* off an array shorter than the room of its mbuf (pop_unsent, transmit); a  *)
(* process gets the packets of its own port only (generate_tcp_flow_rules,   *)
(* receive); and with a switch in front, one backend gets all of a client's, *)
(* and nothing but a SYN can end it (migration_directory, try_query).        *)
SentIsPushed == M!SentIsPushed /\ M!OwnPackets /\ F!Sticks
=============================================================================

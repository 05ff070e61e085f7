-------------------------------- MODULE Wire --------------------------------
(***************************************************************************)
(* Frames: what the stack writes for each kind of packet and what it makes  *)
(* of a frame that arrives -- Ethernet, ARP, IPv4, ICMPv4, TCP, UDP, the     *)
(* TCPMig segments of a migration (with the state of a connection inside)   *)
(* and the switch's load signals -- under a network that changes a byte,    *)
(* cuts a frame short or pads it.  Who gets the frame is decided in          *)
(* InetStack::do_receive and Peer::receive.                                 *)
(*                                                                          *)
(* A packet is a record whose field "to" names the peer it is for; the      *)
(* addresses of hosts are sequences of bytes.                               *)
(***************************************************************************)
EXTENDS StateCodec, FiniteSetsExt

CONSTANTS
  Packets,          \* the packets that are sent
  Connections,      \* control blocks that migrate, each with its application state
  NewBytes,         \* what the network turns a byte into
  Dst, Src          \* hardware addresses: nothing depends on them

VARIABLES
  sent,     \* the packet, or the control block, behind the frame
  wire,     \* the frame
  damage,   \* what the network did to it
  got       \* what the receiver made of it

vars == <<sent, wire, damage, got>>
-----------------------------------------------------------------------------
(* Checksums.  Words are big-endian, an odd last byte counts as a high one.  *)
(* Bytes are added up in runs of 32, which keeps the folds flat.             *)
Weight(i) == IF (i % 2) = 1 THEN 256 ELSE 1
Plus(m, n) == m + n
Sum16(b) ==
  LET Run(k) == SubSeq([i \in DOMAIN b |-> Weight(i) * b[i]], 32 * (k - 1) + 1,
                       IF 32 * k < Len(b) THEN 32 * k ELSE Len(b))
  IN  FoldLeft(LAMBDA s, k : s + FoldLeft(Plus, 0, Run(k)), 0, [k \in 1..((Len(b) + 31) \div 32) |-> k])

Complement(s) == 65535 - (((65535 + s - 1) % 65535) + 1)
PseudoHeader(ip) == Sum16(ip.src) + Sum16(ip.dst)

Ipv4Checksum(hdr) == Complement(Sum16(Slice(hdr, 0, 10)) + Sum16(Slice(hdr, 12, 20)))
IcmpChecksum(hdr, body) ==
  Complement(Sum16(Slice(hdr, 0, 2)) + Sum16(Slice(hdr, 4, 8)) + Sum16(body))
(* Mutant: the sum stops at the fixed part of the header.                    *)
TcpChecksumNoOptions(ip, hdr, data) ==
  Complement(PseudoHeader(ip) + 6 + Len(hdr) + Len(data)
               + Sum16(Slice(hdr, 0, 16)) + Sum16(Slice(hdr, 18, 20)) + Sum16(data))
TcpChecksum(ip, hdr, data) ==
  Complement(PseudoHeader(ip) + 6 + Len(hdr) + Len(data)
               + Sum16(Slice(hdr, 0, 16)) + Sum16(Adjusted(hdr, 18)) + Sum16(data))
UdpChecksum(ip, hdr, data) ==
  Complement(PseudoHeader(ip) + 17 + Len(hdr) + Len(data) + Sum16(Slice(hdr, 0, 6)) + Sum16(data))
(* The migration's own: the sum that wraps, negated.                         *)
MigChecksum(ip, hdr, data) ==
  (65536 - ((PseudoHeader(ip) + Sum16(Slice(hdr, 0, 6)) + Sum16(Adjusted(hdr, 8)) + Sum16(data)) % 65536))
    % 65536
-----------------------------------------------------------------------------
(* Headers as they are written.                                              *)
ETHERTYPE_ARP  == 2054
ETHERTYPE_IPV4 == 2048
ETHERTYPE_IPV6 == 34525
EthernetBytes(type) == Dst \o Src \o U16(type)

ArpBytes(p) ==
  U16(1) \o U16(ETHERTYPE_IPV4) \o <<6, 4>> \o U16(IF p.op = "Request" THEN 1 ELSE 2)
    \o p.sender_mac \o p.sender_ip \o p.target_mac \o p.target_ip

Protocol == [icmp |-> 1, tcp |-> 6, udp |-> 17, tcpmig |-> 17, rps |-> 17]
Ipv4Bytes(ip, protocol, payload_len) ==
  LET hdr(checksum) == <<69, 0>> \o U16(20 + payload_len) \o U16(0) \o U16(2 * 8192)
                         \o <<255, protocol>> \o U16(checksum) \o ip.src \o ip.dst
  IN hdr(Ipv4Checksum(hdr(0)))

IcmpTypes == [EchoReply |-> 0, DestinationUnreachable |-> 3, SourceQuench |-> 4,
              RedirectMessage |-> 5, EchoRequest |-> 8, RouterAdvertisement |-> 9,
              RouterSolicitation |-> 10, TimeExceeded |-> 11, BadIpHeader |-> 12,
              Timestamp |-> 13, TimestampReply |-> 14]
IcmpBytes(p) ==
  LET hdr(checksum) == <<IcmpTypes[p.type], p.code>> \o U16(checksum) \o U16(p.id) \o U16(p.seq)
  IN hdr(IcmpChecksum(hdr(0), <<>>))

TcpFlags == <<"fin", "syn", "rst", "psh", "ack", "urg", "ece", "cwr">>
FlagByte(flags) == FoldLeft(LAMBDA n, i : n + (IF TcpFlags[i] \in flags THEN 2 ^ (i - 1) ELSE 0),
                            0, [i \in 1..8 |-> i])

(* An option is its kind followed by its values.                             *)
OptBytes(o) ==
  CASE o[1] = "MaximumSegmentSize"  -> <<2, 4>> \o U16(o[2])
    [] o[1] = "WindowScale"         -> <<3, 3, o[2]>>
    [] o[1] = "SackPermitted"       -> <<4, 2>>
    [] o[1] = "Sack"                -> <<5, 2 + 4 * Len(o[2])>> \o FlattenSeq([i \in DOMAIN o[2] |-> U32(o[2][i])])
    [] o[1] = "Timestamp"           -> <<8, 10>> \o U32(o[2]) \o U32(o[3])

OptionsEnd(options) == IF options = <<>> THEN <<>> ELSE <<0>>
Rounded(n) == ((n + 3) \div 4) * 4
TcpHeaderSize(p) == Rounded(20 + Len(FlattenSeq([i \in DOMAIN p.options |-> OptBytes(p.options[i])]))
                               + Len(OptionsEnd(p.options)))
TcpHeaderBytes(p) ==
  LET size == TcpHeaderSize(p)
      opts == FlattenSeq([i \in DOMAIN p.options |-> OptBytes(p.options[i])]) \o OptionsEnd(p.options)
      hdr(checksum) ==
        U16(p.src_port) \o U16(p.dst_port) \o U32(p.seq_num) \o U32(p.ack_num)
          \o <<16 * ((size \div 4) % 16) + (IF p.ns THEN 1 ELSE 0), FlagByte(p.flags)>>
          \o U16(p.window_size) \o U16(checksum) \o U16(p.urgent_pointer)
          \o opts \o Zeros(size - 20 - Len(opts))
  IN hdr(TcpChecksum(p.ip, hdr(0), p.data))

UdpBytes(p) ==
  LET hdr(checksum) == U16(p.src_port) \o U16(p.dst_port) \o U16(8 + Len(p.data)) \o U16(checksum)
  IN hdr(UdpChecksum(p.ip, hdr(0), p.data))

MAGIC_NUMBER         == <<51966, 57005>>          \* 0xCAFEDEAD
RPS_SIGNAL_SIGNATURE == <<43981, 43981>>          \* 0xABCDABCD
Stages == [None |-> 0, Rejected |-> 1, PrepareMigration |-> 2, PrepareMigrationAck |-> 3,
           ConnectionState |-> 4, ConnectionStateAck |-> 5,
           HeartbeatUpdate |-> 12, HeartbeatResponse |-> 13]
MigBytes(p) ==
  LET flag(b, w) == IF b THEN w ELSE 0
      hdr(checksum) ==
        U16(p.src_port) \o U16(p.dst_port) \o U16(p.length) \o U16(checksum) \o U32(MAGIC_NUMBER)
          \o p.origin.ip \o U16(p.origin.port) \o p.client.ip \o U16(p.client.port)
          \o U16(p.fragment_offset)
          \o <<flag(p.load, 1) + flag(p.next_fragment, 2) + 16 * Stages[p.stage], 0>>
  IN hdr(MigChecksum(p.ip, hdr(0), p.data))

(* A signal is made by the switch.                                           *)
RpsBytes(p) == U16(0) \o U16(0) \o U16(20) \o U16(0) \o U32(RPS_SIGNAL_SIGNATURE)
                 \o U32(p.sum) \o U32(p.individual)
-----------------------------------------------------------------------------
(* A whole frame.  DPDKRuntime::transmit pads to 46 bytes.                   *)
Segment(p) == CASE p.to = "icmp"   -> IcmpBytes(p)
                [] p.to = "tcp"    -> TcpHeaderBytes(p) \o p.data
                [] p.to = "udp"    -> UdpBytes(p) \o p.data
                [] p.to = "tcpmig" -> MigBytes(p) \o p.data
                [] p.to = "rps"    -> RpsBytes(p)

Transmitted(frame) == frame \o Zeros(IF Len(frame) < 46 THEN 46 - Len(frame) ELSE 0)

Frame(p) ==
  IF p.to = "arp" THEN Transmitted(EthernetBytes(ETHERTYPE_ARP) \o ArpBytes(p))
  ELSE Transmitted(EthernetBytes(ETHERTYPE_IPV4)
                     \o Ipv4Bytes(p.ip, Protocol[p.to], Len(Segment(p))) \o Segment(p))
-----------------------------------------------------------------------------
(* Headers as they are read.                                                 *)
Dropped == [to |-> "nobody"]

ParseArp(b) ==
  IF \/ Len(b) < 28
     \/ At16(b, 0) # 1 \/ At16(b, 2) # ETHERTYPE_IPV4 \/ b[5] # 6 \/ b[6] # 4
     \/ At16(b, 6) \notin {1, 2}
  THEN Dropped
  ELSE [to |-> "arp", op |-> IF At16(b, 6) = 1 THEN "Request" ELSE "Reply",
        sender_mac |-> Slice(b, 8, 14), sender_ip |-> Slice(b, 14, 18),
        target_mac |-> Slice(b, 18, 24), target_ip |-> Slice(b, 24, 28)]

NameOf(table, v) == CHOOSE n \in DOMAIN table : table[n] = v
Codes(table) == {table[n] : n \in DOMAIN table}

ParseIcmp(ip, b) ==
  IF \/ Len(b) < 8
     \/ At16(b, 2) # IcmpChecksum(Slice(b, 0, 8), Adjusted(b, 8))
     \/ b[1] \notin Codes(IcmpTypes)
  THEN Dropped
  ELSE LET type == NameOf(IcmpTypes, b[1])
           echo == type \in {"EchoRequest", "EchoReply"}
       IN [to |-> "icmp", ip |-> ip, type |-> type, code |-> b[2],
           id |-> IF echo THEN At16(b, 4) ELSE 0, seq |-> IF echo THEN At16(b, 6) ELSE 0]

(* TcpHeader::parse, the options: from offset p on, or an error.             *)
OptLengths == (2 :> {4}) @@ (3 :> {3}) @@ (4 :> {2}) @@ (5 :> {10, 18, 26, 34}) @@ (8 :> {10})
ReadableAt(b, p) ==
  /\ b[p + 1] \in DOMAIN OptLengths
  /\ p + 1 < Len(b)
  /\ b[p + 2] \in OptLengths[b[p + 1]]
  /\ p + b[p + 2] <= Len(b)
OptionAt(b, p) ==
  CASE b[p + 1] = 2 -> <<"MaximumSegmentSize", At16(b, p + 2)>>
    [] b[p + 1] = 3 -> <<"WindowScale", b[p + 3]>>
    [] b[p + 1] = 4 -> <<"SackPermitted">>
    [] b[p + 1] = 5 -> <<"Sack", [i \in 1..((b[p + 2] - 2) \div 4) |-> At32(b, p + 4 * i - 2)]>>
    [] b[p + 1] = 8 -> <<"Timestamp", At32(b, p + 2), At32(b, p + 6)>>

Invalid == <<<<"invalid">>>>
ParseOptions(b) ==
  LET from[p \in 0..Len(b)] ==
        IF p = Len(b) THEN <<>>
        ELSE IF b[p + 1] = 0 THEN <<>>
        ELSE IF b[p + 1] = 1 THEN from[p + 1]
        ELSE IF ~ReadableAt(b, p) THEN Invalid
        ELSE LET rest == from[p + b[p + 2]]
             IN IF rest = Invalid THEN Invalid ELSE <<OptionAt(b, p)>> \o rest
  IN IF from[0] # Invalid /\ Len(from[0]) > 5 THEN Invalid ELSE from[0]

ParseTcp(ip, b) ==
  LET data_offset == 4 * (b[13] \div 16)
      hdr     == Slice(b, 0, data_offset)
      data    == Adjusted(b, data_offset)
      options == ParseOptions(Adjusted(hdr, 20))
  IN IF \/ Len(b) < 20
        \/ Len(b) < data_offset \/ data_offset < 20
        \/ At16(hdr, 16) # TcpChecksum(ip, hdr, data)
        \/ options = Invalid
     THEN Dropped
     ELSE [to |-> "tcp", ip |-> ip, src_port |-> At16(hdr, 0), dst_port |-> At16(hdr, 2),
           seq_num |-> At32(hdr, 4), ack_num |-> At32(hdr, 8), ns |-> hdr[13] % 2 = 1,
           flags |-> {TcpFlags[i] : i \in {j \in 1..8 : (hdr[14] \div 2 ^ (j - 1)) % 2 = 1}},
           window_size |-> At16(hdr, 14), urgent_pointer |-> At16(hdr, 18),
           options |-> options, data |-> data]

ParseUdp(ip, b) ==
  IF \/ Len(b) < 8
     \/ At16(b, 4) # Len(b)
     \/ At16(b, 6) # 0 /\ At16(b, 6) # UdpChecksum(ip, Slice(b, 0, 8), Adjusted(b, 8))
  THEN Dropped
  ELSE [to |-> "udp", ip |-> ip, src_port |-> At16(b, 0), dst_port |-> At16(b, 2), data |-> Adjusted(b, 8)]

IsTcpMig(b)    == Len(b) >= 28 /\ At32(b, 8) = MAGIC_NUMBER
IsRpsSignal(b) == Len(b) >= 20 /\ At32(b, 8) = RPS_SIGNAL_SIGNATURE

ParseMig(ip, b) ==
  IF \/ ~IsTcpMig(b)
     \/ b[27] \div 16 \notin Codes(Stages)
     \/ At16(b, 6) # 0 /\ At16(b, 6) # MigChecksum(ip, Slice(b, 0, 28), Adjusted(b, 28))
  THEN Dropped
  ELSE [to |-> "tcpmig", ip |-> ip, src_port |-> At16(b, 0), dst_port |-> At16(b, 2),
        length |-> At16(b, 4), origin |-> [ip |-> Slice(b, 12, 16), port |-> At16(b, 16)],
        client |-> [ip |-> Slice(b, 18, 22), port |-> At16(b, 22)],
        fragment_offset |-> At16(b, 24), load |-> b[27] % 2 = 1,
        next_fragment |-> (b[27] \div 2) % 2 = 1, stage |-> NameOf(Stages, b[27] \div 16),
        data |-> Adjusted(b, 28)]

ParseRps(ip, b) == [to |-> "rps", ip |-> ip, sum |-> At32(b, 12), individual |-> At32(b, 16)]

(* Ipv4Header::parse: what is left is the datagram without its padding.      *)
BadIpv4(b) ==
  \/ Len(b) < 20
  \/ b[1] \div 16 # 4
  \/ LET hdr_size == 4 * (b[1] % 16)
         flags    == b[7] \div 32
     IN \/ hdr_size < 20 \/ Len(b) < hdr_size
        \/ At16(b, 2) < hdr_size \/ At16(b, 2) > Len(b)
        \/ flags \div 4 = 1 \/ flags % 2 = 1
        \/ At16(b, 6) % 8192 # 0
        \/ b[9] = 0
        \/ b[10] \notin Codes(Protocol)
        \/ At16(b, 10) # Ipv4Checksum(b)

ParseIpv4(b) ==
  LET ip      == [src |-> Slice(b, 12, 16), dst |-> Slice(b, 16, 20)]
      payload == Trimmed(Adjusted(b, 4 * (b[1] % 16)), Len(b) - At16(b, 2))
  IN IF BadIpv4(b) THEN Dropped
     ELSE CASE b[10] = 1  -> ParseIcmp(ip, payload)
            [] b[10] = 6  -> ParseTcp(ip, payload)
            [] b[10] = 17 -> IF IsTcpMig(payload) THEN ParseMig(ip, payload)
                             ELSE IF IsRpsSignal(payload) THEN ParseRps(ip, payload)
                             ELSE ParseUdp(ip, payload)

Parse(b) ==
  IF Len(b) < 14 THEN Dropped
  ELSE CASE At16(b, 12) = ETHERTYPE_ARP  -> ParseArp(Adjusted(b, 14))
         [] At16(b, 12) = ETHERTYPE_IPV4 -> ParseIpv4(Adjusted(b, 14))
         [] OTHER                        -> Dropped       \* IPv6 is ignored
-----------------------------------------------------------------------------
(* The migration of a connection: its state in one segment.                  *)
StateSegment(c) ==
  LET data == StateBytes(Export(c.cb, c.app))
  IN [to |-> "tcpmig", ip |-> [src |-> c.cb.local.ip, dst |-> c.target.ip],
      src_port |-> c.cb.local.port, dst_port |-> c.target.port, length |-> 28 + Len(data),
      origin |-> c.cb.local, client |-> c.cb.remote, fragment_offset |-> 0, load |-> FALSE,
      next_fragment |-> FALSE, stage |-> "ConnectionState", data |-> data]

Resumed(p) == LET st == ReadState(p.data) IN [cb |-> Import(st), app |-> st.app]

Received(b) ==
  LET p == Parse(b)
  IN IF p.to = "tcpmig" /\ p.stage = "ConnectionState" THEN Resumed(p) ELSE p
-----------------------------------------------------------------------------
Nothing == [to |-> "nothing"]

Send(p) ==
  /\ sent = Nothing
  /\ sent' = p /\ wire' = Frame(p)
  /\ UNCHANGED <<damage, got>>

Migrate(c) ==
  /\ sent = Nothing
  /\ sent' = c /\ wire' = Frame(StateSegment(c))
  /\ got' = IF StateBytes(Export(c.cb, c.app)) = Panic THEN [to |-> "panic"] ELSE Nothing
  /\ UNCHANGED damage

InTransit == sent # Nothing /\ got = Nothing /\ damage = "none"

ChangeByte(i, v) ==
  /\ InTransit /\ wire[i] # v
  /\ wire' = [wire EXCEPT ![i] = v] /\ damage' = "changed"
  /\ UNCHANGED <<sent, got>>

Cut(n) ==
  /\ InTransit
  /\ wire' = SubSeq(wire, 1, n) /\ damage' = "cut"
  /\ UNCHANGED <<sent, got>>

Pad(n) ==
  /\ InTransit
  /\ wire' = wire \o [i \in 1..n |-> 255] /\ damage' = "padded"
  /\ UNCHANGED <<sent, got>>

Receive ==
  /\ sent # Nothing /\ got = Nothing
  /\ got' = Received(wire)
  /\ UNCHANGED <<sent, wire, damage>>

Idle == sent = Nothing /\ wire = <<>> /\ damage = "none" /\ got = Nothing

Done ==
  /\ got # Nothing
  /\ sent' = Nothing /\ wire' = <<>> /\ damage' = "none" /\ got' = Nothing

Init == Idle

Next ==
  \/ \E p \in Packets : Send(p)
  \/ \E c \in Connections : Migrate(c)
  \/ \E i \in DOMAIN wire, v \in NewBytes : ChangeByte(i, v)
  \/ \E n \in 0..(Len(wire) - 1) : Cut(n)
  \/ \E n \in {1, 14} : Pad(n)
  \/ Receive
  \/ Done

Spec == Init /\ [][Next]_vars
-----------------------------------------------------------------------------
IsMigration == sent \in Connections

(* What should come out of the frame of `sent`.                              *)
Expected ==
  IF ~IsMigration THEN sent
  ELSE [cb  |-> [sent.cb EXCEPT !.state = "Established", !.ack_deadline = "none",
                                !.retransmit_deadline = "none"],
        app |-> IF sent.app.kind = "Registered" /\ sent.app.bytes # <<>>
                THEN MigratedIn(sent.app.bytes) ELSE NoApp]

(* Datagrams of applications that the receiver takes for its own control     *)
(* traffic: those whose payload begins with one of the two signatures.       *)
Impersonates == /\ ~IsMigration
                /\ sent.to = "udp"
                /\ Len(sent.data) >= 4
                /\ \/ At32(sent.data, 0) = MAGIC_NUMBER /\ Len(sent.data) >= 20
                   \/ At32(sent.data, 0) = RPS_SIGNAL_SIGNATURE /\ Len(sent.data) >= 12

(* A frame the network left alone, or only padded, reaches the peer it was   *)
(* written for with the fields it was written with; the state of a migrated  *)
(* connection comes out as it went in, except for what a migration does not  *)
(* carry: the serializers and parsers of every header, the TCP options and   *)
(* the queues of the connection agree to the byte.                           *)
Delivered ==
  got # Nothing /\ damage \in {"none", "padded"} /\ ~Impersonates => got = Expected

(* Packets that no checksum protects: ARP, the switch's signals, and any     *)
(* UDP or TCPMig header whose checksum field is zero.                         *)
Unprotected ==
  \/ ~IsMigration /\ sent.to \in {"arp", "rps"}
  \/ Len(wire) >= 42 /\ wire[24] = 17 /\ At16(wire, 40) = 0

(* One byte changed after the hardware addresses, or a frame cut short: the  *)
(* frame is dropped or, when the byte was padding, read as it was written.   *)
(* A changed byte never turns a packet of one kind into one of another.      *)
Caught ==
  got # Nothing /\ damage \in {"changed", "cut"} /\ ~Unprotected /\ ~Impersonates
    => got = Dropped \/ got = Expected
==============================================================================

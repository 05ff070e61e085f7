------------------------------ MODULE StateCodec ------------------------------
(***************************************************************************)
(* The bytes a migrated connection travels in: the buffer accessors of the  *)
(* stack (network byte order), the serializers and deserializers of the     *)
(* state of a TCP connection, and what is left of a control block once it   *)
(* has been taken apart by From<&ControlBlock> and put together again by    *)
(* ControlBlock::from_state (protocols/tcp/peer.rs, mod state;              *)
(* established/ctrlblk.rs and established/sender.rs, mod state).            *)
(*                                                                          *)
(* A byte is a number, a buffer a sequence of bytes, and offsets count from *)
(* 0 as in the code.  A 32-bit value is the pair of its halves, because     *)
(* TLC's integers are 32 bits wide.  A deserializer takes a buffer and      *)
(* returns the value with the rest of the buffer.                           *)
(***************************************************************************)
EXTENDS Integers, Sequences, SequencesExt

U16(v) == <<v \div 256, v % 256>>
U32(w) == U16(w[1]) \o U16(w[2])
Length32(q) == U32(<<0, Len(q)>>)          \* lengths here are below 2^16

Slice(b, i, j)  == SubSeq(b, i + 1, j)
Adjusted(b, n)  == SubSeq(b, n + 1, Len(b))      \* Buffer::adjust
Trimmed(b, n)   == SubSeq(b, 1, Len(b) - n)      \* Buffer::trim
At16(b, i) == 256 * b[i + 1] + b[i + 2]
At32(b, i) == <<At16(b, i), At16(b, i + 2)>>
Zeros(n)   == [i \in 1..n |-> 0]
-----------------------------------------------------------------------------
(* A control block at the time a migration begins.  What a migration        *)
(* carries, the deadlines it does not, and the state, which is not carried  *)
(* either.                                                                   *)
ReceiverOf(cb) == [reader_next |-> cb.reader_next, receive_next |-> cb.receive_next,
                   recv_queue  |-> cb.recv_queue]

Export(cb, app) ==
  [local |-> cb.local, remote |-> cb.remote,
   receive_buffer_size |-> cb.receive_buffer_size, window_scale |-> cb.window_scale,
   out_of_order_fin |-> cb.out_of_order_fin, out_of_order |-> cb.out_of_order,
   receiver |-> ReceiverOf(cb), sender |-> cb.sender, app |-> app]

Import(st) ==
  [local |-> st.local, remote |-> st.remote,
   receive_buffer_size |-> st.receive_buffer_size, window_scale |-> st.window_scale,
   out_of_order_fin |-> st.out_of_order_fin, out_of_order |-> st.out_of_order,
   reader_next |-> st.receiver.reader_next, receive_next |-> st.receiver.receive_next,
   recv_queue |-> st.receiver.recv_queue, sender |-> st.sender,
   state |-> "Established", ack_deadline |-> "none", retransmit_deadline |-> "none"]
-----------------------------------------------------------------------------
(* Serialization.  An Option is a sequence of at most one element.           *)
BufferBytes(b)   == Length32(b) \o b
SeqBytes(n)      == U32(n)
SegmentBytes(s)  == SeqBytes(s[1]) \o BufferBytes(s[2])
DequeBytes(Bytes(_), q) == Length32(q) \o FlattenSeq([i \in DOMAIN q |-> Bytes(q[i])])
OptionBytes(Bytes(_), o) == IF o = <<>> THEN <<0>> ELSE <<1>> \o Bytes(o[1])

ReceiverBytes(r) == U32(r.reader_next) \o U32(r.receive_next) \o DequeBytes(BufferBytes, r.recv_queue)

SenderBytes(s) ==
  U32(s.unsent_seq_no) \o U32(s.send_unacked) \o U32(s.send_next) \o U32(s.send_window)
    \o U32(s.last_update_seq) \o U32(s.last_update_ack) \o U32(s.mss) \o <<s.window_scale>>
    \o DequeBytes(BufferBytes, s.unacked_queue) \o DequeBytes(BufferBytes, s.unsent_queue)

ControlBlockBytes(st) ==
  st.local.ip \o U16(st.local.port) \o st.remote.ip \o U16(st.remote.port)
    \o U32(st.receive_buffer_size) \o U32(st.window_scale)
    \o OptionBytes(SeqBytes, st.out_of_order_fin) \o DequeBytes(SegmentBytes, st.out_of_order)
    \o ReceiverBytes(st.receiver) \o SenderBytes(st.sender)

(* MigratedApplicationState: what the application registered for the         *)
(* connection.  A state that came with an earlier migration and was not      *)
(* taken by the application is not sent on.                                   *)
NoApp          == [kind |-> "None", bytes |-> <<>>]
Registered(b)  == [kind |-> "Registered", bytes |-> b]
MigratedIn(b)  == [kind |-> "MigratedIn", bytes |-> b]
AppBytes(app)  == IF app.kind = "Registered" /\ app.bytes # <<>> THEN <<1>> \o app.bytes ELSE <<0>>
-----------------------------------------------------------------------------
(* The size of the buffer is computed apart from the serializer; writing     *)
(* past its end panics, writing short of it leaves zeros.                     *)
QueueSize(q)    == 4 + FoldLeft(LAMBDA n, b : n + 4 + Len(b), 0, q)
ReceiverSize(r) == 8 + QueueSize(r.recv_queue)
SenderSize(s)   == 29 + QueueSize(s.unacked_queue) + QueueSize(s.unsent_queue)
(* Mutant: the sequence number of an out-of-order segment is not counted.    *)
ControlBlockSizeNoSeq(st) ==
  20 + 1 + 4 * Len(st.out_of_order_fin) + QueueSize([i \in DOMAIN st.out_of_order |-> st.out_of_order[i][2]])
     + ReceiverSize(st.receiver) + SenderSize(st.sender)
ControlBlockSize(st) ==
  20 + 1 + 4 * Len(st.out_of_order_fin)
     + 4 + FoldLeft(LAMBDA n, s : n + 4 + 4 + Len(s[2]), 0, st.out_of_order)
     + ReceiverSize(st.receiver) + SenderSize(st.sender)
StateSize(st) ==
  ControlBlockSize(st) + 1 + (IF st.app.kind = "Registered" THEN Len(st.app.bytes) ELSE 0)

Panic == <<>>

StateBytes(st) ==
  LET written == ControlBlockBytes(st) \o AppBytes(st.app)
      size    == StateSize(st)
  IN IF Len(written) > size THEN Panic ELSE written \o Zeros(size - Len(written))
-----------------------------------------------------------------------------
(* Deserialization.                                                          *)
ReadSeq(b)    == <<At32(b, 0), Adjusted(b, 4)>>
ReadBuffer(b) ==
  LET len == At32(b, 0)[2]
      body == Adjusted(b, 4)
  IN <<Trimmed(body, Len(body) - len), Adjusted(body, len)>>
ReadSegment(b) ==
  LET seq == ReadSeq(b)
      buf == ReadBuffer(seq[2])
  IN <<<<seq[1], buf[1]>>, buf[2]>>

ReadDeque(Read(_), b) ==
  LET size == At32(b, 0)[2]
      deque[k \in 0..size] ==
        IF k = 0 THEN <<<<>>, Adjusted(b, 4)>>
        ELSE LET e == Read(deque[k - 1][2]) IN <<Append(deque[k - 1][1], e[1]), e[2]>>
  IN deque[size]

ReadOption(Read(_), b) ==
  IF b[1] = 0 THEN <<<<>>, Adjusted(b, 1)>>
  ELSE LET e == Read(Adjusted(b, 1)) IN <<<<e[1]>>, e[2]>>

ReadReceiver(b) ==
  LET q == ReadDeque(ReadBuffer, Adjusted(b, 8))
  IN <<[reader_next |-> At32(b, 0), receive_next |-> At32(b, 4), recv_queue |-> q[1]], q[2]>>

ReadSender(b) ==
  LET unacked == ReadDeque(ReadBuffer, Adjusted(b, 29))
      unsent  == ReadDeque(ReadBuffer, unacked[2])
  IN <<[unsent_seq_no |-> At32(b, 0), send_unacked |-> At32(b, 4), send_next |-> At32(b, 8),
        send_window |-> At32(b, 12), last_update_seq |-> At32(b, 16),
        last_update_ack |-> At32(b, 20), mss |-> At32(b, 24), window_scale |-> b[29],
        unacked_queue |-> unacked[1], unsent_queue |-> unsent[1]], unsent[2]>>

ReadState(b) ==
  LET fin      == ReadOption(ReadSeq, Adjusted(b, 20))
      ooo      == ReadDeque(ReadSegment, fin[2])
      receiver == ReadReceiver(ooo[2])
      sender   == ReadSender(receiver[2])
      rest     == sender[2]
  IN [local |-> [ip |-> Slice(b, 0, 4), port |-> At16(b, 4)],
      remote |-> [ip |-> Slice(b, 6, 10), port |-> At16(b, 10)],
      receive_buffer_size |-> At32(b, 12), window_scale |-> At32(b, 16),
      out_of_order_fin |-> fin[1], out_of_order |-> ooo[1],
      receiver |-> receiver[1], sender |-> sender[1],
      app |-> IF rest[1] = 0 THEN NoApp ELSE MigratedIn(Adjusted(rest, 1))]
==============================================================================

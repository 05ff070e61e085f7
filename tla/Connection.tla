----------------------------- MODULE Connection -----------------------------
(* What both halves of an established connection share (TcpReceiver,       *)
(* TcpSender): the numbers of a stream, and buffers that hold pieces of it. *)
EXTENDS SeqNumber

CONSTANTS
    Isn,            \* sequence number of the first byte
    MaxMigrations,  \* bound: migrations of the connection
    None            \* "no value"

(* The number of a byte of the stream.                                     *)
SeqNo(position) == SeqAdd(Isn, position)

(* A buffer b holds b.len bytes of the stream, the first at position b.at; *)
(* n of them are taken off its front.                                      *)
Adjust(b, n) == [at |-> b.at + n, len |-> b.len - n]
=============================================================================

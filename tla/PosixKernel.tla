---------------------------- MODULE PosixKernel ----------------------------
(***************************************************************************)
(* The kernel under the catnap libOS, as far as catnap uses it: a table of  *)
(* descriptors whose lowest free entry is handed out, and the sockets they  *)
(* name.  Nothing here is code of the repository.  A kernel is a record     *)
(*   file    the socket each descriptor names, or NoSock                    *)
(*   sock    the sockets ever made                                          *)
(* What the remote end of socket s sends is numbered 1, 2, ...: of it, the  *)
(* first sock[s].read have been read.                                       *)
(***************************************************************************)
EXTENDS Integers, Sequences, FiniteSets, FiniteSetsExt

CONSTANTS MaxFds, MaxSocks,    \* bounds: descriptors, and sockets ever made
          Backlog,             \* connections a listening socket queues
          SendRoom             \* bytes the send buffer of a socket takes

ASSUME KernelAssumption == {MaxFds, MaxSocks, Backlog, SendRoom} \subseteq Nat \ {0}

NoSock == 0
Socks == 1..MaxSocks
Fds == 1..MaxFds
NoFd == 0

SocketStates == {"unused", "new", "bound", "listening", "connecting", "answered",
                 "refused", "connected", "reset"}

Unused == [state |-> "unused", typ |-> "stream", queue |-> <<>>, sent |-> 0, read |-> 0, eof |-> FALSE,
           wire |-> <<>>, room |-> SendRoom]

EmptyKernel == [file |-> [f \in Fds |-> NoSock], sock |-> [s \in Socks |-> Unused]]

Least(S) == CHOOSE x \in S : \A y \in S : x <= y
FreeFds(k) == {f \in Fds : k.file[f] = NoSock}
FreshSocks(k) == {s \in Socks : k.sock[s].state = "unused"}
Named(k, f) == k.file[f]
StateOf(k, f) == IF k.file[f] = NoSock THEN "closed" ELSE k.sock[k.file[f]].state
SetState(k, s, state) == [k EXCEPT !.sock[s].state = state]

(* socket(2), bind(2), listen(2), close(2) *)
CanOpen(k) == FreeFds(k) # {} /\ FreshSocks(k) # {}
SysSocket(k, typ) ==
    LET s == Least(FreshSocks(k))
    IN  [SetState(k, s, "new") EXCEPT !.file[Least(FreeFds(k))] = s, !.sock[s].typ = typ]
SysBind(k, f) == SetState(k, Named(k, f), "bound")
SysListen(k, f) == SetState(k, Named(k, f), "listening")
SysClose(k, f) == [k EXCEPT !.file[f] = NoSock]

(* What the non-blocking calls return: EAGAIN and its kin, an error, or the *)
(* value, with the kernel after the call.                                   *)
Again(k) == [kernel |-> k, is |-> "pending", value |-> NoFd]
Error(k) == [kernel |-> k, is |-> "failed", value |-> NoFd]
Ok(k, v) == [kernel |-> k, is |-> "ok", value |-> v]

SysAccept(k, f) ==
    LET s == Named(k, f)
    IN  IF StateOf(k, f) # "listening" THEN Error(k)
        ELSE IF k.sock[s].queue = <<>> THEN Again(k)
        ELSE IF FreeFds(k) = {} THEN Error(k)
        ELSE LET n == Least(FreeFds(k))
             IN  Ok([k EXCEPT !.file[n] = Head(k.sock[s].queue), !.sock[s].queue = Tail(@)], n)

SysConnect(k, f) ==
    LET s == Named(k, f)
    IN  CASE StateOf(k, f) \in {"new", "bound"} -> Again(SetState(k, s, "connecting"))
          [] StateOf(k, f) = "connecting" -> Again(k)
          [] StateOf(k, f) = "answered" -> Ok(SetState(k, s, "connected"), NoFd)
          [] StateOf(k, f) = "refused" -> Error(SetState(k, s, "new"))
          [] OTHER -> Error(k)

(* recvfrom(2): all that is there of a stream, nothing at its end; one     *)
(* datagram.                                                                *)
Receives(k, f) ==
    \/ StateOf(k, f) \in {"connected", "connecting", "answered"}
    \/ StateOf(k, f) \in {"new", "bound"} /\ k.sock[Named(k, f)].typ = "dgram"

SysRecv(k, f) ==
    LET s == Named(k, f)
        c == k.sock[s]
        upto == IF c.typ = "dgram" THEN c.read + 1 ELSE c.sent
    IN  IF ~Receives(k, f) THEN Error(k)
        ELSE IF c.read < c.sent
             THEN Ok([k EXCEPT !.sock[s].read = upto], <<s, c.read + 1, upto>>)
        ELSE IF c.eof THEN Ok(k, <<s, c.sent + 1, c.sent>>)
        ELSE Again(k)

(* send(2): as much of buffer b as there is room for. *)
SysSend(k, f, b) ==
    LET s == Named(k, f)
        n == Least({b.len, k.sock[s].room})
    IN  IF StateOf(k, f) # "connected" THEN Error(k)
        ELSE IF n = 0 THEN Again(k)
        ELSE Ok([k EXCEPT !.sock[s].wire = Append(@, b.id), !.sock[s].room = @ - n], n)

(* sendto(2) of a datagram *)
SysSendTo(k, f, b) ==
    IF StateOf(k, f) \in {"new", "bound"} /\ k.sock[Named(k, f)].typ = "dgram"
    THEN Ok([k EXCEPT !.sock[Named(k, f)].wire = Append(@, b.id)], b.len)
    ELSE Error(k)

(* The remote ends: each operator gives the kernels one of their steps can  *)
(* lead to.  One of them ends its stream or resets it.                      *)
Connects(k) ==
    {[SetState(k, Least(FreshSocks(k)), "connected")
        EXCEPT !.sock[l].queue = Append(@, Least(FreshSocks(k)))] :
        l \in {l \in Socks : /\ k.sock[l].state = "listening"
                             /\ FreshSocks(k) # {}
                             /\ Len(k.sock[l].queue) < Backlog}}

Answers(k) ==
    {SetState(k, s, state) : s \in {s \in Socks : k.sock[s].state = "connecting"},
                             state \in {"answered", "refused"}}

Reachable(c) == \/ c.state = "connected" /\ ~c.eof
                \/ c.state = "bound" /\ c.typ = "dgram"

AllSent(k) == FoldSet(LAMBDA s, n : k.sock[s].sent + n, 0, Socks)

Sends(k, most) ==
    IF AllSent(k) >= most THEN {}
    ELSE {[k EXCEPT !.sock[s].sent = @ + 1] : s \in {s \in Socks : Reachable(k.sock[s])}}

Reads(k) ==
    {[k EXCEPT !.sock[s].room = SendRoom] :
        s \in {s \in Socks : k.sock[s].state = "connected" /\ k.sock[s].room < SendRoom}}

Ends(k) ==
    IF \E s \in Socks : k.sock[s].eof \/ k.sock[s].state = "reset" THEN {}
    ELSE LET live == {s \in Socks : k.sock[s].state = "connected"}
         IN  {[k EXCEPT !.sock[s].eof = TRUE] : s \in live}
             \cup {SetState(k, s, "reset") : s \in live}
=============================================================================

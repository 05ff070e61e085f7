------------------------------ MODULE TcpSender ------------------------------
(***************************************************************************)
(* The send path of one established connection: send() and the two queues  *)
(* (tcp/established/sender.rs), the coroutine that sends what had to wait  *)
(* and probes a closed window (background/sender.rs), the retransmission   *)
(* timer (background/retransmitter.rs), the acknowledgements of the peer   *)
(* (ctrlblk.rs), and what a migration carries over.                        *)
(*                                                                         *)
(* A byte is named by its position in the stream, which the code does not  *)
(* know: it has sequence numbers only.  The peer takes data in order, into *)
(* a buffer of Capacity bytes, and acknowledges every segment; segments    *)
(* and acknowledgements are delayed, reordered and lost.                   *)
(*                                                                         *)
(* There is no congestion control (the default).  Each action is one call  *)
(* of the application, one packet handled, or one poll of a coroutine; the *)
(* sending coroutine can be interrupted where it awaits an address.        *)
(***************************************************************************)
EXTENDS Connection, Sequences, FiniteSets, SequencesExt

CONSTANTS
    Outgoing,       \* bytes the application writes at most
    MaxBuffer,      \* longest buffer it writes at once
    Mss,            \* maximum segment size
    Cutoff,         \* UNSENT_QUEUE_CUTOFF
    Capacity,       \* receive buffer of the peer
    PeerNumbers,    \* sequence numbers its acknowledgement of k may bear
    PeerLags,       \* whether its application may leave data unread
    MaxLoss,        \* bound: segments and acknowledgements lost
    MaxExpiries     \* bound: times the peer's ARP entry is gone

SenderAssumption ==
    /\ Isn \in SeqNumbers
    /\ Outgoing \in Nat /\ MaxBuffer \in Nat /\ Cutoff \in Nat
    /\ Mss \in Nat \ {0} /\ Capacity \in Nat \ {0}
    /\ 2 * (Outgoing + Capacity + MaxMigrations + 2) < Modulus
    /\ MaxLoss \in Nat /\ MaxExpiries \in Nat /\ MaxMigrations \in Nat
    /\ PeerLags \in BOOLEAN
    /\ PeerNumbers \in [0..(Outgoing + 1) -> (SUBSET SeqNumbers) \ {{}}]
    /\ None \notin 0..Outgoing

VARIABLES
    una,        \* send_unacked
    next,       \* send_next
    unsentSeq,  \* unsent_seq_no
    unacked,    \* unacked_queue
    unsent,     \* unsent_queue
    window,     \* send_window
    wl1, wl2,   \* send_window_last_update_seq, send_window_last_update_ack
    timer,      \* whether the retransmission timer runs (retransmit_deadline)
    done,       \* user_is_done_sending
    task,       \* the sending coroutine: where it is, and what it remembers
    sendArp,    \* whether the peer is in the ARP cache
    sendHalted, \* "no", or why the process makes no further step
    (* network and peer *)
    wire,       \* segments on their way
    acks,       \* acknowledgements on their way
    got, gotFin,\* bytes the peer has, and whether it has our FIN
    peerRead,   \* bytes its application has read
    (* history and bounds *)
    written,    \* bytes the application has written
    finAt,      \* position at which a FIN was sent first, or None
    sendEdge,   \* right edge of the window, as last told in an ack that counts
    heeded,     \* whether every window told in such an ack has been taken
    budget

queueVars == <<una, next, unsentSeq, unacked, unsent>>
sendPeerVars == <<got, gotFin, peerRead>>
windowVars == <<window, wl1, wl2, sendEdge, heeded>>
sendVars == <<queueVars, windowVars, timer, done, task, sendArp, sendHalted,
              wire, acks, sendPeerVars, written, finAt, budget>>

-----------------------------------------------------------------------------
(* Data. *)

(* An empty buffer is the end-of-send marker.                              *)
SendBuffers == [at: 0..Outgoing, len: 0..Outgoing]
Take(b, n)   == [b EXCEPT !.len = n]
Span(b)      == IF b.len = 0 THEN 1 ELSE b.len

Segment(seq, b) == [seq |-> seq, buf |-> b, fin |-> b.len = 0]
SendSegments == [seq: SeqNumbers, buf: SendBuffers, fin: BOOLEAN]
Acks         == [seq: SeqNumbers, ack: SeqNumbers, win: 0..Capacity]

(* The sum of the first k of w; the numbers that the first k buffers of a  *)
(* queue take, and the bytes of a queue.                                   *)
Total(w, k) == LET sum[j \in 0..k] == IF j = 0 THEN 0 ELSE sum[j - 1] + w[j]
               IN  sum[k]
Spans(q, k) == Total([j \in DOMAIN q |-> Span(q[j])], k)
Lens(q)     == Total([j \in DOMAIN q |-> q[j].len], Len(q))

(* Where the coroutine is: about to look at the queue ("ready"), waiting   *)
(* for an address in order to probe or to send, probing, or at its end.    *)
Tasks ==      [at: {"ready", "resolveProbe", "ended"}]
         \cup [at: {"resolveSend"}, room: 1..Capacity]
         \cup [at: {"persist"}, probe: SendSegments]
Ready == [at |-> "ready"]

SendRunning == sendHalted = "no"
InFlight    == SeqSub(next, una)

-----------------------------------------------------------------------------
(* Sender::send. *)

(* A segment with buffer b leaves at SND.NXT, for the first time. *)
EmitUntimed(b) ==                  \* mutant: the timer is not started
    /\ wire' = wire \cup {Segment(next, b)}
    /\ next' = SeqAdd(next, Span(b))
    /\ unacked' = Append(unacked, b)
    /\ finAt' = IF b.len = 0 /\ finAt = None THEN b.at ELSE finAt
    /\ UNCHANGED timer
EmitData(b) ==
    /\ wire' = wire \cup {Segment(next, b)}
    /\ next' = SeqAdd(next, Span(b))
    /\ unacked' = Append(unacked, b)
    /\ finAt' = IF b.len = 0 /\ finAt = None THEN b.at ELSE finAt
    /\ timer' = TRUE

(* At once, if nothing waits, the window has room and the peer's address   *)
(* is known; else the buffer is left to the coroutine.                     *)
AtOnceUncounted(b) ==              \* mutant: what is in flight is not counted
    /\ unsent = <<>>
    /\ window > 0 /\ window >= b.len
    /\ sendArp
AtOnce(b) ==
    /\ unsent = <<>>
    /\ window > 0 /\ window >= InFlight + b.len
    /\ sendArp

Full     == Len(unsent) > Cutoff

Send(b) ==
    \/ /\ AtOnce(b)
       /\ EmitData(b)
       /\ unsentSeq' = SeqAdd(unsentSeq, Span(b))
       /\ UNCHANGED unsent
    \/ /\ ~AtOnce(b) /\ ~Full
       /\ unsent' = Append(unsent, b)
       /\ unsentSeq' = SeqAdd(unsentSeq, b.len)
       /\ UNCHANGED <<next, unacked, timer, wire, finAt>>

Write(n) ==
    /\ SendRunning /\ ~done /\ written + n <= Outgoing
    /\ Send([at |-> written, len |-> n])
    /\ written' = written + n
    /\ UNCHANGED <<una, windowVars, done, task, sendArp, sendHalted, acks,
                   sendPeerVars, budget>>

(* close(): an end-of-send marker; "send failed" if it finds no place. *)
CloseSend ==
    /\ SendRunning /\ ~done
    /\ \/ /\ Send([at |-> written, len |-> 0])
          /\ done' = TRUE
          /\ UNCHANGED sendHalted
       \/ /\ Full
          /\ sendHalted' = "panic"
          /\ UNCHANGED <<next, unsentSeq, unacked, unsent, timer, wire,
                         finAt, done>>
    /\ UNCHANGED <<una, windowVars, task, sendArp, acks, sendPeerVars,
                   written, budget>>

-----------------------------------------------------------------------------
(* The coroutine sender(). *)

HasUnsent == next # unsentSeq
HasByte   == unsent # <<>> /\ Head(unsent).len > 0

(* The coroutine finds nothing in the queue although there should be, or   *)
(* takes a byte from an empty buffer: it panics.                           *)
TakeFails ==
    /\ SendRunning /\ task.at \in {"ready", "resolveProbe"} /\ HasUnsent
    /\ ~(IF window = 0 \/ task.at = "resolveProbe" THEN sendArp => HasByte
                                                   ELSE unsent # <<>>)
    /\ sendHalted' = "panic"
    /\ UNCHANGED <<queueVars, windowVars, timer, done, task, sendArp, wire,
                   acks, sendPeerVars, written, finAt, budget>>

(* The window is closed: one byte of the queue is sent as a probe, and is  *)
(* sent again until the window is updated.                                 *)
ProbeAt(q, seq) == Segment(seq, Take(Head(q), 1))

Probe ==
    /\ HasByte
    /\ unsent' = <<Adjust(Head(unsent), 1)>> \o Tail(unsent)
    /\ next' = SeqAdd(next, 1)
    /\ unacked' = Append(unacked, Take(Head(unsent), 1))
    /\ wire' = wire \cup {ProbeAt(unsent, next)}
    /\ task' = [at |-> "persist", probe |-> ProbeAt(unsent, next)]

StartProbe ==
    /\ SendRunning /\ task.at = "ready" /\ HasUnsent /\ window = 0
    /\ \/ sendArp /\ Probe
       \/ /\ ~sendArp
          /\ task' = [at |-> "resolveProbe"]
          /\ UNCHANGED <<next, unacked, unsent, wire>>
    /\ UNCHANGED <<una, unsentSeq, windowVars, timer, done, sendArp,
                   sendHalted, acks, sendPeerVars, written, finAt, budget>>

ResumeProbe ==
    /\ SendRunning /\ task.at = "resolveProbe" /\ sendArp
    /\ Probe
    /\ UNCHANGED <<una, unsentSeq, windowVars, timer, done, sendArp,
                   sendHalted, acks, sendPeerVars, written, finAt, budget>>

RepeatProbe ==
    /\ SendRunning /\ task.at = "persist"
    /\ wire' = wire \cup {task.probe}
    /\ UNCHANGED <<queueVars, windowVars, timer, done, task, sendArp,
                   sendHalted, acks, sendPeerVars, written, finAt, budget>>

(* There is room for the buffer at the front of the queue, and more: what  *)
(* fits in a segment and in the window is sent.  An empty buffer is taken  *)
(* for the end-of-send marker, and asserted to be.                         *)
PopUnsent(room) ==
    LET most == IF room < Mss THEN room ELSE Mss
    IN  Take(Head(unsent), IF Head(unsent).len > most THEN most
                                                      ELSE Head(unsent).len)

SendUnsent(room) ==
    LET b == PopUnsent(room) IN
    /\ EmitData(b)
    /\ unsent' = IF b.len < Head(unsent).len
                   THEN <<Adjust(Head(unsent), b.len)>> \o Tail(unsent)
                   ELSE Tail(unsent)
    /\ sendHalted' = IF b.len = 0 /\ ~done THEN "assert" ELSE sendHalted
    /\ task' = Ready

StartSend ==
    /\ SendRunning /\ task.at = "ready" /\ HasUnsent /\ window > 0
    /\ unsent # <<>> /\ window > InFlight + Head(unsent).len
    /\ \/ sendArp /\ SendUnsent(window - InFlight)
       \/ /\ ~sendArp
          /\ task' = [at |-> "resolveSend", room |-> window - InFlight]
          /\ UNCHANGED <<next, unacked, unsent, timer, wire, finAt,
                         sendHalted>>
    /\ UNCHANGED <<una, unsentSeq, windowVars, done, sendArp, acks,
                   sendPeerVars, written, budget>>

ResumeSend ==
    /\ SendRunning /\ task.at = "resolveSend" /\ sendArp
    /\ SendUnsent(task.room)
    /\ UNCHANGED <<una, unsentSeq, windowVars, done, sendArp, acks,
                   sendPeerVars, written, budget>>

(* The query fails: the error ends the coroutine, and with it the others   *)
(* of the connection (background()).                                       *)
QueryFails ==
    /\ SendRunning /\ task.at \in {"resolveProbe", "resolveSend"} /\ ~sendArp
    /\ task' = [at |-> "ended"]
    /\ UNCHANGED <<queueVars, windowVars, timer, done, sendArp, sendHalted,
                   wire, acks, sendPeerVars, written, finAt, budget>>

(* retransmitter(): the oldest segment is sent again, from SND.UNA.  *)
Retransmit ==
    /\ SendRunning /\ task.at # "ended"
    /\ timer /\ sendArp /\ unacked # <<>>
    /\ wire' = wire \cup {Segment(una, Head(unacked))}
    /\ UNCHANGED <<queueVars, windowVars, timer, done, task, sendArp,
                   sendHalted, acks, sendPeerVars, written, finAt, budget>>

-----------------------------------------------------------------------------
(* Acknowledgements (receive, remove_acknowledged_data).  One that does    *)
(* not acknowledge anything new is ignored, its window included.           *)
RemainingWhole(n) ==               \* mutant: a segment acked in part goes
    LET k == CHOOSE k \in 0..Len(unacked) :
                /\ Spans(unacked, k) >= n
                /\ \A j \in 0..(k - 1) : Spans(unacked, j) < n
    IN  SubSeq(unacked, k + 1, Len(unacked))
Remaining(n) ==
    LET k    == CHOOSE k \in 0..Len(unacked) :
                /\ Spans(unacked, k) <= n
                /\ \A j \in (k + 1)..Len(unacked) : Spans(unacked, j) > n
        part == n - Spans(unacked, k)
        rest == SubSeq(unacked, k + 1, Len(unacked))
    IN  IF part = 0 THEN rest
        ELSE <<Adjust(Head(rest), part)>> \o Tail(rest)

(* update_send_window: the window is taken if the segment is not older     *)
(* than the last one it was taken from.  Sender::new lets both numbers     *)
(* begin with our own initial sequence number, also SND.WL1, which is      *)
(* compared with numbers of the peer: where these come before ours, the    *)
(* window is never taken.                                                  *)
Admitted(a) == \/ SeqLt(wl1, a.seq)
               \/ wl1 = a.seq /\ SeqLe(wl2, a.ack)
UpdateWindow(a) ==
    /\ \/ /\ Admitted(a)
          /\ window' = a.win /\ wl1' = a.seq /\ wl2' = a.ack
          /\ UNCHANGED heeded
       \/ /\ ~Admitted(a)
          /\ heeded' = FALSE
          /\ UNCHANGED <<window, wl1, wl2>>
    /\ sendEdge' = sendEdge + SeqSub(SeqAdd(a.ack, a.win), SeqNo(sendEdge))
RxAck(a) ==
    /\ SendRunning
    /\ acks' = acks \ {a}
    /\ \/ /\ SeqLt(una, a.ack) /\ SeqLe(a.ack, next)
          /\ unacked' = Remaining(SeqSub(a.ack, una))
          /\ una' = a.ack
          /\ UpdateWindow(a)
          /\ timer' = (a.ack # next)
          /\ task' = IF task.at = "persist" THEN Ready ELSE task
       \/ /\ ~(SeqLt(una, a.ack) /\ SeqLe(a.ack, next))
          /\ UNCHANGED <<unacked, una, windowVars, timer, task>>
    /\ UNCHANGED <<next, unsentSeq, unsent, done, sendArp, sendHalted, wire,
                   sendPeerVars, written, finAt, budget>>

-----------------------------------------------------------------------------
(* The connection migrates: SenderState carries both queues, the sequence  *)
(* numbers and the window; the coroutine starts anew, and the timer does   *)
(* not run.                                                                *)
Carried == UNCHANGED <<unacked, unsent>>
MigrateSender ==
    /\ SendRunning /\ ~done /\ budget.migrations > 0
    /\ Carried
    /\ timer' = FALSE
    /\ task' = Ready
    /\ budget' = [budget EXCEPT !.migrations = @ - 1]
    /\ UNCHANGED <<una, next, unsentSeq, windowVars, done, sendArp,
                   sendHalted, wire, acks, sendPeerVars, written, finAt>>

-----------------------------------------------------------------------------
(* Environment. *)

ArpExpire ==
    /\ sendArp /\ budget.expiries > 0
    /\ sendArp' = FALSE
    /\ budget' = [budget EXCEPT !.expiries = @ - 1]
    /\ UNCHANGED <<queueVars, windowVars, timer, done, task, sendHalted,
                   wire, acks, sendPeerVars, written, finAt>>

ArpLearn ==
    /\ ~sendArp /\ sendArp' = TRUE
    /\ UNCHANGED <<queueVars, windowVars, timer, done, task, sendHalted,
                   wire, acks, sendPeerVars, written, finAt, budget>>

LoseSegment(s) ==
    /\ budget.loss > 0
    /\ wire' = wire \ {s}
    /\ budget' = [budget EXCEPT !.loss = @ - 1]
    /\ UNCHANGED <<queueVars, windowVars, timer, done, task, sendArp,
                   sendHalted, acks, sendPeerVars, written, finAt>>

LoseAck(a) ==
    /\ budget.loss > 0
    /\ acks' = acks \ {a}
    /\ budget' = [budget EXCEPT !.loss = @ - 1]
    /\ UNCHANGED <<queueVars, windowVars, timer, done, task, sendArp,
                   sendHalted, wire, sendPeerVars, written, finAt>>

PeerAck(bytes, fin, readTo) ==
    LET win == Capacity - (bytes - readTo)
        k   == IF fin THEN bytes + 1 ELSE bytes
    IN  \E n \in PeerNumbers[k] :
            acks' = acks \cup {[seq |-> n, ack |-> SeqNo(k), win |-> win]}

(* A segment that starts at or before what the peer expects next: what is  *)
(* new in it and fits is taken, or only the first byte of it.  Its         *)
(* application reads at once, unless it lags.                              *)
PeerReceive(s) ==
    LET old  == SeqSub(SeqNo(got), s.seq)
        new  == IF s.buf.len > old THEN s.buf.len - old ELSE 0
        room == Capacity - (got - peerRead)
        most == IF new < room THEN new ELSE room
        fin  == gotFin \/ (s.fin /\ old = 0)
    IN  /\ SeqLe(s.seq, SeqNo(got))
        /\ got' \in {got + n : n \in {most} \cup (1..most \cap {1})}
        /\ gotFin' = fin
        /\ peerRead' \in {got'} \cup (IF PeerLags THEN {peerRead} ELSE {})
        /\ PeerAck(got', fin, peerRead')
        /\ wire' = wire \ {s}
        /\ UNCHANGED <<queueVars, windowVars, timer, done, task, sendArp,
                       sendHalted, written, finAt, budget>>

(* The application of the peer reads; the new window is told. *)
PeerReads ==
    /\ peerRead < got
    /\ peerRead' = got
    /\ PeerAck(got, gotFin, got)
    /\ UNCHANGED <<queueVars, windowVars, timer, done, task, sendArp,
                   sendHalted, wire, got, gotFin, written, finAt, budget>>

-----------------------------------------------------------------------------
SendInit ==
    /\ una = Isn /\ next = Isn /\ unsentSeq = Isn
    /\ unacked = <<>> /\ unsent = <<>>
    /\ window = Capacity /\ wl1 = Isn /\ wl2 = Isn /\ heeded = TRUE
    /\ timer = FALSE /\ done = FALSE
    /\ task = Ready /\ sendArp = TRUE /\ sendHalted = "no"
    /\ wire = {} /\ acks = {}
    /\ got = 0 /\ gotFin = FALSE /\ peerRead = 0
    /\ written = 0 /\ finAt = None /\ sendEdge = Capacity
    /\ budget = [loss |-> MaxLoss, expiries |-> MaxExpiries,
                 migrations |-> MaxMigrations]

Coroutine ==
    \/ StartProbe \/ ResumeProbe \/ RepeatProbe
    \/ StartSend \/ ResumeSend \/ TakeFails

SendNext ==
    \/ \E n \in 1..MaxBuffer : Write(n)
    \/ CloseSend \/ Coroutine \/ QueryFails \/ Retransmit \/ MigrateSender
    \/ \E a \in acks : RxAck(a) \/ LoseAck(a)
    \/ ArpExpire \/ ArpLearn \/ PeerReads
    \/ \E s \in wire : PeerReceive(s) \/ LoseSegment(s)

SendSpec == SendInit /\ [][SendNext]_sendVars

(* The scheduler polls the coroutines when they can go on or their timers  *)
(* expire, packets that are not lost arrive, and the peer reads.  Nobody   *)
(* is obliged to write or to close.                                        *)
SendFairness ==
    /\ WF_sendVars(Coroutine) /\ WF_sendVars(Retransmit)
    /\ WF_sendVars(\E a \in acks : RxAck(a))
    /\ WF_sendVars(\E s \in wire : PeerReceive(s))
    /\ WF_sendVars(PeerReads) /\ WF_sendVars(ArpLearn)

FairSendSpec == SendSpec /\ SendFairness

-----------------------------------------------------------------------------
(* Properties. *)

(* Every part of the sender keeps its shape. *)
SendTypeOK ==
    /\ una \in SeqNumbers /\ next \in SeqNumbers /\ unsentSeq \in SeqNumbers
    /\ unacked \in Seq(SendBuffers) /\ unsent \in Seq(SendBuffers)
    /\ Len(unsent) <= Cutoff + 1
    /\ window \in 0..Capacity /\ wl1 \in SeqNumbers /\ wl2 \in SeqNumbers
    /\ timer \in BOOLEAN /\ done \in BOOLEAN
    /\ task \in Tasks /\ sendArp \in BOOLEAN
    /\ sendHalted \in {"no", "panic", "assert"}
    /\ wire \subseteq SendSegments /\ acks \subseteq Acks
    /\ got \in 0..Outgoing /\ gotFin \in BOOLEAN /\ peerRead \in 0..got
    /\ written \in 0..Outgoing /\ finAt \in 0..Outgoing \cup {None}
    /\ sendEdge \in Nat /\ heeded \in BOOLEAN
    /\ budget \in [loss: 0..MaxLoss, expiries: 0..MaxExpiries,
                   migrations: 0..MaxMigrations]

(* "This buffer is the end-of-send marker. debug_assert!(cb.               *)
(* user_is_done_sending.get())" (background/sender.rs): a FIN leaves only  *)
(* after the application has closed, and after everything it wrote.        *)
FinIsLast == finAt # None => done /\ finAt = written

(* Every segment on its way bears the sequence number of its bytes, also   *)
(* one sent again in part, or from the other host (send, sender,           *)
(* retransmit).                                                            *)
Labelled == \A s \in wire : s.seq = SeqNo(s.buf.at)

(* The two queues hold, in order and without a gap, exactly the bytes that *)
(* were written and are not acknowledged, and the three sequence numbers   *)
(* say where each begins: what is retransmitted from SND.UNA is the front  *)
(* of the queue, whatever was cut off it (remove_acknowledged_data,        *)
(* pop_unsent, pop_one_unsent_byte, SenderState); and what was sent is     *)
(* labelled accordingly.                                                   *)
Queues == unacked \o unsent
QueuesAreStream ==
    FinIsLast =>
        /\ Spans(unacked, Len(unacked)) = InFlight
        /\ finAt = None => Lens(unsent) = SeqSub(unsentSeq, next)
        /\ \A i \in DOMAIN Queues : i > 1 =>
                Queues[i].at = Queues[i - 1].at + Queues[i - 1].len
        /\ Queues # <<>> => /\ SeqNo(Head(Queues).at) = una
                            /\ Last(Queues).at + Last(Queues).len = written
        /\ Labelled

(* On the host that accepted the connection, as long as its coroutines     *)
(* live.                                                                   *)
Migrations == MaxMigrations - budget.migrations
SendHome == Migrations = 0 /\ task.at # "ended"

(* Whatever is not acknowledged will be sent again, by the retransmission  *)
(* timer or as a probe, and the timer stops when nothing is (send, sender, *)
(* receive).                                                               *)
TimerCovers ==
    /\ SendHome /\ unacked # <<>> => timer \/ task.at = "persist"
    /\ timer => unacked # <<>>

(* Nothing is sent beyond the window the peer has told, but for the one    *)
(* byte of a probe or a FIN, and the one byte of the probe that the target *)
(* of a migration starts over: also when the window was read before an     *)
(* address was awaited and used after (sender).  And what is sent is timed *)
(* until it is acknowledged.  This is so while no window has been passed   *)
(* over on account of SND.WL1 (update_send_window); of a peer whose        *)
(* numbers come before ours none is ever taken, and then only this         *)
(* remains: never is more in flight than its whole buffer, and those bytes.*)
WithinWindow ==
    FinIsLast =>
        /\ heeded => SeqLe(next, SeqNo(sendEdge + 1 + Migrations))
        /\ InFlight <= Capacity + 1 + Migrations
        /\ TimerCovers

(* What is written arrives, if buffers are smaller than the window and the *)
(* peer keeps its window open (MaxBuffer < Capacity, ~PeerLags): whatever  *)
(* is lost, taken in part, or had to wait for an address (send, sender,    *)
(* retransmit).                                                            *)
Orderly == SendRunning /\ FinIsLast /\ task.at # "ended"
DataArrived == got = written \/ ~Orderly \/ ~SendHome
=============================================================================

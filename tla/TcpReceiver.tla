----------------------------- MODULE TcpReceiver -----------------------------
(***************************************************************************)
(* The receive path of one established connection (tcp/established/        *)
(* ctrlblk.rs): the acceptance test, trimming, the out-of-order store, FIN,*)
(* the state of the connection, delayed acknowledgements and the reader,   *)
(* on one host or, after a migration, on the next.                         *)
(*                                                                         *)
(* The peer sends Length bytes and a FIN.  It may cut them into segments   *)
(* in any way, differently each time it sends them; the network delays,    *)
(* reorders, duplicates and loses them.  Both are modelled at once: at any *)
(* moment any segment the peer may have sent within the window it was told *)
(* can arrive.  A byte is named by its position in the stream, which the   *)
(* code does not know: it has the sequence number only.                    *)
(*                                                                         *)
(* The host is single threaded; each action is one packet handled, one     *)
(* call of the application, or one poll of a coroutine.                    *)
(***************************************************************************)
EXTENDS Connection, Sequences, FiniteSets, SequencesExt

CONSTANTS
    Length,         \* bytes the peer sends before its FIN
    Window,         \* receive_buffer_size
    MaxSegment,     \* longest segment of the peer
    MaxAge,         \* bound: how far back a late duplicate may reach
    MaxOutOfOrder,  \* MAX_OUT_OF_ORDER: entries in the out-of-order store
    MayClose,       \* whether the application closes the connection
    MayReset,       \* whether the peer may reset the connection
    ArpExpires      \* whether the peer's entry in the ARP cache may expire

ReceiverAssumption ==
    /\ Isn \in SeqNumbers
    /\ Length \in Nat /\ MaxSegment \in Nat /\ MaxAge \in Nat
    /\ Window \in Nat /\ Window + MaxSegment + MaxAge < Modulus
    /\ MaxOutOfOrder \in Nat /\ MaxMigrations \in Nat
    /\ None \notin SeqNumbers
    /\ MayClose \in BOOLEAN /\ MayReset \in BOOLEAN /\ ArpExpires \in BOOLEAN

VARIABLES
    readerNext,     \* sequence number of the next byte to be read
    receiveNext,    \* RCV.NXT
    recvQueue,      \* buffers received in order and not yet read
    outOfOrder,     \* the out-of-order store
    outOfOrderFin,  \* sequence number of a FIN received out of order, or None
    state,          \* State
    ourFin,         \* our own FIN: "none", "sent" or "acked"
    ackDeadline,    \* whether the delayed-acknowledgement timer runs
    arp,            \* whether try_query finds the peer in the ARP cache
    halted,         \* "no", or why the process makes no further step
    (* the peer, and history *)
    acked,          \* position up to which the peer got acknowledgements
    edge,           \* right edge of the last window the peer was told
    read,           \* position up to which the application has read
    migrations      \* what is left of the bound

streamVars == <<readerNext, receiveNext, recvQueue, outOfOrder, outOfOrderFin>>
peerVars   == <<acked, edge>>
vars == <<streamVars, state, ourFin, ackDeadline, arp, halted, peerVars, read,
          migrations>>

-----------------------------------------------------------------------------
(* Data. *)

States == {"Established", "FinWait1", "FinWait2", "Closing", "TimeWait",
           "CloseWait", "LastAck", "Closed"}
Receiving == {"Established", "FinWait1", "FinWait2"}

Buffers == [at: 0..Length, len: 0..Length]
Trim(b, n)   == [b EXCEPT !.len = @ - n]

Entries  == [start: SeqNumbers, buf: Buffers]
End(e)   == SeqAdd(e.start, e.buf.len - 1)

(* What the peer can have sent: bytes of the stream that end within the    *)
(* window, or one byte after it (a window probe), its FIN, a mere          *)
(* acknowledgement, or a RST.                                              *)
Segments ==
    {[seq |-> SeqNo(p), buf |-> [at |-> p, len |-> n], fin |-> f, rst |-> r] :
        p \in 0..(Length + 1), n \in 0..MaxSegment,
        f \in BOOLEAN, r \in {FALSE, MayReset}}

Sendable(s) ==
    /\ \/ s.buf.at + s.buf.len <= Length
       \/ s.buf.at = Length + 1 /\ s.buf.len = 0 /\ ~s.fin
    /\ s.buf.at + s.buf.len <= edge + 1
    /\ s.buf.at + MaxAge >= acked
    /\ s.fin => s.buf.at + s.buf.len = Length /\ Length <= edge
    /\ s.rst => s.buf.len = 0 /\ ~s.fin

-----------------------------------------------------------------------------
(* The receive window and the acceptance of segments. *)

Unread      == SeqSub(receiveNext, readerNext)
WindowSize  == Window - Unread
AfterWindow == SeqAdd(receiveNext, WindowSize)

SegLen(s) == s.buf.len + (IF s.fin THEN 1 ELSE 0)
SegEnd(s) == IF SegLen(s) > 0 THEN SeqAdd(s.seq, SegLen(s) - 1) ELSE s.seq

Early(s)  == s.seq # receiveNext /\ SeqLt(s.seq, receiveNext)
Old(s)    == Early(s) /\ SeqLt(SegEnd(s), receiveNext)
Beyond(s) == /\ s.seq # receiveNext /\ ~Early(s)
             /\ SeqLe(AfterWindow, s.seq)
InWindow(s) == ~Old(s) /\ ~Beyond(s)

(* Cut what was received before off the front, and what does not fit in    *)
(* the window off the end.                                                 *)
CutFront(s) ==
    IF Early(s)
      THEN [s EXCEPT !.seq = receiveNext,
                     !.buf = Adjust(@, SeqSub(receiveNext, s.seq))]
      ELSE s

CutEndKeepsFin(s) ==               \* mutant: the FIN beyond the window stays
    LET excess == SeqSub(SegEnd(s), AfterWindow) + 1
    IN  IF SegLen(s) > 0 /\ SeqLe(AfterWindow, SegEnd(s))
          THEN [s EXCEPT !.buf = Trim(@, excess - (IF s.fin THEN 1 ELSE 0))]
          ELSE s
CutEnd(s) ==
    LET excess == SeqSub(SegEnd(s), AfterWindow) + 1
    IN  IF SegLen(s) > 0 /\ SeqLe(AfterWindow, SegEnd(s))
          THEN [s EXCEPT !.fin = FALSE,
                         !.buf = Trim(@, excess - (IF s.fin THEN 1 ELSE 0))]
          ELSE s

Trimmed(s) == CutEnd(CutFront(s))

-----------------------------------------------------------------------------
(* The out-of-order store. *)

(* The new entry (new) is compared with the stored ones from the i-th on.  *)
(* An end overlap is cut off its front, all but the last duplicate byte; a *)
(* front overlap is cut off its end, and the rest goes to the back of the  *)
(* store; a stored entry it encompasses is removed and the search starts   *)
(* again.  p is the search: the store, what is left of the new entry, and  *)
(* the place it has come to, 0 at its end.                                 *)
CutStartFully(new, e) ==           \* mutant: one byte more off the buffer
    LET duplicate == SeqSub(End(e), new.start)
    IN  [start |-> SeqAdd(new.start, duplicate),
         buf |-> Adjust(new.buf, duplicate + 1)]
CutStart(new, e) ==
    LET duplicate == SeqSub(End(e), new.start)
    IN  [start |-> SeqAdd(new.start, duplicate),
         buf |-> Adjust(new.buf, duplicate)]
CutTail(new, e) ==
    [new EXCEPT !.buf = Trim(@, SeqSub(End(new), e.start) + 1)]

Compared(p) ==
    LET e    == p.store[p.i]
        new  == p.new
        Done(store) == [p EXCEPT !.store = store, !.i = 0]
    IN  CASE p.i = 0 -> p
          [] p.i > Len(p.store) -> Done(Append(p.store, new))
          [] OTHER ->
        CASE SeqLt(new.start, e.start) /\ SeqLt(End(new), e.start) ->
                Done(InsertAt(p.store, p.i, new))
          [] SeqLt(new.start, e.start) /\ ~SeqLt(End(new), e.start)
                                       /\ SeqLt(End(e), End(new)) ->
                [p EXCEPT !.store = RemoveAt(@, p.i), !.i = 1]
          [] SeqLt(new.start, e.start) /\ ~SeqLt(End(new), e.start)
                                       /\ ~SeqLt(End(e), End(new)) ->
                Done(Append(p.store, CutTail(new, e)))
          [] ~SeqLt(new.start, e.start) /\ SeqLe(End(new), End(e)) ->
                Done(p.store)
          [] ~SeqLt(new.start, e.start) /\ ~SeqLe(End(new), End(e)) ->
                [p EXCEPT !.new = IF SeqLt(End(e), new.start) THEN new ELSE CutStart(new, e),
                          !.i = @ + 1]

(* An entry is removed at most once, and between two removals the search   *)
(* goes through the store at most once.                                    *)
Steps(store) == (Len(store) + 1) * (Len(store) + 1)
Search(store, new) ==
    LET after[n \in 0..Steps(store)] ==
            IF n = 0 THEN [store |-> store, new |-> new, i |-> 1]
            ELSE Compared(after[n - 1])
    IN  after
Place(store, new) == Search(store, new)[Steps(store)].store

Stored(store, new) ==
    LET placed == Place(store, new)
    IN  SubSeq(placed, 1, IF Len(placed) > MaxOutOfOrder THEN MaxOutOfOrder
                                                         ELSE Len(placed))

(* How many entries at the front of the store follow on from next.         *)
Merges(store, next) ==
    LET From(i) == IF i = 1 THEN next ELSE SeqAdd(End(store[i - 1]), 1)
        Follows == {k \in 0..Len(store) :
                        \A i \in 1..k : store[i].start = From(i)}
    IN  CHOOSE k \in Follows : \A j \in Follows : j <= k

-----------------------------------------------------------------------------
(* Acknowledgements. *)

(* send_ack when RCV.NXT is next: without an address for the peer in the   *)
(* ARP cache nothing is sent, and deadline is what the timer is left at.   *)
AckKeepsTimer(next, deadline) ==   \* mutant: the timer keeps running
    LET position == acked + SeqSub(next, SeqNo(acked))
    IN  /\ acked' = position
        /\ edge' = position + Window - SeqSub(next, readerNext)
        /\ UNCHANGED ackDeadline
Emit(next) ==
    LET position == acked + SeqSub(next, SeqNo(acked))
    IN  /\ acked' = position
        /\ edge' = position + Window - SeqSub(next, readerNext)
        /\ ackDeadline' = FALSE
AckNow(next, deadline) ==
    IF arp THEN Emit(next)
           ELSE ackDeadline' = deadline /\ UNCHANGED peerVars

(* In-order data: start the delayed-acknowledgement timer, or acknowledge  *)
(* at once if it runs already.                                             *)
AckSoon(next) == IF ackDeadline THEN AckNow(next, FALSE)
                                ELSE ackDeadline' = TRUE /\ UNCHANGED peerVars

(* Our FIN is acknowledged by a segment that carries an acknowledgement of *)
(* everything sent (every segment does once the peer has it).              *)
AfterAckSwapped(st, acks) ==       \* mutant: closing states mixed up
    IF ~acks THEN st
    ELSE CASE st = "FinWait1" -> "TimeWait"
           [] st = "Closing"  -> "FinWait2"
           [] st = "LastAck"  -> "Closed"
           [] OTHER           -> st
AfterAck(st, acks) ==
    IF ~acks THEN st
    ELSE CASE st = "FinWait1" -> "FinWait2"
           [] st = "Closing"  -> "TimeWait"
           [] st = "LastAck"  -> "Closed"
           [] OTHER           -> st

AfterFin(st) ==
    CASE st = "Established" -> "CloseWait"
      [] st = "FinWait1"    -> "Closing"
      [] st = "FinWait2"    -> "TimeWait"
      [] OTHER              -> st

AckOfOurFin(acks) ==
    /\ acks => ourFin = "sent"
    /\ ourFin' = IF acks THEN "acked" ELSE ourFin

-----------------------------------------------------------------------------
(* ControlBlock::receive. *)

Running == halted = "no"

(* A segment of which every byte was received before, or that lies beyond  *)
(* the window: acknowledged and dropped.                                   *)
Reject(s) == IF s.rst THEN UNCHANGED <<ackDeadline, acked, edge>>
                      ELSE AckNow(receiveNext, ackDeadline)

ReceiveUnacceptable(s) ==
    /\ ~InWindow(s)
    /\ Reject(s)
    /\ UNCHANGED <<streamVars, state, ourFin, arp, halted, read, migrations>>

ReceiveReset(s) ==
    /\ InWindow(s) /\ s.rst
    /\ state' = "Closed"
    /\ UNCHANGED <<streamVars, ourFin, ackDeadline, arp, halted, peerVars,
                   read, migrations>>

(* Out of order: stored for later, and acknowledged at once. *)
ReceiveOutOfOrder(s) ==
    LET t == Trimmed(s) IN
    /\ InWindow(s) /\ ~s.rst /\ t.seq # receiveNext
    /\ \E acks \in BOOLEAN :
        /\ AckOfOurFin(acks)
        /\ state' = AfterAck(state, acks)
        /\ IF SegLen(t) > 0 /\ AfterAck(state, acks) \in Receiving
             THEN /\ outOfOrderFin' = IF t.fin THEN SegEnd(t) ELSE outOfOrderFin
                  /\ outOfOrder' =
                        IF t.buf.len > 0
                          THEN Stored(outOfOrder,
                                      [start |-> t.seq, buf |-> t.buf])
                          ELSE outOfOrder
                  /\ AckNow(receiveNext, ackDeadline)
             ELSE UNCHANGED <<outOfOrder, outOfOrderFin, ackDeadline, acked,
                              edge>>
    /\ UNCHANGED <<readerNext, receiveNext, recvQueue, arp, halted, read,
                   migrations>>

(* In order: its data, and what follows on from it in the store, is queued *)
(* for the reader (receive_data); a FIN in it, or next after what was in   *)
(* the store, is consumed and acknowledged at once.  t is what is left of  *)
(* the segment, st the state after its acknowledgement, count what merges  *)
(* from the store, next the RCV.NXT that the data of both leads to.        *)
Merged(count) == [i \in 1..count |-> outOfOrder[i].buf]
InOrder(t, st, takes, count, next, fin) ==
    /\ recvQueue' = IF takes THEN recvQueue \o <<t.buf>> \o Merged(count)
                             ELSE recvQueue
    /\ outOfOrder' = SubSeq(outOfOrder, count + 1, Len(outOfOrder))
    /\ \/ /\ fin /\ st # "Closed"
          /\ receiveNext' = SeqAdd(next, 1)
          /\ state' = AfterFin(st)
          /\ AckNow(SeqAdd(next, 1), ackDeadline)
          /\ UNCHANGED halted
       \/ /\ fin /\ st = "Closed"       \* panic!("Bad TCP state")
          /\ receiveNext' = SeqAdd(next, 1)
          /\ halted' = "panic"
          /\ state' = st
          /\ UNCHANGED <<ackDeadline, acked, edge>>
       \/ /\ ~fin /\ takes
          /\ receiveNext' = next
          /\ state' = st
          /\ AckSoon(next)
          /\ UNCHANGED halted
       \/ /\ ~fin /\ ~takes
          /\ receiveNext' = next
          /\ state' = st
          /\ UNCHANGED <<ackDeadline, acked, edge, halted>>

ReceiveInOrder(s) ==
    LET t == Trimmed(s) IN
    /\ InWindow(s) /\ ~s.rst /\ t.seq = receiveNext
    /\ \E acks \in BOOLEAN :
        LET st    == AfterAck(state, acks)
            takes == t.buf.len > 0 /\ st \in Receiving
            after == SeqAdd(receiveNext, t.buf.len)
            count == IF takes THEN Merges(outOfOrder, after) ELSE 0
            next  == CASE ~takes                -> receiveNext
                       [] takes /\ count = 0    -> after
                       [] takes /\ count > 0    ->
                            SeqAdd(End(outOfOrder[count]), 1)
            fin   == t.fin \/ (count > 0 /\ outOfOrderFin = next)
        IN  AckOfOurFin(acks) /\ InOrder(t, st, takes, count, next, fin)
    /\ UNCHANGED <<readerNext, outOfOrderFin, arp, read, migrations>>

Receive(s) ==
    /\ Running /\ Sendable(s)
    /\ \/ ReceiveUnacceptable(s) \/ ReceiveReset(s)
       \/ ReceiveOutOfOrder(s) \/ ReceiveInOrder(s)

-----------------------------------------------------------------------------
(* The application, the coroutines, and the hosts. *)

(* poll_recv on a queue that is not empty. *)
Pop(b) ==
    /\ readerNext' = SeqAdd(readerNext, b.len)
    /\ read' = b.at + b.len
    /\ recvQueue' = Tail(recvQueue)
PollRecv ==
    /\ Running /\ recvQueue # <<>>
    /\ Pop(Head(recvQueue))
    /\ UNCHANGED <<receiveNext, outOfOrder, outOfOrderFin, state, ourFin,
                   ackDeadline, arp, halted, peerVars, migrations>>

(* close(): our FIN is sent, with an acknowledgement of what we received.  *)
AfterOurFin(st) ==
    CASE st = "Established" -> "FinWait1"
      [] st = "CloseWait"   -> "LastAck"
      [] OTHER              -> st
Close ==
    /\ Running /\ MayClose /\ ourFin = "none" /\ arp
    /\ ourFin' = "sent"
    /\ state' = AfterOurFin(state)
    /\ Emit(receiveNext)
    /\ UNCHANGED <<streamVars, arp, halted, read, migrations>>

(* The acknowledger when its timer expires.  If the acknowledgement cannot *)
(* be sent the deadline stays in the past, and the coroutine never yields. *)
AckTimer ==
    /\ Running /\ ackDeadline
    /\ AckNow(receiveNext, ackDeadline)
    /\ halted' = IF arp THEN halted ELSE "spin"
    /\ UNCHANGED <<streamVars, state, ourFin, arp, read, migrations>>

(* The ARP entry of the peer goes (it is older than its time to live when  *)
(* another address is learnt) and comes back (a packet of the peer's).     *)
ArpChange ==
    /\ Running /\ ArpExpires
    /\ arp' = ~arp
    /\ UNCHANGED <<streamVars, state, ourFin, ackDeadline, halted, peerVars,
                   read, migrations>>

(* The connection is serialized at its host (ControlBlockState) and built  *)
(* anew at the next (from_state), which the application has not closed.    *)
CarriedUnread  == UNCHANGED <<outOfOrder, recvQueue>>
FromState      == UNCHANGED <<readerNext, receiveNext>>
Migrate ==
    /\ Running /\ migrations > 0 /\ ourFin = "none"
    /\ CarriedUnread /\ FromState
    /\ state' = "Established"
    /\ ackDeadline' = FALSE
    /\ migrations' = migrations - 1
    /\ UNCHANGED <<outOfOrderFin, ourFin, arp, halted, peerVars, read>>

-----------------------------------------------------------------------------
NewReceiver == readerNext = SeqNo(0) /\ receiveNext = SeqNo(0) /\ recvQueue = <<>>
Init ==
    /\ NewReceiver /\ outOfOrder = <<>> /\ outOfOrderFin = None
    /\ state = "Established" /\ ourFin = "none"
    /\ ackDeadline = FALSE /\ arp = TRUE /\ halted = "no"
    /\ acked = 0 /\ edge = Window /\ read = 0
    /\ migrations = MaxMigrations

Next ==
    \/ \E s \in Segments : Receive(s)
    \/ PollRecv \/ Close \/ AckTimer \/ ArpChange \/ Migrate

Spec == Init /\ [][Next]_vars

(* The peer sends again, until it is acknowledged, the first byte (or the  *)
(* FIN) that is not; the application reads; timers expire.                 *)
Unacked(s) == /\ s.buf.at = acked /\ SegLen(s) > 0 /\ ~s.rst
              /\ s.fin <=> acked = Length
Fairness ==
    /\ WF_vars(\E s \in Segments : Unacked(s) /\ Receive(s))
    /\ WF_vars(PollRecv)
    /\ WF_vars(AckTimer)

FairSpec == Spec /\ Fairness

-----------------------------------------------------------------------------
(* Properties. *)

(* Every part of the control block keeps its shape, and the number of      *)
(* stored segments its bound (MAX_OUT_OF_ORDER).                           *)
TypeOK ==
    /\ readerNext \in SeqNumbers /\ receiveNext \in SeqNumbers
    /\ recvQueue \in Seq(Buffers)
    /\ outOfOrder \in Seq(Entries) /\ Len(outOfOrder) <= MaxOutOfOrder
    /\ outOfOrderFin \in SeqNumbers \cup {None}
    /\ state \in States /\ ourFin \in {"none", "sent", "acked"}
    /\ ackDeadline \in BOOLEAN /\ arp \in BOOLEAN
    /\ halted \in {"no", "panic", "spin"}
    /\ acked \in Nat /\ edge \in Nat /\ read \in 0..Length
    /\ migrations \in 0..MaxMigrations

(* "Contains in-order received (and acknowledged) data ready for the       *)
(* application to read" (Receiver.recv_queue): what was read and what is   *)
(* queued is the stream, every byte once and in its place, however it was  *)
(* cut, reordered and repeated, on however many hosts.                     *)
Held == IF recvQueue = <<>> THEN read
        ELSE Last(recvQueue).at + Last(recvQueue).len
InPlace ==
    \A i \in DOMAIN recvQueue :
        /\ recvQueue[i].len > 0
        /\ recvQueue[i].at = IF i = 1 THEN read
                             ELSE recvQueue[i - 1].at + recvQueue[i - 1].len

(* Nothing is acknowledged that is not held: the peer discards what is     *)
(* acknowledged (receive, send_ack).                                       *)
AckedIsHeld == acked <= Held \/ (Held = Length /\ acked = Length + 1)

(* The unread bytes fit in the receive buffer, so that the subtraction in  *)
(* get_receive_window_size cannot wrap: whatever arrives, at whatever      *)
(* window, the right edge holds for data merged from the store and FIN too.*)
FitsBuffer == Unread <= Window

(* The bytes of a stored segment are those its sequence number says, after *)
(* any number of cuts (store_out_of_order_segment), and it is never empty. *)
StoreLabelled ==
    \A i \in DOMAIN outOfOrder :
        /\ outOfOrder[i].buf.len > 0
        /\ outOfOrder[i].start = SeqNo(outOfOrder[i].buf.at)

(* What is read and queued is the stream, and what is stored is what its   *)
(* sequence number says.                                                   *)
Intact == InPlace /\ StoreLabelled

(* What is acknowledged is held, and what is unread fits in the receive    *)
(* buffer.                                                                 *)
WindowKept == AckedIsHeld /\ FitsBuffer

(* On the host that accepted the connection.                               *)
Home == migrations = MaxMigrations

(* Data received in order and not yet acknowledged has its timer running   *)
(* (receive), "to ensure an ACK gets sent soon".                           *)
AckOwed == Home /\ SeqNo(acked) # receiveNext => ackDeadline

(* "We'll be in either ESTABLISHED or CLOSE_WAIT here (depending upon      *)
(* whether we've received a FIN from our peer yet)" (close): on the host   *)
(* that accepted the connection its state says whether the peer's FIN was  *)
(* received, whichever side closes first and however FINs and              *)
(* acknowledgements cross (receive, emit).                                 *)
FinReceived == receiveNext = SeqNo(Length + 1)
StateFollowsFin ==
    Home /\ state # "Closed" =>
        (FinReceived <=>
            state \in {"CloseWait", "LastAck", "Closing", "TimeWait"})

(* A peer that sends again what is not acknowledged gets all of its data   *)
(* and its FIN through, whatever is left in the out-of-order store.        *)
StreamEnded == read = Length /\ FinReceived

(* "Start the delayed ACK timer to ensure an ACK gets sent soon" (receive).*)
AckIsSent == ~ackDeadline
=============================================================================

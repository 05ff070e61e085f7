----------------------------- MODULE MCTransport -----------------------------
(***************************************************************************)
(* The transport: the receive path of a connection (TcpReceiver), its send *)
(* path (TcpSender), and the state of a connection that crosses the        *)
(* network in fragments (Fragmentation).  They share no state; one of them *)
(* runs, and the others stay as they begin.                                *)
(***************************************************************************)
EXTENDS TcpReceiver, TcpSender

CONSTANTS
  Parts,                                                  \* which may run
  Sizes, MaxFragment, Offsets, MaxLost, MaxDup

VARIABLES
  part,                                                   \* which of them runs
  size, fragments, total, current, currentSize, received, \* Fragmentation
  packets, faults

F == INSTANCE Fragmentation WITH
       MaxLoss <- MaxLost, wire <- packets, budget <- faults

(* What the peer sends meanwhile gives its acknowledgements numbers before *)
(* ours (Isn = 30) or after: all of them before, or one of each now and    *)
(* then, so that windows are passed over, taken, and passed over again.    *)
NumbersBefore == [k \in 0..(Outgoing + 1) |-> {29}]
NumbersMixed  == [k \in 0..(Outgoing + 1) |->
                    IF k = 1 THEN {3, 29} ELSE IF k = 2 THEN {29} ELSE {3}]

ASSUME Parameters ==
  ReceiverAssumption /\ SenderAssumption /\ F!FragmentationAssumption

fragVars == <<size, fragments, total, current, currentSize, received,
              packets, faults>>
allVars == <<part, vars, sendVars, fragVars>>
-----------------------------------------------------------------------------
TransportInit == part \in Parts /\ Init /\ SendInit /\ F!Init

RUnused == <<part, sendVars, fragVars>>
SUnused == <<part, vars, fragVars>>
FUnused == <<part, vars, sendVars>>

TransportNext ==
  \/ part = "receive" /\ Next /\ UNCHANGED RUnused
  \/ part = "send" /\ SendNext /\ UNCHANGED SUnused
  \/ part = "fragments" /\ F!Next /\ UNCHANGED FUnused
TransportSpec == TransportInit /\ [][TransportNext]_allVars

(* What is bound to happen, in each part.                                  *)
Receives(A)  == part = "receive" /\ A /\ UNCHANGED RUnused
Sends(A)     == part = "send" /\ A /\ UNCHANGED SUnused
Fragments(A) == part = "fragments" /\ A /\ UNCHANGED FUnused

(* The fairness is that of the three modules.                              *)
TransportFairness ==
  /\ WF_allVars(Receives(\E s \in Segments : Unacked(s) /\ Receive(s)))
  /\ WF_allVars(Receives(PollRecv)) /\ WF_allVars(Receives(AckTimer))
  /\ WF_allVars(Sends(Coroutine)) /\ WF_allVars(Sends(Retransmit))
  /\ WF_allVars(Sends(\E a \in acks : RxAck(a)))
  /\ WF_allVars(Sends(\E s \in wire : PeerReceive(s)))
  /\ WF_allVars(Sends(PeerReads)) /\ WF_allVars(Sends(ArpLearn))
  /\ WF_allVars(Fragments(\E k \in DOMAIN packets : F!Defragment(k)))
FairTransportSpec == TransportSpec /\ TransportFairness
-----------------------------------------------------------------------------
(* Of the receive path: Intact, WindowKept, StateFollowsFin (TcpReceiver); *)
(* of the send path: QueuesAreStream, WithinWindow (TcpSender).            *)

(* What arrives is what was serialized, and fits (see Fragmentation). *)
Faithful == F!Faithful /\ F!InBounds

(* Streams and states get through: the data and the FIN of a peer that     *)
(* sends them again (see TcpReceiver), what the application writes (see    *)
(* TcpSender), and the fragments of a state none of which is lost (see     *)
(* Fragmentation).                                                         *)
Arrived ==
  CASE part = "receive" -> StreamEnded
    [] part = "send" -> DataArrived
    [] part = "fragments" -> F!StateArrived
EverythingArrives == []<>Arrived

(* What is received is acknowledged soon: the timer runs as long as        *)
(* something is owed, and is not left running (see TcpReceiver).           *)
AckGetsSent == []AckOwed /\ []<>AckIsSent
=============================================================================

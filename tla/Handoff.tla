------------------------------- MODULE Handoff -------------------------------
(***************************************************************************)
(* What live migration promises for each connection, seen from outside:    *)
(* it is served by one host at a time, or is on the move between hosts;    *)
(* the data received so far and the application's position in it survive   *)
(* every move unchanged; a host that takes over may at that moment also    *)
(* take in segments that arrived while the connection was on the move.     *)
(***************************************************************************)
EXTENDS Naturals

CONSTANTS Hosts, Clients, MaxData

VARIABLES place,  \* "none", "moving", or the host that serves the connection
          got,    \* segments received
          read    \* segments the application has read

vars == <<place, got, read>>

Init == /\ place = [c \in Clients |-> "none"]
        /\ got   = [c \in Clients |-> {}]
        /\ read  = [c \in Clients |-> 0]

(* A handshake completes: the connection waits to be accepted. *)
Open(c) == /\ place[c] = "none"
           /\ place' = [place EXCEPT ![c] = "moving"]
           /\ UNCHANGED <<got, read>>

(* Host h takes the connection, with what arrived in the meantime. *)
Settle(c, h) == /\ place[c] = "moving"
                /\ place' = [place EXCEPT ![c] = h]
                /\ \E new \in SUBSET (0..MaxData) :
                        got' = [got EXCEPT ![c] = @ \cup new]
                /\ UNCHANGED read

Receive(c) == /\ place[c] \in Hosts
              /\ \E n \in 0..MaxData : got' = [got EXCEPT ![c] = @ \cup {n}]
              /\ UNCHANGED <<place, read>>

Read(c) == /\ place[c] \in Hosts
           /\ read[c] + 1 \in got[c]
           /\ read' = [read EXCEPT ![c] = @ + 1]
           /\ UNCHANGED <<place, got>>

Depart(c) == /\ place[c] \in Hosts
             /\ place' = [place EXCEPT ![c] = "moving"]
             /\ UNCHANGED <<got, read>>

Next == \E c \in Clients :
            \/ Open(c) \/ Receive(c) \/ Read(c) \/ Depart(c)
            \/ \E h \in Hosts : Settle(c, h)

Spec == Init /\ [][Next]_vars
=============================================================================

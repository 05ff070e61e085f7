------------------------------ MODULE MCTcpMig ------------------------------
(* Instances of TcpMig for TLC. *)
EXTENDS TcpMig, TLC

(* Hosts, clients and descriptors are interchangeable: no action or        *)
(* property names one.  Used for safety only.                              *)
Symmetry == Permutations(Hosts) \cup Permutations(Clients)
                                \cup Permutations(QDs)
=============================================================================

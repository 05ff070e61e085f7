----------------------------- MODULE MCDatagrams -----------------------------
(* Two neighbours, a port under a local and under the wildcard address, an *)
(* ephemeral port, and seven loads that between them bring the coroutines    *)
(* together in pairs; with two sockets CORE_ID is set.                     *)
EXTENDS Datagrams

CONSTANTS a1, a2, host, any, auto, ping1

MCQueries  == ({"udp", "icmp", "tcp"} \cup {ping1}) \X {a1, a2}
MCAddrOf   == [q \in MCQueries |-> q[2]]
MCFallback == [e \in {host, any, auto} |-> IF e = host THEN any ELSE e]

Load(o, d, r, e, p, t) ==
    [opens |-> o, pushes |-> d, arrivals |-> r, echoes |-> e, pings |-> p, tcp |-> t, core |-> o > 1]
MCLoads ==
    {Load(2, 0, 2, 0, 0, FALSE), Load(1, 0, 3, 0, 0, FALSE), Load(1, 3, 0, 0, 0, FALSE),
     Load(1, 2, 0, 0, 0, TRUE), Load(1, 2, 0, 1, 0, FALSE), Load(0, 0, 0, 2, 1, FALSE),
     Load(0, 0, 0, 1, 1, TRUE)}
=============================================================================

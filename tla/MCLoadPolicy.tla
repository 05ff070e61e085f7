---------------------------- MODULE MCLoadPolicy ----------------------------
(* The instance of LoadPolicy that TLC checks. *)
EXTENDS LoadPolicy, TLC

MCAllowances == {None, 1}
MCThresholds == {1}

(* Control blocks are interchangeable: no action or property names one.    *)
Symmetry == Permutations(Conns)
=============================================================================

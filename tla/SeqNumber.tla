------------------------------ MODULE SeqNumber ------------------------------
(***************************************************************************)
(* TCP sequence numbers (tcp/sequence_number.rs): 32-bit integers that     *)
(* wrap around, ordered by the sign of their difference.  The width is a   *)
(* parameter, so that a model can wrap within a short stream.              *)
(***************************************************************************)
EXTENDS Integers

CONSTANT Modulus        \* 2^32 in the code

ASSUME ModulusAssumption == Modulus \in Nat /\ Modulus > 1 /\ Modulus % 2 = 0

SeqNumbers == 0..(Modulus - 1)

SeqAdd(a, b) == (a + b) % Modulus
SeqSub(a, b) == (a - b) % Modulus

(* (a - b) as i32 < 0, and <= 0.  Numbers half the space apart are each    *)
(* less than the other.                                                    *)
SeqLt(a, b) == SeqSub(a, b) >= Modulus \div 2
SeqLe(a, b) == a = b \/ SeqLt(a, b)
=============================================================================

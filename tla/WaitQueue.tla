------------------------------ MODULE WaitQueue ------------------------------
(***************************************************************************)
(* What a watched value promises (runtime/watched.rs): who waits for it is  *)
(* in a queue, leaves it at will from any place, and is woken by the next   *)
(* change with all the others, who came first first.                        *)
(***************************************************************************)
EXTENDS Sequences, SequencesExt

CONSTANT Waiters
VARIABLES queue, woken

Wait(f) == /\ f \notin Range(queue)
           /\ queue' = Append(queue, f)
           /\ UNCHANGED woken
Leave(f) == /\ f \in Range(queue)
            /\ queue' = SelectSeq(queue, LAMBDA g : g # f)
            /\ UNCHANGED woken
WakeAll == /\ woken' = queue
           /\ queue' = <<>>

Init == queue = <<>> /\ woken = <<>>
Next == WakeAll \/ \E f \in Waiters : Wait(f) \/ Leave(f)
Spec == Init /\ [][Next]_<<queue, woken>>
=============================================================================

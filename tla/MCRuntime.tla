----------------------------- MODULE MCRuntime -----------------------------
(***************************************************************************)
(* The event loop (Runtime), on small sets and pages of two slots instead   *)
(* of 64, and two collections the runtime keeps: the ring buffer            *)
(* (RingBuffer) and the waiters of a watched value (WatchedValue).  They    *)
(* share no state; one of the three runs.                                   *)
(***************************************************************************)
EXTENDS RingBuffer, Runtime

CONSTANTS Nodes   \* futures that watch the value

(* Not an assumption of the code: TLC evaluates it, and finds that the pairing *)
(* heap agrees with a set after any seven insertions and removals.           *)
ASSUME HeapAgrees == HeapIsPriorityQueue

ASSUME RingParameters == RingAssumption

VARIABLES list, state, woken
W == INSTANCE WatchedValue

VARIABLE part   \* which of them runs

listVars == <<list, state, woken>>
allVars == <<part, vars, ringVars, listVars>>

AnyInit == part \in {"loop", "ring", "watched"} /\ Init /\ RingInit /\ W!Init

AnyNext ==
  \/ part = "loop" /\ Next /\ UNCHANGED <<part, ringVars, listVars>>
  \/ part = "ring" /\ RingNext /\ UNCHANGED <<part, vars, listVars>>
  \/ part = "watched" /\ W!Next /\ UNCHANGED <<part, vars, ringVars>>

(* The fairness is that of Runtime.                                          *)
LoopGoesOn == part = "loop" /\ EventLoop /\ UNCHANGED <<part, ringVars, listVars>>
ClockGoesOn ==
  part = "loop" /\ AdvanceClock /\ now' > now /\ UNCHANGED <<part, ringVars, listVars>>
AnySpec == /\ AnyInit /\ [][AnyNext]_allVars
           /\ WF_allVars(LoopGoesOn) /\ SF_allVars(ClockGoesOn)

(* Deadlines are met and operations complete: nobody waits for ever for what *)
(* has happened (see Runtime).                                               *)
WaitsEnd == DeadlineIsMet /\ OperationCompletes

(* The waiters of a watched value are a queue (see WatchedValue). *)
IsWaitQueue == W!IsWaitQueue
=============================================================================

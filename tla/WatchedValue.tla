---------------------------- MODULE WatchedValue ----------------------------
(***************************************************************************)
(* A watched value and the futures of the coroutines that watch it          *)
(* (runtime/watched.rs): a future is made, polled, dropped, at any time and *)
(* in any order, and a change completes those that are registered.          *)
(***************************************************************************)
EXTENDS LinkedList

VARIABLES
  list,     \* waiters
  state,    \* WatchState of each future, or "none"
  woken     \* who was woken by the last change, in order

vars == <<list, state, woken>>

Init ==
  /\ list = EmptyList
  /\ state = [f \in Nodes |-> "none"]
  /\ woken = <<>>

(* watch: a future, not registered before it is polled.                      *)
Watch(f) ==
  /\ state[f] = "none"
  /\ state' = [state EXCEPT ![f] = "unregistered"]
  /\ UNCHANGED <<list, woken>>

(* WatchFuture::poll.                                                        *)
Poll(f) ==
  \/ /\ state[f] = "unregistered"
     /\ list' = AddFront(list, f)
     /\ state' = [state EXCEPT ![f] = "registered"]
     /\ UNCHANGED woken
  \/ /\ state[f] = "completed"
     /\ state' = [state EXCEPT ![f] = "polled"]
     /\ UNCHANGED <<list, woken>>

(* modify: every waiter is woken and completed.                              *)
Modify ==
  /\ woken' = Backwards(list)
  /\ list' = ReverseDrained(list)
  /\ state' = [f \in Nodes |-> IF \E k \in DOMAIN woken' : woken'[k] = f
                               THEN "completed" ELSE state[f]]

(* WatchFuture::drop: a registered future takes its node out, and panics if  *)
(* it is not there.                                                          *)
DropLeaves(f) ==                     \* mutant: the node stays in the list
  /\ state[f] # "none"
  /\ state' = [state EXCEPT ![f] = "none"]
  /\ UNCHANGED <<list, woken>>
Drop(f) ==
  /\ state[f] # "none"
  /\ list' = IF state[f] = "registered" /\ IsLinked(list, f) THEN Remove(list, f) ELSE list
  /\ state' = [state EXCEPT ![f] =
                 IF state[f] = "registered" /\ ~IsLinked(list, f) THEN "panicked" ELSE "none"]
  /\ UNCHANGED woken

Next == Modify \/ \E f \in Nodes : Watch(f) \/ Poll(f) \/ Drop(f)
Spec == Init /\ [][Next]_vars
-----------------------------------------------------------------------------
(* The pointers of the list stay those of one queue of waiters, in whatever  *)
(* order futures are polled, dropped from its ends or its middle, and        *)
(* completed: nobody is lost, woken twice or woken for another (add_front,   *)
(* remove, reverse_drain, modify).                                           *)
Waiting == INSTANCE WaitQueue WITH Waiters <- Nodes, queue <- Backwards(list)
IsWaitQueue == Waiting!Spec
=============================================================================

------------------------------ MODULE Scheduler ------------------------------
(***************************************************************************)
(* The data of the single-threaded scheduler (scheduler/): a slab of tasks  *)
(* with a LIFO list of vacant slots, and for each page of PageSize slots    *)
(* the three flag words of a WakerPage.  The operators below are its entry  *)
(* points, on a record                                                      *)
(*   slab       the task in each slot, or NoTask                            *)
(*   vacant     the slots given back, the next one to be used first         *)
(*   fresh      the first slot that never held a task                       *)
(*   notified, completed, dropped    the flags that are set                 *)
(***************************************************************************)
EXTENDS Integers, Sequences, FiniteSets

CONSTANTS NoTask,
          PageSize,     \* WAKER_BIT_LENGTH, 64 in the code
          MaxKeys       \* bound: slots ever used

SchedulerAssumption == PageSize \in Nat \ {0} /\ MaxKeys \in Nat

Keys == 0..(MaxKeys - 1)

PageOf(k) == k \div PageSize
SubPage(k) == k % PageSize
PageKeys(p) == {k \in Keys : PageOf(k) = p}

EmptyScheduler == [slab |-> [k \in Keys |-> NoTask], vacant |-> <<>>, fresh |-> 0,
                   notified |-> {}, completed |-> {}, dropped |-> {}]

Occupied(s) == {k \in Keys : s.slab[k] # NoTask}
Tasks(s) == {s.slab[k] : k \in Occupied(s)}
KeyOf(s, t) == CHOOSE k \in Keys : s.slab[k] = t

Pages(s) == IF s.fresh = 0 THEN 0 ELSE PageOf(s.fresh - 1) + 1

(* PinSlab::insert and WakerPage::initialize: a task starts out notified. *)
NextKey(s) == IF s.vacant = <<>> THEN s.fresh ELSE Head(s.vacant)

HasRoom(s) == NextKey(s) \in Keys

Insert(s, t) ==
    LET k == NextKey(s)
    IN  [slab |-> [s.slab EXCEPT ![k] = t],
         vacant |-> IF s.vacant = <<>> THEN <<>> ELSE Tail(s.vacant),
         fresh |-> IF s.vacant = <<>> THEN s.fresh + 1 ELSE s.fresh,
         notified |-> s.notified \cup {k},
         completed |-> s.completed \ {k},
         dropped |-> s.dropped \ {k}]

(* A waker's wake(): whatever the slot holds now. *)
Notify(s, k) == [s EXCEPT !.notified = @ \cup {k}]

MarkCompleted(s, k) == [s EXCEPT !.completed = @ \cup {k}]

Clear(s, k) == [s EXCEPT !.notified = @ \ {k}, !.completed = @ \ {k}, !.dropped = @ \ {k}]

(* PinSlab::remove and remove_unpin: the slot is the next to be used. *)
Remove(s, k) ==
    IF s.slab[k] = NoTask THEN s
    ELSE [s EXCEPT !.slab[k] = NoTask, !.vacant = <<k>> \o @]

(* Scheduler::take *)
Take(s, k) == Remove(Clear(s, k), k)

DropAtOnce(s, k) == Take(s, k)       \* mutant: the slot is freed within the loop

(* SchedulerHandle::drop: the slot is freed when its page comes to its end. *)
MarkDropped(s, k) == [s EXCEPT !.dropped = @ \cup {k}]

(* take_notified and take_dropped of one page: both words are reset; what   *)
(* is to be polled leaves out the completed and the dropped.                *)
TakenNotified(s, p) == ((s.notified \cap PageKeys(p)) \ s.completed) \ s.dropped
TakenDropped(s, p) == s.dropped \cap PageKeys(p)
TakeFlags(s, p) == [s EXCEPT !.notified = @ \ PageKeys(p), !.dropped = @ \ PageKeys(p)]

(* The end of a page: the dropped slots are emptied, slot 0 of the page     *)
(* excepted, in the order of their bits.                                    *)
Freed(gone) == {k \in gone : SubPage(k) # 0}

FreeDropped(s, gone) ==
    LET free[n \in 0..PageSize] ==
            IF n = 0 THEN s
            ELSE LET ks == {k \in Freed(gone) : SubPage(k) = n - 1}
                 IN  IF ks = {} THEN free[n-1]
                     ELSE LET k == CHOOSE k \in ks : TRUE
                          IN  Clear(Remove(free[n-1], k), k)
    IN  free[PageSize]
=============================================================================

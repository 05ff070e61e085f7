------------------------------- MODULE Runtime -------------------------------
(***************************************************************************)
(* The event loop of one libOS instance: InetStack's wait calls, which run  *)
(* poll_bg_work (receive packets, poll the scheduler, advance the clock)    *)
(* until an operation has completed; the scheduler with its pages, and the  *)
(* two things its coroutines sleep on, the timer queue and watched values.  *)
(*                                                                          *)
(* Tasks are of two kinds.  A connection's background coroutine has the     *)
(* shape of the acknowledger and of the retransmitter: it watches a         *)
(* deadline, sleeps until it changes or passes, and acts when it passes.    *)
(* An operation waits for one event and leaves its waker with the event's   *)
(* source.  The application keeps the token of an operation; the handle of  *)
(* a background coroutine belongs to the connection and is dropped with it. *)
(* The program has one thread: only the coroutine being polled, or else the *)
(* code that runs between two polls of the scheduler, changes anything.     *)
(***************************************************************************)
EXTENDS Scheduler, PairingHeap

CONSTANTS Conns,        \* background coroutines
          Ops,          \* operations of the application
          NoTime,       \* Option::None of a deadline
          MaxTime,      \* bound: the clock stops here
          MaxCalls,     \* bound: effects of the engine and the application on connections
          Rto           \* what a coroutine that acts on its deadline adds to now

ASSUME RuntimeAssumption ==
    /\ SchedulerAssumption
    /\ IsFiniteSet(Conns)
    /\ MaxTime \in Nat /\ Rto \in Nat \ {0}
    /\ Conns \cap Ops = {}
    /\ NoTask \notin Conns \cup Ops
    /\ NoNode \notin Conns
    /\ NoTime \notin Int

VARIABLES
    phase,       \* where poll_bg_work and its caller are
    sched,       \* the scheduler's record
    pass,        \* the loop of Scheduler::poll: page, last page, flags it took
    now,         \* Timer::now
    heap,        \* Timer::heap, a node per connection
    expiry,      \* the expiry of each connection's WaitFuture
    timer,       \* its PollState, or none: no future
    deadline,    \* the watched value of each connection
    watch,       \* the WatchState of its WatchFuture
    held,        \* connections that exist, with the handle of their coroutine
    arrived,     \* operations whose event has happened
    asleep,      \* operations whose waker the event's source holds
    token,       \* the key the application holds for each operation
    calls,       \* effects on connections so far
    collected    \* operations whose result wait has returned

schedVars == <<sched, pass>>
timerVars == <<now, heap, expiry, timer>>
connVars == <<deadline, watch, held, calls>>
opVars == <<arrived, asleep, token, collected>>
vars == <<phase, schedVars, timerVars, connVars, opVars>>

NoKey == -1
Idle == [page |-> 0, last |-> -1, todo |-> {}, gone |-> {}]
Times == 0..(MaxTime + Rto)

Init ==
    /\ phase = "app"
    /\ sched = EmptyScheduler /\ pass = Idle
    /\ now = 0 /\ heap = EmptyHeap(Conns)
    /\ expiry = [c \in Conns |-> 0]
    /\ timer = [c \in Conns |-> "none"]
    /\ deadline = [c \in Conns |-> NoTime]
    /\ watch = [c \in Conns |-> "unregistered"]
    /\ held = {} /\ calls = 0
    /\ arrived = {} /\ asleep = {}
    /\ token = [o \in Ops |-> NoKey]
    /\ collected = {}

TypeOK ==
    /\ phase \in {"app", "receive", "poll", "clock"}
    /\ sched.slab \in [Keys -> Conns \cup Ops \cup {NoTask}]
    /\ sched.notified \cup sched.completed \cup sched.dropped \subseteq Keys
    /\ pass.todo \cup pass.gone \subseteq Keys
    /\ now \in 0..MaxTime
    /\ expiry \in [Conns -> Times]
    /\ timer \in [Conns -> {"none", "registered", "expired"}]
    /\ deadline \in [Conns -> Times \cup {NoTime}]
    /\ watch \in [Conns -> {"unregistered", "registered", "completed"}]
    /\ held \subseteq Conns
    /\ token \in [Ops -> Keys \cup {NoKey}]
    /\ arrived \cup asleep \cup collected \subseteq Ops

-----------------------------------------------------------------------------
(* Watched values and timers *)

(* WatchedValue::modify drains the waiters: each is woken and completed. *)
WokenIfTimed(s, c) ==                \* mutant: who waits without a timer is not woken
    IF watch[c] = "registered" /\ timer[c] = "registered" THEN Notify(s, KeyOf(s, c)) ELSE s
Woken(s, c) == IF watch[c] = "registered" THEN Notify(s, KeyOf(s, c)) ELSE s
Drained(c) == IF watch[c] = "registered" THEN "completed" ELSE watch[c]

(* WaitFuture::drop takes a registered node out of the heap. *)
WithoutTimer(c) == IF timer[c] = "registered" THEN HeapRemove(expiry, heap, c) ELSE heap

(* The coroutine looks at the value and waits for the next modify.          *)
Watch(c) == watch' = [watch EXCEPT ![c] = "registered"]
Changed(c) == watch[c] # "registered"

(* WaitFuture::poll: a timer set for a time that has come is ready at once. *)
Fires(c) == IF Changed(c) THEN deadline[c] # NoTime /\ deadline[c] <= now
            ELSE timer[c] = "expired"

(* The old future is dropped, a new one is made and polled.                 *)
WaitUntil(c, d) ==
    IF d = NoTime
    THEN /\ timer' = [timer EXCEPT ![c] = "none"]
         /\ heap' = WithoutTimer(c)
         /\ UNCHANGED expiry
    ELSE /\ timer' = [timer EXCEPT ![c] = "registered"]
         /\ expiry' = [expiry EXCEPT ![c] = d]
         /\ heap' = HeapInsert(expiry', WithoutTimer(c), c)

(* Timer::advance_clock: the expired ones are taken from the top, one by    *)
(* one, each woken; the first that is not expired ends the loop.            *)
RemoveOneExpired(t) ==               \* mutant: one timer per call
    LET r == heap.root
    IN  IF r = NoNode \/ t < expiry[r] THEN [heap |-> heap, fired |-> {}]
        ELSE [heap |-> HeapRemove(expiry, heap, r), fired |-> {r}]
RemoveExpired(t) ==
    LET run[n \in 0..Cardinality(Conns)] ==
            IF n = 0 THEN [heap |-> heap, fired |-> {}]
            ELSE LET r == run[n-1]
                 IN  IF r.heap.root = NoNode \/ t < expiry[r.heap.root] THEN r
                     ELSE [heap |-> HeapRemove(expiry, r.heap, r.heap.root),
                           fired |-> r.fired \cup {r.heap.root}]
    IN  run[Cardinality(Conns)]

AdvanceClock ==
    /\ phase = "clock"
    /\ \E t \in now..MaxTime :
          LET r == RemoveExpired(t)
          IN  /\ now' = t
              /\ heap' = r.heap
              /\ timer' = [c \in Conns |-> IF c \in r.fired THEN "expired" ELSE timer[c]]
              /\ sched' = [sched EXCEPT !.notified = @ \cup {KeyOf(sched, c) : c \in r.fired}]
    /\ phase' = "app"
    /\ UNCHANGED <<pass, expiry, connVars, opVars>>

-----------------------------------------------------------------------------
(* What the code running between two steps may do to others *)

Unused(c) == c \notin Tasks(sched) \cup held

(* The effects an operation may have on the way: an accept makes an         *)
(* established socket, which inserts its coroutine and keeps the handle; a  *)
(* close or a migration drops the socket, and the handle with it; a push    *)
(* sets the retransmission deadline.  s is the scheduler before it.         *)
Effect(s) ==
    /\ calls < MaxCalls /\ calls' = calls + 1
    /\ \/ \E c \in Conns : /\ Unused(c) /\ HasRoom(s)
                           /\ sched' = Insert(s, c)
                           /\ held' = held \cup {c}
                           /\ deadline' = [deadline EXCEPT ![c] = NoTime]
                           /\ UNCHANGED watch
       \/ \E c \in held : /\ held' = held \ {c}
                          /\ sched' = MarkDropped(s, KeyOf(s, c))
                          /\ UNCHANGED <<deadline, watch>>
       \/ \E c \in held, d \in {NoTime} \cup (now + 1)..MaxTime :
             /\ deadline' = [deadline EXCEPT ![c] = d]
             /\ watch' = [watch EXCEPT ![c] = Drained(c)]
             /\ sched' = Woken(s, c)
             /\ UNCHANGED held

-----------------------------------------------------------------------------
(* The application *)

(* push, pop, accept ...: schedules the coroutine, handle.into_raw() is the *)
(* queue token.                                                             *)
Submit(o) ==
    /\ phase = "app"
    /\ token[o] = NoKey /\ o \notin collected
    /\ HasRoom(sched)
    /\ token' = [token EXCEPT ![o] = NextKey(sched)]
    /\ sched' = Insert(sched, o)
    /\ UNCHANGED <<phase, pass, timerVars, connVars, arrived, asleep, collected>>

(* wait, wait_any, timedwait once a token has completed: take_operation.    *)
(* A token that has not is left in the scheduler (take_key).                *)
Collect(o) ==
    LET k == token[o]
    IN  /\ phase = "app"
        /\ k # NoKey
        /\ k \in sched.completed
        /\ sched' = Take(sched, k)
        /\ collected' = collected \cup {o}
        /\ token' = [token EXCEPT ![o] = NoKey]
        /\ UNCHANGED <<phase, pass, timerVars, connVars, arrived, asleep>>

(* A call that changes a connection between two rounds: close, push. *)
AppCall ==
    /\ phase = "app"
    /\ Effect(sched)
    /\ UNCHANGED <<phase, pass, timerVars, opVars>>

(* The application waits: poll_bg_work begins. *)
PollBgWork ==
    /\ phase = "app"
    /\ phase' = "receive"
    /\ UNCHANGED <<schedVars, timerVars, connVars, opVars>>

-----------------------------------------------------------------------------
(* do_receive of a packet, before the scheduler is polled *)

(* The event an operation waits for: its waker is taken and woken. *)
Arrive(o) ==
    /\ phase = "receive"
    /\ o \notin arrived
    /\ arrived' = arrived \cup {o}
    /\ asleep' = asleep \ {o}
    /\ sched' = IF o \in asleep THEN Notify(sched, KeyOf(sched, o)) ELSE sched
    /\ UNCHANGED <<phase, pass, timerVars, connVars, token, collected>>

ReceiveForConn ==
    /\ phase = "receive"
    /\ Effect(sched)
    /\ UNCHANGED <<phase, pass, timerVars, opVars>>

-----------------------------------------------------------------------------
(* Scheduler::poll *)

Open(p, last) == [page |-> p, last |-> last,
                  todo |-> TakenNotified(sched, p), gone |-> TakenDropped(sched, p)]

PollBegin ==
    /\ phase = "receive"
    /\ \/ /\ Pages(sched) = 0
          /\ phase' = "clock"
          /\ UNCHANGED <<sched, pass>>
       \/ /\ Pages(sched) > 0
          /\ phase' = "poll"
          /\ pass' = Open(0, Pages(sched) - 1)
          /\ sched' = TakeFlags(sched, 0)
    /\ UNCHANGED <<timerVars, connVars, opVars>>

(* The next task of the page, in the order of the bits. *)
NextBit == CHOOSE k \in pass.todo : \A j \in pass.todo : k <= j
Polling(t) == /\ phase = "poll"
              /\ pass.todo # {}
              /\ sched.slab[NextBit] = t
              /\ pass' = [pass EXCEPT !.todo = @ \ {NextBit}]

PollUnheard(o) ==                    \* mutant: the waker is not left behind
    /\ Polling(o)
    /\ o \notin arrived
    /\ UNCHANGED <<phase, sched, timerVars, connVars, opVars>>

(* The operation's event has not happened: its waker is left behind. *)
PollPending(o) ==
    /\ Polling(o)
    /\ o \notin arrived
    /\ asleep' = asleep \cup {o}
    /\ UNCHANGED <<phase, sched, timerVars, connVars, arrived, token, collected>>

(* It has happened. *)
PollReady(o) ==
    /\ Polling(o)
    /\ o \in arrived
    /\ LET done == MarkCompleted(sched, NextBit)
       IN  (sched' = done /\ UNCHANGED connVars) \/ Effect(done)
    /\ UNCHANGED <<phase, timerVars, opVars>>

(* acknowledger, retransmitter.  The change of the deadline is looked at    *)
(* first; it drops both futures and reads the deadline again.  When the     *)
(* timer has expired, or the deadline read has passed already, the          *)
(* coroutine acts and sets the deadline anew while its WatchFuture is still *)
(* registered: it wakes itself.  Then both futures are made and polled.     *)
PollConn(c) ==
    /\ Polling(c)
    /\ \E d \in IF Fires(c) THEN {NoTime, now + Rto} ELSE {deadline[c]} :
          /\ deadline' = [deadline EXCEPT ![c] = d]
          /\ Watch(c)
          /\ sched' = IF Fires(c) THEN Notify(sched, NextBit) ELSE sched
          /\ IF Changed(c) \/ Fires(c) THEN WaitUntil(c, d)
             ELSE UNCHANGED <<heap, expiry, timer>>
    /\ UNCHANGED <<phase, now, held, calls, opVars>>

(* The dropped tasks of the page are removed; a coroutine's futures go with *)
(* it.  Then the next page's flags are taken.                               *)
RemoveTimers(cs) ==
    LET run[n \in 0..MaxKeys] ==
            IF n = 0 THEN heap
            ELSE IF sched.slab[n-1] \in cs THEN HeapRemove(expiry, run[n-1], sched.slab[n-1])
            ELSE run[n-1]
    IN  run[MaxKeys]

TurnPage ==
    LET freed == FreeDropped(sched, pass.gone)
        dead == {sched.slab[k] : k \in Freed(pass.gone)} \cap Conns
        armed == {c \in dead : timer[c] = "registered"}
    IN  /\ phase = "poll"
        /\ pass.todo = {}
        /\ timer' = [c \in Conns |-> IF c \in dead THEN "none" ELSE timer[c]]
        /\ watch' = [c \in Conns |-> IF c \in dead THEN "unregistered" ELSE watch[c]]
        /\ heap' = RemoveTimers(armed)
        /\ \/ /\ pass.page < pass.last
              /\ pass' = [page |-> pass.page + 1, last |-> pass.last,
                          todo |-> TakenNotified(freed, pass.page + 1),
                          gone |-> TakenDropped(freed, pass.page + 1)]
              /\ sched' = TakeFlags(freed, pass.page + 1)
              /\ UNCHANGED phase
           \/ /\ pass.page = pass.last
              /\ pass' = Idle
              /\ sched' = freed
              /\ phase' = "clock"
        /\ UNCHANGED <<now, expiry, deadline, held, calls, opVars>>

-----------------------------------------------------------------------------
Next ==
    \/ \E o \in Ops : Submit(o) \/ Collect(o) \/ Arrive(o) \/ PollPending(o) \/ PollReady(o)
    \/ \E c \in Conns : PollConn(c)
    \/ AppCall \/ PollBgWork \/ ReceiveForConn
    \/ PollBegin \/ TurnPage \/ AdvanceClock

Spec == Init /\ [][Next]_vars

(* The application goes back to waiting, poll_bg_work runs to its end, and  *)
(* the clock it reads moves on.                                             *)
EventLoop ==
    \/ \E o \in Ops : PollPending(o) \/ PollReady(o)
    \/ \E c \in Conns : PollConn(c)
    \/ PollBgWork \/ PollBegin \/ TurnPage \/ AdvanceClock

FairSpec == /\ Spec
            /\ WF_vars(EventLoop)
            /\ SF_vars(AdvanceClock /\ now' > now)

-----------------------------------------------------------------------------
Live(t) == t \in held \/ t \in {o \in Ops : token[o] # NoKey}

Due(t) == IF t \in Ops THEN t \in arrived /\ KeyOf(sched, t) \notin sched.completed
          ELSE watch[t] # "registered" \/ timer[t] = "expired"

(* A task with something to do is going to be polled: its flag is set, or   *)
(* the loop that took the flag has still to come to it.  A task woken while *)
(* it is polled, or while another is, or as its slot changes hands, is      *)
(* never forgotten.                                                         *)
NoLostWakeup ==
    \A k \in Occupied(sched) :
        Live(sched.slab[k]) /\ Due(sched.slab[k]) => k \in sched.notified \cup pass.todo

(* A coroutine that sleeps, sleeps until the deadline as it now is: its     *)
(* timer is the one of the current deadline, or it has been told to look.   *)
SleepsOnDeadline ==
    \A c \in held :
        watch[c] = "registered" =>
            IF deadline[c] = NoTime THEN timer[c] = "none"
            ELSE timer[c] # "none" /\ expiry[c] = deadline[c]

(* The heap holds the timers that were registered and not yet removed, and  *)
(* once the clock has been advanced none that is due is left.               *)
NoneOverdue ==
    /\ HeapNodes(heap) = {c \in Conns : timer[c] = "registered"}
    /\ HeapOrdered(expiry, heap)
    /\ phase = "app" => \A c \in HeapNodes(heap) : now < expiry[c]

(* What a coroutine sleeps on and what the timer queue holds agree, with    *)
(* the deadline and with the clock.                                         *)
TimersFollowDeadlines == SleepsOnDeadline /\ NoneOverdue

(* No flag leads the scheduler to an empty slot and no finished task is     *)
(* polled again: get_pin_mut(ix).unwrap() in Scheduler::poll and the panic  *)
(* in FutureResult::poll.                                                   *)
PollsTasks == \A k \in pass.todo : sched.slab[k] # NoTask /\ k \notin sched.completed

(* A token names its operation until its result is taken (the assert in     *)
(* take: its flag never says dropped), a handle its coroutine.              *)
NamesHold ==
    /\ \A o \in Ops : token[o] # NoKey => /\ sched.slab[token[o]] = o
                                           /\ token[o] \notin sched.dropped
    /\ held \subseteq Tasks(sched)

VacantSlots ==
    /\ \A i, j \in DOMAIN sched.vacant : i # j => sched.vacant[i] # sched.vacant[j]
    /\ {sched.vacant[i] : i \in DOMAIN sched.vacant} =
           {k \in 0..(sched.fresh - 1) : sched.slab[k] = NoTask}

Dropped(k) == sched.slab[k] \in Conns \ held

(* A task whose handle was dropped is still to be removed, or it is in the  *)
(* first slot of a page, which Scheduler::poll passes over.                 *)
DroppedAreRemoved ==
    \A k \in Occupied(sched) :
        Dropped(k) => k \in sched.dropped \cup pass.gone \/ SubPage(k) = 0

(* Slots are reused, last in first out, but never under somebody who still  *)
(* refers to them, and never polled while empty.                            *)
SlotsHold == PollsTasks /\ NamesHold /\ VacantSlots /\ DroppedAreRemoved

(* inetstack/mod.rs:562: without take_key, dropping the handle "would       *)
(* otherwise cause the operation to be freed".                              *)
DropFrees == \A k \in Occupied(sched) : Dropped(k) => k \in sched.dropped \cup pass.gone

(* A deadline that passes is acted on, or was moved, or its connection is   *)
(* gone.                                                                    *)
DeadlineIsMet ==
    \A c \in Conns : \A d \in 1..MaxTime :
        (c \in held /\ deadline[c] = d) ~> (c \notin held \/ deadline[c] # d)

(* An operation whose event has happened completes. *)
OperationCompletes ==
    \A o \in Ops :
        (token[o] # NoKey /\ o \in arrived) ~>
            (o \in collected \/ token[o] \in sched.completed)

-----------------------------------------------------------------------------
(* The pairing heap against a set: after any few insertions and removals    *)
(* it holds what the set holds, in heap order, the least at the root.       *)
Built(Nodes, key) ==
    LET step(hs) == {<<HeapInsert(key, hs[1], n), hs[2] \cup {n}>> : n \in Nodes \ hs[2]}
                    \cup {<<HeapRemove(key, hs[1], n), hs[2] \ {n}>> : n \in hs[2]}
        after[n \in 0..Cardinality(Nodes) + 2] ==
            IF n = 0 THEN {<<EmptyHeap(Nodes), {}>>}
            ELSE UNION {step(hs) : hs \in after[n-1]}
    IN  UNION {after[n] : n \in DOMAIN after}

HeapIsPriorityQueue ==
    \A key \in [1..5 -> 1..2] \cup {<<1,2,3,4,5>>, <<5,4,3,2,1>>, <<3,1,4,2,5>>} :
        \A hs \in Built(1..5, key) :
            /\ HeapNodes(hs[1]) = hs[2]
            /\ HeapOrdered(key, hs[1])
            /\ hs[2] # {} => \A n \in hs[2] : key[hs[1].root] <= key[n]
=============================================================================

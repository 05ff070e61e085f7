------------------------------- MODULE LibOS -------------------------------
(***************************************************************************)
(* The application's interface (demikernel/bindings.rs, libos/): calls that *)
(* issue an operation on a queue and give a token for it, and calls that    *)
(* wait for tokens.  Behind it stands one of two libOSes, chosen in Init:   *)
(*   catnap  the operations are futures over the sockets of a kernel        *)
(*           (PosixKernel); each polls its system call and wakes itself     *)
(*   catnip  the operations belong to inetstack, whose protocols the other  *)
(*           modules describe: here they complete when they please, and the *)
(*           module keeps to the tokens, the queue table and the waits      *)
(* A token is the slot of the operation in the scheduler, and slots are     *)
(* used again: the first question is whether a token still names the        *)
(* operation it was given for, the second whether the data that moves on a  *)
(* queue are those of its socket, in order and once.                        *)
(***************************************************************************)
EXTENDS Scheduler, PosixKernel

CONSTANTS Backends,      \* the libOSes to check, of {"catnap", "catnip"}
          MaxQds,        \* bound: queue descriptors
          MaxOps,        \* bound: operations ever issued
          MaxSent,       \* bound: units the remote ends send
          PushLen,       \* bytes in a pushed buffer
          Programs,      \* the kinds of operations an application issues: one such
                         \* set is chosen in Init
          Careful        \* the application closes no queue an operation waits on,
                         \* never names one it closed, and has at most one
                         \* operation of a kind on a queue

QDs == 0..(MaxQds - 1)
Ids == 1..MaxOps
NoKey == -1

(* An operation: its descriptors, the queue an accept will give, the bytes  *)
(* of a push, and what came of it.                                          *)
Kinds == {"accept", "connect", "push", "pushto", "pop"}
Values == Nat \cup (Socks \X Nat \X Nat)
Results == [is : {"pending", "ok", "failed"}, value : Values]
Operations == [id : Ids, kind : Kinds, qd : QDs, fd : Fds \cup {NoFd},
               newqd : QDs \cup {NoKey}, len : {PushLen}, done : Results]

ASSUME LibOSAssumption ==
    /\ SchedulerAssumption
    /\ Backends \subseteq {"catnap", "catnip"}
    /\ {MaxQds, MaxOps, MaxSent, PushLen} \subseteq Nat
    /\ UNION Programs \subseteq Kinds
    /\ Careful \in BOOLEAN
    /\ NoTask \notin Operations

VARIABLES backend, program,
          sched,      \* Scheduler, of operations
          table,      \* qtable and file_table
          sockets,    \* catnap: the descriptor of each queue
          kernel,     \* catnap: PosixKernel
          issued,     \* operations issued: the last one's name
          token,      \* the tokens the application has and no result for
          call,       \* the wait it is in
          open,       \* the queues it knows and has not closed
          log         \* what it popped from each queue

vars == <<backend, program, sched, table, sockets, kernel, issued, token, call, open, log>>

NoCall == [kind |-> "none", ids |-> <<>>, room |-> 0]
Outstanding == {id \in Ids : token[id] # NoKey}
OpOf(id) == sched.slab[token[id]]

(* IoQueueTable: a slab, the entry freed last is the next to be used. *)
EmptyTable == [used |-> {}, vacant |-> [i \in 1..MaxQds |-> i - 1]]
NewQd(t) == Head(t.vacant)
AllocQd(t) == [used |-> t.used \cup {NewQd(t)}, vacant |-> Tail(t.vacant)]
NoFree(t, q) == t                   \* mutant: the entry stays taken
FreeQd(t, q) == IF q \notin t.used THEN t
                ELSE [used |-> t.used \ {q}, vacant |-> <<q>> \o t.vacant]

(* Which arms of the libOS calls reach a libOS: the others are todo!(),     *)
(* unimplemented!() or refused.                                             *)
Waits == [wait2 |-> {"catnap", "catnip"}, wait_any2 |-> {"catnap", "catnip"},
          timedwait2 |-> {"catnip"}, nonblocking2 |-> {"catnip"}, nonblocking_one2 |-> {"catnip"}]
CWaits == [wait |-> {"catnap", "catnip"}, timedwait |-> {"catnap", "catnip"},
           wait_any |-> {"catnip"}, try_wait_any |-> {}]
Supports(b, c) == b \in IF c \in DOMAIN Waits THEN Waits[c] ELSE CWaits[c]

Init == /\ backend \in Backends
        /\ program \in Programs
        /\ sched = EmptyScheduler
        /\ table = EmptyTable
        /\ sockets = [q \in QDs |-> NoFd]
        /\ kernel = EmptyKernel
        /\ issued = 0
        /\ token = [id \in Ids |-> NoKey]
        /\ call = NoCall
        /\ open = {}
        /\ log = [q \in QDs |-> <<>>]

TypeOK == /\ backend \in Backends
          /\ table.used \subseteq QDs
          /\ sockets \in [QDs -> Fds \cup {NoFd}]
          /\ kernel.file \in [Fds -> Socks \cup {NoSock}]
          /\ \A s \in Socks : kernel.sock[s].state \in SocketStates
          /\ issued \in 0..MaxOps
          /\ token \in [Ids -> Keys \cup {NoKey}]
          /\ open \subseteq QDs

(***************************************************************************)
(* The calls that need no wait.                                             *)
(***************************************************************************)
(* What bindings.rs finds wrong with an address or a buffer. *)
Saddrs == {"inet", "null", "short", "inet6"}
ValidSaddr(a) == a = "inet"
Sgas == {"filled", "null", "empty", "segments"}
ValidSga(g) == g = "filled"

Idle == call = NoCall
AppUses(q) == Idle /\ (q \in open \/ ~Careful)

Opens == IF "pushto" \in program THEN "dgram" ELSE "stream"

(* The domains and types a libOS opens, and the kernel's word in catnap. *)
CanSocket(domain, typ) ==
    /\ domain = "inet" /\ typ \in {"stream", "dgram"}
    /\ backend = "catnap" => CanOpen(kernel)

(* The queue is entered in the table; in catnap a socket of the kernel is   *)
(* opened for it first.                                                     *)
Socket(typ) ==
    /\ table' = AllocQd(table)
    /\ IF backend = "catnap"
       THEN /\ sockets' = [sockets EXCEPT ![NewQd(table)] = Least(FreeFds(kernel))]
            /\ kernel' = SysSocket(kernel, typ)
       ELSE UNCHANGED <<sockets, kernel>>
    /\ UNCHANGED <<backend, program, sched, issued, token, call, log>>

demi_socket(domain, typ) ==
    /\ Idle
    /\ typ \in {Opens, "raw"}
    /\ table.vacant # <<>>
    /\ IF ~CanSocket(domain, typ) THEN UNCHANGED vars
       ELSE Socket(typ) /\ open' = open \cup {NewQd(table)}

(* bind and listen of catnap unwrap what the kernel says: the application   *)
(* of the model does what the kernel lets it, and binds no socket it is to  *)
(* connect.                                                                 *)
Binds == backend = "catnap" /\ "connect" \notin program

Bind(q) ==
    IF sockets[q] = NoFd THEN UNCHANGED vars
    ELSE /\ StateOf(kernel, sockets[q]) = "new"
         /\ kernel' = SysBind(kernel, sockets[q])
         /\ UNCHANGED <<backend, program, sched, table, sockets, issued, token, call, open, log>>

demi_bind(q, a) ==
    /\ AppUses(q) /\ Binds
    /\ IF ValidSaddr(a) THEN Bind(q) ELSE UNCHANGED vars

Listen(q) ==
    IF sockets[q] = NoFd THEN UNCHANGED vars
    ELSE /\ StateOf(kernel, sockets[q]) = "bound"
         /\ kernel.sock[Named(kernel, sockets[q])].typ = "stream"
         /\ kernel' = SysListen(kernel, sockets[q])
         /\ UNCHANGED <<backend, program, sched, table, sockets, issued, token, call, open, log>>

demi_listen(q, backlog) ==
    /\ AppUses(q) /\ Binds
    /\ IF backlog < 1 THEN UNCHANGED vars ELSE Listen(q)

(* The descriptor is closed; its entries in sockets and in qtable remain. *)
Close(q) ==
    IF sockets[q] = NoFd \/ kernel.file[sockets[q]] = NoSock THEN UNCHANGED vars
    ELSE /\ kernel' = SysClose(kernel, sockets[q])
         /\ open' = open \ {q}
         /\ UNCHANGED <<backend, program, sched, table, sockets, issued, token, call, log>>

demi_close(q) ==
    /\ AppUses(q) /\ backend = "catnap"
    /\ Careful => \A id \in Outstanding : OpOf(id).qd # q
    /\ Close(q)

(***************************************************************************)
(* The calls that issue an operation.  An operation carries the descriptor  *)
(* its queue had then, an accept also the queue it will give.               *)
(***************************************************************************)
Pending == [is |-> "pending", value |-> NoFd]

Operation(kind, q, n) ==
    [id |-> issued + 1, kind |-> kind, qd |-> q, fd |-> sockets[q], newqd |-> n,
     len |-> PushLen, done |-> Pending]

Free(kind, q) == Careful => \A id \in Outstanding : OpOf(id).qd = q => OpOf(id).kind # kind

(* The queue must have a descriptor in catnap, be in file_table in catnip. *)
Known(q) == IF backend = "catnap" THEN sockets[q] # NoFd ELSE q \in table.used

Schedule(op) ==
    /\ sched' = Insert(sched, op)
    /\ issued' = issued + 1
    /\ token' = [token EXCEPT ![op.id] = NextKey(sched)]

Issue(kind, q) ==
    /\ AppUses(q) /\ issued < MaxOps
    /\ kind \in program /\ Free(kind, q)
    /\ IF ~Known(q) \/ ~HasRoom(sched) THEN UNCHANGED vars
       ELSE /\ Schedule(Operation(kind, q, NoKey))
            /\ UNCHANGED <<backend, program, table, sockets, kernel, call, open, log>>

(* The entry of the new connection is taken first, and given back when the  *)
(* operation cannot be scheduled.                                           *)
Accept(q) ==
    LET n == NewQd(table)
    IN  /\ IF HasRoom(sched)
           THEN /\ table' = AllocQd(table)
                /\ Schedule(Operation("accept", q, n))
           ELSE /\ table' = FreeQd(AllocQd(table), n)
                /\ UNCHANGED <<sched, issued, token>>
        /\ UNCHANGED <<backend, program, sockets, kernel, call, open, log>>

demi_accept(q) ==
    /\ AppUses(q) /\ issued < MaxOps /\ table.vacant # <<>>
    /\ "accept" \in program /\ Free("accept", q)
    /\ IF Known(q) THEN Accept(q) ELSE UNCHANGED vars

demi_connect(q, a) ==
    IF ValidSaddr(a) THEN Issue("connect", q) ELSE AppUses(q) /\ UNCHANGED vars

demi_push(q, g) ==
    IF ValidSga(g) THEN Issue("push", q) ELSE AppUses(q) /\ UNCHANGED vars

demi_pushto(q, g, a) ==
    IF ValidSga(g) /\ ValidSaddr(a) THEN Issue("pushto", q)
    ELSE AppUses(q) /\ UNCHANGED vars

demi_pop(q) == Issue("pop", q)

(***************************************************************************)
(* The operations: catnap's futures poll a system call.                     *)
(***************************************************************************)
AcceptFuture(k, op) == SysAccept(k, op.fd)
ConnectFuture(k, op) == SysConnect(k, op.fd)
PushFuture(k, op) == SysSend(k, op.fd, op)
PushtoFuture(k, op) == SysSendTo(k, op.fd, op)
PeekFuture(k, op) ==                \* mutant: recvfrom() with MSG_PEEK
    [SysRecv(k, op.fd) EXCEPT !.kernel = k]
PopFuture(k, op) == SysRecv(k, op.fd)

SysCall(k, op) ==
    CASE op.kind = "accept" -> AcceptFuture(k, op)
      [] op.kind = "connect" -> ConnectFuture(k, op)
      [] op.kind = "push" -> PushFuture(k, op)
      [] op.kind = "pushto" -> PushtoFuture(k, op)
      [] op.kind = "pop" -> PopFuture(k, op)

WakesNot(s, k) == s                 \* mutant: a pending future leaves no wake-up
Wakes(s, k) == Notify(s, k)

Done(s, k, result) == MarkCompleted([s EXCEPT !.slab[k].done = result], k)

PollFuture(st, k) ==
    LET r == SysCall(st.kernel, st.sched.slab[k])
    IN  [kernel |-> r.kernel,
         sched |-> IF r.is = "pending" THEN Wakes(st.sched, k)
                   ELSE Done(st.sched, k, [is |-> r.is, value |-> r.value])]

(* Scheduler::poll: each page's notified operations, in the order of their  *)
(* slots; then its dropped slots are emptied.                               *)
PollPage(st, p) ==
    LET todo == TakenNotified(st.sched, p)
        run[k \in -1..(MaxKeys - 1)] ==
            IF k = -1 THEN [st EXCEPT !.sched = TakeFlags(@, p)]
            ELSE IF k \in todo THEN PollFuture(run[k-1], k)
            ELSE run[k-1]
        end == run[MaxKeys - 1]
    IN  [end EXCEPT !.sched = FreeDropped(@, TakenDropped(st.sched, p))]

CatnapPoll ==
    LET run[p \in 0..Pages(sched)] ==
            IF p = 0 THEN [sched |-> sched, kernel |-> kernel] ELSE PollPage(run[p-1], p - 1)
    IN  run[Pages(sched)]

(* poll_bg_work of inetstack: any of the operations may be over. *)
Unfinished == {k \in Occupied(sched) : k \notin sched.completed}
CatnipPolled(ok, bad) ==
    [kernel |-> kernel,
     sched |-> [sched EXCEPT !.completed = @ \cup ok \cup bad,
                             !.slab = [k \in Keys |->
                                  IF k \in ok \cup bad
                                  THEN [@[k] EXCEPT !.done.is = IF k \in ok THEN "ok" ELSE "failed"]
                                  ELSE @[k]]]]
CatnipPolls == {CatnipPolled(ok, bad) : ok \in SUBSET Unfinished, bad \in SUBSET Unfinished}

Polls == IF backend = "catnap" THEN {CatnapPoll} ELSE CatnipPolls

(***************************************************************************)
(* The waits: poll, look at the operations, and either return with results  *)
(* or poll again.                                                           *)
(***************************************************************************)
(* What comes out of an operation with its result: of an accept, whatever   *)
(* the result, the queue taken for the connection.                          *)
GivesQd(op) == op.newqd # NoKey

(* The operation leaves the scheduler.  An accepted connection's descriptor *)
(* is entered under the queue taken for it, which is given back if there    *)
(* is none.                                                                 *)
TakeResult(st, op) ==
    IF ~GivesQd(op) THEN st
    ELSE IF op.done.is = "ok" THEN [st EXCEPT !.sockets[op.newqd] = op.done.value]
    ELSE [st EXCEPT !.table = FreeQd(@, op.newqd)]

TakeOperation(st, op) ==
    IF GivesQd(op) /\ op.done.is = "failed" THEN [st EXCEPT !.table = FreeQd(@, op.newqd)]
    ELSE st

(* What the application learns from a result. *)
PackResult(st, op) ==
    [st EXCEPT !.token[op.id] = NoKey,
               !.open = IF op.kind = "accept" /\ op.done.is = "ok" THEN @ \cup {op.newqd} ELSE @,
               !.log[op.qd] = IF op.kind = "pop" /\ op.done.is = "ok" /\ backend = "catnap"
                              THEN Append(@, op.done.value) ELSE @]

Reap(st, k) ==
    LET op == st.sched.slab[k]
        taken == [st EXCEPT !.sched = Take(@, k)]
    IN  PackResult(IF backend = "catnap" THEN TakeResult(taken, op) ELSE TakeOperation(taken, op), op)

(* A handle that is not used up gives its key back, lest its drop frees the *)
(* operation.                                                               *)
GiveBack(s, k) == s

After(polled) == [sched |-> polled.sched, table |-> table, sockets |-> sockets,
                  token |-> token, open |-> open, log |-> log]

(* One pass over the tokens: up to room results are taken. *)
Pass(polled, ids, room) ==
    LET look(r, id) ==
            LET k == token[id]
            IN  IF k \in r.st.sched.completed
                THEN [st |-> Reap(r.st, k), found |-> r.found + 1]
                ELSE [r EXCEPT !.st.sched = GiveBack(@, k)]
        run[i \in 0..Len(ids)] ==
            IF i = 0 THEN [st |-> After(polled), found |-> 0]
            ELSE IF run[i-1].found = room THEN run[i-1]
            ELSE look(run[i-1], ids[i])
    IN  run[Len(ids)]

Becomes(st) == /\ sched' = st.sched /\ table' = st.table /\ sockets' = st.sockets
               /\ token' = st.token /\ open' = st.open /\ log' = st.log
               /\ UNCHANGED <<backend, program, issued>>

(* expires: the call may give up for lack of time.                          *)
Try(ids, room, expires) ==
    \E polled \in Polls :
        LET r == Pass(polled, ids, room)
        IN  /\ Becomes(r.st)
            /\ kernel' = polled.kernel
            /\ \/ call' = NoCall /\ (r.found > 0 \/ expires)
               \/ call' = call /\ r.found = 0

Enter(kind, ids, room) ==
    /\ Idle
    /\ Supports(backend, kind)
    /\ call' = [kind |-> kind, ids |-> ids, room |-> room]
    /\ UNCHANGED <<backend, program, sched, table, sockets, kernel, issued, token, open, log>>

demi_wait(id) == id \in Outstanding /\ Enter("wait", <<id>>, 1)
demi_timedwait(id) == id \in Outstanding /\ Enter("timedwait", <<id>>, 1)
EnterAny(kind, id1, id2, room) ==
    {id1, id2} \subseteq Outstanding /\ id1 # id2 /\ Enter(kind, <<id1, id2>>, room)
demi_wait_any(id1, id2, room) == EnterAny("wait_any", id1, id2, room)

Wait == call.kind \in {"wait", "wait2"} /\ Try(call.ids, 1, FALSE)
TimedWait == call.kind \in {"timedwait", "timedwait2"} /\ Try(call.ids, 1, TRUE)
WaitAny == call.kind = "wait_any2" /\ Try(call.ids, call.room, backend = "catnip")
WaitAnyC == call.kind = "wait_any" /\ Try(call.ids, call.room, TRUE)
NonblockingAll == call.kind = "nonblocking2" /\ Try(call.ids, Len(call.ids), TRUE)
NonblockingOne == call.kind = "nonblocking_one2" /\ Try(call.ids, 1, TRUE)

(***************************************************************************)
(* The remote ends: catnap looks at what they do when it polls, so that     *)
(* what they do between two waits may as well be done in the second one.    *)
(***************************************************************************)
Remote ==
    /\ backend = "catnap" /\ ~Idle
    /\ kernel' \in Connects(kernel) \cup Answers(kernel) \cup Sends(kernel, MaxSent)
                   \cup Reads(kernel) \cup Ends(kernel)
    /\ UNCHANGED <<backend, program, sched, table, sockets, issued, token, call, open, log>>

IssueCalls ==
    \E q \in QDs :
        \/ demi_accept(q) \/ demi_pop(q)
        \/ \E a \in Saddrs : demi_connect(q, a)
        \/ \E g \in Sgas : demi_push(q, g)
        \/ \E g \in Sgas, a \in Saddrs : demi_pushto(q, g, a)

OtherCalls ==
    \/ \E domain \in {"inet", "inet6"}, typ \in {"stream", "dgram", "raw"} : demi_socket(domain, typ)
    \/ \E q \in QDs : \/ \E a \in Saddrs : demi_bind(q, a)
                       \/ \E backlog \in 0..1 : demi_listen(q, backlog)
                       \/ demi_close(q)

WaitCalls ==
    \/ \E id \in Ids : demi_wait(id) \/ demi_timedwait(id)
    \/ \E id1, id2 \in Ids, room \in 1..2 :
           \/ demi_wait_any(id1, id2, room)
           \/ EnterAny("wait_any2", id1, id2, room)
    \/ \E id1, id2 \in Ids : \/ EnterAny("nonblocking2", id1, id2, 2)
                            \/ EnterAny("nonblocking_one2", id1, id2, 1)

WaitLoop == Wait \/ TimedWait \/ WaitAny \/ WaitAnyC \/ NonblockingAll \/ NonblockingOne

Next == IssueCalls \/ OtherCalls \/ WaitCalls \/ WaitLoop \/ Remote

Spec == Init /\ [][Next]_vars

(***************************************************************************)
(* Properties.                                                              *)
(***************************************************************************)
(* Until its result has been handed out, the token of an operation names a  *)
(* slot that holds this operation and no other, whatever waits gave up on   *)
(* it, and a scheduled operation is one the application has a token for     *)
(* (into_raw, from_raw_handle, take_key).                                   *)
TokensHold ==
    /\ \A id \in Outstanding : sched.slab[token[id]] # NoTask /\ OpOf(id).id = id
    /\ \A k \in Occupied(sched) : token[sched.slab[k].id] = k

(* The queue table and the descriptors: an entry of the table is a queue    *)
(* the application knows, one it closed in catnap, or the one an accept     *)
(* holds; and in catnap every open descriptor is that of one open queue or  *)
(* of an accepted connection whose result waits to be taken (accept,        *)
(* take_result, take_operation).                                            *)
Accepts == {sched.slab[k] : k \in {k \in Occupied(sched) : sched.slab[k].kind = "accept"}}
OpenFds == {f \in Fds : kernel.file[f] # NoSock}
Untaken == {op \in Accepts : op.done.is = "ok"}

TablesAgree ==
    /\ \A op1, op2 \in Accepts : op1.newqd = op2.newqd => op1.id = op2.id
    /\ backend = "catnap" =>
          /\ table.used = {q \in QDs : sockets[q] # NoFd} \cup {op.newqd : op \in Accepts}
          /\ \A op \in Accepts : sockets[op.newqd] = NoFd
          /\ OpenFds = {sockets[q] : q \in open} \cup {op.done.value : op \in Untaken}
          /\ Cardinality(OpenFds) = Cardinality(open) + Cardinality(Untaken)
    /\ backend = "catnip" => table.used = open \cup {op.newqd : op \in Accepts}

(* What the application pops from a queue is what the remote end of one     *)
(* socket sent, from the first unit on, in order, each once; no two queues  *)
(* read one socket; and the pushes of a socket go out in the order they     *)
(* were issued (PopFuture, PushFuture: the order of slots is not that of    *)
(* the calls).                                                              *)
Streams ==
    \A q \in QDs : \A i \in 1..Len(log[q]) :
        /\ log[q][i][1] = log[q][1][1]
        /\ log[q][i][2] = IF i = 1 THEN 1 ELSE log[q][i-1][3] + 1
        /\ \A p \in QDs \ {q} : log[p] # <<>> => log[p][1][1] # log[q][1][1]

Wires == \A s \in Socks : \A i, j \in 1..Len(kernel.sock[s].wire) :
             i < j => kernel.sock[s].wire[i] < kernel.sock[s].wire[j]

StreamsIntact == Streams /\ Wires

(* An operation that is not over is polled by every turn of every wait:     *)
(* what wakes a future of catnap is itself, each time it is told to come    *)
(* back later (wake_by_ref, Scheduler::poll).                               *)
NoneAsleep == backend = "catnap" => Unfinished \subseteq sched.notified

(* Tokens, queue descriptors and file descriptors name what they are for    *)
(* (take_operation, accept, close).                                         *)
NamesHold == TokensHold /\ TablesAgree
=============================================================================

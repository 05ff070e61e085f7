----------------------------- MODULE LoadPolicy -----------------------------
(***************************************************************************)
(* The statistics a host keeps of its connections' load and the migrations *)
(* it decides on: Stats, BucketList and StatsHandle of tcp/stats.rs, their *)
(* use by the control block (tcp/established/ctrlblk.rs) and by the TCP    *)
(* peer (tcp/peer.rs), in the order in which poll_bg_work runs them.       *)
(*                                                                         *)
(* The peer keeps two Stats that never meet: one of receive queue lengths  *)
(* ("recv"), which is set, and one of requests since the last signal of    *)
(* the switch ("rps"), which is incremented and picks the connections to   *)
(* migrate.  A behaviour follows one of them, chosen at the start.         *)
(*                                                                         *)
(* Conns are control blocks, each with its own handle: a connection that   *)
(* migrates back gets a new one.  The rolling average and handles_index    *)
(* have no reader and are left out.                                        *)
(***************************************************************************)
EXTENDS Integers, Sequences, FiniteSets, SequencesExt

CONSTANTS
    Conns,         \* control blocks
    None,          \* absent value
    BucketSize,    \* 2 ^ BUCKET_SIZE_LOG2
    MaxExtracted,  \* MAX_EXTRACTED_CONNECTIONS
    Allowances,    \* values MAX_PROACTIVE_MIGS may have, or None
    Thresholds,    \* thresholds a signal of the switch may stand for
    MaxQueue,      \* bound: length of a receive queue
    MaxRequests,   \* bound: requests of a connection between two signals
    MaxTotal       \* bound: queue lengths or requests, all connections

ASSUME PolicyAssumption ==
    /\ BucketSize \in Nat \ {0} /\ MaxExtracted \in Nat \ {0}
    /\ MaxQueue \in Nat \ {0} /\ MaxRequests \in Nat /\ MaxTotal \in Nat
    /\ Thresholds \subseteq Nat
    /\ Allowances \subseteq Int \cup {None}
    /\ None \notin Int \cup Conns \cup (Int \X Int)

VARIABLES
    kind,       \* which Stats this is: "recv" or "rps"
    life,       \* where each control block is in its life
    load,       \* while counted: queue length, or requests since the last signal
    stat,       \* StatsHandleInner.stat
    toUpdate,   \* stat_to_update
    position,   \* bucket_list_position
    handles,    \* Stats.handles
    buckets,    \* BucketList.buckets
    global,     \* global_stat
    allowance,  \* max_proactive_migrations
    signal,     \* last_rps_signal
    phase,      \* where the host is in poll_bg_work
    panicked    \* the process has aborted

handleVars == <<stat, toUpdate, position>>
listVars   == <<handles, buckets, global>>
vars == <<kind, life, load, handleVars, listVars, allowance, signal, phase,
          panicked>>

-----------------------------------------------------------------------------
(* Handles and buckets. *)

Stat == [tag: {"Disabled", "Enabled", "MarkedForDisable"}, val: Nat]
Disabled    == [tag |-> "Disabled", val |-> 0]
Enabled(n)  == [tag |-> "Enabled", val |-> n]
Marked(n)   == [tag |-> "MarkedForDisable", val |-> n]

IsEnabled(c) == stat[c].tag = "Enabled"

(* The vectors count from 1 here; those of buckets that do not exist yet   *)
(* are empty.                                                              *)
Index(n) == n \div BucketSize
MaxLoad  == IF kind = "recv" THEN MaxQueue ELSE MaxRequests
Indices  == 0..Index(MaxLoad)

(* Vec::swap_remove: the last element takes the place of the removed one.  *)
SwapRemove(s, i) == Front(IF i = Len(s) THEN s ELSE [s EXCEPT ![i] = Last(s)])

(* A BucketList with the positions its handles know, as one value. *)
EmptyBuckets == [of |-> [i \in Indices |-> <<>>], at |-> [c \in Conns |-> None]]

PushIntoBucket(b, c, i) ==
    [of |-> [b.of EXCEPT ![i] = Append(@, c)],
     at |-> [b.at EXCEPT ![c] = <<i, Len(b.of[i]) + 1>>]]

BucketRemoveKeepsMoved(b, pos) ==  \* mutant: moved handle keeps its position
    [of |-> [b.of EXCEPT ![pos[1]] = SwapRemove(@, pos[2])],
     at |-> [b.at EXCEPT ![b.of[pos[1]][pos[2]]] = None]]
BucketRemove(b, pos) ==
    LET removed == b.of[pos[1]][pos[2]]
        rest    == SwapRemove(b.of[pos[1]], pos[2])
    IN  [of |-> [b.of EXCEPT ![pos[1]] = rest],
         at |-> [c \in Conns |->
                    IF c = removed THEN None
                    ELSE IF pos[2] <= Len(rest) /\ c = rest[pos[2]] THEN pos
                    ELSE b.at[c]]]

(* BucketList::insert and update: handles of a zero statistic are in none. *)
BucketUpdate(b, c, n) ==
    LET stays == b.at[c] # None /\ n > 0 /\ b.at[c][1] = Index(n)
        out   == IF b.at[c] # None THEN BucketRemove(b, b.at[c]) ELSE b
    IN  IF stays THEN b
        ELSE IF n > 0 THEN PushIntoBucket(out, c, Index(n)) ELSE out

-----------------------------------------------------------------------------
(* What the control block does to its handle: set, increment, disable. *)

Expected(c) == IF toUpdate[c] # None THEN toUpdate[c] ELSE stat[c].val

NoteStale(c) ==                    \* mutant: counts from the polled value
    toUpdate' = IF ~IsEnabled(c) THEN toUpdate
                ELSE [toUpdate EXCEPT ![c] =
                        IF kind = "recv" THEN load'[c] ELSE stat[c].val + 1]
Note(c) ==
    toUpdate' = IF ~IsEnabled(c) THEN toUpdate
                ELSE [toUpdate EXCEPT ![c] =
                        IF kind = "recv" THEN load'[c] ELSE Expected(c) + 1]

DisableAll(S) ==
    stat' = [c \in Conns |-> IF c \in S /\ IsEnabled(c) THEN Marked(stat[c].val)
                                                        ELSE stat[c]]

-----------------------------------------------------------------------------
(* Packets and coroutines: everything before poll_stats. *)

Calm    == -1
Running == ~panicked /\ phase = "work"
Served(c) == life[c] \in {"open", "ended", "moving"}   \* is in `established`
BucketVars == [of |-> buckets, at |-> position]

(* poll_accept: packets buffered while the connection was on its way are   *)
(* received first, the FIN of its peer perhaps among them, and only then   *)
(* are the statistics enabled.                                             *)
Accept(c, n, fin) ==
    LET initial == IF kind = "recv" THEN n ELSE 0
        b == IF initial > 0 THEN PushIntoBucket(BucketVars, c, Index(initial))
                            ELSE BucketVars
    IN  /\ Running /\ life[c] = "none" /\ stat[c] = Disabled
        /\ life' = [life EXCEPT ![c] = IF fin THEN "ended" ELSE "open"]
        /\ load' = [load EXCEPT ![c] = initial]
        /\ stat' = [stat EXCEPT ![c] = Enabled(initial)]
        /\ toUpdate' = [toUpdate EXCEPT ![c] = None]
        /\ global' = global + initial
        /\ handles' = Append(handles, c)
        /\ buckets' = b.of /\ position' = b.at
        /\ UNCHANGED <<kind, allowance, signal, phase, panicked>>

(* Receiver::push and pop; without effect on a handle that is not enabled. *)
Push(c) ==
    /\ Running /\ life[c] = "open" /\ load[c] < MaxLoad
    /\ FoldFunction(+, 0, load) < MaxTotal
    /\ load' = [load EXCEPT ![c] = @ + 1]
    /\ Note(c)
    /\ UNCHANGED <<kind, life, stat, position, listVars, allowance, signal, phase,
                   panicked>>

Pop(c) ==
    /\ Running /\ kind = "recv" /\ IsEnabled(c) /\ load[c] > 0
    /\ load' = [load EXCEPT ![c] = @ - 1]
    /\ Note(c)
    /\ UNCHANGED <<kind, life, stat, position, listVars, allowance, signal, phase,
                   panicked>>

(* A FIN or RST arrives, or the application closes. *)
EndOf(c) ==
    /\ Running /\ life[c] = "open"
    /\ life' = [life EXCEPT ![c] = "ended"]
    /\ load' = [load EXCEPT ![c] = 0]
    /\ DisableAll({c})
    /\ UNCHANGED <<kind, toUpdate, position, listVars, allowance, signal,
                   phase, panicked>>

(* initiate_migration_by_qd: the application asks for a migration. *)
InitiateByQd(c) ==
    /\ Running /\ life[c] = "open"
    /\ life' = [life EXCEPT ![c] = "moving"]
    /\ load' = [load EXCEPT ![c] = 0]
    /\ DisableAll({c})
    /\ UNCHANGED <<kind, toUpdate, position, listVars, allowance, signal,
                   phase, panicked>>

(* migrate_out_connection: the target acknowledged. *)
MigrateOut(c) ==
    /\ Running /\ life[c] = "moving"
    /\ life' = [life EXCEPT ![c] = "none"]
    /\ UNCHANGED <<kind, load, handleVars, listVars, allowance, signal, phase, panicked>>

(* receive_rps_signal keeps the last signal: the share of the load this    *)
(* host may keep, or Calm when it is not the loaded one or all are idle.   *)
ReceiveRpsSignal(s) ==
    /\ Running /\ kind = "rps"
    /\ signal' = s
    /\ UNCHANGED <<kind, life, load, handleVars, listVars, allowance, phase,
                   panicked>>

-----------------------------------------------------------------------------
(* Stats::poll.  Each turn of its loop drops one handle or steps over one, *)
(* so there are as many turns as there are handles.  A control block whose *)
(* handle is dropped is not followed further: its name is free again.      *)

Polled == [i |-> 1, handles |-> handles, b |-> BucketVars, global |-> global,
           stat |-> stat, toUpdate |-> toUpdate, ok |-> TRUE]

DropHandle(p, c) ==
    [p EXCEPT !.handles = SwapRemove(@, p.i),
              !.b = IF @.at[c] = None THEN @ ELSE BucketRemove(@, @.at[c]),
              !.stat[c] = Disabled,
              !.global = @ - p.stat[c].val,
              !.ok = @ /\ p.global >= p.stat[c].val]

UpdateHandle(p, c) ==
    LET n == p.toUpdate[c]
        seen == [p EXCEPT !.i = @ + 1, !.toUpdate[c] = None]
    IN  IF n = None \/ n = p.stat[c].val THEN seen
        ELSE [seen EXCEPT !.global = @ + n - p.stat[c].val,
                          !.stat[c] = Enabled(n),
                          !.b = BucketUpdate(@, c, n)]

PollHandle(p) ==
    LET c == p.handles[p.i] IN
    CASE p.stat[c].tag = "MarkedForDisable" -> DropHandle(p, c)
      [] p.stat[c].tag = "Enabled" -> UpdateHandle(p, c)
      [] OTHER -> [p EXCEPT !.ok = FALSE]

PollStats ==
    LET p == FoldLeft(LAMBDA acc, c : PollHandle(acc), Polled, handles) IN
    /\ Running
    /\ handles' = p.handles /\ buckets' = p.b.of /\ position' = p.b.at
    /\ global' = p.global /\ stat' = p.stat /\ toUpdate' = p.toUpdate
    /\ panicked' = ~p.ok
    /\ life' = [c \in Conns |-> IF p.stat[c] = Disabled THEN "none" ELSE life[c]]
    /\ phase' = "polled"
    /\ UNCHANGED <<kind, load, allowance, signal>>

-----------------------------------------------------------------------------
(* connections_to_proactively_migrate: the handles in the order in which   *)
(* they are considered, first those as large as the excess, ascending,     *)
(* then the smaller ones, descending.                                      *)
InOrder(lo, hi)  == [k \in 1..(hi - lo + 1) |-> Reverse(buckets[lo + k - 1])]
ConsideredLarge(threshold) ==      \* mutant: the smaller ones are left out
    FlattenSeq(InOrder(Index(global - threshold), Cardinality(Indices) - 1))
Considered(threshold) ==
    LET top  == Cardinality(Indices)
        base == LET i == Index(global - threshold) IN IF i < top THEN i ELSE top
    IN  FlattenSeq(InOrder(base, top - 1) \o
                   Reverse(InOrder(0, base - 1)))

SumOf(s)    == FoldLeft(LAMBDA sum, c : sum + stat[c].val, 0, s)
Taken(s, n) == SubSeq(s, 1, n)

(* It stops at the first n that brings the load down to the threshold, or  *)
(* at a limit.                                                             *)
Enough(s, threshold, n) ==
    \/ n = Len(s) \/ n = MaxExtracted
    \/ global - SumOf(Taken(s, n)) <= threshold
    \/ allowance # None /\ n >= allowance
Selection(threshold) ==
    LET s == Considered(threshold)
        n == CHOOSE k \in 1..Len(s) : /\ Enough(s, threshold, k)
                                      /\ \A j \in 1..(k - 1) : ~Enough(s, threshold, j)
    IN  IF (allowance # None /\ allowance <= 0) \/ global <= threshold \/ s = <<>>
          THEN <<>> ELSE Taken(s, n)

(* reset_stats visits the buckets; it also runs when nothing is migrated.  *)
ResetVisited == {c \in Conns : \E i \in Indices : \E k \in DOMAIN buckets[i] :
                                    buckets[i][k] = c}

(* rps_signal_action: initiate_migration_by_addr for every one selected,   *)
(* which must be enabled, have a descriptor and be established.            *)
NoSignal ==
    /\ ~panicked /\ phase = "polled" /\ signal = None
    /\ phase' = "work"
    /\ UNCHANGED <<kind, life, load, handleVars, listVars, allowance, signal,
                   panicked>>

RpsSignalAction ==
    LET picked == IF signal = Calm THEN <<>> ELSE Selection(signal) IN
    /\ ~panicked /\ phase = "polled" /\ signal # None
    /\ panicked' = \E i \in DOMAIN picked :
                      ~(IsEnabled(picked[i]) /\ Served(picked[i]))
    /\ allowance' = IF allowance = None THEN None ELSE allowance - Len(picked)
    /\ DisableAll(ToSet(picked))
    /\ life' = [c \in Conns |-> IF c \in ToSet(picked) THEN "moving" ELSE life[c]]
    /\ toUpdate' = [c \in Conns |-> IF c \in ResetVisited THEN 0 ELSE toUpdate[c]]
    /\ load' = [c \in Conns |-> 0]
    /\ signal' = None /\ phase' = "work"
    /\ UNCHANGED <<kind, position, listVars>>

-----------------------------------------------------------------------------
Init ==
    /\ kind \in {"recv", "rps"}
    /\ life = [c \in Conns |-> "none"]
    /\ load = [c \in Conns |-> 0]
    /\ stat = [c \in Conns |-> Disabled]
    /\ toUpdate = [c \in Conns |-> None]
    /\ handles = <<>> /\ global = 0
    /\ buckets = EmptyBuckets.of /\ position = EmptyBuckets.at
    /\ allowance \in Allowances
    /\ signal = None /\ phase = "work" /\ panicked = FALSE

Next ==
    \/ \E c \in Conns :
        \/ \E n \in 0..1, fin \in BOOLEAN : Accept(c, n, fin)
        \/ Push(c) \/ Pop(c) \/ EndOf(c) \/ InitiateByQd(c) \/ MigrateOut(c)
    \/ \E s \in Thresholds \cup {Calm} : ReceiveRpsSignal(s)
    \/ PollStats \/ NoSignal \/ RpsSignalAction

Spec == Init /\ [][Next]_vars

-----------------------------------------------------------------------------
(* Properties. *)

Sum(S) == FoldFunctionOnSet(+, 0, [c \in Conns |-> stat[c].val], S)

(* global_stat is the load of the connections that are counted, whatever   *)
(* polls, disables and enables came between, and the value a handle will   *)
(* have at the next poll is the true queue length, or the true number of   *)
(* requests since the last signal (Stats::poll, StatsHandle::increment,    *)
(* reset_stats).                                                           *)
LoadIsTrue ==
    /\ global = Sum(ToSet(handles))
    /\ \A c \in Conns : IsEnabled(c) => Expected(c) = load[c]

(* The three records of a handle agree: it is in the list to poll, once,   *)
(* until it is disabled, and in the bucket of its value at the position it *)
(* knows if and only if its value is not zero.  swap_remove moves handles  *)
(* about in both lists.                                                    *)
ListsAgree ==
    /\ IsInjective(handles)
    /\ \A c \in Conns :
        /\ stat[c].tag # "Disabled" <=> c \in ToSet(handles)
        /\ position[c] # None <=> stat[c].val > 0
        /\ position[c] # None => /\ position[c][1] = Index(stat[c].val)
                                 /\ position[c][2] \in DOMAIN buckets[position[c][1]]
                                 /\ buckets[position[c][1]][position[c][2]] = c
    /\ \A i \in Indices : \A k \in DOMAIN buckets[i] :
            position[buckets[i][k]] = <<i, k>>

(* A host never panics over its statistics: the connections it selects are *)
(* enabled, established and have a descriptor, because poll_stats has just *)
(* dropped those that ended or migrated since ("bucket list stat not       *)
(* enabled", "no QD found for connection").                                *)
NeverPanics == ~panicked

(* "Extracts connections so that the global stat goes below the threshold":*)
(* what stays after a signal is at most the threshold unless a limit       *)
(* stopped the selection, without the last one it would be more, and       *)
(* nothing is picked on a host that is not overloaded.                     *)
Moved == {c \in Conns : life[c] # "moving" /\ life'[c] = "moving"}
SelectionRelieves ==
    [][RpsSignalAction =>
        LET left == global - Sum(Moved) IN
        /\ signal # Calm =>
            \/ left <= signal
            \/ Cardinality(Moved) = MaxExtracted
            \/ allowance # None /\ Cardinality(Moved) >= allowance
        /\ Moved # {} =>
            /\ signal # Calm
            /\ \E c \in Moved : left + stat[c].val > signal]_vars

(* The handles hold together, and so nothing that relies on it panics       *)
(* (StatsHandle, poll_stats, rps_signal_action).                            *)
HandlesHold == ListsAgree /\ NeverPanics
=============================================================================

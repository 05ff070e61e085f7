--------------------------------- MODULE Arp ---------------------------------
(***************************************************************************)
(* Address resolution on one host: the ARP cache whose entries expire      *)
(* (arp/cache/mod.rs over hashttlcache/mod.rs) and the queries of the      *)
(* coroutines that need an address (arp/peer.rs), each of which sends a    *)
(* request, waits on a one-shot channel, and repeats the request when its  *)
(* timer expires.                                                          *)
(*                                                                         *)
(* A link-layer address is not told apart from another: what matters is    *)
(* whether one is known.  Requests and replies may be lost, late or        *)
(* repeated, so that at any moment a message of any neighbour may arrive,  *)
(* or none may ever.                                                       *)
(***************************************************************************)
EXTENDS Naturals, FiniteSets

CONSTANTS
    Addrs,          \* IPv4 addresses of neighbours
    Queries,        \* coroutines that resolve addresses
    AddrOf,         \* the address each of them resolves
    RetryCount      \* arp_config.get_retry_count()

ASSUME ArpAssumption ==
    /\ AddrOf \in [Queries -> Addrs]
    /\ RetryCount \in Nat

VARIABLES
    cache,          \* what the cache holds for an address
    waiters,        \* queries in the wait queue of an address
    tries,          \* requests a query has sent; 0 when there is none
    channel,        \* its one-shot channel: "empty", "answer" or "dropped"
    panicked        \* whether the process has aborted

queryVars == <<tries, channel>>
arpVars == <<cache, waiters, queryVars>>

Known(a)    == cache[a] # "none"      \* get(): expired entries included
Running     == ~panicked
Waiting(q)  == tries[q] > 0

-----------------------------------------------------------------------------
(* The cache. *)

(* An entry is older than its time to live.  It stays in the map, and is   *)
(* found there, until the next insertion cleans up.                        *)
Expire(a) ==
    /\ Running /\ cache[a] = "live"
    /\ cache' = [cache EXCEPT ![a] = "expired"]
    /\ UNCHANGED <<waiters, queryVars, panicked>>

Inserted(a) ==
    cache' = [b \in Addrs |-> IF b = a THEN "live"
                              ELSE IF cache[b] = "expired" THEN "none"
                              ELSE cache[b]]

(* do_insert: everybody who waits for the address is answered. *)
DoInsert(a) ==
    /\ channel' = [q \in Queries |-> IF q \in waiters[a] THEN "answer"
                                                         ELSE channel[q]]
    /\ waiters' = [waiters EXCEPT ![a] = {}]
    /\ Inserted(a)

(* receive(): a message whose sender is a.  One that is not for us only    *)
(* refreshes what is known already.                                        *)
Receive(a, forUs) ==
    /\ Running
    /\ Known(a) \/ forUs
    /\ DoInsert(a)
    /\ UNCHANGED <<tries, panicked>>

-----------------------------------------------------------------------------
(* Queries. *)

(* The address is in the cache, or the query waits for it. *)
StartUnregistered(q) ==            \* mutant: no entry in the wait queue
    /\ Running /\ ~Waiting(q) /\ ~Known(AddrOf[q])
    /\ tries' = [tries EXCEPT ![q] = 1]
    /\ UNCHANGED <<cache, waiters, channel, panicked>>
DoWaitLinkAddr(q) == waiters' = [waiters EXCEPT ![AddrOf[q]] = @ \cup {q}]
Start(q) ==
    /\ Running /\ ~Waiting(q) /\ ~Known(AddrOf[q])
    /\ tries' = [tries EXCEPT ![q] = 1]
    /\ DoWaitLinkAddr(q)
    /\ UNCHANGED <<cache, channel, panicked>>

Ended(q, rest) ==
    /\ tries' = [tries EXCEPT ![q] = 0]
    /\ channel' = [rest EXCEPT ![q] = "empty"]

(* The coroutine is polled and finds an answer ... *)
Answered(q) ==
    /\ Running /\ Waiting(q) /\ channel[q] = "answer"
    /\ Ended(q, channel)
    /\ UNCHANGED <<cache, waiters, panicked>>

(* ... or finds that the other end of its channel is gone:                 *)
(* expect("Dropped waiter?").                                              *)
Dropped(q) ==
    /\ Running /\ Waiting(q) /\ channel[q] = "dropped"
    /\ panicked' = TRUE
    /\ UNCHANGED arpVars

(* ... or that its timer has expired; when both is the case select! takes  *)
(* either.  After the last request the wait queue of the address is        *)
(* dropped, with the channels of everybody in it (do_drop).                *)
RetryUncounted(q) ==               \* mutant: the request is not counted
    /\ Running /\ Waiting(q) /\ tries[q] <= RetryCount
    /\ UNCHANGED <<arpVars, panicked>>
Retry(q) ==
    /\ Running /\ Waiting(q) /\ tries[q] <= RetryCount
    /\ tries' = [tries EXCEPT ![q] = @ + 1]
    /\ UNCHANGED <<cache, waiters, channel, panicked>>

GiveUp(q) ==
    LET a == AddrOf[q] IN
    /\ Running /\ Waiting(q) /\ tries[q] > RetryCount
    /\ Ended(q, [r \in Queries |-> IF r \in waiters[a] THEN "dropped" ELSE channel[r]])
    /\ waiters' = [waiters EXCEPT ![a] = {}]
    /\ UNCHANGED <<cache, panicked>>

(* A coroutine is dropped: its end of the channel goes, and what is left   *)
(* of it in the wait queue has no effect any more.                         *)
Cancel(q) ==
    /\ Running /\ Waiting(q)
    /\ Ended(q, channel)
    /\ waiters' = [waiters EXCEPT ![AddrOf[q]] = @ \ {q}]
    /\ UNCHANGED <<cache, panicked>>

-----------------------------------------------------------------------------
(* Some addresses may be configured (initial values). *)
NewCache == cache \in [Addrs -> {"none", "live"}]
ArpInit ==
    /\ NewCache
    /\ waiters  = [a \in Addrs |-> {}]
    /\ tries    = [q \in Queries |-> 0]
    /\ channel  = [q \in Queries |-> "empty"]
    /\ panicked = FALSE

(* background(): the clock of the cache goes on. *)
Background == \E a \in Addrs : Expire(a)

(* What the neighbours and the clock do to the cache. *)
Neighbours == Background \/ \E a \in Addrs, forUs \in BOOLEAN : Receive(a, forUs)

-----------------------------------------------------------------------------
(* Properties. *)

(* Whoever waits and was neither answered nor dropped is in the wait queue *)
(* of its address, where the next message finds it, and nobody else is;    *)
(* and nobody waits for an address that is known: a message that arrives   *)
(* between the look at the cache and the wait, an expiry, or a query that  *)
(* gives up leave no waiter behind (do_insert, do_drop, do_wait_link_addr).*)
WaitersAreQueued ==
    /\ \A q \in Queries, a \in Addrs :
          q \in waiters[a] <=> Waiting(q) /\ channel[q] = "empty" /\ a = AddrOf[q]
    /\ \A a \in Addrs : Known(a) => waiters[a] = {}
=============================================================================

---------------------------- MODULE BoundedQueue ----------------------------
(* skai::BoundedQueue (core/bounded_queue.hpp) with its threads and its      *)
(* condition variable: producers push and then notify, consumers sleep in    *)
(* pop or pop_for, and the owner discards, shuts down and resets.  A value   *)
(* is the number of the accepted push that brought it.                       *)
EXTENDS QueueOps, FiniteSets

CONSTANTS Producers,   \* threads that push
          Consumers,   \* threads that pop
          Capacity,    \* capacity_
          MaxPush      \* bound on the pushes of one lifecycle

ASSUME ThreadsAssumption == /\ IsFiniteSet(Producers) /\ IsFiniteSet(Consumers)
                            /\ Producers \cap Consumers = {}
ASSUME CapacityAssumption == Capacity \in Nat \ {0}
ASSUME MaxPushAssumption == MaxPush \in Nat

VARIABLES q,       \* queue_, shutdown_ and stats_
          pc,      \* where each producer and consumer is
          timed,   \* consumers whose current wait is pop_for's
          owner    \* "notify_all" between the two halves of shutdown

vars == << q, pc, timed, owner >>

Pending == {p \in Producers : pc[p] = "notify"}
Asleep  == {c \in Consumers : pc[c] = "asleep"}
Awake   == {c \in Consumers : pc[c] \in {"woken", "expired"}}

Init == /\ q = reset
        /\ pc = [t \in Producers \cup Consumers |-> "idle"]
        /\ timed = {}
        /\ owner = "idle"

(* push under the mutex; a push after shutdown returns false and changes nothing. *)
Push(p) == /\ pc[p] = "idle"
           /\ ~q.shutdown
           /\ q.pushed < MaxPush
           /\ q' = push(q, Capacity, q.pushed + 1)
           /\ pc' = [pc EXCEPT ![p] = "notify"]
           /\ UNCHANGED << timed, owner >>

(* Mutant of NotifyOne: the notification is forgotten. *)
NotifyOne_Lost(p) == /\ pc[p] = "notify"
                     /\ pc' = [pc EXCEPT ![p] = "idle"]
                     /\ UNCHANGED << q, timed, owner >>

(* available_.notify_one() after the unlock: any one sleeper, or nobody. *)
NotifyOne(p) ==
    /\ pc[p] = "notify"
    /\ \/ /\ Asleep = {}
          /\ pc' = [pc EXCEPT ![p] = "idle"]
       \/ \E c \in Asleep : pc' = [pc EXCEPT ![p] = "idle", ![c] = "woken"]
    /\ UNCHANGED << q, timed, owner >>

(* pop (forever = TRUE) and pop_for: take at once or go to sleep. *)
Pop(c, forever) ==
    /\ pc[c] = "idle"
    /\ IF available(q)
       THEN q' = take_front(q) /\ UNCHANGED << pc, timed >>
       ELSE /\ pc' = [pc EXCEPT ![c] = "asleep"]
            /\ timed' = IF forever THEN timed \ {c} ELSE timed \cup {c}
            /\ UNCHANGED q
    /\ UNCHANGED owner

(* A spurious wake-up, or the expiry of pop_for's timeout. *)
Wake(c) == /\ pc[c] = "asleep"
           /\ \/ pc' = [pc EXCEPT ![c] = "woken"]
              \/ c \in timed /\ pc' = [pc EXCEPT ![c] = "expired"]
           /\ UNCHANGED << q, timed, owner >>

(* The woken consumer has the mutex again and re-evaluates the predicate. *)
Resume(c) ==
    /\ pc[c] \in {"woken", "expired"}
    /\ IF available(q)
       THEN q' = take_front(q) /\ pc' = [pc EXCEPT ![c] = "idle"]
       ELSE /\ pc' = [pc EXCEPT ![c] = IF @ = "expired" THEN "idle" ELSE "asleep"]
            /\ UNCHANGED q
    /\ UNCHANGED << timed, owner >>

(* shutdown's critical section. *)
Shutdown == /\ owner = "idle"
            /\ q' = shutdown(q)
            /\ owner' = "notify_all"
            /\ UNCHANGED << pc, timed >>

(* available_.notify_all() after shutdown's unlock. *)
NotifyAll == /\ owner = "notify_all"
             /\ pc' = [t \in Producers \cup Consumers |->
                          IF t \in Asleep THEN "woken" ELSE pc[t]]
             /\ owner' = "idle"
             /\ UNCHANGED << q, timed >>

DiscardAll == /\ owner = "idle"
              /\ q' = discard_all(q)
              /\ UNCHANGED << pc, timed, owner >>

(* reset's contract: "after all producers and consumers have stopped". *)
Reset == /\ owner = "idle"
         /\ \A t \in Producers \cup Consumers : pc[t] = "idle"
         /\ q' = reset
         /\ UNCHANGED << pc, timed, owner >>

Next == \/ \E p \in Producers : Push(p) \/ NotifyOne(p)
        \/ \E c \in Consumers : \/ \E forever \in BOOLEAN : Pop(c, forever)
                                \/ Wake(c)
                                \/ Resume(c)
        \/ Shutdown \/ NotifyAll \/ DiscardAll \/ Reset

Spec == Init /\ [][Next]_vars

(* A thread that has left a critical section runs on, and a thread that was  *)
(* woken gets the mutex: both are scheduling of the operating system.        *)
Fairness == /\ \A p \in Producers : WF_vars(NotifyOne(p))
            /\ \A c \in Consumers : WF_vars(Resume(c))
            /\ WF_vars(NotifyAll)

FairSpec == Spec /\ Fairness
-----------------------------------------------------------------------------
QueueType == [items : Seq(Nat), shutdown : BOOLEAN, pushed : Nat, popped : Nat,
              dropped : Nat, discarded : Nat, high_water_mark : Nat]

(* The type of queue_, shutdown_, stats_ and of the threads' positions. *)
TypeOK == /\ q \in QueueType
          /\ pc \in [Producers \cup Consumers ->
                        {"idle", "notify", "asleep", "woken", "expired"}]
          /\ \A p \in Producers : pc[p] \in {"idle", "notify"}
          /\ \A c \in Consumers : pc[c] # "notify"
          /\ timed \in SUBSET Consumers
          /\ owner \in {"idle", "notify_all"}

(* Every accepted push is accounted for exactly once: popped, dropped by     *)
(* overflow, discarded, or still buffered (QueueStats against queue_).       *)
Accounting == q.pushed = q.popped + q.dropped + q.discarded + Len(q.items)

(* queue_ never holds more than capacity_ values between two calls and the   *)
(* high-water mark covers what it holds and never passes the capacity.       *)
CapacityBound == /\ Len(q.items) <= q.high_water_mark
                 /\ q.high_water_mark <= Capacity

(* Drop-oldest: what is buffered is exactly the newest Len(queue_) accepted  *)
(* values, in push order, whatever mixture of pops, drops and discards       *)
(* removed the older ones.                                                   *)
NewestSuffix == \A i \in 1 .. Len(q.items) :
                   q.items[i] = q.pushed - Len(q.items) + i

(* What the media loops rely on when they compare stats().dropped: a popped  *)
(* value is preceded by exactly the popped, dropped and discarded values, so *)
(* a gap in front of it is visible in the counters.                          *)
GapsAreCounted ==
    [][q'.popped = q.popped + 1 =>
          Head(q.items) = q.popped + q.dropped + q.discarded + 1]_vars

(* The queue is the channel that its users think of: however the threads     *)
(* interleave, each critical section is one step of it, and waits and        *)
(* notifications are none.  The window ends where the buffer begins.         *)
Channel == INSTANCE DropOldestChannel
             WITH lo       <- IF q.items = << >> THEN q.pushed ELSE Head(q.items) - 1,
                  hi       <- q.pushed,
                  received <- q.popped,
                  missed   <- q.dropped + q.discarded,
                  open     <- ~q.shutdown

ImplementsChannel == Channel!Spec

(* No lost wake-up: when a consumer sleeps although values are buffered, a   *)
(* notification or an awake consumer is on its way for each of the values;   *)
(* after shutdown nobody sleeps unless notify_all is still to come.          *)
NoLostWakeup == Asleep # {} =>
    /\ Len(q.items) <= Cardinality(Pending) + Cardinality(Awake)
    /\ q.shutdown => owner = "notify_all"

(* A value that waits while a consumer is blocked does not stay: it is       *)
(* taken, dropped or discarded (push's notify_one reaches somebody).         *)
BlockedConsumersDrain ==
    \A n \in 1 .. MaxPush :
       (Asleep # {} /\ q.items # << >> /\ Head(q.items) = n)
          ~> (q.items = << >> \/ Head(q.items) # n \/ Asleep = {})
=============================================================================

------------------------------ MODULE QueueOps ------------------------------
(* The critical sections of skai::BoundedQueue (core/bounded_queue.hpp) as   *)
(* operators on one record.  Every method body runs under mutex_, so each is *)
(* one atomic change of the record; the notifications that follow the unlock *)
(* are steps of their own and belong to module BoundedQueue.  The modules    *)
(* that own a queue (WHEP session, WHIP publisher, recorder) use these same  *)
(* operators.                                                                *)
EXTENDS Integers, Sequences

(* A freshly constructed or reset queue: queue_, shutdown_ and stats_. *)
reset == [items |-> << >>, shutdown |-> FALSE, pushed |-> 0, popped |-> 0,
          dropped |-> 0, discarded |-> 0, high_water_mark |-> 0]

(* Mutant of push: the overflow check is off by one. *)
push_OffByOne(q, capacity, v) ==
    LET grown == Append(q.items, v)
        over  == Len(grown) > capacity + 1
        kept  == IF over THEN Tail(grown) ELSE grown
    IN  [q EXCEPT !.items = kept, !.pushed = @ + 1,
                  !.dropped = IF over THEN @ + 1 ELSE @,
                  !.high_water_mark = IF Len(kept) > @ THEN Len(kept) ELSE @]

(* Mutant of push: the newest value is the one that overflow removes. *)
push_DropNewest(q, capacity, v) ==
    LET over == Len(q.items) = capacity
        kept == IF over THEN q.items ELSE Append(q.items, v)
    IN  [q EXCEPT !.items = kept, !.pushed = @ + 1,
                  !.dropped = IF over THEN @ + 1 ELSE @,
                  !.high_water_mark = IF Len(kept) > @ THEN Len(kept) ELSE @]

(* push past the shutdown check: append, drop the oldest on overflow, count. *)
push(q, capacity, v) ==
    LET grown == Append(q.items, v)
        over  == Len(grown) > capacity
        kept  == IF over THEN Tail(grown) ELSE grown
    IN  [q EXCEPT !.items = kept, !.pushed = @ + 1,
                  !.dropped = IF over THEN @ + 1 ELSE @,
                  !.high_water_mark = IF Len(kept) > @ THEN Len(kept) ELSE @]

(* The predicate both pop and pop_for wait for. *)
available(q) == q.shutdown \/ q.items # << >>

(* take_front: the returned value is Head(q.items), nothing when empty. *)
take_front(q) ==
    IF q.items = << >> THEN q
    ELSE [q EXCEPT !.items = Tail(@), !.popped = @ + 1]

shutdown(q) == [q EXCEPT !.shutdown = TRUE]

discard_all(q) == [q EXCEPT !.items = << >>, !.discarded = @ + Len(q.items)]
=============================================================================

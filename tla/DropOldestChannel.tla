-------------------------- MODULE DropOldestChannel -------------------------
(* What skai::BoundedQueue promises, without threads, buffers or wake-ups: a *)
(* stream of values numbered 1, 2, ... of which a window of the newest is    *)
(* held.  Values leave in order, only a full window gives up its oldest, and *)
(* every value that left is counted in received or in missed, so a receiver  *)
(* finds every gap before a value in missed.                                 *)
EXTENDS Naturals

CONSTANT Capacity

VARIABLES lo, hi,   \* values lo + 1 .. hi are held, hi were accepted
          received, missed,   \* values that were received, that were not
          open      \* values are accepted

chan == << lo, hi, received, missed, open >>

Init == lo = 0 /\ hi = 0 /\ received = 0 /\ missed = 0 /\ open = TRUE

(* Accept a value into the window ... *)
Send == /\ open /\ hi - lo < Capacity
        /\ hi' = hi + 1
        /\ UNCHANGED << lo, received, missed, open >>

(* ... or, when it is full, in place of the oldest. *)
SendOver == /\ open /\ hi - lo = Capacity
            /\ hi' = hi + 1 /\ lo' = lo + 1 /\ missed' = missed + 1
            /\ UNCHANGED << received, open >>

(* Hand the oldest value to a receiver; closing does not prevent it. *)
Receive == /\ lo < hi
           /\ lo' = lo + 1 /\ received' = received + 1
           /\ UNCHANGED << hi, missed, open >>

(* Give up everything that is held. *)
Discard == /\ lo' = hi /\ missed' = missed + (hi - lo)
           /\ UNCHANGED << hi, received, open >>

Close == open' = FALSE /\ UNCHANGED << lo, hi, received, missed >>

Reopen == lo' = 0 /\ hi' = 0 /\ received' = 0 /\ missed' = 0 /\ open' = TRUE

Next == Send \/ SendOver \/ Receive \/ Discard \/ Close \/ Reopen

Spec == Init /\ [][Next]_chan
=============================================================================

------------------------- MODULE BoundedQueueProofs -------------------------
(* Theorems about BoundedQueue for every capacity and every set of threads.  *)
EXTENDS BoundedQueue, FiniteSetTheorems, TLAPS

(* A buffer s after p accepted pushes of which l were popped, dropped or     *)
(* discarded, under the high-water mark h.                                   *)
Balanced(s, p, l, h) == /\ p = l + Len(s)
                        /\ Len(s) <= h
                        /\ h <= Capacity
                        /\ \A i \in 1 .. Len(s) : s[i] = p - Len(s) + i

(* What a queue record satisfies between two critical sections. *)
Sound(r) == /\ r \in QueueType
            /\ Balanced(r.items, r.pushed, r.popped + r.dropped + r.discarded,
                        r.high_water_mark)

(* The sequence facts the queue operations need. *)
LEMMA AppendFacts ==
    ASSUME NEW s \in Seq(Nat), NEW v \in Nat
    PROVE  /\ Len(s) \in Nat
           /\ Append(s, v) \in Seq(Nat)
           /\ Append(s, v) # << >>
           /\ Len(Append(s, v)) = Len(s) + 1
           /\ \A i \in 1 .. Len(s) : Append(s, v)[i] = s[i]
           /\ Append(s, v)[Len(s) + 1] = v
OBVIOUS

(* The same for removing the oldest value. *)
LEMMA TailFacts ==
    ASSUME NEW s \in Seq(Nat), s # << >>
    PROVE  /\ Len(s) \in Nat \ {0}
           /\ Tail(s) \in Seq(Nat)
           /\ Len(Tail(s)) = Len(s) - 1
           /\ Head(s) = s[1]
           /\ \A i \in 1 .. Len(s) - 1 : Tail(s)[i] = s[i + 1]
OBVIOUS

(* The fields of a queue record have their types. *)
LEMMA QueueFields ==
    ASSUME NEW r \in QueueType
    PROVE  /\ r.items \in Seq(Nat) /\ Len(r.items) \in Nat
           /\ r.shutdown \in BOOLEAN
           /\ r.pushed \in Nat /\ r.popped \in Nat /\ r.dropped \in Nat
           /\ r.discarded \in Nat /\ r.high_water_mark \in Nat
BY DEF QueueType

(* Appending value p + 1 while there is room. *)
LEMMA BalancedAppend ==
    ASSUME NEW s \in Seq(Nat), NEW p \in Nat, NEW l \in Nat, NEW h \in Nat,
           Balanced(s, p, l, h), ~(Len(Append(s, p + 1)) > Capacity), 
           NEW m, m = IF Len(Append(s, p + 1)) > h THEN Len(Append(s, p + 1)) ELSE h
    PROVE  Balanced(Append(s, p + 1), p + 1, l, m)
<1>1. Capacity \in Nat
  BY CapacityAssumption
<1> DEFINE g == Append(s, p + 1)
<1>2. /\ Len(s) \in Nat /\ g \in Seq(Nat) /\ Len(g) = Len(s) + 1
      /\ \A i \in 1 .. Len(s) : g[i] = s[i]
      /\ g[Len(s) + 1] = p + 1
  BY AppendFacts
<1>3. \A i \in 1 .. Len(g) : g[i] = p + 1 - Len(g) + i
  <2> SUFFICES ASSUME NEW i \in 1 .. Len(g) PROVE g[i] = p + 1 - Len(g) + i
    OBVIOUS
  <2>1. CASE i = Len(s) + 1
    <3> HIDE DEF g
    <3> QED BY <1>2, <2>1
  <2>2. CASE i \in 1 .. Len(s)
    <3>1. s[i] = p - Len(s) + i
      BY <2>2 DEF Balanced
    <3> HIDE DEF g
    <3> QED BY <1>2, <2>2, <3>1
  <2> HIDE DEF g
  <2> QED BY <1>2, <2>1, <2>2
<1>4. p + 1 = l + Len(g) /\ Len(g) <= m /\ m <= Capacity
  <2>1. p = l + Len(s) /\ h <= Capacity /\ ~(Len(g) > Capacity)
        /\ m = IF Len(g) > h THEN Len(g) ELSE h
    BY DEF Balanced
  <2> HIDE DEF g
  <2> QED BY <1>1, <1>2, <2>1
<1> QED BY <1>3, <1>4 DEF Balanced

(* Removing the oldest value; it is number l + 1. *)
LEMMA BalancedTail ==
    ASSUME NEW s \in Seq(Nat), NEW p \in Nat, NEW l \in Nat, NEW h \in Nat,
           Balanced(s, p, l, h), s # << >>
    PROVE  Balanced(Tail(s), p, l + 1, h) /\ Head(s) = l + 1
<1>1. /\ Len(s) \in Nat \ {0} /\ Tail(s) \in Seq(Nat)
      /\ Len(Tail(s)) = Len(s) - 1 /\ Head(s) = s[1]
      /\ \A i \in 1 .. Len(s) - 1 : Tail(s)[i] = s[i + 1]
  BY TailFacts
<1>2. /\ p = l + Len(s) /\ Len(s) <= h /\ h <= Capacity
      /\ \A i \in 1 .. Len(s) : s[i] = p - Len(s) + i
  BY DEF Balanced
<1>3. \A i \in 1 .. Len(Tail(s)) : Tail(s)[i] = p - Len(Tail(s)) + i
  BY <1>1, <1>2
<1>4. p = l + 1 + Len(Tail(s)) /\ Len(Tail(s)) <= h
  BY <1>1, <1>2
<1>5. Head(s) = l + 1
  BY <1>1, <1>2
<1> QED BY <1>2, <1>3, <1>4, <1>5 DEF Balanced

(* Appending value p + 1 to a full buffer drops the oldest one. *)
LEMMA BalancedOverflow ==
    ASSUME NEW s \in Seq(Nat), NEW p \in Nat, NEW l \in Nat, NEW h \in Nat,
           Balanced(s, p, l, h), Len(Append(s, p + 1)) > Capacity,
           NEW m, m = IF Len(Tail(Append(s, p + 1))) > h
                      THEN Len(Tail(Append(s, p + 1))) ELSE h
    PROVE  Balanced(Tail(Append(s, p + 1)), p + 1, l + 1, m)
<1>1. Capacity \in Nat \ {0}
  BY CapacityAssumption
<1>2. p = l + Len(s) /\ Len(s) <= h /\ h <= Capacity
  BY DEF Balanced
<1> DEFINE g == Append(s, p + 1)
           t == Tail(g)
<1>3. /\ Len(s) \in Nat /\ g \in Seq(Nat) /\ Len(g) = Len(s) + 1 /\ g # << >>
      /\ \A i \in 1 .. Len(s) : g[i] = s[i]
      /\ g[Len(s) + 1] = p + 1
  BY AppendFacts
<1>4. t \in Seq(Nat) /\ Len(t) = Len(s) /\ \A i \in 1 .. Len(s) : t[i] = g[i + 1]
  <2>1. /\ t \in Seq(Nat) /\ Len(t) = Len(g) - 1
        /\ \A i \in 1 .. Len(g) - 1 : t[i] = g[i + 1]
    BY <1>3, TailFacts, Zenon
  <2>2. Len(g) - 1 = Len(s)
    <3> HIDE DEF g
    <3> QED BY <1>3
  <2> QED BY <2>1, <2>2
<1>5. \A i \in 1 .. Len(t) : t[i] = p + 1 - Len(t) + i
  <2> SUFFICES ASSUME NEW i \in 1 .. Len(t) PROVE t[i] = p + 1 - Len(t) + i
    BY Zenon
  <2>1. i \in 1 .. Len(s) /\ t[i] = g[i + 1]
    <3> HIDE DEF t, g
    <3> QED BY <1>4
  <2>2. CASE i = Len(s)
    <3> HIDE DEF t, g
    <3> QED BY <1>3, <1>4, <2>1, <2>2
  <2>3. CASE i + 1 \in 1 .. Len(s)
    <3>1. s[i + 1] = p - Len(s) + (i + 1)
      BY <2>3 DEF Balanced
    <3>2. g[i + 1] = s[i + 1]
      <4> HIDE DEF t, g
      <4> QED BY <1>3, <2>3
    <3> HIDE DEF t, g
    <3> QED BY <1>3, <1>4, <2>1, <3>1, <3>2
  <2>4. i = Len(s) \/ i + 1 \in 1 .. Len(s)
    BY <1>3, <2>1
  <2> QED BY <2>2, <2>3, <2>4, Zenon
<1>6. p + 1 = l + 1 + Len(t) /\ Len(t) <= m /\ m <= Capacity
  <2>1. m = IF Len(t) > h THEN Len(t) ELSE h
    OBVIOUS
  <2> HIDE DEF t, g
  <2> QED BY <1>1, <1>2, <1>3, <1>4, <2>1
<1>7. Balanced(t, p + 1, l + 1, m)
  <2> HIDE DEF t, g
  <2> QED BY <1>5, <1>6 DEF Balanced
<1> QED BY <1>7

(* A new or reset queue is sound. *)
LEMMA SoundReset == Sound(reset)
BY CapacityAssumption DEF Sound, Balanced, QueueType, reset

(* push keeps a queue sound: an overflow moves one value from the buffer to  *)
(* the dropped count and leaves the newest suffix.                           *)
LEMMA SoundPush ==
    ASSUME NEW r, Sound(r)
    PROVE  /\ Sound(push(r, Capacity, r.pushed + 1))
           /\ Len(push(r, Capacity, r.pushed + 1).items) <= Len(r.items) + 1
           /\ push(r, Capacity, r.pushed + 1).shutdown = r.shutdown
           /\ push(r, Capacity, r.pushed + 1).popped = r.popped
<1> DEFINE v     == r.pushed + 1
           grown == Append(r.items, v)
           over  == Len(grown) > Capacity
           kept  == IF over THEN Tail(grown) ELSE grown
           d     == IF over THEN r.dropped + 1 ELSE r.dropped
           h     == IF Len(kept) > r.high_water_mark
                    THEN Len(kept) ELSE r.high_water_mark
           l     == r.popped + r.dropped + r.discarded
           n     == push(r, Capacity, v)
<1>1. /\ r \in QueueType
      /\ r.items \in Seq(Nat) /\ Len(r.items) \in Nat
      /\ r.pushed \in Nat /\ r.popped \in Nat /\ r.dropped \in Nat
      /\ r.discarded \in Nat /\ r.high_water_mark \in Nat /\ v \in Nat
      /\ l \in Nat
  BY QueueFields DEF Sound
<1>2. Balanced(r.items, r.pushed, l, r.high_water_mark)
  BY DEF Sound
<1>3. Balanced(kept, v, r.popped + d + r.discarded, h)
  <2>1. CASE over
    <3>1. Balanced(kept, v, l + 1, h)
      <4>1. kept = Tail(grown)
        BY <2>1
      <4>2. h = IF Len(Tail(grown)) > r.high_water_mark
                THEN Len(Tail(grown)) ELSE r.high_water_mark
        BY <4>1
      <4> HIDE DEF l, h, kept
      <4>3. Balanced(Tail(grown), v, l + 1, h)
        BY <1>1, <1>2, <2>1, <4>2, BalancedOverflow, Zenon
      <4> QED BY <4>1, <4>3
    <3>2. d = r.dropped + 1
      BY <2>1
    <3>3. l + 1 = r.popped + d + r.discarded
      <4>1. r.popped \in Nat /\ r.dropped \in Nat /\ r.discarded \in Nat
        BY <1>1
      <4> HIDE DEF d
      <4> QED BY <3>2, <4>1
    <3> QED BY <3>1, <3>3
  <2>2. CASE ~over
    <3>1. Balanced(kept, v, l, h)
      BY <1>1, <1>2, <2>2, BalancedAppend, Zenon
    <3>2. l = r.popped + d + r.discarded
      BY <1>1, <2>2
    <3> QED BY <3>1, <3>2
  <2> QED BY <2>1, <2>2
<1>4. grown \in Seq(Nat) /\ grown # << >> /\ Len(grown) = Len(r.items) + 1
  BY <1>1, AppendFacts, Zenon
<1>5. /\ kept \in Seq(Nat) /\ Len(kept) \in Nat /\ Len(kept) <= Len(r.items) + 1
      /\ d \in Nat
  <2>1. Tail(grown) \in Seq(Nat) /\ Len(Tail(grown)) = Len(grown) - 1
    BY <1>4, TailFacts
  <2>2. kept = Tail(grown) \/ kept = grown
    OBVIOUS
  <2>3. d \in Nat
    BY <1>1
  <2> HIDE DEF grown, kept, d
  <2>4. Len(r.items) \in Nat
    BY <1>1
  <2>5. Len(Tail(grown)) = Len(r.items)
    BY <1>4, <2>1, <2>4
  <2>6. CASE kept = grown
    BY <1>4, <2>3, <2>4, <2>6
  <2>7. CASE kept = Tail(grown)
    <3>1. kept \in Seq(Nat)
      BY <2>1, <2>7, Zenon
    <3>2. Len(kept) = Len(r.items)
      BY <2>5, <2>7, Zenon
    <3> QED BY <2>3, <2>4, <3>1, <3>2
  <2> QED BY <2>2, <2>6, <2>7
<1>6. h \in Nat
  <2> HIDE DEF kept
  <2> QED BY <1>1, <1>5
<1>7. n = [r EXCEPT !.items = kept, !.pushed = v, !.dropped = d,
                    !.high_water_mark = h]
  BY <1>1 DEF push, QueueType
<1>8. /\ n \in QueueType /\ n.items = kept /\ n.pushed = v /\ n.dropped = d
      /\ n.high_water_mark = h /\ n.popped = r.popped
      /\ n.discarded = r.discarded /\ n.shutdown = r.shutdown
  <2> HIDE DEF v, kept, d, h, n
  <2>1. n \in QueueType
    BY <1>1, <1>5, <1>6, <1>7, Zenon DEF QueueType
  <2> QED BY <1>1, <1>7, <2>1 DEF QueueType
<1>9. Sound(n)
  <2> HIDE DEF v, kept, d, h, n
  <2> QED BY <1>3, <1>8 DEF Sound
<1> QED BY <1>5, <1>8, <1>9, Zenon

(* take_front keeps a queue sound, and the value it returns comes right      *)
(* after everything that was popped, dropped or discarded before.            *)
LEMMA SoundTake ==
    ASSUME NEW r, Sound(r)
    PROVE  /\ Sound(take_front(r))
           /\ take_front(r).shutdown = r.shutdown
           /\ r.items = << >> => take_front(r) = r
           /\ r.items # << >> =>
                 /\ Head(r.items) = r.popped + r.dropped + r.discarded + 1
                 /\ Len(take_front(r).items) = Len(r.items) - 1
<1>1. CASE r.items = << >>
  BY <1>1 DEF take_front
<1>2. CASE r.items # << >>
  <2> DEFINE n == take_front(r)
             l == r.popped + r.dropped + r.discarded
             p == r.popped + 1
             t == Tail(r.items)
  <2>1. /\ r \in QueueType
        /\ r.items \in Seq(Nat) /\ Len(r.items) \in Nat
        /\ r.pushed \in Nat /\ r.popped \in Nat /\ r.dropped \in Nat
        /\ r.discarded \in Nat /\ r.high_water_mark \in Nat /\ l \in Nat
        /\ p \in Nat /\ l + 1 = p + r.dropped + r.discarded
    <3>1. r \in QueueType
      BY DEF Sound
    <3>2. /\ r.items \in Seq(Nat) /\ Len(r.items) \in Nat
          /\ r.pushed \in Nat /\ r.popped \in Nat /\ r.dropped \in Nat
          /\ r.discarded \in Nat /\ r.high_water_mark \in Nat
      BY <3>1, QueueFields
    <3>3. p \in Nat
      BY <3>2
    <3>4. l \in Nat
      BY <3>2
    <3>5. l + 1 = p + r.dropped + r.discarded
      BY <3>2
    <3> QED BY <3>1, <3>2, <3>3, <3>4, <3>5
  <2>2. t \in Seq(Nat) /\ Len(t) = Len(r.items) - 1
    BY <1>2, <2>1, TailFacts
  <2>3. Balanced(t, r.pushed, l + 1, r.high_water_mark) /\ Head(r.items) = l + 1
    <3>1. Balanced(r.items, r.pushed, l, r.high_water_mark)
      BY DEF Sound
    <3> HIDE DEF l
    <3> QED BY <1>2, <2>1, <3>1, BalancedTail, Zenon
  <2>4. n = [r EXCEPT !.items = t, !.popped = p]
    BY <1>2, <2>1 DEF take_front, QueueType
  <2>5. /\ n \in QueueType /\ n.items = t /\ n.pushed = r.pushed
        /\ n.popped = p /\ n.dropped = r.dropped
        /\ n.discarded = r.discarded /\ n.high_water_mark = r.high_water_mark
        /\ n.shutdown = r.shutdown
    <3> HIDE DEF n, p, t
    <3> QED BY <2>1, <2>2, <2>4, Zenon DEF QueueType
  <2>6. Sound(n)
    <3> HIDE DEF n, p, t
    <3> QED BY <2>1, <2>3, <2>5 DEF Sound
  <2> QED BY <1>2, <2>2, <2>3, <2>5, <2>6
<1> QED BY <1>1, <1>2

(* discard_all and shutdown keep a queue sound. *)
LEMMA SoundDiscardShutdown ==
    ASSUME NEW r, Sound(r)
    PROVE  /\ Sound(discard_all(r)) /\ discard_all(r).items = << >>
           /\ discard_all(r).shutdown = r.shutdown
           /\ discard_all(r).popped = r.popped
           /\ Sound(shutdown(r)) /\ shutdown(r).items = r.items
           /\ shutdown(r).popped = r.popped
<1>1. /\ r \in QueueType
      /\ r.items \in Seq(Nat) /\ Len(r.items) \in Nat
      /\ r.pushed \in Nat /\ r.popped \in Nat /\ r.dropped \in Nat
      /\ r.discarded \in Nat /\ r.high_water_mark \in Nat
  BY QueueFields DEF Sound
<1>2. Balanced(r.items, r.pushed, r.popped + r.dropped + r.discarded, r.high_water_mark)
  BY DEF Sound
<1>3. PICK c \in Nat : c = r.discarded + Len(r.items)
  BY <1>1
<1>4. /\ discard_all(r) \in QueueType /\ discard_all(r).items = << >>
      /\ discard_all(r).pushed = r.pushed /\ discard_all(r).popped = r.popped
      /\ discard_all(r).dropped = r.dropped /\ discard_all(r).discarded = c
      /\ discard_all(r).high_water_mark = r.high_water_mark
      /\ discard_all(r).shutdown = r.shutdown
  <2>1. discard_all(r) = [r EXCEPT !.items = << >>, !.discarded = c]
    BY <1>1, <1>3 DEF discard_all, QueueType
  <2>2. << >> \in Seq(Nat)
    OBVIOUS
  <2>3. discard_all(r) \in QueueType
    BY <1>1, <2>1, <2>2, Zenon DEF QueueType
  <2> QED BY <1>1, <2>1, <2>3 DEF QueueType
<1>5. Balanced(<< >>, r.pushed, r.popped + r.dropped + c, r.high_water_mark)
  <2>1. r.pushed = r.popped + r.dropped + c /\ r.high_water_mark <= Capacity
    BY <1>1, <1>2, <1>3 DEF Balanced
  <2> QED BY <1>1, <2>1 DEF Balanced
<1>6. Sound(discard_all(r))
  BY <1>4, <1>5 DEF Sound
<1>7. /\ shutdown(r) \in QueueType /\ shutdown(r).items = r.items
      /\ shutdown(r).pushed = r.pushed /\ shutdown(r).popped = r.popped
      /\ shutdown(r).dropped = r.dropped /\ shutdown(r).discarded = r.discarded
      /\ shutdown(r).high_water_mark = r.high_water_mark
  BY <1>1, Zenon DEF shutdown, QueueType
<1>8. Sound(shutdown(r))
  BY <1>2, <1>7 DEF Sound
<1> QED BY <1>4, <1>6, <1>7, <1>8
-----------------------------------------------------------------------------
(* Inductive: the type invariant, and a sound queue under every thread. *)
QueueInv == TypeOK /\ Sound(q)

(* QueueInv holds initially. *)
LEMMA QueueInvInit == Init => QueueInv
<1> SUFFICES ASSUME Init PROVE QueueInv
  OBVIOUS
<1>1. Sound(q)
  BY SoundReset DEF Init
<1>2. q \in QueueType
  BY <1>1 DEF Sound
<1> QED BY <1>1, <1>2 DEF Init, TypeOK, QueueInv

(* Every critical section and every notification preserves QueueInv. *)
LEMMA QueueInvNext == QueueInv /\ [Next]_vars => QueueInv'
<1> SUFFICES ASSUME QueueInv, [Next]_vars PROVE QueueInv'
  OBVIOUS
<1> USE DEF QueueInv
<1>1. ASSUME NEW p \in Producers, Push(p) PROVE QueueInv'
  <2>1. Sound(q')
    BY <1>1, SoundPush DEF Push
  <2>2. q' \in QueueType
    BY <2>1 DEF Sound
  <2> QED BY <1>1, <2>1, <2>2, ThreadsAssumption DEF Push, TypeOK
<1>2. ASSUME NEW p \in Producers, NotifyOne(p) PROVE QueueInv'
  BY <1>2, ThreadsAssumption DEF NotifyOne, TypeOK, Asleep
<1>3. ASSUME NEW c \in Consumers, NEW forever \in BOOLEAN, Pop(c, forever)
      PROVE  QueueInv'
  <2>1. Sound(q')
    BY <1>3, SoundTake DEF Pop
  <2>2. q' \in QueueType
    BY <2>1 DEF Sound
  <2> QED BY <1>3, <2>1, <2>2, ThreadsAssumption DEF Pop, TypeOK
<1>4. ASSUME NEW c \in Consumers, Wake(c) PROVE QueueInv'
  BY <1>4, ThreadsAssumption DEF Wake, TypeOK
<1>5. ASSUME NEW c \in Consumers, Resume(c) PROVE QueueInv'
  <2>1. Sound(q')
    BY <1>5, SoundTake DEF Resume
  <2>2. q' \in QueueType
    BY <2>1 DEF Sound
  <2> QED BY <1>5, <2>1, <2>2, ThreadsAssumption DEF Resume, TypeOK
<1>6. CASE Shutdown
  <2>1. Sound(q')
    BY <1>6, SoundDiscardShutdown DEF Shutdown
  <2>2. q' \in QueueType
    BY <2>1 DEF Sound
  <2> QED BY <1>6, <2>1, <2>2 DEF Shutdown, TypeOK
<1>7. CASE NotifyAll
  BY <1>7, ThreadsAssumption DEF NotifyAll, TypeOK, Asleep
<1>8. CASE DiscardAll
  <2>1. Sound(q')
    BY <1>8, SoundDiscardShutdown DEF DiscardAll
  <2>2. q' \in QueueType
    BY <2>1 DEF Sound
  <2> QED BY <1>8, <2>1, <2>2 DEF DiscardAll, TypeOK
<1>9. CASE Reset
  <2>1. Sound(q')
    BY <1>9, SoundReset DEF Reset
  <2>2. q' \in QueueType
    BY <2>1 DEF Sound
  <2> QED BY <1>9, <2>1, <2>2 DEF Reset, TypeOK
<1>10. CASE UNCHANGED vars
  BY <1>10 DEF vars, TypeOK
<1> QED
  BY <1>1, <1>2, <1>3, <1>4, <1>5, <1>6, <1>7, <1>8, <1>9, <1>10 DEF Next

(* QueueInv is an invariant of the queue and its threads. *)
LEMMA QueueInvariant == Spec => []QueueInv
BY QueueInvInit, QueueInvNext, PTL DEF Spec

(* Types: stats_ counters stay natural numbers and threads where they can be. *)
THEOREM TypeCorrect == Spec => []TypeOK
<1>1. QueueInv => TypeOK
  BY DEF QueueInv
<1> QED BY <1>1, QueueInvariant, PTL

(* Every accepted push is popped, dropped, discarded or buffered. *)
THEOREM AccountingCorrect == Spec => []Accounting
<1>1. QueueInv => Accounting
  BY QueueFields DEF QueueInv, Sound, Balanced, Accounting
<1> QED BY <1>1, QueueInvariant, PTL

(* Neither the buffer nor its high-water mark passes capacity_. *)
THEOREM CapacityCorrect == Spec => []CapacityBound
<1>1. QueueInv => CapacityBound
  BY DEF QueueInv, Sound, Balanced, CapacityBound
<1> QED BY <1>1, QueueInvariant, PTL

(* Drop-oldest keeps exactly the newest accepted values, in push order. *)
THEOREM NewestSuffixCorrect == Spec => []NewestSuffix
<1>1. QueueInv => NewestSuffix
  BY DEF QueueInv, Sound, Balanced, NewestSuffix
<1> QED BY <1>1, QueueInvariant, PTL

(* A popped value is preceded by exactly the counted pops, drops and         *)
(* discards, so a consumer that compares the counters sees every gap.        *)
THEOREM GapsCorrect == Spec => GapsAreCounted
<1> DEFINE Gap == q'.popped = q.popped + 1 =>
                     Head(q.items) = q.popped + q.dropped + q.discarded + 1
<1>1. QueueInv /\ [Next]_vars => [Gap]_vars
  <2> SUFFICES ASSUME QueueInv, Next, q'.popped = q.popped + 1
               PROVE  Head(q.items) = q.popped + q.dropped + q.discarded + 1
    OBVIOUS
  <2>1. q.popped \in Nat /\ Sound(q)
    BY QueueFields DEF QueueInv, Sound
  <2>2. q' = take_front(q) => q.items # << >>
    BY <2>1, SoundTake
  <2>3. ASSUME NEW p \in Producers, Push(p) PROVE FALSE
    BY <2>1, <2>3, SoundPush DEF Push
  <2>4. ASSUME NEW p \in Producers, NotifyOne(p) PROVE FALSE
    BY <2>1, <2>4 DEF NotifyOne
  <2>5. ASSUME NEW c \in Consumers, NEW forever \in BOOLEAN, Pop(c, forever)
        PROVE  q' = take_front(q)
    BY <2>1, <2>5 DEF Pop
  <2>6. ASSUME NEW c \in Consumers, Wake(c) PROVE FALSE
    BY <2>1, <2>6 DEF Wake
  <2>7. ASSUME NEW c \in Consumers, Resume(c) PROVE q' = take_front(q)
    BY <2>1, <2>7 DEF Resume
  <2>8. ASSUME Shutdown \/ DiscardAll \/ NotifyAll PROVE FALSE
    BY <2>1, <2>8, SoundDiscardShutdown DEF Shutdown, DiscardAll, NotifyAll
  <2>9. ASSUME Reset PROVE FALSE
    BY <2>1, <2>9 DEF Reset, reset
  <2>10. q' = take_front(q)
    BY <2>3, <2>4, <2>5, <2>6, <2>7, <2>8, <2>9 DEF Next
  <2> QED BY <2>1, <2>2, <2>10, SoundTake
<1> QED BY <1>1, QueueInvariant, PTL DEF Spec, GapsAreCounted
-----------------------------------------------------------------------------
(* The sets of threads that NoLostWakeup counts are finite. *)
LEMMA ThreadSets ==
    /\ IsFiniteSet(Pending) /\ Cardinality(Pending) \in Nat
    /\ IsFiniteSet(Awake) /\ Cardinality(Awake) \in Nat
<1>1. Pending \subseteq Producers /\ Awake \subseteq Consumers
  BY DEF Pending, Awake
<1> QED BY <1>1, ThreadsAssumption, FS_Subset, FS_CardinalityType

(* A wake-up is never lost: each step keeps at least one notification or     *)
(* awake consumer for every value buffered while somebody sleeps.            *)
LEMMA WakeupNext == QueueInv /\ NoLostWakeup /\ [Next]_vars => NoLostWakeup'
<1> SUFFICES ASSUME QueueInv, NoLostWakeup, [Next]_vars, Asleep' # {}
             PROVE  /\ Len(q'.items) <= Cardinality(Pending') + Cardinality(Awake')
                    /\ q'.shutdown => owner' = "notify_all"
  BY DEF NoLostWakeup
<1>1. /\ Sound(q) /\ TypeOK /\ Len(q.items) \in Nat
      /\ Cardinality(Pending) \in Nat /\ Cardinality(Awake) \in Nat
      /\ IsFiniteSet(Pending) /\ IsFiniteSet(Awake)
  BY QueueFields, ThreadSets DEF QueueInv, Sound
<1>2. ASSUME NEW p \in Producers, Push(p)
      PROVE  /\ Len(q'.items) <= Cardinality(Pending') + Cardinality(Awake')
             /\ q'.shutdown => owner' = "notify_all"
  <2>1. /\ p \notin Pending /\ Pending' = Pending \cup {p}
        /\ Awake' = Awake /\ Asleep' = Asleep
    BY <1>1, <1>2, ThreadsAssumption DEF Push, TypeOK, Pending, Awake, Asleep
  <2>2. Cardinality(Pending') = Cardinality(Pending) + 1
    BY <1>1, <2>1, FS_AddElement, Zenon
  <2>3. /\ Len(q'.items) <= Len(q.items) + 1 /\ q'.shutdown = q.shutdown
        /\ Len(q'.items) \in Nat
    <3>1. Sound(q')
      BY <1>1, <1>2, SoundPush DEF Push
    <3> QED BY <1>1, <1>2, <3>1, SoundPush, QueueFields, Zenon DEF Push, Sound
  <2>4. Len(q.items) <= Cardinality(Pending) + Cardinality(Awake)
    BY <2>1 DEF NoLostWakeup
  <2>5. ~q'.shutdown
    BY <1>2, <2>3 DEF Push
  <2> QED BY <1>1, <2>1, <2>2, <2>3, <2>4, <2>5
<1>3. ASSUME NEW p \in Producers, NotifyOne(p)
      PROVE  /\ Len(q'.items) <= Cardinality(Pending') + Cardinality(Awake')
             /\ q'.shutdown => owner' = "notify_all"
  <2>1. q' = q /\ owner' = owner
    BY <1>3 DEF NotifyOne
  <2>2. CASE Asleep = {} /\ pc' = [pc EXCEPT ![p] = "idle"]
    <3>1. Asleep' = {}
      BY <1>1, <2>2, ThreadsAssumption DEF TypeOK, Asleep
    <3> QED BY <3>1
  <2>3. ASSUME NEW c \in Asleep, pc' = [pc EXCEPT ![p] = "idle", ![c] = "woken"]
        PROVE  /\ Len(q'.items) <= Cardinality(Pending') + Cardinality(Awake')
               /\ q'.shutdown => owner' = "notify_all"
    <3>1. /\ p \in Pending /\ Pending' = Pending \ {p}
          /\ c \notin Awake /\ Awake' = Awake \cup {c}
      BY <1>1, <1>3, <2>3, ThreadsAssumption
      DEF NotifyOne, TypeOK, Pending, Awake, Asleep
    <3>2. /\ Cardinality(Pending') = Cardinality(Pending) - 1
          /\ Cardinality(Awake') = Cardinality(Awake) + 1
      BY <1>1, <3>1, FS_AddElement, FS_RemoveElement, Zenon
    <3>3. /\ Len(q.items) <= Cardinality(Pending) + Cardinality(Awake)
          /\ q.shutdown => owner = "notify_all"
      BY <2>3 DEF NoLostWakeup
    <3> QED BY <1>1, <2>1, <3>2, <3>3
  <2> QED BY <1>3, <2>2, <2>3 DEF NotifyOne
<1>4. ASSUME NEW c \in Consumers, NEW forever \in BOOLEAN, Pop(c, forever)
      PROVE  /\ Len(q'.items) <= Cardinality(Pending') + Cardinality(Awake')
             /\ q'.shutdown => owner' = "notify_all"
  <2>1. CASE available(q)
    <3>1. /\ q' = take_front(q) /\ pc' = pc /\ owner' = owner
      BY <1>4, <2>1 DEF Pop
    <3>2. Pending' = Pending /\ Awake' = Awake /\ Asleep' = Asleep
      BY <3>1 DEF Pending, Awake, Asleep
    <3>3. Len(q'.items) <= Len(q.items) /\ q'.shutdown = q.shutdown /\ Len(q'.items) \in Nat
      <4>1. Sound(q')
        BY <1>1, <3>1, SoundTake
      <4>2. Len(q'.items) \in Nat
        BY <4>1, QueueFields DEF Sound
      <4> QED BY <1>1, <3>1, <4>2, SoundTake
    <3>4. /\ Len(q.items) <= Cardinality(Pending) + Cardinality(Awake)
          /\ q.shutdown => owner = "notify_all"
      BY <3>2 DEF NoLostWakeup
    <3> QED BY <1>1, <3>1, <3>2, <3>3, <3>4
  <2>2. CASE ~available(q)
    <3>1. q' = q /\ ~q.shutdown /\ Len(q.items) = 0
      BY <1>4, <2>2 DEF Pop, available
    <3>2. Pending' = Pending /\ Awake' = Awake
      BY <1>1, <1>4, <2>2, ThreadsAssumption DEF Pop, TypeOK, Pending, Awake
    <3> QED BY <1>1, <3>1, <3>2
  <2> QED BY <2>1, <2>2
<1>5. ASSUME NEW c \in Consumers, Wake(c)
      PROVE  /\ Len(q'.items) <= Cardinality(Pending') + Cardinality(Awake')
             /\ q'.shutdown => owner' = "notify_all"
  <2>1. /\ q' = q /\ owner' = owner /\ c \in Asleep /\ c \notin Awake
        /\ Pending' = Pending /\ Awake' = Awake \cup {c}
    BY <1>1, <1>5, ThreadsAssumption DEF Wake, TypeOK, Pending, Awake, Asleep
  <2>2. Cardinality(Awake') = Cardinality(Awake) + 1
    BY <1>1, <2>1, FS_AddElement, Zenon
  <2>3. /\ Len(q.items) <= Cardinality(Pending) + Cardinality(Awake)
        /\ q.shutdown => owner = "notify_all"
    BY <2>1 DEF NoLostWakeup
  <2> QED BY <1>1, <2>1, <2>2, <2>3
<1>6. ASSUME NEW c \in Consumers, Resume(c)
      PROVE  /\ Len(q'.items) <= Cardinality(Pending') + Cardinality(Awake')
             /\ q'.shutdown => owner' = "notify_all"
  <2>1. /\ owner' = owner /\ c \in Awake /\ Pending' = Pending
        /\ Awake' = Awake \ {c}
    BY <1>1, <1>6, ThreadsAssumption DEF Resume, TypeOK, Pending, Awake
  <2>2. Cardinality(Awake') = Cardinality(Awake) - 1 /\ Cardinality(Awake') \in Nat
    BY <1>1, <2>1, FS_RemoveElement, FS_CardinalityType
  <2>3. CASE available(q)
    <3>1. q' = take_front(q) /\ pc' = [pc EXCEPT ![c] = "idle"]
      BY <1>6, <2>3 DEF Resume
    <3>2. Asleep' = Asleep
      BY <1>1, <1>6, <3>1, ThreadsAssumption DEF Resume, TypeOK, Asleep
    <3>3. /\ Len(q.items) <= Cardinality(Pending) + Cardinality(Awake)
          /\ q.shutdown => owner = "notify_all"
      BY <3>2 DEF NoLostWakeup
    <3>4. q'.shutdown = q.shutdown
      BY <1>1, <3>1, SoundTake
    <3>5. CASE q.items = << >>
      <4>1. Len(q'.items) = 0
        BY <1>1, <3>1, <3>5, SoundTake
      <4> QED BY <1>1, <2>1, <2>2, <3>3, <3>4, <4>1
    <3>6. CASE q.items # << >>
      <4>1. Len(q'.items) = Len(q.items) - 1
        BY <1>1, <3>1, <3>6, SoundTake
      <4> QED BY <1>1, <2>1, <2>2, <3>3, <3>4, <4>1
    <3> QED BY <3>5, <3>6
  <2>4. CASE ~available(q)
    <3>1. q' = q /\ ~q.shutdown /\ Len(q.items) = 0
      BY <1>6, <2>4 DEF Resume, available
    <3> QED BY <1>1, <2>1, <2>2, <3>1
  <2> QED BY <2>3, <2>4
<1>7. ASSUME Shutdown
      PROVE  /\ Len(q'.items) <= Cardinality(Pending') + Cardinality(Awake')
             /\ q'.shutdown => owner' = "notify_all"
  <2>1. /\ q'.items = q.items /\ owner' = "notify_all"
        /\ Pending' = Pending /\ Awake' = Awake /\ Asleep' = Asleep
    BY <1>1, <1>7, SoundDiscardShutdown DEF Shutdown, Pending, Awake, Asleep
  <2> QED BY <2>1 DEF NoLostWakeup
<1>8. ASSUME NotifyAll PROVE FALSE
  BY <1>8, ThreadsAssumption DEF NotifyAll, Asleep
<1>9. ASSUME DiscardAll
      PROVE  /\ Len(q'.items) <= Cardinality(Pending') + Cardinality(Awake')
             /\ q'.shutdown => owner' = "notify_all"
  <2>1. /\ Len(q'.items) = 0 /\ q'.shutdown = q.shutdown /\ owner' = owner
        /\ Pending' = Pending /\ Awake' = Awake /\ Asleep' = Asleep
    BY <1>1, <1>9, SoundDiscardShutdown DEF DiscardAll, Pending, Awake, Asleep
  <2>2. q.shutdown => owner = "notify_all"
    BY <2>1 DEF NoLostWakeup
  <2> QED BY <1>1, <2>1, <2>2
<1>10. ASSUME Reset PROVE FALSE
  BY <1>10, ThreadsAssumption DEF Reset, Asleep
<1>11. ASSUME UNCHANGED vars
       PROVE  /\ Len(q'.items) <= Cardinality(Pending') + Cardinality(Awake')
              /\ q'.shutdown => owner' = "notify_all"
  BY <1>11 DEF vars, NoLostWakeup, Asleep, Pending, Awake
<1> QED
  BY <1>2, <1>3, <1>4, <1>5, <1>6, <1>7, <1>8, <1>9, <1>10, <1>11 DEF Next

(* No consumer sleeps past a value or past shutdown without a wake-up under  *)
(* way, for any number of producers and consumers.                           *)
THEOREM WakeupsCorrect == Spec => []NoLostWakeup
<1>1. Init => NoLostWakeup
  BY ThreadsAssumption DEF Init, NoLostWakeup, Asleep
<1> QED BY <1>1, QueueInvariant, WakeupNext, PTL DEF Spec
-----------------------------------------------------------------------------
(* Where the window of the channel begins, for a queue record. *)
Lo(r) == IF r.items = << >> THEN r.pushed ELSE Head(r.items) - 1

(* Of a sound queue the window is as long as the buffer, and not longer than *)
(* the capacity.                                                             *)
LEMMA Window ==
    ASSUME NEW r, Sound(r)
    PROVE  /\ Lo(r) = r.pushed - Len(r.items) /\ Len(r.items) <= Capacity
           /\ Len(r.items) \in Nat /\ r.pushed \in Nat /\ r.dropped \in Nat
           /\ r.discarded \in Nat /\ Lo(r) \in Int
<1>1. /\ r.items \in Seq(Nat) /\ Len(r.items) \in Nat /\ r.pushed \in Nat
      /\ r.popped \in Nat /\ r.dropped \in Nat /\ r.discarded \in Nat
      /\ r.high_water_mark \in Nat
  BY QueueFields DEF Sound
<1>2. Len(r.items) <= r.high_water_mark /\ r.high_water_mark <= Capacity
  BY DEF Sound, Balanced
<1>3. CASE r.items = << >>
  BY <1>1, <1>2, <1>3, CapacityAssumption DEF Lo
<1>4. CASE r.items # << >>
  <2>1. Len(r.items) \in Nat \ {0} /\ Head(r.items) = r.items[1]
    BY <1>1, <1>4, TailFacts
  <2>2. r.items[1] = r.pushed - Len(r.items) + 1
    BY <2>1 DEF Sound, Balanced
  <2>3. Lo(r) = (r.pushed - Len(r.items) + 1) - 1
    BY <1>4, <2>1, <2>2 DEF Lo
  <2>4. Lo(r) = r.pushed - Len(r.items)
    BY <1>1, <2>3
  <2>5. Len(r.items) <= Capacity
    BY <1>1, <1>2, CapacityAssumption
  <2> QED BY <1>1, <2>4, <2>5
<1> QED BY <1>3, <1>4

(* What push does to the numbers the channel sees. *)
LEMMA PushEffect ==
    ASSUME NEW r, Sound(r)
    PROVE  LET n == push(r, Capacity, r.pushed + 1)
           IN  /\ n.pushed = r.pushed + 1 /\ n.discarded = r.discarded
               /\ n.popped = r.popped /\ n.shutdown = r.shutdown
               /\ Len(r.items) < Capacity =>
                     Len(n.items) = Len(r.items) + 1 /\ n.dropped = r.dropped
               /\ Len(r.items) = Capacity =>
                     Len(n.items) = Len(r.items) /\ n.dropped = r.dropped + 1
<1> DEFINE grown == Append(r.items, r.pushed + 1)
           n     == push(r, Capacity, r.pushed + 1)
<1>1. r \in QueueType /\ r.items \in Seq(Nat) /\ Len(r.items) \in Nat /\ r.pushed + 1 \in Nat
  BY QueueFields DEF Sound
<1>2. grown \in Seq(Nat) /\ grown # << >> /\ Len(grown) = Len(r.items) + 1
  BY <1>1, AppendFacts
<1>3. Len(Tail(grown)) = Len(grown) - 1
  BY <1>2, TailFacts
<1>4. /\ n.items = IF Len(grown) > Capacity THEN Tail(grown) ELSE grown
      /\ n.dropped = IF Len(grown) > Capacity THEN r.dropped + 1 ELSE r.dropped
      /\ n.pushed = r.pushed + 1 /\ n.discarded = r.discarded /\ n.popped = r.popped
      /\ n.shutdown = r.shutdown
  BY <1>1 DEF push, QueueType
<1> HIDE DEF grown, n
<1>5. Len(r.items) < Capacity => n.items = grown /\ n.dropped = r.dropped
  BY <1>1, <1>2, <1>4, CapacityAssumption
<1>6. Len(r.items) = Capacity => n.items = Tail(grown) /\ n.dropped = r.dropped + 1
  BY <1>1, <1>2, <1>4, CapacityAssumption
<1>7. Len(Tail(grown)) = Len(r.items)
  BY <1>1, <1>2, <1>3
<1>8. n = push(r, Capacity, r.pushed + 1)
  BY DEF n
<1> QED BY <1>2, <1>4, <1>5, <1>6, <1>7, <1>8, Zenon

(* What the other critical sections do to them. *)
LEMMA OtherEffects ==
    ASSUME NEW r, Sound(r)
    PROVE  /\ /\ take_front(r).pushed = r.pushed /\ take_front(r).dropped = r.dropped
              /\ take_front(r).discarded = r.discarded
              /\ r.items # << >> => take_front(r).popped = r.popped + 1
           /\ /\ discard_all(r).pushed = r.pushed /\ discard_all(r).dropped = r.dropped
              /\ discard_all(r).discarded = r.discarded + Len(r.items)
           /\ /\ shutdown(r).pushed = r.pushed /\ shutdown(r).dropped = r.dropped
              /\ shutdown(r).discarded = r.discarded /\ shutdown(r).shutdown = TRUE
<1>1. r \in QueueType
  BY DEF Sound
<1>2. /\ take_front(r).pushed = r.pushed /\ take_front(r).dropped = r.dropped
      /\ take_front(r).discarded = r.discarded
      /\ r.items # << >> => take_front(r).popped = r.popped + 1
  BY <1>1 DEF take_front, QueueType
<1>3. /\ discard_all(r).pushed = r.pushed /\ discard_all(r).dropped = r.dropped
      /\ discard_all(r).discarded = r.discarded + Len(r.items)
  BY <1>1 DEF discard_all, QueueType
<1>4. /\ shutdown(r).pushed = r.pushed /\ shutdown(r).dropped = r.dropped
      /\ shutdown(r).discarded = r.discarded /\ shutdown(r).shutdown = TRUE
  BY <1>1 DEF shutdown, QueueType
<1> QED BY <1>2, <1>3, <1>4

(* A step of the queue that leaves q alone is no step of the channel. *)
LEMMA ChannelStutter == q' = q => UNCHANGED Channel!chan
BY DEF Channel!chan

(* Taking a value is a Receive, or nothing when there is none. *)
LEMMA ChannelTake ==
    ASSUME Sound(q), q' = take_front(q)
    PROVE  [Channel!Next]_(Channel!chan)
<1>1. CASE q.items = << >>
  BY <1>1, SoundTake, ChannelStutter
<1>2. CASE q.items # << >>
  <2>1. Sound(q')
    BY SoundTake
  <2>2. /\ Lo(q) = q.pushed - Len(q.items) /\ Lo(q') = q'.pushed - Len(q'.items)
        /\ Len(q.items) \in Nat /\ q.pushed \in Nat
    BY <2>1, Window
  <2>3. /\ q'.pushed = q.pushed /\ q'.dropped = q.dropped /\ q'.discarded = q.discarded
        /\ q'.popped = q.popped + 1
        /\ q'.shutdown = q.shutdown /\ Len(q'.items) = Len(q.items) - 1
    BY <1>2, OtherEffects, SoundTake, Zenon
  <2>4. Len(q.items) # 0
    BY <1>2, QueueFields, TailFacts DEF Sound
  <2>5. Lo(q) < q.pushed /\ Lo(q') = Lo(q) + 1
    BY <2>2, <2>3, <2>4
  <2>6. Channel!Receive
    BY <2>3, <2>5 DEF Channel!Receive, Lo
  <2> QED BY <2>6 DEF Channel!Next
<1> QED BY <1>1, <1>2

(* Every step of the queue is a step of the channel or leaves it alone. *)
LEMMA ChannelStep == QueueInv /\ [Next]_vars => [Channel!Next]_(Channel!chan)
<1> SUFFICES ASSUME QueueInv, [Next]_vars PROVE [Channel!Next]_(Channel!chan)
  OBVIOUS
<1>0. Sound(q) /\ Sound(q')
  BY QueueInvNext DEF QueueInv
<1>1. /\ Lo(q) = q.pushed - Len(q.items) /\ Lo(q') = q'.pushed - Len(q'.items)
      /\ Len(q.items) \in Nat /\ q.pushed \in Nat /\ Len(q.items) <= Capacity
      /\ q.dropped \in Nat /\ q.discarded \in Nat /\ Capacity \in Nat
  BY <1>0, Window, CapacityAssumption
<1>2. ASSUME NEW p \in Producers, Push(p) PROVE Channel!Next
  <2>1. /\ ~q.shutdown /\ q'.pushed = q.pushed + 1 /\ q'.discarded = q.discarded
        /\ q'.popped = q.popped /\ q'.shutdown = q.shutdown
        /\ Len(q.items) < Capacity =>
              Len(q'.items) = Len(q.items) + 1 /\ q'.dropped = q.dropped
        /\ Len(q.items) = Capacity =>
              Len(q'.items) = Len(q.items) /\ q'.dropped = q.dropped + 1
    BY <1>0, <1>2, PushEffect DEF Push
  <2>2. CASE Len(q.items) < Capacity
    <3>1. /\ Len(q'.items) = Len(q.items) + 1 /\ q'.pushed = q.pushed + 1
          /\ q'.dropped + q'.discarded = q.dropped + q.discarded
      BY <2>1, <2>2
    <3>2. Lo(q') = Lo(q) /\ q.pushed - Lo(q) < Capacity
      <4>1. /\ Lo(q) = q.pushed - Len(q.items)
            /\ Lo(q') = (q.pushed + 1) - (Len(q.items) + 1)
        BY <1>1, <3>1
      <4>2. Len(q.items) \in Nat /\ q.pushed \in Nat /\ Capacity \in Nat
        BY <1>1
      <4> QED BY <2>2, <4>1, <4>2
    <3>3. Channel!Send
      BY <2>1, <3>1, <3>2 DEF Channel!Send, Lo
    <3> QED BY <3>3 DEF Channel!Next
  <2>3. CASE Len(q.items) = Capacity
    <3>1. /\ Len(q'.items) = Len(q.items) /\ q'.pushed = q.pushed + 1
          /\ q'.dropped = q.dropped + 1 /\ q'.discarded = q.discarded
      BY <2>1, <2>3
    <3>2. q'.dropped + q'.discarded = q.dropped + q.discarded + 1
      BY <1>1, <3>1
    <3>3. Lo(q') = Lo(q) + 1 /\ q.pushed - Lo(q) = Capacity
      BY <1>1, <2>3, <3>1
    <3>4. Channel!SendOver
      BY <2>1, <3>2, <3>3 DEF Channel!SendOver, Lo
    <3> QED BY <3>4 DEF Channel!Next
  <2> QED BY <1>1, <2>2, <2>3
<1>3. ASSUME NEW p \in Producers, NotifyOne(p) PROVE UNCHANGED Channel!chan
  BY <1>3, ChannelStutter DEF NotifyOne
<1>4. ASSUME NEW c \in Consumers, NEW forever \in BOOLEAN, Pop(c, forever)
      PROVE  [Channel!Next]_(Channel!chan)
  BY <1>0, <1>4, ChannelTake, ChannelStutter DEF Pop
<1>5. ASSUME NEW c \in Consumers, Wake(c) PROVE UNCHANGED Channel!chan
  BY <1>5, ChannelStutter DEF Wake
<1>6. ASSUME NEW c \in Consumers, Resume(c) PROVE [Channel!Next]_(Channel!chan)
  BY <1>0, <1>6, ChannelTake, ChannelStutter DEF Resume
<1>7. ASSUME Shutdown PROVE Channel!Next
  <2>1. /\ q'.pushed = q.pushed /\ q'.dropped = q.dropped /\ q'.discarded = q.discarded
        /\ q'.popped = q.popped /\ q'.shutdown = TRUE /\ q'.items = q.items
    BY <1>0, <1>7, OtherEffects, SoundDiscardShutdown, Zenon DEF Shutdown
  <2>2. Channel!Close
    BY <2>1 DEF Channel!Close
  <2> QED BY <2>2 DEF Channel!Next
<1>8. ASSUME NotifyAll PROVE UNCHANGED Channel!chan
  BY <1>8, ChannelStutter DEF NotifyAll
<1>9. ASSUME DiscardAll PROVE Channel!Next
  <2>1. /\ q'.pushed = q.pushed /\ q'.dropped = q.dropped
        /\ q'.discarded = q.discarded + Len(q.items) /\ q'.popped = q.popped
        /\ q'.shutdown = q.shutdown /\ q'.items = << >>
    BY <1>0, <1>9, OtherEffects, SoundDiscardShutdown, Zenon DEF DiscardAll
  <2>2. Lo(q') = q.pushed
    BY <2>1 DEF Lo
  <2>3. q'.dropped + q'.discarded = q.dropped + q.discarded + (q.pushed - Lo(q))
    BY <1>1, <2>1
  <2>4. Channel!Discard
    BY <2>1, <2>2, <2>3 DEF Channel!Discard, Lo
  <2> QED BY <2>4 DEF Channel!Next
<1>10. ASSUME Reset PROVE Channel!Next
  <2>1. Channel!Reopen
    BY <1>10 DEF Reset, reset, Channel!Reopen
  <2> QED BY <2>1 DEF Channel!Next
<1>11. ASSUME UNCHANGED vars PROVE UNCHANGED Channel!chan
  BY <1>11, ChannelStutter DEF vars
<1> QED
  BY <1>2, <1>3, <1>4, <1>5, <1>6, <1>7, <1>8, <1>9, <1>10, <1>11 DEF Next

(* The queue with its mutex, its condition variable and any number of        *)
(* threads implements the drop-oldest channel, for every capacity.           *)
THEOREM ChannelCorrect == Spec => ImplementsChannel
<1>1. Init => Channel!Init
  BY DEF Init, reset, Channel!Init
<1> QED BY <1>1, ChannelStep, QueueInvariant, PTL DEF Spec, ImplementsChannel, Channel!Spec
=============================================================================

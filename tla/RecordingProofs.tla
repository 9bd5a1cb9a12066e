--------------------------- MODULE RecordingProofs --------------------------
(* Proofs about Recording for every queue capacity and number of units.      *)
EXTENDS Recording, TLAPS

Units == [n : Nat \ {0}, key : BOOLEAN, disc : BOOLEAN]

QueueType == [items : Seq(Units), shutdown : BOOLEAN, pushed : Nat, popped : Nat,
              dropped : Nat, discarded : Nat, high_water_mark : Nat]

(* The labels of the worker from the pop of a unit to its end. *)
Holding == {"stats", "bus", "unit", "gate", "write", "feed", "abort"}

TypeOK ==
    /\ produced \in Nat /\ q \in QueueType /\ fresh \in BOOLEAN
    /\ pc \in Holding \cup {"loop", "idle", "discard", "pop", "finalize", "done"}
    /\ after \in {"loop", "idle", "bus", "gate", "done"}
    /\ unit \in Units \cup {None} /\ waiting \in BOOLEAN /\ observed \in Nat
    /\ pipeline \in {"none", "live", "broken"}
    /\ last \in Units \cup {None} /\ count \in Nat /\ pending \in Nat

(* WrittenIsFinalized is not inductive: what commit_written adds is right    *)
(* because pending_access_units_ is what this pipeline was fed, and nothing  *)
(* is carried from one pipeline to the next.                                 *)
FileInv ==
    /\ pending = count /\ surplus = 0
    /\ pipeline = "none" => count = 0
    /\ pc \in {"idle", "discard"} => pipeline = "none"
    /\ pc \in {"feed", "abort"} => pipeline # "none"

(* The worker has a unit where its code uses one, and only there. *)
UnitInv ==
    /\ pc \notin Holding \cup {"finalize"} => unit = None
    /\ pc \in {"unit", "gate", "write", "feed"} => unit # None
    /\ pc = "finalize" => /\ after # "loop"
                          /\ after = "gate" => unit # None
                          /\ after \in {"idle", "done"} => unit = None

(* A unit b continues the group of a. *)
Follows(a, b) == b.n = a.n + 1 \/ a.key

(* The units that wait in s follow one another or are marked, and the last   *)
(* of them is the one with number p.                                         *)
Linked(s, p) ==
    /\ \A i \in 1 .. Len(s) - 1 : s[i + 1].n = s[i].n + 1 \/ s[i + 1].disc
    /\ s # << >> => s[Len(s)].n = p

(* The next unit after a, in s or still to come after number p, continues    *)
(* the group of a or is marked as a discontinuity.                           *)
Joined(a, s, p, f) == \/ a.key
                      \/ s # << >> /\ (s[1].n = a.n + 1 \/ s[1].disc)
                      \/ s = << >> /\ (f \/ p = a.n)

(* So it is for the worker's queue, unless its drop counter has moved. *)
Tracked(a) == q.dropped # observed \/ Joined(a, q.items, produced, fresh)

(* FileGapsOnlyAfterKeyframe is not inductive: at every label of the worker, *)
(* with a file that was fed, either the gate is closed, or something still   *)
(* to be looked at will close it (the drop counter, the unit's mark), or the *)
(* unit continues the last one of the file.                                  *)
GapInv ==
    /\ observed <= q.dropped
    /\ Linked(q.items, produced)
    /\ unit # None => waiting \/ Tracked(unit)
    /\ pc \in {"write", "feed"} => Tracked(unit)
    /\ count > 0 =>
          /\ pc \in {"loop", "pop"} => waiting \/ Tracked(last)
          /\ pc \in {"stats", "bus"} /\ unit = None => waiting \/ Tracked(last)
          /\ pc = "stats" /\ unit # None =>
                waiting \/ q.dropped # observed \/ unit.disc \/ Follows(last, unit)
          /\ pc \in {"bus", "unit"} /\ unit # None =>
                waiting \/ unit.disc \/ Follows(last, unit)
          /\ pc = "gate" => waiting \/ Follows(last, unit)
          /\ pc \in {"write", "feed"} => unit.key \/ Follows(last, unit)
-----------------------------------------------------------------------------
(* Facts about the recorder's queue: what push leaves ... *)
LEMMA PushFacts ==
    ASSUME NEW r \in QueueType, NEW u \in Units
    PROVE  LET g == Append(r.items, u)
               n == push(r, Capacity, u)
           IN  /\ n \in QueueType
               /\ \/ n.items = g /\ n.dropped = r.dropped
                  \/ n.items = Tail(g) /\ n.dropped = r.dropped + 1
  <1> DEFINE g == Append(r.items, u)
             o == Len(g) > Capacity
             k == IF o THEN Tail(g) ELSE g
             d == IF o THEN r.dropped + 1 ELSE r.dropped
             h == IF Len(k) > r.high_water_mark THEN Len(k) ELSE r.high_water_mark
  <1>1. /\ r.items \in Seq(Units) /\ r.pushed + 1 \in Nat /\ r.dropped \in Nat
        /\ r.high_water_mark \in Nat
    BY DEF QueueType
  <1>2. g \in Seq(Units) /\ Tail(g) \in Seq(Units)
    <2>1. g \in Seq(Units) /\ g # << >>
      BY <1>1
    <2> HIDE DEF g
    <2> QED
      BY <2>1
  <1>3. k \in Seq(Units) /\ Len(k) \in Nat
    BY <1>2
  <1>4. d \in Nat /\ h \in Nat
    BY <1>1, <1>3
  <1>5. push(r, Capacity, u) =
            [r EXCEPT !.items = k, !.pushed = r.pushed + 1, !.dropped = d, !.high_water_mark = h]
    BY DEF push, QueueType
  <1>6. \/ k = Tail(g) /\ d = r.dropped + 1
        \/ k = g /\ d = r.dropped
    BY Zenon
  <1> HIDE DEF k, d, h, g, o
  <1>7. push(r, Capacity, u) \in QueueType
    BY <1>1, <1>3, <1>4, <1>5, Zenon DEF QueueType
  <1>8. push(r, Capacity, u).items = k /\ push(r, Capacity, u).dropped = d
    BY <1>5 DEF QueueType
  <1> QED
    BY <1>6, <1>7, <1>8 DEF g

(* ... and what take_front, discard_all and shutdown leave. *)
LEMMA TakeFacts ==
    ASSUME NEW r \in QueueType
    PROVE  /\ take_front(r) \in QueueType /\ take_front(r).dropped = r.dropped
           /\ r.items # << >> =>
                 Head(r.items) \in Units /\ take_front(r).items = Tail(r.items)
           /\ r.items = << >> => take_front(r) = r
           /\ /\ discard_all(r) \in QueueType
              /\ discard_all(r).items = << >> /\ discard_all(r).dropped = r.dropped
           /\ /\ shutdown(r) \in QueueType
              /\ shutdown(r).items = r.items /\ shutdown(r).dropped = r.dropped
  <1>1. /\ r.items \in Seq(Units) /\ r.popped + 1 \in Nat /\ r.discarded + Len(r.items) \in Nat
        /\ << >> \in Seq(Units)
    BY DEF QueueType
  <1>2. ASSUME r.items # << >>
        PROVE  /\ Head(r.items) \in Units /\ take_front(r) \in QueueType
               /\ take_front(r).items = Tail(r.items) /\ take_front(r).dropped = r.dropped
    <2>1. Head(r.items) \in Units /\ Tail(r.items) \in Seq(Units)
      BY <1>1, <1>2
    <2>2. take_front(r) = [r EXCEPT !.items = Tail(r.items), !.popped = r.popped + 1]
      BY <1>2 DEF take_front
    <2>3. take_front(r) \in QueueType
      BY <1>1, <2>1, <2>2, Zenon DEF QueueType
    <2> QED
      BY <2>1, <2>2, <2>3 DEF QueueType
  <1>3. ASSUME r.items = << >> PROVE take_front(r) = r
    BY <1>3 DEF take_front
  <1>4. discard_all(r) \in QueueType
    BY <1>1, Zenon DEF discard_all, QueueType
  <1>5. shutdown(r) \in QueueType
    BY <1>1, Zenon DEF shutdown, QueueType
  <1>6. /\ discard_all(r).items = << >> /\ discard_all(r).dropped = r.dropped
        /\ shutdown(r).items = r.items /\ shutdown(r).dropped = r.dropped
    BY DEF discard_all, shutdown, QueueType
  <1> QED
    BY <1>2, <1>3, <1>4, <1>5, <1>6

(* The initial state has the declared types. *)
LEMMA TypeInit == Init => TypeOK
  <1> SUFFICES ASSUME Init PROVE TypeOK
    OBVIOUS
  <1>1. q \in QueueType
    BY DEF Init, QueueType, reset
  <1> QED
    BY <1>1 DEF Init, TypeOK, Holding

(* Every step of every thread keeps the declared types. *)
LEMMA TypeStep == TypeOK /\ [Next]_vars => TypeOK'
  <1> SUFFICES ASSUME TypeOK, [Next]_vars PROVE TypeOK'
    OBVIOUS
  <1> USE DEF control, mp4, source, locals, Goto, FinalizeThen, Holding
  <1>1. CASE CheckRequested
    BY <1>1 DEF CheckRequested, TypeOK
  <1>2. CASE Idle
    BY <1>2 DEF Idle, TypeOK
  <1>3. CASE Discard
    BY <1>3, TakeFacts DEF Discard, TypeOK
  <1>4. CASE Pop
    BY <1>4, TakeFacts DEF Pop, TypeOK
  <1>5. CASE Stats
    <2>1. observed' \in Nat
      BY <1>5 DEF Stats, TypeOK, QueueType
    <2> QED
      BY <1>5, <2>1 DEF Stats, TypeOK
  <1>6. CASE Bus
    BY <1>6 DEF Bus, TypeOK
  <1>7. CASE Discontinuity
    BY <1>7 DEF Discontinuity, TypeOK
  <1>8. CASE Gate
    BY <1>8 DEF Gate, TypeOK
  <1>9. CASE Open
    BY <1>9 DEF Open, TypeOK
  <1>10. CASE Feed
    <2>1. count' \in Nat /\ pending' \in Nat /\ last' \in Units \cup {None}
      BY <1>10 DEF Feed, TypeOK
    <2> QED
      BY <1>10, <2>1, Zenon DEF Feed, TypeOK
  <1>11. CASE Abort
    BY <1>11 DEF Abort, TypeOK
  <1>12. CASE Finalize
    BY <1>12 DEF Finalize, TypeOK
  <1>13. CASE ApiStart
    BY <1>13 DEF ApiStart, TypeOK
  <1>14. CASE ApiStop
    BY <1>14 DEF ApiStop, TypeOK
  <1>15. CASE FormatLocation
    BY <1>15 DEF FormatLocation, TypeOK
  <1>16. CASE Break
    BY <1>16 DEF Break, TypeOK
  <1>17. CASE Reconnect
    BY <1>17, TakeFacts DEF Reconnect, TypeOK
  <1>18. ASSUME NEW a \in BOOLEAN, SetMedia(a) PROVE TypeOK'
    BY <1>18 DEF SetMedia, TypeOK
  <1>19. ASSUME NEW key \in BOOLEAN, NEW disc \in BOOLEAN, Push(key, disc) PROVE TypeOK'
    <2>1. Unit(produced', key, fresh \/ disc) \in Units
      BY <1>19 DEF Push, TypeOK, Unit, Units
    <2>2. q' \in QueueType
      BY <1>19, <2>1, PushFacts DEF Push, TypeOK
    <2>3. produced' = produced + 1 /\ fresh' = FALSE
      BY <1>19, Zenon DEF Push
    <2>4. produced' \in Nat
      BY <2>3 DEF TypeOK
    <2> QED
      BY <1>19, <2>2, <2>3, <2>4, Zenon DEF Push, TypeOK
  <1>20. CASE Stop
    BY <1>20 DEF Stop, TypeOK
  <1>21. CASE ShutdownQueue
    BY <1>21, TakeFacts DEF ShutdownQueue, TypeOK
  <1>22. CASE WaitJoin
    BY <1>22 DEF WaitJoin, TypeOK
  <1>23. CASE WaitSettle
    BY <1>23 DEF WaitSettle, TypeOK
  <1>24. CASE UNCHANGED vars
    BY <1>24 DEF vars, TypeOK
  <1> QED
    BY <1>1, <1>2, <1>3, <1>4, <1>5, <1>6, <1>7, <1>8, <1>9, <1>10, <1>11,
       <1>12, <1>13, <1>14, <1>15, <1>16, <1>17, <1>18, <1>19, <1>20, <1>21,
       <1>22, <1>23, <1>24
       DEF Next, Worker

(* The types hold in every behaviour. *)
THEOREM TypeCorrect == Spec => []TypeOK
  BY TypeInit, TypeStep, PTL DEF Spec
-----------------------------------------------------------------------------
(* Every step keeps the account of the file that is being written. *)
LEMMA FileStep == TypeOK /\ FileInv /\ [Next]_vars => FileInv'
  <1> SUFFICES ASSUME TypeOK, FileInv, [Next]_vars PROVE FileInv'
    OBVIOUS
  <1> USE DEF control, mp4, source, locals, Goto, FinalizeThen, TypeOK
  <1>1. CASE CheckRequested
    BY <1>1 DEF CheckRequested, FileInv
  <1>2. CASE Idle
    BY <1>2 DEF Idle, FileInv
  <1>3. CASE Discard
    BY <1>3 DEF Discard, FileInv
  <1>4. CASE Pop
    BY <1>4 DEF Pop, FileInv
  <1>5. CASE Stats
    BY <1>5 DEF Stats, FileInv
  <1>6. CASE Bus
    BY <1>6 DEF Bus, FileInv
  <1>7. CASE Discontinuity
    BY <1>7 DEF Discontinuity, FileInv
  <1>8. CASE Gate
    BY <1>8 DEF Gate, FileInv
  <1>9. CASE Open
    BY <1>9 DEF Open, FileInv
  <1>10. CASE Feed
    BY <1>10 DEF Feed, FileInv
  <1>11. CASE Abort
    BY <1>11 DEF Abort, FileInv
  <1>12. CASE Finalize
    BY <1>12 DEF Finalize, CommitWritten, FileInv
  <1>13. CASE ApiStart
    BY <1>13 DEF ApiStart, FileInv
  <1>14. CASE ApiStop
    BY <1>14 DEF ApiStop, FileInv
  <1>15. CASE FormatLocation
    BY <1>15 DEF FormatLocation, FileInv
  <1>16. CASE Break
    BY <1>16 DEF Break, FileInv
  <1>17. CASE Reconnect
    BY <1>17 DEF Reconnect, FileInv
  <1>18. ASSUME NEW a \in BOOLEAN, SetMedia(a) PROVE FileInv'
    BY <1>18 DEF SetMedia, FileInv
  <1>19. ASSUME NEW key \in BOOLEAN, NEW disc \in BOOLEAN, Push(key, disc) PROVE FileInv'
    BY <1>19 DEF Push, FileInv
  <1>20. CASE Stop
    BY <1>20 DEF Stop, FileInv
  <1>21. CASE ShutdownQueue
    BY <1>21 DEF ShutdownQueue, FileInv
  <1>22. CASE WaitJoin
    BY <1>22 DEF WaitJoin, FileInv
  <1>23. CASE WaitSettle
    BY <1>23 DEF WaitSettle, FileInv
  <1>24. CASE UNCHANGED vars
    BY <1>24 DEF vars, FileInv
  <1> QED
    BY <1>1, <1>2, <1>3, <1>4, <1>5, <1>6, <1>7, <1>8, <1>9, <1>10, <1>11,
       <1>12, <1>13, <1>14, <1>15, <1>16, <1>17, <1>18, <1>19, <1>20, <1>21,
       <1>22, <1>23, <1>24
       DEF Next, Worker

(* The account holds in every behaviour. *)
LEMMA FileCorrect == Spec => []FileInv
  <1>1. Init => FileInv
    BY DEF Init, FileInv
  <1> QED
    BY <1>1, FileStep, TypeCorrect, PTL DEF Spec

(* access_units_written counts exactly the units of finalized files: no unit *)
(* of a failed file and no unit twice.                                       *)
THEOREM WrittenCorrect == Spec => []WrittenIsFinalized
  <1>1. FileInv => WrittenIsFinalized
    BY DEF FileInv, WrittenIsFinalized
  <1> QED
    BY <1>1, FileCorrect, PTL

(* Every step keeps the worker's unit where its code has one. *)
LEMMA UnitStep == TypeOK /\ UnitInv /\ [Next]_vars => UnitInv'
  <1> SUFFICES ASSUME TypeOK, UnitInv, [Next]_vars PROVE UnitInv'
    OBVIOUS
  <1> USE DEF control, mp4, source, locals, Goto, FinalizeThen, Holding, TypeOK
  <1>1. CASE CheckRequested
    BY <1>1 DEF CheckRequested, UnitInv
  <1>2. CASE Idle
    BY <1>2 DEF Idle, UnitInv
  <1>3. CASE Discard
    BY <1>3 DEF Discard, UnitInv
  <1>4. CASE Pop
    BY <1>4 DEF Pop, UnitInv
  <1>5. CASE Stats
    BY <1>5 DEF Stats, UnitInv
  <1>6. CASE Bus
    BY <1>6 DEF Bus, UnitInv
  <1>7. CASE Discontinuity
    BY <1>7 DEF Discontinuity, UnitInv
  <1>8. CASE Gate
    BY <1>8 DEF Gate, UnitInv
  <1>9. CASE Open
    BY <1>9 DEF Open, UnitInv
  <1>10. CASE Feed
    BY <1>10 DEF Feed, UnitInv
  <1>11. CASE Abort
    BY <1>11 DEF Abort, UnitInv
  <1>12. CASE Finalize
    BY <1>12 DEF Finalize, UnitInv
  <1>13. CASE ApiStart
    BY <1>13 DEF ApiStart, UnitInv
  <1>14. CASE ApiStop
    BY <1>14 DEF ApiStop, UnitInv
  <1>15. CASE FormatLocation
    BY <1>15 DEF FormatLocation, UnitInv
  <1>16. CASE Break
    BY <1>16 DEF Break, UnitInv
  <1>17. CASE Reconnect
    BY <1>17 DEF Reconnect, UnitInv
  <1>18. ASSUME NEW a \in BOOLEAN, SetMedia(a) PROVE UnitInv'
    BY <1>18 DEF SetMedia, UnitInv
  <1>19. ASSUME NEW key \in BOOLEAN, NEW disc \in BOOLEAN, Push(key, disc) PROVE UnitInv'
    BY <1>19 DEF Push, UnitInv
  <1>20. CASE Stop
    BY <1>20 DEF Stop, UnitInv
  <1>21. CASE ShutdownQueue
    BY <1>21 DEF ShutdownQueue, UnitInv
  <1>22. CASE WaitJoin
    BY <1>22 DEF WaitJoin, UnitInv
  <1>23. CASE WaitSettle
    BY <1>23 DEF WaitSettle, UnitInv
  <1>24. CASE UNCHANGED vars
    BY <1>24 DEF vars, UnitInv
  <1> QED
    BY <1>1, <1>2, <1>3, <1>4, <1>5, <1>6, <1>7, <1>8, <1>9, <1>10, <1>11,
       <1>12, <1>13, <1>14, <1>15, <1>16, <1>17, <1>18, <1>19, <1>20, <1>21,
       <1>22, <1>23, <1>24
       DEF Next, Worker

(* The worker's unit is there in every behaviour. *)
LEMMA UnitCorrect == Spec => []UnitInv
  <1>1. Init => UnitInv
    BY DEF Init, UnitInv, Holding
  <1> QED
    BY <1>1, UnitStep, TypeCorrect, PTL DEF Spec
-----------------------------------------------------------------------------
(* A new unit links to those that wait, and whoever was joined to the queue  *)
(* or to the unit still to come stays so.                                    *)
LEMMA PushChain ==
    ASSUME NEW s \in Seq(Units), NEW u \in Units, NEW p \in Nat, NEW f \in BOOLEAN,
           Linked(s, p), u.n = p + 1, f => u.disc
    PROVE  LET g == Append(s, u)
           IN  /\ Linked(g, p + 1) /\ Linked(Tail(g), p + 1)
               /\ \A a \in Units \cup {None} : Joined(a, s, p, f) => Joined(a, g, p + 1, FALSE)
  <1> DEFINE g == Append(s, u)
  <1>1. /\ g \in Seq(Units) /\ g # << >> /\ Len(s) \in Nat /\ Len(g) = Len(s) + 1
        /\ g[Len(s) + 1] = u /\ \A i \in 1 .. Len(s) : g[i] = s[i]
    OBVIOUS
  <1>2. s # << >> <=> Len(s) # 0
    OBVIOUS
  <1> HIDE DEF g
  <1>3. Linked(g, p + 1)
    <2>1. ASSUME NEW i \in 1 .. Len(g) - 1
          PROVE  g[i + 1].n = g[i].n + 1 \/ g[i + 1].disc
      <3>1. CASE i = Len(s)
        BY <1>1, <1>2, <3>1 DEF Linked
      <3>2. CASE i # Len(s)
        BY <1>1, <3>2 DEF Linked
      <3> QED
        BY <3>1, <3>2
    <2> QED
      BY <1>1, <2>1 DEF Linked
  <1>4. Linked(Tail(g), p + 1)
    <2> DEFINE t == Tail(g)
    <2>1. /\ t \in Seq(Units) /\ Len(t) = Len(g) - 1 /\ (t # << >> <=> Len(t) # 0)
          /\ \A i \in 1 .. Len(t) : t[i] = g[i + 1]
      BY <1>1
    <2> HIDE DEF t
    <2>2. ASSUME NEW i \in 1 .. Len(t) - 1
          PROVE  t[i + 1].n = t[i].n + 1 \/ t[i + 1].disc
      <3>1. t[i] = g[i + 1] /\ t[i + 1] = g[i + 2] /\ i + 1 \in 1 .. Len(g) - 1
        BY <1>1, <2>1
      <3> QED
        BY <1>3, <3>1 DEF Linked
    <2>3. t # << >> => t[Len(t)].n = p + 1
      BY <1>1, <1>3, <2>1 DEF Linked
    <2> QED
      BY <2>2, <2>3 DEF Linked, t
  <1>5. ASSUME NEW a \in Units \cup {None}, Joined(a, s, p, f)
        PROVE  Joined(a, g, p + 1, FALSE)
    <2>1. CASE s = << >>
      BY <1>1, <1>5, <2>1 DEF Joined
    <2>2. CASE s # << >>
      BY <1>1, <1>2, <1>5, <2>2 DEF Joined
    <2> QED
      BY <2>1, <2>2
  <1> QED
    BY <1>3, <1>4, <1>5 DEF g

(* The unit that is taken is joined to what stays. *)
LEMMA TakeChain ==
    ASSUME NEW s \in Seq(Units), NEW p \in Nat, NEW f \in BOOLEAN, s # << >>, Linked(s, p)
    PROVE  Linked(Tail(s), p) /\ Joined(Head(s), Tail(s), p, f) /\ Head(s) = s[1]
  <1> DEFINE t == Tail(s)
  <1>1. /\ t \in Seq(Units) /\ Len(s) \in Nat /\ Len(s) > 0 /\ Len(t) = Len(s) - 1
        /\ Head(s) = s[1] /\ \A i \in 1 .. Len(t) : t[i] = s[i + 1]
    OBVIOUS
  <1> HIDE DEF t
  <1>2. t # << >> <=> Len(t) # 0
    BY <1>1
  <1>3. ASSUME NEW i \in 1 .. Len(t) - 1
        PROVE  t[i + 1].n = t[i].n + 1 \/ t[i + 1].disc
    <2>1. t[i] = s[i + 1] /\ t[i + 1] = s[i + 2] /\ i + 1 \in 1 .. Len(s) - 1
      BY <1>1
    <2> QED
      BY <2>1 DEF Linked
  <1>4. Linked(t, p)
    BY <1>1, <1>2, <1>3 DEF Linked
  <1>5. Joined(Head(s), t, p, f)
    <2>1. CASE t = << >>
      <3>1. Len(s) = 1
        BY <1>1, <1>2, <2>1
      <3>2. p = Head(s).n
        BY <1>1, <3>1, Zenon DEF Linked
      <3> QED
        BY <2>1, <3>2, Zenon DEF Joined
    <2>2. CASE t # << >>
      <3>1. t[1] = s[2] /\ 1 \in 1 .. Len(s) - 1
        BY <1>1, <1>2, <2>2
      <3>2. s[2].n = s[1].n + 1 \/ s[2].disc
        BY <3>1 DEF Linked
      <3> QED
        BY <1>1, <2>2, <3>1, <3>2 DEF Joined
    <2> QED
      BY <2>1, <2>2
  <1> QED
    BY <1>1, <1>4, <1>5 DEF t

(* What GapInv reads. *)
Quietly == UNCHANGED << produced, fresh, q, pc, after, unit, waiting, observed, last, count >>

(* The threads that the chain of units does not depend on. *)
LEMMA QuietSteps ==
    ASSUME Next
    PROVE  \/ Worker \/ Reconnect \/ ShutdownQueue \/ Quietly
           \/ \E key, disc \in BOOLEAN : Push(key, disc)
  <1> USE DEF Quietly, control, mp4, source, locals
  <1>1. ApiStart \/ ApiStop \/ FormatLocation \/ Break => Quietly
    BY DEF ApiStart, ApiStop, FormatLocation, Break
  <1>2. ASSUME NEW a \in BOOLEAN, SetMedia(a) PROVE Quietly
    BY <1>2 DEF SetMedia
  <1>3. Stop \/ WaitJoin \/ WaitSettle => Quietly
    BY DEF Stop, WaitJoin, WaitSettle
  <1> QED
    BY <1>1, <1>2, <1>3 DEF Next

(* Every step keeps the chain from the last unit of the file to the next     *)
(* unit of the source.                                                       *)
LEMMA GapStep == TypeOK /\ FileInv /\ UnitInv /\ GapInv /\ [Next]_vars => GapInv'
  <1> SUFFICES ASSUME TypeOK, FileInv, UnitInv, GapInv, [Next]_vars PROVE GapInv'
    OBVIOUS
  <1> USE DEF control, mp4, source, locals, Goto, FinalizeThen
  <1>0. /\ q \in QueueType /\ q.items \in Seq(Units) /\ q.dropped \in Nat /\ produced \in Nat
        /\ fresh \in BOOLEAN /\ observed \in Nat /\ count \in Nat
    BY DEF TypeOK, QueueType
  <1>1. CASE CheckRequested
    BY <1>1 DEF CheckRequested, GapInv, UnitInv, Tracked, Holding
  <1>2. CASE Idle
    BY <1>2 DEF Idle, GapInv, UnitInv, Tracked, Holding
  <1>3. CASE Discard
    <2>1. count' = 0 /\ pc' = "loop" /\ unit' = None
      BY <1>3 DEF Discard, FileInv
    <2>2. observed' <= q'.dropped
      BY <1>0, <1>3, TakeFacts DEF Discard, GapInv
    <2>3. Linked(q.items, produced)'
      <3>1. CASE q.items = << >>
        BY <1>0, <1>3, <3>1, TakeFacts DEF Discard, GapInv
      <3>2. CASE q.items # << >>
        BY <1>0, <1>3, <3>2, TakeFacts, TakeChain DEF Discard, GapInv
      <3> QED
        BY <3>1, <3>2
    <2> QED
      BY <2>1, <2>2, <2>3 DEF GapInv
  <1>4. CASE Pop
    <2>1. /\ pc = "pop" /\ pc' = "stats" /\ unit = None
          /\ UNCHANGED << produced, fresh, waiting, observed, last, count >>
      BY <1>4 DEF Pop, UnitInv, Holding
    <2>2. CASE q.items = << >>
      <3>1. q' = q /\ unit' = None
        BY <1>0, <1>4, <2>2, TakeFacts DEF Pop
      <3> QED
        BY <2>1, <3>1 DEF GapInv, Tracked
    <2>3. CASE q.items # << >>
      <3>1. /\ q'.items = Tail(q.items) /\ q'.dropped = q.dropped /\ unit' = Head(q.items)
            /\ Head(q.items) \in Units
        BY <1>0, <1>4, <2>3, TakeFacts DEF Pop
      <3>2. Linked(q.items, produced)' /\ Joined(unit', q'.items, produced', fresh')
        BY <1>0, <2>1, <2>3, <3>1, TakeChain DEF GapInv
      <3>3. Tracked(unit)'
        BY <3>2 DEF Tracked
      <3>4. Head(q.items) = q.items[1]
        BY <1>0, <2>3, TakeChain DEF GapInv
      <3>5. count > 0 => waiting \/ q.dropped # observed \/ unit'.disc \/ Follows(last, unit')
        BY <2>1, <2>3, <3>1, <3>4 DEF GapInv, Tracked, Joined, Follows
      <3>6. unit' # None
        BY <3>1 DEF Units, None, Unit
      <3> QED
        BY <2>1, <3>1, <3>2, <3>3, <3>5, <3>6 DEF GapInv, Follows
    <2> QED
      BY <2>2, <2>3
  <1>5. CASE Stats
    <2>1. UNCHANGED << produced, fresh, q, unit, last, count >> /\ pc = "stats"
      BY <1>5 DEF Stats
    <2>2. CASE q.dropped = observed
      BY <1>5, <2>1, <2>2 DEF Stats, GapInv, Tracked, Follows
    <2>3. CASE q.dropped # observed
      <3>1. waiting' = TRUE /\ observed' = q.dropped /\ pc' \in {"bus", "finalize"}
        BY <1>5, <2>3 DEF Stats
      <3> QED
        BY <1>0, <2>1, <3>1 DEF GapInv, Tracked
    <2> QED
      BY <2>2, <2>3
  <1>6. CASE Bus
    BY <1>6 DEF Bus, GapInv, UnitInv, Tracked, Follows, SetError
  <1>7. CASE Discontinuity
    BY <1>7 DEF Discontinuity, GapInv, UnitInv, Tracked, Follows
  <1>8. CASE Gate
    <2>1. /\ UNCHANGED << produced, fresh, q, last, count, observed >> /\ pc = "gate"
          /\ unit # None
      BY <1>8 DEF Gate, UnitInv
    <2>2. CASE waiting /\ ~unit.key
      <3>1. pc' = "loop" /\ unit' = None /\ waiting'
        BY <1>8, <2>2 DEF Gate
      <3> QED
        BY <2>1, <3>1 DEF GapInv, Tracked
    <2>3. CASE ~(waiting /\ ~unit.key)
      <3>1. pc' = "write" /\ unit' = unit
        BY <1>8, <2>3 DEF Gate
      <3>2. Tracked(unit)
        BY <2>1, <2>3 DEF GapInv, Tracked, Joined
      <3>3. Tracked(unit)'
        BY <2>1, <3>1, <3>2 DEF Tracked
      <3> QED
        BY <2>1, <2>3, <3>1, <3>3 DEF GapInv, Follows
    <2> QED
      BY <2>2, <2>3
  <1>9. CASE Open
    <2>1. /\ UNCHANGED << produced, fresh, q, last, count, observed, waiting >> /\ pc = "write"
      BY <1>9 DEF Open
    <2>2. \/ pc' = "feed" /\ unit' = unit
          \/ pc' = "loop" /\ unit' = None /\ count = 0
      BY <1>9 DEF Open, FileInv
    <2> QED
      BY <2>1, <2>2 DEF GapInv, Tracked, Follows
  <1>10. CASE Feed
    <2>1. UNCHANGED << produced, fresh, q, observed >> /\ pc = "feed"
      BY <1>10 DEF Feed
    <2>2. \/ pc' = "loop" /\ unit' = None /\ waiting'
          \/ pc' = "abort" /\ UNCHANGED << unit, waiting, last, count >>
          \/ pc' = "loop" /\ unit' = None /\ last' = unit
      BY <1>10 DEF Feed
    <2> QED
      BY <2>1, <2>2 DEF GapInv, Tracked
  <1>11. CASE Abort
    BY <1>11 DEF Abort, GapInv, Tracked
  <1>12. CASE Finalize
    <2>1. /\ UNCHANGED << produced, fresh, q, unit, waiting, observed >> /\ count' = 0
          /\ pc' \in {"idle", "bus", "gate", "done"}
      BY <1>12 DEF Finalize, UnitInv, TypeOK
    <2> QED
      BY <2>1 DEF GapInv, Tracked
  <1>13. CASE Reconnect
    <2>1. /\ q'.items = << >> /\ q'.dropped = q.dropped /\ fresh'
          /\ UNCHANGED << produced, pc, unit, waiting, observed, last, count >>
      BY <1>0, <1>13, TakeFacts DEF Reconnect
    <2>2. Linked(q.items, produced)' /\ \A a : Tracked(a)'
      BY <2>1 DEF Linked, Tracked, Joined
    <2> QED
      BY <2>1, <2>2 DEF GapInv, Follows
  <1>14. CASE ShutdownQueue
    <2>1. /\ q'.items = q.items /\ q'.dropped = q.dropped
          /\ UNCHANGED << produced, fresh, pc, unit, waiting, observed, last, count >>
      BY <1>0, <1>14, TakeFacts DEF ShutdownQueue
    <2>2. /\ Linked(q.items, produced)'
          /\ \A a : Tracked(a) => Tracked(a)'
      BY <2>1 DEF GapInv, Linked, Tracked, Joined
    <2> QED
      BY <2>1, <2>2 DEF GapInv, Follows
  <1>15. ASSUME NEW key \in BOOLEAN, NEW disc \in BOOLEAN, Push(key, disc) PROVE GapInv'
    <2> DEFINE u == Unit(produced + 1, key, fresh \/ disc)
               g == Append(q.items, u)
    <2>1. /\ produced' = produced + 1 /\ q' = push(q, Capacity, u) /\ fresh' = FALSE
          /\ UNCHANGED << pc, unit, waiting, observed, last, count >>
      BY <1>15 DEF Push
    <2>2. u \in Units /\ u.n = produced + 1 /\ (fresh => u.disc)
      BY <1>0 DEF Unit, Units
    <2> HIDE DEF u
    <2>3. \/ q'.items = g /\ q'.dropped = q.dropped
          \/ q'.items = Tail(g) /\ q'.dropped = q.dropped + 1
      BY <1>0, <2>1, <2>2, PushFacts
    <2>4. /\ Linked(g, produced + 1) /\ Linked(Tail(g), produced + 1)
          /\ \A a \in Units \cup {None} :
                Joined(a, q.items, produced, fresh) => Joined(a, g, produced + 1, FALSE)
      BY <1>0, <2>2, PushChain DEF GapInv
    <2> HIDE DEF g
    <2>5. observed' <= q'.dropped /\ Linked(q.items, produced)'
      <3>1. observed' <= q'.dropped
        BY <1>0, <2>1, <2>3 DEF GapInv
      <3>2. Linked(q'.items, produced')
        BY <2>1, <2>3, <2>4, Zenon
      <3> QED
        BY <3>1, <3>2, Zenon
    <2>6. q.dropped # observed => (q.dropped # observed)'
      BY <1>0, <2>1, <2>3 DEF GapInv
    <2>7. ASSUME NEW a \in Units \cup {None}, Tracked(a) PROVE Tracked(a)'
      <3>1. CASE q'.dropped # observed
        BY <2>1, <3>1 DEF Tracked
      <3>2. CASE q'.dropped = observed
        <4>1. q'.items = g /\ q.dropped = observed
          BY <1>0, <2>3, <3>2 DEF GapInv
        <4>2. Joined(a, g, produced + 1, FALSE)
          BY <2>4, <2>7, <4>1, Zenon DEF Tracked
        <4> QED
          BY <2>1, <4>1, <4>2, Zenon DEF Tracked
      <3> QED
        BY <3>1, <3>2
    <2>8. unit \in Units \cup {None} /\ last \in Units \cup {None}
      BY DEF TypeOK
    <2>9. (Tracked(unit) => Tracked(unit)') /\ (Tracked(last) => Tracked(last)')
      BY <2>1, <2>7, <2>8
    <2> QED
      BY <2>1, <2>5, <2>6, <2>9 DEF GapInv, Follows
  <1>16. CASE Quietly \/ UNCHANGED vars
    BY <1>16 DEF Quietly, vars, GapInv, Tracked, Follows
  <1> QED
    BY <1>1, <1>2, <1>3, <1>4, <1>5, <1>6, <1>7, <1>8, <1>9, <1>10, <1>11, <1>12,
       <1>13, <1>14, <1>15, <1>16, QuietSteps DEF Worker

(* Within one file units are missing only directly after a keyframe, however *)
(* the queue drops, the source reconnects, appsrc fills up or a pipeline     *)
(* fails between the worker's steps.                                         *)
THEOREM FileGapsCorrect == Spec => FileGapsOnlyAfterKeyframe
  <1>1. Init => GapInv
    BY DEF Init, GapInv, Linked, reset, None, Unit
  <1>2. ASSUME TypeOK, GapInv, [Next]_vars, count > 0, count' = count + 1
        PROVE  last'.key \/ last'.n = last.n + 1 \/ last.key
    <2>1. count \in Nat /\ count' > count
      BY <1>2 DEF TypeOK
    <2>2. ~Quietly /\ ~(UNCHANGED vars)
      BY <2>1 DEF Quietly, vars
    <2>3. Feed
      <3> USE DEF mp4, control, source, locals
      <3>1. ~CheckRequested /\ ~Idle /\ ~Discard /\ ~Pop /\ ~Stats /\ ~Bus
        BY <2>1 DEF CheckRequested, Idle, Discard, Pop, Stats, Bus
      <3>2. ~Discontinuity /\ ~Gate /\ ~Open /\ ~Abort /\ ~Finalize
        BY <2>1 DEF Discontinuity, Gate, Open, Abort, Finalize
      <3>3. ~Reconnect /\ ~ShutdownQueue /\ \A key, disc \in BOOLEAN : ~Push(key, disc)
        BY <2>1 DEF Reconnect, ShutdownQueue, Push
      <3> QED
        BY <1>2, <2>2, <3>1, <3>2, <3>3, QuietSteps DEF Worker
    <2>4. pc = "feed" /\ last' = unit
      BY <2>1, <2>3 DEF Feed
    <2> QED
      BY <1>2, <2>4 DEF GapInv, Follows
  <1>3. TypeOK /\ GapInv /\ [Next]_vars =>
            [count > 0 /\ count' = count + 1 =>
                last'.key \/ last'.n = last.n + 1 \/ last.key]_vars
    BY <1>2
  <1> QED
    BY <1>1, <1>3, GapStep, TypeCorrect, FileCorrect, UnitCorrect, PTL
       DEF Spec, FileGapsOnlyAfterKeyframe
=============================================================================

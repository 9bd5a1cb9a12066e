-------------------------- MODULE WhepMediaProofs ---------------------------
(* Proofs about WhepMedia for every queue capacity and number of units.      *)
EXTENDS WhepMedia, TLAPS

Units == [n : Nat \ {0}, key : BOOLEAN, disc : BOOLEAN]

QueueType == [items : Seq(Units), shutdown : BOOLEAN, pushed : Nat, popped : Nat,
              dropped : Nat, discarded : Nat, high_water_mark : Nat]

(* The labels at which media_loop has a unit. *)
Holding == {"gate", "track", "opened", "send"}

TypeOK ==
    /\ produced \in Nat /\ listed \in BOOLEAN /\ running \in BOOLEAN /\ q \in QueueType
    /\ latest \in Units \cup {None} /\ publisher \in Units \cup {None}
    /\ initial \in Units \cup {None} /\ unit \in Units \cup {None}
    /\ sent \in Units \cup {None}
    /\ signaling \in {"answered", "activating", "active", "failed"}
    /\ worker \in Holding \cup {"none", "loop", "pop", "done"}
    /\ waiting \in BOOLEAN /\ observed \in Nat
    /\ track \in {"opening", "open", "closed"}
    /\ closer \in {"idle", "claimed", "joining", "closed"}

(* ClosedIsQuiet is not inductive: a worker must not start after the join.   *)
(* media_running_ is only set by the thread that then starts the worker, and *)
(* only while nobody has claimed the cleanup, and never twice.               *)
LoopInv ==
    /\ closer # "idle" => ~running
    /\ closer = "closed" => worker \in {"none", "done"}
    /\ q.shutdown => ~running
    /\ worker = "none" => ~running /\ waiting /\ observed = 0 /\ sent = None
    /\ worker # "none" <=> signaling = "active"
    /\ worker \in Holding <=> unit # None
    /\ worker = "opened" => ~running \/ track # "opening"

(* Source order, in which only a keyframe may come twice. *)
Before(a, b) == a.n < b.n \/ (a = b /\ a.key)

(* a comes before what the capture thread is about to enqueue. *)
Past(a) == /\ a.n <= produced
           /\ publisher # None /\ a.n = produced => a = publisher /\ a.key

(* A unit b continues the group of a. *)
Follows(a, b) == a # None /\ (b.n = a.n + 1 \/ a.key)

(* The units in s are in order, and each continues the group before it. *)
Linked(s) == \A i \in 1 .. Len(s) - 1 : Before(s[i], s[i + 1]) /\ Follows(s[i], s[i + 1])

(* The next unit that can reach the queue continues the group of a. *)
Expected(a) ==
    running /\ (publisher # None \/ listed) =>
        /\ a # None
        /\ a.key \/ a.n + 1 = IF publisher # None THEN produced ELSE produced + 1

(* The units on their way are in source order: those sent, in the worker's   *)
(* hands, queued, being published, and the cached keyframe between them; the *)
(* queue itself misses units only after a keyframe.                          *)
StreamInv ==
    /\ publisher # None => publisher.n = produced
    /\ Past(latest) /\ Past(initial) /\ Past(sent) /\ Past(unit)
    /\ \A i \in 1 .. Len(q.items) : Past(q.items[i])
    /\ (latest # None => latest.key) /\ (initial # None => initial.key)
    /\ unit # None => Before(sent, unit)
    /\ q.items # << >> => Before(IF unit # None THEN unit ELSE sent, q.items[1])
    /\ Linked(q.items)
    /\ q.items # << >> => Expected(q.items[Len(q.items)])

(* So does the next unit the worker can take. *)
Joined(a) == IF q.items # << >> THEN Follows(a, q.items[1]) ELSE Expected(a)

(* Or the queue's drop counter has moved. *)
Tracked(a) == q.dropped # observed \/ Joined(a)

(* The loop will not send again: both conditions are final once it runs. *)
Dead == worker # "none" /\ (~running \/ track = "closed")

(* GapsOnlyAfterKeyframe is not inductive: at every label of media_loop      *)
(* either the gate is closed, or the drop counter or the unit's mark will    *)
(* close it, or the unit continues the last one sent, or the loop is over.   *)
GapInv ==
    /\ observed <= q.dropped
    /\ worker \in {"loop", "pop"} => Dead \/ waiting \/ Tracked(sent)
    /\ worker = "gate" => \/ Dead \/ waiting \/ unit.disc \/ q.dropped # observed
                          \/ unit.key \/ Follows(sent, unit)
    /\ worker \in {"track", "opened"} => Dead \/ unit.key \/ Follows(sent, unit)
    /\ worker = "send" => unit.key \/ Follows(sent, unit)
    /\ worker \in Holding => Tracked(unit)
-----------------------------------------------------------------------------
(* Facts about the media queue: what push leaves ... *)
LEMMA PushFacts ==
    ASSUME NEW r \in QueueType, NEW u \in Units
    PROVE  LET g == Append(r.items, u)
               n == push(r, Capacity, u)
           IN  /\ n \in QueueType /\ n.shutdown = r.shutdown
               /\ \/ n.items = g /\ n.dropped = r.dropped
                  \/ n.items = Tail(g) /\ n.dropped = r.dropped + 1 /\ Len(g) > Capacity
  <1> DEFINE g == Append(r.items, u)
             o == Len(g) > Capacity
             k == IF o THEN Tail(g) ELSE g
             d == IF o THEN r.dropped + 1 ELSE r.dropped
             h == IF Len(k) > r.high_water_mark THEN Len(k) ELSE r.high_water_mark
  <1>1. /\ r.items \in Seq(Units) /\ r.pushed + 1 \in Nat /\ r.dropped \in Nat
        /\ r.high_water_mark \in Nat
    BY DEF QueueType
  <1>2. g \in Seq(Units) /\ Tail(g) \in Seq(Units)
    <2>1. g \in Seq(Units) /\ g # << >>
      BY <1>1
    <2> HIDE DEF g
    <2> QED
      BY <2>1
  <1>3. k \in Seq(Units) /\ Len(k) \in Nat
    BY <1>2
  <1>4. d \in Nat /\ h \in Nat
    BY <1>1, <1>3
  <1>5. push(r, Capacity, u) =
            [r EXCEPT !.items = k, !.pushed = r.pushed + 1, !.dropped = d, !.high_water_mark = h]
    BY DEF push, QueueType
  <1>6. \/ k = Tail(g) /\ d = r.dropped + 1 /\ o
        \/ k = g /\ d = r.dropped
    BY Zenon
  <1> HIDE DEF k, d, h, g, o
  <1>7. push(r, Capacity, u) \in QueueType
    BY <1>1, <1>3, <1>4, <1>5, Zenon DEF QueueType
  <1>8. /\ push(r, Capacity, u).items = k /\ push(r, Capacity, u).dropped = d
        /\ push(r, Capacity, u).shutdown = r.shutdown
    BY <1>5 DEF QueueType
  <1> QED
    BY <1>6, <1>7, <1>8 DEF g, o

(* ... and what take_front and shutdown leave. *)
LEMMA TakeFacts ==
    ASSUME NEW r \in QueueType
    PROVE  /\ r.items # << >> =>
                 /\ Head(r.items) \in Units /\ take_front(r) \in QueueType
                 /\ take_front(r).items = Tail(r.items) /\ take_front(r).dropped = r.dropped
                 /\ take_front(r).shutdown = r.shutdown
           /\ shutdown(r) \in QueueType
           /\ shutdown(r).items = r.items /\ shutdown(r).dropped = r.dropped
  <1>1. r.items \in Seq(Units) /\ r.popped + 1 \in Nat
    BY DEF QueueType
  <1>2. ASSUME r.items # << >>
        PROVE  /\ Head(r.items) \in Units /\ take_front(r) \in QueueType
               /\ take_front(r).items = Tail(r.items) /\ take_front(r).dropped = r.dropped
               /\ take_front(r).shutdown = r.shutdown
    <2>1. Head(r.items) \in Units /\ Tail(r.items) \in Seq(Units)
      BY <1>1, <1>2
    <2>2. take_front(r) = [r EXCEPT !.items = Tail(r.items), !.popped = r.popped + 1]
      BY <1>2 DEF take_front
    <2>3. take_front(r) \in QueueType
      BY <1>1, <2>1, <2>2, Zenon DEF QueueType
    <2> QED
      BY <2>1, <2>2, <2>3 DEF QueueType
  <1>3. shutdown(r) \in QueueType
    BY <1>1, Zenon DEF shutdown, QueueType
  <1>4. shutdown(r).items = r.items /\ shutdown(r).dropped = r.dropped
    BY DEF shutdown, QueueType
  <1> QED
    BY <1>2, <1>3, <1>4

(* The queue of a session that activate_media starts with. *)
Primed(u) == IF u = None THEN reset ELSE push(reset, Capacity, u)

(* It holds the initial keyframe or nothing, and has not dropped. *)
LEMMA PrimedFacts ==
    ASSUME NEW u \in Units \cup {None}
    PROVE  /\ Primed(u) \in QueueType /\ Primed(u).dropped = 0 /\ Primed(u).shutdown = FALSE
           /\ Primed(u).items = IF u = None THEN << >> ELSE << u >>
  <1>1. reset \in QueueType
    BY DEF reset, QueueType
  <1>2. reset.items = << >> /\ reset.dropped = 0 /\ reset.shutdown = FALSE
    BY DEF reset
  <1>3. CASE u = None
    BY <1>1, <1>2, <1>3 DEF Primed
  <1>4. CASE u # None
    <2> DEFINE g == Append(<< >>, u)
    <2>1. u \in Units /\ Primed(u) = push(reset, Capacity, u)
      BY <1>4 DEF Primed
    <2>2. g = << u >> /\ Len(g) = 1
      BY <2>1
    <2>3. /\ Primed(u) \in QueueType /\ Primed(u).shutdown = FALSE
          /\ \/ Primed(u).items = g /\ Primed(u).dropped = 0
             \/ Len(g) > Capacity
      BY <1>1, <1>2, <2>1, PushFacts
    <2> HIDE DEF g
    <2> QED
      BY <1>4, <2>2, <2>3, CapacityAssumption
  <1> QED
    BY <1>3, <1>4

(* The initial state has the declared types. *)
LEMMA TypeInit == Init => TypeOK
  <1> SUFFICES ASSUME Init PROVE TypeOK
    OBVIOUS
  <1>1. q \in QueueType
    BY DEF Init, QueueType, reset
  <1> QED
    BY <1>1 DEF Init, TypeOK, Holding

(* Every step of every thread keeps the declared types. *)
LEMMA TypeStep == TypeOK /\ [Next]_vars => TypeOK'
  <1> SUFFICES ASSUME TypeOK, [Next]_vars PROVE TypeOK'
    OBVIOUS
  <1> USE DEF loopVars, sessionVars, history, Iterate, Holding
  <1>1. ASSUME NEW key \in BOOLEAN, NEW disc \in BOOLEAN, Publish(key, disc)
        PROVE  TypeOK'
    <2>1. Unit(produced', key, disc) \in Units /\ produced' \in Nat
      BY <1>1 DEF Publish, TypeOK, Unit, Units
    <2>2. latest' \in Units \cup {None} /\ publisher' \in Units \cup {None}
      BY <1>1, <2>1, Zenon DEF Publish, TypeOK
    <2> QED
      BY <1>1, <2>1, <2>2 DEF Publish, TypeOK
  <1>2. CASE Enqueue
    <2>1. q' \in QueueType
      BY <1>2, PushFacts DEF Enqueue, TypeOK
    <2> QED
      BY <1>2, <2>1 DEF Enqueue, TypeOK
  <1>3. CASE CopyKeyframe
    BY <1>3 DEF CopyKeyframe, TypeOK
  <1>4. CASE ActivateMedia
    <2>1. q' \in QueueType
      <3>1. Primed(initial) \in QueueType
        BY PrimedFacts DEF TypeOK
      <3>2. shutdown(Primed(initial)) \in QueueType
        BY <3>1, TakeFacts
      <3>3. q' \in {q, Primed(initial), shutdown(Primed(initial))}
        BY <1>4 DEF ActivateMedia, Primed
      <3> QED
        BY <3>1, <3>2, <3>3 DEF TypeOK
    <2>2. running' \in BOOLEAN
      BY <1>4, Zenon DEF ActivateMedia, TypeOK
    <2> QED
      BY <1>4, <2>1, <2>2 DEF ActivateMedia, TypeOK
  <1>5. CASE LoopCheck
    BY <1>5 DEF LoopCheck, TypeOK
  <1>6. CASE PopUnit
    <2>1. q' \in QueueType /\ unit' \in Units \cup {None}
      BY <1>6, TakeFacts DEF PopUnit, TypeOK
    <2> QED
      BY <1>6, <2>1 DEF PopUnit, TypeOK
  <1>7. CASE Gate
    <2>1. observed' \in Nat
      BY <1>7 DEF Gate, TypeOK, QueueType
    <2>2. waiting' \in BOOLEAN
      BY <1>7, Zenon DEF Gate
    <2> QED
      BY <1>7, <2>1, <2>2 DEF Gate, TypeOK
  <1>8. CASE AwaitTrack
    BY <1>8 DEF AwaitTrack, TypeOK
  <1>9. CASE OpenGate
    <2>1. waiting' \in BOOLEAN
      BY <1>9, Zenon DEF OpenGate, TypeOK
    <2> QED
      BY <1>9, <2>1 DEF OpenGate, TypeOK
  <1>10. CASE Send
    <2>1. running' \in BOOLEAN
      BY <1>10, Zenon DEF Send, TypeOK
    <2> QED
      BY <1>10, <2>1 DEF Send, TypeOK
  <1>11. CASE TrackChange
    BY <1>11 DEF TrackChange, TypeOK
  <1>12. CASE Unlist
    <2>1. listed' \in BOOLEAN
      BY <1>12, Zenon DEF Unlist
    <2> QED
      BY <1>12, <2>1 DEF Unlist, TypeOK
  <1>13. CASE Close
    <2>1. q' \in QueueType
      BY <1>13, TakeFacts DEF Close, TypeOK
    <2>2. running' \in BOOLEAN
      BY <1>13, Zenon DEF Close, TypeOK
    <2> QED
      BY <1>13, <2>1, <2>2 DEF Close, TypeOK
  <1>14. CASE UNCHANGED vars
    BY <1>14 DEF vars, TypeOK
  <1> QED
    BY <1>1, <1>2, <1>3, <1>4, <1>5, <1>6, <1>7, <1>8, <1>9, <1>10, <1>11,
       <1>12, <1>13, <1>14 DEF Next

(* The types hold in every behaviour. *)
THEOREM TypeCorrect == Spec => []TypeOK
  BY TypeInit, TypeStep, PTL DEF Spec
-----------------------------------------------------------------------------
(* Every step keeps the order of activation, loop and close. *)
LEMMA LoopStep == TypeOK /\ LoopInv /\ [Next]_vars => LoopInv'
  <1> SUFFICES ASSUME TypeOK, LoopInv, [Next]_vars PROVE LoopInv'
    OBVIOUS
  <1> USE DEF loopVars, sessionVars, history, Iterate, Holding
  <1>1. ASSUME NEW key \in BOOLEAN, NEW disc \in BOOLEAN, Publish(key, disc)
        PROVE  LoopInv'
    BY <1>1 DEF Publish, LoopInv, TypeOK
  <1>2. CASE Enqueue
    <2>1. q'.shutdown = q.shutdown
      BY <1>2, PushFacts DEF Enqueue, TypeOK
    <2> QED
      BY <1>2, <2>1 DEF Enqueue, LoopInv
  <1>3. CASE CopyKeyframe
    BY <1>3 DEF CopyKeyframe, LoopInv, TypeOK
  <1>4. CASE ActivateMedia
    <2>1. Primed(initial).shutdown = FALSE
      BY PrimedFacts DEF TypeOK
    <2>2. \/ UNCHANGED << running, q, worker >> /\ signaling' = "failed"
          \/ q' = Primed(initial) /\ worker' = "loop" /\ signaling' = "active" /\ closer = "idle"
          \/ UNCHANGED << running, worker >> /\ signaling' = "failed"
      BY <1>4 DEF ActivateMedia, Primed
    <2>3. /\ signaling = "activating"
          /\ UNCHANGED << unit, waiting, observed, track, closer, sent >>
      BY <1>4 DEF ActivateMedia
    <2> QED
      BY <2>1, <2>2, <2>3 DEF LoopInv
  <1>5. CASE LoopCheck
    BY <1>5 DEF LoopCheck, LoopInv, TypeOK
  <1>6. CASE PopUnit
    <2>1. q.items # << >> => Head(q.items) # None /\ q'.shutdown = q.shutdown
      BY <1>6, TakeFacts DEF PopUnit, TypeOK, Units, None, Unit
    <2> QED
      BY <1>6, <2>1 DEF PopUnit, LoopInv
  <1>7. CASE Gate
    <2>1. /\ UNCHANGED << running, q, track, closer, signaling, sent >> /\ worker = "gate"
          /\ (worker' = "loop" /\ unit' = None) \/ (worker' = "track" /\ unit' = unit)
      BY <1>7 DEF Gate
    <2> QED
      BY <2>1 DEF LoopInv
  <1>8. CASE AwaitTrack
    BY <1>8 DEF AwaitTrack, LoopInv, TypeOK
  <1>9. CASE OpenGate
    BY <1>9 DEF OpenGate, LoopInv, TypeOK
  <1>10. CASE Send
    BY <1>10 DEF Send, LoopInv, TypeOK
  <1>11. CASE TrackChange
    BY <1>11 DEF TrackChange, LoopInv, TypeOK
  <1>12. CASE Unlist
    BY <1>12 DEF Unlist, LoopInv, TypeOK
  <1>13. CASE Close
    BY <1>13 DEF Close, LoopInv, TypeOK
  <1>14. CASE UNCHANGED vars
    BY <1>14 DEF vars, LoopInv, TypeOK
  <1> QED
    BY <1>1, <1>2, <1>3, <1>4, <1>5, <1>6, <1>7, <1>8, <1>9, <1>10, <1>11,
       <1>12, <1>13, <1>14 DEF Next

(* The order of activation, loop and close holds in every behaviour. *)
LEMMA LoopCorrect == Spec => []LoopInv
  <1>1. Init => LoopInv
    BY DEF Init, LoopInv, Holding, reset
  <1> QED
    BY <1>1, LoopStep, TypeCorrect, PTL DEF Spec

(* Once close_with_reason has returned the media loop has ended and          *)
(* media_running_ is off, whichever thread was activating the session.       *)
THEOREM ClosedCorrect == Spec => []ClosedIsQuiet
  <1>1. LoopInv => ClosedIsQuiet
    BY DEF LoopInv, ClosedIsQuiet
  <1> QED
    BY <1>1, LoopCorrect, PTL
-----------------------------------------------------------------------------
(* Source order is transitive. *)
LEMMA BeforeTrans ==
    ASSUME NEW a \in Units \cup {None}, NEW b \in Units, NEW c \in Units,
           Before(a, b), Before(b, c)
    PROVE  Before(a, c)
  <1>1. a.n \in Nat /\ b.n \in Nat /\ c.n \in Nat
    BY DEF Units, None, Unit
  <1> QED
    BY <1>1 DEF Before

(* What Append makes of a sequence of units. *)
LEMMA AppendFacts ==
    ASSUME NEW s \in Seq(Units), NEW u \in Units
    PROVE  LET g == Append(s, u)
           IN  /\ g \in Seq(Units) /\ g # << >> /\ Len(s) \in Nat /\ Len(g) = Len(s) + 1
               /\ g[Len(s) + 1] = u /\ \A i \in 1 .. Len(s) : g[i] = s[i]
  OBVIOUS

(* r has the units of s after a, some of them dropped, and u at its end. *)
Extends(r, a, s, u) ==
    /\ Linked(r)
    /\ r # << >> => r[Len(r)] = u /\ Before(a, r[1])
    /\ \A i \in 1 .. Len(r) : r[i] = u \/ \E j \in 1 .. Len(s) : r[i] = s[j]

(* A pushed unit goes to the end of the chain; overflow takes its head. *)
LEMMA PushChain ==
    ASSUME NEW s \in Seq(Units), NEW u \in Units, NEW a \in Units \cup {None},
           Linked(s),
           s = << >> => Before(a, u),
           s # << >> => /\ Before(a, s[1])
                        /\ Before(s[Len(s)], u) /\ Follows(s[Len(s)], u)
    PROVE  LET g == Append(s, u)
               t == Tail(g)
           IN  /\ g # << >> /\ g[1] = (IF s = << >> THEN u ELSE s[1])
               /\ Extends(g, a, s, u) /\ Extends(t, a, s, u)
  <1> DEFINE g == Append(s, u)
             t == Tail(g)
  <1>1. /\ g \in Seq(Units) /\ g # << >> /\ Len(s) \in Nat /\ Len(g) = Len(s) + 1
        /\ g[Len(s) + 1] = u /\ \A i \in 1 .. Len(s) : g[i] = s[i]
    BY AppendFacts, Zenon
  <1>2. s # << >> <=> Len(s) # 0
    OBVIOUS
  <1> HIDE DEF g
  <1>3. /\ t \in Seq(Units) /\ Len(t) = Len(s) /\ (t # << >> <=> Len(t) # 0)
        /\ \A i \in 1 .. Len(t) : t[i] = g[i + 1]
    BY <1>1
  <1> HIDE DEF t
  <1>4. g[1] = (IF s = << >> THEN u ELSE s[1]) /\ g[Len(g)] = u
    BY <1>1, <1>2
  <1>5. \A i \in 1 .. Len(g) : g[i] = u \/ \E j \in 1 .. Len(s) : g[i] = s[j]
    <2> SUFFICES ASSUME NEW i \in 1 .. Len(g)
                 PROVE  g[i] = u \/ \E j \in 1 .. Len(s) : g[i] = s[j]
      OBVIOUS
    <2>1. CASE i = Len(s) + 1
      BY <1>1, <2>1
    <2>2. CASE i # Len(s) + 1
      BY <1>1, <2>2
    <2> QED
      BY <2>1, <2>2
  <1>6. ASSUME NEW i \in 1 .. Len(g) - 1
        PROVE  Before(g[i], g[i + 1]) /\ Follows(g[i], g[i + 1])
    <2>1. CASE i = Len(s)
      <3>1. s # << >> /\ g[i] = s[Len(s)] /\ g[i + 1] = u
        BY <1>1, <1>2, <2>1
      <3> QED
        BY <3>1
    <2>2. CASE i # Len(s)
      <3>1. g[i] = s[i] /\ g[i + 1] = s[i + 1] /\ i \in 1 .. Len(s) - 1
        BY <1>1, <2>2
      <3> QED
        BY <3>1 DEF Linked
    <2> QED
      BY <2>1, <2>2
  <1>7. Linked(g) /\ Before(a, g[1])
    BY <1>4, <1>6, Zenon DEF Linked
  <1>8. ASSUME NEW i \in 1 .. Len(t) - 1
        PROVE  Before(t[i], t[i + 1]) /\ Follows(t[i], t[i + 1])
    <2>1. t[i] = g[i + 1] /\ t[i + 1] = g[i + 2] /\ i + 1 \in 1 .. Len(g) - 1
      BY <1>1, <1>3
    <2>2. i + 2 = (i + 1) + 1
      OBVIOUS
    <2>3. Before(g[i + 1], g[(i + 1) + 1]) /\ Follows(g[i + 1], g[(i + 1) + 1])
      BY <1>6, <2>1, Zenon
    <2> QED
      BY <2>1, <2>2, <2>3
  <1>9. ASSUME t # << >> PROVE t[Len(t)] = u /\ Before(a, t[1])
    <2>1. t[Len(t)] = u /\ t[1] = g[1 + 1] /\ 1 \in 1 .. Len(g) - 1
      BY <1>1, <1>3, <1>9
    <2>2. Before(g[1], g[1 + 1])
      BY <1>6, <2>1, Zenon
    <2>3. g[1] \in Units /\ t[1] \in Units
      BY <1>1, <1>3, <1>9
    <2> QED
      BY <1>7, <2>1, <2>2, <2>3, BeforeTrans
  <1>10. \A i \in 1 .. Len(t) : t[i] = u \/ \E j \in 1 .. Len(s) : t[i] = s[j]
    <2> SUFFICES ASSUME NEW i \in 1 .. Len(t)
                 PROVE  t[i] = u \/ \E j \in 1 .. Len(s) : t[i] = s[j]
      OBVIOUS
    <2>1. t[i] = g[i + 1] /\ i + 1 \in 1 .. Len(g)
      BY <1>1, <1>3
    <2> QED
      BY <1>5, <2>1, Zenon
  <1>11. Linked(t)
    BY <1>8, Zenon DEF Linked
  <1>12. Extends(g, a, s, u) /\ Extends(t, a, s, u)
    BY <1>4, <1>5, <1>7, <1>9, <1>10, <1>11, Zenon DEF Extends
  <1> QED
    BY <1>1, <1>4, <1>12, Zenon DEF g, t

(* The unit that is taken is linked to what stays. *)
LEMMA TakeChain ==
    ASSUME NEW s \in Seq(Units), s # << >>, Linked(s)
    PROVE  LET t == Tail(s)
           IN  /\ Head(s) = s[1] /\ Head(s) \in Units /\ Linked(t)
               /\ t = << >> => Head(s) = s[Len(s)]
               /\ t # << >> => /\ Before(Head(s), t[1]) /\ Follows(Head(s), t[1])
                               /\ t[Len(t)] = s[Len(s)]
               /\ \A i \in 1 .. Len(t) : i + 1 \in 1 .. Len(s) /\ t[i] = s[i + 1]
               /\ 1 \in 1 .. Len(s)
  <1> DEFINE t == Tail(s)
  <1>1. /\ t \in Seq(Units) /\ Len(s) \in Nat /\ Len(s) > 0 /\ Len(t) = Len(s) - 1
        /\ Head(s) = s[1] /\ s[1] \in Units /\ \A i \in 1 .. Len(t) : t[i] = s[i + 1]
    OBVIOUS
  <1> HIDE DEF t
  <1>2. t # << >> <=> Len(t) # 0
    BY <1>1
  <1>3. ASSUME NEW i \in 1 .. Len(t) - 1
        PROVE  Before(t[i], t[i + 1]) /\ Follows(t[i], t[i + 1])
    <2>1. t[i] = s[i + 1] /\ t[i + 1] = s[(i + 1) + 1] /\ i + 1 \in 1 .. Len(s) - 1
      BY <1>1
    <2> QED
      BY <2>1, Zenon DEF Linked
  <1>4. ASSUME t = << >> PROVE Head(s) = s[Len(s)]
    <2>1. Len(s) = 1
      BY <1>1, <1>2, <1>4
    <2> QED
      BY <1>1, <2>1, Zenon
  <1>5. ASSUME t # << >>
        PROVE  /\ Before(Head(s), t[1]) /\ Follows(Head(s), t[1])
               /\ t[Len(t)] = s[Len(s)]
    <2>1. t[1] = s[1 + 1] /\ 1 \in 1 .. Len(s) - 1 /\ t[Len(t)] = s[Len(s)]
      BY <1>1, <1>2, <1>5
    <2> QED
      BY <1>1, <2>1, Zenon DEF Linked
  <1>6. Linked(t)
    BY <1>3, Zenon DEF Linked
  <1>7. /\ \A i \in 1 .. Len(t) : i + 1 \in 1 .. Len(s) /\ t[i] = s[i + 1]
        /\ 1 \in 1 .. Len(s)
    BY <1>1
  <1> QED
    BY <1>1, <1>4, <1>5, <1>6, <1>7, Zenon DEF t

(* A step in which no unit is published and no session is listed or started  *)
(* keeps what is past and what is expected.                                  *)
LEMMA ExpectedKept ==
    ASSUME UNCHANGED << produced, publisher >>, running' => running, listed' => listed
    PROVE  \A a : (Past(a) => Past(a)') /\ (Expected(a) => Expected(a)')
  BY DEF Past, Expected

(* A published unit is the one that was expected. *)
LEMMA PublishExpected ==
    ASSUME TypeOK, NEW key \in BOOLEAN, NEW disc \in BOOLEAN, Publish(key, disc)
    PROVE  \A a : Expected(a) => Expected(a)'
  <1>1. /\ publisher = None /\ produced' = produced + 1 /\ UNCHANGED << running, listed >>
        /\ publisher' = IF listed THEN Unit(produced + 1, key, disc) ELSE None
    BY DEF Publish, sessionVars
  <1>2. Unit(produced + 1, key, disc) # None
    BY DEF Unit, None, TypeOK
  <1> QED
    BY <1>1, <1>2 DEF Expected

(* Every step keeps the units on their way in source order. *)
LEMMA StreamStep == TypeOK /\ LoopInv /\ StreamInv /\ [Next]_vars => StreamInv'
  <1> SUFFICES ASSUME TypeOK, LoopInv, StreamInv, [Next]_vars PROVE StreamInv'
    OBVIOUS
  <1> USE DEF loopVars, sessionVars, history, Iterate
  <1>0. /\ q \in QueueType /\ q.items \in Seq(Units) /\ produced \in Nat
        /\ unit \in Units \cup {None} /\ sent \in Units \cup {None}
        /\ publisher \in Units \cup {None} /\ None.n = 0
        /\ \A a \in Units \cup {None} : a.n \in Nat
        /\ \A a \in Units : a.n > 0 /\ a # None
    BY DEF TypeOK, QueueType, Units, None, Unit
  <1>1. ASSUME NEW key \in BOOLEAN, NEW disc \in BOOLEAN, Publish(key, disc)
        PROVE  StreamInv'
    <2> DEFINE u == Unit(produced + 1, key, disc)
    <2>1. /\ publisher = None /\ produced' = produced + 1
          /\ latest' = (IF key THEN u ELSE IF disc THEN None ELSE latest)
          /\ publisher' = (IF listed THEN u ELSE None)
          /\ UNCHANGED << running, q, unit, sent, initial, listed >>
      BY <1>1 DEF Publish
    <2>2. u.n = produced + 1 /\ u.key = key
      BY DEF Unit
    <2> HIDE DEF u
    <2>3. ASSUME NEW a, a.n \in Nat, Past(a) PROVE Past(a)'
      <3>1. a.n <= produced' /\ a.n # produced'
        BY <1>0, <2>1, <2>3 DEF Past
      <3> QED
        BY <3>1, Zenon DEF Past
    <2>4. Past(latest)' /\ (latest' # None => latest'.key)
      <3>1. CASE latest' = u /\ key
        <4>1. latest'.n = produced' /\ latest'.key /\ publisher' \in {latest', None}
          BY <2>1, <2>2, <3>1
        <4>2. latest'.n <= produced'
          BY <1>0, <2>1, <4>1
        <4> QED
          BY <4>1, <4>2 DEF Past
      <3>2. CASE latest' = None
        <4>1. latest'.n = 0 /\ produced' > 0
          BY <1>0, <2>1, <3>2
        <4>2. latest'.n <= produced' /\ latest'.n # produced'
          BY <1>0, <2>1, <4>1
        <4> QED
          BY <3>2, <4>2 DEF Past
      <3>3. CASE latest' = latest
        <4>1. latest.n \in Nat /\ Past(latest)
          BY <1>0 DEF TypeOK, StreamInv
        <4>2. Past(latest)'
          BY <2>3, <3>3, <4>1, Zenon
        <4> QED
          BY <3>3, <4>2 DEF StreamInv
      <3> QED
        BY <2>1, <3>1, <3>2, <3>3, Zenon
    <2>5. initial.n \in Nat /\ sent.n \in Nat /\ unit.n \in Nat
      BY <1>0 DEF TypeOK
    <2>6. Past(initial)' /\ Past(sent)' /\ Past(unit)'
      BY <2>1, <2>3, <2>5, Zenon DEF StreamInv
    <2>7. \A i \in 1 .. Len(q'.items) : Past(q.items[i])'
      <3> SUFFICES ASSUME NEW i \in 1 .. Len(q.items) PROVE Past(q.items[i])'
        BY <2>1
      <3>1. q.items[i].n \in Nat /\ Past(q.items[i])
        BY <1>0 DEF StreamInv
      <3> QED
        BY <2>1, <2>3, <3>1, Zenon
    <2>8. publisher' # None => publisher'.n = produced'
      BY <2>1, <2>2
    <2>9. \A a : Expected(a) => Expected(a)'
      BY <1>1, PublishExpected
    <2> QED
      BY <2>1, <2>4, <2>6, <2>7, <2>8, <2>9 DEF StreamInv
  <1>2. CASE Enqueue
    <2>1. /\ publisher # None /\ publisher' = None /\ publisher \in Units
          /\ UNCHANGED << produced, latest, running, unit, sent, initial, listed >>
      BY <1>0, <1>2 DEF Enqueue
    <2>2. \A a : Past(a) => Past(a)'
      BY <2>1 DEF Past
    <2>3. CASE ~(running /\ ~q.shutdown)
      <3>1. q' = q /\ ~running'
        BY <1>2, <2>1, <2>3 DEF Enqueue, LoopInv
      <3> QED
        BY <2>1, <2>2, <3>1 DEF StreamInv, Expected
    <2>4. CASE running /\ ~q.shutdown
      <3> DEFINE a == IF unit # None THEN unit ELSE sent
                 g == Append(q.items, publisher)
                 t == Tail(g)
                 e == q.items[Len(q.items)]
      <3>1. q' = push(q, Capacity, publisher)
        BY <1>2, <2>4 DEF Enqueue
      <3>2. q'.items = g \/ q'.items = t
        BY <1>0, <2>1, <3>1, PushFacts
      <3>3. \A b : b.n \in Nat /\ Past(b) => Before(b, publisher)
        BY <1>0, <2>1 DEF StreamInv, Past, Before
      <3>4. a \in Units \cup {None} /\ a.n \in Nat /\ Past(a)
        BY <1>0 DEF StreamInv
      <3>5. q.items # << >> => e \in Units /\ e.n \in Nat /\ Past(e) /\ Expected(e)
        BY <1>0 DEF StreamInv
      <3>6. q.items # << >> => Before(e, publisher) /\ Follows(e, publisher)
        <4>1. q.items # << >> => Before(e, publisher)
          BY <3>3, <3>5, Zenon
        <4>2. q.items # << >> => Follows(e, publisher)
          <5> SUFFICES ASSUME q.items # << >> PROVE Follows(e, publisher)
            OBVIOUS
          <5> HIDE DEF e
          <5> QED
            BY <2>1, <2>4, <3>5 DEF Expected, Follows, StreamInv
        <4> QED
          BY <4>1, <4>2
      <3>7. Linked(q.items) /\ (q.items # << >> => Before(a, q.items[1]))
        BY DEF StreamInv
      <3>8. Before(a, publisher)
        BY <3>3, <3>4, Zenon
      <3> HIDE DEF a
      <3>9. /\ q.items \in Seq(Units) /\ publisher \in Units /\ a \in Units \cup {None}
            /\ Linked(q.items) /\ (q.items = << >> => Before(a, publisher))
            /\ q.items # << >> => /\ Before(a, q.items[1])
                                  /\ Before(q.items[Len(q.items)], publisher)
                                  /\ Follows(q.items[Len(q.items)], publisher)
        BY <1>0, <2>1, <3>4, <3>6, <3>7, <3>8, Zenon
      <3>10. Extends(g, a, q.items, publisher) /\ Extends(t, a, q.items, publisher)
        BY <3>9, PushChain
      <3> HIDE DEF g, t, e
      <3>11. Extends(q'.items, a, q.items, publisher)
        BY <3>2, <3>10, Zenon
      <3>12. Linked(q.items)'
        BY <3>11, Zenon DEF Extends
      <3>13. \A i \in 1 .. Len(q'.items) : Past(q.items[i])'
        <4> SUFFICES ASSUME NEW i \in 1 .. Len(q'.items) PROVE Past(q.items[i])'
          OBVIOUS
        <4>1. CASE q'.items[i] = publisher
          <5>1. publisher.n <= produced'
            BY <1>0, <2>1 DEF StreamInv
          <5> QED
            BY <2>1, <4>1, <5>1 DEF Past
        <4>2. CASE \E j \in 1 .. Len(q.items) : q'.items[i] = q.items[j]
          <5> PICK j \in 1 .. Len(q.items) : q'.items[i] = q.items[j]
            BY <4>2
          <5>1. Past(q.items[j])
            BY DEF StreamInv
          <5> QED
            BY <2>1, <5>1 DEF Past
        <4> QED
          BY <3>11, <4>1, <4>2 DEF Extends
      <3>14. q'.items # << >> => Expected(q.items[Len(q.items)])'
        <4>1. publisher.n = produced' /\ publisher # None
          BY <2>1 DEF StreamInv
        <4> QED
          BY <2>1, <3>11, <4>1 DEF Expected, Extends
      <3>15. a = IF unit' # None THEN unit' ELSE sent'
        BY <2>1 DEF a
      <3> QED
        BY <2>1, <2>2, <3>11, <3>12, <3>13, <3>14, <3>15 DEF StreamInv, Extends
    <2> QED
      BY <2>3, <2>4
  <1>3. CASE CopyKeyframe
    <2>1. /\ UNCHANGED << produced, latest, publisher, listed, running, q, unit, sent >>
          /\ initial' \in {initial, latest}
      BY <1>3 DEF CopyKeyframe
    <2>2. \A a : (Past(a) => Past(a)') /\ (Expected(a) => Expected(a)')
      BY <2>1, ExpectedKept
    <2> QED
      BY <2>1, <2>2 DEF StreamInv, Before
  <1>4. CASE ActivateMedia
    <2>1. /\ UNCHANGED << produced, latest, publisher, listed, unit, sent >>
          /\ initial' = None /\ unit = None /\ sent = None /\ ~running
      BY <1>4 DEF ActivateMedia, LoopInv, Holding
    <2>2. Past(None)' /\ \A a : Past(a) => Past(a)'
      <3>1. publisher # None => produced > 0
        BY <1>0 DEF StreamInv
      <3> QED
        BY <1>0, <2>1, <3>1 DEF Past
    <2>3. \/ q' = q /\ running' = running
          \/ q'.items = IF initial = None THEN << >> ELSE << initial >>
      <3>1. \/ q' = q /\ running' = running
            \/ q' = Primed(initial) \/ q' = shutdown(Primed(initial))
        BY <1>4 DEF ActivateMedia, Primed
      <3>2. /\ Primed(initial) \in QueueType
            /\ Primed(initial).items = IF initial = None THEN << >> ELSE << initial >>
        BY PrimedFacts, Zenon DEF TypeOK
      <3>3. shutdown(Primed(initial)).items = Primed(initial).items
        BY <3>2, TakeFacts, Zenon
      <3> QED
        BY <3>1, <3>2, <3>3, Zenon
    <2>4. CASE q' = q /\ running' = running
      BY <2>1, <2>2, <2>4 DEF StreamInv, Before, Expected
    <2>5. CASE q'.items = << >>
      <3>1. Linked(q.items)' /\ 1 .. Len(q'.items) = {}
        BY <2>5 DEF Linked
      <3>2. Past(latest)' /\ Past(initial)' /\ Past(sent)' /\ Past(unit)'
        BY <2>1, <2>2, Zenon DEF StreamInv
      <3>3. publisher' # None => publisher'.n = produced'
        BY <2>1, Zenon DEF StreamInv
      <3>4. (latest' # None => latest'.key) /\ (initial' # None => initial'.key)
        BY <2>1, Zenon DEF StreamInv
      <3> QED
        BY <2>1, <2>5, <3>1, <3>2, <3>3, <3>4, Zenon DEF StreamInv
    <2>6. CASE q'.items = << initial >> /\ initial # None
      <3>1. /\ Len(q'.items) = 1 /\ q'.items[1] = initial /\ initial \in Units /\ initial.key
            /\ Past(initial)
        BY <2>6 DEF TypeOK, StreamInv
      <3>2. Before(sent, initial)
        BY <1>0, <2>1, <3>1 DEF Before
      <3>3. Linked(q.items)'
        BY <3>1 DEF Linked
      <3>4. Expected(q.items[Len(q.items)])'
        BY <2>6, <3>1 DEF Expected
      <3>5. \A i \in 1 .. Len(q'.items) : Past(q.items[i])'
        BY <2>2, <3>1
      <3> QED
        BY <2>1, <2>2, <3>1, <3>2, <3>3, <3>4, <3>5 DEF StreamInv
    <2> QED
      BY <2>3, <2>4, <2>5, <2>6
  <1>5. CASE LoopCheck \/ AwaitTrack \/ TrackChange \/ UNCHANGED vars
    <2>1. UNCHANGED << produced, latest, publisher, listed, initial, running, q, unit, sent >>
      BY <1>5 DEF LoopCheck, AwaitTrack, TrackChange, vars
    <2>2. \A a : (Past(a) => Past(a)') /\ (Expected(a) => Expected(a)')
      BY <2>1, ExpectedKept
    <2> QED
      BY <2>1, <2>2 DEF StreamInv, Before
  <1>6. CASE PopUnit
    <2>1. /\ UNCHANGED << produced, latest, publisher, listed, initial, running, sent >>
          /\ unit = None
      BY <1>6 DEF PopUnit, LoopInv, Holding
    <2>2. \A a : (Past(a) => Past(a)') /\ (Expected(a) => Expected(a)')
      BY <2>1, ExpectedKept
    <2>3. CASE q.items = << >>
      BY <1>6, <2>1, <2>2, <2>3 DEF PopUnit, StreamInv, Before
    <2>4. CASE q.items # << >>
      <3> DEFINE t == Tail(q.items)
      <3>1. unit' = Head(q.items) /\ q'.items = t
        BY <1>0, <1>6, <2>4, TakeFacts DEF PopUnit
      <3>2. /\ Head(q.items) = q.items[1] /\ Head(q.items) \in Units /\ Linked(t)
            /\ t # << >> => /\ Before(Head(q.items), t[1])
                            /\ t[Len(t)] = q.items[Len(q.items)]
            /\ \A i \in 1 .. Len(t) : i + 1 \in 1 .. Len(q.items) /\ t[i] = q.items[i + 1]
            /\ 1 \in 1 .. Len(q.items)
        BY <1>0, <2>4, TakeChain DEF StreamInv
      <3> HIDE DEF t
      <3>3. Before(sent, q.items[1]) /\ Past(q.items[1]) /\ Expected(q.items[Len(q.items)])
        BY <2>1, <2>4, <3>2 DEF StreamInv
      <3>4. \A i \in 1 .. Len(q'.items) : Past(q.items[i])'
        <4> SUFFICES ASSUME NEW i \in 1 .. Len(t) PROVE Past(q.items[i])'
          BY <3>1
        <4>1. Past(q.items[i + 1]) /\ q'.items[i] = q.items[i + 1]
          BY <3>1, <3>2 DEF StreamInv
        <4> QED
          BY <2>2, <4>1, Zenon
      <3>5. unit' # None /\ Past(unit)' /\ Before(sent, unit)'
        BY <1>0, <2>1, <2>2, <3>1, <3>2, <3>3, Zenon
      <3>6. Linked(q.items)' /\ (q'.items # << >> => Before(unit', q'.items[1]))
        BY <3>1, <3>2, Zenon
      <3>7. q'.items # << >> => Expected(q.items[Len(q.items)])'
        BY <2>2, <3>1, <3>2, <3>3, Zenon
      <3> QED
        BY <2>1, <2>2, <3>4, <3>5, <3>6, <3>7 DEF StreamInv
    <2> QED
      BY <2>3, <2>4
  <1>7. CASE Gate \/ OpenGate \/ Send
    <2>1. /\ UNCHANGED << produced, latest, publisher, listed, initial, q >>
          /\ unit # None /\ (running' => running)
      BY <1>7 DEF Gate, OpenGate, Send, LoopInv, Holding
    <2>2. \A a : (Past(a) => Past(a)') /\ (Expected(a) => Expected(a)')
      BY <2>1, ExpectedKept
    <2>3. \/ UNCHANGED << unit, sent >>
          \/ unit' = None /\ sent' \in {sent, unit}
      BY <1>7 DEF Gate, OpenGate, Send
    <2>4. Before(sent, unit) /\ (q.items # << >> => Before(unit, q.items[1]))
      BY <2>1 DEF StreamInv
    <2>5. q.items # << >> => Before(sent, q.items[1])
      <3>1. unit \in Units /\ (q.items # << >> => q.items[1] \in Units)
        BY <1>0, <2>1
      <3> QED
        BY <1>0, <2>4, <3>1, BeforeTrans
    <2>6. Past(None)'
      <3>1. publisher # None => produced > 0
        BY <1>0 DEF StreamInv
      <3> QED
        BY <1>0, <2>1, <3>1 DEF Past
    <2>7. Past(sent) /\ Past(unit) /\ Past(latest) /\ Past(initial)
      BY DEF StreamInv
    <2>8. /\ Past(sent)' /\ Past(unit)' /\ Past(latest)' /\ Past(initial)'
          /\ unit' # None => Before(sent', unit')
          /\ q'.items # << >> => Before(IF unit' # None THEN unit' ELSE sent', q'.items[1])
      <3>1. CASE UNCHANGED << unit, sent >>
        BY <2>1, <2>2, <2>4, <2>7, <3>1
      <3>2. CASE unit' = None /\ sent' \in {sent, unit}
        BY <2>1, <2>2, <2>4, <2>5, <2>6, <2>7, <3>2
      <3> QED
        BY <2>3, <3>1, <3>2
    <2> QED
      BY <2>1, <2>2, <2>8 DEF StreamInv
  <1>8. CASE Unlist \/ Close
    <2>1. /\ UNCHANGED << produced, latest, publisher, initial, unit, sent >>
          /\ (running' => running) /\ (listed' => listed)
      BY <1>8 DEF Unlist, Close
    <2>2. q'.items = q.items
      BY <1>0, <1>8, TakeFacts DEF Unlist, Close
    <2>3. \A a : (Past(a) => Past(a)') /\ (Expected(a) => Expected(a)')
      BY <2>1, ExpectedKept
    <2> QED
      BY <2>1, <2>2, <2>3 DEF StreamInv, Before
  <1> QED
    BY <1>1, <1>2, <1>3, <1>4, <1>5, <1>6, <1>7, <1>8 DEF Next

(* The order holds in every behaviour. *)
LEMMA StreamCorrect == Spec => []StreamInv
  <1>1. Init => StreamInv
    BY DEF Init, StreamInv, Past, Linked, reset, None, Unit
  <1> QED
    BY <1>1, StreamStep, TypeCorrect, LoopCorrect, PTL DEF Spec
-----------------------------------------------------------------------------
(* A step outside the queue and the loop: what GapInv reads stays. *)
GapKept == /\ UNCHANGED << worker, unit, sent, waiting, observed >>
           /\ q'.items = q.items /\ q'.dropped = q.dropped
           /\ Dead => Dead'

(* Such a step keeps the chain if the same unit is expected next. *)
LEMMA KeptStep ==
    ASSUME GapInv, GapKept, \A a : Expected(a) => Expected(a)'
    PROVE  GapInv'
  <1>1. \A a : Tracked(a) => Tracked(a)'
    BY DEF GapKept, Tracked, Joined, Follows
  <1>2. /\ Tracked(sent) => Tracked(sent)'
        /\ Tracked(unit) => Tracked(unit)'
    BY <1>1 DEF GapKept
  <1> QED
    BY <1>2 DEF GapKept, GapInv, Follows, Holding

(* A unit that the capture thread enqueues is the one that was expected, or  *)
(* its drop shows in the counter.                                            *)
LEMMA EnqueueTracked ==
    ASSUME TypeOK, LoopInv, StreamInv, observed <= q.dropped, Enqueue,
           NEW a \in Units \cup {None}, Tracked(a)
    PROVE  Tracked(a)'
  <1> DEFINE g == Append(q.items, publisher)
  <1>1. /\ publisher # None /\ publisher \in Units /\ publisher' = None
        /\ q \in QueueType /\ q.items \in Seq(Units) /\ q.dropped \in Nat /\ observed \in Nat
        /\ UNCHANGED << produced, running, observed, listed >>
    BY DEF Enqueue, TypeOK, QueueType, loopVars, sessionVars
  <1>2. CASE ~(running /\ ~q.shutdown)
    <2>1. q' = q /\ ~running'
      BY <1>1, <1>2 DEF Enqueue, LoopInv
    <2> QED
      BY <1>1, <2>1 DEF Tracked, Joined, Expected
  <1>3. CASE running /\ ~q.shutdown
    <2>1. \/ q'.items = g /\ q'.dropped = q.dropped
          \/ q'.dropped = q.dropped + 1
      BY <1>1, <1>3, PushFacts DEF Enqueue
    <2>2. CASE q'.dropped # observed
      BY <1>1, <2>2 DEF Tracked
    <2>3. CASE q'.dropped = observed
      <3>1. q'.items = g /\ q.dropped = observed
        BY <1>1, <2>1, <2>3
      <3>2. g # << >> /\ g[1] = IF q.items = << >> THEN publisher ELSE q.items[1]
        <4>1. /\ g # << >> /\ Len(q.items) \in Nat /\ g[Len(q.items) + 1] = publisher
              /\ \A i \in 1 .. Len(q.items) : g[i] = q.items[i]
          BY <1>1, AppendFacts, Zenon
        <4>2. (q.items = << >> => Len(q.items) = 0) /\ (q.items # << >> => Len(q.items) > 0)
          BY <1>1
        <4> HIDE DEF g
        <4> QED
          BY <4>1, <4>2
      <3> HIDE DEF g
      <3>3. Joined(a)
        BY <3>1 DEF Tracked
      <3>4. Follows(a, g[1])
        <4>1. CASE q.items = << >>
          <5>1. publisher.n = produced /\ a # None /\ (a.key \/ a.n + 1 = produced)
            BY <1>1, <1>3, <3>3, <4>1 DEF Joined, Expected, StreamInv
          <5>2. g[1] = publisher
            BY <3>2, <4>1
          <5> QED
            BY <5>1, <5>2 DEF Follows
        <4>2. CASE q.items # << >>
          BY <3>2, <3>3, <4>2 DEF Joined
        <4> QED
          BY <4>1, <4>2
      <3> QED
        BY <3>1, <3>2, <3>4 DEF Tracked, Joined, Follows
    <2> QED
      BY <2>2, <2>3
  <1> QED
    BY <1>2, <1>3

(* Every step keeps the chain from the last unit sent to the next unit of    *)
(* the source.                                                               *)
LEMMA GapStep == TypeOK /\ LoopInv /\ StreamInv /\ GapInv /\ [Next]_vars => GapInv'
  <1> SUFFICES ASSUME TypeOK, LoopInv, StreamInv, GapInv, [Next]_vars PROVE GapInv'
    OBVIOUS
  <1> USE DEF loopVars, sessionVars, history, Iterate
  <1>0. /\ q \in QueueType /\ q.items \in Seq(Units) /\ q.dropped \in Nat /\ observed \in Nat
        /\ unit \in Units \cup {None} /\ sent \in Units \cup {None}
    BY DEF TypeOK, QueueType
  <1>1. ASSUME NEW key \in BOOLEAN, NEW disc \in BOOLEAN, Publish(key, disc)
        PROVE  GapInv'
    <2>1. GapKept
      BY <1>1 DEF Publish, GapKept, Dead
    <2> QED
      BY <1>1, <2>1, PublishExpected, KeptStep
  <1>2. CASE Enqueue
    <2>1. UNCHANGED << worker, unit, sent, waiting, observed, running, track >>
      BY <1>2 DEF Enqueue
    <2>2. q'.dropped = q.dropped \/ q'.dropped = q.dropped + 1
      <3>1. publisher \in Units /\ (q' = q \/ q' = push(q, Capacity, publisher))
        BY <1>2 DEF Enqueue, TypeOK
      <3> QED
        BY <1>0, <3>1, PushFacts
    <2>3. observed <= q.dropped
      BY DEF GapInv
    <2>4. observed' <= q'.dropped /\ (q.dropped # observed => q'.dropped # observed')
      BY <1>0, <2>1, <2>2, <2>3
    <2>5. \A a \in Units \cup {None} : Tracked(a) => Tracked(a)'
      BY <1>2, <2>3, EnqueueTracked
    <2>6. (Tracked(sent) => Tracked(sent)') /\ (Tracked(unit) => Tracked(unit)')
      BY <1>0, <2>1, <2>5
    <2> QED
      BY <2>1, <2>4, <2>6 DEF GapInv, Dead, Follows, Holding
  <1>3. CASE CopyKeyframe \/ TrackChange \/ Unlist \/ Close \/ UNCHANGED vars
    <2>1. /\ UNCHANGED << worker, unit, sent, waiting, observed, produced, publisher >>
          /\ (running' => running) /\ (listed' => listed)
      BY <1>3 DEF CopyKeyframe, TrackChange, Unlist, Close, vars
    <2>2. q'.items = q.items /\ q'.dropped = q.dropped
      BY <1>0, <1>3, TakeFacts DEF CopyKeyframe, TrackChange, Unlist, Close, vars
    <2>3. track = "closed" => track' = "closed"
      BY <1>3 DEF CopyKeyframe, TrackChange, Unlist, Close, vars
    <2>4. GapKept
      BY <2>1, <2>2, <2>3 DEF GapKept, Dead
    <2> QED
      BY <2>1, <2>4, ExpectedKept, KeptStep
  <1>4. CASE ActivateMedia
    <2>1. /\ worker = "none" /\ worker' \in {"none", "loop"} /\ waiting' /\ observed' = 0
      BY <1>4 DEF ActivateMedia, LoopInv, TypeOK
    <2>2. q'.dropped \in Nat
      BY <1>4, TypeStep DEF Next, TypeOK, QueueType
    <2> QED
      BY <2>1, <2>2 DEF GapInv, Holding
  <1>5. CASE LoopCheck
    <2>1. /\ UNCHANGED << unit, sent, waiting, observed, produced, publisher, running, listed, q,
                          track >>
          /\ worker = "loop" /\ worker' \in {"pop", "done"}
      BY <1>5 DEF LoopCheck
    <2>2. Tracked(sent) => Tracked(sent)'
      BY <2>1, ExpectedKept DEF Tracked, Joined, Follows
    <2> QED
      BY <2>1, <2>2 DEF GapInv, Dead, Holding
  <1>6. CASE PopUnit
    <2>1. /\ UNCHANGED << sent, waiting, observed, produced, publisher, running, listed, track >>
          /\ worker = "pop"
      BY <1>6 DEF PopUnit
    <2>2. CASE q.items = << >>
      <3>1. worker' = "loop" /\ q' = q
        BY <1>6, <2>2 DEF PopUnit
      <3>2. Tracked(sent) => Tracked(sent)'
        BY <2>1, <3>1, ExpectedKept DEF Tracked, Joined, Follows
      <3> QED
        BY <2>1, <3>1, <3>2 DEF GapInv, Dead, Holding
    <2>3. CASE q.items # << >>
      <3> DEFINE t == Tail(q.items)
      <3>1. /\ unit' = Head(q.items) /\ q'.items = t /\ q'.dropped = q.dropped
            /\ worker' = "gate"
        BY <1>0, <1>6, <2>3, TakeFacts DEF PopUnit
      <3>2. /\ Head(q.items) = q.items[1] /\ Head(q.items) \in Units
            /\ t = << >> => Head(q.items) = q.items[Len(q.items)]
            /\ t # << >> => Follows(Head(q.items), t[1])
        BY <1>0, <2>3, TakeChain DEF StreamInv
      <3> HIDE DEF t
      <3>3. Joined(unit)'
        <4>1. CASE t = << >>
          <5>1. Expected(q.items[Len(q.items)])
            BY <2>3 DEF StreamInv
          <5>2. unit' = q.items[Len(q.items)]
            BY <3>1, <3>2, <4>1
          <5>3. Expected(unit)'
            BY <2>1, <5>1, <5>2 DEF Expected
          <5> QED
            BY <3>1, <4>1, <5>3 DEF Joined
        <4>2. CASE t # << >>
          BY <3>1, <3>2, <4>2 DEF Joined, Follows
        <4> QED
          BY <4>1, <4>2
      <3>4. Joined(sent) => Follows(sent, unit')
        BY <2>3, <3>1, <3>2 DEF Joined
      <3>5. Dead => Dead'
        BY <2>1, <3>1 DEF Dead
      <3>6. Dead' \/ waiting \/ q.dropped # observed \/ Follows(sent, unit')
        BY <2>1, <3>4, <3>5 DEF GapInv, Tracked
      <3>7. Follows(sent, unit') => Follows(sent, unit)'
        BY <2>1 DEF Follows
      <3>8. Tracked(unit)'
        BY <3>3 DEF Tracked
      <3>9. observed' <= q'.dropped
        BY <2>1, <3>1 DEF GapInv
      <3> QED
        BY <2>1, <3>1, <3>6, <3>7, <3>8, <3>9 DEF GapInv
    <2> QED
      BY <2>2, <2>3
  <1>7. CASE Gate
    <2> DEFINE closed == waiting \/ unit.disc \/ q.dropped # observed
    <2>1. /\ UNCHANGED << sent, produced, publisher, running, listed, q, track >>
          /\ worker = "gate" /\ observed' = q.dropped /\ unit # None
      BY <1>7 DEF Gate, LoopInv, Holding
    <2>2. observed' <= q'.dropped
      BY <1>0, <2>1
    <2>3. CASE closed /\ ~unit.key
      <3>1. worker' = "loop" /\ unit' = None /\ waiting'
        BY <1>7, <2>3, Zenon DEF Gate
      <3> QED
        BY <2>1, <2>2, <3>1 DEF GapInv, Holding
    <2>4. CASE ~(closed /\ ~unit.key)
      <3>1. worker' = "track" /\ unit' = unit
        BY <1>7, <2>4, Zenon DEF Gate
      <3>2. Joined(unit)
        <4>1. CASE unit.key
          BY <2>1, <4>1 DEF Joined, Follows, Expected
        <4>2. CASE ~unit.key
          <5>1. q.dropped = observed
            BY <2>4, <4>2, Zenon
          <5> QED
            BY <2>1, <5>1 DEF GapInv, Tracked, Holding
        <4> QED
          BY <4>1, <4>2
      <3>3. Tracked(unit)'
        BY <2>1, <3>1, <3>2, ExpectedKept DEF Tracked, Joined, Follows
      <3>4. Dead \/ unit.key \/ Follows(sent, unit)
        <4>1. CASE closed
          BY <2>4, <4>1, Zenon
        <4>2. CASE ~closed
          BY <2>1, <4>2, Zenon DEF GapInv
        <4> QED
          BY <4>1, <4>2
      <3>5. Dead' \/ unit'.key \/ Follows(sent, unit)'
        BY <2>1, <3>1, <3>4 DEF Dead, Follows
      <3> QED
        BY <2>2, <3>1, <3>3, <3>5 DEF GapInv
    <2> QED
      BY <2>3, <2>4
  <1>8. CASE AwaitTrack
    <2>1. /\ UNCHANGED << unit, sent, waiting, observed, produced, publisher, running, listed, q,
                          track >>
          /\ worker = "track" /\ worker' = "opened"
      BY <1>8 DEF AwaitTrack
    <2>2. Tracked(unit) => Tracked(unit)'
      BY <2>1, ExpectedKept DEF Tracked, Joined, Follows
    <2> QED
      BY <2>1, <2>2 DEF GapInv, Dead, Holding, Follows
  <1>9. CASE OpenGate
    <2>1. /\ UNCHANGED << sent, observed, produced, publisher, running, listed, q, track >>
          /\ worker = "opened"
      BY <1>9 DEF OpenGate
    <2>2. CASE running /\ track = "open"
      <3>1. worker' = "send" /\ unit' = unit
        BY <1>9, <2>2 DEF OpenGate
      <3>2. Tracked(unit) => Tracked(unit)'
        BY <2>1, <3>1, ExpectedKept DEF Tracked, Joined, Follows
      <3>3. ~Dead
        BY <2>2 DEF Dead
      <3> QED
        BY <2>1, <3>1, <3>2, <3>3 DEF GapInv, Holding, Follows
    <2>3. CASE ~(running /\ track = "open")
      <3>1. worker' = "loop"
        BY <1>9, <2>3 DEF OpenGate
      <3>2. ~running \/ track = "closed"
        BY <2>1, <2>3 DEF LoopInv, TypeOK
      <3>3. Dead'
        BY <2>1, <3>1, <3>2 DEF Dead
      <3> QED
        BY <2>1, <3>1, <3>3 DEF GapInv, Holding
    <2> QED
      BY <2>2, <2>3
  <1>10. CASE Send
    <2>1. /\ UNCHANGED << observed, produced, publisher, listed, q, track >>
          /\ worker = "send" /\ worker' = "loop" /\ (running' => running)
      BY <1>10 DEF Send
    <2>2. CASE running' = FALSE
      <3>1. Dead'
        BY <2>1, <2>2 DEF Dead
      <3> QED
        BY <2>1, <3>1 DEF GapInv, Holding
    <2>3. CASE sent' = unit
      <3>1. Tracked(unit)
        BY <2>1 DEF GapInv, Holding
      <3>2. Tracked(sent)'
        BY <2>1, <2>3, <3>1, ExpectedKept DEF Tracked, Joined, Follows
      <3> QED
        BY <2>1, <3>2 DEF GapInv, Holding
    <2> QED
      BY <1>10, <2>2, <2>3 DEF Send
  <1> QED
    BY <1>1, <1>2, <1>3, <1>4, <1>5, <1>6, <1>7, <1>8, <1>9, <1>10 DEF Next

(* Whatever the interleaving of capture thread, activation, overflow, track  *)
(* and close, a viewer is sent the stream in source order, a delta unit only *)
(* after its predecessor or a keyframe, and twice only the first keyframe.   *)
THEOREM GapsCorrect == Spec => GapsOnlyAfterKeyframe
  <1> DEFINE A == worker = "send" /\ worker' = "loop" =>
                    /\ sent'.n >= sent.n
                    /\ unit = sent => sent.key
                    /\ sent' # sent => \/ sent'.key
                                       \/ sent # None /\ (sent'.n = sent.n + 1 \/ sent.key)
  <1>1. Init => GapInv
    BY DEF Init, GapInv, Holding, reset
  <1>2. ASSUME TypeOK, LoopInv, StreamInv, GapInv, [Next]_vars,
               worker = "send", worker' = "loop"
        PROVE  /\ sent'.n >= sent.n
               /\ unit = sent => sent.key
               /\ sent' # sent => \/ sent'.key
                                  \/ sent # None /\ (sent'.n = sent.n + 1 \/ sent.key)
    <2>1. Send
      <3> USE <1>2 DEF loopVars
      <3>1. ~LoopCheck /\ ~PopUnit /\ ~Gate /\ ~AwaitTrack /\ ~OpenGate /\ ~ActivateMedia
        BY DEF LoopCheck, PopUnit, Gate, AwaitTrack, OpenGate, ActivateMedia, LoopInv
      <3>2. ~Enqueue /\ ~CopyKeyframe /\ ~TrackChange /\ ~Unlist /\ ~Close
        BY DEF Enqueue, CopyKeyframe, TrackChange, Unlist, Close
      <3>3. \A key, disc \in BOOLEAN : ~Publish(key, disc)
        BY DEF Publish
      <3>4. ~(UNCHANGED vars)
        BY DEF vars
      <3> QED
        BY <3>1, <3>2, <3>3, <3>4 DEF Next
    <2>2. sent' \in {sent, unit}
      BY <2>1 DEF Send, history
    <2>3. /\ unit \in Units /\ unit.n \in Nat /\ sent.n \in Nat /\ unit # None
      <3>1. unit # None
        BY <1>2 DEF LoopInv, Holding
      <3>2. unit \in Units /\ sent \in Units \cup {None}
        BY <1>2, <3>1 DEF TypeOK
      <3> QED
        BY <3>1, <3>2 DEF Units, None, Unit
    <2>4. Before(sent, unit) /\ (unit.key \/ Follows(sent, unit))
      BY <1>2, <2>3 DEF StreamInv, GapInv
    <2>5. sent'.n >= sent.n
      BY <2>2, <2>3, <2>4 DEF Before
    <2>6. unit = sent => sent.key
      BY <2>3, <2>4 DEF Before
    <2>7. sent' # sent => \/ sent'.key
                          \/ sent # None /\ (sent'.n = sent.n + 1 \/ sent.key)
      BY <2>2, <2>4 DEF Follows
    <2> QED
      BY <2>5, <2>6, <2>7
  <1>3. TypeOK /\ LoopInv /\ StreamInv /\ GapInv /\ [Next]_vars => [A]_vars
    BY <1>2
  <1> QED
    BY <1>1, <1>3, GapStep, TypeCorrect, LoopCorrect, StreamCorrect, PTL
       DEF Spec, GapsOnlyAfterKeyframe
=============================================================================

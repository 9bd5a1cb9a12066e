-------------------------- MODULE RtspSourceProofs --------------------------
(* Proofs about RtspSource for every queue capacity, every number of access  *)
(* units, failures and generations, and every reconnect delay.               *)
EXTENDS RtspSource, TLAPS

(* The labels at which a pipeline may exist; only there callbacks come in. *)
Open == {"start", "loop", "units", "disconnect", "drain", "release"}

(* The labels outside open_pipeline, the capture loop and close_pipeline. *)
Idle == {"first", "backoff", "drowsy", "asleep", "woken", "attempt", "open_failed", "lost",
         "finish", "done"}

(* The labels at which the units of a generation are still to come. *)
Streaming == {"build", "start", "loop", "units"}

Unit == [gen : 0 .. Generations, disc : BOOLEAN]

(* What the media-status sink can be told. *)
Statuses == {"waiting", "reconnecting", "available", "incompatible", "needs_h264"}

QueueType == [items : Seq(Unit), shutdown : BOOLEAN, pushed : Nat, popped : Nat,
              dropped : Nat, discarded : Nat, high_water_mark : Nat]

(* The types of the variables the invariants below relate. *)
TypeOK ==
    /\ pc \in Open \cup Idle \cup {"build"} /\ after \in {"loop", "open_failed", "lost"}
    /\ generation \in 0 .. Generations - 1 /\ first \in BOOLEAN
    /\ pipeline \in {"none", "built", "playing"} /\ codec \in {"none", "H264", "H265"}
    /\ accepting \in BOOLEAN /\ cb \in [Callbacks -> {"out", "inside", "leaving"}]
    /\ refs \in SUBSET Callbacks
    /\ known \in Statuses /\ say \in [{"worker", "pad"} -> Statuses \cup {"nothing"}]
    /\ q \in QueueType
    /\ heard \in Unit /\ popped \in [gen : 0 .. Generations, dropped : Nat]

(* CallbacksSeeTheirPipeline is not inductive: the pipeline goes away at     *)
(* release, and only the order of close_pipeline makes that safe.  Callbacks *)
(* are admitted between build and disconnect, where a pipeline exists, and   *)
(* release is reached with none inside.                                      *)
PipelineInv ==
    /\ pipeline # "none" => pc \in Open
    /\ accepting => pipeline # "none" /\ pc \in Open \ {"drain", "release"}
    /\ pc = "release" => InFlight = {}
    /\ pc \in {"disconnect", "drain", "release"} => after # "loop"
    /\ CallbacksSeeTheirPipeline

(* MediaStatusDelivered is not inductive: with two calls of the sink pending *)
(* the older one could be the last.  A call of the worker is pending only    *)
(* while there is no pipeline or its stream is H.264, one of the pad's       *)
(* callback only in a pipeline whose stream is not, so there never are two.  *)
MediaInv ==
    /\ say["worker"] # "nothing" =>
          /\ say["worker"] = known
          /\ pipeline = "none" \/ (pc = "units" /\ codec = "H264")
    /\ say["pad"] # "nothing" =>
          say["pad"] = known /\ cb["pad"] = "leaving" /\ codec = "H265"
    /\ cb["pad"] = "leaving" => codec = "H265"
    /\ MediaStatusDelivered

(* A change of generation between two queued units carries the flag. *)
Continuous(s) == \A i \in 1 .. Len(s) - 1 : s[i + 1].gen = s[i].gen \/ s[i + 1].disc

(* So does one from g, the recorder's last, to the queue's head, or the drop *)
(* counter d has moved since the recorder read it as p.                      *)
HeadVisible(s, d, g, p) == s # << >> => s[1].gen = g \/ s[1].disc \/ d # p

(* What the receivers have of the current generation once its first unit was *)
(* published: first is FALSE only if both got one, and the queue lost it     *)
(* only to the recorder or to a drop that the recorder can still see.        *)
BoundaryInv ==
    /\ popped.dropped <= q.dropped
    /\ HeadVisible(q.items, q.dropped, popped.gen, popped.dropped)
    /\ Continuous(q.items)
    /\ ~first /\ pc \in Streaming =>
          /\ heard.gen = generation
          /\ IF q.items = << >> THEN popped.gen = generation
             ELSE q.items[Len(q.items)].gen = generation
-----------------------------------------------------------------------------
(* Facts about the recorder's queue of access units: what push leaves ... *)
LEMMA PushFacts ==
    ASSUME NEW r \in QueueType, NEW u \in Unit
    PROVE  LET g == Append(r.items, u)
               n == push(r, Capacity, u)
           IN  /\ n \in QueueType
               /\ \/ n.items = g /\ n.dropped = r.dropped
                  \/ n.items = Tail(g) /\ n.dropped = r.dropped + 1 /\ Len(g) > Capacity
  <1> DEFINE g == Append(r.items, u)
             o == Len(g) > Capacity
             k == IF o THEN Tail(g) ELSE g
             d == IF o THEN r.dropped + 1 ELSE r.dropped
             h == IF Len(k) > r.high_water_mark THEN Len(k) ELSE r.high_water_mark
  <1>1. /\ r.items \in Seq(Unit) /\ r.pushed + 1 \in Nat /\ r.dropped \in Nat
        /\ r.high_water_mark \in Nat
    BY DEF QueueType
  <1>2. g \in Seq(Unit) /\ Tail(g) \in Seq(Unit)
    <2>1. g \in Seq(Unit) /\ g # << >>
      BY <1>1
    <2> HIDE DEF g
    <2> QED
      BY <2>1
  <1>3. k \in Seq(Unit) /\ Len(k) \in Nat
    BY <1>2
  <1>4. d \in Nat /\ h \in Nat
    BY <1>1, <1>3
  <1>5. push(r, Capacity, u) =
            [r EXCEPT !.items = k, !.pushed = r.pushed + 1, !.dropped = d, !.high_water_mark = h]
    BY DEF push, QueueType
  <1>6. \/ k = Tail(g) /\ d = r.dropped + 1 /\ o
        \/ k = g /\ d = r.dropped
    BY Zenon
  <1> HIDE DEF k, d, h, g, o
  <1>7. push(r, Capacity, u) \in QueueType
    BY <1>1, <1>3, <1>4, <1>5, Zenon DEF QueueType
  <1>8. push(r, Capacity, u).items = k /\ push(r, Capacity, u).dropped = d
    BY <1>5 DEF QueueType
  <1> QED
    BY <1>6, <1>7, <1>8 DEF g, o

(* ... and what take_front, discard_all and shutdown leave. *)
LEMMA TakeFacts ==
    ASSUME NEW r \in QueueType
    PROVE  /\ r.items # << >> =>
                 /\ Head(r.items) \in Unit /\ take_front(r) \in QueueType
                 /\ take_front(r).items = Tail(r.items) /\ take_front(r).dropped = r.dropped
           /\ /\ discard_all(r) \in QueueType
              /\ discard_all(r).items = << >> /\ discard_all(r).dropped = r.dropped
           /\ /\ shutdown(r) \in QueueType
              /\ shutdown(r).items = r.items /\ shutdown(r).dropped = r.dropped
  <1>1. /\ r.items \in Seq(Unit) /\ r.popped + 1 \in Nat /\ r.discarded + Len(r.items) \in Nat
        /\ << >> \in Seq(Unit)
    BY DEF QueueType
  <1>2. ASSUME r.items # << >>
        PROVE  /\ Head(r.items) \in Unit /\ take_front(r) \in QueueType
               /\ take_front(r).items = Tail(r.items) /\ take_front(r).dropped = r.dropped
    <2>1. Head(r.items) \in Unit /\ Tail(r.items) \in Seq(Unit)
      BY <1>1, <1>2
    <2>2. take_front(r) = [r EXCEPT !.items = Tail(r.items), !.popped = r.popped + 1]
      BY <1>2 DEF take_front
    <2>3. take_front(r) \in QueueType
      BY <1>1, <2>1, <2>2, Zenon DEF QueueType
    <2> QED
      BY <2>1, <2>2, <2>3 DEF QueueType
  <1>3. discard_all(r) \in QueueType
    BY <1>1, Zenon DEF discard_all, QueueType
  <1>4. shutdown(r) \in QueueType
    BY <1>1, Zenon DEF shutdown, QueueType
  <1>5. /\ discard_all(r).items = << >> /\ discard_all(r).dropped = r.dropped
        /\ shutdown(r).items = r.items /\ shutdown(r).dropped = r.dropped
    BY DEF discard_all, shutdown, QueueType
  <1> QED
    BY <1>2, <1>3, <1>4, <1>5

(* The initial state has the declared types. *)
LEMMA TypeInit == Init => TypeOK
  <1> SUFFICES ASSUME Init PROVE TypeOK
    OBVIOUS
  <1>1. /\ generation \in 0 .. Generations - 1 /\ heard \in Unit
        /\ popped \in [gen : 0 .. Generations, dropped : Nat]
    BY SourceAssumption DEF Init, Unit, NoUnit
  <1>2. q \in QueueType
    BY DEF Init, QueueType, reset
  <1> QED
    BY <1>1, <1>2, Zenon DEF Init, TypeOK, Idle, Statuses

(* Every step of every thread keeps the declared types. *)
LEMMA TypeStep == TypeOK /\ [Next]_vars => TypeOK'
  <1> SUFFICES ASSUME TypeOK, [Next]_vars PROVE TypeOK'
    OBVIOUS
  <1> USE DEF world, control, status, stream, gst, callbacks, media
  <1>1. CASE Backoff
    BY <1>1 DEF Backoff, At, TypeOK, Open, Idle, Callbacks, Statuses
  <1>2. CASE FallAsleep
    BY <1>2 DEF FallAsleep, At, TypeOK, Open, Idle, Callbacks, Statuses
  <1>3. CASE Deadline
    BY <1>3 DEF Deadline, At, TypeOK, Open, Idle, Callbacks, Statuses
  <1>4. CASE Woken
    BY <1>4 DEF Woken, At, TypeOK, Open, Idle, Callbacks, Statuses
  <1>5. CASE Attempt
    <2>1. generation' \in 0 .. Generations - 1
      BY <1>5, SourceAssumption DEF Attempt, NewGeneration, TypeOK
    <2>2. known' \in Statuses /\ say' \in [{"worker", "pad"} -> Statuses \cup {"nothing"}]
      BY <1>5 DEF Attempt, NewGeneration, PublishMediaStatus, TypeOK, Statuses
    <2> QED
      BY <1>5, <2>1, <2>2 DEF Attempt, NewGeneration, At, TypeOK, Open, Idle
  <1>6. CASE Build
    BY <1>6, Zenon DEF Build, Fault, At, TypeOK, Open, Idle, Callbacks, Statuses
  <1>7. CASE Start
    BY <1>7 DEF Start, Fault, At, TypeOK, Open, Idle, Callbacks, Statuses
  <1>8. CASE OpenFailed
    BY <1>8 DEF OpenFailed, At, TypeOK, Open, Idle, Callbacks, Statuses
  <1>9. CASE Poll
    BY <1>9 DEF Poll, Leave, At, TypeOK, Open, Idle, Callbacks, Statuses
  <1>10. CASE CaptureFrame
    BY <1>10 DEF CaptureFrame, At, TypeOK, Open, Idle, Callbacks, Statuses
  <1>11. CASE JitterStats
    BY <1>11 DEF JitterStats, At, TypeOK, Open, Idle, Callbacks, Statuses
  <1>12. CASE NoFrame
    BY <1>12 DEF NoFrame, At, TypeOK, Open, Idle, Callbacks, Statuses
  <1>13. CASE Late
    BY <1>13 DEF Late, Fault, Leave, At, TypeOK, Open, Idle, Callbacks, Statuses
  <1>14. CASE Disconnect
    BY <1>14, Zenon DEF Disconnect, At, TypeOK, Open, Idle, Callbacks, Statuses
  <1>15. CASE Drain
    BY <1>15 DEF Drain, At, TypeOK, Open, Idle, Callbacks, Statuses
  <1>16. CASE Release
    BY <1>16 DEF Release, At, TypeOK, Open, Idle, Callbacks, Statuses
  <1>17. CASE Lost
    <2>1. q' \in QueueType
      BY <1>17, TakeFacts DEF Lost, TypeOK
    <2> QED
      BY <1>17, <2>1 DEF Lost, At, TypeOK, Open, Idle
  <1>18. CASE Finish
    BY <1>18 DEF Finish, At, TypeOK, Open, Idle, Callbacks, Statuses
  <1>19. ASSUME NEW s \in {"incompatible", "available"}, RejectUnit(s) PROVE TypeOK'
    BY <1>19 DEF RejectUnit, Fault, PublishMediaStatus, At, TypeOK, Open, Idle,
       Callbacks, Statuses
  <1>20. ASSUME NEW n \in 0 .. 2, CaptureUnit(n) PROVE TypeOK'
    <2>1. [gen |-> generation, disc |-> first] \in Unit
      BY SourceAssumption DEF TypeOK, Unit
    <2>2. q' \in QueueType /\ heard' \in Unit
      BY <1>20, <2>1, PushFacts DEF CaptureUnit, TypeOK
    <2>3. first' \in BOOLEAN
      BY <1>20 DEF CaptureUnit, TypeOK
    <2>4. known' \in Statuses /\ say' \in [{"worker", "pad"} -> Statuses \cup {"nothing"}]
      BY <1>20 DEF CaptureUnit, PublishMediaStatus, TypeOK, Statuses
    <2> QED
      BY <1>20, <2>2, <2>3, <2>4 DEF CaptureUnit, TypeOK
  <1>21. ASSUME NEW who \in {"worker", "pad"}, TellSink(who) PROVE TypeOK'
    BY <1>21 DEF TellSink, TypeOK, Open, Idle, Callbacks, Statuses
  <1>22. CASE ConnectPad
    BY <1>22 DEF ConnectPad, Fault, TypeOK, Open, Idle, Callbacks, Statuses
  <1>23. CASE ConnectOther
    BY <1>23 DEF ConnectOther, PublishMediaStatus, TypeOK, Open, Idle, Callbacks,
       Statuses
  <1>24. CASE LeavePad
    BY <1>24 DEF LeavePad, TypeOK, Open, Idle, Callbacks, Statuses
  <1>25. CASE CameraDies
    BY <1>25 DEF CameraDies, TypeOK, Open, Idle, Callbacks, Statuses
  <1>26. CASE Post
    BY <1>26 DEF Post, Fault, TypeOK, Open, Idle, Callbacks, Statuses
  <1>27. CASE RecorderPop
    <2>1. q \in QueueType /\ q.items # << >>
      BY <1>27 DEF RecorderPop, TypeOK
    <2>2. q' \in QueueType /\ Head(q.items) \in Unit /\ q.dropped \in Nat
      BY <1>27, <2>1, TakeFacts DEF RecorderPop, QueueType
    <2>3. popped' \in [gen : 0 .. Generations, dropped : Nat]
      BY <1>27, <2>2 DEF RecorderPop, Unit
    <2> QED
      BY <1>27, <2>2, <2>3 DEF RecorderPop, TypeOK
  <1>28. CASE RequestStop
    BY <1>28 DEF RequestStop, TypeOK, Open, Idle, Callbacks, Statuses
  <1>29. CASE Notify
    BY <1>29 DEF Notify, TypeOK, Open, Idle, Callbacks, Statuses
  <1>30. CASE Wait
    <2>1. q' \in QueueType
      BY <1>30, TakeFacts DEF Wait, TypeOK
    <2> QED
      BY <1>30, <2>1 DEF Wait, TypeOK
  <1>31. ASSUME NEW c \in Callbacks, BeginCallback(c) PROVE TypeOK'
    BY <1>31 DEF BeginCallback, TypeOK, Open, Idle, Callbacks, Statuses
  <1>32. ASSUME NEW c \in Callbacks, KeepReference(c) PROVE TypeOK'
    BY <1>32 DEF KeepReference, TypeOK, Open, Idle, Callbacks, Statuses
  <1>33. CASE UNCHANGED vars
    BY <1>33 DEF vars, TypeOK, Open, Idle, Callbacks, Statuses
  <1> QED
    BY <1>1, <1>2, <1>3, <1>4, <1>5, <1>6, <1>7, <1>8, <1>9, <1>10, <1>11, <1>12,
       <1>13, <1>14, <1>15, <1>16, <1>17, <1>18, <1>19, <1>20, <1>21, <1>22,
       <1>23, <1>24, <1>25, <1>26, <1>27, <1>28, <1>29, <1>30, <1>31, <1>32, <1>33
       DEF Next, Worker, PadThread

(* The variables of the capture path have their types in every behaviour. *)
THEOREM TypeCorrect == Spec => []TypeOK
  BY TypeInit, TypeStep, PTL DEF Spec
-----------------------------------------------------------------------------
(* Nothing is open in the initial state. *)
LEMMA PipelineInit == Init => PipelineInv
  BY DEF Init, PipelineInv, CallbacksSeeTheirPipeline, InFlight, Callbacks

(* Every step keeps the hand-shake of the callbacks with close_pipeline. *)
LEMMA PipelineStep == TypeOK /\ PipelineInv /\ [Next]_vars => PipelineInv'
  <1> SUFFICES ASSUME TypeOK, PipelineInv, [Next]_vars PROVE PipelineInv'
    OBVIOUS
  <1> USE DEF world, control, status, stream, gst, callbacks, media
  <1>1. CASE Backoff
    BY <1>1 DEF Backoff, At, PipelineInv, CallbacksSeeTheirPipeline, InFlight,
       TypeOK, Open, Idle, Callbacks
  <1>2. CASE FallAsleep
    BY <1>2 DEF FallAsleep, At, PipelineInv, CallbacksSeeTheirPipeline, InFlight,
       TypeOK, Open, Idle, Callbacks
  <1>3. CASE Deadline
    BY <1>3 DEF Deadline, At, PipelineInv, CallbacksSeeTheirPipeline, InFlight,
       TypeOK, Open, Idle, Callbacks
  <1>4. CASE Woken
    BY <1>4 DEF Woken, At, PipelineInv, CallbacksSeeTheirPipeline, InFlight,
       TypeOK, Open, Idle, Callbacks
  <1>5. CASE Attempt
    BY <1>5 DEF Attempt, PublishRecovery, NewGeneration, PublishMediaStatus, At,
       PipelineInv, CallbacksSeeTheirPipeline, InFlight, TypeOK, Open, Idle,
       Callbacks
  <1>6. CASE Build
    BY <1>6 DEF Build, Fault, At, PipelineInv, CallbacksSeeTheirPipeline,
       InFlight, TypeOK, Open, Idle, Callbacks
  <1>7. CASE Start
    BY <1>7 DEF Start, Fault, At, PipelineInv, CallbacksSeeTheirPipeline,
       InFlight, TypeOK, Open, Idle, Callbacks
  <1>8. CASE OpenFailed
    BY <1>8 DEF OpenFailed, At, PipelineInv, CallbacksSeeTheirPipeline, InFlight,
       TypeOK, Open, Idle, Callbacks
  <1>9. CASE Poll
    BY <1>9 DEF Poll, Leave, At, PipelineInv, CallbacksSeeTheirPipeline, InFlight,
       TypeOK, Open, Idle, Callbacks
  <1>10. CASE CaptureFrame
    BY <1>10 DEF CaptureFrame, At, PipelineInv, CallbacksSeeTheirPipeline,
       InFlight, TypeOK, Open, Idle, Callbacks
  <1>11. CASE JitterStats
    BY <1>11 DEF JitterStats, At, PipelineInv, CallbacksSeeTheirPipeline,
       InFlight, TypeOK, Open, Idle, Callbacks
  <1>12. CASE NoFrame
    BY <1>12 DEF NoFrame, At, PipelineInv, CallbacksSeeTheirPipeline, InFlight,
       TypeOK, Open, Idle, Callbacks
  <1>13. CASE Late
    BY <1>13 DEF Late, Fault, Leave, At, PipelineInv, CallbacksSeeTheirPipeline,
       InFlight, TypeOK, Open, Idle, Callbacks
  <1>14. CASE Disconnect
    BY <1>14 DEF Disconnect, At, PipelineInv, CallbacksSeeTheirPipeline, InFlight,
       TypeOK, Open, Idle, Callbacks
  <1>15. CASE Drain
    BY <1>15 DEF Drain, At, PipelineInv, CallbacksSeeTheirPipeline, InFlight,
       TypeOK, Open, Idle, Callbacks
  <1>16. CASE Release
    BY <1>16 DEF Release, At, PipelineInv, CallbacksSeeTheirPipeline, InFlight,
       TypeOK, Open, Idle, Callbacks
  <1>17. CASE Lost
    BY <1>17 DEF Lost, At, PipelineInv, CallbacksSeeTheirPipeline, InFlight,
       TypeOK, Open, Idle, Callbacks
  <1>18. CASE Finish
    BY <1>18 DEF Finish, At, PipelineInv, CallbacksSeeTheirPipeline, InFlight,
       TypeOK, Open, Idle, Callbacks
  <1>19. ASSUME NEW s \in {"incompatible", "available"}, RejectUnit(s) PROVE PipelineInv'
    BY <1>19 DEF RejectUnit, Fault, PublishMediaStatus, At, PipelineInv,
       CallbacksSeeTheirPipeline, InFlight, TypeOK, Open, Idle, Callbacks
  <1>20. ASSUME NEW n \in 0 .. 2, CaptureUnit(n) PROVE PipelineInv'
    BY <1>20 DEF CaptureUnit, PublishMediaStatus, At, PipelineInv,
       CallbacksSeeTheirPipeline, InFlight, TypeOK, Open, Idle, Callbacks
  <1>21. ASSUME NEW who \in {"worker", "pad"}, TellSink(who) PROVE PipelineInv'
    BY <1>21 DEF TellSink, PipelineInv, CallbacksSeeTheirPipeline, InFlight,
       TypeOK, Open, Idle, Callbacks
  <1>22. CASE ConnectPad
    BY <1>22 DEF ConnectPad, Fault, PipelineInv, CallbacksSeeTheirPipeline,
       InFlight, TypeOK, Open, Idle, Callbacks
  <1>23. CASE ConnectOther
    BY <1>23 DEF ConnectOther, PublishMediaStatus, PipelineInv,
       CallbacksSeeTheirPipeline, InFlight, TypeOK, Open, Idle, Callbacks
  <1>24. CASE LeavePad
    BY <1>24 DEF LeavePad, PipelineInv, CallbacksSeeTheirPipeline, InFlight,
       TypeOK, Open, Idle, Callbacks
  <1>25. CASE CameraDies
    BY <1>25 DEF CameraDies, PipelineInv, CallbacksSeeTheirPipeline, InFlight,
       TypeOK, Open, Idle, Callbacks
  <1>26. CASE Post
    BY <1>26 DEF Post, Fault, PipelineInv, CallbacksSeeTheirPipeline, InFlight,
       TypeOK, Open, Idle, Callbacks
  <1>27. CASE RecorderPop
    BY <1>27 DEF RecorderPop, PipelineInv, CallbacksSeeTheirPipeline, InFlight,
       TypeOK, Open, Idle, Callbacks
  <1>28. CASE RequestStop
    BY <1>28 DEF RequestStop, PipelineInv, CallbacksSeeTheirPipeline, InFlight,
       TypeOK, Open, Idle, Callbacks
  <1>29. CASE Notify
    BY <1>29 DEF Notify, PipelineInv, CallbacksSeeTheirPipeline, InFlight, TypeOK,
       Open, Idle, Callbacks
  <1>30. CASE Wait
    BY <1>30 DEF Wait, PipelineInv, CallbacksSeeTheirPipeline, InFlight, TypeOK,
       Open, Idle, Callbacks
  <1>31. ASSUME NEW c \in Callbacks, BeginCallback(c) PROVE PipelineInv'
    BY <1>31 DEF BeginCallback, PipelineInv, CallbacksSeeTheirPipeline, InFlight,
       TypeOK, Open, Idle, Callbacks
  <1>32. ASSUME NEW c \in Callbacks, KeepReference(c) PROVE PipelineInv'
    BY <1>32 DEF KeepReference, PipelineInv, CallbacksSeeTheirPipeline, InFlight,
       TypeOK, Open, Idle, Callbacks
  <1>33. CASE UNCHANGED vars
    BY <1>33 DEF vars, PipelineInv, CallbacksSeeTheirPipeline, InFlight, TypeOK,
       Open, Idle, Callbacks
  <1> QED
    BY <1>1, <1>2, <1>3, <1>4, <1>5, <1>6, <1>7, <1>8, <1>9, <1>10, <1>11, <1>12,
       <1>13, <1>14, <1>15, <1>16, <1>17, <1>18, <1>19, <1>20, <1>21, <1>22,
       <1>23, <1>24, <1>25, <1>26, <1>27, <1>28, <1>29, <1>30, <1>31, <1>32, <1>33
       DEF Next, Worker, PadThread

(* The hand-shake holds in every behaviour. *)
LEMMA PipelineCorrect == Spec => []PipelineInv
  BY PipelineInit, PipelineStep, TypeCorrect, PTL DEF Spec

(* No callback of GStreamer ever runs on a pipeline that close_pipeline has  *)
(* given up, and no reference or sink outlives its pipeline.                 *)
THEOREM CallbacksCorrect == Spec => []CallbacksSeeTheirPipeline
  <1>1. PipelineInv => CallbacksSeeTheirPipeline
    BY DEF PipelineInv
  <1> QED
    BY <1>1, PipelineCorrect, PTL
-----------------------------------------------------------------------------
(* Nobody has anything to tell in the initial state. *)
LEMMA MediaInit == Init => MediaInv
  BY DEF Init, MediaInv, MediaStatusDelivered, Callbacks

(* Every step keeps at most one call of the sink pending, the newest. *)
LEMMA MediaStep == TypeOK /\ PipelineInv /\ MediaInv /\ [Next]_vars => MediaInv'
  <1> SUFFICES ASSUME TypeOK, PipelineInv, MediaInv, [Next]_vars PROVE MediaInv'
    OBVIOUS
  <1> USE DEF world, control, status, stream, gst, callbacks, media
  <1>1. CASE Backoff
    BY <1>1 DEF Backoff, At, MediaInv, MediaStatusDelivered, PipelineInv,
       CallbacksSeeTheirPipeline, InFlight, TypeOK, Open, Idle, Callbacks
  <1>2. CASE FallAsleep
    BY <1>2 DEF FallAsleep, At, MediaInv, MediaStatusDelivered, PipelineInv,
       CallbacksSeeTheirPipeline, InFlight, TypeOK, Open, Idle, Callbacks
  <1>3. CASE Deadline
    BY <1>3 DEF Deadline, At, MediaInv, MediaStatusDelivered, PipelineInv,
       CallbacksSeeTheirPipeline, InFlight, TypeOK, Open, Idle, Callbacks
  <1>4. CASE Woken
    BY <1>4 DEF Woken, At, MediaInv, MediaStatusDelivered, PipelineInv,
       CallbacksSeeTheirPipeline, InFlight, TypeOK, Open, Idle, Callbacks
  <1>5. CASE Attempt
    BY <1>5 DEF Attempt, PublishRecovery, NewGeneration, PublishMediaStatus, At,
       MediaInv, MediaStatusDelivered, PipelineInv, CallbacksSeeTheirPipeline,
       InFlight, TypeOK, Open, Idle, Callbacks
  <1>6. CASE Build
    BY <1>6 DEF Build, Fault, At, MediaInv, MediaStatusDelivered, PipelineInv,
       CallbacksSeeTheirPipeline, InFlight, TypeOK, Open, Idle, Callbacks
  <1>7. CASE Start
    BY <1>7 DEF Start, Fault, At, MediaInv, MediaStatusDelivered, PipelineInv,
       CallbacksSeeTheirPipeline, InFlight, TypeOK, Open, Idle, Callbacks
  <1>8. CASE OpenFailed
    BY <1>8 DEF OpenFailed, At, MediaInv, MediaStatusDelivered, PipelineInv,
       CallbacksSeeTheirPipeline, InFlight, TypeOK, Open, Idle, Callbacks
  <1>9. CASE Poll
    BY <1>9 DEF Poll, Leave, At, MediaInv, MediaStatusDelivered, PipelineInv,
       CallbacksSeeTheirPipeline, InFlight, TypeOK, Open, Idle, Callbacks
  <1>10. CASE CaptureFrame
    BY <1>10 DEF CaptureFrame, At, MediaInv, MediaStatusDelivered, PipelineInv,
       CallbacksSeeTheirPipeline, InFlight, TypeOK, Open, Idle, Callbacks
  <1>11. CASE JitterStats
    BY <1>11 DEF JitterStats, At, MediaInv, MediaStatusDelivered, PipelineInv,
       CallbacksSeeTheirPipeline, InFlight, TypeOK, Open, Idle, Callbacks
  <1>12. CASE NoFrame
    BY <1>12 DEF NoFrame, At, MediaInv, MediaStatusDelivered, PipelineInv,
       CallbacksSeeTheirPipeline, InFlight, TypeOK, Open, Idle, Callbacks
  <1>13. CASE Late
    BY <1>13 DEF Late, Fault, Leave, At, MediaInv, MediaStatusDelivered,
       PipelineInv, CallbacksSeeTheirPipeline, InFlight, TypeOK, Open, Idle,
       Callbacks
  <1>14. CASE Disconnect
    BY <1>14 DEF Disconnect, At, MediaInv, MediaStatusDelivered, PipelineInv,
       CallbacksSeeTheirPipeline, InFlight, TypeOK, Open, Idle, Callbacks
  <1>15. CASE Drain
    BY <1>15 DEF Drain, At, MediaInv, MediaStatusDelivered, PipelineInv,
       CallbacksSeeTheirPipeline, InFlight, TypeOK, Open, Idle, Callbacks
  <1>16. CASE Release
    BY <1>16 DEF Release, At, MediaInv, MediaStatusDelivered, PipelineInv,
       CallbacksSeeTheirPipeline, InFlight, TypeOK, Open, Idle, Callbacks
  <1>17. CASE Lost
    BY <1>17 DEF Lost, At, MediaInv, MediaStatusDelivered, PipelineInv,
       CallbacksSeeTheirPipeline, InFlight, TypeOK, Open, Idle, Callbacks
  <1>18. CASE Finish
    BY <1>18 DEF Finish, At, MediaInv, MediaStatusDelivered, PipelineInv,
       CallbacksSeeTheirPipeline, InFlight, TypeOK, Open, Idle, Callbacks
  <1>19. ASSUME NEW s \in {"incompatible", "available"}, RejectUnit(s) PROVE MediaInv'
    BY <1>19 DEF RejectUnit, Fault, PublishMediaStatus, At, MediaInv,
       MediaStatusDelivered, PipelineInv, CallbacksSeeTheirPipeline, InFlight,
       TypeOK, Open, Idle, Callbacks
  <1>20. ASSUME NEW n \in 0 .. 2, CaptureUnit(n) PROVE MediaInv'
    BY <1>20 DEF CaptureUnit, PublishMediaStatus, At, MediaInv,
       MediaStatusDelivered, PipelineInv, CallbacksSeeTheirPipeline, InFlight,
       TypeOK, Open, Idle, Callbacks
  <1>21. ASSUME NEW who \in {"worker", "pad"}, TellSink(who) PROVE MediaInv'
    BY <1>21 DEF TellSink, MediaInv, MediaStatusDelivered, PipelineInv,
       CallbacksSeeTheirPipeline, InFlight, TypeOK, Open, Idle, Callbacks
  <1>22. CASE ConnectPad
    BY <1>22 DEF ConnectPad, Fault, MediaInv, MediaStatusDelivered, PipelineInv,
       CallbacksSeeTheirPipeline, InFlight, TypeOK, Open, Idle, Callbacks
  <1>23. CASE ConnectOther
    BY <1>23 DEF ConnectOther, PublishMediaStatus, MediaInv, MediaStatusDelivered,
       PipelineInv, CallbacksSeeTheirPipeline, InFlight, TypeOK, Open, Idle,
       Callbacks
  <1>24. CASE LeavePad
    BY <1>24 DEF LeavePad, MediaInv, MediaStatusDelivered, PipelineInv,
       CallbacksSeeTheirPipeline, InFlight, TypeOK, Open, Idle, Callbacks
  <1>25. CASE CameraDies
    BY <1>25 DEF CameraDies, MediaInv, MediaStatusDelivered, PipelineInv,
       CallbacksSeeTheirPipeline, InFlight, TypeOK, Open, Idle, Callbacks
  <1>26. CASE Post
    BY <1>26 DEF Post, Fault, MediaInv, MediaStatusDelivered, PipelineInv,
       CallbacksSeeTheirPipeline, InFlight, TypeOK, Open, Idle, Callbacks
  <1>27. CASE RecorderPop
    BY <1>27 DEF RecorderPop, MediaInv, MediaStatusDelivered, PipelineInv,
       CallbacksSeeTheirPipeline, InFlight, TypeOK, Open, Idle, Callbacks
  <1>28. CASE RequestStop
    BY <1>28 DEF RequestStop, MediaInv, MediaStatusDelivered, PipelineInv,
       CallbacksSeeTheirPipeline, InFlight, TypeOK, Open, Idle, Callbacks
  <1>29. CASE Notify
    BY <1>29 DEF Notify, MediaInv, MediaStatusDelivered, PipelineInv,
       CallbacksSeeTheirPipeline, InFlight, TypeOK, Open, Idle, Callbacks
  <1>30. CASE Wait
    BY <1>30 DEF Wait, MediaInv, MediaStatusDelivered, PipelineInv,
       CallbacksSeeTheirPipeline, InFlight, TypeOK, Open, Idle, Callbacks
  <1>31. ASSUME NEW c \in Callbacks, BeginCallback(c) PROVE MediaInv'
    BY <1>31 DEF BeginCallback, MediaInv, MediaStatusDelivered, PipelineInv,
       CallbacksSeeTheirPipeline, InFlight, TypeOK, Open, Idle, Callbacks
  <1>32. ASSUME NEW c \in Callbacks, KeepReference(c) PROVE MediaInv'
    BY <1>32 DEF KeepReference, MediaInv, MediaStatusDelivered, PipelineInv,
       CallbacksSeeTheirPipeline, InFlight, TypeOK, Open, Idle, Callbacks
  <1>33. CASE UNCHANGED vars
    BY <1>33 DEF vars, MediaInv, MediaStatusDelivered, PipelineInv,
       CallbacksSeeTheirPipeline, InFlight, TypeOK, Open, Idle, Callbacks
  <1> QED
    BY <1>1, <1>2, <1>3, <1>4, <1>5, <1>6, <1>7, <1>8, <1>9, <1>10, <1>11, <1>12,
       <1>13, <1>14, <1>15, <1>16, <1>17, <1>18, <1>19, <1>20, <1>21, <1>22,
       <1>23, <1>24, <1>25, <1>26, <1>27, <1>28, <1>29, <1>30, <1>31, <1>32, <1>33
       DEF Next, Worker, PadThread

(* The media-status sink is never left with an outdated status, although     *)
(* publish_media_status calls it outside the mutex from two threads.         *)
THEOREM MediaStatusCorrect == Spec => []MediaStatusDelivered
  <1>1. MediaInv => MediaStatusDelivered
    BY DEF MediaInv
  <1> QED
    BY <1>1, MediaInit, MediaStep, TypeCorrect, PipelineCorrect, PTL DEF Spec
-----------------------------------------------------------------------------
(* The parts of BoundaryInv, as relations of a queue's items s and drop      *)
(* counter d to what the recorder saw last.                                  *)
LEMMA BoundaryPush ==
    ASSUME NEW s \in Seq(Unit), NEW u \in Unit, NEW d \in Nat, NEW p \in Nat, NEW g,
           p <= d, HeadVisible(s, d, g, p), Continuous(s),
           s = << >> => u.gen = g \/ u.disc,
           s # << >> => u.gen = s[Len(s)].gen \/ u.disc
    PROVE  LET a == Append(s, u)
           IN  /\ a # << >> /\ a[Len(a)] = u /\ Continuous(a) /\ HeadVisible(a, d, g, p)
               /\ Len(a) > Capacity =>
                     /\ Tail(a) # << >> /\ Tail(a)[Len(Tail(a))] = u
                     /\ Continuous(Tail(a)) /\ HeadVisible(Tail(a), d + 1, g, p)
  <1> DEFINE a == Append(s, u)
  <1>1. /\ a \in Seq(Unit) /\ a # << >> /\ Len(s) \in Nat /\ Len(a) = Len(s) + 1
        /\ a[Len(s) + 1] = u /\ \A i \in 1 .. Len(s) : a[i] = s[i]
    OBVIOUS
  <1>2. s # << >> => Len(s) # 0
    OBVIOUS
  <1> HIDE DEF a
  <1>3. Continuous(a)
    <2> SUFFICES ASSUME NEW i \in 1 .. Len(a) - 1
                 PROVE  a[i + 1].gen = a[i].gen \/ a[i + 1].disc
      BY DEF Continuous
    <2>1. CASE i = Len(s)
      BY <1>1, <2>1
    <2>2. CASE i # Len(s)
      BY <1>1, <2>2 DEF Continuous
    <2> QED
      BY <2>1, <2>2
  <1>4. HeadVisible(a, d, g, p)
    <2>1. CASE s = << >>
      BY <1>1, <2>1 DEF HeadVisible
    <2>2. CASE s # << >>
      BY <1>1, <1>2, <2>2 DEF HeadVisible
    <2> QED
      BY <2>1, <2>2
  <1>5. ASSUME Len(a) > Capacity
        PROVE  /\ Tail(a) # << >> /\ Tail(a)[Len(Tail(a))] = u
               /\ Continuous(Tail(a)) /\ HeadVisible(Tail(a), d + 1, g, p)
    <2> DEFINE t == Tail(a)
    <2>1. /\ t \in Seq(Unit) /\ Len(t) = Len(a) - 1
          /\ \A i \in 1 .. Len(t) : t[i] = a[i + 1]
      BY <1>1
    <2> HIDE DEF t
    <2>2. Len(t) > 0 /\ t # << >>
      BY <1>1, <1>5, <2>1, SourceAssumption
    <2>3. t[Len(t)] = u
      BY <1>1, <2>1, <2>2
    <2>4. Continuous(t)
      <3> SUFFICES ASSUME NEW i \in 1 .. Len(t) - 1
                   PROVE  t[i + 1].gen = t[i].gen \/ t[i + 1].disc
        BY DEF Continuous
      <3>1. t[i] = a[i + 1] /\ t[i + 1] = a[i + 2] /\ i + 1 \in 1 .. Len(a) - 1
        BY <1>1, <2>1
      <3> QED
        BY <1>3, <3>1 DEF Continuous
    <2>5. HeadVisible(t, d + 1, g, p)
      BY DEF HeadVisible
    <2> QED
      BY <2>2, <2>3, <2>4, <2>5 DEF t
  <1> QED
    BY <1>1, <1>3, <1>4, <1>5 DEF a

(* The same for the unit that the recorder takes. *)
LEMMA BoundaryTake ==
    ASSUME NEW s \in Seq(Unit), NEW d \in Nat, s # << >>, Continuous(s)
    PROVE  /\ Head(s) = s[1] /\ Continuous(Tail(s)) /\ HeadVisible(Tail(s), d, Head(s).gen, d)
           /\ Tail(s) = << >> => s[Len(s)] = Head(s)
           /\ Tail(s) # << >> => Tail(s)[Len(Tail(s))] = s[Len(s)]
  <1> DEFINE t == Tail(s)
  <1>1. /\ t \in Seq(Unit) /\ Len(s) \in Nat /\ Len(s) > 0 /\ Len(t) = Len(s) - 1 /\ Head(s) = s[1]
        /\ \A i \in 1 .. Len(t) : t[i] = s[i + 1]
    OBVIOUS
  <1> HIDE DEF t
  <1>2. t # << >> <=> Len(t) > 0
    BY <1>1
  <1>3. Continuous(t)
    <2> SUFFICES ASSUME NEW i \in 1 .. Len(t) - 1
                 PROVE  t[i + 1].gen = t[i].gen \/ t[i + 1].disc
      BY DEF Continuous
    <2>1. t[i] = s[i + 1] /\ t[i + 1] = s[i + 2] /\ i + 1 \in 1 .. Len(s) - 1
      BY <1>1
    <2> QED
      BY <2>1 DEF Continuous
  <1>4. HeadVisible(t, d, Head(s).gen, d)
    BY <1>1, <1>2 DEF HeadVisible, Continuous
  <1>5. (t = << >> => s[Len(s)] = Head(s)) /\ (t # << >> => t[Len(t)] = s[Len(s)])
    BY <1>1, <1>2
  <1> QED
    BY <1>1, <1>3, <1>4, <1>5 DEF t

(* A step that leaves the units, the queue and the receivers alone and does  *)
(* not return to the capture loop from outside.                              *)
QuietStep == /\ UNCHANGED << heard, popped, q, first, generation >>
             /\ pc' \in Streaming => pc \in Streaming

(* The steps that are not quiet are few. *)
LEMMA Quiet ==
    ASSUME TypeOK, PipelineInv, Next
    PROVE  \/ QuietStep \/ RecorderPop \/ Attempt \/ Lost \/ Wait
           \/ \E n \in 0 .. 2 : CaptureUnit(n)
  <1> USE DEF world, control, status, stream, gst, callbacks, media, QuietStep, Streaming
  <1>1. ASSUME Worker
        PROVE  QuietStep \/ Attempt \/ Lost \/ \E n \in 0 .. 2 : CaptureUnit(n)
    <2>1. Backoff \/ FallAsleep \/ Deadline \/ Woken \/ OpenFailed \/ Finish => QuietStep
      BY DEF Backoff, FallAsleep, Deadline, Woken, OpenFailed, Finish
    <2>2. Build \/ Start \/ Poll \/ CaptureFrame \/ JitterStats \/ NoFrame \/ Late => QuietStep
      BY DEF Build, Start, Poll, Leave, CaptureFrame, JitterStats, NoFrame, Late, At
    <2>3. Disconnect \/ Drain \/ Release => QuietStep
      BY DEF Disconnect, Drain, Release, At, PipelineInv, TypeOK
    <2>4. TellSink("worker") => QuietStep
      BY DEF TellSink
    <2>5. ASSUME NEW s \in {"incompatible", "available"}, RejectUnit(s) PROVE QuietStep
      BY <2>5 DEF RejectUnit
    <2> QED
      BY <1>1, <2>1, <2>2, <2>3, <2>4, <2>5 DEF Worker
  <1>2. PadThread => QuietStep
    BY DEF PadThread, ConnectPad, ConnectOther, LeavePad, TellSink
  <1>3. ASSUME NEW c \in Callbacks, BeginCallback(c) \/ KeepReference(c)
        PROVE  QuietStep
    BY <1>3 DEF BeginCallback, KeepReference
  <1>4. CameraDies \/ Post \/ RequestStop \/ Notify => QuietStep
    BY DEF CameraDies, Post, RequestStop, Notify
  <1> QED
    BY <1>1, <1>2, <1>3, <1>4 DEF Next

(* Before the first unit there is no boundary. *)
LEMMA BoundaryInit == Init => BoundaryInv
  BY DEF Init, BoundaryInv, HeadVisible, Continuous, reset

(* Every step keeps what the receivers can see of a new generation. *)
LEMMA BoundaryStep ==
    TypeOK /\ PipelineInv /\ BoundaryInv /\ [Next]_vars => BoundaryInv'
  <1> SUFFICES ASSUME TypeOK, PipelineInv, BoundaryInv, [Next]_vars PROVE BoundaryInv'
    OBVIOUS
  <1> USE DEF world, control, status, stream, gst, callbacks, media
  <1>1. CASE QuietStep
    BY <1>1 DEF QuietStep, Streaming, BoundaryInv
  <1>2. ASSUME NEW n \in 0 .. 2, CaptureUnit(n) PROVE BoundaryInv'
    <2> DEFINE u == [gen |-> generation, disc |-> first]
    <2>1. u \in Unit /\ u.gen = generation /\ u.disc = first
      BY SourceAssumption DEF TypeOK, Unit
    <2>2. /\ popped' = popped /\ generation' = generation /\ pc' = pc /\ pc = "units"
          /\ first' = (first /\ n < 2) /\ heard' = (IF n >= 1 THEN u ELSE heard)
          /\ q' = IF n = 2 THEN push(q, Capacity, u) ELSE q
      BY <1>2 DEF CaptureUnit, At
    <2>3. /\ q \in QueueType /\ q.items \in Seq(Unit) /\ q.dropped \in Nat
          /\ popped.dropped \in Nat /\ first \in BOOLEAN
      BY DEF TypeOK, QueueType
    <2> HIDE DEF u
    <2>4. CASE n # 2
      <3>1. n < 2
        BY <2>4
      <3>2. q' = q /\ first' = first
        BY <2>2, <2>3, <2>4, <3>1, Zenon
      <3>3. ~first => heard'.gen = generation
        BY <2>1, <2>2 DEF BoundaryInv, Streaming
      <3>4. UNCHANGED << popped, q, first, pc, generation >>
        BY <2>2, <3>2
      <3> QED
        BY <3>3, <3>4 DEF BoundaryInv
    <2>5. CASE n = 2
      <3> DEFINE a == Append(q.items, u)
      <3>1. /\ ~first' /\ heard'.gen = generation
            /\ \/ q'.items = a /\ q'.dropped = q.dropped
               \/ q'.items = Tail(a) /\ q'.dropped = q.dropped + 1 /\ Len(a) > Capacity
        <4>1. ~first' /\ heard'.gen = generation /\ q' = push(q, Capacity, u)
          <5>1. ~(n < 2) /\ n >= 1
            BY <2>5
          <5> QED
            BY <2>1, <2>2, <2>5, <5>1, Zenon
        <4>2. \/ /\ push(q, Capacity, u).items = a
                 /\ push(q, Capacity, u).dropped = q.dropped
              \/ /\ push(q, Capacity, u).items = Tail(a) /\ Len(a) > Capacity
                 /\ push(q, Capacity, u).dropped = q.dropped + 1
          BY <2>1, <2>3, PushFacts, Zenon
        <4> QED
          BY <4>1, <4>2
      <3>2. /\ a # << >> /\ a[Len(a)] = u /\ Continuous(a)
            /\ HeadVisible(a, q.dropped, popped.gen, popped.dropped)
            /\ Len(a) > Capacity =>
                  /\ Tail(a) # << >> /\ Tail(a)[Len(Tail(a))] = u /\ Continuous(Tail(a))
                  /\ HeadVisible(Tail(a), q.dropped + 1, popped.gen, popped.dropped)
        <4>1. /\ popped.dropped <= q.dropped /\ Continuous(q.items)
              /\ HeadVisible(q.items, q.dropped, popped.gen, popped.dropped)
              /\ q.items = << >> => u.gen = popped.gen \/ u.disc
              /\ q.items # << >> => u.gen = q.items[Len(q.items)].gen \/ u.disc
          BY <2>1, <2>2, <2>3 DEF BoundaryInv, Streaming
        <4> QED
          BY <2>1, <2>3, <4>1, BoundaryPush, Zenon
      <3> HIDE DEF a
      <3>3. /\ popped.dropped <= q'.dropped /\ q'.items # << >> /\ q'.items[Len(q'.items)] = u
            /\ Continuous(q'.items)
            /\ HeadVisible(q'.items, q'.dropped, popped.gen, popped.dropped)
        <4>1. popped.dropped <= q.dropped
          BY DEF BoundaryInv
        <4>2. CASE q'.items = a /\ q'.dropped = q.dropped
          BY <3>2, <4>1, <4>2
        <4>3. CASE q'.items = Tail(a) /\ q'.dropped = q.dropped + 1 /\ Len(a) > Capacity
          BY <2>3, <3>2, <4>1, <4>3
        <4> QED
          BY <3>1, <4>2, <4>3
      <3> QED
        BY <2>1, <2>2, <3>1, <3>3 DEF BoundaryInv
    <2> QED
      BY <2>4, <2>5
  <1>3. CASE RecorderPop
    <2>1. /\ q \in QueueType /\ q.items \in Seq(Unit) /\ q.items # << >> /\ q.dropped \in Nat
          /\ popped'.gen = Head(q.items).gen /\ popped'.dropped = q.dropped
          /\ pc' = pc /\ first' = first /\ heard' = heard /\ generation' = generation
      BY <1>3 DEF RecorderPop, TypeOK, QueueType
    <2>2. q'.items = Tail(q.items) /\ q'.dropped = q.dropped
      BY <1>3, <2>1, TakeFacts DEF RecorderPop
    <2>3. Continuous(q.items)
      BY DEF BoundaryInv
    <2> QED
      BY <2>1, <2>2, <2>3, BoundaryTake DEF BoundaryInv
  <1>4. CASE Attempt
    BY <1>4 DEF Attempt, NewGeneration, BoundaryInv
  <1>5. CASE Lost
    <2>1. /\ q'.items = q.items \/ q'.items = << >>
          /\ q'.dropped = q.dropped /\ popped' = popped /\ pc' \in {"finish", "backoff"}
      BY <1>5, TakeFacts DEF Lost, At, TypeOK
    <2> QED
      BY <2>1 DEF BoundaryInv, HeadVisible, Continuous, Streaming
  <1>6. CASE Wait
    <2>1. q'.items = q.items /\ q'.dropped = q.dropped
      BY <1>6, TakeFacts DEF Wait, TypeOK
    <2> QED
      BY <1>6, <2>1 DEF Wait, BoundaryInv
  <1>7. CASE UNCHANGED vars
    BY <1>7 DEF vars, BoundaryInv
  <1> QED
    BY <1>1, <1>2, <1>3, <1>4, <1>5, <1>6, <1>7, Quiet

(* The recorder and the sink recognise the first unit of a new generation in *)
(* every behaviour: after any number of reconnects, failed deliveries,       *)
(* discarded queues and overflows, for every capacity of the queue.          *)
THEOREM BoundaryCorrect == Spec => BoundaryIsVisible
  <1> DEFINE A == /\ heard'.gen # heard.gen => heard'.disc
                  /\ popped'.gen # popped.gen =>
                        Head(q.items).disc \/ popped'.dropped # popped.dropped
  <1>1. TypeOK /\ PipelineInv /\ BoundaryInv /\ [Next]_vars => [A]_vars
    <2> SUFFICES ASSUME TypeOK, PipelineInv, BoundaryInv, Next,
                        heard'.gen # heard.gen \/ popped'.gen # popped.gen
                 PROVE  A
      BY DEF vars
    <2> USE DEF world, control, status, stream, gst, callbacks, media
    <2>1. ASSUME NEW n \in 0 .. 2, CaptureUnit(n) PROVE A
      <3>1. /\ popped' = popped /\ pc = "units" /\ first \in BOOLEAN
            /\ heard' = IF n >= 1 THEN [gen |-> generation, disc |-> first] ELSE heard
        BY <2>1 DEF CaptureUnit, At, TypeOK
      <3>2. ~first => heard.gen = generation
        BY <3>1 DEF BoundaryInv, Streaming
      <3> QED
        BY <3>1, <3>2
    <2>2. CASE RecorderPop
      <3>1. q.items \in Seq(Unit) /\ q.items # << >> /\ Head(q.items) = q.items[1]
        BY <2>2 DEF RecorderPop, TypeOK, QueueType
      <3> QED
        BY <2>2, <3>1 DEF RecorderPop, BoundaryInv, HeadVisible
    <2>3. QuietStep \/ Attempt \/ Lost \/ Wait => UNCHANGED << heard, popped >>
      BY DEF QuietStep, Attempt, Lost, Wait
    <2> QED
      BY <2>1, <2>2, <2>3, Quiet
  <1>2. Spec => []BoundaryInv
    BY BoundaryInit, BoundaryStep, TypeCorrect, PipelineCorrect, PTL DEF Spec
  <1>3. Spec => [][A]_vars
    BY <1>1, <1>2, TypeCorrect, PipelineCorrect, PTL DEF Spec
  <1> QED
    BY <1>3 DEF BoundaryIsVisible
=============================================================================

----------------------------- MODULE RtspSource -----------------------------
(* The capture path (video/rtsp_source.cpp with rtsp_video_module.cpp and    *)
(* gstreamer_runtime.cpp): one worker that opens an RTSP pipeline, feeds     *)
(* frames and access units to the consumers, and reconnects with a growing   *)
(* delay; GStreamer's threads, whose signal callbacks enter the same object; *)
(* the thread that stops the module.  A unit is its generation and its       *)
(* discontinuity flag.  Pixels, caps, counters and error texts are left out, *)
(* and so is GStreamer's own DISCONT flag, which can only add to the flag.   *)
EXTENDS RtspRecovery, QueueOps

CONSTANTS Capacity,    \* capacity of the recorder's queue of access units
          Generations, \* pipeline_generation_ counts modulo this
          MaxUnits,    \* bound on the access units
          MaxFaults    \* bound on the failures of a camera that is up

ASSUME SourceAssumption == /\ Capacity \in Nat \ {0} /\ Generations \in Nat \ {0, 1}
                           /\ MaxUnits \in Nat /\ MaxFaults \in Nat

VARIABLES camera, faults,   \* the camera: "up" or "dead"; failures so far
          running, owner,   \* running_; the stopping thread: "up", "join", "down"
          pc, after,        \* the worker, and where it goes after close_pipeline
          rec, received,    \* the worker's recovery and received_frame
          health, video,    \* diagnostics_.health; RuntimeStatus::video_available_
          generation, first,   \* pipeline_generation_, first_access_unit_
          pipeline, posted,    \* "none", "built", "playing"; an error on the bus
          codec,            \* what sink_ and encoded_sink_ are connected to
          accepting, cb,    \* accepting_callbacks_; where each callback is
          refs,             \* managers_ and jitterbuffer_: references held
          known, told,      \* media_available_ with its reason; the sink's view
          say,              \* who still has to tell the sink what
          units, q,         \* number of units, the recorder's queue
          heard, popped     \* last unit of the sink; what the recorder last saw
vars == << camera, faults, running, owner, pc, after, rec, received, health, video,
           generation, first, pipeline, posted, codec, accepting, cb, refs, known, told,
           say, units, q, heard, popped >>

world     == << camera, faults >>
control   == << running, owner >>
status    == << health, video >>
stream    == << generation, first, units, q, heard >>
gst       == << pipeline, posted, codec >>
callbacks == << accepting, cb, refs >>
media     == << known, told, say >>

Callbacks == {"pad", "manager", "jitterbuffer"}
InFlight  == {c \in Callbacks : cb[c] # "out"}   \* callbacks_in_flight_
NoUnit    == [gen |-> Generations, disc |-> FALSE]

(* initialize and start: the status is published before the worker exists. *)
Init == /\ camera = "up" /\ faults = 0 /\ running = TRUE /\ owner = "up"
        /\ pc = "first" /\ after = "loop" /\ rec = begin /\ received = FALSE
        /\ health = "Connecting" /\ video = FALSE
        /\ generation = 0 /\ first = TRUE
        /\ pipeline = "none" /\ posted = FALSE /\ codec = "none"
        /\ accepting = FALSE /\ cb = [c \in Callbacks |-> "out"] /\ refs = {}
        /\ known = "waiting" /\ told = "waiting"
        /\ say = [who \in {"worker", "pad"} |-> "nothing"]
        /\ units = 0 /\ q = reset
        /\ heard = NoUnit /\ popped = [gen |-> Generations, dropped |-> 0]

(* The camera fails while it is up, or it is dead anyway. *)
Fault == \/ camera = "dead" /\ UNCHANGED world
         \/ faults < MaxFaults /\ faults' = faults + 1 /\ UNCHANGED camera

CameraDies == camera = "up" /\ camera' = "dead"
              /\ UNCHANGED << faults, control, pc, after, rec, received, status, stream, gst,
                              callbacks, media, popped >>
-----------------------------------------------------------------------------
(* set_error: the status says so and the video counts as lost. *)
SetError == health' = "Error" /\ video' = FALSE

(* publish_recovery(r). *)
PublishRecovery(r) == /\ health' = r.health
                      /\ video' = (video /\ r.health \in Healthy)

(* publish_media_status up to the unlock: a change is recorded, and who says *)
(* it still has to call the sink.                                            *)
PublishMediaStatus(who, s) ==
    /\ known' = s
    /\ say' = IF known = s THEN say ELSE [say EXCEPT ![who] = s]
    /\ UNCHANGED told

(* The call of the media-status sink, outside the mutex. *)
TellSink(who) ==
    /\ say[who] # "nothing"
    /\ told' = say[who] /\ say' = [say EXCEPT ![who] = "nothing"]
    /\ UNCHANGED << world, control, pc, after, rec, received, status, stream, gst,
                    callbacks, known, popped >>

(* A step of the worker at label l, which has no call of the sink pending. *)
At(l) == pc = l /\ say["worker"] = "nothing"

(* The head of capture_loop: the first time an attempt follows at once; then *)
(* the predicate of wait_until is evaluated ...                              *)
Backoff ==
    /\ At("first") \/ At("backoff")
    /\ pc' = IF ~running THEN "finish" ELSE IF pc = "first" THEN "attempt" ELSE "drowsy"
    /\ UNCHANGED << world, control, after, rec, received, status, stream, gst, callbacks,
                    media, popped >>

(* ... and then the worker sleeps: request_stop does not hold the mutex, so  *)
(* its notification may fall in between.                                     *)
FallAsleep == At("drowsy") /\ pc' = "asleep"
              /\ UNCHANGED << world, control, after, rec, received, status, stream, gst,
                              callbacks, media, popped >>

(* Mutant of Deadline: the sleep ends only when somebody notifies. *)
Deadline_None == At("asleep") /\ running /\ pc' = "woken"
                 /\ UNCHANGED << world, control, after, rec, received, status, stream, gst,
                                 callbacks, media, popped >>

(* next_retry() has come. *)
Deadline == At("asleep") /\ pc' = "woken"
            /\ UNCHANGED << world, control, after, rec, received, status, stream, gst,
                            callbacks, media, popped >>

(* The sleep is over. *)
Woken ==
    /\ At("woken")
    /\ IF running THEN rec' = retry(rec) /\ pc' = "attempt"
       ELSE pc' = "finish" /\ UNCHANGED rec
    /\ UNCHANGED << world, control, after, received, status, stream, gst, callbacks, media,
                    popped >>

(* open_pipeline up to the pipeline's creation: a new generation. *)
NewGeneration == /\ codec' = "none" /\ first' = TRUE
                 /\ generation' = (generation + 1) % Generations
                 /\ PublishMediaStatus("worker", "reconnecting")

(* The next attempt is announced and begun. *)
Attempt ==
    /\ At("attempt") /\ pc' = "build"
    /\ PublishRecovery(rec) /\ NewGeneration /\ received' = FALSE
    /\ UNCHANGED << world, control, after, rec, units, q, heard, pipeline, posted, callbacks,
                    popped >>

(* The elements are created and connected, or something is missing. *)
Build ==
    /\ At("build")
    /\ \/ /\ pipeline' = "built" /\ accepting' = TRUE /\ pc' = "start"
          /\ UNCHANGED << faults, camera, after >>
       \/ /\ Fault /\ pc' = "disconnect" /\ after' = "open_failed"
          /\ UNCHANGED << pipeline, accepting >>
    /\ posted' = FALSE
    /\ UNCHANGED << control, rec, received, status, stream, codec, cb, refs, media, popped >>

(* Pipeline::start: PLAYING in time, failed or late, or cancelled by stop. *)
Start ==
    /\ At("start")
    /\ \/ pipeline' = "playing" /\ pc' = "loop" /\ UNCHANGED << world, after >>
       \/ /\ \/ Fault
             \/ ~running /\ UNCHANGED world
          /\ pc' = "disconnect" /\ after' = "open_failed" /\ UNCHANGED pipeline
    /\ UNCHANGED << control, rec, received, status, stream, posted, codec, callbacks,
                    media, popped >>

(* Mutant of OpenFailed: a camera that cannot be opened ends the worker. *)
OpenFailed_GiveUp ==
    /\ At("open_failed") /\ pc' = "finish"
    /\ UNCHANGED << world, control, after, rec, received, status, stream, gst, callbacks,
                    media, popped >>

(* open_pipeline has failed. *)
OpenFailed ==
    /\ At("open_failed")
    /\ IF ~running THEN pc' = "finish" /\ UNCHANGED << rec, status >>
       ELSE /\ rec' = fail(rec) /\ health' = "Reconnecting" /\ video' = FALSE
            /\ pc' = "backoff"
    /\ UNCHANGED << world, control, after, received, stream, gst, callbacks, media, popped >>

Leave == pc' = "disconnect" /\ after' = "lost"

(* The loop's head: stop, an error set by a callback, or one on the bus. *)
Poll ==
    /\ At("loop")
    /\ IF ~running \/ health = "Error" \/ posted THEN Leave ELSE pc' = "units" /\ UNCHANGED after
    /\ UNCHANGED << world, control, rec, received, status, stream, gst, callbacks, media,
                    popped >>

(* capture_access_unit of a sample that is incompatible, or empty. *)
RejectUnit(s) ==
    /\ At("units") /\ codec = "H264" /\ camera = "up" /\ Fault
    /\ PublishMediaStatus("worker", s)
    /\ UNCHANGED << control, pc, after, rec, received, status, stream, gst, callbacks, popped >>

(* Mutant of CaptureUnit: the flag is cleared before the unit is published. *)
CaptureUnit_EarlyClear(n) ==
    /\ At("units") /\ codec = "H264" /\ camera = "up" /\ units < MaxUnits
    /\ n < 2 => faults < MaxFaults
    /\ faults' = IF n < 2 THEN faults + 1 ELSE faults
    /\ PublishMediaStatus("worker", "available")
    /\ units' = units + 1 /\ first' = FALSE
    /\ LET unit == [gen |-> generation, disc |-> first]
       IN  /\ heard' = IF n >= 1 THEN unit ELSE heard
           /\ q' = IF n = 2 THEN push(q, Capacity, unit) ELSE q
    /\ UNCHANGED << camera, control, pc, after, rec, received, status, generation, gst,
                    callbacks, popped >>

(* capture_access_unit: n of its two receivers, first the sink and then the  *)
(* queue, take the unit; an exception of one skips the rest and keeps        *)
(* first_access_unit_.                                                       *)
CaptureUnit(n) ==
    /\ At("units") /\ codec = "H264" /\ camera = "up" /\ units < MaxUnits
    /\ n < 2 => faults < MaxFaults
    /\ faults' = IF n < 2 THEN faults + 1 ELSE faults
    /\ PublishMediaStatus("worker", "available")
    /\ units' = units + 1 /\ first' = (first /\ n < 2)
    /\ LET unit == [gen |-> generation, disc |-> first]
       IN  /\ heard' = IF n >= 1 THEN unit ELSE heard
           /\ q' = IF n = 2 THEN push(q, Capacity, unit) ELSE q
    /\ UNCHANGED << camera, control, pc, after, rec, received, status, generation, gst,
                    callbacks, popped >>

(* capture_sample: a decoded frame keeps the source alive. *)
CaptureFrame ==
    /\ At("units") /\ codec # "none" /\ camera = "up"
    /\ rec' = frame(rec) /\ received' = TRUE
    /\ health' = rec'.health /\ video' = TRUE
    /\ pc' = "loop"
    /\ UNCHANGED << world, control, after, stream, gst, callbacks, media, popped >>

(* read_jitter_stats: new losses degrade the source, for a while. *)
JitterStats ==
    /\ At("units") /\ "jitterbuffer" \in refs
    /\ \/ faults < MaxFaults /\ faults' = faults + 1 /\ rec' = packet_loss(rec)
       \/ rec.lossy /\ rec' = [rec EXCEPT !.lossy = FALSE] /\ UNCHANGED faults
    /\ IF rec'.health = "Degraded" THEN PublishRecovery(rec') ELSE UNCHANGED status
    /\ UNCHANGED << camera, control, pc, after, received, stream, gst, callbacks, media, popped >>

(* An iteration without a frame. *)
NoFrame == At("units") /\ pc' = "loop"
           /\ UNCHANGED << world, control, after, rec, received, status, stream, gst,
                           callbacks, media, popped >>

(* The first frame, or a fresh one, did not come in time. *)
Late ==
    /\ At("units") /\ Fault /\ Leave
    /\ \/ ~received /\ UNCHANGED << rec, status >>
       \/ may_stall(rec) /\ rec' = stall(rec) /\ PublishRecovery(rec')
    /\ UNCHANGED << control, received, stream, gst, callbacks, media, popped >>

(* close_pipeline: no new callback is admitted ... *)
Disconnect ==
    /\ At("disconnect")
    /\ accepting' = FALSE /\ pc' = "drain"
    /\ UNCHANGED << world, control, after, rec, received, status, stream, gst, cb, refs, media,
                    popped >>

(* Mutant of Drain: the callbacks that are inside are not awaited. *)
Drain_NoWait ==
    /\ At("drain") /\ pc' = "release"
    /\ UNCHANGED << world, control, after, rec, received, status, stream, gst, callbacks,
                    media, popped >>

(* ... those inside are awaited ... *)
Drain ==
    /\ At("drain") /\ InFlight = {} /\ pc' = "release"
    /\ UNCHANGED << world, control, after, rec, received, status, stream, gst, callbacks,
                    media, popped >>

(* ... and the references, the sinks and the pipeline are given up.          *)
(* Pipeline::stop joins the streaming threads; an element that does not      *)
(* reach NULL is leaked, with its signals disconnected.                      *)
Release ==
    /\ At("release")
    /\ refs' = {} /\ codec' = "none" /\ pipeline' = "none" /\ posted' = FALSE
    /\ pc' = after /\ after' = "loop"
    /\ UNCHANGED << world, control, rec, received, status, stream, accepting, cb, media, popped >>

(* The pipeline is gone: stop, or discard what is queued and fail. *)
Lost ==
    /\ At("lost")
    /\ IF ~running THEN pc' = "finish" /\ UNCHANGED << rec, status, q >>
       ELSE /\ q' = discard_all(q)
            /\ rec' = fail(rec) /\ health' = "Reconnecting" /\ video' = FALSE
            /\ pc' = "backoff"
    /\ UNCHANGED << world, control, after, received, generation, first, units, heard, gst,
                    callbacks, media, popped >>

(* The end of capture_loop; there is no pipeline any more. *)
Finish ==
    /\ At("finish")
    /\ rec' = stop(rec) /\ PublishRecovery(rec')
    /\ pc' = "done"
    /\ UNCHANGED << world, control, after, received, stream, gst, callbacks, media, popped >>

Worker == \/ Backoff \/ FallAsleep \/ Deadline \/ Woken \/ Attempt \/ Build \/ Start \/ OpenFailed \/ Poll
          \/ \E s \in {"incompatible", "available"} : RejectUnit(s)
          \/ \E n \in 0 .. 2 : CaptureUnit(n)
          \/ CaptureFrame \/ JitterStats \/ NoFrame \/ Late
          \/ Disconnect \/ Drain \/ Release \/ Lost \/ Finish \/ TellSink("worker")
-----------------------------------------------------------------------------
(* Mutant of BeginCallback: a callback is admitted at any time. *)
BeginCallback_Always(c) ==
    /\ cb[c] = "out" /\ pipeline # "none" /\ camera = "up"
    /\ "manager" \in refs <=> c # "manager"
    /\ cb' = [cb EXCEPT ![c] = "inside"]
    /\ UNCHANGED << world, control, pc, after, rec, received, status, stream, gst, accepting,
                    refs, media, popped >>

(* A signal of a pipeline that exists enters; begin_callback admits it. *)
BeginCallback(c) ==
    /\ cb[c] = "out" /\ pipeline # "none" /\ camera = "up" /\ accepting
    /\ "manager" \in refs <=> c # "manager"
    /\ cb' = [cb EXCEPT ![c] = "inside"]
    /\ UNCHANGED << world, control, pc, after, rec, received, status, stream, gst, accepting,
                    refs, media, popped >>

(* on_new_manager and on_new_jitterbuffer keep a reference; end_callback. *)
KeepReference(c) ==
    /\ c # "pad" /\ cb[c] = "inside"
    /\ refs' = refs \cup {c} /\ cb' = [cb EXCEPT ![c] = "out"]
    /\ UNCHANGED << world, control, pc, after, rec, received, status, stream, gst, accepting,
                    media, popped >>

(* connect_rtp_pad: not a video pad or already connected, an element that is *)
(* missing or does not link, or a chain for the codec; then end_callback.    *)
ConnectPad ==
    /\ cb["pad"] = "inside" /\ cb' = [cb EXCEPT !["pad"] = "out"]
    /\ \/ codec # "none" /\ UNCHANGED << world, status, codec >>
       \/ codec = "none" /\ Fault /\ SetError /\ UNCHANGED codec
       \/ codec = "none" /\ codec' = "H264" /\ UNCHANGED << world, status >>
    /\ UNCHANGED << control, pc, after, rec, received, stream, pipeline, posted, accepting,
                    refs, media, popped >>

(* A stream that is not H.264 is announced before the callback ends. *)
ConnectOther ==
    /\ cb["pad"] = "inside" /\ codec = "none"
    /\ codec' = "H265" /\ cb' = [cb EXCEPT !["pad"] = "leaving"]
    /\ PublishMediaStatus("pad", "needs_h264")
    /\ UNCHANGED << world, control, pc, after, rec, received, status, stream, pipeline,
                    posted, accepting, refs, popped >>

LeavePad ==
    /\ cb["pad"] = "leaving" /\ say["pad"] = "nothing"
    /\ cb' = [cb EXCEPT !["pad"] = "out"]
    /\ UNCHANGED << world, control, pc, after, rec, received, status, stream, gst, accepting,
                    refs, media, popped >>

(* The pipeline posts an error or EOS. *)
Post == /\ pipeline = "playing" /\ ~posted /\ Fault /\ posted' = TRUE
        /\ UNCHANGED << control, pc, after, rec, received, status, stream, pipeline, codec,
                        callbacks, media, popped >>

(* The recorder takes a unit and sees the queue's drop counter. *)
RecorderPop ==
    /\ q.items # << >>
    /\ popped' = [gen |-> Head(q.items).gen, dropped |-> q.dropped]
    /\ q' = take_front(q)
    /\ UNCHANGED << world, control, pc, after, rec, received, status, generation, first,
                    units, heard, gst, callbacks, media >>

(* request_stop: running_ is cleared without the mutex of the sleep ... *)
RequestStop == /\ owner = "up" /\ owner' = "notify" /\ running' = FALSE
               /\ UNCHANGED << world, pc, after, rec, received, status, stream, gst,
                               callbacks, media, popped >>

(* ... and whoever sleeps now is woken. *)
Notify == /\ owner = "notify" /\ owner' = "join"
          /\ pc' = IF pc = "asleep" THEN "woken" ELSE pc
          /\ UNCHANGED << world, running, after, rec, received, status, stream, gst,
                          callbacks, media, popped >>

(* RtspVideoModule::wait: join, clear the status, end the queues. *)
Wait == /\ owner = "join" /\ pc = "done" /\ owner' = "down"
        /\ health' = "Stopped" /\ video' = FALSE
        /\ q' = shutdown(q)
        /\ UNCHANGED << world, running, pc, after, rec, received, generation, first, units,
                        heard, gst, callbacks, media, popped >>

PadThread == ConnectPad \/ ConnectOther \/ LeavePad \/ TellSink("pad")

Next == \/ Worker \/ PadThread \/ CameraDies \/ Post \/ RecorderPop
        \/ \E c \in Callbacks : BeginCallback(c) \/ KeepReference(c)
        \/ RequestStop \/ Notify \/ Wait

Spec == Init /\ [][Next]_vars

(* Threads are scheduled and timed waits end.  A source that is down is late *)
(* at some iteration; one that is up offers its pad and delivers frames.     *)
Fairness == /\ WF_vars(Worker) /\ WF_vars(PadThread) /\ WF_vars(Notify) /\ WF_vars(Wait)
            /\ \A c \in Callbacks : WF_vars(KeepReference(c))
            /\ SF_vars(camera = "dead" /\ Late)
            /\ \A c \in {"manager", "pad"} : SF_vars(BeginCallback(c))
            /\ SF_vars(CaptureFrame)

FairSpec == Spec /\ Fairness
-----------------------------------------------------------------------------
(* A callback that runs works on a pipeline that exists, and no reference to *)
(* a manager or jitterbuffer outlives its pipeline: the hand-shake of        *)
(* begin_callback, end_callback and close_pipeline.                          *)
CallbacksSeeTheirPipeline == pipeline = "none" => InFlight = {} /\ refs = {} /\ codec = "none"

(* Once nobody is inside publish_media_status the media-status sink          *)
(* (recording, WebRTC) was last told what the source has recorded, although  *)
(* the worker and a callback call it outside the mutex.                      *)
MediaStatusDelivered == (\A who \in DOMAIN say : say[who] = "nothing") => told = known

(* The first unit of a new generation is recognisable at both receivers: the *)
(* sink's carries the discontinuity flag, the recorder's carries it or the   *)
(* queue's drop counter has moved since the recorder looked last.            *)
BoundaryIsVisible ==
    [][/\ heard'.gen # heard.gen => heard'.disc
       /\ popped'.gen # popped.gen =>
             Head(q.items).disc \/ popped'.dropped # popped.dropped]_vars

(* A camera that is gone does not stay "connected": the stall, first-frame   *)
(* and start timeouts find out, whatever callback or loss came before.       *)
DeadSourceReported == (camera = "dead") ~> (health \notin Healthy)

(* A source that is up is connected in the end, whatever failed before.      *)
SourceRecovers == (running /\ camera = "up") ~>
                      (health \in Healthy \/ camera = "dead" \/ ~running)

(* The source's wait() returns: no sleep, start or callback holds it up, even*)
(* when the notification comes before the sleep.                             *)
StopReturns == (owner = "notify") ~> (owner = "down")
=============================================================================

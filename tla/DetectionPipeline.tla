------------------------- MODULE DetectionPipeline -------------------------
(* YoloInferenceModule (inference/yolo_inference_module.cpp) with what it    *)
(* works on: the permits of ApiState, the queue of alert works, the thread   *)
(* that stores alerts (AlertManager), the database, and the HealthWatchdog   *)
(* that looks at both, inside the life of a process that is started, stopped *)
(* and killed (runtime.cpp).  The frames come from a queue that the model    *)
(* leaves out: whatever it drops, the worker sees some next frame.           *)
EXTENDS AlertManager, ApiState, HealthWatchdog, QueueOps

CONSTANTS Frames,          \* what the network says of a frame: lists of candidates
          AlertCapacity,   \* of alert_queue_
          MaxFrames, MaxBoots   \* bounds on frames and on starts of the process

ASSUME PipelineAssumption ==
    AlertCapacity \in Nat \ {0} /\ {MaxFrames, MaxBoots} \subseteq Nat

VARIABLES owner,    \* the main thread: "off", "boot", "up", "join", "wait"
          api,      \* ApiState and the detector's part of RuntimeStatus
          worker,   \* the inference thread: pc, the frame and the permit in hand
          queue,    \* alert_queue_
          used      \* frames and boots so far
vars == << store, manager, wd, owner, api, worker, queue, used >>

Idle == [pc |-> "off", frame |-> << >>, seq |-> 0, permit |-> 0]

Init == /\ InitAlerts /\ wd = NewWatchdog /\ owner = "off" /\ api = NewApi
        /\ worker = Idle /\ queue = reset
        /\ used = [frames |-> 0, boots |-> 0]

alerts  == << store, manager >>
process == << owner, used >>
stopping == owner = "wait"

(* The counters of the queue are read by nobody but the log. *)
Lean(q) == [q EXCEPT !.pushed = 0, !.popped = 0, !.dropped = 0, !.high_water_mark = 0]
-----------------------------------------------------------------------------
(* What the detector makes of each frame. *)
Detections == [f \in Frames |-> postprocess_yolo(f)]

(* The inference thread takes a frame and a permit. *)
PopFrame(f) ==
    /\ worker.pc = "pop" /\ ~stopping /\ used.frames < MaxFrames
    /\ used' = [used EXCEPT !.frames = @ + 1]
    /\ IF api.enabled
       THEN /\ worker' = [worker EXCEPT !.pc = "detect", !.frame = f, !.seq = used'.frames,
                                        !.permit = api.generation]
            /\ UNCHANGED api
       ELSE api' = clear_detector(api) /\ UNCHANGED worker
    /\ UNCHANGED << alerts, wd, owner, queue >>

Back == worker' = [Idle EXCEPT !.pc = "pop"]

(* A result: commit_detections with everything its callback does. *)
Detect ==
    /\ worker.pc = "detect" /\ Back
    /\ api' = commit_detections(api, worker.permit)
    /\ queue' = IF Current(api, worker.permit) /\ ~queue.shutdown
                THEN Lean(push(queue, AlertCapacity,
                               [seq |-> worker.seq, gen |-> worker.permit,
                                found |-> Detections[worker.frame]]))
                ELSE queue
    /\ UNCHANGED << alerts, wd, process >>

(* run fails or throws. *)
DetectFails ==
    /\ worker.pc = "detect" /\ Back /\ Fault
    /\ api' = invalidate_detections(api, worker.permit)
    /\ UNCHANGED << store, mgr, rule, trail, raised, wd, process, queue >>

WorkerEnds ==
    /\ worker.pc = "pop" /\ stopping /\ worker' = [Idle EXCEPT !.pc = "ended"]
    /\ UNCHANGED << alerts, wd, process, api, queue >>

(* persist_alerts. *)
TakeWork ==
    /\ queue.items # << >> /\ owner \in {"up", "join", "wait"}
    /\ Process(Head(queue.items)) /\ queue' = Lean(take_front(queue))
    /\ UNCHANGED << wd, process, api, worker >>

AlertWorkerEnds ==
    /\ queue.items = << >> /\ queue.shutdown /\ At("idle") /\ Goto("ended")
    /\ UNCHANGED << store, rule, trail, raised, spent, wd, process, api, worker, queue >>

(* POST /api/v1/detector/enable and disable. *)
Switch(enabled) ==
    /\ owner \in {"up", "join", "wait"} /\ Event
    /\ api' = set_detector_enabled(api, enabled)
    /\ UNCHANGED << store, mgr, rule, trail, raised, wd, process, worker, queue >>
-----------------------------------------------------------------------------
(* The watchdog's thread.  A probe that throws counts as failed. *)
Poll ==
    /\ \/ /\ NoFault
          /\ \/ Probe(database_health(health_error))
             \/ KeepHealth
             \/ EndWatchdog
       \/ Fault /\ Probe("failed")
    /\ UNCHANGED << store, mgr, rule, trail, raised, process, api, worker, queue >>

Stale == GoStale /\ UNCHANGED << alerts, process, api, worker, queue >>
-----------------------------------------------------------------------------
(* The modules are initialized: storage first, then web, then the detector;  *)
(* without a database the process gives up.  A backend that cannot be loaded *)
(* ends it as well, after the reconcile: a Crash that spares the files.      *)
Boot ==
    /\ owner = "off" /\ used.boots < MaxBoots
    /\ used' = [used EXCEPT !.boots = @ + 1]
    /\ \/ /\ db' = open_locked(TRUE) /\ Configure /\ NoFault
          /\ owner' = "boot" /\ api' = configure(NewApi)
       \/ /\ db' = open_locked(FALSE) /\ Fault
          /\ UNCHANGED << file, disk, data, rows, mgr, rule, trail, raised, owner, api >>
    /\ UNCHANGED << wd, worker, queue >>

(* The threads start, the watchdog last; its first tick runs in this thread. *)
Start ==
    /\ owner = "boot" /\ At("idle")
    /\ owner' = "up" /\ worker' = [Idle EXCEPT !.pc = "pop"] /\ StartWatchdog
    /\ UNCHANGED << alerts, api, queue, used >>

(* Runtime::stop: the watchdog stops and is joined, then the modules stop. *)
Stop ==
    /\ owner = "up" /\ wd.lifecycle = "running" /\ owner' = "join" /\ StopWatchdog
    /\ UNCHANGED << alerts, api, worker, queue, used >>

StopModules ==
    /\ owner = "join" /\ Polls("done")
    /\ owner' = "wait" /\ queue' = shutdown(queue)
    /\ UNCHANGED << alerts, wd, api, worker, used >>

(* wait: the detector's threads are joined before the database is closed. *)
Wait ==
    /\ owner = "wait" /\ worker.pc = "ended" /\ At("ended")
    /\ owner' = "off" /\ db' = close /\ mgr' = Off
    /\ api' = clear_detector(api) /\ wd' = NewWatchdog /\ worker' = Idle /\ queue' = reset
    /\ UNCHANGED << file, disk, data, rows, rule, trail, raised, spent, used >>

Crash ==
    /\ owner # "off" /\ owner' = "off" /\ Die
    /\ api' = NewApi /\ wd' = NewWatchdog /\ worker' = Idle /\ queue' = reset
    /\ UNCHANGED used

Next ==
    \/ \E f \in Frames : PopFrame(f)
    \/ Detect \/ DetectFails \/ WorkerEnds \/ TakeWork \/ AlertWorkerEnds
    \/ Store /\ UNCHANGED << wd, process, api, worker, queue >>
    \/ \E enabled \in BOOLEAN : Switch(enabled)
    \/ Poll \/ Stale \/ Boot \/ Start \/ Stop \/ StopModules \/ Wait \/ Crash

(* The watchdog's thread runs. *)
Spec == Init /\ [][Next]_vars /\ WF_vars(Poll)
-----------------------------------------------------------------------------
(* No stale result: /detections/latest shows a result only while the detec-  *)
(* tor is enabled, and only one whose inference began after it was last      *)
(* switched; the rates of the status are shown only with such a result       *)
(* (ApiState::commit_detections against set_detector_enabled).               *)
NoStaleDetections ==
    /\ api.latest.available => api.enabled /\ api.latest.permit = api.generation
    /\ api.available => api.latest.available /\ api.expected

(* An error that makes the database unusable reaches /health: the service is *)
(* FAILED sooner or later, unless it stops first (record_operational_error,  *)
(* health_error, HealthWatchdog::tick and snapshot).                         *)
ErrorSurfaces == db.broken ~> (Overall = "failed" \/ owner # "up")
=============================================================================

----------------------------- MODULE Recording ------------------------------
(* The recorder (video/recording.cpp): RecordingController, which the API    *)
(* threads, the capture thread, the worker and the muxer's callback all call *)
(* under its mutex, and RecordingModule::run, the worker that feeds access   *)
(* units to one MP4 pipeline after another.  A unit is its number in the     *)
(* source's stream and its flags.  Paths, texts, bytes and the counter of    *)
(* dropped units are left out; the quota is a function of the files found.   *)
EXTENDS QueueOps

CONSTANTS Capacity,   \* capacity of the queue of encoded access units
          MaxUnits    \* bound on the access units

ASSUME CapacityAssumption == Capacity \in Nat \ {0}
ASSUME MaxUnitsAssumption == MaxUnits \in Nat

VARIABLES requested, media, state, active,   \* the controller: requested_,
                                             \* media_available_, status_
          surplus,    \* status_.access_units_written, less the units in files
                      \* that were finalized
          produced, q,  \* number of units so far, the input queue
          fresh,      \* first_access_unit_: the next unit follows a reconnect
          running,    \* running_
          pc, after,  \* the worker, and where it goes on after close_pipeline
          unit, waiting, observed,   \* the worker's unit, waiting_for_keyframe_
                                     \* and observed_queue_drops_
          pipeline,   \* "none", "live", or "broken": the bus holds an error
          last, count,  \* history: the last unit and the number of units fed
                        \* to this pipeline
          pending,    \* pending_access_units_
          owner       \* the thread that stops the module: "up", "wait", "down"
vars == << requested, media, state, active, surplus, produced, q, fresh, running, pc,
           after, unit, waiting, observed, pipeline, last, count, pending, owner >>

control == << requested, media, state, active >>
mp4     == << pipeline, last, count, pending, surplus >>
source  == << produced, fresh >>
locals  == << unit, waiting, observed >>

(* An EncodedAccessUnit: its number in the stream and its two flags. *)
Unit(n, key, disc) == [n |-> n, key |-> key, disc |-> disc]
None == Unit(0, FALSE, FALSE)

(* configure: the state that the status begins with. *)
Configured(enabled, usable) ==
    IF ~usable THEN "unavailable" ELSE IF enabled THEN "starting" ELSE "stopped"

(* initialize, with the recording enabled or not, and start. *)
Init == /\ requested \in BOOLEAN /\ media \in BOOLEAN
        /\ state = Configured(requested, media)
        /\ active = FALSE /\ surplus = 0
        /\ produced = 0 /\ q = reset /\ fresh = TRUE /\ running = TRUE
        /\ pc = "loop" /\ after = "loop" /\ unit = None /\ waiting = TRUE /\ observed = 0
        /\ pipeline = "none" /\ last = None /\ count = 0 /\ pending = 0
        /\ owner = "up"
-----------------------------------------------------------------------------
(* RecordingController's requested, set_active, stop, set_stopped and        *)
(* set_error, each under its mutex.                                          *)
Requested == requested /\ media

SetActive == /\ active' = TRUE /\ state' = "recording"
             /\ UNCHANGED << requested, media >>

StopRequest == /\ requested' = FALSE
               /\ state' = IF active THEN "stopping" ELSE "stopped"
               /\ UNCHANGED << media, active >>

SetStopped == /\ active' = FALSE
              /\ state' = IF ~requested /\ state # "error" THEN "stopped" ELSE state
              /\ UNCHANGED << requested, media >>

SetError == /\ requested' = FALSE /\ active' = FALSE /\ state' = "error"
            /\ UNCHANGED media

(* The API's start, refused without media, and stop. *)
ApiStart == /\ media
            /\ requested' = TRUE
            /\ state' = IF active THEN state ELSE "starting"
            /\ UNCHANGED << media, active, source, q, running, pc, after, locals, mp4, owner >>

ApiStop == /\ StopRequest
           /\ UNCHANGED << source, q, running, pc, after, locals, mp4, owner >>

(* set_media_available, called by the capture thread. *)
SetMedia(a) ==
    /\ media' = a
    /\ active' = IF a THEN active ELSE FALSE
    /\ state' = IF ~a THEN IF state = "error" THEN state ELSE "unavailable"
                ELSE IF requested THEN IF active THEN state ELSE "starting"
                ELSE IF state = "error" THEN state ELSE "stopped"
    /\ UNCHANGED << requested, source, q, running, pc, after, locals, mp4, owner >>

(* The muxer opens a fragment: on_format_location calls set_active.  The     *)
(* signal is connected as long as the pipeline exists.                       *)
FormatLocation ==
    /\ count > 0
    /\ SetActive
    /\ UNCHANGED << source, q, running, pc, after, locals, mp4, owner >>

(* The capture thread's push into the recorder's queue; the first unit after *)
(* a connection, and any unit the source marks, is a discontinuity.          *)
Push(key, disc) ==
    /\ produced < MaxUnits /\ ~q.shutdown
    /\ produced' = produced + 1
    /\ q' = push(q, Capacity, Unit(produced', key, fresh \/ disc))
    /\ fresh' = FALSE
    /\ UNCHANGED << control, running, pc, after, locals, mp4, owner >>

(* The capture thread loses the source: what is queued is discarded. *)
Reconnect == /\ ~fresh /\ fresh' = TRUE
             /\ q' = discard_all(q)
             /\ UNCHANGED << control, produced, running, pc, after, locals, mp4, owner >>

(* The pipeline posts an error (appsrc posts EOS only on request). *)
Break == /\ pipeline = "live" /\ pipeline' = "broken"
         /\ UNCHANGED << control, source, q, running, pc, after, locals, last, count, pending,
                         surplus, owner >>
-----------------------------------------------------------------------------
(* A worker step that only moves to a label, with no unit at the loop's head. *)
Goto(label) == /\ pc' = label /\ UNCHANGED after
               /\ unit' = IF label = "loop" THEN None ELSE unit

(* close_pipeline(true) if there is a pipeline, then label. *)
FinalizeThen(label) == /\ UNCHANGED unit
                       /\ IF pipeline = "none" THEN pc' = label /\ UNCHANGED after
                          ELSE pc' = "finalize" /\ after' = label

(* Mutants of CheckRequested: the file is not finalized, or running_ is not  *)
(* looked at.                                                                *)
CheckRequested_KeepFile ==
    /\ pc = "loop"
    /\ Goto(IF ~running THEN "done" ELSE IF Requested THEN "pop" ELSE "idle")
    /\ UNCHANGED << control, source, q, running, waiting, observed, mp4, owner >>

CheckRequested_Deaf ==
    /\ pc = "loop"
    /\ IF Requested THEN Goto("pop") ELSE FinalizeThen("idle")
    /\ UNCHANGED << control, source, q, running, waiting, observed, mp4, owner >>

(* The head of the loop. *)
CheckRequested ==
    /\ pc = "loop"
    /\ IF running /\ Requested THEN Goto("pop")
       ELSE FinalizeThen(IF running THEN "idle" ELSE "done")
    /\ UNCHANGED << control, source, q, running, waiting, observed, mp4, owner >>

(* Nothing to record: the gate closes, the status says so ... *)
Idle == /\ pc = "idle"
        /\ SetStopped
        /\ waiting' = TRUE
        /\ Goto("discard")
        /\ UNCHANGED << source, q, running, observed, mp4, owner >>

(* ... and a unit is taken and ignored. *)
Discard == /\ pc = "discard"
           /\ q' = take_front(q)
           /\ Goto("loop")
           /\ UNCHANGED << control, source, running, waiting, observed, mp4, owner >>

(* pop_for: a unit, or none after its timeout. *)
Pop == /\ pc = "pop"
       /\ unit' = IF q.items = << >> THEN None ELSE Head(q.items)
       /\ q' = take_front(q)
       /\ pc' = "stats"
       /\ UNCHANGED << control, source, running, after, waiting, observed, mp4, owner >>

(* Mutant of Stats: a drop does not close the gate. *)
Stats_Blind == /\ pc = "stats"
               /\ observed' = q.dropped
               /\ Goto("bus")
               /\ UNCHANGED << control, source, q, running, waiting, mp4, owner >>

(* The queue's drop counter, read after the pop: a new drop ends the file. *)
Stats == /\ pc = "stats"
         /\ observed' = q.dropped
         /\ IF q.dropped = observed THEN Goto("bus") /\ UNCHANGED waiting
            ELSE FinalizeThen("bus") /\ waiting' = TRUE
         /\ UNCHANGED << control, source, q, running, mp4, owner >>

(* The bus is polled; an error fails the recording.  Without a unit the loop *)
(* starts over, or ends with the queue.                                      *)
Bus == /\ pc = "bus"
       /\ \/ pipeline = "broken" /\ SetError /\ Goto("abort")
          \/ /\ pipeline # "broken" /\ UNCHANGED control
             /\ IF unit # None THEN Goto("unit")
                ELSE IF q.shutdown THEN FinalizeThen("done") ELSE Goto("loop")
       /\ UNCHANGED << source, q, running, waiting, observed, mp4, owner >>

(* A discontinuity ends the file. *)
Discontinuity ==
    /\ pc = "unit"
    /\ IF unit.disc THEN FinalizeThen("gate") /\ waiting' = TRUE
       ELSE Goto("gate") /\ UNCHANGED waiting
    /\ UNCHANGED << control, source, q, running, observed, mp4, owner >>

(* The keyframe gate. *)
Gate == /\ pc = "gate"
        /\ IF waiting /\ ~unit.key THEN Goto("loop") /\ UNCHANGED waiting
           ELSE Goto("write") /\ waiting' = FALSE
        /\ UNCHANGED << control, source, q, running, observed, mp4, owner >>

(* open_pipeline when there is none; no directory, space or plugin fails it. *)
Open == /\ pc = "write"
        /\ \/ pipeline # "none" /\ Goto("feed") /\ UNCHANGED << control, pipeline >>
           \/ /\ pipeline = "none" /\ Goto("feed")
              /\ pipeline' = "live" /\ UNCHANGED control
           \/ /\ pipeline = "none" /\ SetError /\ Goto("loop")
              /\ UNCHANGED pipeline
        /\ UNCHANGED << source, q, running, waiting, observed, last, count, pending, surplus,
                        owner >>

(* max-buffers of the appsrc, beyond which write_access_unit drops. *)
AppsrcMax == 2

(* write_access_unit: dropped when appsrc is full, rejected, or accepted. *)
Feed == /\ pc = "feed"
        /\ \/ /\ count >= AppsrcMax /\ waiting' = TRUE
              /\ Goto("loop") /\ UNCHANGED << control, last, count, pending >>
           \/ SetError /\ Goto("abort") /\ UNCHANGED << waiting, last, count, pending >>
           \/ /\ pending' = pending + 1 /\ last' = unit /\ count' = count + 1
              /\ Goto("loop") /\ UNCHANGED << control, waiting >>
        /\ UNCHANGED << source, q, running, observed, pipeline, surplus, owner >>

(* Mutant of Abort: the units of the failed pipeline stay pending. *)
Abort_KeepPending ==
    /\ pc = "abort"
    /\ pipeline' = "none" /\ last' = None /\ count' = 0
    /\ Goto("loop")
    /\ UNCHANGED << control, source, q, running, waiting, observed, pending, surplus, owner >>

(* close_pipeline(false) of the failure paths. *)
Abort == /\ pc = "abort"
         /\ pipeline' = "none" /\ last' = None /\ count' = 0 /\ pending' = 0
         /\ Goto("loop")
         /\ UNCHANGED << control, source, q, running, waiting, observed, surplus, owner >>

(* commit_written of the pending units. *)
CommitWritten == surplus' = surplus + pending - count

(* close_pipeline(true): EOS is awaited on the bus, the signal disconnected, *)
(* and the pending units of a finalized file are committed.                  *)
Finalize ==
    /\ pc = "finalize"
    /\ IF pipeline = "live" THEN CommitWritten ELSE UNCHANGED surplus
    /\ pipeline' = "none" /\ last' = None /\ count' = 0 /\ pending' = 0
    /\ pc' = after /\ after' = "loop"
    /\ UNCHANGED << control, source, q, running, locals, owner >>
-----------------------------------------------------------------------------
(* RecordingModule::stop, and the end of the input queue, which the capture  *)
(* module shuts down once all modules were asked to stop.                    *)
Stop == /\ owner = "up" /\ owner' = "join" /\ running' = FALSE
        /\ UNCHANGED << control, source, q, pc, after, locals, mp4 >>

ShutdownQueue == /\ owner # "up" /\ ~q.shutdown /\ q' = shutdown(q)
                 /\ UNCHANGED << control, source, running, pc, after, locals, mp4, owner >>

(* wait: the worker is joined, the recording stopped, the status settled. *)
WaitJoin == /\ owner = "join" /\ pc = "done" /\ owner' = "settle"
            /\ StopRequest
            /\ UNCHANGED << source, q, running, pc, after, locals, mp4 >>

(* wait's closing set_stopped. *)
WaitSettle == /\ owner = "settle" /\ owner' = "down"
              /\ SetStopped
              /\ UNCHANGED << source, q, running, pc, after, locals, mp4 >>

Worker == \/ CheckRequested \/ Idle \/ Discard \/ Pop \/ Stats \/ Bus \/ Discontinuity
          \/ Gate \/ Open \/ Feed \/ Abort \/ Finalize

Next == \/ Worker
        \/ ApiStart \/ ApiStop \/ FormatLocation \/ Break \/ Reconnect
        \/ \E a \in BOOLEAN : SetMedia(a)
        \/ \E key, disc \in BOOLEAN : Push(key, disc)
        \/ Stop \/ ShutdownQueue \/ WaitJoin \/ WaitSettle

Spec == Init /\ [][Next]_vars

(* The worker and the stopping thread are scheduled; Finalize includes that  *)
(* the pipeline answers end-of-stream with EOS or an error.                  *)
Fairness == WF_vars(Worker) /\ WF_vars(WaitJoin) /\ WF_vars(WaitSettle)

FairSpec == Spec /\ Fairness
-----------------------------------------------------------------------------
(* Within one file a unit follows its predecessor, a keyframe opens a new    *)
(* group, and only directly after a keyframe can units be missing.           *)
FileGapsOnlyAfterKeyframe ==
    [][count > 0 /\ count' = count + 1 =>
          last'.key \/ last'.n = last.n + 1 \/ last.key]_vars

(* access_units_written counts exactly the units of files that were          *)
(* finalized: neither a failed file's units nor any unit twice.              *)
WrittenIsFinalized == surplus = 0

(* A stop request ends the file and the status, unless a start comes first. *)
StopTakesEffect == (~requested) ~> (requested \/ (~active /\ pipeline = "none"))

(* wait() returns. *)
WaitReturns == (owner = "join") ~> (owner = "down")

(* "keep state=error ... until an explicit retry or stop": the error state   *)
(* gives way only to a start or a stop.                                      *)
ErrorStaysVisible ==
    [][state = "error" => state' \in {"error", "starting", "stopping", "stopped"}]_vars

(* "Still a delta AU; it must not start a new MP4": the first unit of a file *)
(* is a keyframe.                                                            *)
FilesStartAtKeyframe == [][count = 0 /\ count' = 1 => last'.key]_vars
=============================================================================

---------------------------- MODULE WhipPublisher ----------------------------
(* The WHIP uplink (webrtc/whip_publisher.cpp, whip_policy.cpp): a worker    *)
(* that creates a session at the server, sends the camera's access units with*)
(* detections attached, and starts over when the session fails; libdatachan- *)
(* nel's callbacks, the threads that publish units and results, the server,  *)
(* time, and the thread that stops the module.  The peer connection, the     *)
(* track and the HTTP client are modelled by what the worker sees of them.   *)
EXTENDS QueueOps, WhipRtpClock, DetectionSei

CONSTANTS MediaCapacity, FeedCapacity,   \* of media_queue_ and detection_queue_
          Kinds,                         \* units as records of key, has_pts, restart
          BoxLists, Lags,                \* boxes of a result, frames it is behind
          Starts,                        \* RTP timestamps a session may start with
          MaxUnits, MaxResults,          \* bounds on what is published,
          MaxAttempts, MaxFaults         \* on attempts and on failures

ASSUME WhipAssumption ==
    /\ MediaCapacity \in Nat \ {0} /\ FeedCapacity \in Nat \ {0}
    /\ {MaxUnits, MaxResults, MaxAttempts, MaxFaults} \subseteq Nat
    /\ Kinds \subseteq [key : BOOLEAN, has_pts : BOOLEAN, restart : BOOLEAN]
    /\ Starts \subseteq 0 .. Modulus - 1

VARIABLES pc, err,          \* the worker and the exception it carries
          attempts, faults, \* bounded environment
          stopping, owner,  \* stopping_; the owning thread: "off", "up", "join", "down"
          shown,            \* connection_metrics_->peer_state; "peer": as a callback says
          armed,            \* the peer's callbacks are installed
          peer,             \* WhipPeerState: gathered_, failed_, disconnected_at_
          track,            \* the media track: "closed" or "open"
          elapsed,          \* time limits that have passed
          location,         \* the resource's URL is known
          unreleased,       \* resources a 201 announced and no DELETE was sent for
          flow,             \* the loop's opened, awaiting_resume, track_closed_at,
                            \* waiting_for_keyframe and observed_drops
          clock, pending,   \* WhipRtpClock and the selector's pending_
          unit,             \* the unit in hand
          media, feed,      \* the two queues
          head, results,    \* the last unit published, number of results
          sent              \* last unit sent in this session, its timestamp and SEI
vars == << pc, err, attempts, faults, stopping, owner, shown, armed, peer, track, elapsed,
           location, unreleased, flow, clock, pending, unit, media, feed, head, results,
           sent >>

bounds  == << attempts, faults >>
control == << stopping, owner >>
line    == << armed, peer, track, elapsed >>
uplink  == << flow, clock, pending, unit, sent >>
server  == << location, unreleased >>
input   == << media, feed, head, results >>

NewPeer == [gathered |-> FALSE, failed |-> FALSE, disconnected |-> FALSE]
NewFlow == [opened |-> FALSE, awaiting |-> FALSE, closed |-> FALSE, waiting |-> TRUE,
            drops |-> 0]
NoUnit  == [seq |-> 0, gen |-> 0, pts |-> 0, has_pts |-> FALSE, key |-> FALSE, disc |-> FALSE]
NoSent  == [unit |-> NoUnit, ts |-> None, sei |-> << >>, anchor |-> NoUnit, at |-> None,
            raced |-> FALSE]

Init == /\ pc = "off" /\ err = "none" /\ attempts = 0 /\ faults = 0
        /\ stopping = FALSE /\ owner = "off" /\ shown = "disabled"
        /\ armed = FALSE /\ peer = NewPeer /\ track = "closed" /\ elapsed = {}
        /\ location = FALSE /\ unreleased = 0
        /\ flow = NewFlow /\ clock = NewClock(0) /\ pending = << >> /\ unit = NoUnit
        /\ media = reset /\ feed = reset /\ head = NoUnit /\ results = 0 /\ sent = NoSent

(* A queue without the counters that only its metrics show. *)
Lean(q) == [q EXCEPT !.pushed = 0, !.popped = 0, !.discarded = 0, !.high_water_mark = 0]

Fault == faults < MaxFaults /\ faults' = faults + 1

(* initialize and start with WHIP enabled; a missing token, HTTP client or   *)
(* thread fails the module before there is a worker.                         *)
Initialize ==
    /\ owner = "off"
    /\ shown' = "new" /\ owner' = "up" /\ pc' = "begin"
    /\ media' = reset /\ feed' = reset /\ stopping' = FALSE
    /\ UNCHANGED << err, bounds, line, server, uplink, head, results >>
-----------------------------------------------------------------------------
(* The head of run's loop and publish_once up to the offer: a fresh token,   *)
(* peer, selector and metrics.                                               *)
Begin ==
    /\ pc = "begin"
    /\ \/ stopping /\ pc' = "done"
          /\ UNCHANGED << err, bounds, shown, line >>
       \/ /\ ~stopping /\ Fault /\ err' = "error" /\ pc' = "caught"
          /\ UNCHANGED << attempts, shown, line >>
       \/ /\ ~stopping /\ attempts < MaxAttempts /\ attempts' = attempts + 1
          /\ shown' = "new" /\ armed' = TRUE /\ peer' = NewPeer /\ track' = "closed"
          /\ elapsed' = {} /\ pc' = "gather"
          /\ UNCHANGED << err, faults >>
    /\ UNCHANGED << control, server, uplink, input >>

(* wait_for_gathering and what follows it: stop returns without a clean-up.  *)
Gather ==
    /\ pc = "gather"
    /\ IF stopping THEN pc' = "report" /\ UNCHANGED << err, faults >>
       ELSE \/ peer.gathered /\ ~peer.failed /\ pc' = "post" /\ UNCHANGED << err, faults >>
            \/ /\ (peer.failed /\ UNCHANGED faults) \/ (~peer.failed /\ Fault)
               /\ err' = "error" /\ pc' = "close"
    /\ UNCHANGED << attempts, control, shown, line, server, uplink, input >>

Created == unreleased' = unreleased + 1

(* Mutant of Post: a 201 without a usable Location is an error like others. *)
Post_Retry ==
    /\ pc = "post"
    /\ \/ /\ Created /\ location' = TRUE /\ pc' = "check"
          /\ flow' = [NewFlow EXCEPT !.drops = media.dropped]
          /\ \E start \in Starts : clock' = NewClock(start)
          /\ UNCHANGED << err, faults >>
       \/ Created /\ Fault /\ location' = TRUE /\ err' = "error" /\ pc' = "close"
          /\ UNCHANGED << flow, clock >>
       \/ Created /\ Fault /\ err' = "error" /\ pc' = "close"
          /\ UNCHANGED << location, flow, clock >>
    /\ UNCHANGED << attempts, control, shown, line, pending, unit, sent, input >>

(* The POST and its answer: a session; a 201 whose answer is refused by the  *)
(* peer; a 201 without a usable Location (whip_resource_url throws); another *)
(* status, no answer, or a request that stop cancels.                        *)
Post ==
    /\ pc = "post"
    /\ \/ /\ Created /\ location' = TRUE /\ pc' = "check"
          /\ flow' = [NewFlow EXCEPT !.drops = media.dropped]
          /\ \E start \in Starts : clock' = NewClock(start)
          /\ UNCHANGED << err, faults >>
       \/ Created /\ Fault /\ location' = TRUE /\ err' = "error" /\ pc' = "close"
          /\ UNCHANGED << flow, clock >>
       \/ Created /\ Fault /\ err' = "orphan" /\ pc' = "close"
          /\ UNCHANGED << location, flow, clock >>
       \/ /\ Fault \/ (stopping /\ UNCHANGED faults)
          /\ err' = "error" /\ pc' = "close" /\ UNCHANGED << server, flow, clock >>
    /\ UNCHANGED << attempts, control, shown, line, pending, unit, sent, input >>
-----------------------------------------------------------------------------
should_reconnect == peer.failed \/ (peer.disconnected /\ "grace" \in elapsed)

(* Both the peer and the track carry media. *)
Flowing == ~peer.disconnected /\ track = "open"

(* Mutant of GivesUp: a track that closes again is waited for without limit. *)
GivesUp_OpenedOnce == ~flow.opened /\ "connect" \in elapsed

(* The limits of the branch that does not send. *)
GivesUp == \/ ~flow.opened /\ "connect" \in elapsed
           \/ flow.opened /\ track = "closed" /\ flow.closed /\ "track" \in elapsed

(* The head of the media loop. *)
Check ==
    /\ pc = "check"
    /\ IF stopping THEN pc' = "close" /\ UNCHANGED << err, flow, elapsed, media >>
       ELSE IF should_reconnect \/ (~Flowing /\ GivesUp)
       THEN err' = "error" /\ pc' = "close" /\ UNCHANGED << flow, elapsed, media >>
       ELSE IF ~Flowing
       THEN /\ flow' = [flow EXCEPT !.awaiting = TRUE,
                                    !.closed = @ \/ (flow.opened /\ track = "closed")]
            /\ media' = IF flow.awaiting THEN media ELSE Lean(discard_all(media))
            /\ UNCHANGED << pc, err, elapsed >>
       ELSE /\ flow' = [flow EXCEPT !.waiting = @ \/ flow.awaiting, !.awaiting = FALSE,
                                    !.opened = TRUE, !.closed = FALSE]
            /\ elapsed' = elapsed \ {"track", "connect"}
            /\ pc' = "pop" /\ UNCHANGED << err, media >>
    /\ UNCHANGED << bounds, control, shown, armed, peer, track, server, clock, pending, unit,
                    feed, head, results, sent >>

(* pop_for, in vain or not. *)
Pop ==
    /\ pc = "pop" /\ pc' = "drain"
    /\ IF media.items = << >> THEN UNCHANGED << unit, media >>
       ELSE unit' = Head(media.items) /\ media' = Lean(take_front(media))
    /\ UNCHANGED << err, bounds, control, shown, line, server, flow, clock, pending, feed,
                    head, results, sent >>

(* The results that are waiting, one at a time until there is none. *)
Drain ==
    /\ pc = "drain"
    /\ IF feed.items = << >>
       THEN pc' = (IF unit = NoUnit THEN "check" ELSE "send") /\ UNCHANGED << pending, feed >>
       ELSE /\ pending' = add(pending, Head(feed.items)) /\ feed' = Lean(take_front(feed))
            /\ UNCHANGED pc
    /\ UNCHANGED << err, bounds, control, shown, line, server, flow, clock, unit, media, head,
                    results, sent >>

(* Mutant of Gated: drops of the queue are not noticed. *)
Gated_IgnoreDrops == flow.waiting \/ unit.disc

(* waiting_for_keyframe once the unit and the drop counter have been looked at. *)
Gated == flow.waiting \/ unit.disc \/ media.dropped # flow.drops

(* The rest of the iteration: gate, timestamp, SEI, and the send. *)
Send ==
    /\ pc = "send" /\ unit' = NoUnit
    /\ IF Gated /\ ~unit.key
       THEN /\ flow' = [flow EXCEPT !.waiting = TRUE, !.drops = media.dropped]
            /\ pc' = "check" /\ UNCHANGED << err, faults, clock, pending, sent >>
       ELSE /\ flow' = [flow EXCEPT !.waiting = FALSE, !.drops = media.dropped]
            /\ clock' = timestamp(clock, unit.gen, unit.has_pts, unit.pts)
            /\ pending' = IF unit.has_pts THEN Later(pending, unit.gen) ELSE pending
            /\ \/ /\ track = "open" /\ pc' = "check"
                  /\ sent' = [unit |-> unit, ts |-> clock'.last,
                              sei |-> IF unit.has_pts
                                      THEN take_for(pending, unit.pts, unit.gen) ELSE << >>,
                              anchor |-> IF unit.has_pts THEN unit ELSE sent.anchor,
                              at |-> IF unit.has_pts THEN clock'.last ELSE sent.at,
                              raced |-> media.dropped # flow.drops]
                  /\ UNCHANGED << err, faults >>
               \/ /\ (track = "closed" /\ UNCHANGED faults) \/ (track = "open" /\ Fault)
                  /\ err' = "error" /\ pc' = "close" /\ UNCHANGED sent
    /\ UNCHANGED << attempts, control, shown, line, server, input >>
-----------------------------------------------------------------------------
(* resetCallbacks and close. *)
Close ==
    /\ pc = "close" /\ armed' = FALSE /\ track' = "closed" /\ pc' = "delete"
    /\ UNCHANGED << err, bounds, control, shown, peer, elapsed, server, uplink, input >>

(* close_resource: one DELETE, whatever comes of it, if there is a URL; the  *)
(* locals of publish_once end.                                               *)
Delete ==
    /\ pc = "delete" /\ pc' = "caught"
    /\ location' = FALSE /\ unreleased' = IF location THEN unreleased - 1 ELSE unreleased
    /\ peer' = NewPeer /\ elapsed' = {} /\ flow' = NewFlow /\ clock' = NewClock(0)
    /\ pending' = << >> /\ sent' = NoSent
    /\ UNCHANGED << err, bounds, control, shown, armed, track, unit, input >>

(* The handlers of run: an orphaned resource ends the worker. *)
Caught ==
    /\ pc = "caught" /\ err' = "none"
    /\ IF err = "orphan"
       THEN shown' = (IF stopping THEN "stopped" ELSE "failed") /\ pc' = "done"
       ELSE pc' = "report" /\ UNCHANGED shown
    /\ UNCHANGED << bounds, control, line, server, uplink, input >>

Report ==
    /\ pc = "report" /\ pc' = "decide"
    /\ shown' = IF stopping THEN "stopped" ELSE "retrying"
    /\ UNCHANGED << err, bounds, control, line, server, uplink, input >>

(* Stop ends the loop; otherwise what is queued is stale, and a pause. *)
Decide ==
    /\ pc = "decide"
    /\ IF stopping THEN pc' = "done" /\ UNCHANGED media
       ELSE pc' = "asleep" /\ media' = Lean(discard_all(media))
    /\ UNCHANGED << err, bounds, control, shown, line, server, uplink, feed, head, results >>

Wake == /\ pc = "asleep" /\ pc' = "begin"
        /\ UNCHANGED << err, bounds, control, shown, line, server, uplink, input >>

Worker == \/ Begin \/ Gather \/ Post \/ Check \/ Pop \/ Drain \/ Send \/ Close \/ Delete
          \/ Caught \/ Report \/ Decide \/ Wake
-----------------------------------------------------------------------------
(* The callbacks of a peer that has them installed: gathering completes; the *)
(* state changes, which the metrics show before WhipPeerState hears of it.   *)
Gathered == /\ armed /\ ~peer.gathered /\ peer' = [peer EXCEPT !.gathered = TRUE]
            /\ UNCHANGED << pc, err, bounds, control, shown, armed, track, elapsed, server,
                            uplink, input >>

Connected ==
    /\ armed /\ location /\ ~peer.failed /\ (peer.disconnected \/ shown # "peer")
    /\ shown' = "peer" /\ peer' = [peer EXCEPT !.disconnected = FALSE]
    /\ elapsed' = elapsed \ {"grace"}
    /\ UNCHANGED << pc, err, bounds, control, armed, track, server, uplink, input >>

Disconnected ==
    /\ armed /\ location /\ Fault
    /\ shown' = "peer" /\ peer' = [peer EXCEPT !.disconnected = TRUE]
    /\ UNCHANGED << pc, err, attempts, control, armed, track, elapsed, server, uplink, input >>

(* Failed, or Closed because the worker is done with the peer. *)
Failed ==
    /\ armed /\ ~peer.failed
    /\ Fault \/ (pc \in {"delete", "caught", "report", "decide", "done"} /\ UNCHANGED faults)
    /\ shown' = "peer" /\ peer' = [peer EXCEPT !.failed = TRUE]
    /\ UNCHANGED << pc, err, attempts, control, armed, track, elapsed, server, uplink, input >>

TrackChanges ==
    /\ armed /\ location
    /\ \/ track = "closed" /\ shown = "peer" /\ track' = "open" /\ UNCHANGED faults
       \/ track = "open" /\ Fault /\ track' = "closed"
    /\ UNCHANGED << pc, err, attempts, control, shown, armed, peer, elapsed, server, uplink,
                    input >>

(* A time limit that is running passes. *)
TimePasses(limit) ==
    /\ limit \notin elapsed /\ elapsed' = elapsed \cup {limit}
    /\ CASE limit = "grace"   -> peer.disconnected
         [] limit = "connect" -> pc = "check" /\ ~flow.opened
         [] limit = "track"   -> pc = "check" /\ flow.closed
    /\ UNCHANGED << pc, err, bounds, control, shown, armed, peer, track, server, uplink, input >>

(* publish_access_unit: PTS grow within a generation and begin again with the *)
(* next one, whose first unit carries the discontinuity.                      *)
PublishUnit(k) ==
    /\ owner = "up" /\ ~stopping /\ head.seq < MaxUnits
    /\ head' = [seq |-> head.seq + 1, key |-> k.key, has_pts |-> k.has_pts,
                gen |-> IF k.restart THEN head.gen + 1 ELSE head.gen,
                pts |-> IF k.restart THEN 0 ELSE head.pts + 1,
                disc |-> k.restart \/ head.seq = 0]
    /\ media' = Lean(push(media, MediaCapacity, head'))
    /\ UNCHANGED << pc, err, bounds, control, shown, line, server, uplink, feed, results >>

(* publish_detections: inference is some frames behind the last unit, and    *)
(* may still be at the pipeline before this one.  "of" remembers how many    *)
(* boxes there were.                                                         *)
PublishDetections(boxes, lag) ==
    /\ owner = "up" /\ ~stopping /\ results < MaxResults /\ head.seq > 0
    /\ results' = results + 1
    /\ feed' = Lean(push(feed, FeedCapacity,
                         [gen |-> IF lag <= head.pts THEN head.gen ELSE head.gen - 1,
                          pts |-> IF lag <= head.pts THEN head.pts - lag ELSE 1,
                          boxes |-> boxes, of |-> Len(boxes), id |-> results']))
    /\ UNCHANGED << pc, err, bounds, control, shown, line, server, uplink, media, head >>

(* stop and wait. *)
Stop == /\ owner = "up" /\ owner' = "join" /\ stopping' = TRUE
        /\ media' = shutdown(media) /\ feed' = shutdown(feed)
        /\ UNCHANGED << pc, err, bounds, shown, line, server, uplink, head, results >>

Wait == /\ owner = "join" /\ pc = "done" /\ owner' = "down"
        /\ UNCHANGED << pc, err, bounds, stopping, shown, line, server, uplink, input >>

Next == \/ Initialize \/ Worker \/ Stop \/ Wait
        \/ Gathered \/ Connected \/ Disconnected \/ Failed \/ TrackChanges
        \/ \E limit \in {"grace", "connect", "track"} : TimePasses(limit)
        \/ \E k \in Kinds : PublishUnit(k)
        \/ \E boxes \in BoxLists, lag \in Lags : PublishDetections(boxes, lag)

Spec == Init /\ [][Next]_vars

(* The worker and the joining thread are scheduled, waits end and time goes  *)
(* on.  Nothing is assumed of the server or the network.                     *)
Fairness == /\ WF_vars(Worker) /\ WF_vars(Wait)
            /\ \A limit \in {"grace", "connect", "track"} : WF_vars(TimePasses(limit))

FairSpec == Spec /\ Fairness
-----------------------------------------------------------------------------
(* No session is asked for while a resource that a 201 announced is left at  *)
(* the server without a DELETE: every failure after the 201 releases it, and *)
(* one without a usable URL is never retried.                                *)
RetryIsSafe == pc \in {"begin", "gather", "post", "asleep"} => unreleased = 0

(* What the server receives can be decoded: a unit that is not a keyframe    *)
(* follows, in the session, the very unit that preceded it in the stream,    *)
(* whatever was dropped, discarded or interrupted in between.  The exception *)
(* is a drop that was seen together with a keyframe: it may have happened    *)
(* after that keyframe was popped, and then the gap comes after it.          *)
DecodableUplink ==
    [][sent'.unit # sent.unit /\ sent' # NoSent /\ ~sent'.unit.key =>
          /\ sent.unit # NoUnit
          /\ sent.unit.seq = sent'.unit.seq - 1 \/ (sent.unit.key /\ sent.raced)]_vars

Forward(a, b) == (b - a) % Modulus

(* RTP time within a session: over a restart of the source it goes on by at  *)
(* most the longest frame interval, and between units of one pipeline it     *)
(* differs exactly as their PTS do.                                          *)
RtpTimeContinues ==
    [][sent'.unit # sent.unit /\ sent' # NoSent /\ sent # NoSent =>
          /\ sent'.unit.gen # sent.unit.gen => Forward(sent.ts, sent'.ts) \in 1 .. MaxStep
          /\ (sent'.unit.has_pts /\ sent.anchor # NoUnit /\ sent'.unit.gen = sent.anchor.gen)
             => Forward(sent.at, sent'.ts) =
                   ((sent'.unit.pts - sent.anchor.pts) * TicksPerUnit) % Modulus]_vars

(* A result is shown on a picture of its own pipeline, at most Window after  *)
(* its own, oldest first, within the size limit, and only once; a result     *)
(* that loses boxes is alone and could not have kept one more.               *)
SeiBelongsToUnit ==
    /\ NalBytes(sent.sei) <= MaxSeiBytes
    /\ \A i \in DOMAIN sent.sei :
          /\ sent.sei[i].gen = sent.unit.gen
          /\ sent.unit.pts - sent.sei[i].pts \in 0 .. Window
          /\ \A j \in 1 .. i - 1 : sent.sei[j].pts <= sent.sei[i].pts
          /\ \A j \in DOMAIN pending : pending[j].id # sent.sei[i].id
          /\ Len(sent.sei[i].boxes) < sent.sei[i].of =>
                Len(sent.sei) = 1 /\ NalBytes(sent.sei) + BoxBytes > MaxSeiBytes

(* A session that carries no media resumes or ends: no combination of peer   *)
(* and track states escapes all three time limits.                           *)
NoSilentSession == (pc = "check" /\ ~Flowing) ~> (Flowing \/ pc # "check")
=============================================================================

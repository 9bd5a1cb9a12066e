----------------------------- MODULE WhepMedia ------------------------------
(* The media path of one WHEP viewer (webrtc/webrtc_manager.cpp): the        *)
(* capture thread in WebRtcManager::publish_access_unit, the signaling       *)
(* thread that activates the session's media, the session's media_loop, and  *)
(* the thread that closes the session.  An access unit is its number in the  *)
(* source's stream and its keyframe and discontinuity flags.                 *)
(* The bytes and the RTP timestamp of a unit are left out.                   *)
EXTENDS QueueOps

CONSTANTS Capacity,   \* media_queue_capacity_
          MaxUnits    \* bound on the published access units

ASSUME CapacityAssumption == Capacity \in Nat \ {0}
ASSUME MaxUnitsAssumption == MaxUnits \in Nat

VARIABLES produced,   \* number of units published so far
          latest,     \* latest_keyframe_, or None
          publisher,  \* None, or the unit to enqueue in the copied sessions
          listed,     \* the session is in sessions_
          signaling,  \* progress of create_session after the offer
          initial,    \* the copied initial keyframe, or None
          running,    \* media_running_
          q,          \* media_queue_
          worker, unit, waiting, observed,  \* media_loop and its locals
          track,      \* the video track: "opening", "open" or "closed"
          closer,     \* progress of close_with_reason
          sent, sentkey, lost   \* history: last unit and last keyframe sent,
                                \* last unit dropped by overflow
vars == << produced, latest, publisher, listed, signaling, initial, running, q,
           worker, unit, waiting, observed, track, closer, sent, sentkey, lost >>

loopVars    == << worker, unit, waiting, observed >>
sessionVars == << listed, signaling, initial, closer >>
history     == << sent, sentkey, lost >>

(* An EncodedAccessUnit: its number in the stream and its two flags. *)
Unit(n, key, disc) == [n |-> n, key |-> key, disc |-> disc]
None == Unit(0, FALSE, FALSE)

Init == /\ produced = 0 /\ latest = None /\ publisher = None
        /\ listed = TRUE /\ signaling = "answered" /\ initial = None
        /\ running = FALSE /\ q = reset
        /\ worker = "none" /\ unit = None /\ waiting = TRUE /\ observed = 0
        /\ track = "opening" /\ closer = "idle"
        /\ sent = None /\ sentkey = 0 /\ lost = 0

(* publish_access_unit under the manager's mutex: the keyframe cache is      *)
(* brought up to date and the sessions are copied.                           *)
Publish(key, disc) ==
    /\ publisher = None /\ produced < MaxUnits
    /\ produced' = produced + 1
    /\ LET u == Unit(produced', key, disc)
       IN  /\ latest' = IF key THEN u ELSE IF disc THEN None ELSE latest
           /\ publisher' = IF listed THEN u ELSE None
    /\ UNCHANGED << running, q, track, loopVars, sessionVars, history >>

(* enqueue outside the manager's mutex; a stopped session ignores the unit. *)
Enqueue ==
    /\ publisher # None
    /\ publisher' = None
    /\ IF running /\ ~q.shutdown
       THEN /\ q' = push(q, Capacity, publisher)
            /\ lost' = IF Len(q.items) = Capacity THEN Head(q.items).n ELSE lost
       ELSE UNCHANGED << q, lost >>
    /\ UNCHANGED << produced, latest, running, track, loopVars, sessionVars, sent, sentkey >>

(* create_session copies the cached keyframe, or gives up on a session that  *)
(* has left sessions_ meanwhile.                                             *)
CopyKeyframe ==
    /\ signaling = "answered"
    /\ signaling' = IF listed THEN "activating" ELSE "failed"
    /\ initial' = IF listed THEN latest ELSE initial
    /\ UNCHANGED << produced, latest, publisher, listed, running, q, track, closer,
                    loopVars, history >>

(* Mutant of ActivateMedia: a session that is being closed is activated. *)
ActivateMedia_Late ==
    /\ signaling = "activating"
    /\ signaling' = "active" /\ running' = TRUE
    /\ q' = IF initial = None THEN reset ELSE push(reset, Capacity, initial)
    /\ worker' = "loop" /\ initial' = None
    /\ UNCHANGED << produced, latest, publisher, listed, unit, waiting, observed,
                    track, closer, history >>

(* activate_media: refused once closed; else the queue is reset, the initial *)
(* keyframe queued and the worker started, which may fail.                   *)
ActivateMedia ==
    /\ signaling = "activating"
    /\ LET primed == IF initial = None THEN reset ELSE push(reset, Capacity, initial)
       IN  \/ /\ closer # "idle"
              /\ signaling' = "failed"
              /\ UNCHANGED << running, q, worker >>
           \/ /\ closer = "idle"
              /\ signaling' = "active" /\ running' = TRUE /\ q' = primed
              /\ worker' = "loop"
           \/ /\ closer = "idle"
              /\ signaling' = "failed" /\ q' = shutdown(primed)
              /\ UNCHANGED << running, worker >>
    /\ initial' = None
    /\ UNCHANGED << produced, latest, publisher, listed, unit, waiting, observed,
                    track, closer, history >>
-----------------------------------------------------------------------------
(* The head of media_loop: while (media_running_). *)
LoopCheck == /\ worker = "loop"
             /\ worker' = IF running THEN "pop" ELSE "done"
             /\ UNCHANGED << produced, latest, publisher, running, q, unit, waiting,
                             observed, track, sessionVars, history >>

(* The next iteration, without a unit. *)
Iterate == worker' = "loop" /\ unit' = None

(* pop_for returns a unit, or nothing after its timeout or a shutdown. *)
PopUnit ==
    /\ worker = "pop"
    /\ IF q.items # << >>
       THEN unit' = Head(q.items) /\ q' = take_front(q) /\ worker' = "gate"
       ELSE worker' = "loop" /\ UNCHANGED << unit, q >>
    /\ UNCHANGED << produced, latest, publisher, running, waiting, observed, track,
                    sessionVars, history >>

(* Mutant of Gate: the drop counter is not looked at. *)
Gate_NoDropCheck ==
    /\ worker = "gate"
    /\ LET closed == waiting \/ unit.disc
       IN  /\ waiting' = closed
           /\ IF closed /\ ~unit.key THEN Iterate ELSE worker' = "track" /\ UNCHANGED unit
    /\ UNCHANGED << produced, latest, publisher, running, q, observed, track,
                    sessionVars, history >>

(* The discontinuity check, stats().dropped against the last value seen, and *)
(* the keyframe gate.  The counter is read after the pop.                    *)
Gate ==
    /\ worker = "gate"
    /\ LET closed == waiting \/ unit.disc \/ q.dropped # observed
       IN  /\ waiting' = closed
           /\ IF closed /\ ~unit.key THEN Iterate ELSE worker' = "track" /\ UNCHANGED unit
    /\ observed' = q.dropped
    /\ UNCHANGED << produced, latest, publisher, running, q, track,
                    sessionVars, history >>

(* Mutant of AwaitTrack: the wait does not look at media_running_. *)
AwaitTrack_Stubborn ==
    /\ worker = "track" /\ track = "open" /\ worker' = "opened"
    /\ UNCHANGED << produced, latest, publisher, running, q, unit, waiting, observed,
                    track, sessionVars, history >>

(* The unit is kept while the track is not open, unless the session stops. *)
AwaitTrack ==
    /\ worker = "track" /\ (running => track = "open") /\ worker' = "opened"
    /\ UNCHANGED << produced, latest, publisher, running, q, unit, waiting, observed,
                    track, sessionVars, history >>

(* After that wait both are looked at again; the gate opens. *)
OpenGate ==
    /\ worker = "opened"
    /\ IF running /\ track = "open"
       THEN worker' = "send" /\ waiting' = FALSE /\ UNCHANGED unit
       ELSE Iterate /\ UNCHANGED waiting
    /\ UNCHANGED << produced, latest, publisher, running, q, observed, track,
                    sessionVars, history >>

(* track->send: accepted, or refused and the session's media ends. *)
Send ==
    /\ worker = "send" /\ Iterate
    /\ \/ /\ track = "open"
          /\ sent' = unit
          /\ sentkey' = IF unit.key THEN unit.n ELSE sentkey
          /\ UNCHANGED << running, lost >>
       \/ running' = FALSE /\ UNCHANGED history
    /\ UNCHANGED << produced, latest, publisher, q, waiting, observed, track,
                    sessionVars >>

(* The remote side: the track opens, and closes at any time. *)
TrackChange == /\ \/ track = "opening" /\ track' \in {"open", "closed"}
                  \/ track = "open" /\ track' = "closed"
               /\ UNCHANGED << produced, latest, publisher, running, q, loopVars,
                               sessionVars, history >>
-----------------------------------------------------------------------------
(* DELETE, the cleanup worker, a lost source or shutdown take the session    *)
(* out of sessions_ before they close it.                                    *)
Unlist == /\ listed /\ listed' = FALSE
          /\ UNCHANGED << produced, latest, publisher, signaling, initial, running, q,
                          track, closer, loopVars, history >>

(* close_with_reason: claim the cleanup, shut the queue down, join.  The     *)
(* thread that unlisted the session does it, or create_session that finds it *)
(* unlisted; the second caller returns at once.                              *)
Close ==
    /\ \/ closer = "idle" /\ ~listed /\ closer' = "claimed" /\ running' = FALSE
          /\ UNCHANGED q
       \/ closer = "claimed" /\ closer' = "joining" /\ q' = shutdown(q)
          /\ UNCHANGED running
       \/ closer = "joining" /\ worker \in {"none", "done"} /\ closer' = "closed"
          /\ UNCHANGED << running, q >>
    /\ UNCHANGED << produced, latest, publisher, listed, signaling, initial, track,
                    loopVars, history >>

Next == \/ \E key, disc \in BOOLEAN : Publish(key, disc)
        \/ Enqueue \/ CopyKeyframe \/ ActivateMedia
        \/ LoopCheck \/ PopUnit \/ Gate \/ AwaitTrack \/ OpenGate \/ Send
        \/ TrackChange \/ Unlist \/ Close

Spec == Init /\ [][Next]_vars

(* The threads are scheduled; nothing is asked of the network, the viewers   *)
(* or the source.                                                            *)
Fairness == /\ WF_vars(Enqueue) /\ WF_vars(CopyKeyframe) /\ WF_vars(ActivateMedia)
            /\ WF_vars(LoopCheck) /\ WF_vars(PopUnit) /\ WF_vars(Gate)
            /\ WF_vars(AwaitTrack) /\ WF_vars(OpenGate) /\ WF_vars(Send)
            /\ WF_vars(Close)

FairSpec == Spec /\ Fairness
-----------------------------------------------------------------------------
(* What the gate guarantees: a delta unit is sent only directly after its    *)
(* predecessor or after a keyframe, and never first.  Units are sent in      *)
(* source order, and twice only a keyframe: the initial one, which the       *)
(* capture thread was just enqueueing when it was copied.                    *)
GapsOnlyAfterKeyframe ==
    [][worker = "send" /\ worker' = "loop" =>
          /\ sent'.n >= sent.n
          /\ unit = sent => sent.key
          /\ sent' # sent => \/ sent'.key
                             \/ sent # None /\ (sent'.n = sent.n + 1 \/ sent.key)]_vars

(* "Drop queued access units and wait for a keyframe for that peer": once    *)
(* overflow has dropped a unit, a later delta unit is sent only after a      *)
(* keyframe that follows the dropped one.                                    *)
DropWaitsForKeyframe ==
    [][sent' # sent /\ ~sent'.key /\ lost < sent'.n => lost <= sentkey]_vars

(* No media worker outlives its session: once close_with_reason has returned *)
(* the loop has ended, media_running_ stays off and nothing is sent.         *)
ClosedIsQuiet == closer = "closed" => worker \in {"none", "done"} /\ ~running

(* close_with_reason returns: the join is not held up by a queue without     *)
(* units, by a track that never opens or by a refused send.                  *)
CloseReturns == (closer = "claimed") ~> (closer = "closed")
=============================================================================

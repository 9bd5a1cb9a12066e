-------------------------- MODULE WebSocketSession --------------------------
(* WebSocketSession (web/websocket_session.cpp) with its EventInbox and      *)
(* EventQueue (events.cpp): the effect of each handler on the session, as    *)
(* operators on one record.  Events are not told apart, so a queue is its    *)
(* length; what a full queue drops is then not visible.                      *)
EXTENDS Integers

CONSTANTS InboxCapacity, OutgoingCapacity   \* of incoming_ and outgoing_

ASSUME CapacityAssumption == /\ InboxCapacity \in Nat \ {0}
                             /\ OutgoingCapacity \in Nat \ {0}

Least(a, b) == IF a <= b THEN a ELSE b

NewSession ==
    [inbox |-> 0, scheduled |-> FALSE,  \* incoming_: its events, drain_scheduled_
     drains |-> 0,                      \* drain handlers that are posted
     outgoing |-> 0, writing |-> FALSE, \* outgoing_; writing_ is not empty
     ops |-> 0,                         \* writes and closes in progress
     timer |-> "off",                   \* status_timer_: "off", "armed", "due"
     subscribed |-> FALSE, registered |-> FALSE,
     stopping |-> FALSE, closing |-> FALSE, closed |-> FALSE]

(* EventInbox::push: the caller posts a drain if none was scheduled. *)
inbox_push(s) == [s EXCEPT !.inbox = Least(@ + 1, InboxCapacity), !.scheduled = TRUE]

(* write_next. *)
write_next(s) == IF s.outgoing = 0 THEN s
                 ELSE [s EXCEPT !.outgoing = @ - 1, !.writing = TRUE, !.ops = @ + 1]

(* enqueue. *)
enqueue(s) ==
    LET grown == [s EXCEPT !.outgoing = Least(@ + 1, OutgoingCapacity)]
    IN  IF s.closed \/ s.stopping THEN s
        ELSE IF s.writing THEN grown ELSE write_next(grown)

(* enqueue, n times: the first event is written unless a write is going on,  *)
(* and the others wait behind it.                                            *)
enqueueAll(s, n) ==
    IF n = 0 \/ s.closed \/ s.stopping THEN s
    ELSE [enqueue(s) EXCEPT !.outgoing = Least(@ + n - 1, OutgoingCapacity)]

(* Mutant of drain: the flag is left set. *)
drain_KeepFlag(s) == [s EXCEPT !.inbox = 0]

(* EventInbox::drain. *)
drain(s) == [s EXCEPT !.inbox = 0, !.scheduled = FALSE]

(* drain_incoming, a handler that was posted. *)
drain_incoming(s) == enqueueAll([drain(s) EXCEPT !.drains = @ - 1], s.inbox)

(* status_timer_.cancel(): an expiry whose handler is queued already stays. *)
cancel(timer) == IF timer = "armed" THEN "off" ELSE timer

cleanup(s) == [s EXCEPT !.closed = TRUE, !.registered = FALSE, !.timer = cancel(@),
                        !.subscribed = FALSE]

begin_close(s) == IF s.closed \/ s.closing THEN s
                  ELSE [s EXCEPT !.closing = TRUE, !.ops = @ + 1]

(* on_accept: the channel, the first two events, the timer and the reader. *)
on_accept(s) == [enqueue(enqueue([s EXCEPT !.subscribed = TRUE, !.registered = TRUE]))
                 EXCEPT !.timer = "armed"]

(* The completion of a write. *)
on_write(s, error) ==
    LET done == [s EXCEPT !.ops = @ - 1]
    IN  IF error THEN cleanup(done)
        ELSE IF s.stopping THEN begin_close([done EXCEPT !.writing = FALSE])
        ELSE write_next([done EXCEPT !.writing = FALSE])

(* The completion of the close. *)
on_close(s) == cleanup([s EXCEPT !.ops = @ - 1])

(* The timer of schedule_status, which sets itself again, also after stop. *)
on_timer(s) == IF s.closed THEN [s EXCEPT !.timer = "off"]
               ELSE [enqueue(s) EXCEPT !.timer = "armed"]

(* Mutant of stop: the close does not wait for the write in progress. *)
stop_AtOnce(s) ==
    IF s.closed \/ s.stopping THEN s
    ELSE begin_close([s EXCEPT !.stopping = TRUE, !.timer = cancel(@), !.subscribed = FALSE])

stop(s) ==
    LET quiet == [s EXCEPT !.stopping = TRUE, !.timer = cancel(@), !.subscribed = FALSE]
    IN  IF s.closed \/ s.stopping THEN s
        ELSE IF s.writing THEN quiet ELSE begin_close(quiet)
=============================================================================

----------------------------- MODULE HttpServer -----------------------------
(* The web server (web/http_server.cpp): connections handled by the single   *)
(* thread of an io_context, WHEP offers answered by a pool of threads, Web-  *)
(* Socket sessions fed by publishers of the EventChannel (events.cpp), and   *)
(* the thread that stops the server.  A handler is one step of the io thread.*)
(* WebRtcManager enters as the set of its sessions: module WebRtcManager has *)
(* its own model.  Requests differ in the path they take through on_read.    *)
EXTENDS WebSocketSession, FiniteSets

CONSTANTS Conns, Publishers,
          PoolThreads,        \* threads of signaling_pool
          SignalingLimit      \* signaling_limit

ASSUME ServerAssumption == /\ PoolThreads \in Nat \ {0} /\ SignalingLimit \in Nat \ {0}
                           /\ IsFiniteSet(Conns)

VARIABLES io,        \* the context: "running", "stopped", "gone" (destroyed)
          acceptor,  \* the acceptor is open
          owner,     \* the stopping thread: "up", "post", "join", "down"
          posted,    \* the stop handler: "no", "posted", "timer"
          conn,      \* where each connection is
          response,  \* and the response it is to send: "created" or "other"
          ws,        \* its WebSocketSession, once upgraded
          jobs,      \* signaling_jobs
          peers, shut,   \* WebRtcManager: sessions of connections; it is shut down
          pub        \* publishers: the copied subscribers left, the session in hand
vars == << io, acceptor, owner, posted, conn, response, ws, jobs, peers, shut, pub >>

server  == << acceptor, owner, posted >>
webrtc  == << peers, shut >>
traffic == << conn, response, jobs >>

Idle == [left |-> {}, hand |-> {}]

Init == /\ io = "running" /\ acceptor = TRUE /\ owner = "up" /\ posted = "no"
        /\ conn = [c \in Conns |-> "none"] /\ response = [c \in Conns |-> "other"]
        /\ ws = [c \in Conns |-> NewSession] /\ jobs = 0
        /\ peers = {} /\ shut = FALSE /\ pub = [p \in Publishers |-> Idle]

In(s)     == {c \in Conns : conn[c] \in s}
Handler   == io = "running"      \* the io thread takes a handler
-----------------------------------------------------------------------------
(* HttpSession. *)
Accept(c) ==
    /\ Handler /\ acceptor /\ conn[c] = "none"
    /\ conn' = [conn EXCEPT ![c] = "reading"]
    /\ UNCHANGED << io, server, response, ws, jobs, webrtc, pub >>

(* on_read of anything but an offer, a DELETE or an upgrade: an error closes,*)
(* other requests are answered at once.                                      *)
OnRead(c, next) ==
    /\ Handler /\ conn[c] = "reading" /\ next \in {"closed", "writing"}
    /\ conn' = [conn EXCEPT ![c] = next]
    /\ UNCHANGED << io, server, response, ws, jobs, webrtc, pub >>

(* DELETE of the session that d's offer created: route_request closes it on  *)
(* the io thread, and answers 204, or 404 if it is gone.  Its id is known    *)
(* once the 201 is on its way.                                               *)
Delete(c, d) ==
    /\ Handler /\ conn[c] = "reading" /\ response[d] = "created" /\ conn[d] \in {"writing", "closed"}
    /\ conn' = [conn EXCEPT ![c] = "writing"] /\ peers' = peers \ {d}
    /\ UNCHANGED << io, server, response, ws, jobs, shut, pub >>

Upgrade(c) ==
    /\ Handler /\ conn[c] = "reading"
    /\ conn' = [conn EXCEPT ![c] = "accepting"]
    /\ UNCHANGED << io, server, response, ws, jobs, webrtc, pub >>

(* dispatch_whep: a job, or 429 at once; the counter is back where it was. *)
Dispatch(c) ==
    /\ Handler /\ conn[c] = "reading"
    /\ IF jobs >= SignalingLimit
       THEN UNCHANGED jobs /\ conn' = [conn EXCEPT ![c] = "writing"]
       ELSE jobs' = jobs + 1 /\ conn' = [conn EXCEPT ![c] = "job"]
    /\ UNCHANGED << io, server, response, ws, webrtc, pub >>

(* A pool thread takes the job: route_request asks the manager for a session.*)
TakeJob(c) ==
    /\ conn[c] = "job" /\ io # "gone" /\ Cardinality(In({"routing", "routed"})) < PoolThreads
    /\ conn' = [conn EXCEPT ![c] = "routing"]
    /\ UNCHANGED << io, server, response, ws, jobs, webrtc, pub >>

Route(c) ==
    /\ conn[c] = "routing" /\ conn' = [conn EXCEPT ![c] = "routed"]
    /\ \/ /\ ~shut /\ peers' = peers \cup {c}
          /\ response' = [response EXCEPT ![c] = "created"]
       \/ UNCHANGED << peers, response >>
    /\ UNCHANGED << io, server, ws, jobs, shut, pub >>

(* The job ends: fetch_sub, and send is posted to the io thread. *)
Answer(c) ==
    /\ conn[c] = "routed" /\ jobs' = jobs - 1
    /\ conn' = [conn EXCEPT ![c] = "answer"]
    /\ UNCHANGED << io, server, response, ws, webrtc, pub >>

Send(c) ==
    /\ Handler /\ conn[c] = "answer"
    /\ conn' = [conn EXCEPT ![c] = "writing"]
    /\ UNCHANGED << io, server, response, ws, jobs, webrtc, pub >>

(* Mutant of Written: nobody looks after a session whose 201 was not sent. *)
Written_Forget(c, error) ==
    /\ Handler /\ conn[c] = "writing"
    /\ conn' = [conn EXCEPT ![c] = IF error THEN "failed" ELSE "closed"]
    /\ UNCHANGED << io, server, response, ws, jobs, webrtc, pub >>

(* The completion of the write; a session that could not be announced is     *)
(* closed again.                                                             *)
Written(c, error) ==
    /\ Handler /\ conn[c] = "writing"
    /\ conn' = [conn EXCEPT ![c] = IF error THEN "failed" ELSE "closed"]
    /\ peers' = IF error /\ response[c] = "created" THEN peers \ {c} ELSE peers
    /\ UNCHANGED << io, server, response, ws, jobs, shut, pub >>
-----------------------------------------------------------------------------
(* The handlers of a WebSocket session. *)
OnAccept(c, error) ==
    /\ Handler /\ conn[c] = "accepting"
    /\ conn' = [conn EXCEPT ![c] = "ws"]
    /\ ws' = [ws EXCEPT ![c] = IF error THEN cleanup(@) ELSE on_accept(@)]
    /\ UNCHANGED << io, server, response, jobs, webrtc, pub >>

Session(c, enabled, after) ==
    /\ Handler /\ conn[c] = "ws" /\ enabled /\ ws' = [ws EXCEPT ![c] = after]
    /\ UNCHANGED << io, server, traffic, webrtc, pub >>

Drain(c)        == Session(c, ws[c].drains > 0, drain_incoming(ws[c]))
OnWrite(c, e)   == Session(c, ws[c].ops > 0 /\ ~ws[c].closing, on_write(ws[c], e))
OnClose(c)      == Session(c, ws[c].ops > 0 /\ ws[c].closing, on_close(ws[c]))
Expires(c)      == Session(c, ws[c].timer = "armed", [ws[c] EXCEPT !.timer = "due"])
OnTimer(c)      == Session(c, ws[c].timer = "due", on_timer(ws[c]))
OnReadError(c)  == Session(c, ~ws[c].closed, cleanup(ws[c]))
-----------------------------------------------------------------------------
(* EventChannel::publish: the subscribers are copied under the mutex ... *)
Publish(p) ==
    /\ pub[p] = Idle
    /\ pub' = [pub EXCEPT ![p].left = {c \in Conns : ws[c].subscribed}]
    /\ UNCHANGED << io, server, traffic, ws, webrtc >>

(* ... and called without it.  A session that still exists takes the event.  *)
Deliver(p, c) ==
    /\ c \in pub[p].left /\ pub[p].hand = {}
    /\ \/ /\ io # "gone"
          /\ ws' = [ws EXCEPT ![c] = inbox_push(@)]
          /\ pub' = [pub EXCEPT ![p] = [left |-> @.left \ {c},
                                        hand |-> IF ws[c].scheduled THEN {} ELSE {c}]]
       \/ /\ io = "gone" \/ ws[c].closed
          /\ pub' = [pub EXCEPT ![p].left = @ \ {c}] /\ UNCHANGED ws
    /\ UNCHANGED << io, server, traffic, webrtc >>

(* The first event of a batch posts the drain. *)
PostDrain(p, c) ==
    /\ c \in pub[p].hand
    /\ ws' = [ws EXCEPT ![c].drains = IF io = "gone" THEN @ ELSE @ + 1]
    /\ pub' = [pub EXCEPT ![p].hand = {}]
    /\ UNCHANGED << io, server, traffic, webrtc >>
-----------------------------------------------------------------------------
(* stop: the manager is shut down first, which closes its sessions ... *)
StopWebRtc ==
    /\ owner = "up" /\ owner' = "post" /\ shut' = TRUE /\ peers' = {}
    /\ UNCHANGED << io, acceptor, posted, traffic, ws, pub >>

(* ... then a handler is posted ... *)
PostStop ==
    /\ owner = "post" /\ owner' = "join" /\ posted' = "posted"
    /\ UNCHANGED << io, acceptor, traffic, ws, webrtc, pub >>

(* Mutant of StopHandler: the context runs until the sessions have closed. *)
StopHandler_NoTimer ==
    /\ Handler /\ posted = "posted" /\ acceptor' = FALSE
    /\ LET open == {c \in Conns : ws[c].registered}
       IN  /\ ws' = [c \in Conns |-> IF c \in open THEN stop(ws[c]) ELSE ws[c]]
           /\ posted' = "no"
           /\ io' = IF open = {} THEN "stopped" ELSE io
    /\ UNCHANGED << owner, traffic, webrtc, pub >>

(* ... that ends the acceptor and the sessions: the context stops at once or *)
(* when a timer expires.                                                     *)
StopHandler ==
    /\ Handler /\ posted = "posted" /\ acceptor' = FALSE
    /\ LET open == {c \in Conns : ws[c].registered}
       IN  /\ ws' = [c \in Conns |-> IF c \in open THEN stop(ws[c]) ELSE ws[c]]
           /\ posted' = IF open = {} THEN "no" ELSE "timer"
           /\ io' = IF open = {} THEN "stopped" ELSE io
    /\ UNCHANGED << owner, traffic, webrtc, pub >>

StopTimer ==
    /\ Handler /\ posted = "timer" /\ posted' = "no" /\ io' = "stopped"
    /\ UNCHANGED << acceptor, owner, traffic, ws, webrtc, pub >>

(* wait: the io thread is joined; the pool ends its running jobs; what the   *)
(* context still holds is destroyed, and a WebSocketSession unsubscribes.    *)
Wait ==
    /\ owner = "join" /\ io = "stopped" /\ In({"routing", "routed"}) = {}
    /\ owner' = "down" /\ io' = "gone"
    /\ ws' = [c \in Conns |-> [ws[c] EXCEPT !.subscribed = FALSE, !.drains = 0]]
    /\ UNCHANGED << acceptor, posted, traffic, webrtc, pub >>

IoThread ==
    \/ \E c \in Conns :
          \/ Accept(c) \/ (\E next \in {"closed", "writing"} : OnRead(c, next)) \/ Upgrade(c)
          \/ Dispatch(c) \/ Send(c) \/ (\E d \in Conns : Delete(c, d))
          \/ Drain(c) \/ OnClose(c) \/ Expires(c) \/ OnTimer(c) \/ OnReadError(c)
          \/ \E error \in BOOLEAN : Written(c, error) \/ OnAccept(c, error) \/ OnWrite(c, error)
    \/ StopHandler \/ StopTimer

Pool == \E c \in Conns : TakeJob(c) \/ Route(c) \/ Answer(c)

Producer(p) == Publish(p) \/ \E c \in Conns : Deliver(p, c) \/ PostDrain(p, c)

Next == IoThread \/ Pool \/ (\E p \in Publishers : Producer(p))
        \/ StopWebRtc \/ PostStop \/ Wait

Spec == Init /\ [][Next]_vars

(* The io thread takes posted handlers and expired timers in turn; the pool  *)
(* and the stopping thread are scheduled.  Clients need not do anything.     *)
Fairness == /\ SF_vars(StopHandler) /\ SF_vars(StopTimer)
            /\ \A c \in Conns : WF_vars(TakeJob(c)) /\ WF_vars(Route(c)) /\ WF_vars(Answer(c))
            /\ WF_vars(PostStop) /\ WF_vars(Wait)

FairSpec == Spec /\ Fairness
-----------------------------------------------------------------------------
(* A WebSocket stream has at most one write or close in progress, as Beast   *)
(* requires, whichever of events, timer, completions and stop come together. *)
SingleWriter == \A c \in Conns : ws[c].ops <= 1

(* No event is stranded: an inbox that holds events has a drain posted or    *)
(* about to be posted by the producer that filled it, and output that is     *)
(* queued on an open session has a write in progress.                        *)
NoStrandedEvents ==
    io = "running" =>
    \A c \in Conns :
       /\ ws[c].inbox > 0 => ws[c].drains > 0 \/ \E p \in Publishers : c \in pub[p].hand
       /\ ws[c].outgoing > 0 /\ ~ws[c].closed /\ ~ws[c].stopping => ws[c].ops > 0

(* A WHEP session whose 201 did not reach the client is not left behind, nor *)
(* is any session when the server is down, whatever the pool was doing.      *)
NoLeakedPeer == /\ \A c \in peers : conn[c] # "failed"
                /\ owner = "down" => peers = {}

(* wait() returns although clients neither read, answer a close nor leave.   *)
ServerStops == (owner # "up") ~> (owner = "down")
=============================================================================

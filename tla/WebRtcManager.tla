--------------------------- MODULE WebRtcManager ----------------------------
(* skai::WebRtcManager (webrtc/webrtc_manager.cpp): who creates, lists,      *)
(* removes and closes WHEP sessions.  Signaling threads run create_session   *)
(* (one per session), clients DELETE, the cleanup worker reaps stale peers,  *)
(* the capture thread withdraws the media, and the main thread configures    *)
(* and shuts down.  Every remover takes sessions out of sessions_ under      *)
(* mutex_ and closes them after the unlock; `owner` says who still has to.   *)
(* A session's media loop is its worker here and module WhepMedia in detail. *)
EXTENDS Naturals, FiniteSets

CONSTANTS Sessions,   \* the sessions ever created, each with its signaling thread
          MaxPeers,   \* max_peers_
          RecentMax   \* length limit of recently_closed_

ASSUME SessionsAssumption ==
    /\ IsFiniteSet(Sessions)
    /\ Sessions \cap {"client", "cleanup", "capture", "main", "none"} = {}
ASSUME MaxPeersAssumption == MaxPeers \in Nat \ {0}
ASSUME RecentAssumption == RecentMax \in Nat \ {0}

VARIABLES main,       \* the thread that configures and shuts down
          stopping,   \* stopping_ (enabled_ is its negation in every state)
          available,  \* media_available_
          sessions,   \* keys of sessions_
          created, closed, recent,   \* sessions_created_, sessions_closed_ and
                                     \* recently_closed_.size()
          cleanup,    \* the cleanup worker
          capture,    \* the capture thread in set_media_available
          creator,    \* the signaling thread of each session
          owner,      \* the thread that removed a session and closes it
          started,    \* sessions whose cleanup_started_ is set
          failed,     \* sessions whose peer has failed or been closed remotely
          connected,  \* sessions whose peer has connected
          worker      \* the media worker of each session
vars == << main, stopping, available, sessions, created, closed, recent, cleanup,
           capture, creator, owner, started, failed, connected, worker >>

Agents == {"client", "cleanup", "capture", "main"}
counters == << created, closed, recent >>
peers    == << started, failed, connected, worker >>

Init == /\ main = "down" /\ stopping = TRUE /\ available = TRUE
        /\ sessions = {} /\ created = 0 /\ closed = 0 /\ recent = 0
        /\ cleanup = "none" /\ capture = "idle"
        /\ creator = [s \in Sessions |-> "idle"]
        /\ owner = [s \in Sessions |-> "none"]
        /\ started = {} /\ failed = {} /\ connected = {}
        /\ worker = [s \in Sessions |-> "none"]

(* Take the sessions S out of sessions_ and count them; t closes them. *)
Remove(S, t) == /\ sessions' = sessions \ S
                /\ closed' = closed + Cardinality(S)
                /\ owner' = [s \in Sessions |-> IF s \in S THEN t ELSE owner[s]]

Owns(t) == \E s \in Sessions : owner[s] = t

(* A peer with an answer, whose connection timeout is running. *)
Answered(s) == creator[s] \in {"answered", "activating", "deleting", "created"}

(* Mutant of Stale: only the connection timeout makes a session stale. *)
Stale_TimeoutOnly(S) == /\ S \subseteq sessions
                        /\ \A s \in S : Answered(s) /\ s \notin connected

(* stale_reason is not empty: failed or closed, or an answered peer that is  *)
(* not connected, once its connection timeout has passed.                    *)
Stale(S) == /\ S \subseteq sessions
            /\ sessions \cap (failed \cup started) \subseteq S
            /\ \A s \in S : s \in failed \cup started \/ (Answered(s) /\ s \notin connected)
-----------------------------------------------------------------------------
(* remember_closed: close_with_reason claims the cleanup ... *)
CloseClaim(s) == /\ owner[s] # "none" /\ s \notin started
                 /\ started' = started \cup {s}
                 /\ UNCHANGED << main, stopping, available, sessions, counters, cleanup,
                                 capture, creator, owner, failed, connected, worker >>

(* ... joins the media worker and drops the peer, and a snapshot joins       *)
(* recently_closed_.                                                         *)
CloseJoin(s) == /\ owner[s] # "none" /\ s \in started /\ worker[s] # "running"
                /\ owner' = [owner EXCEPT ![s] = "none"]
                /\ recent' = IF recent = RecentMax THEN recent ELSE recent + 1
                /\ failed' = failed \ {s} /\ connected' = connected \ {s}
                /\ UNCHANGED << main, stopping, available, sessions, created, closed,
                                cleanup, capture, creator, started, worker >>

(* The media worker ends once its session is closed, or on a refused send,   *)
(* which marks the session failed.                                           *)
WorkerEnds(s) == /\ worker[s] = "running"
                 /\ worker' = [worker EXCEPT ![s] = "done"]
                 /\ failed' = IF s \in started THEN failed ELSE failed \cup {s}
                 /\ UNCHANGED << main, stopping, available, sessions, counters, cleanup,
                                 capture, creator, owner, started, connected >>

(* The peer's callbacks, which are reset when the session closes. *)
PeerChange(s) == /\ s \in sessions \/ owner[s] # "none"
                 /\ s \notin started
                 /\ \/ Answered(s) /\ connected' = connected \cup {s} /\ UNCHANGED failed
                    \/ failed' = failed \cup {s} /\ UNCHANGED connected
                 /\ UNCHANGED << main, stopping, available, sessions, counters, cleanup,
                                 capture, creator, owner, started, worker >>
-----------------------------------------------------------------------------
Continue(s, label) == creator' = [creator EXCEPT ![s] = label]

(* create_session first runs cleanup_stale_sessions itself. *)
CreateCleanup(s) ==
    /\ creator[s] = "idle"
    /\ \E S \in SUBSET sessions : Stale(S) /\ Remove(S, s)
    /\ Continue(s, "cleaning")
    /\ UNCHANGED << main, stopping, available, created, recent, cleanup, capture, peers >>

(* Mutant of CreateInsert: the capacity check admits one peer too many. *)
CreateInsert_OffByOne(s) ==
    /\ creator[s] = "cleaning" /\ ~Owns(s)
    /\ \/ Continue(s, "refused") /\ UNCHANGED << sessions, created >>
       \/ /\ ~stopping /\ available /\ Cardinality(sessions) <= MaxPeers
          /\ sessions' = sessions \cup {s} /\ created' = created + 1
          /\ Continue(s, "offering")
    /\ UNCHANGED << main, stopping, available, closed, recent, cleanup, capture, owner,
                    peers >>

(* Mutant of CreateInsert: stopping_ is not looked at. *)
CreateInsert_Stopping(s) ==
    /\ creator[s] = "cleaning" /\ ~Owns(s)
    /\ \/ Continue(s, "refused") /\ UNCHANGED << sessions, created >>
       \/ /\ available /\ Cardinality(sessions) < MaxPeers
          /\ sessions' = sessions \cup {s} /\ created' = created + 1
          /\ Continue(s, "offering")
    /\ UNCHANGED << main, stopping, available, closed, recent, cleanup, capture, owner,
                    peers >>

(* The admission checks and the insertion; without a peer nothing is kept. *)
CreateInsert(s) ==
    /\ creator[s] = "cleaning" /\ ~Owns(s)
    /\ \/ Continue(s, "refused") /\ UNCHANGED << sessions, created >>
       \/ /\ ~stopping /\ available /\ Cardinality(sessions) < MaxPeers
          /\ sessions' = sessions \cup {s} /\ created' = created + 1
          /\ Continue(s, "offering")
    /\ UNCHANGED << main, stopping, available, closed, recent, cleanup, capture, owner,
                    peers >>

(* accept_offer has failed: the session is removed unless another thread     *)
(* already has.                                                              *)
OfferFails(s) ==
    \/ s \in sessions /\ Remove({s}, s) /\ Continue(s, "dropping")
    \/ s \notin sessions /\ Continue(s, "refused") /\ UNCHANGED << sessions, closed, owner >>

(* accept_offer: the first H.264 medium of the offer becomes a track of the  *)
(* peer, which gathers candidates for the answer.  An offer that cannot be   *)
(* parsed, sends, or has no such medium is invalid; the library may throw.   *)
AcceptOffer(s) ==
    /\ creator[s] = "offering"
    /\ \/ s \notin started /\ Continue(s, "gathering") /\ UNCHANGED << sessions, closed, owner >>
       \/ OfferFails(s)
    /\ UNCHANGED << main, stopping, available, created, recent, cleanup, capture, peers >>

(* accept_offer, after the wait for the description: the answer, or a        *)
(* gathering timeout, no answer, or a peer that has failed or been closed.   *)
AwaitAnswer(s) ==
    /\ creator[s] = "gathering"
    /\ \/ /\ s \notin started \cup failed
          /\ Continue(s, "answered") /\ UNCHANGED << sessions, closed, owner >>
       \/ OfferFails(s)
    /\ UNCHANGED << main, stopping, available, created, recent, cleanup, capture, peers >>

(* The second look under mutex_: a session that may no longer live is closed *)
(* there (it has no worker yet) and left to whoever removes it.              *)
CreateCheck(s) ==
    /\ creator[s] = "answered"
    /\ IF ~stopping /\ available /\ s \in sessions
       THEN Continue(s, "activating") /\ UNCHANGED started
       ELSE Continue(s, "refused") /\ started' = started \cup {s}
    /\ UNCHANGED << main, stopping, available, sessions, counters, cleanup, capture, owner,
                    failed, connected, worker >>

(* Mutant of ActivateMedia: cleanup_started_ is not looked at. *)
ActivateMedia_Unchecked(s) ==
    /\ creator[s] = "activating"
    /\ \/ worker' = [worker EXCEPT ![s] = "running"] /\ Continue(s, "created")
       \/ Continue(s, "deleting") /\ UNCHANGED worker
    /\ UNCHANGED << main, stopping, available, sessions, counters, cleanup, capture, owner,
                    started, failed, connected >>

(* activate_media starts the worker; a closed session, or no thread, ends in *)
(* close_session.                                                            *)
ActivateMedia(s) ==
    /\ creator[s] = "activating"
    /\ \/ /\ s \notin started
          /\ worker' = [worker EXCEPT ![s] = "running"] /\ Continue(s, "created")
       \/ Continue(s, "deleting") /\ UNCHANGED worker
    /\ UNCHANGED << main, stopping, available, sessions, counters, cleanup, capture, owner,
                    started, failed, connected >>

(* close_session by the signaling thread itself, and its return. *)
CreateDelete(s) ==
    /\ creator[s] = "deleting"
    /\ IF s \in sessions THEN Remove({s}, s) /\ Continue(s, "dropping")
       ELSE Continue(s, "refused") /\ UNCHANGED << sessions, closed, owner >>
    /\ UNCHANGED << main, stopping, available, created, recent, cleanup, capture, peers >>

CreateReturn(s) == /\ creator[s] = "dropping" /\ owner[s] # s
                   /\ Continue(s, "refused")
                   /\ UNCHANGED << main, stopping, available, sessions, counters, cleanup,
                                   capture, owner, peers >>
-----------------------------------------------------------------------------
(* close_session for a client's DELETE. *)
CloseSession(s) == /\ s \in sessions
                   /\ Remove({s}, "client")
                   /\ UNCHANGED << main, stopping, available, created, recent, cleanup,
                                   capture, creator, peers >>

(* cleanup_loop: a round of cleanup_stale_sessions, which it runs unlocked. *)
CleanupStale ==
    /\ cleanup = "round"
    /\ \E S \in SUBSET sessions : Stale(S) /\ Remove(S, "cleanup")
    /\ cleanup' = "closing"
    /\ UNCHANGED << main, stopping, available, created, recent, capture, creator, peers >>

(* Mutant of CleanupLoop: stopping_ does not end the loop. *)
CleanupLoop_NoExit ==
    /\ \/ cleanup = "waiting" /\ ~stopping /\ cleanup' = "round"
       \/ cleanup = "closing" /\ ~Owns("cleanup") /\ cleanup' = "waiting"
    /\ UNCHANGED << main, stopping, available, sessions, counters, capture, creator, owner,
                    peers >>

(* Around a round: the wait times out, or sees stopping_ and ends the loop.  *)
CleanupLoop ==
    /\ \/ cleanup = "waiting" /\ cleanup' = IF stopping THEN "exited" ELSE "round"
       \/ cleanup = "closing" /\ ~Owns("cleanup") /\ cleanup' = "waiting"
    /\ UNCHANGED << main, stopping, available, sessions, counters, capture, creator, owner,
                    peers >>

(* set_media_available: without media every session is removed and closed by *)
(* the capture thread, which returns afterwards.                             *)
SetMediaAvailable(a) ==
    /\ capture = "idle" /\ ~(a /\ available)
    /\ available' = a
    /\ IF a THEN UNCHANGED << sessions, closed, owner, capture >>
       ELSE Remove(sessions, "capture") /\ capture' = "closing"
    /\ UNCHANGED << main, stopping, created, recent, cleanup, creator, peers >>

CaptureReturn == /\ capture = "closing" /\ ~Owns("capture")
                 /\ capture' = "idle"
                 /\ UNCHANGED << main, stopping, available, sessions, counters, cleanup,
                                 creator, owner, peers >>
-----------------------------------------------------------------------------
(* configure with WebRTC enabled, after the shutdown it begins with. *)
Configure == /\ main = "down"
             /\ main' = "up" /\ stopping' = FALSE /\ cleanup' = "waiting"
             /\ UNCHANGED << available, sessions, counters, capture, creator, owner, peers >>

(* shutdown: raise the flag and wake the worker, ... *)
ShutdownBegin == /\ main = "up"
                 /\ main' = "joining" /\ stopping' = TRUE
                 /\ UNCHANGED << available, sessions, counters, cleanup, capture, creator,
                                 owner, peers >>

(* ... join the cleanup worker, remove every session, ... *)
ShutdownDrain ==
    /\ main = "joining" /\ cleanup = "exited"
    /\ main' = "draining" /\ cleanup' = "none"
    /\ Remove(sessions, "main")
    /\ UNCHANGED << stopping, available, created, recent, capture, creator, peers >>

(* ... and return when they are closed. *)
ShutdownReturn == /\ main = "draining" /\ ~Owns("main")
                  /\ main' = "down"
                  /\ UNCHANGED << stopping, available, sessions, counters, cleanup, capture,
                                  creator, owner, peers >>

Closing(s)  == CloseClaim(s) \/ CloseJoin(s)
Creating(s) == \/ CreateInsert(s) \/ AcceptOffer(s) \/ AwaitAnswer(s) \/ CreateCheck(s)
               \/ ActivateMedia(s) \/ CreateDelete(s) \/ CreateReturn(s)

Next == \/ \E s \in Sessions : \/ Closing(s) \/ Creating(s) \/ CreateCleanup(s)
                               \/ WorkerEnds(s) \/ PeerChange(s) \/ CloseSession(s)
        \/ CleanupStale \/ CleanupLoop
        \/ \E a \in BOOLEAN : SetMediaAvailable(a)
        \/ CaptureReturn
        \/ Configure \/ ShutdownBegin \/ ShutdownDrain \/ ShutdownReturn

Spec == Init /\ [][Next]_vars

(* Every thread inside a call goes on, a closed session's worker ends (shown *)
(* by CloseReturns of WhepMedia), and the cleanup worker's waits time out.   *)
Fairness == /\ \A s \in Sessions : /\ WF_vars(Closing(s)) /\ WF_vars(Creating(s))
                                   /\ WF_vars(s \in started /\ WorkerEnds(s))
            /\ WF_vars(CleanupStale \/ CleanupLoop) /\ WF_vars(CaptureReturn)
            /\ WF_vars(ShutdownDrain \/ ShutdownReturn)

FairSpec == Spec /\ Fairness
-----------------------------------------------------------------------------
(* The types of the manager's, the sessions' and the threads' state. *)
TypeOK == /\ main \in {"down", "up", "joining", "draining"}
          /\ stopping \in BOOLEAN /\ available \in BOOLEAN
          /\ sessions \in SUBSET Sessions
          /\ {created, closed} \subseteq Nat /\ recent \in 0 .. RecentMax
          /\ cleanup \in {"none", "waiting", "round", "closing", "exited"}
          /\ capture \in {"idle", "closing"}
          /\ creator \in [Sessions -> {"idle", "cleaning", "offering", "gathering",
                                       "answered", "activating", "deleting", "dropping",
                                       "created", "refused"}]
          /\ owner \in [Sessions -> Sessions \cup Agents \cup {"none"}]
          /\ started \in SUBSET Sessions /\ failed \in SUBSET Sessions
          /\ connected \in SUBSET Sessions
          /\ worker \in [Sessions -> {"none", "running", "done"}]

(* sessions_ never holds more than max_peers_, and every session counted in  *)
(* sessions_created_ is listed or counted in sessions_closed_, once, however *)
(* many threads tried to remove it.                                          *)
PeersAccounted == /\ Cardinality(sessions) <= MaxPeers
                  /\ created = closed + Cardinality(sessions)

(* A media worker always has somebody who will join it: its session is still *)
(* listed, or the thread that removed it has yet to close it.                *)
NoOrphanWorker == \A s \in Sessions : worker[s] = "running" =>
                     s \in sessions \/ owner[s] # "none"

(* Without media there is no session to deliver to. *)
UnavailableIsEmpty == ~available => sessions = {}

(* When shutdown has returned, no session is listed, no cleanup worker runs, *)
(* and no signaling thread can list one any more.                            *)
ShutdownIsFinal == main = "down" => /\ sessions = {} /\ cleanup = "none"
                                    /\ ~Owns("main") /\ ~Owns("cleanup")

(* A failed peer is reaped by somebody. *)
FailedIsReaped == \A s \in Sessions : (s \in sessions /\ s \in failed) ~> (s \notin sessions)

(* shutdown returns, whatever the other threads are in the middle of. *)
ShutdownReturns == (main = "joining") ~> (main = "down")
=============================================================================

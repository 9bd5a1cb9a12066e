--------------------------- MODULE HealthWatchdog ---------------------------
(* HealthWatchdog (health.cpp): a thread polls the probes of the components  *)
(* and keeps what they say; a request for /health reads it.  Of the eight    *)
(* probes that runtime.cpp registers the database's is here, a critical one; *)
(* the others are taken to be well.                                          *)
EXTENDS Naturals

VARIABLE wd    \* pc of the thread, lifecycle_, stopping_, what the running tick has
               \* seen, what the last one kept, and whether that is recent

NewWatchdog == [pc |-> "off", lifecycle |-> "starting", stopping |-> FALSE, fresh |-> TRUE,
                seen |-> "starting", health |-> "starting"]

database_health(error) == IF error THEN "failed" ELSE "running"

(* snapshot: what /health answers.  What was kept is void after two seconds, *)
(* and while the lifecycle is another it alone counts.                       *)
Overall ==
    IF wd.lifecycle # "running" THEN wd.lifecycle
    ELSE IF wd.fresh THEN wd.health ELSE "failed"

Polls(p) == wd.pc = p

(* start: the first tick runs before the lifecycle is Running. *)
StartWatchdog == Polls("off") /\ wd' = [wd EXCEPT !.pc = "sleep"]

(* tick, at once or half a second after the last one: a probe is asked with- *)
(* out the lock, ...                                                         *)
Probe(health) ==
    Polls("sleep") /\ ~wd.stopping /\ wd' = [wd EXCEPT !.pc = "keep", !.seen = health]

(* ... and what it said is kept under it. *)
KeepHealth ==
    /\ Polls("keep")
    /\ wd' = [wd EXCEPT !.pc = "sleep", !.health = wd.seen, !.fresh = TRUE,
                        !.seen = NewWatchdog.seen,
                        !.lifecycle = IF @ = "starting" THEN "running" ELSE @]

EndWatchdog ==
    /\ Polls("sleep") /\ wd.stopping
    /\ wd' = [wd EXCEPT !.pc = "done", !.health = NewWatchdog.health, !.fresh = TRUE]

(* A tick is held up for two seconds. *)
GoStale ==
    /\ Polls("keep") /\ wd.fresh /\ wd.lifecycle = "running"
    /\ wd' = [wd EXCEPT !.fresh = FALSE]

StopWatchdog == wd' = [wd EXCEPT !.stopping = TRUE, !.lifecycle = "stopping"]
=============================================================================

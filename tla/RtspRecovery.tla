---------------------------- MODULE RtspRecovery ----------------------------
(* RtspRecovery (video/rtsp_recovery.hpp): the frame-freshness and retry     *)
(* policy of the RTSP worker, as operators on one record.  Time points are   *)
(* left out: lossy says that degraded_until_ lies ahead, delay is next_retry_*)
(* less the time of the failure.  failure_streak_ saturates at MaxStreak.    *)
EXTENDS Integers

CONSTANTS ReconnectDelay,      \* reconnect_delay_
          MaxReconnectDelay,   \* max_reconnect_delay_
          MaxStreak            \* bound on failure_streak_

ASSUME DelayAssumption == /\ ReconnectDelay \in Nat \ {0}
                          /\ MaxReconnectDelay \in Nat \ {0}
ASSUME StreakAssumption == MaxStreak \in Nat \ {0}

Smaller(a, b) == IF a <= b THEN a ELSE b

Healthy == {"Connected", "Degraded"}

begin == [health |-> "Connecting", lossy |-> FALSE, streak |-> 0, delay |-> 0]

frame(r) == [r EXCEPT !.health = IF r.lossy THEN "Degraded" ELSE "Connected",
                      !.streak = 0]

packet_loss(r) == IF r.health \in Healthy
                  THEN [r EXCEPT !.health = "Degraded", !.lossy = TRUE] ELSE r

(* Mutant of may_stall: a lossy source is not watched. *)
may_stall_Degraded(r) == r.health = "Connected"

(* check_stall can only find a stall of a source that delivers. *)
may_stall(r) == r.health \in Healthy

stall(r) == [r EXCEPT !.health = "Stalled"]

(* The loop of fail: the delay after n - 1 doublings, left at the maximum. *)
Delay[n \in Nat] ==
    IF n <= 1 THEN ReconnectDelay
    ELSE IF n > 2 /\ Delay[n - 1] >= MaxReconnectDelay THEN Delay[n - 1]
    ELSE Smaller(2 * Delay[n - 1], MaxReconnectDelay)

fail(r) ==
    LET n == Smaller(r.streak + 1, MaxStreak)
    IN  [health |-> "Reconnecting", lossy |-> FALSE, streak |-> n,
         delay |-> Smaller(Delay[n], MaxReconnectDelay)]

(* retry, once it is due. *)
retry(r) == [r EXCEPT !.health = "Connecting"]

stop(r) == [r EXCEPT !.health = "Stopped"]
=============================================================================

---------------------------- MODULE WhipRtpClock ----------------------------
(* WhipRtpClock (webrtc/whip_policy.cpp): the RTP timestamps of one WHIP     *)
(* session, continued over restarts of the source whose PTS begin again near *)
(* zero.  Timestamps are kept modulo a small Modulus for 2^32, and the other *)
(* constants are scaled down with it.                                        *)
EXTENDS Integers

CONSTANTS Modulus,       \* of the 32-bit timestamps
          TicksPerUnit,  \* RTP ticks in one unit of PTS
          FrameTicks,    \* the assumed frame interval, 3000
          MaxStep        \* the longest interval that is learned, 9000

ASSUME ClockAssumption == /\ {Modulus, MaxStep} \subseteq Nat /\ TicksPerUnit \in Nat \ {0}
                          /\ FrameTicks \in 1 .. MaxStep /\ 2 * MaxStep < Modulus

None == -1

h264_rtp_timestamp(pts) == (pts * TicksPerUnit) % Modulus

(* The conversion to std::int32_t. *)
Signed(x) == IF 2 * x < Modulus THEN x ELSE x - Modulus

NewClock(start) == [start |-> start, offset |-> 0, last |-> 0, frame_ticks |-> FrameTicks,
                    last_pts |-> None, generation |-> 0, has_last |-> FALSE]

(* Mutant of Anchor: the anchor survives a restart of the source. *)
Anchor_Kept(c, gen) == c.last_pts

(* last_pts_ticks_, forgotten when the generation changes. *)
Anchor(c, gen) == IF c.has_last /\ gen # c.generation THEN None ELSE c.last_pts

(* timestamp: the clock after the call, whose last is the returned value. *)
timestamp(c, gen, has_pts, pts) ==
    LET anchor == Anchor(c, gen)
        next   == IF c.has_last THEN (c.last + c.frame_ticks) % Modulus ELSE c.start
        ticks  == h264_rtp_timestamp(pts)
        step   == Signed((ticks - anchor) % Modulus)
        offset == IF c.has_last /\ anchor = None THEN (next - ticks) % Modulus ELSE c.offset
        base   == [c EXCEPT !.generation = gen, !.has_last = TRUE]
    IN  IF has_pts
        THEN [base EXCEPT !.offset = offset, !.last_pts = ticks,
                          !.last = (ticks + offset) % Modulus,
                          !.frame_ticks = IF anchor # None /\ step \in 1 .. MaxStep
                                          THEN step ELSE @]
        ELSE [base EXCEPT !.last = next, !.last_pts = anchor]
=============================================================================

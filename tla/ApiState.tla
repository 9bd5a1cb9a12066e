------------------------------ MODULE ApiState ------------------------------
(* The detector's part of ApiState (api_state.hpp) and of RuntimeStatus      *)
(* (status.hpp) as operators on one record.  Every method of ApiState holds  *)
(* its mutex, and each of them that touches the RuntimeStatus does so before *)
(* it lets go, so each is one change of the record.  Of RuntimeStatus's      *)
(* measurements only their availability is kept.                             *)
EXTENDS Integers

(* generation: detector_generation_; latest: whether a result is available,  *)
(* and the permit it was computed under; available and expected: the flags   *)
(* detector_available_ and detector_expected_ of RuntimeStatus.              *)
NoResult == [available |-> FALSE, permit |-> 0]

NewApi == [enabled |-> TRUE, supported |-> TRUE, generation |-> 0, latest |-> NoResult,
           available |-> FALSE, expected |-> FALSE]

clear_detector(s) == [s EXCEPT !.available = FALSE]

synchronize_runtime_status(s) == [clear_detector(s) EXCEPT !.expected = s.enabled]

(* ApiState::configure and set_detector_enabled: a new generation begins and *)
(* the last one's result is gone.                                            *)
configure(s) ==
    synchronize_runtime_status([s EXCEPT !.enabled = s.supported, !.generation = @ + 1,
                                         !.latest = NoResult])

set_detector_enabled(s, enabled) ==
    synchronize_runtime_status([s EXCEPT !.enabled = enabled /\ s.supported,
                                         !.generation = @ + 1, !.latest = NoResult])

(* Mutant of Current: a permit is good as long as the detector is enabled. *)
Current_EnabledOnly(s, permit) == s.enabled

(* The check that commit_detections and invalidate_detections share. *)
Current(s, permit) == s.enabled /\ permit = s.generation

commit_detections(s, permit) ==
    IF ~Current(s, permit) THEN s
    ELSE [s EXCEPT !.latest = [available |-> TRUE, permit |-> permit],
                   !.available = TRUE]

invalidate_detections(s, permit) ==
    IF ~Current(s, permit) THEN s ELSE clear_detector([s EXCEPT !.latest = NoResult])
=============================================================================

---------------------------- MODULE DetectionSei ----------------------------
(* SeiResultSelector (webrtc/detection_sei.cpp): which inference results ride*)
(* on the access unit that WHIP sends next.  A result is its generation, its *)
(* PTS and the scores of its boxes; of its JSON only the size is kept, and   *)
(* the statistics, which are only logged, are left out.                      *)
EXTENDS Integers, Sequences, Functions, TLC

CONSTANTS MaxPending,    \* max_pending_
          Window,        \* kResultWindowNs, in units of PTS
          MaxSeiBytes,   \* kMaxDetectionSeiBytes
          SeiOverhead, ResultBytes, BoxBytes   \* what the parts of a NAL cost

ASSUME SeiAssumption == MaxPending \in Nat \ {0} /\ SeiOverhead + ResultBytes <= MaxSeiBytes

(* (source_generation, source_pts_ns) in the order of std::tie. *)
Older(a, b) == a.gen < b.gen \/ (a.gen = b.gen /\ a.pts < b.pts)

(* add, on pending_: past max_pending_ the oldest result goes. *)
add(pending, r) ==
    LET grown  == Append(pending, r)
        oldest == CHOOSE i \in DOMAIN grown :
                     /\ \A j \in DOMAIN grown : ~Older(grown[j], grown[i])
                     /\ \A j \in 1 .. i - 1 : Older(grown[i], grown[j])
    IN  IF Len(grown) <= MaxPending THEN grown
        ELSE [i \in DOMAIN pending |-> grown[IF i < oldest THEN i ELSE i + 1]]

(* The size of encode_user_data_sei_nal(detection_sei_json(results)). *)
NalBytes(results) ==
    SeiOverhead
    + SumFunction([i \in DOMAIN results |-> ResultBytes + BoxBytes * Len(results[i].boxes)])

Prefix(r, n) == [r EXCEPT !.boxes = SubSeq(@, 1, n)]

(* The bisection: fits boxes fit, too_many do not. *)
Bisect(r) ==
    LET most[fits, too_many \in 0 .. Len(r.boxes)] ==
            LET count == (fits + too_many) \div 2
            IN  IF fits + 1 >= too_many THEN fits
                ELSE IF NalBytes(<< Prefix(r, count) >>) <= MaxSeiBytes
                     THEN most[count, too_many] ELSE most[fits, count]
    IN  most[0, Len(r.boxes)]

(* A result that alone is too large keeps its best boxes. *)
Trim(r) == LET best == [r EXCEPT !.boxes = SortSeq(@, LAMBDA a, b : a > b)]
           IN  Prefix(best, Bisect(best))

(* Mutant of IsDue: the generation of a result is not looked at. *)
IsDue_AnyGeneration(r, pts, gen) == r.pts <= pts /\ pts - r.pts <= Window

(* A result of the unit's own pipeline, not newer and inside the window. *)
IsDue(r, pts, gen) == r.gen = gen /\ r.pts <= pts /\ pts - r.pts <= Window

(* take_for: the results attached to a unit are the due ones, oldest first,  *)
(* shed from the front until they fit.                                       *)
take_for(pending, pts, gen) ==
    LET due   == SortSeq(SelectSeq(pending, LAMBDA r : IsDue(r, pts, gen)),
                         LAMBDA a, b : a.pts < b.pts)
        From(i) == SubSeq(due, i, Len(due))
        first == CHOOSE i \in DOMAIN due :
                    /\ NalBytes(From(i)) <= MaxSeiBytes \/ i = Len(due)
                    /\ \A j \in 1 .. i - 1 : NalBytes(From(j)) > MaxSeiBytes
    IN  IF due = << >> THEN << >>
        ELSE IF NalBytes(From(first)) <= MaxSeiBytes THEN From(first)
        ELSE << Trim(due[first]) >>

(* What stays in pending_: results whose pipeline's units are yet to be sent.*)
Later(pending, gen) == SelectSeq(pending, LAMBDA r : r.gen > gen)
=============================================================================

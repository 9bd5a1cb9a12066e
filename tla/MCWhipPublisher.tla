-------------------------- MODULE MCWhipPublisher --------------------------
(* Three units and one result, queues of one, two attempts and one failure:  *)
(* drops, restarts of the source, interrupted and abandoned sessions.        *)
EXTENDS WhipPublisher, SeiNal

Kind(key, has_pts, restart) == [key |-> key, has_pts |-> has_pts, restart |-> restart]
Stream == {Kind(TRUE, TRUE, FALSE), Kind(FALSE, TRUE, FALSE), Kind(TRUE, FALSE, FALSE),
           Kind(FALSE, TRUE, TRUE)}
Boxes == {<< 1, 3, 2 >>}

Strings(alphabet, n) == UNION {[1 .. k -> alphabet] : k \in 0 .. n}

(* What a decoder does: a 3 after two zeros is dropped. *)
Unescape(nal) ==
    FoldLeft(LAMBDA s, byte : IF s.zeros = 2 /\ byte = 3 THEN [s EXCEPT !.zeros = 0]
                              ELSE [out |-> Append(s.out, byte),
                                    zeros |-> IF byte = 0 THEN s.zeros + 1 ELSE 0],
             [out |-> << >>, zeros |-> 0], nal).out

(* The NAL unit holds no start code, and a decoder gets back what went in.   *)
ASSUME SeiIsTransparent ==
    \A bytes \in Strings({0, 1, 3, 4}, 6) :
        LET nal == escape(bytes)
        IN  /\ Unescape(nal) = bytes
            /\ \A i \in 1 .. Len(nal) - 2 :
                  ~(nal[i] = 0 /\ nal[i + 1] = 0 /\ nal[i + 2] <= 2)

(* The size can be read back: the sum of the bytes, only the last below 255. *)
ASSUME SizeIsCoded ==
    \A size \in 0 .. 1025 :
        LET b == size_bytes(size)
        IN  /\ FoldLeft(LAMBDA x, y : x + y, 0, b) = size
            /\ Last(b) < 255 /\ \A i \in 1 .. Len(b) - 1 : b[i] = 255

(* The NAL unit goes directly before the start code of the first slice,      *)
(* three or four bytes long, and nothing else of the unit changes; a unit    *)
(* without a slice stays as it is.  65 is a slice's header, 6 an SEI's.      *)
ASSUME SeiPrecedesSlice ==
    \A au \in Strings({0, 1, 6, 65}, 6) :
        LET slices == {i \in 1 .. Len(au) - 3 : IsStartCode(au, i) /\ is_vcl(au[i + 3])}
            codes  == {i \in 1 .. Len(au) : \E s \in slices :
                         i = s \/ (i = s - 1 /\ au[i] = 0)}
            place  == CHOOSE i \in codes : \A j \in codes : i <= j
        IN  insert_before_first_vcl(au, << "sei" >>) =
                IF slices = {} THEN au ELSE InsertAt(au, place, "sei")

(* A tick is 1/90000 s: ticks are off by half of one at most. *)
ASSUME TicksAreRounded ==
    \A ns \in {0, 1, 5555, 5556, 11111, 16666, 16667, 33333, 99999} :
        /\ sei_dt_ticks(100000, 100000 + ns) = IF ns = 0 THEN << 0 >> ELSE << >>
        /\ LET t == sei_dt_ticks(100000 + ns, 100000)[1]
           IN  100000 * t - 9 * ns \in -49999 .. 50000

(* A box stays in the picture, but for one step of rounding. *)
ASSUME BoxesAreNormal ==
    \A width, height \in {-1, 0, 3, 7}, from, to \in -2 .. 9 :
        LET box == normalize_sei_box(from, to, to, from, width, height)
        IN  /\ \A f \in DOMAIN box : box[f] \in 0 .. Unity
            /\ box.x + box.w <= Unity + 1 /\ box.y + box.h <= Unity + 1
            /\ box.w > 0 => from < to
=============================================================================

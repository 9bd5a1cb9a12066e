------------------------------- MODULE SeiNal -------------------------------
(* The bytes of the detection SEI (webrtc/detection_sei.cpp): the user-data  *)
(* NAL unit with its size and its emulation prevention bytes, its place in   *)
(* the access unit, the age of a result in ticks of 90 kHz and the           *)
(* coordinates of a box in steps of 1/Unity.                                 *)
EXTENDS Integers, SequencesExt

CONSTANT Unity    \* steps of the coordinates, 10000 in the code

(* payloadSize: 255 as often as it fits, and the rest. *)
size_bytes(size) == [i \in 1 .. size \div 255 |-> 255] \o << size % 255 >>

rbsp(uuid, payload) ==
    << 5 >> \o size_bytes(Len(uuid) + Len(payload)) \o uuid \o payload \o << 128 >>

(* One byte of the NAL unit: after two zeros a byte up to 3 is preceded by 3.*)
put(s, byte) ==
    LET stuffed == s.zeros >= 2 /\ byte <= 3
        zeros   == IF stuffed THEN 0 ELSE s.zeros
    IN  [nal |-> s.nal \o (IF stuffed THEN << 3, byte >> ELSE << byte >>),
         zeros |-> IF byte = 0 THEN zeros + 1 ELSE 0]

escape(bytes) == FoldLeft(put, [nal |-> << >>, zeros |-> 0], bytes).nal

encode_user_data_sei_nal(uuid, payload) ==
    << 0, 0, 0, 1, 6 >> \o escape(rbsp(uuid, payload))
-----------------------------------------------------------------------------
(* A coded slice, by the type in its header. *)
is_vcl(header) == header % 32 \in 1 .. 5

IsStartCode(unit, i) == unit[i] = 0 /\ unit[i + 1] = 0 /\ unit[i + 2] = 1

(* The index of the first slice's start code, looking from i on; 0 if none. *)
RECURSIVE first_vcl(_, _)
first_vcl(unit, i) ==
    IF i + 3 > Len(unit) THEN 0
    ELSE IF ~IsStartCode(unit, i) THEN first_vcl(unit, i + 1)
    ELSE IF is_vcl(unit[i + 3]) THEN i
    ELSE first_vcl(unit, i + 3)

(* The unit with the NAL unit before its first slice, or unchanged; a zero   *)
(* byte before the start code stays with the slice.                          *)
insert_before_first_vcl(unit, nal) ==
    LET i  == first_vcl(unit, 1)
        at == IF i > 1 /\ unit[i - 1] = 0 THEN i - 1 ELSE i
    IN  IF i = 0 THEN unit
        ELSE SubSeq(unit, 1, at - 1) \o nal \o SubSeq(unit, at, Len(unit))
-----------------------------------------------------------------------------
(* Nanoseconds to ticks, no answer for a result from the future.  take_for   *)
(* asks only inside its window, where the ticks fit their 32 bits.           *)
sei_dt_ticks(attach, source) ==
    IF source > attach THEN << >>
    ELSE << ((attach - source) * 9 + 50000) \div 100000 >>

(* round4 of n / d, in steps. *)
Nearest(n, d) == (2 * n * Unity + d) \div (2 * d)

clamp_unit(n, d) == IF n < 0 THEN 0 ELSE IF n > d THEN d ELSE n

(* Corners in pixels to a place and a size, whatever the detector returned. *)
normalize_sei_box(x1, y1, x2, y2, width, height) ==
    LET start(from, size)      == Nearest(clamp_unit(from, size), size)
        extent(from, to, size) ==
            Nearest(Max({0, clamp_unit(to, size) - clamp_unit(from, size)}), size)
    IN  IF width <= 0 \/ height <= 0 THEN [x |-> 0, y |-> 0, w |-> 0, h |-> 0]
        ELSE [x |-> start(x1, width), y |-> start(y1, height),
              w |-> extent(x1, x2, width), h |-> extent(y1, y2, height)]
=============================================================================

------------------------ MODULE MCDetectionPipeline ------------------------
(* One rule that asks for two frames in a row, frames with a person detected *)
(* twice and with nothing that matches, two alerts at most, two disturbances *)
(* (failures, cleanups, switches) and two starts of the process.             *)
EXTENDS DetectionPipeline, BufferBounds

Picture == Content(make_preprocess_plan(8, 8, 4, 6))

(* Whatever the sizes of the picture and of the network's input, the plan is *)
(* one that postprocess_yolo accepts, the picture fills one side and lies in *)
(* the middle of the other.                                                  *)
ASSUME PlansAreValid ==
    \A w, h, tw, th \in 1..9 :
        LET p == make_preprocess_plan(w, h, tw, th)
        IN  /\ valid_plan(p) /\ (p.resized_width = tw \/ p.resized_height = th)
            /\ tw - p.resized_width - 2 * p.pad_left \in 0..1
            /\ th - p.resized_height - 2 * p.pad_top \in 0..1

Person(cx, cy, score) ==
    [scores |-> (0 :> score @@ 1 :> 1), cx |-> cx, cy |-> cy, width |-> 2, height |-> 2]

People == << Person(2, 3, 8), Person(2, 3, 7), Person(1, 3, 9) >>
Empty  == << Person(2, 3, 3), Person(2, 0, 9) >>
Seen   == {People, Empty}

PersonRule == << [class |-> 0, confidence |-> 6, roi |-> {[x1 |-> 0, y1 |-> 0, x2 |-> 8, y2 |-> 8]},
                  consecutive_frames |-> 2, cooldown |-> TRUE] >>

(* Greedy suppression against its definition: with room for all of them, the *)
(* candidates kept are the ones that pass the filter, are visible and that   *)
(* no better one of the same class that is kept overlaps.                    *)
Reference(cs, kept) ==
    kept = {i \in DOMAIN cs :
                /\ Passes(cs[i]) /\ Visible(InPicture(Corners(cs[i])))
                /\ \A j \in kept : Better(cs, j, i) =>
                       \/ Corners(cs[j]).class # Corners(cs[i]).class
                       \/ ~Overlap(Corners(cs[i]), Corners(cs[j]))}

Some == {[scores |-> s, cx |-> x, cy |-> 3, width |-> w, height |-> 2] :
            s \in {(0 :> 7 @@ 1 :> 1), (0 :> 7 @@ 1 :> 7), (1 :> 8), << >>},
            x \in {1, 2}, w \in {0, 2, 4}}

ASSUME NmsIsGreedy ==
    \A n \in 0..3 : \A cs \in [1..n -> Some] :
        LET kept == Kept(cs)
        IN  Reference(cs, Range(kept)) /\ IsInjective(kept)

Product(s) == FoldLeft(LAMBDA x, y : x * y, 1, s)

Binding(name, input, device, linear, bytes, shape) ==
    [name |-> name, input |-> input, device |-> device, linear |-> linear,
     component_bytes |-> bytes, shape |-> shape]

Layouts ==
    UNION {[1..n -> {Binding(name, input, TRUE, TRUE, bytes, shape) :
                        name \in {"", "a", "b"}, input \in BOOLEAN, bytes \in {0, 4},
                        shape \in {<< >>, << 0 >>, << 16 >>}}] : n \in 0..2}

(* A layout is accepted exactly when its names differ, it has an input and   *)
(* an output and every size, computed without overflow, fits a size_t; the   *)
(* recorded size is then the true one.  The sizes alone are tried on every   *)
(* shape of three dimensions around the limit of 255.                        *)
ASSUME LayoutsAreExact ==
    /\ \A d \in Layouts :
          LET true == [i \in DOMAIN d |-> d[i].component_bytes * Product(d[i].shape)]
          IN  validate_tensor_layout(d) =
                IF /\ \A i \in DOMAIN d : d[i].name # "" /\ true[i] \in 1..SizeMax
                   /\ \A i, j \in DOMAIN d : d[i].name = d[j].name => i = j
                   /\ \E i, j \in DOMAIN d : d[i].input /\ ~d[j].input
                THEN [ok |-> TRUE,
                      tensors |-> [i \in DOMAIN d |-> [name |-> d[i].name, bytes |-> true[i]]]]
                ELSE NoLayout
    /\ \A bytes \in {1, 2, 4}, shape \in [1..3 -> {-1, 0, 1, 3, 4, 8, 16, 21, 63, 64, 255}] :
          LET good == (\A i \in 1..3 : shape[i] > 0) /\ bytes * Product(shape) <= SizeMax
          IN  tensor_bytes(Binding("a", TRUE, TRUE, TRUE, bytes, shape)) =
                 IF good THEN bytes * Product(shape) ELSE 0

(* An accepted image holds every byte of every pixel, whatever its stride,   *)
(* and one that holds them all is accepted.                                  *)
ASSUME ImagesAreExact ==
    \A width, height \in {-1, 0, 1, 2, 5, 42, 43}, stride \in {-1, 0, 3, 6, 16, 126, 127},
       bytes \in {0, 3, 15, 30, 126, 255} :
        LET image == [data |-> TRUE, width |-> width, height |-> height, stride |-> stride,
                      bytes |-> bytes]
        IN  validate_image(image) <=>
                /\ width > 0 /\ height > 0 /\ width <= IntMax \div 3 /\ stride >= 3 * width
                /\ (height - 1) * stride + 3 * width <= bytes

(* With the plan made for it, preprocessing reads only the image's own       *)
(* pixels, of the right channel, and fills each element of the picture in    *)
(* the tensor once.                                                          *)
ASSUME PreprocessInBounds ==
    \A w, h, tw, th \in 1..4, gap \in 0..1 :
        LET image == [data |-> TRUE, width |-> w, height |-> h, stride |-> 3 * w + gap,
                      bytes |-> (h - 1) * (3 * w + gap) + 3 * w]
            plan  == make_preprocess_plan(w, h, tw, th)
            done  == preprocess_cpu(image, plan)
            Reads(p) == {y * image.stride + 3 * x + 2 - p : x \in 0 .. w - 1, y \in 0 .. h - 1}
        IN  /\ done.size = 3 * tw * th
            /\ Cardinality({e.to : e \in done.writes}) = 3 * plan.resized_width * plan.resized_height
            /\ \A e \in done.writes :
                 e.to < done.size /\ e.from \subseteq Reads(e.to \div (tw * th))
=============================================================================

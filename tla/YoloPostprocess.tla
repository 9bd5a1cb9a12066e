-------------------------- MODULE YoloPostprocess --------------------------
(* make_preprocess_plan (inference/preprocess.cpp), postprocess_yolo (infer- *)
(* ence/yolo_postprocess.cpp) and the matching of its detections by an alert *)
(* rule (AlertManager::process, in_roi).  Coordinates of a box or a picture  *)
(* are integers, twice those of the model's input so that half a width is    *)
(* one; thresholds on ratios are fractions compared by cross multiplication. *)
(* A candidate's scores are a function on the classes whose score is finite, *)
(* and one whose box is not finite is left out of the input.                 *)
EXTENDS Integers, Sequences, FiniteSetsExt

CONSTANTS Plan,           \* [left, top, width, height] of the picture in the input
          Threshold,      \* confidence_threshold
          IouNum, IouDen, \* nms_iou_threshold
          MaxDetections   \* max_detections

(* n / d to the nearest integer (std::round of what is not negative). *)
Round(n, d) == (2 * n + d) \div (2 * d)

(* make_preprocess_plan: the picture scaled by the smaller of the two ratios *)
(* of the sides, then centred.                                               *)
make_preprocess_plan(w, h, tw, th) ==
    LET wide == tw * h <= th * w
        rw == IF wide THEN tw ELSE Max({1, Min({tw, Round(w * th, h)})})
        rh == IF wide THEN Max({1, Min({th, Round(h * tw, w)})}) ELSE th
    IN  [source_width |-> w, source_height |-> h, width |-> tw, height |-> th,
         resized_width |-> rw, resized_height |-> rh,
         pad_left |-> (tw - rw) \div 2, pad_top |-> (th - rh) \div 2]

valid_plan(p) ==
    /\ \A f \in {"source_width", "source_height", "width", "height", "resized_width",
                 "resized_height"} : p[f] > 0
    /\ p.pad_left >= 0 /\ p.pad_left + p.resized_width <= p.width
    /\ p.pad_top >= 0  /\ p.pad_top + p.resized_height <= p.height

(* The part of the input that shows the picture. *)
Content(p) == [left |-> 2 * p.pad_left, top |-> 2 * p.pad_top,
               width |-> 2 * p.resized_width, height |-> 2 * p.resized_height]
-----------------------------------------------------------------------------
(* The class of the highest score, the first one of several. *)
BestClass(c) ==
    CHOOSE k \in DOMAIN c.scores :
        \A j \in DOMAIN c.scores : \/ c.scores[k] > c.scores[j]
                                   \/ c.scores[k] = c.scores[j] /\ k <= j

(* The corners of a candidate's box, with its class and its score. *)
Corners(c) ==
    [class |-> BestClass(c), confidence |-> c.scores[BestClass(c)],
     x1 |-> 2 * c.cx - c.width, x2 |-> 2 * c.cx + c.width,
     y1 |-> 2 * c.cy - c.height, y2 |-> 2 * c.cy + c.height]

(* What survives the filter: a score above the threshold, a box with an area *)
(* and a part of it in the picture.                                          *)
Passes(c) ==
    /\ DOMAIN c.scores # {} /\ c.scores[BestClass(c)] > Threshold
    /\ c.width > 0 /\ c.height > 0
    /\ LET b == Corners(c)
       IN  /\ b.x2 > Plan.left /\ b.x1 < Plan.left + Plan.width
           /\ b.y2 > Plan.top  /\ b.y1 < Plan.top + Plan.height

(* Indices of the candidates, the most confident first. *)
Better(cs, i, j) ==
    LET a == Corners(cs[i])  b == Corners(cs[j])
    IN  a.confidence > b.confidence \/ (a.confidence = b.confidence /\ i < j)

Ranked(cs) ==
    LET passing == {i \in DOMAIN cs : Passes(cs[i])}
    IN  [n \in 1 .. Cardinality(passing) |->
            CHOOSE i \in passing : Cardinality({j \in passing : Better(cs, j, i)}) = n - 1]

(* intersection_over_union(a, b) > nms_iou_threshold. *)
Overlap(a, b) ==
    LET w == Max({0, Min({a.x2, b.x2}) - Max({a.x1, b.x1})})
        h == Max({0, Min({a.y2, b.y2}) - Max({a.y1, b.y1})})
        total == (a.x2 - a.x1) * (a.y2 - a.y1) + (b.x2 - b.x1) * (b.y2 - b.y1) - w * h
    IN  total > 0 /\ w * h * IouDen > IouNum * total

(* The box in the picture, cut off at its edges. *)
Clamp(v, limit) == Max({0, Min({v, limit})})
InPicture(b) ==
    [b EXCEPT !.x1 = Clamp(@ - Plan.left, Plan.width), !.x2 = Clamp(@ - Plan.left, Plan.width),
              !.y1 = Clamp(@ - Plan.top, Plan.height), !.y2 = Clamp(@ - Plan.top, Plan.height)]
Visible(b) == b.x2 > b.x1 /\ b.y2 > b.y1

(* One turn of the loop over the ranked candidates: suppressed by a box kept *)
(* earlier, invisible, or kept.                                              *)
Keep(cs, kept, i) ==
    LET box == Corners(cs[i])
        suppressed == \E k \in Range(kept) : /\ Corners(cs[k]).class = box.class
                                             /\ Overlap(box, Corners(cs[k]))
    IN  IF Len(kept) = MaxDetections \/ suppressed \/ ~Visible(InPicture(box))
        THEN kept ELSE Append(kept, i)

Kept(cs) ==
    LET order == Ranked(cs)
        kept[n \in 0 .. Len(order)] ==
            IF n = 0 THEN << >> ELSE Keep(cs, kept[n - 1], order[n])
    IN  kept[Len(order)]

postprocess_yolo(cs) == LET kept == Kept(cs)
                        IN  [n \in DOMAIN kept |-> InPicture(Corners(cs[kept[n]]))]
-----------------------------------------------------------------------------
(* The centre of a detection is in the region of interest. *)
in_roi(d, roi) ==
    /\ d.x1 + d.x2 >= 2 * roi.x1 /\ d.x1 + d.x2 <= 2 * roi.x2
    /\ d.y1 + d.y2 >= 2 * roi.y1 /\ d.y1 + d.y2 <= 2 * roi.y2

(* Some detection matches the rule; an empty set of regions is no ROI. *)
Matches(detections, rule) ==
    \E d \in Range(detections) : /\ d.class = rule.class /\ d.confidence >= rule.confidence
                                 /\ \A roi \in rule.roi : in_roi(d, roi)
=============================================================================

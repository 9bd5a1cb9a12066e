---------------------------- MODULE BufferBounds ----------------------------
(* The sizes that inference trusts before it touches memory: the bytes of an *)
(* engine's I/O tensors (inference/tensor_layout.cpp) and of a BGR image     *)
(* (inference/preprocess.cpp), computed in machine integers.                 *)
EXTENDS Integers, SequencesExt

CONSTANTS SizeMax,    \* largest size_t
          IntMax      \* largest int

Wrap(n) == n % (SizeMax + 1)

NoLayout == [ok |-> FALSE, tensors |-> << >>]

(* bytes after one more dimension; 0 once the shape is refused. *)
MultiplyDimension(bytes, dimension) ==
    IF bytes = 0 \/ dimension <= 0 \/ dimension > SizeMax \div bytes THEN 0
    ELSE Wrap(bytes * dimension)

tensor_bytes(binding) == FoldLeft(MultiplyDimension, binding.component_bytes, binding.shape)

(* A binding the engine may use, after the ones whose names are taken.  No   *)
(* component_bytes stands for a data type that is not supported.             *)
IsBinding(binding, names) ==
    /\ binding.name # "" /\ binding.name \notin names
    /\ binding.device /\ binding.linear
    /\ binding.component_bytes # 0 /\ tensor_bytes(binding) # 0

(* Whole or not at all: tensors is only filled when every binding passes and *)
(* there are an input and an output.                                         *)
validate_tensor_layout(descriptions) ==
    LET Names(n) == {descriptions[i].name : i \in 1 .. n}
        inputs   == {descriptions[i].input : i \in DOMAIN descriptions}
    IN  IF /\ \A i \in DOMAIN descriptions : IsBinding(descriptions[i], Names(i - 1))
           /\ inputs = BOOLEAN
        THEN [ok |-> TRUE,
              tensors |-> [i \in DOMAIN descriptions |->
                             [name |-> descriptions[i].name,
                              bytes |-> tensor_bytes(descriptions[i])]]]
        ELSE NoLayout

(* The image's last row ends inside its buffer. *)
validate_image(image) ==
    LET row_bytes == image.width * 3
        rows_before_last == image.height - 1
    IN  /\ image.data /\ image.width > 0 /\ image.height > 0
        /\ image.width <= IntMax \div 3
        /\ image.stride >= row_bytes
        /\ rows_before_last <= (SizeMax - row_bytes) \div image.stride
        /\ image.bytes >= Wrap(Wrap(rows_before_last * image.stride) + row_bytes)

(* The byte of a pixel's channel. *)
pixel_offset(image, x, y, channel) == Wrap(Wrap(y * image.stride) + x * 3 + channel)

(* The source coordinate of an output column or row is ((at - pad) + 1/2) *  *)
(* source / resized - 1/2: its floor.                                        *)
source_floor(at, pad, source, resized) ==
    ((2 * (at - pad) + 1) * source - resized) \div (2 * resized)

clamp(n, last) == IF n < 0 THEN 0 ELSE IF n > last THEN last ELSE n

(* sample_channel: the bytes of the four pixels around a coordinate. *)
sample_channel(image, x_floor, y_floor, channel) ==
    {pixel_offset(image, clamp(x, image.width - 1), clamp(y, image.height - 1), channel) :
        x \in {x_floor, x_floor + 1}, y \in {y_floor, y_floor + 1}}

(* The plan was made for this image and its picture lies in the tensor.  The *)
(* scale is left out: it is positive in any plan with positive sizes.        *)
plan_matches(image, plan) ==
    /\ image.width = plan.source_width /\ image.height = plan.source_height
    /\ plan.width > 0 /\ plan.height > 0
    /\ plan.resized_width > 0 /\ plan.resized_height > 0
    /\ plan.pad_left >= 0 /\ plan.pad_top >= 0
    /\ plan.pad_left + plan.resized_width <= plan.width
    /\ plan.pad_top + plan.resized_height <= plan.height
    /\ plan.height <= (SizeMax \div plan.width) \div 3

(* preprocess_cpu, as the size of the tensor and the bytes of the image that *)
(* each element is blended from: BGR in, planes of R, G and B out, and gray  *)
(* elements outside of the picture (no byte).                                *)
preprocess_cpu(image, plan) ==
    LET plane == Wrap(plan.width * plan.height)
        xs == plan.pad_left .. plan.pad_left + plan.resized_width - 1
        ys == plan.pad_top .. plan.pad_top + plan.resized_height - 1
        Source(x, y, channel) ==
            sample_channel(image,
                source_floor(x, plan.pad_left, plan.source_width, plan.resized_width),
                source_floor(y, plan.pad_top, plan.source_height, plan.resized_height), channel)
    IN  IF ~validate_image(image) \/ ~plan_matches(image, plan) THEN [size |-> 0, writes |-> {}]
        ELSE [size |-> Wrap(plane * 3),
              writes |-> {[to |-> Wrap(plane * p + Wrap(y * plan.width) + x),
                           from |-> Source(x, y, 2 - p)] : p \in 0 .. 2, x \in xs, y \in ys}]
=============================================================================

---------------------------- MODULE YoloPostprocess ----------------------------
(***************************************************************************)
(* From a camera frame to detections and back to its pixels: the letterbox *)
(* of the detector (edge-ai-detector-tensorrt-ros2/src/detector_node.cpp)  *)
(* and decode_yolo(), unletterbox() and nms() (src/yolo_postprocess.cpp).  *)
(*                                                                         *)
(* Floats are integers in a unit fine enough to be exact.  The network's   *)
(* coordinates are in half pixels, scores and objectness in tenths (so a   *)
(* product is in hundredths); the scale is num/den, and coordinates in the *)
(* camera frame are in 1/(4 num) of a pixel.                               *)
(***************************************************************************)
EXTENDS Integers, Sequences, FiniteSets, SequencesExt

CONSTANTS Cameras,           \* sizes of camera frames: [w, h]
          InputW, InputH,    \* input_w_, input_h_
          NumClasses,        \* cfg.num_classes
          Conf,              \* cfg.conf_threshold, in hundredths
          Iou,               \* cfg.iou_threshold, in hundredths
          max_detections,    \* cfg.max_detections
          Candidates         \* what the network may find: sequences of candidates
                             \* [cx, cy, bw, bh, obj, scores]

\* A score and the objectness are between 0 and 1, a box has no negative size.
Candidate == [cx : Int, cy : Int, bw : Nat, bh : Nat, obj : 0 .. 10, scores : [1 .. NumClasses -> 0 .. 10]]

ASSUME InputAssumption == InputW \in Nat \ {0} /\ InputH \in Nat \ {0}
ASSUME CamerasAssumption == Cameras \subseteq [w : Nat \ {0}, h : Nat \ {0}]
ASSUME ConfigAssumption ==
  NumClasses \in Nat \ {0} /\ Conf \in Int /\ Iou \in Int /\ max_detections \in Nat \ {0}
ASSUME CandidatesAssumption == Candidates \subseteq Seq(Candidate)

VARIABLES yolo,        \* program counter
          image,       \* size of the camera frame
          found,       \* external: the candidates the network found
          transposed,  \* cfg.transposed
          tensor,      \* external: output, with its rows and cols
          raw, keep    \* the vectors of decode_yolo() and nms()

yoloVars == <<yolo, image, found, transposed, tensor, raw, keep>>

-------------------------------------------------------------------------------
(* letterbox_bgr_to_nchw() *)

Letterbox(src) ==
  LET wide    == InputW * src.h <= InputH * src.w
      num     == IF wide THEN InputW ELSE InputH
      den     == IF wide THEN src.w ELSE src.h
      round(v) == (2 * v * num + den) \div (2 * den)
  IN  [num |-> num, den |-> den, src_w |-> src.w, src_h |-> src.h,
       new_w |-> round(src.w), new_h |-> round(src.h),
       pad_x |-> (InputW - round(src.w)) \div 2, pad_y |-> (InputH - round(src.h)) \div 2]

\* The row or column of the camera frame that pixel k of the resized image shows.
\* The variant multiplies by the scale.
SampledScaled(lb, k, size) ==
  Min({size - 1, Max({0, ((2 * k + 1) * lb.num - lb.den) \div (2 * lb.den)})})
Sampled(lb, k, size) ==
  Min({size - 1, Max({0, ((2 * k + 1) * lb.den - lb.num) \div (2 * lb.num)})})

-------------------------------------------------------------------------------
(* decode_yolo() *)

Clamp(v, lo, hi) == IF v < lo THEN lo ELSE IF v > hi THEN hi ELSE v

\* One dimension of unletterbox(): <<x, w>> from the centre, size and padding.  The
\* variant limits the size by the position before it was clamped.
UnletterboxLoose(lb, c, size, pad, src) ==
  LET px == 4 * lb.num
      x  == (2 * c - size - 4 * pad) * lb.den
  IN  <<Clamp(x, 0, (src - 1) * px), Clamp(2 * size * lb.den, 0, src * px - x)>>
Unletterbox(lb, c, size, pad, src) ==
  LET px == 4 * lb.num
      x  == Clamp((2 * c - size - 4 * pad) * lb.den, 0, (src - 1) * px)
  IN  <<x, Clamp(2 * size * lb.den, 0, src * px - x)>>

NumBoxes == IF transposed THEN tensor.cols ELSE tensor.rows
HasObj == (IF transposed THEN tensor.rows ELSE tensor.cols) = NumClasses + 5

\* at(box, attr), both from 0.
At(box, attr) ==
  tensor.output[1 + IF transposed THEN attr * tensor.cols + box ELSE box * tensor.cols + attr]

\* The detection of box i: the first of its best classes, or -1.
Detection(i) ==
  LET lb    == Letterbox(image)
      obj   == IF HasObj THEN At(i, 4) ELSE 10
      s(c)  == At(i, (IF HasObj THEN 5 ELSE 4) + c)
      best  == Max({0} \cup {s(c) : c \in 0 .. NumClasses - 1})
      x     == Unletterbox(lb, At(i, 0), At(i, 2), lb.pad_x, lb.src_w)
      y     == Unletterbox(lb, At(i, 1), At(i, 3), lb.pad_y, lb.src_h)
  IN  [box |-> i, x |-> x[1], y |-> y[1], w |-> x[2], h |-> y[2], obj |-> obj,
       score |-> best * obj,
       class_id |-> IF best = 0 THEN -1
                    ELSE Min({c \in 0 .. NumClasses - 1 : s(c) = best})]

\* A box goes on unless its objectness is below half the threshold, no class is
\* positive, or its score is below the threshold.
Accepted(d) == ~(HasObj /\ 20 * d.obj < Conf) /\ d.class_id >= 0 /\ d.score >= Conf

\* The loop over the boxes: decoded[n] are the detections among the first n.
DecodedBoxes ==
  LET decoded[n \in 0 .. NumBoxes] ==
        IF n = 0 THEN <<>>
        ELSE IF Accepted(Detection(n - 1)) THEN Append(decoded[n - 1], Detection(n - 1))
        ELSE decoded[n - 1]
  IN  decoded[NumBoxes]

DecodeYolo ==
  /\ yolo = "decode" /\ yolo' = "nms"
  /\ raw' = DecodedBoxes
  /\ UNCHANGED <<image, found, transposed, tensor, keep>>

-------------------------------------------------------------------------------
(* nms() *)

\* The length of the overlap in one dimension.
Overlap(a, aSize, b, bSize) == Max({0, Min({a + aSize, b + bSize}) - Max({a, b})})

OverThreshold(a, b) ==
  LET inter == Overlap(a.x, a.w, b.x, b.w) * Overlap(a.y, a.h, b.y, b.h)
      uni   == a.w * a.h + b.w * b.h - inter
  IN  uni > 0 /\ 100 * inter > Iou * uni

\* A box removes a later one of its class.  The variant removes one of any class.
SuppressesAny(a, b) == OverThreshold(a, b)
Suppresses(a, b) == a.class_id = b.class_id /\ OverThreshold(a, b)

\* The orders std::sort may produce: it is not stable.
SortedOrders ==
  {p \in SetToSeqs(1 .. Len(raw)) : \A i \in 1 .. Len(p) - 1 : raw[p[i]].score >= raw[p[i + 1]].score}

\* One turn of the greedy pass: a box that no kept one has removed is kept, until keep
\* is full.
Turn(kept, d) ==
  IF \/ kept # <<>> /\ Len(kept) >= max_detections
     \/ \E j \in DOMAIN kept : Suppresses(kept[j], d)
    THEN kept ELSE Append(kept, d)

Pass(order) ==
  LET kept[n \in 0 .. Len(order)] ==
        IF n = 0 THEN <<>> ELSE Turn(kept[n - 1], raw[order[n]])
  IN  kept[Len(order)]

Nms ==
  /\ yolo = "nms" /\ yolo' = "done"
  /\ \E order \in SortedOrders : keep' = Pass(order)
  /\ UNCHANGED <<image, found, transposed, tensor, raw>>

-------------------------------------------------------------------------------
(* External: the network.  The shape of its tensor says whether it has an       *)
(* objectness, the configuration which dimension the boxes are in.              *)

Network(cands, withObj, trans) ==
  LET attrs    == NumClasses + IF withObj THEN 5 ELSE 4
      boxes    == Len(cands)
      attributes(c) == <<c.cx, c.cy, c.bw, c.bh>> \o (IF withObj THEN <<c.obj>> ELSE <<>>) \o c.scores
  IN  [rows |-> IF trans THEN attrs ELSE boxes, cols |-> IF trans THEN boxes ELSE attrs,
       output |-> [k \in 1 .. boxes * attrs |->
                     IF trans THEN attributes(cands[((k - 1) % boxes) + 1])[((k - 1) \div boxes) + 1]
                              ELSE attributes(cands[((k - 1) \div attrs) + 1])[((k - 1) % attrs) + 1]]]

YoloInit ==
  /\ yolo = "decode"
  /\ image \in Cameras /\ transposed \in BOOLEAN
  /\ \E cands \in Candidates, withObj \in BOOLEAN :
       /\ found = IF withObj THEN cands ELSE [k \in DOMAIN cands |-> [cands[k] EXCEPT !.obj = 10]]
       /\ tensor = Network(cands, withObj, transposed)
  /\ raw = <<>> /\ keep = <<>>

YoloNext == DecodeYolo \/ Nms

YoloSpec == YoloInit /\ [][YoloNext]_yoloVars

-------------------------------------------------------------------------------
(* Properties *)

\* What a candidate is worth: its best class, and its score.
BestScore(c) == Max({c.scores[k] : k \in 1 .. NumClasses})
Score(c) == BestScore(c) * c.obj
Worthy == {k \in DOMAIN found : BestScore(found[k]) > 0 /\ Score(found[k]) >= Conf}

\* For both layouts of the tensor, with and without objectness, and whatever order
\* the sort leaves equal scores in, the detections are the candidates whose score
\* reaches the threshold (the early test of the objectness drops none of them), with
\* their class and score, best first; no two of a class overlap too much, and one
\* that is missing overlaps a kept one of its class that is at least as good, or came
\* too late for max_detections.
DecodeCorrect ==
  yolo = "done" =>
    LET kept == {keep[k].box + 1 : k \in DOMAIN keep}
        full == Len(keep) = max_detections
    IN  /\ Len(keep) <= max_detections /\ Cardinality(kept) = Len(keep) /\ kept \subseteq Worthy
        /\ \A k \in DOMAIN keep :
             /\ keep[k].score = Score(found[keep[k].box + 1])
             /\ found[keep[k].box + 1].scores[keep[k].class_id + 1] = BestScore(found[keep[k].box + 1])
             /\ \A j \in 1 .. k - 1 : /\ keep[j].score >= keep[k].score
                                      /\ ~(keep[j].class_id = keep[k].class_id /\ OverThreshold(keep[j], keep[k]))
        /\ \A b \in Worthy \ kept :
             LET d == Detection(b - 1)
                 better == {k \in DOMAIN keep : keep[k].score >= d.score}
             IN  \/ full /\ better = DOMAIN keep
                 \/ \E k \in better : keep[k].class_id = d.class_id /\ OverThreshold(keep[k], d)

\* The part of an interval that is inside 0 .. size.
Visible(lo, hi, size) == <<Max({lo, 0}), Min({hi, size})>>

\* A detection lies inside the camera frame and covers all of the network's box that
\* is visible there; a box that begins in the last row or column, or behind it, is
\* moved to it instead.  (A box that begins outside on the left or at the top keeps
\* its size, so it may cover more.)
BoxClipped ==
  \A k \in DOMAIN raw :
    LET lb == Letterbox(image)
        c  == found[raw[k].box + 1]
        covers(pos, size, centre, extent, pad, src) ==
          LET px == 4 * lb.num
              lo == (2 * centre - extent - 4 * pad) * lb.den
              v  == Visible(lo, lo + 2 * extent * lb.den, src * px)
          IN  /\ 0 <= pos /\ 0 <= size /\ pos + size <= src * px
              /\ IF lo <= (src - 1) * px THEN pos <= v[1] /\ v[2] <= pos + size
                                         ELSE pos = (src - 1) * px
    IN  /\ covers(raw[k].x, raw[k].w, c.cx, c.bw, lb.pad_x, lb.src_w)
        /\ covers(raw[k].y, raw[k].h, c.cy, c.bh, lb.pad_y, lb.src_h)

\* The letterbox and its inverse agree, whatever the size of the camera frame: the
\* resized image fits the network's input, and the centre of the box around one of its
\* pixels comes back to where that pixel was copied from: less than half a pixel before
\* the centre of the copied pixel, and less than one behind it.  Where rounding lets
\* the last row or column reach over the edge of the frame, the box is cut there and its
\* centre moves back by half of that.
PixelMapsBack ==
  LET lb == Letterbox(image)
      px == 4 * lb.num
      near(k, pad, src) ==
        LET back == Unletterbox(lb, 2 * (k + pad) + 1, 2, pad, src)
            off  == 2 * back[1] + back[2] - (2 * Sampled(lb, k, src) + 1) * px
            cut  == Max({0, 4 * (k + 1) * lb.den - src * px})
        IN  -px - cut < off /\ off < 2 * px
  IN  /\ lb.pad_x >= 0 /\ lb.pad_x + lb.new_w <= InputW
      /\ lb.pad_y >= 0 /\ lb.pad_y + lb.new_h <= InputH
      /\ \A k \in 0 .. lb.new_w - 1 : near(k, lb.pad_x, lb.src_w)
      /\ \A k \in 0 .. lb.new_h - 1 : near(k, lb.pad_y, lb.src_h)
===============================================================================

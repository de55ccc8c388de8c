------------------------------ MODULE MCDetector ------------------------------
(***************************************************************************)
(* The parts of the detector that meet only in data, one per behaviour:    *)
(* the running node, what it computes from a tensor, the statistics of its *)
(* frames, and the builder of its engine.  subject is chosen at the start  *)
(* and the others rest.                                                    *)
(***************************************************************************)
EXTENDS DetectorNode, YoloPostprocess, BenchmarkTrace, EngineBuilder

VARIABLE subject

detectorVars == <<vars, yoloVars, benchVars, builderVars, subject>>

\* Engines with one and two outputs, with outputs before the input, and the
\* degenerate ones that lack an input or an output.
MCEngines == {<<"in", "out">>, <<"out", "in", "out">>, <<"out">>, <<"in">>}

\* Smaller than the network's input, wider and higher, and one whose columns the
\* rounding makes reach over the edge by more than a pixel.
MCCameras == {[w |-> 2, h |-> 2], [w |-> 8, h |-> 4], [w |-> 3, h |-> 5], [w |-> 3, h |-> 20]}

\* Two boxes that overlap, one over the left edge and one over the bottom right
\* corner; scores of one class, of the other, of both and of none; objectness low,
\* medium and full.
MCCandidate ==
  LET box(cx, cy, bw, bh, obj, scores) ==
        [cx |-> cx, cy |-> cy, bw |-> bw, bh |-> bh, obj |-> obj, scores |-> scores]
  IN  {box(4, 4, 4, 4, 10, <<9, 3>>), box(5, 4, 4, 4, 10, <<9, 3>>), box(5, 4, 4, 4, 10, <<3, 9>>),
       box(5, 5, 4, 4, 5, <<7, 7>>), box(1, 4, 6, 2, 10, <<4, 0>>), box(8, 8, 4, 4, 10, <<0, 5>>),
       box(7, 4, 1, 3, 1, <<10, 0>>), box(4, 4, 4, 4, 10, <<0, 0>>), box(4, 5, 3, 3, 3, <<9, 0>>)}
MCCandidates == BoundedSeq(MCCandidate, 3)
MCNoCandidates == {<<>>}

\* None, one, and more than a batch of images, some of which cannot be read.
MCDirectories == {<<>>, <<FALSE>>, <<TRUE, TRUE, TRUE>>, <<FALSE, TRUE, FALSE, TRUE, TRUE>>}

\* A frame that is slow to come and one that is slow to infer.
MCFrames ==
  LET timed(c, n) == [capture |-> c, preprocess |-> 2, inference |-> n, postprocess |-> n - 1,
                      end_to_end |-> c + n]
  IN  {timed(7, 3), timed(2, 9)}

\* The percentiles depend on which frames the window holds and not on their
\* order, so histories that fall at most once produce every window; the rings
\* turn under falling and rising times.
FallsOnce ==
  Cardinality({n \in 1 .. Len(frames) - 1 : frames[n].capture > frames[n + 1].capture}) <= 1

\* What is not the subject rests in one of its initial states.
Resting ==
  /\ subject # "node" => model = <<"in", "out">>
  /\ subject # "yolo" => /\ image = [w |-> 2, h |-> 2] /\ found = <<>> /\ ~transposed
                         /\ tensor.cols = NumClasses + 4
  /\ subject # "build_engine" => dirs = << <<>> >>

DetectorInit ==
  /\ subject \in {"node", "yolo", "benchmark", "build_engine"}
  /\ Init /\ YoloInit /\ BenchInit /\ BuilderInit
  /\ Resting

Node(A) == subject = "node" /\ A /\ UNCHANGED <<subject, yoloVars, benchVars, builderVars>>

\* A computation ends, and nobody need start another build.
Finished == subject # "node" /\ UNCHANGED detectorVars

DetectorNext ==
  \/ Node(Next)
  \/ subject = "yolo" /\ YoloNext /\ UNCHANGED <<subject, vars, benchVars, builderVars>>
  \/ /\ subject = "benchmark" /\ BenchNext
     /\ UNCHANGED <<subject, vars, yoloVars, builderVars>>
     /\ FallsOnce'
  \/ subject = "build_engine" /\ BuilderNext /\ UNCHANGED <<subject, vars, yoloVars, benchVars>>
  \/ Finished

\* The fairness of DetectorNode.
DetectorSpec ==
  /\ DetectorInit /\ [][DetectorNext]_detectorVars
  /\ WF_detectorVars(Node(WorkerStep))
  /\ WF_detectorVars(Node(MainStep))
  /\ WF_detectorVars(Node(GpuStep))
===============================================================================

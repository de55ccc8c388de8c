----------------------------- MODULE DetectorNode -----------------------------
(***************************************************************************)
(* The ROS 2 detector (src/detector_node.cpp): main() spins the node; the  *)
(* node's worker thread loads the engine, opens the CAN socket, starts the *)
(* capture and runs the loop pull, letterbox, infer, publish, until the    *)
(* node is destroyed, ROS shuts down or something throws.  Exceptions      *)
(* unwind the locals of run() in reverse order, then shut ROS down.        *)
(***************************************************************************)
EXTENDS GstSource, TrtEngine, SocketCanPublisher

VARIABLES worker,     \* program counter of run()
          thrown,     \* an exception is being handled, or was
          blob,       \* the frame the NCHW blob was made from
          published,  \* the latest message: frame of the iteration, origin of its detections
          main,       \* program counter of main() and ~DetectorNode
          stop_,
          ok          \* rclcpp::ok()

nodeVars == <<worker, thrown, blob, published, main, stop_, ok>>
vars == <<sourceVars, engineVars, canVars, nodeVars>>

NoDetections == 0

Init ==
  /\ SourceInit /\ EngineInit /\ CanInit
  /\ worker = "load" /\ thrown = FALSE /\ blob = 0
  /\ published = [frame |-> 0, dets |-> NoDetections]
  /\ main = "construct" /\ stop_ = FALSE /\ ok = TRUE

Goto(from, to) == worker = from /\ worker' = to

Raise(from) == Goto(from, "throw") /\ thrown' = TRUE

-------------------------------------------------------------------------------
(* The worker up to the loop *)

WorkerLoad ==
  /\ \/ Goto("load", "bind") /\ LoadContext /\ UNCHANGED thrown
     \/ Raise("load") /\ LoadThrows
  /\ UNCHANGED <<sourceVars, blob, canVars, published, main, stop_, ok>>

WorkerBind ==
  /\ \/ Goto("bind", "bind") /\ Bind /\ UNCHANGED thrown
     \/ Goto("bind", "can") /\ ChooseInput /\ UNCHANGED thrown
     \/ Raise("bind") /\ (BindThrows \/ ChooseInputThrows)
  /\ UNCHANGED <<sourceVars, blob, canVars, published, main, stop_, ok>>

\* publish_can_ is off, which is no different from an open() that fails, or on.
WorkerCan ==
  /\ Goto("can", "start")
  /\ CanOpen
  /\ UNCHANGED <<sourceVars, engineVars, thrown, blob, published, main, stop_, ok>>

WorkerStart ==
  /\ \/ Goto("start", "check") /\ SourceStarts /\ UNCHANGED thrown
     \/ Raise("start") /\ SourceStartThrows
  /\ UNCHANGED <<engineVars, blob, canVars, published, main, stop_, ok>>

-------------------------------------------------------------------------------
(* The loop *)

WorkerCheck ==
  /\ Goto("check", IF ~stop_ /\ ok THEN "pull" ELSE "stop")
  /\ UNCHANGED <<sourceVars, engineVars, thrown, blob, canVars, published, main, stop_, ok>>

WorkerPull ==
  /\ Goto("pull", "pulled")
  /\ NextSample \/ NextInvalid
  /\ UNCHANGED <<engineVars, thrown, blob, canVars, published, main, stop_, ok>>

\* An invalid frame is released and the loop goes on.
WorkerSkip ==
  /\ ~Valid
  /\ Goto("pulled", "check")
  /\ FrameRelease
  /\ UNCHANGED <<engineVars, thrown, blob, canVars, published, main, stop_, ok>>

WorkerLetterbox ==
  /\ Valid
  /\ Goto("pulled", "infer")
  /\ blob' = frame.sample_
  /\ UNCHANGED <<sourceVars, engineVars, thrown, canVars, published, main, stop_, ok>>

WorkerInfer ==
  /\ \/ Goto("infer", "sync") /\ InferEnqueue(blob) /\ UNCHANGED thrown
     \/ Raise("infer") /\ InferThrows(blob)
  /\ UNCHANGED <<sourceVars, blob, canVars, published, main, stop_, ok>>

WorkerSync ==
  /\ \/ Synchronized /\ Goto("sync", "publish") /\ UNCHANGED thrown
     \/ Raise("sync")
  /\ UNCHANGED <<sourceVars, engineVars, blob, canVars, published, main, stop_, ok>>

\* decode_yolo() reads the host copy of the first output, if there is one.
Decoded == IF Outputs = <<>> THEN NoDetections ELSE host[Outputs[1]]

Message == [frame |-> frame.sample_, dets |-> Decoded]

WorkerPublish ==
  /\ \/ /\ Goto("publish", "burst")
        /\ published' = Message
        /\ UNCHANGED thrown
        /\ \E n \in 0 .. MaxDetections : (Outputs = <<>> => n = 0) /\ CanDetected(n)
     \/ Raise("publish") /\ UNCHANGED <<published, canVars>>
  /\ UNCHANGED <<sourceVars, engineVars, blob, main, stop_, ok>>

\* can->publish(), whose result nobody looks at.
WorkerBurst ==
  /\ \/ Goto("burst", "burst") /\ (CanWrite \/ CanWriteFails)
     \/ Goto("burst", "record") /\ SetDone /\ UNCHANGED canVars
  /\ UNCHANGED <<sourceVars, engineVars, thrown, blob, published, main, stop_, ok>>

\* bench_.record(), and the end of the iteration's scope.
WorkerRecord ==
  /\ Goto("record", "check")
  /\ FrameRelease
  /\ CanForget
  /\ UNCHANGED <<engineVars, thrown, blob, published, main, stop_, ok>>

-------------------------------------------------------------------------------
(* The ways out of run() *)

WorkerStop ==
  /\ Goto("stop", "~engine")
  /\ SourceStop
  /\ CanClose
  /\ UNCHANGED <<engineVars, thrown, blob, published, main, stop_, ok>>

\* The Frame of an interrupted iteration and the CAN publisher go first.
WorkerUnwind ==
  /\ Goto("throw", "~engine")
  /\ FrameRelease
  /\ CanClose
  /\ UNCHANGED <<engineVars, thrown, blob, published, main, stop_, ok>>

WorkerDestroyEngine ==
  /\ Goto("~engine", "~source")
  /\ EngineDestroy
  /\ UNCHANGED <<sourceVars, thrown, blob, canVars, published, main, stop_, ok>>

\* ~GstSource calls stop(); the variant is a destructor that does nothing.
DestroySourceNot ==
  /\ Goto("~source", IF thrown THEN "catch" ELSE "done")
  /\ UNCHANGED <<sourceVars, engineVars, thrown, blob, canVars, published, main, stop_, ok>>
WorkerDestroySource ==
  /\ Goto("~source", IF thrown THEN "catch" ELSE "done")
  /\ SourceStop
  /\ UNCHANGED <<engineVars, thrown, blob, canVars, published, main, stop_, ok>>

\* rclcpp::shutdown() in the handler; the variant only logs.
OkAfterCatchStill == ok
OkAfterCatch == FALSE

WorkerCatch ==
  /\ Goto("catch", "done")
  /\ ok' = OkAfterCatch
  /\ UNCHANGED <<sourceVars, engineVars, thrown, blob, canVars, published, main, stop_>>

-------------------------------------------------------------------------------
(* main(), the executor and the destructor of the node *)

\* SIGINT or SIGTERM, or a shutdown requested elsewhere.
RosShutdown ==
  /\ ok
  /\ ok' = FALSE
  /\ UNCHANGED <<sourceVars, engineVars, worker, thrown, blob, canVars, published, main, stop_>>

\* The constructor has started the worker; main() goes on into spin(), which a
\* context that is shut down by then makes return at once.
MainEnterSpin ==
  /\ main = "construct"
  /\ main' = "spin"
  /\ UNCHANGED <<sourceVars, engineVars, worker, thrown, blob, canVars, published, stop_, ok>>

\* spin() returns and drops the node: ~DetectorNode sets stop_.
MainLeaveSpin ==
  /\ main = "spin" /\ ~ok
  /\ main' = "join"
  /\ stop_' = TRUE
  /\ UNCHANGED <<sourceVars, engineVars, worker, thrown, blob, canVars, published, ok>>

MainJoin ==
  /\ main = "join"
  /\ worker = "done"
  /\ main' = "exited"
  /\ UNCHANGED <<sourceVars, engineVars, worker, thrown, blob, canVars, published, stop_, ok>>

-------------------------------------------------------------------------------
WorkerStep ==
  \/ WorkerLoad \/ WorkerBind \/ WorkerCan \/ WorkerStart
  \/ WorkerCheck \/ WorkerPull \/ WorkerSkip \/ WorkerLetterbox
  \/ WorkerInfer \/ WorkerSync \/ WorkerPublish \/ WorkerBurst \/ WorkerRecord
  \/ WorkerStop \/ WorkerUnwind \/ WorkerDestroyEngine \/ WorkerDestroySource
  \/ WorkerCatch

MainStep == MainEnterSpin \/ MainLeaveSpin \/ MainJoin

Environment ==
  \/ (Capture \/ EndOfStream) /\ UNCHANGED <<engineVars, canVars, nodeVars>>
  \/ RosShutdown

GpuStep == StreamStep /\ UNCHANGED <<sourceVars, canVars, nodeVars>>

\* The process has ended.
Ended == main = "exited" /\ UNCHANGED vars

Next == WorkerStep \/ MainStep \/ Environment \/ GpuStep \/ Ended

Spec == Init /\ [][Next]_vars

\* The threads and the GPU keep going, and a pull returns within its time-out;
\* nothing obliges the camera to deliver or ROS to shut down.
FairSpec ==
  Spec /\ WF_vars(WorkerStep) /\ WF_vars(MainStep) /\ WF_vars(GpuStep)

-------------------------------------------------------------------------------
(* Properties *)

\* The detections of a message were computed from the frame of the iteration that
\* publishes it, although infer() only queues copies and the network on a stream
\* and the host buffers are reused: none are left over from an earlier frame.
DetectionsMatchFrame ==
  published.dets = IF Outputs = <<>> THEN NoDetections ELSE published.frame

\* A sample is referenced and mapped only while the loop's Frame holds it: every
\* path of an iteration, the skipped and the aborted one too, gives the buffer
\* back to the capture pool.
SamplesReturned ==
  /\ held = {frame.sample_} \ {0} /\ mapped \subseteq held
  /\ worker \in {"check", "pull", "stop", "~engine", "done"} => held = {}

\* A frame that is pulled is newer than the last one that was used and one of the
\* SinkBuffers latest, however long an iteration took.
PulledFresh ==
  [][frame'.sample_ \notin {0, frame.sample_} =>
       /\ frame'.sample_ > blob
       /\ frame'.sample_ > camera - SinkBuffers]_vars

\* Whatever fails, the worker leaves no pipeline, appsink reference, sample,
\* stream or CAN socket behind, and no device memory but that of the one tensor
\* whose address could not be set.
WorkerLeavesNothing ==
  worker = "done" =>
    /\ pipeline_ = "none" /\ ~appsink_ /\ held = {} /\ mapped = {}
    /\ ~stream_ /\ queue = <<>> /\ ~can
    /\ \A s, t \in allocated : s = t
    /\ allocated # {} => thrown /\ input_idx_ = 0

\* A receiver can put a set of CAN frames together: they are numbered from 0, all
\* announce one total, and unless a write failed there are exactly so many of them,
\* also when there are more detections than a byte can count.
CanSetWellFormed ==
  /\ \A k \in DOMAIN wire : /\ wire[k].index = k - 1 /\ k <= wire[k].total
                            /\ wire[k].total = wire[1].total
  /\ worker = "record" /\ can /\ ~cut =>
       IF wire = <<>> THEN count = 0 ELSE Len(wire) = wire[1].total

\* A shutdown of ROS, and an exception in the worker, end the process.
ProcessEnds == (~ok \/ thrown) ~> main = "exited"
===============================================================================

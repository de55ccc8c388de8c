----------------------------- MODULE GstPipeProofs -----------------------------
(***************************************************************************)
(* TLAPS proofs about the gstpipe program, for every capacity, number of   *)
(* samples and number of media.  The inductive invariant is FeedInv of     *)
(* RtspServerProofs, which types the pipeline and the server, and Control: *)
(* what the place of main() says about the threads, the graph and the      *)
(* server, through the normal teardown and through every start-up step     *)
(* that throws.                                                            *)
(***************************************************************************)
EXTENDS GstPipe, RtspServerProofs

ThreadsTypeOK ==
  /\ main \in Labels
  /\ run \in BOOLEAN /\ unwinding \in BOOLEAN
  /\ rawConsumer \in {"none", "check", "pop", "exited"}
  /\ reporter \in {"none", "check", "sleep", "exited"}

FeederEnded == feeder \in {"none", "exited"}
Stopping == main \in {"stop", "stop_wait", "close_enc", "close_raw", "free"}
ShuttingDown == main \in {"shutdown_close", "shutdown_join", "shutdown_release"}

\* The body of main() runs before the destructors, which run to the end.
Unwound ==
  /\ main \in {"build", "attach", "start", "spawn_raw", "spawn_reporter", "loop",
               "run_false", "join_raw", "join_reporter"} => ~unwinding
  /\ main \in {"free", "exited"} => unwinding

\* Which threads of main() exist.
Workers ==
  /\ main \in {"build", "attach", "start", "spawn_raw"} => rawConsumer = "none"
  /\ main \in {"build", "attach", "start", "spawn_raw", "spawn_reporter"}
       => reporter = "none"
  /\ main = "join_reporter" => rawConsumer = "exited"
  /\ unwinding => rawConsumer \in {"none", "exited"} /\ reporter \in {"none", "exited"}

\* The feeder runs only under a server that is running or being shut down, and
\* so does the listening source.
Server ==
  /\ main \in {"build", "attach"} => feeder = "none" /\ ~running_
  /\ ~FeederEnded => running_ \/ main \in {"shutdown_close", "shutdown_join"}
  /\ source_id_ => running_ \/ ShuttingDown
  /\ server_ /\ feeder # "none" => running_ \/ ShuttingDown
  /\ ShuttingDown => ~running_
  /\ unwinding /\ Stopping => ~running_
  /\ main = "exited" => ~running_

\* A graph that is not playing has no callback in progress.
Graph ==
  /\ main = "build" => pipeline_ = "none"
  /\ pipeline_ \in {"none", "null"} => encSample = NoFrame /\ rawSample = 0
  /\ main \in {"close_enc", "close_raw", "free", "exited"} => pipeline_ \in {"none", "null"}

Control == ThreadsTypeOK /\ Unwound /\ Workers /\ Server /\ Graph

IInv == FeedInv /\ Control

USE QueueCapacityAssumption, SampleBoundAssumption, PtsValidityAssumption,
    MediaAssumption

\* The initial states satisfy the invariant.
LEMMA InitInv == Init => IInv
<1> SUFFICES ASSUME Init PROVE IInv
  OBVIOUS
<1>1. FeedInv
  BY FeedInit DEF Init
<1>2. run \in BOOLEAN /\ unwinding \in BOOLEAN
  BY Zenon DEF Init
<1>3. ThreadsTypeOK
  BY <1>2 DEF Init, ThreadsTypeOK, Labels
<1>4. Unwound /\ Workers
  BY DEF Init, Unwound, Workers
<1>5. Server /\ Graph
  BY DEF Init, Server, Graph, RtspInit, PipelineInit, FeederEnded, ShuttingDown, Stopping
<1> QED BY <1>1, <1>3, <1>4, <1>5 DEF IInv, Control

\* The invariant implies the properties.
LEMMA InvImplies == IInv => TypeOK /\ JoinedBeforeDestroyed /\ ReleasedAtExit
<1> SUFFICES ASSUME IInv PROVE TypeOK /\ JoinedBeforeDestroyed /\ ReleasedAtExit
  OBVIOUS
<1> USE DEF IInv, Control
<1>1. TypeOK
  BY DEF TypeOK, ThreadsTypeOK, FeedInv
<1>2. JoinedBeforeDestroyed
  BY DEF JoinedBeforeDestroyed, Unwound, Workers, Server, Graph, FeederEnded, Stopping
<1>3. ReleasedAtExit
  BY DEF ReleasedAtExit, Unwound, Server, Stopping, ShuttingDown
<1> QED BY <1>1, <1>2, <1>3

-------------------------------------------------------------------------------
(* FeedInv under the steps of main() and of its threads *)

\* A step of a thread of main(), or one of main() that calls neither object.
LEMMA FeedUnchanged ==
  ASSUME FeedInv, UNCHANGED <<pipelineVars, rtspVars>>
  PROVE  FeedInv'
  BY QuietKeeps
  DEF pipelineVars, rtspVars, mediaVars, FeedInv, PipelineTypeOK, RtspTypeOK

\* A call on the pipeline from main() or its destructor.
LEMMA FeedPipelineCall ==
  ASSUME FeedInv, MainBuild \/ MainStart \/ MainStop \/ MainFree
  PROVE  FeedInv'
<1>1. UNCHANGED rtspVars
  BY DEF MainBuild, MainStart, MainStop, MainFree, OnPipeline
<1>2. CASE StopCloseEnc("close_enc", "close_raw")
  BY <1>1, <1>2, CloseKeeps DEF StopCloseEnc
<1>3. CASE StopCloseRaw("close_raw", AfterStop)
  <2>1. raw_q_' \in [items : Seq(1 .. MaxRaw), closed : BOOLEAN]
    BY <1>3 DEF StopCloseRaw, CloseQueue, FeedInv, PipelineTypeOK
  <2> QED BY <1>1, <1>3, <2>1, QuietKeeps
      DEF StopCloseRaw, rtspVars, mediaVars, streamVars, FeedInv, PipelineTypeOK,
          RtspTypeOK
<1>4. CASE Build("build", "attach") \/ ReleasePipeline("free", "exited")
  <2>1. bus_watch_' \in BOOLEAN
    BY <1>4, Zenon DEF Build, ReleasePipeline
  <2> QED BY <1>1, <1>4, <2>1, QuietKeeps
      DEF Build, ReleasePipeline, rtspVars, mediaVars, streamVars, FeedInv,
          PipelineTypeOK, RtspTypeOK
<1>5. CASE \/ BuildThrows("build", "stop") \/ Start("start", "spawn_raw")
           \/ StartThrows("start", "shutdown") \/ StopNothing("stop", AfterStop)
           \/ StopSetNull("stop", "stop_wait") \/ StopNullDone("stop_wait", "close_enc")
  BY <1>1, <1>5, QuietKeeps
  DEF BuildThrows, Start, StartThrows, StopNothing, StopSetNull, StopNullDone,
      pipelineVars, rtspVars, mediaVars, streamVars, FeedInv, PipelineTypeOK, RtspTypeOK
<1> QED BY <1>2, <1>3, <1>4, <1>5 DEF MainBuild, MainStart, MainStop, MainFree

\* A call on the server.
LEMMA FeedServerCall ==
  ASSUME IInv, MainAttach \/ MainShutdown \/ MainShutdownClose
  PROVE  FeedInv'
<1>1. CASE MainShutdownClose
  BY <1>1, CloseKeeps DEF MainShutdownClose, ShutdownClose, IInv
<1>2. CASE MainAttach
  <2>1. UNCHANGED pipelineVars /\ feeder = "none"
    BY <1>2 DEF MainAttach, OnServer, Attach, AttachRefused, AttachThrows, Goto, IInv,
                Control, Server
  <2>2. CASE Attach("attach", "start")
    BY <2>1, <2>2, AttachKeeps DEF IInv
  <2>3. CASE AttachRefused("attach", "start") \/ AttachThrows("attach", "shutdown")
    <3>1. server_' \in BOOLEAN /\ source_id_' \in BOOLEAN /\ running_' \in BOOLEAN
      BY <2>3, Zenon DEF AttachRefused, AttachThrows, IInv, FeedInv, RtspTypeOK
    <3> QED BY <2>1, <2>3, <3>1, QuietKeeps
        DEF AttachRefused, AttachThrows, pipelineVars, mediaVars, IInv, FeedInv,
            PipelineTypeOK, RtspTypeOK
  <2> QED BY <1>2, <2>2, <2>3 DEF MainAttach
<1>3. CASE MainShutdown
  <2>1. UNCHANGED pipelineVars
    BY <1>3 DEF MainShutdown, OnServer
  <2>2. CASE \/ ShutdownNothing("shutdown", AfterShutdown)
             \/ ShutdownJoin("shutdown_join", "shutdown_release")
    BY <2>1, <2>2, FeedUnchanged DEF ShutdownNothing, ShutdownJoin, IInv
  <2>3. CASE ShutdownBegin("shutdown", "shutdown_close")
    <3>1. running_' \in BOOLEAN
      BY <2>3, Zenon DEF ShutdownBegin
    <3> QED BY <2>1, <2>3, <3>1, QuietKeeps
        DEF ShutdownBegin, pipelineVars, mediaVars, IInv, FeedInv, PipelineTypeOK,
            RtspTypeOK
  <2>4. CASE ShutdownRelease("shutdown_release", AfterShutdown)
    BY <2>1, <2>4, ShutdownReleaseKeeps DEF IInv
  <2> QED BY <1>3, <2>2, <2>3, <2>4 DEF MainShutdown
<1> QED BY <1>1, <1>2, <1>3

\* The elements that evicting or popping the oldest one leaves.
LEMMA TailElements ==
  ASSUME NEW S, NEW s \in Seq(S), s # <<>>
  PROVE  Tail(s) \in Seq(S)
  OBVIOUS

\* A sample of the raw branch, and the raw consumer's pop.
LEMMA FeedRaw ==
  ASSUME FeedInv, OnNewRawSample \/ PushRawSample \/ RawPop, UNCHANGED rtspVars
  PROVE  FeedInv'
<1> USE DEF FeedInv
<1>1. raw_q_.items \in Seq(1 .. MaxRaw) /\ raw_q_.closed \in BOOLEAN
  BY DEF PipelineTypeOK
<1>2. UNCHANGED <<pipeline_, bus_watch_, enc_q_, pts_counter_, encSample, nEncoded>>
  BY DEF OnNewRawSample, PushRawSample, RawPop, streamVars
<1>3. rawSample' \in 0 .. MaxRaw /\ nRaw' \in 0 .. MaxRaw
  BY DEF OnNewRawSample, PushRawSample, RawPop, streamVars, PipelineTypeOK
<1>4. raw_q_' \in [items : Seq(1 .. MaxRaw), closed : BOOLEAN]
  <2>1. CASE OnNewRawSample
    BY <2>1 DEF OnNewRawSample, PipelineTypeOK
  <2>2. CASE PushRawSample
    <3>1. rawSample \in 1 .. MaxRaw
      BY <2>2 DEF PushRawSample, PipelineTypeOK
    <3>2. CASE Len(raw_q_.items) >= RawCapacity
      <4>1. Append(Tail(raw_q_.items), rawSample) \in Seq(1 .. MaxRaw)
        <5>1. raw_q_.items # <<>>
          BY <1>1, <3>2
        <5>2. Tail(raw_q_.items) \in Seq(1 .. MaxRaw)
          BY <1>1, <5>1, TailElements
        <5> QED BY <3>1, <5>2
      <4> QED BY <2>2, <3>2, <4>1 DEF PushRawSample, PushTo, PipelineTypeOK
    <3>3. CASE ~(Len(raw_q_.items) >= RawCapacity)
      <4>1. Append(raw_q_.items, rawSample) \in Seq(1 .. MaxRaw)
        BY <1>1, <3>1
      <4> QED BY <2>2, <3>3, <4>1 DEF PushRawSample, PushTo, PipelineTypeOK
    <3> QED BY <3>2, <3>3
  <2>3. CASE RawPop
    <3>1. raw_q_.items # <<>> => Tail(raw_q_.items) \in Seq(1 .. MaxRaw)
      BY <1>1, TailElements
    <3> QED BY <2>3, <3>1 DEF RawPop, HasItem, WithoutFront, PipelineTypeOK
  <2> QED BY <2>1, <2>2, <2>3
<1> QED BY <1>2, <1>3, <1>4, QuietKeeps
    DEF rtspVars, mediaVars, PipelineTypeOK, RtspTypeOK

\* Every step preserves FeedInv.
LEMMA FeedNext ==
  ASSUME IInv, [Next]_vars
  PROVE  FeedInv'
<1>1. CASE MainStep
  <2>1. CASE SpawnRaw \/ SpawnReporter \/ RunFalse \/ JoinRaw \/ JoinReporter
    BY <2>1, FeedUnchanged
    DEF SpawnRaw, SpawnReporter, RunFalse, JoinRaw, JoinReporter, IInv
  <2> QED BY <1>1, <2>1, FeedPipelineCall, FeedServerCall DEF MainStep, IInv
<1>2. CASE OnUnixSignal \/ OnBusMessage \/ Ended \/ UNCHANGED vars
  BY <1>2, FeedUnchanged DEF OnUnixSignal, OnBusMessage, Ended, vars, IInv
<1>3. CASE StreamStep
  BY <1>3, OnNewEncodedSampleKeeps, PushEncodedSampleKeeps, FeedRaw DEF StreamStep, IInv
<1>4. CASE FeederPopStep
  BY <1>4, FeederPopKeeps DEF FeederPopStep, IInv
<1>5. CASE FeederStep
  BY <1>5, FeederCheckKeeps, FeederGateKeeps, FeederGrabKeeps, FeederPushKeeps
  DEF FeederStep, FeederLocal, IInv
<1>6. CASE MediaStep
  <2>1. CASE ClientConnects("loop")
    <3>1. connected' \in BOOLEAN
      BY <2>1, Zenon DEF ClientConnects
    <3> QED BY <1>6, <2>1, <3>1, QuietKeeps
        DEF ClientConnects, MediaStep, pipelineVars, IInv, FeedInv, PipelineTypeOK,
            RtspTypeOK
  <2> QED
    BY <1>6, <2>1, OnMediaConfigureKeeps, OnMediaConfiguredKeeps, ClientPullKeeps,
       OnNeedDataKeeps, MediaGoesKeeps
    DEF MediaStep, IInv
<1>7. CASE WorkerStep
  <2>1. CASE RawPop
    BY <2>1, FeedRaw DEF RawPop, IInv
  <2> QED BY <1>7, <2>1, FeedUnchanged
      DEF WorkerStep, RawCheck, ReporterCheck, ReporterReport, IInv
<1> QED BY <1>1, <1>2, <1>3, <1>4, <1>5, <1>6, <1>7 DEF Next

-------------------------------------------------------------------------------
(* Control under the steps of main() and of its threads *)

\* Start-up goes on, or throws into the destructors that fit what exists.
LEMMA ControlStartUp ==
  ASSUME IInv, MainBuild \/ MainAttach \/ MainStart \/ SpawnRaw \/ SpawnReporter
  PROVE  Control'
<1> USE DEF IInv, Control, Goto, pipelineVars, streamVars, rtspVars, feederVars, mediaVars,
            mainVars, MainBuild, Build, BuildThrows, MainAttach, Attach, AttachRefused,
            AttachThrows, MainStart, Start, StartThrows, SpawnRaw, SpawnReporter,
            OnPipeline, OnServer
<1>1. ThreadsTypeOK'
  BY DEF ThreadsTypeOK, Labels
<1>2. Unwound'
  BY DEF Unwound
<1>3. Workers'
  BY DEF Workers, Unwound
<1>4. Server'
  BY DEF Server, FeederEnded, Stopping, ShuttingDown, Unwound
<1>5. Graph'
  BY DEF Graph
<1> QED BY <1>1, <1>2, <1>3, <1>4, <1>5

\* The loop ends and the pipeline is stopped and released.
LEMMA ControlStop ==
  ASSUME IInv, OnUnixSignal \/ OnBusMessage \/ RunFalse \/ MainStop \/ MainFree
  PROVE  Control'
<1> USE DEF IInv, Control, Goto, pipelineVars, streamVars, rtspVars, feederVars, mediaVars,
            mainVars, OnUnixSignal, OnBusMessage, RunFalse, MainStop, StopNothing, StopSetNull,
            StopNullDone, NullReached, StopCloseEnc, StopCloseRaw, AfterStop, MainFree,
            ReleasePipeline, OnPipeline
<1>1. ThreadsTypeOK'
  BY DEF ThreadsTypeOK, Labels
<1>2. Unwound'
  BY DEF Unwound
<1>3. Workers'
  BY DEF Workers, Unwound
<1>4. Server'
  BY DEF Server, FeederEnded, Stopping, ShuttingDown, Unwound
<1>5. Graph'
  BY DEF Graph
<1> QED BY <1>1, <1>2, <1>3, <1>4, <1>5

\* The server is shut down and the worker threads are joined.
LEMMA ControlShutdown ==
  ASSUME IInv, MainShutdown \/ MainShutdownClose \/ JoinRaw \/ JoinReporter
  PROVE  Control'
<1> USE DEF IInv, Control, Goto, pipelineVars, streamVars, rtspVars, feederVars, mediaVars,
            mainVars, MainShutdown, ShutdownNothing, ShutdownBegin, ShutdownJoin,
            ShutdownRelease, AfterShutdown, MainShutdownClose, ShutdownClose, JoinRaw,
            JoinReporter, OnServer
<1>1. ThreadsTypeOK'
  BY DEF ThreadsTypeOK, Labels
<1>2. Unwound'
  BY DEF Unwound
<1>3. Workers'
  BY DEF Workers, Unwound
<1>4. Server'
  BY DEF Server, FeederEnded, Stopping, ShuttingDown, Unwound
<1>5. Graph'
  BY DEF Graph
<1> QED BY <1>1, <1>2, <1>3, <1>4, <1>5

\* The appsink callbacks and the threads of main().
LEMMA ControlStreams ==
  ASSUME IInv, StreamStep \/ WorkerStep
  PROVE  Control'
<1> USE DEF IInv, Control, Goto, pipelineVars, streamVars, rtspVars, feederVars, mediaVars,
            mainVars, StreamStep, OnNewEncodedSample, PushEncodedSample, OnNewRawSample,
            PushRawSample, WorkerStep, RawCheck, RawPop, ReporterCheck, ReporterReport
<1>1. ThreadsTypeOK'
  BY DEF ThreadsTypeOK, Labels
<1>2. Unwound'
  BY DEF Unwound
<1>3. Workers'
  BY DEF Workers, Unwound
<1>4. Server'
  BY DEF Server, FeederEnded, Stopping, ShuttingDown, Unwound
<1>5. Graph'
  BY DEF Graph
<1> QED BY <1>1, <1>2, <1>3, <1>4, <1>5

\* The feeder and the media callbacks.
LEMMA ControlFeeding ==
  ASSUME IInv, FeederPopStep \/ FeederStep \/ MediaStep
  PROVE  Control'
<1> USE DEF IInv, Control, Goto, pipelineVars, streamVars, rtspVars, feederVars, mediaVars,
            mainVars, FeederPopStep, FeederPop, FeederStep, FeederLocal, FeederCheck, FeederGate,
            FeederGrab, FeederPush, FeederPushOK, FeederPushFlushing, FeederGoto, MediaStep,
            ClientConnects, OnMediaConfigure, OnMediaConfigured, ClientPull, OnNeedData,
            MediaUnprepare, MediaFinalize
<1>1. ThreadsTypeOK'
  BY DEF ThreadsTypeOK, Labels
<1>2. Unwound'
  BY DEF Unwound
<1>3. Workers'
  BY DEF Workers, Unwound
<1>4. Server'
  BY DEF Server, FeederEnded, Stopping, ShuttingDown, Unwound
<1>5. Graph'
  BY DEF Graph
<1> QED BY <1>1, <1>2, <1>3, <1>4, <1>5

\* Every step preserves the invariant.
LEMMA NextInv ==
  ASSUME IInv, [Next]_vars
  PROVE  IInv'
<1>1. FeedInv'
  BY FeedNext
<1>2. CASE Ended \/ UNCHANGED vars
  BY <1>1, <1>2
  DEF Ended, vars, pipelineVars, rtspVars, feederVars, mainVars, IInv, Control,
      ThreadsTypeOK, Unwound, Workers, Server, Graph, FeederEnded, Stopping, ShuttingDown
<1> QED
  BY <1>1, <1>2, ControlStartUp, ControlStop, ControlShutdown, ControlStreams,
     ControlFeeding
  DEF Next, MainStep, IInv

\* The inductive invariant holds.
THEOREM InvariantHolds == Spec => []IInv
  BY InitInv, NextInv, PTL DEF Spec

\* Every variable of the program keeps its type: the frame counts, the queue levels
\* and the reference counts stay within their bounds.
THEOREM TypeCorrect == Spec => []TypeOK
  BY InvariantHolds, InvImplies, PTL

\* Nothing is destroyed under a thread that uses it, on the way out of main() and on
\* the way out of every step of the start-up that throws.
THEOREM JoinedHolds == Spec => []JoinedBeforeDestroyed
  BY InvariantHolds, InvImplies, PTL

\* At the end the listening source is closed and the server released.
THEOREM ReleasedHolds == Spec => []ReleasedAtExit
  BY InvariantHolds, InvImplies, PTL
===============================================================================

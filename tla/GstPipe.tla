------------------------------- MODULE GstPipe -------------------------------
(***************************************************************************)
(* The gstpipe program (src/main.cpp): main() builds the pipeline, attaches*)
(* the RTSP server, starts streaming, runs the raw consumer and the        *)
(* reporter, waits in the GLib main loop, and takes everything down again, *)
(* on a signal, on a bus error or end of stream, or because a step of the  *)
(* start-up threw.  It composes Pipeline and RtspServer with the threads   *)
(* that main() creates.                                                    *)
(*                                                                         *)
(* main walks through the statements of main(); unwinding says that it is  *)
(* in the destructors of the try block's objects: ~RtspServer, whose       *)
(* shutdown() comes first, then ~Pipeline with its stop().                 *)
(***************************************************************************)
EXTENDS RtspServer

VARIABLES run,          \* the flag the two worker threads poll
          unwinding,
          rawConsumer,  \* the raw_consumer thread
          reporter      \* the reporter thread

mainVars == <<run, unwinding>>
vars == <<main, pipelineVars, rtspVars, mainVars, rawConsumer, reporter>>

Labels ==
  {"build", "attach", "start", "spawn_raw", "spawn_reporter", "loop", "run_false",
   "stop", "stop_wait", "close_enc", "close_raw",
   "shutdown", "shutdown_close", "shutdown_join", "shutdown_release",
   "join_raw", "join_reporter", "free", "exited", "terminated"}

\* Every variable has its type.
TypeOK ==
  /\ main \in Labels
  /\ PipelineTypeOK /\ RtspTypeOK
  /\ run \in BOOLEAN /\ unwinding \in BOOLEAN
  /\ rawConsumer \in {"none", "check", "pop", "exited"}
  /\ reporter \in {"none", "check", "sleep", "exited"}

Init ==
  /\ main = "build"
  /\ PipelineInit /\ RtspInit
  /\ run = TRUE /\ unwinding = FALSE
  /\ rawConsumer = "none" /\ reporter = "none"

-------------------------------------------------------------------------------
(* main(): start-up *)

\* A step of main() that is a call on the pipeline, on the server, or neither.
OnPipeline == UNCHANGED <<rtspVars, rawConsumer, reporter, run>>
OnServer == UNCHANGED <<pipelineVars, rawConsumer, reporter, run>>

MainBuild ==
  /\ \/ Build("build", "attach") /\ UNCHANGED unwinding
     \/ BuildThrows("build", "stop") /\ unwinding' = TRUE
  /\ OnPipeline

MainAttach ==
  /\ \/ Attach("attach", "start") /\ UNCHANGED unwinding
     \/ AttachRefused("attach", "start") /\ UNCHANGED unwinding
     \/ AttachThrows("attach", "shutdown") /\ unwinding' = TRUE
  /\ OnServer

MainStart ==
  /\ \/ Start("start", "spawn_raw") /\ UNCHANGED unwinding
     \/ StartThrows("start", "shutdown") /\ unwinding' = TRUE
  /\ OnPipeline

\* std::thread may fail to start a thread and throw.
SpawnRaw ==
  /\ \/ /\ Goto("spawn_raw", "spawn_reporter")
        /\ rawConsumer' = "check"
        /\ UNCHANGED unwinding
     \/ /\ Goto("spawn_raw", "shutdown")
        /\ unwinding' = TRUE
        /\ UNCHANGED rawConsumer
  /\ UNCHANGED <<pipelineVars, rtspVars, run, reporter>>

\* When the second thread fails, the first one is destroyed while joinable and
\* std::terminate ends the program.
SpawnReporter ==
  /\ \/ Goto("spawn_reporter", "loop") /\ reporter' = "check"
     \/ Goto("spawn_reporter", "terminated") /\ UNCHANGED reporter
  /\ UNCHANGED <<pipelineVars, rtspVars, mainVars, rawConsumer>>

-------------------------------------------------------------------------------
(* The main loop's callbacks *)

\* on_unix_signal, from the main loop.
OnUnixSignal ==
  /\ Goto("loop", "run_false")
  /\ UNCHANGED <<pipelineVars, rtspVars, mainVars, rawConsumer, reporter>>

\* on_bus_message: ERROR and EOS call the error handler of main(), which clears
\* run and quits the loop; the other messages are only logged.
OnBusMessage ==
  /\ bus_watch_
  /\ Goto("loop", "run_false")
  /\ run' = FALSE
  /\ UNCHANGED <<pipelineVars, rtspVars, unwinding, rawConsumer, reporter>>

-------------------------------------------------------------------------------
(* main(): teardown, and the destructors *)

RunFalse ==
  /\ Goto("run_false", "stop")
  /\ run' = FALSE
  /\ UNCHANGED <<pipelineVars, rtspVars, unwinding, rawConsumer, reporter>>

\* Where stop() and shutdown() return to: in the body of main() the pipeline is
\* stopped before the server is shut down, in the destructors it is the other
\* way round.
AfterStop == IF unwinding THEN "free" ELSE "shutdown"
AfterShutdown == IF unwinding THEN "stop" ELSE "join_raw"

MainStop ==
  /\ \/ StopNothing("stop", AfterStop)
     \/ StopSetNull("stop", "stop_wait")
     \/ StopNullDone("stop_wait", "close_enc")
     \/ StopCloseEnc("close_enc", "close_raw")
     \/ StopCloseRaw("close_raw", AfterStop)
  /\ OnPipeline /\ UNCHANGED unwinding

MainShutdown ==
  /\ \/ ShutdownNothing("shutdown", AfterShutdown)
     \/ ShutdownBegin("shutdown", "shutdown_close")
     \/ ShutdownJoin("shutdown_join", "shutdown_release")
     \/ ShutdownRelease("shutdown_release", AfterShutdown)
  /\ OnServer /\ UNCHANGED unwinding

MainShutdownClose ==
  /\ ShutdownClose("shutdown_close", "shutdown_join")
  /\ UNCHANGED <<mainVars, rawConsumer, reporter>>

JoinRaw ==
  /\ Goto("join_raw", "join_reporter")
  /\ rawConsumer = "exited"
  /\ UNCHANGED <<pipelineVars, rtspVars, mainVars, rawConsumer, reporter>>

\* The variant leaves the reporter running.
JoinReporterNot ==
  /\ Goto("join_reporter", "shutdown")
  /\ unwinding' = TRUE
  /\ UNCHANGED <<pipelineVars, rtspVars, run, rawConsumer, reporter>>
JoinReporter ==
  /\ Goto("join_reporter", "shutdown")
  /\ reporter = "exited"
  /\ unwinding' = TRUE
  /\ UNCHANGED <<pipelineVars, rtspVars, run, rawConsumer, reporter>>

MainFree ==
  /\ ReleasePipeline("free", "exited")
  /\ OnPipeline /\ UNCHANGED unwinding

-------------------------------------------------------------------------------
(* The worker threads of main() *)

RawCheck ==
  /\ rawConsumer = "check"
  /\ rawConsumer' = IF run THEN "pop" ELSE "exited"
  /\ UNCHANGED <<main, pipelineVars, rtspVars, mainVars, reporter>>

RawPop ==
  /\ rawConsumer = "pop"
  /\ CanPop(raw_q_)
  /\ \/ /\ HasItem(raw_q_)
        /\ raw_q_' = WithoutFront(raw_q_)
        /\ rawConsumer' = "check"
     \/ /\ ~HasItem(raw_q_)
        /\ rawConsumer' = "exited"
        /\ UNCHANGED raw_q_
  /\ UNCHANGED <<main, pipeline_, bus_watch_, enc_q_, streamVars, rtspVars, mainVars,
                 reporter>>

ReporterCheck ==
  /\ reporter = "check"
  /\ reporter' = IF run THEN "sleep" ELSE "exited"
  /\ UNCHANGED <<main, pipelineVars, rtspVars, mainVars, rawConsumer>>

\* The second of sleep ends and the counters are read and printed.
ReporterReport ==
  /\ reporter = "sleep"
  /\ reporter' = "check"
  /\ UNCHANGED <<main, pipelineVars, rtspVars, mainVars, rawConsumer>>

-------------------------------------------------------------------------------
(* Composition *)

MainStep ==
  MainBuild \/ MainAttach \/ MainStart \/ SpawnRaw \/ SpawnReporter \/ RunFalse
    \/ MainStop \/ MainShutdown \/ MainShutdownClose \/ JoinRaw \/ JoinReporter
    \/ MainFree

\* The process is alive.
Alive == main \notin {"exited", "terminated"}

\* The RtspServer object exists; on_media_configure dereferences it.
ServerAlive == Alive /\ ~(unwinding /\ main \in {"stop", "stop_wait", "close_enc",
                                                 "close_raw", "free"})

StreamStep ==
  /\ Alive
  /\ OnNewEncodedSample \/ PushEncodedSample \/ OnNewRawSample \/ PushRawSample
  /\ UNCHANGED <<main, rtspVars, mainVars, rawConsumer, reporter>>

FeederPopStep ==
  /\ Alive
  /\ FeederPop
  /\ UNCHANGED <<main, mainVars, rawConsumer, reporter>>

FeederStep ==
  /\ Alive
  /\ FeederLocal
  /\ UNCHANGED <<main, pipelineVars, mainVars, rawConsumer, reporter>>

MediaStep ==
  /\ ServerAlive
  /\ \/ ClientConnects("loop")
     \/ \E m \in Media :
          \/ OnMediaConfigure(m) \/ OnMediaConfigured(m)
          \/ ClientPull(m) \/ OnNeedData(m)
          \/ MediaUnprepare(m) \/ MediaFinalize(m)
  /\ UNCHANGED <<main, pipelineVars, mainVars, rawConsumer, reporter>>

WorkerStep == Alive /\ (RawCheck \/ RawPop \/ ReporterCheck \/ ReporterReport)

\* The process has ended.
Ended == ~Alive /\ UNCHANGED vars

Next ==
  \/ MainStep \/ OnUnixSignal \/ OnBusMessage
  \/ StreamStep \/ FeederPopStep \/ FeederStep \/ MediaStep \/ WorkerStep
  \/ Ended

Spec == Init /\ [][Next]_vars

\* Threads run: main() between its blocking calls, the callback a streaming thread
\* is in, the feeder, the raw consumer and the reporter.  Cameras, clients,
\* signals and bus messages come when they like, or never.
Fairness ==
  /\ WF_vars(MainStep)
  /\ WF_vars(Alive /\ PushEncodedSample
               /\ UNCHANGED <<main, rtspVars, mainVars, rawConsumer, reporter>>)
  /\ WF_vars(Alive /\ PushRawSample
               /\ UNCHANGED <<main, rtspVars, mainVars, rawConsumer, reporter>>)
  /\ WF_vars(FeederPopStep \/ FeederStep)
  /\ WF_vars(Alive /\ (RawCheck \/ RawPop))
  /\ WF_vars(Alive /\ (ReporterCheck \/ ReporterReport))

FairSpec == Spec /\ Fairness

-------------------------------------------------------------------------------
(* Properties *)

\* Nothing is destroyed under a thread that uses it: the workers have ended when
\* the destructors begin, the feeder when ~RtspServer is done, the appsink
\* callbacks when ~Pipeline frees the graph and the queues.
JoinedBeforeDestroyed ==
  /\ unwinding => rawConsumer \in {"none", "exited"} /\ reporter \in {"none", "exited"}
  /\ unwinding /\ main \in {"stop", "stop_wait", "close_enc", "close_raw", "free", "exited"}
       => feeder \in {"none", "exited"}
  /\ main \in {"free", "exited"} => encSample = NoFrame /\ rawSample = 0

\* Once main() has left the loop, or a step of the start-up has thrown, the
\* program exits: no join waits for a thread that nobody wakes.  After a failed
\* start() only the close() in shutdown() wakes the feeder.
TeardownCompletes == (main = "run_false" \/ unwinding) ~> main = "exited"

\* When the program ends, the listening socket is closed and the server released,
\* whichever step of the start-up threw.  Only a server that was refused by the main
\* context, and so never had a feeder, is left: shutdown() does not see it.
ReleasedAtExit ==
  main \in {"free", "exited"} => ~source_id_ /\ ~running_ /\ (server_ => feeder = "none")
==============================================================================

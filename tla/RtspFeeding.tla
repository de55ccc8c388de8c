----------------------------- MODULE RtspFeeding -----------------------------
(***************************************************************************)
(* RtspServer at work, without the rest of main(): its owner attaches it   *)
(* to a pipeline, starts streaming, and at some point shuts the server     *)
(* down while the pipeline may still be producing.  The encoder branch, the*)
(* feeder and the media callbacks interleave freely.                       *)
(***************************************************************************)
EXTENDS RtspServer

vars == <<main, pipelineVars, rtspVars>>

Init ==
  /\ main = "build"
  /\ PipelineInit /\ RtspInit

OnPipeline == UNCHANGED rtspVars
OnServer == UNCHANGED pipelineVars

OwnerStep ==
  \/ Build("build", "attach") /\ OnPipeline
  \/ Attach("attach", "start") /\ OnServer
  \/ Start("start", "loop") /\ OnPipeline
  \/ ShutdownBegin("loop", "shutdown_close") /\ OnServer
  \/ ShutdownClose("shutdown_close", "shutdown_join")
  \/ ShutdownJoin("shutdown_join", "shutdown_release") /\ OnServer
  \/ ShutdownRelease("shutdown_release", "done") /\ OnServer

StreamStep ==
  /\ OnNewEncodedSample \/ PushEncodedSample
  /\ UNCHANGED <<main, rtspVars>>

FeederStep ==
  /\ FeederPop \/ (FeederLocal /\ OnServer)
  /\ UNCHANGED main

MediaStep ==
  /\ \/ ClientConnects("loop")
     \/ \E m \in Media :
          \/ OnMediaConfigure(m) \/ OnMediaConfigured(m)
          \/ ClientPull(m) \/ OnNeedData(m)
          \/ MediaUnprepare(m) \/ MediaFinalize(m)
  /\ OnServer /\ UNCHANGED main

\* The owner is done with the server; what is left of the media may stand still.
Ended == main = "done" /\ UNCHANGED vars

Next == OwnerStep \/ StreamStep \/ FeederStep \/ MediaStep \/ Ended

Spec == Init /\ [][Next]_vars
==============================================================================

-------------------------------- MODULE ZcV4l2 --------------------------------
(***************************************************************************)
(* The zcv4l2 program (src/main.cpp of zero-copy-v4l2-capture): one thread *)
(* opens the capture, dequeues and releases frames until enough were       *)
(* grabbed or a signal arrived, and leaves; any call on the capture may    *)
(* throw, and then its destructor runs stop() and close() before the       *)
(* handler of main() ends the program.                                     *)
(***************************************************************************)
EXTENDS V4L2Capture

CONSTANTS RawOut,        \* --raw-out was given
          FramesToGrab   \* --frames; 0 runs until a signal

ASSUME OptionsAssumption == RawOut \in BOOLEAN /\ FramesToGrab \in Nat

VARIABLES pc,       \* the statement main() is at
          g_stop,
          grabbed,
          out_fd,   \* the raw output file is open
          frame,    \* the buffer of the frame f of the loop body, 0 for none
          status    \* the exit status to come

vars == <<captureVars, pc, g_stop, grabbed, out_fd, frame, status>>
locals == <<grabbed, out_fd, frame, status>>

Init ==
  /\ CaptureInit
  /\ pc = "out" /\ g_stop = FALSE
  /\ grabbed = 0 /\ out_fd = FALSE /\ frame = 0 /\ status = 0

Goto(from, to) == pc = from /\ pc' = to

\* An exception leaves the try block: ~V4L2Capture, then the handler.
Throw(from) == Goto(from, "dtor_stop") /\ status' = 1

OpenRawOut ==
  /\ \/ Goto("out", "open") /\ out_fd' = RawOut /\ UNCHANGED status
     \/ RawOut /\ Goto("out", "exited") /\ status' = 1 /\ UNCHANGED out_fd
  /\ UNCHANGED <<captureVars, g_stop, grabbed, frame>>

OpenCapture ==
  /\ \/ OpenOK /\ Goto("open", "start") /\ UNCHANGED status
     \/ OpenThrows /\ Throw("open")
  /\ UNCHANGED <<g_stop, grabbed, out_fd, frame>>

StartCapture ==
  /\ \/ StartOK /\ Goto("start", "loop") /\ UNCHANGED status
     \/ StartThrows /\ Throw("start")
  /\ UNCHANGED <<g_stop, grabbed, out_fd, frame>>

\* The loop condition; the variant does not look at g_stop.
MoreFrames == FramesToGrab = 0 \/ grabbed < FramesToGrab
MoreWanted == ~g_stop /\ (FramesToGrab = 0 \/ grabbed < FramesToGrab)

\* What the body does with a frame: it always reaches release(), for a corrupt
\* frame too; the variant skips that one.
ReleasesSound(f) == IF f.error THEN "loop" ELSE "release"
Releases(f) == "release"

\* The loop ends ...
LeaveLoop ==
  /\ Goto("loop", "stop")
  /\ ~MoreWanted
  /\ UNCHANGED <<captureVars, g_stop, locals>>

\* ... or next() delivers a frame, which is written out unless it is corrupt ...
LoopFrame ==
  /\ MoreWanted
  /\ doneq # <<>>
  /\ NextFrame(Head(doneq))
  /\ Goto("loop", Releases(Head(doneq)))
  /\ frame' = Head(doneq).index
  /\ UNCHANGED <<g_stop, grabbed, out_fd, status>>

\* ... or times out, and the condition is looked at again ...
LoopTimeout ==
  /\ MoreWanted
  /\ NextNothing
  /\ Goto("loop", "loop")
  /\ UNCHANGED <<g_stop, locals>>

\* ... or throws: poll() reports an error, or DQBUF of a ready buffer fails.
LoopThrows ==
  /\ MoreWanted
  /\ PollError \/ doneq # <<>>
  /\ NextThrows
  /\ Throw("loop")
  /\ UNCHANGED <<g_stop, grabbed, out_fd, frame>>

ReleaseFrame ==
  /\ \/ ReleaseOK(frame) /\ Goto("release", "loop") /\ grabbed' = grabbed + 1
                         /\ UNCHANGED status
     \/ UNCHANGED captureVars /\ Throw("release") /\ UNCHANGED grabbed
  /\ frame' = 0
  /\ UNCHANGED <<g_stop, out_fd>>

StopCapture ==
  /\ Goto("stop", "close_out")
  /\ Stop
  /\ UNCHANGED <<g_stop, locals>>

\* ~V4L2Capture: stop(), then close().  It runs after out_fd was closed when
\* main() returns normally, and before the handler closes it on an exception.
DestroyStop ==
  /\ Goto("dtor_stop", "dtor_close")
  /\ Stop
  /\ UNCHANGED <<g_stop, locals>>

DestroyClose ==
  /\ Goto("dtor_close", IF status = 0 THEN "exited" ELSE "close_out")
  /\ Close
  /\ UNCHANGED <<g_stop, locals>>

\* out_fd after the close; the variant closes it on the normal path only.
OutAfterReturn == IF status = 0 THEN FALSE ELSE out_fd
OutClosed == FALSE

CloseRawOut ==
  /\ Goto("close_out", IF status = 0 THEN "dtor_stop" ELSE "exited")
  /\ out_fd' = OutClosed
  /\ UNCHANGED <<captureVars, g_stop, grabbed, frame, status>>

OnSignal ==
  /\ ~g_stop /\ pc # "exited"
  /\ g_stop' = TRUE
  /\ UNCHANGED <<captureVars, pc, locals>>

Driver ==
  /\ pc # "exited"
  /\ DriverStep
  /\ UNCHANGED <<pc, g_stop, locals>>

MainStep ==
  \/ OpenRawOut \/ OpenCapture \/ StartCapture
  \/ LeaveLoop \/ LoopFrame \/ LoopTimeout \/ LoopThrows \/ ReleaseFrame
  \/ StopCapture \/ DestroyStop \/ DestroyClose \/ CloseRawOut

Ended == pc = "exited" /\ UNCHANGED vars

Next == MainStep \/ OnSignal \/ Driver \/ Ended

Spec == Init /\ [][Next]_vars

\* The thread keeps running: poll() returns within its timeout.  The camera and
\* the signals owe nothing.
FairSpec == Spec /\ WF_vars(MainStep)

-------------------------------------------------------------------------------
(* Properties *)

\* The buffers keep circulating: whenever the loop asks for the next frame, every
\* buffer is back with the driver, corrupt frames' buffers included, so the
\* capture cannot run dry however many frames are bad.
AllBuffersCirculate == pc = "loop" => DriverOwned = DOMAIN slots_

\* Whichever call threw, and however the program ends, it has closed the device,
\* the mappings, the dmabuf descriptors and the output file itself.
LeavesNothingBehind ==
  pc = "exited" => ~kfd /\ kmaps = {} /\ kdma = {} /\ ~out_fd

\* A signal ends the program, also when the camera has stalled and next() only
\* ever times out.
SignalEnds == g_stop ~> pc = "exited"
===============================================================================

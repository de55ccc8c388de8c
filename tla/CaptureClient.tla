----------------------------- MODULE CaptureClient -----------------------------
(***************************************************************************)
(* V4L2Capture in the hands of any caller that keeps to the header's       *)
(* contract: open() first, next() only while streaming, release() once for *)
(* each frame that next() returned, in any order and while other frames are*)
(* held, stop() and start() again, close() and open() again.               *)
(***************************************************************************)
EXTENDS V4L2Capture

VARIABLES ready,   \* open() has succeeded and close() was not called since
          held     \* the buffers of the frames the caller has not released

clientVars == <<captureVars, ready, held>>

\* Every variable has its type.
TypeOK == CaptureTypeOK /\ ready \in BOOLEAN /\ held \subseteq Buffers

ClientInit == CaptureInit /\ ready = FALSE /\ held = {}

CallOpen ==
  /\ ~fd_
  /\ held' = {}
  /\ \/ OpenOK /\ ready' = TRUE
     \/ OpenThrows /\ ready' = FALSE

\* Streaming already, or streaming_ left TRUE by close(), it does the same.
CallStart ==
  /\ ready
  /\ StartOK
  /\ UNCHANGED <<ready, held>>

CallNext ==
  /\ ready /\ streaming_
  /\ \/ doneq # <<>> /\ NextFrame(Head(doneq)) /\ held' = held \cup {Head(doneq).index}
     \/ NextNothing /\ UNCHANGED held
     \/ PollError /\ NextThrows /\ UNCHANGED held
  /\ UNCHANGED ready

CallRelease(b) ==
  /\ ready /\ b \in held
  /\ ReleaseOK(b)
  /\ held' = held \ {b}
  /\ UNCHANGED ready

CallStop ==
  /\ ready
  /\ Stop
  /\ UNCHANGED <<ready, held>>

CallClose ==
  /\ fd_
  /\ Close
  /\ ready' = FALSE /\ held' = {}

ClientDriver == DriverStep /\ UNCHANGED <<ready, held>>

ClientNext ==
  \/ CallOpen \/ CallStart \/ CallNext \/ CallStop \/ CallClose
  \/ \E b \in Buffers : CallRelease(b)
  \/ ClientDriver

ClientSpec == ClientInit /\ [][ClientNext]_clientVars

-------------------------------------------------------------------------------
(* Properties *)

\* Zero-copy is safe: the pixels of a frame the caller holds are mapped and belong
\* to no queue of the driver, so they are not overwritten before release(), and no
\* buffer is in the driver's queues twice.
HeldFramesStable ==
  ready =>
    /\ held \cap DriverOwned = {}
    /\ held \subseteq kmaps
    /\ Cardinality(DriverOwned) = Len(inq) + Len(doneq)

\* What the header says of stop(): it re-queues everything, so that start() can be
\* called again.
StopRequeues ==
  ready /\ ~streaming_ => \A b \in DOMAIN slots_ : b \in held \cup DriverOwned
================================================================================

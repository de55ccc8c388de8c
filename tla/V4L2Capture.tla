----------------------------- MODULE V4L2Capture -----------------------------
(***************************************************************************)
(* zcv4l2::V4L2Capture (include/zcv4l2/v4l2_capture.hpp,                   *)
(* src/v4l2_capture.cpp): memory-mapped capture buffers that circulate     *)
(* between the driver and the application through QBUF and DQBUF.          *)
(*                                                                         *)
(* External: the V4L2 driver.  It fills queued buffers in order, numbers   *)
(* every frame (also the ones it loses) modulo SeqMod, takes all buffers   *)
(* back to the application on STREAMOFF, and makes poll() report POLLERR   *)
(* when it does not stream, when the device is gone, or when no buffer has *)
(* been queued since the last STREAMOFF.  The calls of the class run on one*)
(* thread; the driver interleaves with them.                               *)
(***************************************************************************)
EXTENDS Naturals, Sequences, FiniteSets

CONSTANTS MaxBuffers,  \* the most buffers the driver grants
          Dmabuf,      \* Config::export_dmabuf
          SeqMod,      \* 2^32: v4l2_buffer.sequence is a 32-bit counter
          MaxFrames    \* bound: frames the camera produces

ASSUME BuffersAssumption == MaxBuffers \in Nat /\ MaxBuffers >= 2
ASSUME DmabufAssumption == Dmabuf \in BOOLEAN
ASSUME SequenceAssumption == SeqMod \in Nat /\ SeqMod > 1 /\ MaxFrames \in Nat

Buffers == 1 .. MaxBuffers

VARIABLES
  fd_, slots_, streaming_, have_last_sequence_, last_sequence_, stats_,
  kfd, kmaps, kdma,     \* kernel: the open device, the mappings, the dmabuf fds
  inq, doneq,           \* kernel: buffers queued and filled, oldest first
  on, waiting,          \* kernel: streaming; nothing queued since STREAMOFF
  gone,                 \* the device has been unplugged
  sequence, produced,   \* the number of the next frame; frames so far
  lost,                 \* history: frames lost since the last filled buffer
  counting,             \* history: a frame was dequeued since start()
  lostSeen,             \* history: frames lost between two dequeued ones
  straddled             \* history: such a gap contained the wrap to 0

classVars ==
  <<fd_, slots_, streaming_, have_last_sequence_, last_sequence_, stats_>>
resources == <<kfd, kmaps, kdma>>
queues == <<inq, doneq, on, waiting>>
camera == <<gone, sequence, produced, lost>>
history == <<counting, lostSeen, straddled>>
captureVars == <<classVars, resources, queues, camera, history>>

NoSlots == [b \in {} |-> [mapped |-> FALSE, dmabuf |-> FALSE]]
FilledBuffers == [index : Buffers, sequence : 0 .. SeqMod - 1, error : BOOLEAN,
                  lost : 0 .. MaxFrames]

CaptureTypeOK ==
  /\ {fd_, streaming_, have_last_sequence_} \subseteq BOOLEAN
  /\ DOMAIN slots_ \subseteq Buffers
  /\ \A b \in DOMAIN slots_ : slots_[b] \in [mapped : BOOLEAN, dmabuf : BOOLEAN]
  /\ last_sequence_ \in 0 .. SeqMod - 1
  /\ stats_ \in [captured : Nat, dropped : Nat, errored : Nat]
  /\ kfd \in BOOLEAN /\ kmaps \subseteq Buffers /\ kdma \subseteq Buffers
  /\ inq \in Seq(Buffers) /\ doneq \in Seq(FilledBuffers)
  /\ {on, waiting, gone, counting, straddled} \subseteq BOOLEAN
  /\ sequence \in 0 .. SeqMod - 1 /\ produced \in 0 .. MaxFrames
  /\ lost \in 0 .. MaxFrames /\ lostSeen \in 0 .. MaxFrames

CaptureInit ==
  /\ fd_ = FALSE /\ slots_ = NoSlots /\ streaming_ = FALSE
  /\ have_last_sequence_ = FALSE /\ last_sequence_ = 0
  /\ stats_ = [captured |-> 0, dropped |-> 0, errored |-> 0]
  /\ kfd = FALSE /\ kmaps = {} /\ kdma = {}
  /\ inq = <<>> /\ doneq = <<>> /\ on = FALSE /\ waiting = TRUE
  /\ gone = FALSE /\ sequence = 0 /\ produced = 0 /\ lost = 0
  /\ counting = FALSE /\ lostSeen = 0 /\ straddled = FALSE

-------------------------------------------------------------------------------
(* open() *)

\* The slots after mapping 1..mapped and exporting 1..exported of n buffers; the
\* variant forgets to record the dmabuf fd.
SlotsNoFd(n, mapped, exported) ==
  [b \in 1 .. n |-> [mapped |-> b <= mapped, dmabuf |-> FALSE]]
Slots(n, mapped, exported) ==
  [b \in 1 .. n |-> [mapped |-> b <= mapped, dmabuf |-> b <= exported]]

\* What open() leaves behind: n granted buffers, the first ones mapped, exported
\* and queued.
Opened(n, mapped, exported, queued) ==
  /\ fd_' = TRUE /\ kfd' = TRUE
  /\ slots_' = Slots(n, mapped, exported)
  /\ kmaps' = 1 .. mapped
  /\ kdma' = 1 .. exported
  /\ inq' = [i \in 1 .. queued |-> i]
  /\ waiting' = (queued = 0)
  /\ UNCHANGED <<streaming_, have_last_sequence_, last_sequence_, stats_, doneq, on,
                 camera, history>>

Exports(n) == IF Dmabuf THEN n ELSE 0

OpenOK == ~gone /\ \E n \in 2 .. MaxBuffers : Opened(n, n, Exports(n), n)

\* stat(), the file type or open(2) fails: nothing is acquired.
OpenThrowsNoDevice == UNCHANGED captureVars

\* The capabilities, the format or REQBUFS fail, or fewer than two buffers are
\* granted: only the device is open.
OpenThrowsSetup == Opened(0, 0, 0, 0)

\* QUERYBUF or mmap of buffer i fails, or its export after the mmap.
OpenThrowsMapping ==
  \E n \in 2 .. MaxBuffers : \E i \in 1 .. n :
    \/ Opened(n, i - 1, Exports(i - 1), 0)
    \/ Dmabuf /\ Opened(n, i, i - 1, 0)

\* The first QBUF that fails leaves the earlier ones queued.
OpenThrowsQueueing ==
  \E n \in 2 .. MaxBuffers : \E i \in 1 .. n : Opened(n, n, Exports(n), i - 1)

OpenThrows ==
  OpenThrowsNoDevice \/ OpenThrowsSetup \/ OpenThrowsMapping \/ OpenThrowsQueueing

-------------------------------------------------------------------------------
(* start(), next(), release(), stop(), close() *)

\* start() forgets the last sequence number, since the driver may restart its
\* counter; the variant keeps it.
KnowsSequenceStill == have_last_sequence_
KnowsSequence == FALSE

StartOK ==
  /\ fd_ /\ ~gone
  /\ on' = TRUE
  /\ sequence' \in IF on THEN {sequence} ELSE {0, sequence}
  /\ lost' = IF on THEN lost ELSE 0
  /\ streaming_' = TRUE
  /\ have_last_sequence_' = KnowsSequence
  /\ counting' = FALSE
  /\ UNCHANGED <<fd_, slots_, last_sequence_, stats_, resources, inq, doneq, waiting,
                 gone, produced, lostSeen, straddled>>

StartThrows == UNCHANGED captureVars

PollError == gone \/ ~on \/ waiting

\* The frames next() finds missing before frame seq; expected is a 32-bit number.
Missed(seq) ==
  LET expected == (last_sequence_ + 1) % SeqMod
  IN  IF have_last_sequence_ /\ seq > expected THEN seq - expected ELSE 0

\* What next() remembers of the frame; the variant stores the expected number.
RememberNext(f) == f.sequence + 1
Remember(f) == f.sequence

\* The driver's queue once a frame is handed out: the buffer stays out of it; the
\* variant gives it back at once.
QueuedEarly(f) == Append(inq, f.index)
QueuedAfterNext(f) == inq

\* next() dequeues the oldest filled buffer and returns true.
NextFrame(f) ==
  /\ ~PollError
  /\ doneq # <<>> /\ f = Head(doneq)
  /\ doneq' = Tail(doneq)
  /\ inq' = QueuedAfterNext(f)
  /\ stats_' = [captured |-> stats_.captured + 1,
                dropped |-> stats_.dropped + Missed(f.sequence),
                errored |-> IF f.error THEN stats_.errored + 1 ELSE stats_.errored]
  /\ last_sequence_' = Remember(f)
  /\ have_last_sequence_' = TRUE
  /\ counting' = TRUE
  /\ lostSeen' = IF counting THEN lostSeen + f.lost ELSE lostSeen
  /\ straddled' = (straddled \/ (counting /\ f.sequence < f.lost))
  /\ UNCHANGED <<fd_, slots_, streaming_, resources, on, waiting, camera>>

\* poll() times out, or DQBUF says EAGAIN: next() returns false.
NextNothing ==
  /\ ~PollError
  /\ doneq = <<>>
  /\ UNCHANGED captureVars

\* poll() or DQBUF fails: next() throws.
NextThrows == UNCHANGED captureVars

\* release(): QBUF of the frame's buffer.
ReleaseOK(index) ==
  /\ ~gone
  /\ inq' = Append(inq, index)
  /\ waiting' = FALSE
  /\ UNCHANGED <<classVars, resources, doneq, on, camera, history>>

\* stop() when there is nothing to stop.
StopNothing ==
  /\ ~streaming_ \/ ~fd_
  /\ UNCHANGED captureVars

\* stop(): STREAMOFF takes every buffer from the driver.
StopOK ==
  /\ streaming_ /\ fd_
  /\ streaming_' = FALSE
  /\ on' = FALSE /\ inq' = <<>> /\ doneq' = <<>> /\ waiting' = TRUE
  /\ UNCHANGED <<fd_, slots_, have_last_sequence_, last_sequence_, stats_, resources,
                 camera, history>>

\* stop() logs a failing STREAMOFF and goes on.
StopFailing ==
  /\ streaming_ /\ fd_
  /\ streaming_' = FALSE
  /\ UNCHANGED <<fd_, slots_, have_last_sequence_, last_sequence_, stats_, resources,
                 queues, camera, history>>

Stop == StopNothing \/ StopOK \/ StopFailing

\* close(): unmap_buffers() releases what the slots record, then the device; the
\* driver stops and forgets the queues with its last file descriptor.
Close ==
  /\ kdma' = kdma \ {b \in DOMAIN slots_ : slots_[b].dmabuf}
  /\ kmaps' = kmaps \ {b \in DOMAIN slots_ : slots_[b].mapped}
  /\ slots_' = NoSlots
  /\ fd_' = FALSE
  /\ kfd' = FALSE
  /\ on' = FALSE /\ inq' = <<>> /\ doneq' = <<>> /\ waiting' = TRUE
  /\ UNCHANGED <<streaming_, have_last_sequence_, last_sequence_, stats_, camera,
                 history>>

-------------------------------------------------------------------------------
(* The driver *)

NextSequence == (sequence + 1) % SeqMod

\* A frame arrives and fills the oldest queued buffer, perhaps corruptly.
DriverFill ==
  /\ on /\ ~gone /\ produced < MaxFrames
  /\ inq # <<>>
  /\ \E error \in BOOLEAN :
       doneq' = Append(doneq, [index |-> Head(inq), sequence |-> sequence,
                               error |-> error, lost |-> lost])
  /\ inq' = Tail(inq)
  /\ sequence' = NextSequence
  /\ produced' = produced + 1
  /\ lost' = 0
  /\ UNCHANGED <<classVars, resources, on, waiting, gone, history>>

\* A frame arrives and is lost; its number is used up.  A gap is shorter than the
\* range of the counter.
DriverLose ==
  /\ on /\ ~gone /\ produced < MaxFrames
  /\ lost < SeqMod - 1
  /\ sequence' = NextSequence
  /\ produced' = produced + 1
  /\ lost' = lost + 1
  /\ UNCHANGED <<classVars, resources, queues, gone, history>>

Unplug ==
  /\ ~gone
  /\ gone' = TRUE
  /\ UNCHANGED <<classVars, resources, queues, sequence, produced, lost, history>>

DriverStep == DriverFill \/ DriverLose \/ Unplug

-------------------------------------------------------------------------------
(* Properties of the class, whoever calls it *)

\* frames_dropped is exactly the number of frames the driver lost between frames
\* the application saw, across restarts and across the wrap of the 32-bit
\* counter; only a gap that contains the wrap itself may be undercounted, and
\* nothing is ever overcounted.
DropsCounted ==
  /\ stats_.dropped <= lostSeen
  /\ ~straddled => stats_.dropped = lostSeen

\* The buffers that the driver owns.
DriverOwned == {inq[i] : i \in DOMAIN inq} \cup {doneq[i].index : i \in DOMAIN doneq}

\* A closed (or never opened) capture object leaves nothing behind in the kernel,
\* wherever open() stopped: no device, no mapping, no dmabuf descriptor.
ClosedMeansReleased == ~fd_ => ~kfd /\ kmaps = {} /\ kdma = {}
==============================================================================

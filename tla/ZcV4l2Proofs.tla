----------------------------- MODULE ZcV4l2Proofs -----------------------------
(***************************************************************************)
(* TLAPS proofs about the zcv4l2 program (ZcV4l2), for every number of     *)
(* buffers and of frames, with and without dmabuf export and raw output.   *)
(* The inductive invariant says that the slots record exactly what the     *)
(* kernel holds, where the loop's one frame is, and what the exit paths    *)
(* that run ~V4L2Capture and close(out_fd) in opposite orders have done by *)
(* each statement.  No type of the counters is needed.                     *)
(***************************************************************************)
EXTENDS ZcV4l2, TLAPS

Filled == [index : Buffers, sequence : Nat, error : BOOLEAN, lost : Nat]

\* The types the other parts need.
Typed ==
  /\ fd_ \in BOOLEAN /\ on \in BOOLEAN /\ out_fd \in BOOLEAN
  /\ status \in {0, 1} /\ sequence \in Nat /\ lost \in Nat
  /\ DOMAIN slots_ \subseteq Buffers
  /\ inq \in Seq(Buffers) /\ doneq \in Seq(Filled)

\* What the class records is what the kernel holds.
Recorded ==
  /\ kfd = fd_
  /\ kmaps = {b \in DOMAIN slots_ : slots_[b].mapped}
  /\ kdma = {b \in DOMAIN slots_ : slots_[b].dmabuf}
  /\ ~fd_ => DOMAIN slots_ = {} /\ ~on /\ inq = <<>>
  /\ ~on => doneq = <<>>

\* Between start() and stop() every buffer is with the driver, but the one of the
\* frame that the loop body is at.
Circulating ==
  /\ pc \in {"start", "loop"} => DriverOwned = DOMAIN slots_
  /\ pc = "release" => frame \in Buffers /\ DriverOwned \cup {frame} = DOMAIN slots_

\* What is open at each statement of main(), and of the two ways out of it.
Statements ==
  /\ pc \in {"out", "open", "start", "loop", "release", "stop", "close_out",
             "dtor_stop", "dtor_close", "exited"}
  /\ pc \in {"out", "open"} => ~fd_
  /\ pc \in {"out", "open", "start", "loop", "release", "stop"} => status = 0
  /\ pc = "out" => ~out_fd
  /\ pc = "close_out" => status = 0 \/ ~fd_
  /\ pc \in {"dtor_stop", "dtor_close"} => status # 0 \/ ~out_fd
  /\ pc = "exited" => ~fd_ /\ ~out_fd

IInv == Typed /\ Recorded /\ Circulating /\ Statements

USE BuffersAssumption, DmabufAssumption, SequenceAssumption, OptionsAssumption

-------------------------------------------------------------------------------
(* Operators *)

\* The slots that open() records.
LEMMA SlotsRecord ==
  ASSUME NEW n \in Nat, NEW mapped \in 0 .. n, NEW exported \in 0 .. n
  PROVE  /\ DOMAIN Slots(n, mapped, exported) = 1 .. n
         /\ {b \in 1 .. n : Slots(n, mapped, exported)[b].mapped} = 1 .. mapped
         /\ {b \in 1 .. n : Slots(n, mapped, exported)[b].dmabuf} = 1 .. exported
<1>1. /\ DOMAIN Slots(n, mapped, exported) = 1 .. n
      /\ \A b \in 1 .. n : /\ Slots(n, mapped, exported)[b].mapped <=> b <= mapped
                           /\ Slots(n, mapped, exported)[b].dmabuf <=> b <= exported
  BY DEF Slots
<1>2. {b \in 1 .. n : Slots(n, mapped, exported)[b].mapped} = 1 .. mapped
  BY <1>1
<1>3. {b \in 1 .. n : Slots(n, mapped, exported)[b].dmabuf} = 1 .. exported
  BY <1>1
<1> QED BY <1>1, <1>2, <1>3

\* A queue without its head: the same elements, but perhaps the head.
LEMMA TailOf ==
  ASSUME NEW S, NEW s \in Seq(S), s # <<>>
  PROVE  /\ Head(s) = s[1] /\ s[1] \in S /\ Tail(s) \in Seq(S)
         /\ 1 \in DOMAIN s
         /\ \A i \in DOMAIN Tail(s) : i + 1 \in DOMAIN s /\ Tail(s)[i] = s[i + 1]
         /\ \A i \in DOMAIN s : i = 1 \/ \E j \in DOMAIN Tail(s) : Tail(s)[j] = s[i]
<1>1. /\ Head(s) = s[1] /\ s[1] \in S /\ Tail(s) \in Seq(S) /\ Len(s) \in Nat
      /\ DOMAIN s = 1 .. Len(s) /\ DOMAIN Tail(s) = 1 .. Len(s) - 1 /\ Len(s) >= 1
      /\ \A i \in 1 .. Len(s) - 1 : Tail(s)[i] = s[i + 1]
  OBVIOUS
<1>2. ASSUME NEW i \in DOMAIN s, i # 1
      PROVE  \E j \in DOMAIN Tail(s) : Tail(s)[j] = s[i]
  <2>1. i - 1 \in DOMAIN Tail(s) /\ Tail(s)[i - 1] = s[i]
    BY <1>1, <1>2
  <2> QED BY <2>1
<1> QED BY <1>1, <1>2

\* A queue with one more element.
LEMMA AppendTo ==
  ASSUME NEW S, NEW s \in Seq(S), NEW e \in S
  PROVE  /\ Append(s, e) \in Seq(S)
         /\ \A i \in DOMAIN s : i \in DOMAIN Append(s, e) /\ Append(s, e)[i] = s[i]
         /\ \A i \in DOMAIN Append(s, e) :
              Append(s, e)[i] = e \/ (i \in DOMAIN s /\ Append(s, e)[i] = s[i])
         /\ \E i \in DOMAIN Append(s, e) : Append(s, e)[i] = e
<1>1. /\ Append(s, e) \in Seq(S) /\ Len(s) \in Nat
      /\ DOMAIN s = 1 .. Len(s) /\ DOMAIN Append(s, e) = 1 .. Len(s) + 1
      /\ \A i \in 1 .. Len(s) : Append(s, e)[i] = s[i]
      /\ Append(s, e)[Len(s) + 1] = e
  OBVIOUS
<1> QED BY <1>1

-------------------------------------------------------------------------------
(* The capture's calls: what each one keeps of the records and of the buffers *)

\* A call that leaves the capture alone.
LEMMA UntouchedKeeps ==
  ASSUME Typed, Recorded, UNCHANGED captureVars
  PROVE  /\ Recorded' /\ DriverOwned' = DriverOwned
         /\ UNCHANGED <<fd_, slots_, on, inq, doneq, sequence, lost>>
BY DEF Recorded, DriverOwned, captureVars, classVars, resources, queues, camera

\* open(), wherever it stops: the slots record what it acquired, and when it
\* succeeds every granted buffer is queued.
LEMMA OpenedKeeps ==
  ASSUME Typed, Recorded, ~fd_, NEW n \in 0 .. MaxBuffers, NEW mapped \in 0 .. n,
         NEW exported \in 0 .. n, NEW queued \in 0 .. n, Opened(n, mapped, exported, queued)
  PROVE  /\ Recorded' /\ fd_' \in BOOLEAN /\ on' \in BOOLEAN
         /\ DOMAIN slots_' = 1 .. n /\ DOMAIN slots_' \subseteq Buffers
         /\ inq' \in Seq(Buffers)
         /\ UNCHANGED <<doneq, sequence, lost>>
         /\ queued = n => DriverOwned' = DOMAIN slots_'
<1>1. /\ fd_' = TRUE /\ kfd' = TRUE
      /\ slots_' = Slots(n, mapped, exported)
      /\ kmaps' = 1 .. mapped /\ kdma' = 1 .. exported
      /\ inq' = [i \in 1 .. queued |-> i]
      /\ UNCHANGED <<doneq, on, sequence, lost>>
  BY DEF Opened, camera
<1>2. DOMAIN slots_' = 1 .. n /\ DOMAIN slots_' \subseteq Buffers
  BY <1>1, SlotsRecord DEF Buffers
<1>3. inq' \in Seq(Buffers) /\ DOMAIN inq' = 1 .. queued /\ \A i \in 1 .. queued : inq'[i] = i
  BY <1>1 DEF Buffers
<1>4. Recorded'
  BY <1>1, <1>2, SlotsRecord DEF Recorded
<1>5. doneq' = <<>>
  BY <1>1 DEF Recorded
<1>6. queued = n => DriverOwned' = DOMAIN slots_'
  BY <1>2, <1>3, <1>5 DEF DriverOwned
<1> QED BY <1>1, <1>2, <1>3, <1>4, <1>6, Zenon DEF Typed

\* A frame that next() returns leaves its buffer with the caller.
LEMMA NextFrameKeeps ==
  ASSUME Typed, Recorded, doneq # <<>>, NextFrame(Head(doneq))
  PROVE  /\ Recorded' /\ UNCHANGED <<fd_, slots_, on, sequence, lost, inq>>
         /\ doneq' \in Seq(Filled)
         /\ Head(doneq).index \in Buffers
         /\ DriverOwned' \cup {Head(doneq).index} = DriverOwned
<1>1. /\ UNCHANGED <<fd_, slots_, on, sequence, lost, inq, kfd, kmaps, kdma>>
      /\ doneq' = Tail(doneq)
  BY DEF NextFrame, QueuedAfterNext, camera, resources
<1>2. doneq \in Seq(Filled)
  BY DEF Typed
<1>3. /\ Head(doneq) = doneq[1] /\ doneq[1] \in Filled /\ doneq' \in Seq(Filled)
      /\ 1 \in DOMAIN doneq
      /\ \A i \in DOMAIN doneq' : i + 1 \in DOMAIN doneq /\ doneq'[i] = doneq[i + 1]
      /\ \A i \in DOMAIN doneq : i = 1 \/ \E j \in DOMAIN doneq' : doneq'[j] = doneq[i]
  BY <1>1, <1>2, TailOf
<1>4. DriverOwned' \cup {Head(doneq).index} = DriverOwned
  <2>1. DriverOwned' = {inq[i] : i \in DOMAIN inq} \cup {doneq'[i].index : i \in DOMAIN doneq'}
    BY <1>1 DEF DriverOwned
  <2>2. ASSUME NEW b \in DriverOwned, b # Head(doneq).index PROVE b \in DriverOwned'
    <3>1. CASE b \in {inq[i] : i \in DOMAIN inq}
      BY <2>1, <3>1
    <3>2. CASE b \in {doneq[i].index : i \in DOMAIN doneq}
      <4>1. PICK i \in DOMAIN doneq : b = doneq[i].index
        BY <3>2
      <4>2. PICK j \in DOMAIN doneq' : doneq'[j] = doneq[i]
        BY <1>3, <2>2, <4>1
      <4> QED BY <2>1, <4>1, <4>2
    <3> QED BY <3>1, <3>2 DEF DriverOwned
  <2>3. ASSUME NEW b \in DriverOwned' PROVE b \in DriverOwned
    <3>1. CASE b \in {inq[i] : i \in DOMAIN inq}
      BY <3>1 DEF DriverOwned
    <3>2. CASE b \in {doneq'[i].index : i \in DOMAIN doneq'}
      <4>1. PICK i \in DOMAIN doneq' : b = doneq'[i].index
        BY <3>2
      <4>2. i + 1 \in DOMAIN doneq /\ b = doneq[i + 1].index
        BY <1>3, <4>1
      <4> QED BY <4>2 DEF DriverOwned
    <3> QED BY <2>1, <2>3, <3>1, <3>2
  <2>4. Head(doneq).index \in DriverOwned
    BY <1>3 DEF DriverOwned
  <2> QED BY <2>2, <2>3, <2>4
<1>5. doneq[1].index \in Buffers
  BY <1>3 DEF Filled
<1>6. on
  BY DEF NextFrame, PollError
<1>7. Recorded'
  BY <1>1, <1>6 DEF Recorded
<1> QED BY <1>1, <1>3, <1>4, <1>5, <1>7

\* release() gives the buffer back.
LEMMA ReleaseKeeps ==
  ASSUME Typed, Recorded, fd_, NEW b \in Buffers, ReleaseOK(b)
  PROVE  /\ Recorded' /\ UNCHANGED <<fd_, slots_, on, sequence, lost, doneq>>
         /\ inq' \in Seq(Buffers)
         /\ DriverOwned' = DriverOwned \cup {b}
<1>1. /\ UNCHANGED <<fd_, slots_, on, sequence, lost, doneq, kfd, kmaps, kdma>>
      /\ inq' = Append(inq, b)
  BY DEF ReleaseOK, classVars, resources, camera
<1>2. inq \in Seq(Buffers)
  BY DEF Typed
<1>3. /\ inq' \in Seq(Buffers)
      /\ \A i \in DOMAIN inq : i \in DOMAIN inq' /\ inq'[i] = inq[i]
      /\ \A i \in DOMAIN inq' : inq'[i] = b \/ (i \in DOMAIN inq /\ inq'[i] = inq[i])
      /\ \E i \in DOMAIN inq' : inq'[i] = b
  BY <1>1, <1>2, AppendTo
<1>4. DriverOwned' = DriverOwned \cup {b}
  BY <1>1, <1>3 DEF DriverOwned
<1>5. Recorded'
  BY <1>1 DEF Recorded
<1> QED BY <1>1, <1>3, <1>4, <1>5

\* stop() never touches the slots.
LEMMA StopKeeps ==
  ASSUME Typed, Recorded, Stop
  PROVE  /\ Recorded' /\ UNCHANGED <<fd_, slots_, sequence, lost>>
         /\ on' \in BOOLEAN /\ inq' \in Seq(Buffers) /\ doneq' \in Seq(Filled)
<1>1. CASE StopNothing \/ StopFailing
  <2>1. UNCHANGED <<fd_, slots_, sequence, lost, kfd, kmaps, kdma, on, inq, doneq>>
    BY <1>1 DEF StopNothing, StopFailing, captureVars, classVars, resources, queues, camera
  <2>2. Recorded'
    BY <2>1 DEF Recorded
  <2> QED BY <2>1, <2>2 DEF Typed
<1>2. CASE StopOK
  <2>1. /\ UNCHANGED <<fd_, slots_, sequence, lost, kfd, kmaps, kdma>>
        /\ on' = FALSE /\ inq' = <<>> /\ doneq' = <<>>
    BY <1>2 DEF StopOK, resources, camera
  <2>2. on' \in BOOLEAN
    BY <2>1, Zenon
  <2>3. Recorded'
    BY <2>1 DEF Recorded
  <2> QED BY <2>1, <2>2, <2>3
<1> QED BY <1>1, <1>2 DEF Stop

\* close() gives back everything the slots record, and that is everything.
LEMMA CloseKeeps ==
  ASSUME Typed, Recorded, Close
  PROVE  /\ Recorded' /\ ~fd_' /\ fd_' \in BOOLEAN /\ UNCHANGED <<sequence, lost>>
         /\ on' \in BOOLEAN /\ inq' \in Seq(Buffers) /\ doneq' \in Seq(Filled)
         /\ DOMAIN slots_' \subseteq Buffers
<1>1. /\ UNCHANGED <<sequence, lost>> /\ slots_' = NoSlots
      /\ fd_' = FALSE /\ kfd' = FALSE /\ on' = FALSE /\ inq' = <<>> /\ doneq' = <<>>
  BY DEF Close, camera
<1>2. kmaps' = {} /\ kdma' = {}
  BY DEF Close, Recorded
<1>3. DOMAIN slots_' = {}
  BY <1>1 DEF NoSlots
<1>4. fd_' \in BOOLEAN /\ on' \in BOOLEAN
  BY <1>1, Zenon
<1>5. Recorded'
  BY <1>1, <1>2, <1>3 DEF Recorded
<1>6. inq' \in Seq(Buffers) /\ doneq' \in Seq(Filled)
  BY <1>1
<1> QED BY <1>1, <1>3, <1>4, <1>5, <1>6

\* The driver moves a buffer from one of its queues to the other.
LEMMA DriverKeeps ==
  ASSUME Typed, Recorded, DriverStep
  PROVE  /\ Recorded' /\ UNCHANGED <<fd_, slots_, on>>
         /\ inq' \in Seq(Buffers) /\ doneq' \in Seq(Filled)
         /\ sequence' \in Nat /\ lost' \in Nat
         /\ DriverOwned' = DriverOwned
<1>1. CASE DriverFill
  <2>1. /\ UNCHANGED <<fd_, slots_, on, kfd, kmaps, kdma>> /\ on /\ inq # <<>>
        /\ inq' = Tail(inq) /\ sequence' = NextSequence /\ lost' = 0
    BY <1>1 DEF DriverFill, classVars, resources
  <2>2. PICK error \in BOOLEAN :
          doneq' = Append(doneq, [index |-> Head(inq), sequence |-> sequence,
                                  error |-> error, lost |-> lost])
    BY <1>1 DEF DriverFill
  <2> DEFINE g == [index |-> Head(inq), sequence |-> sequence, error |-> error, lost |-> lost]
  <2>3. /\ Head(inq) = inq[1] /\ inq[1] \in Buffers /\ inq' \in Seq(Buffers)
        /\ 1 \in DOMAIN inq
        /\ \A i \in DOMAIN inq' : i + 1 \in DOMAIN inq /\ inq'[i] = inq[i + 1]
        /\ \A i \in DOMAIN inq : i = 1 \/ \E j \in DOMAIN inq' : inq'[j] = inq[i]
    <3>1. inq \in Seq(Buffers)
      BY DEF Typed
    <3> QED BY <2>1, <3>1, TailOf
  <2>4. g \in Filled /\ g.index = inq[1]
    BY <2>3 DEF Filled, Typed
  <2>5. doneq' = Append(doneq, g)
    BY <2>2
  <2> HIDE DEF g
  <2>6. /\ doneq' \in Seq(Filled)
        /\ \A i \in DOMAIN doneq : i \in DOMAIN doneq' /\ doneq'[i] = doneq[i]
        /\ \A i \in DOMAIN doneq' : doneq'[i] = g \/ (i \in DOMAIN doneq /\ doneq'[i] = doneq[i])
        /\ \E i \in DOMAIN doneq' : doneq'[i] = g
    <3>1. doneq \in Seq(Filled)
      BY DEF Typed
    <3> QED BY <2>4, <2>5, <3>1, AppendTo
  <2>7. DriverOwned' = DriverOwned
    <3>1. DriverOwned' = {inq'[i] : i \in DOMAIN inq'} \cup {doneq'[i].index : i \in DOMAIN doneq'}
      BY DEF DriverOwned
    <3>2. \A b \in DriverOwned : b \in DriverOwned'
      BY <2>3, <2>4, <2>6, <3>1 DEF DriverOwned
    <3>3. \A b \in DriverOwned' : b \in DriverOwned
      BY <2>3, <2>4, <2>6, <3>1 DEF DriverOwned
    <3> QED BY <3>2, <3>3
  <2>8. sequence' \in Nat
    BY <2>1 DEF NextSequence, Typed
  <2>9. Recorded'
    BY <2>1 DEF Recorded
  <2> QED BY <2>1, <2>3, <2>6, <2>7, <2>8, <2>9
<1>2. CASE DriverLose \/ Unplug
  <2>1. UNCHANGED <<fd_, slots_, on, kfd, kmaps, kdma, inq, doneq>>
    BY <1>2 DEF DriverLose, Unplug, classVars, resources, queues
  <2>2. Recorded' /\ DriverOwned' = DriverOwned
    BY <2>1 DEF Recorded, DriverOwned
  <2>3. sequence' \in Nat /\ lost' \in Nat
    BY <1>2 DEF DriverLose, Unplug, NextSequence, Typed
  <2> QED BY <2>1, <2>2, <2>3 DEF Typed
<1> QED BY <1>1, <1>2 DEF DriverStep

-------------------------------------------------------------------------------
(* The steps of the program *)

\* The initial state.
LEMMA InitHolds == ASSUME Init PROVE IInv
<1> USE DEF Init, CaptureInit, NoSlots
<1>1. fd_ \in BOOLEAN /\ on \in BOOLEAN /\ out_fd \in BOOLEAN
  BY Zenon
<1>2. Typed
  BY <1>1 DEF Typed
<1>3. Recorded
  BY DEF Recorded
<1>4. Circulating /\ Statements
  BY DEF Circulating, Statements
<1> QED BY <1>2, <1>3, <1>4 DEF IInv

\* The raw output file is opened, or the program ends there.
LEMMA OpenRawOutKeeps == ASSUME IInv, OpenRawOut PROVE IInv'
<1>1. UNCHANGED captureVars /\ pc = "out" /\ pc' \in {"open", "exited"}
  BY DEF OpenRawOut, Goto
<1>2. out_fd' \in BOOLEAN /\ (pc' = "exited" => ~out_fd')
      /\ status' \in {0, 1} /\ (pc' = "open" => status' = 0)
  BY DEF OpenRawOut, Goto, IInv, Typed, Statements
<1>3. Recorded' /\ UNCHANGED <<fd_, slots_, on, inq, doneq, sequence, lost>>
  BY <1>1, UntouchedKeeps DEF IInv
<1>4. Typed'
  BY <1>2, <1>3 DEF IInv, Typed
<1>5. Circulating' /\ Statements'
  BY <1>1, <1>2, <1>3 DEF IInv, Circulating, Statements
<1> QED BY <1>3, <1>4, <1>5 DEF IInv

\* Whatever open() acquired before it threw is recorded.
LEMMA OpenKeeps ==
  ASSUME Typed, Recorded, ~fd_, OpenOK \/ OpenThrows
  PROVE  /\ Recorded' /\ fd_' \in BOOLEAN /\ on' \in BOOLEAN
         /\ DOMAIN slots_' \subseteq Buffers
         /\ inq' \in Seq(Buffers)
         /\ UNCHANGED <<doneq, sequence, lost>>
         /\ OpenOK => DriverOwned' = DOMAIN slots_'
<1>1. ASSUME NEW n \in 0 .. MaxBuffers, NEW mapped \in 0 .. n,
             NEW exported \in 0 .. n, NEW queued \in 0 .. n, Opened(n, mapped, exported, queued)
      PROVE  /\ Recorded' /\ fd_' \in BOOLEAN /\ on' \in BOOLEAN
             /\ DOMAIN slots_' \subseteq Buffers
             /\ inq' \in Seq(Buffers)
             /\ UNCHANGED <<doneq, sequence, lost>>
  BY <1>1, OpenedKeeps
<1>2. \A n \in Nat : Exports(n) \in 0 .. n
  BY DEF Exports
<1>3. CASE OpenOK
  <2>1. PICK n \in 2 .. MaxBuffers : Opened(n, n, Exports(n), n)
    BY <1>3 DEF OpenOK
  <2>2. n \in 0 .. MaxBuffers /\ n \in 0 .. n /\ Exports(n) \in 0 .. n
    BY <1>2
  <2> QED BY <2>1, <2>2, OpenedKeeps
<1>4. CASE ~OpenOK /\ OpenThrowsNoDevice
  BY <1>4, UntouchedKeeps DEF OpenThrowsNoDevice, Typed
<1>5. CASE ~OpenOK /\ OpenThrowsSetup
  <2>1. 0 \in 0 .. MaxBuffers /\ 0 \in 0 .. 0
    OBVIOUS
  <2> QED BY <1>1, <1>5, <2>1 DEF OpenThrowsSetup
<1>6. CASE ~OpenOK /\ OpenThrowsMapping
  <2>0. PICK n \in 2 .. MaxBuffers : \E i \in 1 .. n :
          \/ Opened(n, i - 1, Exports(i - 1), 0)
          \/ Dmabuf /\ Opened(n, i, i - 1, 0)
    BY <1>6 DEF OpenThrowsMapping
  <2>1. PICK i \in 1 .. n :
          \/ Opened(n, i - 1, Exports(i - 1), 0)
          \/ Dmabuf /\ Opened(n, i, i - 1, 0)
    BY <2>0
  <2>2. /\ n \in 0 .. MaxBuffers /\ i - 1 \in 0 .. n /\ i \in 0 .. n /\ 0 \in 0 .. n
        /\ i - 1 \in Nat
    OBVIOUS
  <2>3. Exports(i - 1) \in 0 .. n
    BY <1>2, <2>2
  <2> QED BY <1>1, <1>6, <2>1, <2>2, <2>3
<1>7. CASE ~OpenOK /\ OpenThrowsQueueing
  <2>0. PICK n \in 2 .. MaxBuffers : \E i \in 1 .. n : Opened(n, n, Exports(n), i - 1)
    BY <1>7 DEF OpenThrowsQueueing
  <2>1. PICK i \in 1 .. n : Opened(n, n, Exports(n), i - 1)
    BY <2>0
  <2>2. n \in 0 .. MaxBuffers /\ n \in 0 .. n /\ Exports(n) \in 0 .. n /\ i - 1 \in 0 .. n
    BY <1>2
  <2> QED BY <1>1, <1>7, <2>1, <2>2
<1> QED BY <1>3, <1>4, <1>5, <1>6, <1>7 DEF OpenThrows

\* open() succeeds and the program goes on, or throws and the destructor runs.
LEMMA OpenCaptureKeeps == ASSUME IInv, OpenCapture PROVE IInv'
<1>1. pc = "open" /\ UNCHANGED out_fd
      /\ \/ OpenOK /\ pc' = "start" /\ UNCHANGED status
         \/ OpenThrows /\ pc' = "dtor_stop" /\ status' = 1
  BY DEF OpenCapture, Goto, Throw
<1>2. ~fd_ /\ status = 0
  BY <1>1 DEF IInv, Statements
<1>3. /\ Recorded' /\ fd_' \in BOOLEAN /\ on' \in BOOLEAN
      /\ DOMAIN slots_' \subseteq Buffers
      /\ inq' \in Seq(Buffers)
      /\ UNCHANGED <<doneq, sequence, lost>>
      /\ OpenOK => DriverOwned' = DOMAIN slots_'
  BY <1>1, <1>2, OpenKeeps DEF IInv
<1>4. Typed'
  BY <1>1, <1>2, <1>3 DEF IInv, Typed
<1>5. Circulating'
  BY <1>1, <1>3 DEF Circulating
<1>6. Statements'
  BY <1>1, <1>2 DEF Statements
<1> QED BY <1>3, <1>4, <1>5, <1>6 DEF IInv

\* start().
LEMMA StartCaptureKeeps == ASSUME IInv, StartCapture PROVE IInv'
<1>1. pc = "start" /\ UNCHANGED out_fd
      /\ \/ StartOK /\ pc' = "loop" /\ UNCHANGED status
         \/ StartThrows /\ pc' = "dtor_stop" /\ status' = 1
  BY DEF StartCapture, Goto, Throw
<1>2. CASE StartOK
  <2>1. /\ fd_ /\ on' = TRUE /\ sequence' \in {0, sequence} /\ lost' \in {0, lost}
        /\ UNCHANGED <<fd_, slots_, kfd, kmaps, kdma, inq, doneq>>
    BY <1>2 DEF StartOK, resources
  <2>2. on' \in BOOLEAN
    BY <2>1, Zenon
  <2>3. Recorded' /\ DriverOwned' = DriverOwned
    BY <2>1 DEF IInv, Recorded, DriverOwned
  <2>4. sequence' \in Nat /\ lost' \in Nat /\ status' \in {0, 1}
    BY <1>1, <2>1 DEF IInv, Typed
  <2>5. Typed'
    BY <1>1, <2>1, <2>2, <2>4 DEF IInv, Typed
  <2>6. Circulating'
    BY <1>1, <2>1, <2>3 DEF IInv, Circulating
  <2>7. Statements'
    BY <1>1 DEF IInv, Statements
  <2> QED BY <2>3, <2>5, <2>6, <2>7 DEF IInv
<1>3. CASE ~StartOK
  <2>1. UNCHANGED captureVars /\ pc' = "dtor_stop" /\ status' = 1
    BY <1>1, <1>3 DEF StartThrows
  <2>2. Recorded' /\ UNCHANGED <<fd_, slots_, on, inq, doneq, sequence, lost>>
    BY <2>1, UntouchedKeeps DEF IInv
  <2>3. Typed' /\ Circulating' /\ Statements'
    BY <1>1, <2>1, <2>2 DEF IInv, Typed, Circulating, Statements
  <2> QED BY <2>2, <2>3 DEF IInv
<1> QED BY <1>2, <1>3

\* The loop ends, times out or throws.
LEMMA LoopKeeps ==
  ASSUME IInv, LeaveLoop \/ LoopTimeout \/ LoopThrows
  PROVE  IInv'
<1>1. /\ UNCHANGED captureVars /\ UNCHANGED out_fd /\ pc = "loop"
      /\ \/ pc' \in {"loop", "stop"} /\ UNCHANGED status
         \/ pc' = "dtor_stop" /\ status' = 1
  BY DEF LeaveLoop, LoopTimeout, LoopThrows, NextNothing, NextThrows, Throw, Goto, locals
<1>2. /\ Recorded' /\ DriverOwned' = DriverOwned
      /\ UNCHANGED <<fd_, slots_, on, inq, doneq, sequence, lost>>
  BY <1>1, UntouchedKeeps DEF IInv
<1>3. Typed' /\ Circulating' /\ Statements'
  BY <1>1, <1>2 DEF IInv, Typed, Circulating, Statements
<1> QED BY <1>2, <1>3 DEF IInv

\* next() returns a frame, and the loop body goes on to release() it.
LEMMA LoopFrameKeeps == ASSUME IInv, LoopFrame PROVE IInv'
<1>1. /\ doneq # <<>> /\ NextFrame(Head(doneq)) /\ pc = "loop" /\ pc' = "release"
      /\ frame' = Head(doneq).index /\ UNCHANGED <<out_fd, status>>
  BY DEF LoopFrame, Goto, Releases
<1>2. /\ Recorded' /\ UNCHANGED <<fd_, slots_, on, sequence, lost, inq>>
      /\ doneq' \in Seq(Filled)
      /\ Head(doneq).index \in Buffers
      /\ DriverOwned' \cup {Head(doneq).index} = DriverOwned
  BY <1>1, NextFrameKeeps DEF IInv
<1>3. Typed'
  BY <1>1, <1>2 DEF IInv, Typed
<1>4. Circulating' /\ Statements'
  BY <1>1, <1>2 DEF IInv, Circulating, Statements
<1> QED BY <1>2, <1>3, <1>4 DEF IInv

\* release() gives the frame's buffer back, or throws.
LEMMA ReleaseFrameKeeps == ASSUME IInv, ReleaseFrame PROVE IInv'
<1>1. /\ pc = "release" /\ UNCHANGED out_fd
      /\ \/ ReleaseOK(frame) /\ pc' = "loop" /\ UNCHANGED status
         \/ UNCHANGED captureVars /\ pc' = "dtor_stop" /\ status' = 1
  BY DEF ReleaseFrame, Goto, Throw
<1>2. /\ frame \in Buffers /\ DriverOwned \cup {frame} = DOMAIN slots_
      /\ fd_
  BY <1>1 DEF IInv, Circulating, Recorded
<1>3. CASE ReleaseOK(frame) /\ pc' = "loop" /\ UNCHANGED status
  <2>1. /\ Recorded' /\ UNCHANGED <<fd_, slots_, on, sequence, lost, doneq>>
        /\ inq' \in Seq(Buffers)
        /\ DriverOwned' = DriverOwned \cup {frame}
    BY <1>2, <1>3, ReleaseKeeps DEF IInv
  <2>2. Typed' /\ Circulating' /\ Statements'
    BY <1>1, <1>2, <1>3, <2>1 DEF IInv, Typed, Circulating, Statements
  <2> QED BY <2>1, <2>2 DEF IInv
<1>4. CASE UNCHANGED captureVars /\ pc' = "dtor_stop" /\ status' = 1
  <2>1. Recorded' /\ UNCHANGED <<fd_, slots_, on, inq, doneq, sequence, lost>>
    BY <1>4, UntouchedKeeps DEF IInv
  <2>2. Typed' /\ Circulating' /\ Statements'
    BY <1>1, <1>4, <2>1 DEF IInv, Typed, Circulating, Statements
  <2> QED BY <2>1, <2>2 DEF IInv
<1> QED BY <1>1, <1>3, <1>4

\* stop(), called by the program or by the destructor.
LEMMA StopStepKeeps == ASSUME IInv, StopCapture \/ DestroyStop PROVE IInv'
<1>1. /\ Stop /\ UNCHANGED <<out_fd, status>>
      /\ \/ pc = "stop" /\ pc' = "close_out"
         \/ pc = "dtor_stop" /\ pc' = "dtor_close"
  BY DEF StopCapture, DestroyStop, Goto, locals
<1>2. /\ Recorded' /\ UNCHANGED <<fd_, slots_, sequence, lost>>
      /\ on' \in BOOLEAN /\ inq' \in Seq(Buffers) /\ doneq' \in Seq(Filled)
  BY <1>1, StopKeeps DEF IInv
<1>3. Typed' /\ Circulating' /\ Statements'
  BY <1>1, <1>2 DEF IInv, Typed, Circulating, Statements
<1> QED BY <1>2, <1>3 DEF IInv

\* close(), called by the destructor.
LEMMA DestroyCloseKeeps == ASSUME IInv, DestroyClose PROVE IInv'
<1>1. /\ Close /\ UNCHANGED <<out_fd, status>> /\ pc = "dtor_close"
      /\ pc' = IF status = 0 THEN "exited" ELSE "close_out"
  BY DEF DestroyClose, Goto, locals
<1>2. /\ Recorded' /\ ~fd_' /\ fd_' \in BOOLEAN /\ UNCHANGED <<sequence, lost>>
      /\ on' \in BOOLEAN /\ inq' \in Seq(Buffers) /\ doneq' \in Seq(Filled)
      /\ DOMAIN slots_' \subseteq Buffers
  BY <1>1, CloseKeeps DEF IInv
<1>3. Typed' /\ Circulating' /\ Statements'
  BY <1>1, <1>2 DEF IInv, Typed, Circulating, Statements
<1> QED BY <1>2, <1>3 DEF IInv

\* close(out_fd), before the destructor or after it.
LEMMA CloseRawOutKeeps == ASSUME IInv, CloseRawOut PROVE IInv'
<1>1. /\ UNCHANGED captureVars /\ UNCHANGED status /\ out_fd' = FALSE /\ pc = "close_out"
      /\ pc' = IF status = 0 THEN "dtor_stop" ELSE "exited"
  BY DEF CloseRawOut, Goto, OutClosed
<1>2. out_fd' \in BOOLEAN
  BY <1>1, Zenon
<1>3. Recorded' /\ UNCHANGED <<fd_, slots_, on, inq, doneq, sequence, lost>>
  BY <1>1, UntouchedKeeps DEF IInv
<1>4. Typed' /\ Circulating' /\ Statements'
  BY <1>1, <1>2, <1>3 DEF IInv, Typed, Circulating, Statements
<1> QED BY <1>3, <1>4 DEF IInv

\* The camera does something while the program runs.
LEMMA CameraKeeps == ASSUME IInv, Driver PROVE IInv'
<1>1. DriverStep /\ UNCHANGED <<pc, out_fd, frame, status>>
  BY DEF Driver, locals
<1>2. /\ Recorded' /\ UNCHANGED <<fd_, slots_, on>>
      /\ inq' \in Seq(Buffers) /\ doneq' \in Seq(Filled)
      /\ sequence' \in Nat /\ lost' \in Nat
      /\ DriverOwned' = DriverOwned
  BY <1>1, DriverKeeps DEF IInv
<1>3. Typed' /\ Circulating' /\ Statements'
  BY <1>1, <1>2 DEF IInv, Typed, Circulating, Statements
<1> QED BY <1>2, <1>3 DEF IInv

\* A step of no one, a signal, or the end.
LEMMA SignalKeeps == ASSUME IInv, OnSignal \/ Ended \/ UNCHANGED vars PROVE IInv'
<1>1. UNCHANGED captureVars /\ UNCHANGED <<pc, out_fd, frame, status>>
  BY DEF OnSignal, Ended, vars, locals
<1>2. /\ Recorded' /\ DriverOwned' = DriverOwned
      /\ UNCHANGED <<fd_, slots_, on, inq, doneq, sequence, lost>>
  BY <1>1, UntouchedKeeps DEF IInv
<1>3. Typed' /\ Circulating' /\ Statements'
  BY <1>1, <1>2 DEF IInv, Typed, Circulating, Statements
<1> QED BY <1>2, <1>3 DEF IInv

-------------------------------------------------------------------------------
(* Theorems *)

\* The inductive invariant holds of every behaviour of the program.
THEOREM InvariantHolds == Spec => []IInv
<1>1. Init => IInv
  BY InitHolds
<1>2. IInv /\ [Next]_vars => IInv'
  BY OpenRawOutKeeps, OpenCaptureKeeps, StartCaptureKeeps, LoopKeeps, LoopFrameKeeps,
     ReleaseFrameKeeps, StopStepKeeps, DestroyCloseKeeps, CloseRawOutKeeps, CameraKeeps,
     SignalKeeps
  DEF Next, MainStep
<1> QED BY <1>1, <1>2, PTL DEF Spec

\* Whenever the loop of main() asks for a frame, every granted buffer is with the
\* driver: release() is reached for corrupt frames too, whatever the camera does.
THEOREM CirculationHolds == Spec => []AllBuffersCirculate
<1>1. IInv => AllBuffersCirculate
  BY DEF IInv, Circulating, AllBuffersCirculate
<1> QED BY <1>1, InvariantHolds, PTL

\* However the program ends, normally or by an exception of any call, the device,
\* the mappings, the dmabuf descriptors and the output file are closed.
THEOREM NothingLeftHolds == Spec => []LeavesNothingBehind
<1>1. IInv => LeavesNothingBehind
  BY DEF IInv, Recorded, Statements, LeavesNothingBehind
<1> QED BY <1>1, InvariantHolds, PTL
===============================================================================

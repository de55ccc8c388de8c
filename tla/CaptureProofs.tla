----------------------------- MODULE CaptureProofs -----------------------------
(***************************************************************************)
(* TLAPS proofs about V4L2Capture under any caller that keeps to its       *)
(* contract (CaptureClient), for every number of buffers and of frames and *)
(* every range of the sequence counter.  The inductive invariant has three *)
(* parts besides the types:                                                *)
(*   - Recorded: the slots record exactly what the kernel holds, so that   *)
(*     close() gives all of it back;                                       *)
(*   - Owners: every mapped buffer has at most one owner, a queue of the   *)
(*     driver or the caller;                                               *)
(*   - Numbered: the sequence numbers from the last dequeued frame through *)
(*     the filled buffers to the camera differ by the frames lost between. *)
(***************************************************************************)
EXTENDS CaptureClient, FiniteSetTheorems, TLAPS

\* What the class records is what the kernel holds.
Recorded ==
  /\ kfd = fd_
  /\ kmaps = {b \in DOMAIN slots_ : slots_[b].mapped}
  /\ kdma = {b \in DOMAIN slots_ : slots_[b].dmabuf}
  /\ ~fd_ => DOMAIN slots_ = {} /\ ~on /\ inq = <<>>
  /\ ~on => doneq = <<>>

\* No buffer has two owners, and every owned buffer is mapped.
Distinct ==
  /\ \A i, j \in 1 .. Len(inq) : i # j => inq[i] # inq[j]
  /\ \A i, j \in 1 .. Len(doneq) : i # j => doneq[i].index # doneq[j].index
  /\ \A i \in 1 .. Len(inq), j \in 1 .. Len(doneq) : inq[i] # doneq[j].index

Apart ==
  /\ \A i \in 1 .. Len(inq) : inq[i] \in kmaps \ held
  /\ \A j \in 1 .. Len(doneq) : doneq[j].index \in kmaps \ held
  /\ held \subseteq kmaps

Owners == Distinct /\ Apart

\* Frame number b comes k after frame number a, around the counter's wrap.
After(a, k, b) == b = a + k \/ b + SeqMod = a + k

\* The chain of sequence numbers, the numbers of lost frames included.
Numbered ==
  /\ counting = have_last_sequence_
  /\ lost < SeqMod
  /\ \A i \in 1 .. Len(doneq) : doneq[i].lost < SeqMod
  /\ \A i, j \in 1 .. Len(doneq) :
       j = i + 1 => After(doneq[i].sequence, doneq[j].lost + 1, doneq[j].sequence)
  /\ \A i \in 1 .. Len(doneq) :
       i = Len(doneq) => After(doneq[i].sequence, lost + 1, sequence)
  /\ \A i \in 1 .. Len(doneq) :
       counting /\ i = 1 => After(last_sequence_, doneq[i].lost + 1, doneq[i].sequence)
  /\ counting /\ on /\ doneq = <<>> => After(last_sequence_, lost + 1, sequence)

\* s[i] bounds the losses seen by the time i filled buffers have been dequeued; none
\* is counted that the camera has not produced.
Tally(s) ==
  /\ s \in [0 .. Len(doneq) -> Nat]
  /\ lostSeen <= s[0]
  /\ \A i, j \in 0 .. Len(doneq) : i <= j => s[i] <= s[j]
  /\ \A i \in 1 .. Len(doneq) : s[i - 1] + doneq[i].lost <= s[i]
  /\ s[Len(doneq)] + lost <= produced

Tallied == \E s : Tally(s)

IInv == TypeOK /\ Recorded /\ Owners /\ Numbered /\ Tallied /\ DropsCounted

USE BuffersAssumption, DmabufAssumption, SequenceAssumption

-------------------------------------------------------------------------------
(* Operators *)

\* The 32-bit increment, without %.
LEMMA Increment ==
  ASSUME NEW a \in 0 .. SeqMod - 1
  PROVE  (a + 1) % SeqMod = IF a + 1 = SeqMod THEN 0 ELSE a + 1
  OBVIOUS

\* The slots that open() records.
LEMMA SlotsRecord ==
  ASSUME NEW n \in Nat, NEW mapped \in 0 .. n, NEW exported \in 0 .. n
  PROVE  /\ DOMAIN Slots(n, mapped, exported) = 1 .. n
         /\ \A b \in 1 .. n :
              Slots(n, mapped, exported)[b] \in [mapped : BOOLEAN, dmabuf : BOOLEAN]
         /\ {b \in DOMAIN Slots(n, mapped, exported) :
               Slots(n, mapped, exported)[b].mapped} = 1 .. mapped
         /\ {b \in DOMAIN Slots(n, mapped, exported) :
               Slots(n, mapped, exported)[b].dmabuf} = 1 .. exported
<1> USE DEF Slots
<1>1. DOMAIN Slots(n, mapped, exported) = 1 .. n
  OBVIOUS
<1>2. \A b \in 1 .. n :
        Slots(n, mapped, exported)[b] \in [mapped : BOOLEAN, dmabuf : BOOLEAN]
  OBVIOUS
<1>3. \A b \in 1 .. n : /\ Slots(n, mapped, exported)[b].mapped <=> b <= mapped
                        /\ Slots(n, mapped, exported)[b].dmabuf <=> b <= exported
  OBVIOUS
<1> HIDE DEF Slots
<1>4. {b \in 1 .. n : Slots(n, mapped, exported)[b].mapped} = 1 .. mapped
  BY <1>3
<1>5. {b \in 1 .. n : Slots(n, mapped, exported)[b].dmabuf} = 1 .. exported
  BY <1>3
<1> QED BY <1>1, <1>2, <1>4, <1>5

\* A buffer that is taken out of a non-empty queue, and what is left.
LEMMA TailOf ==
  ASSUME NEW S, NEW s \in Seq(S), s # <<>>
  PROVE  /\ Head(s) = s[1] /\ s[1] \in S /\ Len(s) \in Nat /\ Len(s) >= 1
         /\ Tail(s) \in Seq(S) /\ Len(Tail(s)) = Len(s) - 1
         /\ \A i \in 1 .. Len(Tail(s)) : Tail(s)[i] = s[i + 1] /\ i + 1 \in 1 .. Len(s)
  OBVIOUS

\* A buffer that is put at the end of a queue.
LEMMA AppendTo ==
  ASSUME NEW S, NEW s \in Seq(S), NEW e \in S
  PROVE  /\ Append(s, e) \in Seq(S) /\ Len(s) \in Nat
         /\ Len(Append(s, e)) = Len(s) + 1
         /\ \A i \in 1 .. Len(s) : Append(s, e)[i] = s[i]
         /\ Append(s, e)[Len(s) + 1] = e
  OBVIOUS

\* Distinct queues hold as many buffers as they have elements.
LEMMA DistinctCounts ==
  ASSUME CaptureTypeOK, Distinct
  PROVE  Cardinality(DriverOwned) = Len(inq) + Len(doneq)
<1> DEFINE n == Len(inq)
           m == Len(doneq)
           f == [i \in 1 .. n + m |-> IF i <= n THEN inq[i] ELSE doneq[i - n].index]
<1>1. n \in Nat /\ m \in Nat /\ DOMAIN inq = 1 .. n /\ DOMAIN doneq = 1 .. m
  BY DEF CaptureTypeOK
<1>2. DriverOwned = {inq[i] : i \in 1 .. n} \cup {doneq[i].index : i \in 1 .. m}
  BY <1>1 DEF DriverOwned
<1>3. \A i \in 1 .. n + m : f[i] = IF i <= n THEN inq[i] ELSE doneq[i - n].index
  OBVIOUS
<1>4. f \in [1 .. n + m -> DriverOwned]
  <2>1. \A i \in 1 .. n + m : f[i] \in DriverOwned
    BY <1>1, <1>2, <1>3
  <2> QED BY <2>1
<1>5. \A i, j \in 1 .. n + m : f[i] = f[j] => i = j
  BY <1>1, <1>3 DEF Distinct
<1>6. \A b \in DriverOwned : \E i \in 1 .. n + m : f[i] = b
  <2> SUFFICES ASSUME NEW b \in DriverOwned PROVE \E i \in 1 .. n + m : f[i] = b
    OBVIOUS
  <2>1. CASE \E i \in 1 .. n : b = inq[i]
    BY <1>1, <1>3, <2>1
  <2>2. ASSUME NEW j \in 1 .. m, b = doneq[j].index PROVE \E i \in 1 .. n + m : f[i] = b
    <3>1. n + j \in 1 .. n + m /\ ~(n + j <= n) /\ (n + j) - n = j
      BY <1>1
    <3>2. f[n + j] = b
      BY <1>3, <2>2, <3>1
    <3> QED BY <3>1, <3>2
  <2> QED BY <1>2, <2>1, <2>2
<1> HIDE DEF f
<1>7. ExistsBijection(1 .. n + m, DriverOwned)
  BY <1>4, <1>5, <1>6, Zenon DEF ExistsBijection, Bijection, Injection, IsInjective, Surjection
<1>8. IsFiniteSet(1 .. n + m) /\ Cardinality(1 .. n + m) = n + m
  <2>1. 1 \in Int /\ n + m \in Int /\ n + m >= 0
    BY <1>1
  <2> HIDE DEF n, m
  <2>2. /\ IsFiniteSet(1 .. n + m)
        /\ Cardinality(1 .. n + m) = IF 1 > n + m THEN 0 ELSE (n + m) - 1 + 1
    BY <2>1, FS_Interval
  <2> QED BY <2>1, <2>2
<1> QED BY <1>7, <1>8, FS_Bijection

\* The invariant implies the properties.
LEMMA InvImplies == IInv => ClosedMeansReleased /\ HeldFramesStable
<1> SUFFICES ASSUME IInv PROVE ClosedMeansReleased /\ HeldFramesStable
  OBVIOUS
<1>1. ClosedMeansReleased
  BY DEF IInv, Recorded, ClosedMeansReleased
<1>2. HeldFramesStable
  <2>1. Cardinality(DriverOwned) = Len(inq) + Len(doneq)
    BY DistinctCounts DEF IInv, TypeOK, Owners
  <2>2. DOMAIN inq = 1 .. Len(inq) /\ DOMAIN doneq = 1 .. Len(doneq)
    BY DEF IInv, TypeOK, CaptureTypeOK
  <2>3. held \cap DriverOwned = {} /\ held \subseteq kmaps
    BY <2>2 DEF IInv, Owners, Apart, DriverOwned
  <2> QED BY <2>1, <2>3 DEF HeldFramesStable
<1> QED BY <1>1, <1>2

-------------------------------------------------------------------------------
(* Initial states, and steps that leave the driver's queues alone *)

\* The initial states satisfy the invariant.
LEMMA InitInv == ClientInit => IInv
<1> SUFFICES ASSUME ClientInit PROVE IInv
  OBVIOUS
<1> USE DEF ClientInit, CaptureInit
<1>1. TypeOK
  <2>1. {fd_, streaming_, have_last_sequence_} \subseteq BOOLEAN
    BY Zenon
  <2>2. {on, waiting, gone, counting, straddled} \subseteq BOOLEAN
    BY Zenon
  <2>3. kfd \in BOOLEAN /\ ready \in BOOLEAN
    BY Zenon
  <2>4. DOMAIN slots_ = {}
    BY DEF NoSlots
  <2>5. stats_ \in [captured : Nat, dropped : Nat, errored : Nat]
    OBVIOUS
  <2>6. inq \in Seq(Buffers) /\ doneq \in Seq(FilledBuffers)
    OBVIOUS
  <2> QED BY <2>1, <2>2, <2>3, <2>4, <2>5, <2>6 DEF TypeOK, CaptureTypeOK
<1>2. Recorded
  BY DEF Recorded, NoSlots
<1>3. Owners
  BY DEF Owners, Distinct, Apart
<1>4. Numbered
  <2>1. counting = have_last_sequence_ /\ ~counting
    BY Zenon
  <2> QED BY <2>1 DEF Numbered
<1>5. Tallied
  <2>1. Tally([i \in 0 .. 0 |-> 0])
    BY DEF Tally
  <2> QED BY <2>1 DEF Tallied
<1>6. DropsCounted
  BY DEF DropsCounted
<1> QED BY <1>1, <1>2, <1>3, <1>4, <1>5, <1>6 DEF IInv

\* A step that changes none of what next() counts.
LEMMA SameNumbers ==
  ASSUME IInv, UNCHANGED <<doneq, camera, counting, have_last_sequence_, last_sequence_,
                           lostSeen, straddled, stats_>>,
         on' => on
  PROVE  Numbered' /\ Tallied' /\ DropsCounted'
  BY DEF IInv, Numbered, Tallied, Tally, After, DropsCounted, camera

\* A call that fails without effect, and a caller that forgets its frames.
LEMMA NothingKeeps ==
  ASSUME IInv, UNCHANGED captureVars, ready' \in BOOLEAN, held' \subseteq held
  PROVE  IInv'
<1> USE DEF captureVars, classVars, resources, queues, history
<1>1. TypeOK'
  BY DEF IInv, TypeOK, CaptureTypeOK, camera
<1>2. Numbered' /\ Tallied' /\ DropsCounted'
  BY SameNumbers
<1>3. Recorded' /\ Owners'
  BY DEF IInv, Recorded, Owners, Distinct, Apart
<1> QED BY <1>1, <1>2, <1>3 DEF IInv

\* What open() acquires before it returns or throws is recorded.
LEMMA OpenedKeeps ==
  ASSUME IInv, ~fd_, NEW n \in 0 .. MaxBuffers, NEW mapped \in 0 .. n,
         NEW exported \in 0 .. n, NEW queued \in 0 .. mapped,
         Opened(n, mapped, exported, queued), held' = {}, ready' \in BOOLEAN
  PROVE  IInv'
<1> USE DEF Opened
<1>1. /\ DOMAIN slots_' = 1 .. n
      /\ \A b \in 1 .. n : slots_'[b] \in [mapped : BOOLEAN, dmabuf : BOOLEAN]
      /\ {b \in DOMAIN slots_' : slots_'[b].mapped} = 1 .. mapped
      /\ {b \in DOMAIN slots_' : slots_'[b].dmabuf} = 1 .. exported
  <2>1. n \in Nat
    OBVIOUS
  <2> QED BY <2>1, SlotsRecord
<1>2. /\ inq' \in Seq(Buffers) /\ Len(inq') = queued
      /\ \A i \in 1 .. queued : inq'[i] = i
  BY DEF Buffers
<1>3. ~on /\ doneq = <<>> /\ ~on' /\ doneq' = <<>>
  BY DEF IInv, Recorded
<1>4. TypeOK'
  <2>1. {fd_', streaming_', have_last_sequence_'} \subseteq BOOLEAN
    BY Zenon DEF IInv, TypeOK, CaptureTypeOK
  <2>2. {on', waiting', gone', counting', straddled'} \subseteq BOOLEAN
    BY Zenon DEF IInv, TypeOK, CaptureTypeOK, camera, history
  <2>3. kfd' \in BOOLEAN
    BY Zenon
  <2>4. kmaps' \subseteq Buffers /\ kdma' \subseteq Buffers /\ DOMAIN slots_' \subseteq Buffers
    BY <1>1 DEF Buffers
  <2> QED BY <1>1, <1>2, <2>1, <2>2, <2>3, <2>4
      DEF IInv, TypeOK, CaptureTypeOK, camera, history
<1>5. Recorded'
  BY <1>1, <1>3 DEF Recorded
<1>6. Owners'
  BY <1>2, <1>3 DEF Owners, Distinct, Apart
<1>7. Numbered' /\ Tallied' /\ DropsCounted'
  BY SameNumbers DEF history
<1> QED BY <1>4, <1>5, <1>6, <1>7 DEF IInv

\* open(), wherever it stops.
LEMMA CallOpenKeeps ==
  ASSUME IInv, CallOpen
  PROVE  IInv'
<1>1. ~fd_ /\ held' = {} /\ ready' \in BOOLEAN
  BY Zenon DEF CallOpen
<1>2. \A n \in 0 .. MaxBuffers : Exports(n) \in 0 .. n
  BY DEF Exports
<1>3. ASSUME NEW n \in 2 .. MaxBuffers, Opened(n, n, Exports(n), n) PROVE IInv'
  <2>1. n \in 0 .. MaxBuffers /\ n \in 0 .. n /\ Exports(n) \in 0 .. n
    BY <1>2
  <2> QED BY <1>1, <1>3, <2>1, OpenedKeeps
<1>4. CASE OpenThrowsNoDevice
  BY <1>1, <1>4, NothingKeeps DEF OpenThrowsNoDevice
<1>5. CASE OpenThrowsSetup
  <2>1. 0 \in 0 .. MaxBuffers /\ 0 \in 0 .. 0
    OBVIOUS
  <2> QED BY <1>1, <1>5, <2>1, OpenedKeeps DEF OpenThrowsSetup
<1>6. ASSUME NEW n \in 2 .. MaxBuffers, NEW i \in 1 .. n,
             \/ Opened(n, i - 1, Exports(i - 1), 0)
             \/ Opened(n, i, i - 1, 0)
             \/ Opened(n, n, Exports(n), i - 1)
      PROVE  IInv'
  <2>1. /\ n \in 0 .. MaxBuffers /\ n \in 0 .. n /\ i \in 0 .. n /\ i - 1 \in 0 .. n
        /\ 0 \in 0 .. i - 1 /\ 0 \in 0 .. i /\ i - 1 \in 0 .. MaxBuffers
    OBVIOUS
  <2>2. Exports(n) \in 0 .. n /\ Exports(i - 1) \in 0 .. n
    BY <1>2, <2>1
  <2> QED BY <1>1, <1>6, <2>1, <2>2, OpenedKeeps
<1> QED
  BY <1>3, <1>4, <1>5, <1>6
  DEF CallOpen, OpenOK, OpenThrows, OpenThrowsMapping, OpenThrowsQueueing

\* start() begins a new count, on a driver that streams already or not.
LEMMA CallStartKeeps ==
  ASSUME IInv, CallStart
  PROVE  IInv'
<1> USE DEF CallStart, StartOK, KnowsSequence, resources
<1>1. TypeOK'
  <2>1. {fd_', streaming_', have_last_sequence_'} \subseteq BOOLEAN
    BY Zenon DEF IInv, TypeOK, CaptureTypeOK
  <2>2. {on', waiting', gone', counting', straddled'} \subseteq BOOLEAN
    BY Zenon DEF IInv, TypeOK, CaptureTypeOK
  <2>3. sequence' \in 0 .. SeqMod - 1 /\ lost' \in 0 .. MaxFrames
    BY DEF IInv, TypeOK, CaptureTypeOK
  <2> QED BY <2>1, <2>2, <2>3 DEF IInv, TypeOK, CaptureTypeOK
<1>2. Recorded' /\ Owners'
  BY DEF IInv, Recorded, Owners, Distinct, Apart
<1>3. Numbered'
  <2>1. counting' = have_last_sequence_' /\ ~counting'
    BY Zenon
  <2>2. lost' < SeqMod
    BY DEF IInv, Numbered
  <2>3. CASE on
    BY <2>1, <2>2, <2>3 DEF IInv, Numbered, After
  <2>4. CASE ~on
    <3>1. doneq = <<>> /\ doneq' = <<>>
      BY <2>4 DEF IInv, Recorded
    <3> QED BY <2>1, <2>2, <3>1 DEF Numbered
  <2> QED BY <2>3, <2>4
<1>4. Tallied'
  <2>1. PICK s : Tally(s)
    BY DEF IInv, Tallied
  <2>2. lost' <= lost /\ lost \in Nat /\ lost' \in Nat /\ s[Len(doneq)] \in Nat
        /\ produced \in Nat
    BY <2>1 DEF IInv, TypeOK, CaptureTypeOK, Tally
  <2>3. Tally(s)'
    BY <2>1, <2>2 DEF Tally
  <2> QED BY <2>3 DEF Tallied, Tally
<1>5. DropsCounted'
  BY DEF IInv, DropsCounted
<1> QED BY <1>1, <1>2, <1>3, <1>4, <1>5 DEF IInv

\* release() gives a buffer of the caller to the driver.
LEMMA CallReleaseKeeps ==
  ASSUME IInv, NEW b \in Buffers, CallRelease(b)
  PROVE  IInv'
<1> USE DEF CallRelease, ReleaseOK, classVars, resources, history
<1>1. /\ inq' \in Seq(Buffers) /\ Len(inq) \in Nat /\ Len(inq') = Len(inq) + 1
      /\ \A i \in 1 .. Len(inq) : inq'[i] = inq[i]
      /\ inq'[Len(inq) + 1] = b
  BY AppendTo DEF IInv, TypeOK, CaptureTypeOK
<1>2. TypeOK'
  <2>1. {on', waiting', gone', counting', straddled'} \subseteq BOOLEAN
    BY Zenon DEF IInv, TypeOK, CaptureTypeOK, camera
  <2> QED BY <1>1, <2>1 DEF IInv, TypeOK, CaptureTypeOK, camera
<1>3. Recorded'
  BY DEF IInv, Recorded, Owners, Apart
<1>4. Numbered' /\ Tallied' /\ DropsCounted'
  BY SameNumbers
<1>5. b \in kmaps /\ b \in held
  BY DEF IInv, Owners, Apart
<1>6. Distinct'
  BY <1>1, <1>5 DEF IInv, Owners, Distinct, Apart
<1>7. Apart'
  BY <1>1, <1>5, <1>6 DEF IInv, Owners, Distinct, Apart
<1> QED BY <1>2, <1>3, <1>4, <1>6, <1>7 DEF IInv, Owners

\* The driver's queues are emptied: by STREAMOFF, or with the device.
LEMMA EmptiedNumbers ==
  ASSUME IInv, doneq' = <<>>, ~on',
         UNCHANGED <<camera, history, have_last_sequence_, last_sequence_, stats_>>
  PROVE  Numbered' /\ Tallied' /\ DropsCounted'
<1> USE DEF camera, history
<1>1. Numbered'
  BY DEF IInv, Numbered
<1>2. Tallied'
  <2>1. PICK s : Tally(s)
    BY DEF IInv, Tallied
  <2>2. Len(doneq) \in Nat /\ lostSeen \in Nat /\ lost \in Nat /\ produced \in Nat
    BY DEF IInv, TypeOK, CaptureTypeOK
  <2>3. lostSeen + lost <= produced
    BY <2>1, <2>2 DEF Tally
  <2>4. Tally([i \in 0 .. 0 |-> lostSeen])'
    BY <2>2, <2>3 DEF Tally
  <2> QED BY <2>4 DEF Tallied, Tally
<1>3. DropsCounted'
  BY DEF IInv, DropsCounted
<1> QED BY <1>1, <1>2, <1>3

\* stop() does nothing, or takes every buffer from the driver, or fails to.
LEMMA CallStopKeeps ==
  ASSUME IInv, CallStop
  PROVE  IInv'
<1>1. CASE StopNothing
  BY <1>1, NothingKeeps DEF CallStop, StopNothing, IInv, TypeOK
<1>2. CASE StopOK
  <2> USE <1>2 DEF CallStop, StopOK, resources
  <2>1. TypeOK'
    <3>1. {fd_', streaming_', have_last_sequence_'} \subseteq BOOLEAN
      BY Zenon DEF IInv, TypeOK, CaptureTypeOK
    <3>2. {on', waiting', gone', counting', straddled'} \subseteq BOOLEAN
      BY Zenon DEF IInv, TypeOK, CaptureTypeOK, camera, history
    <3> QED BY <3>1, <3>2 DEF IInv, TypeOK, CaptureTypeOK, camera, history
  <2>2. Recorded' /\ Owners'
    BY DEF IInv, Recorded, Owners, Distinct, Apart
  <2>3. Numbered' /\ Tallied' /\ DropsCounted'
    BY EmptiedNumbers
  <2> QED BY <2>1, <2>2, <2>3 DEF IInv
<1>3. CASE StopFailing
  <2> USE <1>3 DEF CallStop, StopFailing, resources, queues
  <2>1. {fd_', streaming_', have_last_sequence_'} \subseteq BOOLEAN
    BY Zenon DEF IInv, TypeOK, CaptureTypeOK
  <2>2. TypeOK'
    BY <2>1 DEF IInv, TypeOK, CaptureTypeOK, camera, history
  <2>3. Recorded' /\ Owners'
    BY DEF IInv, Recorded, Owners, Distinct, Apart
  <2>4. Numbered' /\ Tallied' /\ DropsCounted'
    BY SameNumbers DEF history
  <2> QED BY <2>2, <2>3, <2>4 DEF IInv
<1> QED BY <1>1, <1>2, <1>3 DEF CallStop, Stop

\* close() gives back what the slots record, which is all there is.
LEMMA CallCloseKeeps ==
  ASSUME IInv, CallClose
  PROVE  IInv'
<1> USE DEF CallClose, Close
<1>1. DOMAIN slots_' = {} /\ kmaps' = {} /\ kdma' = {}
  BY DEF IInv, Recorded, NoSlots
<1>2. TypeOK'
  <2>1. {fd_', streaming_', have_last_sequence_'} \subseteq BOOLEAN
    BY Zenon DEF IInv, TypeOK, CaptureTypeOK
  <2>2. {on', waiting', gone', counting', straddled'} \subseteq BOOLEAN
    BY Zenon DEF IInv, TypeOK, CaptureTypeOK, camera, history
  <2>3. kfd' \in BOOLEAN /\ ready' \in BOOLEAN
    BY Zenon
  <2> QED BY <1>1, <2>1, <2>2, <2>3 DEF IInv, TypeOK, CaptureTypeOK, camera, history
<1>3. Recorded' /\ Owners'
  <2>1. kfd' = fd_' /\ ~fd_' /\ ~on'
    BY Zenon
  <2> QED BY <1>1, <2>1 DEF Recorded, Owners, Distinct, Apart
<1>4. Numbered' /\ Tallied' /\ DropsCounted'
  BY EmptiedNumbers
<1> QED BY <1>2, <1>3, <1>4 DEF IInv

-------------------------------------------------------------------------------
(* next() and the driver *)

\* The frames that next() finds missing are the ones that were lost, unless the gap
\* contains the wrap of the counter, in which case it finds none.
LEMMA MissedCounts ==
  ASSUME NEW f \in FilledBuffers, last_sequence_ \in 0 .. SeqMod - 1,
         have_last_sequence_, f.lost < SeqMod,
         After(last_sequence_, f.lost + 1, f.sequence)
  PROVE  /\ Missed(f.sequence) \in Nat /\ Missed(f.sequence) <= f.lost
         /\ ~(f.sequence < f.lost) => Missed(f.sequence) = f.lost
<1>1. f.sequence \in 0 .. SeqMod - 1 /\ f.lost \in Nat
  BY DEF FilledBuffers
<1>2. PICK expected \in 0 .. SeqMod - 1 :
        /\ expected = (last_sequence_ + 1) % SeqMod
        /\ expected = IF last_sequence_ + 1 = SeqMod THEN 0 ELSE last_sequence_ + 1
  BY Increment
<1>3. Missed(f.sequence) = IF f.sequence > expected THEN f.sequence - expected ELSE 0
  BY <1>2 DEF Missed
<1>4. f.sequence = expected + f.lost \/ f.sequence + SeqMod = expected + f.lost
  BY <1>1, <1>2 DEF After
<1> QED BY <1>1, <1>2, <1>3, <1>4

\* next() moves the oldest filled buffer to the caller and counts what it missed.
LEMMA NextFrameKeeps ==
  ASSUME IInv, doneq # <<>>, NextFrame(Head(doneq)),
         held' = held \cup {Head(doneq).index}, ready' = ready
  PROVE  IInv'
<1> DEFINE f == Head(doneq)
<1>1. /\ f = doneq[1] /\ f \in FilledBuffers /\ Len(doneq) \in Nat /\ Len(doneq) >= 1
      /\ doneq' \in Seq(FilledBuffers) /\ Len(doneq') = Len(doneq) - 1
      /\ \A i \in 1 .. Len(doneq') : doneq'[i] = doneq[i + 1] /\ i + 1 \in 1 .. Len(doneq)
      /\ 1 \in 1 .. Len(doneq)
  BY TailOf DEF NextFrame, IInv, TypeOK, CaptureTypeOK
<1>2. /\ f.index \in Buffers /\ f.sequence \in 0 .. SeqMod - 1 /\ f.lost \in Nat
      /\ f.error \in BOOLEAN
  BY <1>1 DEF FilledBuffers
<1>3. /\ on /\ UNCHANGED <<fd_, slots_, streaming_, kfd, kmaps, kdma, on, waiting, inq>>
      /\ UNCHANGED <<gone, sequence, produced, lost>>
      /\ last_sequence_' = f.sequence
      /\ stats_' = [captured |-> stats_.captured + 1,
                    dropped |-> stats_.dropped + Missed(f.sequence),
                    errored |-> IF f.error THEN stats_.errored + 1 ELSE stats_.errored]
      /\ lostSeen' = IF counting THEN lostSeen + f.lost ELSE lostSeen
  BY DEF NextFrame, PollError, QueuedAfterNext, Remember, resources, camera
<1>4. /\ {fd_', streaming_', have_last_sequence_'} \subseteq BOOLEAN
      /\ {on', waiting', gone', counting', straddled'} \subseteq BOOLEAN
      /\ counting' = have_last_sequence_' /\ counting'
      /\ straddled' = (straddled \/ (counting /\ f.sequence < f.lost))
  BY Zenon DEF NextFrame, IInv, TypeOK, CaptureTypeOK, camera
<1> HIDE DEF f
<1>5. Recorded'
  BY <1>3 DEF IInv, Recorded
<1>6. Owners'
  <2>1. f.index \in kmaps /\ f.index \notin held
    BY <1>1 DEF IInv, Owners, Apart
  <2>2. \A i \in 1 .. Len(inq) : inq[i] # f.index
    BY <1>1 DEF IInv, Owners, Distinct
  <2>3. \A i \in 1 .. Len(doneq') : doneq'[i].index # f.index
    BY <1>1 DEF IInv, Owners, Distinct
  <2>4. Distinct'
    <3>1. ASSUME NEW i \in 1 .. Len(doneq'), NEW j \in 1 .. Len(doneq'), i # j
          PROVE  doneq'[i].index # doneq'[j].index
      <4>1. i + 1 # j + 1 /\ i + 1 \in 1 .. Len(doneq) /\ j + 1 \in 1 .. Len(doneq)
            /\ doneq'[i] = doneq[i + 1] /\ doneq'[j] = doneq[j + 1]
        BY <1>1, <3>1
      <4> QED BY <4>1 DEF IInv, Owners, Distinct
    <3> QED BY <1>1, <1>3, <3>1 DEF IInv, Owners, Distinct
  <2>5. Apart'
    BY <1>1, <1>3, <2>1, <2>2, <2>3 DEF IInv, Owners, Apart, f
  <2> QED BY <2>4, <2>5 DEF Owners
<1>7. Numbered'
  <2>1. lost' < SeqMod /\ \A i \in 1 .. Len(doneq') : doneq'[i].lost < SeqMod
    BY <1>1, <1>3 DEF IInv, Numbered
  <2>2. ASSUME NEW i \in 1 .. Len(doneq'), NEW j \in 1 .. Len(doneq'), j = i + 1
        PROVE  After(doneq'[i].sequence, doneq'[j].lost + 1, doneq'[j].sequence)
    <3>1. j + 1 = (i + 1) + 1 /\ doneq'[i] = doneq[i + 1] /\ doneq'[j] = doneq[j + 1]
          /\ i + 1 \in 1 .. Len(doneq) /\ j + 1 \in 1 .. Len(doneq)
      BY <1>1, <2>2
    <3> QED BY <3>1 DEF IInv, Numbered
  <2>3. ASSUME NEW i \in 1 .. Len(doneq'), i = Len(doneq')
        PROVE  After(doneq'[i].sequence, lost + 1, sequence)
    <3>1. i + 1 = Len(doneq) /\ i + 1 \in 1 .. Len(doneq) /\ doneq'[i] = doneq[i + 1]
      BY <1>1, <2>3
    <3> QED BY <3>1 DEF IInv, Numbered
  <2>4. ASSUME NEW i \in 1 .. Len(doneq'), i = 1
        PROVE  After(f.sequence, doneq'[i].lost + 1, doneq'[i].sequence)
    <3>1. 2 = 1 + 1 /\ 2 \in 1 .. Len(doneq) /\ doneq'[i] = doneq[2]
      BY <1>1, <2>4
    <3> QED BY <1>1, <3>1 DEF IInv, Numbered
  <2>5. ASSUME doneq' = <<>> PROVE After(f.sequence, lost + 1, sequence)
    <3>1. 1 = Len(doneq)
      BY <1>1, <2>5
    <3> QED BY <1>1, <3>1 DEF IInv, Numbered
  <2> QED BY <1>3, <1>4, <2>1, <2>2, <2>3, <2>4, <2>5 DEF Numbered, After
<1>8. Tallied' /\ lostSeen' \in 0 .. MaxFrames
  <2>1. PICK s : Tally(s)
    BY DEF IInv, Tallied
  <2>2. lostSeen \in Nat /\ lost \in Nat /\ produced \in Nat /\ produced <= MaxFrames
    BY DEF IInv, TypeOK, CaptureTypeOK
  <2> DEFINE t == [i \in 0 .. Len(doneq') |-> s[i + 1]]
  <2>3. \A i \in 0 .. Len(doneq') : t[i] = s[i + 1] /\ i + 1 \in 0 .. Len(doneq)
    BY <1>1
  <2>4. s[0] \in Nat /\ s[1] \in Nat /\ s[0] + f.lost <= s[1] /\ lostSeen <= s[0]
        /\ t[0] = s[1]
    <3>1. 0 \in 0 .. Len(doneq) /\ 1 \in 0 .. Len(doneq) /\ 0 \in 0 .. Len(doneq')
          /\ 1 - 1 = 0 /\ 0 + 1 = 1
      BY <1>1
    <3>2. s[1 - 1] + doneq[1].lost <= s[1]
      BY <1>1, <2>1 DEF Tally
    <3> QED BY <1>1, <2>1, <2>3, <3>1, <3>2 DEF Tally
  <2>5. t \in [0 .. Len(doneq') -> Nat]
    BY <2>1, <2>3 DEF Tally
  <2>6. lostSeen' <= t[0]
    BY <1>2, <1>3, <2>2, <2>4
  <2>7. \A i, j \in 0 .. Len(doneq') : i <= j => t[i] <= t[j]
    BY <1>1, <2>1, <2>3 DEF Tally
  <2>8. ASSUME NEW i \in 1 .. Len(doneq') PROVE t[i - 1] + doneq'[i].lost <= t[i]
    <3>1. /\ i + 1 \in 1 .. Len(doneq) /\ doneq'[i] = doneq[i + 1] /\ (i + 1) - 1 = i
          /\ t[i - 1] = s[i] /\ t[i] = s[i + 1]
      BY <1>1, <2>3
    <3> QED BY <2>1, <3>1 DEF Tally
  <2>9. t[Len(doneq')] + lost <= produced
    <3>1. t[Len(doneq')] = s[Len(doneq)]
      BY <1>1, <2>3
    <3> QED BY <2>1, <3>1 DEF Tally
  <2> HIDE DEF t
  <2>10. Tallied'
    <3> SUFFICES \E u : /\ u \in [0 .. Len(doneq') -> Nat]
                        /\ lostSeen' <= u[0]
                        /\ \A i, j \in 0 .. Len(doneq') : i <= j => u[i] <= u[j]
                        /\ \A i \in 1 .. Len(doneq') : u[i - 1] + doneq'[i].lost <= u[i]
                        /\ u[Len(doneq')] + lost' <= produced'
      BY DEF Tallied, Tally
    <3> WITNESS t
    <3> QED BY <1>3, <2>5, <2>6, <2>7, <2>8, <2>9
  <2>11. lostSeen' <= produced
    <3>1. 0 \in 0 .. Len(doneq') /\ Len(doneq') \in 0 .. Len(doneq')
      BY <1>1
    <3>2. PICK a \in Nat : a = t[0]
      BY <2>5, <3>1
    <3>3. PICK b \in Nat : b = t[Len(doneq')]
      BY <2>5, <3>1
    <3>4. 0 <= Len(doneq')
      BY <3>1
    <3>5. t[0] <= t[Len(doneq')]
      BY <2>7, <3>1, <3>4
    <3>6. a <= b /\ b + lost <= produced /\ lostSeen' <= a
      BY <2>6, <2>9, <3>2, <3>3, <3>5
    <3>7. lostSeen' \in Nat
      BY <1>2, <1>3, <2>2, <2>4
    <3> QED BY <2>2, <3>6, <3>7
  <2> QED BY <1>2, <1>3, <2>2, <2>10, <2>11
<1>9. Missed(f.sequence) \in Nat /\ DropsCounted' /\ stats_'.dropped \in Nat
  <2>1. stats_.dropped \in Nat /\ lostSeen \in Nat /\ stats_'.dropped = stats_.dropped + Missed(f.sequence)
    BY <1>3 DEF IInv, TypeOK, CaptureTypeOK
  <2>2. CASE counting
    <3>1. have_last_sequence_ /\ f.lost < SeqMod
          /\ After(last_sequence_, f.lost + 1, f.sequence)
      BY <1>1, <2>2 DEF IInv, Numbered
    <3>2. /\ Missed(f.sequence) \in Nat /\ Missed(f.sequence) <= f.lost
          /\ ~(f.sequence < f.lost) => Missed(f.sequence) = f.lost
      BY <1>1, <3>1, MissedCounts DEF IInv, TypeOK, CaptureTypeOK
    <3> QED BY <1>2, <1>3, <1>4, <2>1, <2>2, <3>2 DEF IInv, DropsCounted
  <2>3. CASE ~counting
    <3>1. Missed(f.sequence) = 0
      BY <2>3 DEF Missed, IInv, Numbered
    <3> QED BY <1>3, <1>4, <2>1, <2>3, <3>1 DEF IInv, DropsCounted
  <2> QED BY <2>2, <2>3 DEF IInv, TypeOK, CaptureTypeOK
<1>10. TypeOK'
  <2>1. stats_' \in [captured : Nat, dropped : Nat, errored : Nat]
    <3>1. stats_.captured \in Nat /\ stats_.errored \in Nat
      BY DEF IInv, TypeOK, CaptureTypeOK
    <3>2. PICK e \in Nat : e = IF f.error THEN stats_.errored + 1 ELSE stats_.errored
      BY <3>1
    <3>3. PICK d \in Nat : d = stats_.dropped + Missed(f.sequence)
      BY <1>3, <1>9
    <3>4. stats_' = [captured |-> stats_.captured + 1, dropped |-> d, errored |-> e]
      BY <1>3, <3>2, <3>3
    <3> QED BY <3>1, <3>4
  <2>2. held' \subseteq Buffers
    BY <1>2 DEF f, IInv, TypeOK
  <2> QED BY <1>1, <1>2, <1>3, <1>4, <1>8, <2>1, <2>2 DEF IInv, TypeOK, CaptureTypeOK
<1> QED BY <1>5, <1>6, <1>7, <1>8, <1>9, <1>10 DEF IInv

\* The camera's counter after one more frame.
LEMMA AfterOneMore ==
  ASSUME NEW a \in 0 .. SeqMod - 1, NEW k \in Nat, k < SeqMod,
         NEW c \in 0 .. SeqMod - 1, After(a, k, c)
  PROVE  /\ (c + 1) % SeqMod \in 0 .. SeqMod - 1
         /\ After(a, k + 1, (c + 1) % SeqMod)
<1>1. (c + 1) % SeqMod = IF c + 1 = SeqMod THEN 0 ELSE c + 1
  BY Increment
<1> QED BY <1>1 DEF After

\* A frame moves the oldest queued buffer to the filled ones.
LEMMA DriverFillKeeps ==
  ASSUME IInv, DriverFill, UNCHANGED <<ready, held>>
  PROVE  IInv'
<1>1. PICK f : f = Head(inq) /\ inq # <<>> /\ inq' = Tail(inq)
  BY DEF DriverFill
<1>2. /\ f = inq[1] /\ f \in Buffers /\ Len(inq) \in Nat /\ Len(inq) >= 1
      /\ inq' \in Seq(Buffers) /\ Len(inq') = Len(inq) - 1
      /\ \A i \in 1 .. Len(inq') : inq'[i] = inq[i + 1] /\ i + 1 \in 1 .. Len(inq)
      /\ 1 \in 1 .. Len(inq)
  BY <1>1, TailOf DEF IInv, TypeOK, CaptureTypeOK
<1>3. PICK error \in BOOLEAN :
        doneq' = Append(doneq, [index |-> f, sequence |-> sequence, error |-> error,
                                lost |-> lost])
  BY <1>1 DEF DriverFill
<1> DEFINE g == [index |-> f, sequence |-> sequence, error |-> error, lost |-> lost]
           n == Len(doneq)
<1>4. g \in FilledBuffers /\ g.index = f /\ g.sequence = sequence /\ g.lost = lost
  BY <1>2 DEF FilledBuffers, IInv, TypeOK, CaptureTypeOK
<1> HIDE DEF g
<1>5. /\ doneq' \in Seq(FilledBuffers) /\ n \in Nat /\ Len(doneq') = n + 1
      /\ \A i \in 1 .. n : doneq'[i] = doneq[i]
      /\ doneq'[n + 1] = g
  <2>1. doneq' = Append(doneq, g) /\ doneq \in Seq(FilledBuffers)
    BY <1>3 DEF g, IInv, TypeOK, CaptureTypeOK
  <2> QED BY <1>4, <2>1, AppendTo
<1>6. /\ on /\ produced < MaxFrames /\ sequence' = NextSequence
      /\ produced' = produced + 1 /\ lost' = 0
      /\ UNCHANGED <<classVars, resources, on, waiting, gone, history>>
  BY DEF DriverFill
<1>7. /\ sequence \in 0 .. SeqMod - 1 /\ lost \in Nat /\ lost < SeqMod
      /\ produced \in Nat /\ lostSeen \in Nat
      /\ \A i \in 1 .. n : doneq[i] \in FilledBuffers
  BY DEF IInv, TypeOK, CaptureTypeOK, Numbered
<1>8. sequence' \in 0 .. SeqMod - 1 /\ After(sequence, 1, sequence')
  <2>1. After(sequence, 0, sequence)
    BY <1>7 DEF After
  <2>2. After(sequence, 0 + 1, (sequence + 1) % SeqMod) /\ 0 + 1 = 1
        /\ (sequence + 1) % SeqMod \in 0 .. SeqMod - 1
    BY <1>7, <2>1, AfterOneMore
  <2> QED BY <1>6, <2>2 DEF NextSequence
<1>9. TypeOK'
  BY <1>2, <1>5, <1>6, <1>7, <1>8
  DEF IInv, TypeOK, CaptureTypeOK, classVars, resources, history
<1>10. Recorded'
  BY <1>6 DEF IInv, Recorded, classVars, resources
<1>11. ASSUME NEW i \in 1 .. Len(doneq')
       PROVE  (i \in 1 .. n /\ doneq'[i] = doneq[i]) \/ (i = n + 1 /\ doneq'[i] = g)
  BY <1>5
<1>12. Owners'
  <2>1. f \in kmaps \ held /\ \A i \in 1 .. n : doneq[i].index # f
    BY <1>2 DEF IInv, Owners, Distinct, Apart
  <2>2. \A i \in 1 .. Len(inq') : inq'[i] # f
    <3>1. \A i \in 1 .. Len(inq') : i + 1 # 1
      BY <1>2
    <3> QED BY <1>2, <3>1 DEF IInv, Owners, Distinct
  <2>3. ASSUME NEW i \in 1 .. Len(inq'), NEW j \in 1 .. Len(inq'), i # j
        PROVE  inq'[i] # inq'[j]
    <3>1. i + 1 # j + 1 /\ i + 1 \in 1 .. Len(inq) /\ j + 1 \in 1 .. Len(inq)
          /\ inq'[i] = inq[i + 1] /\ inq'[j] = inq[j + 1]
      BY <1>2, <2>3
    <3> QED BY <3>1 DEF IInv, Owners, Distinct
  <2>4. ASSUME NEW i \in 1 .. Len(doneq'), NEW j \in 1 .. Len(doneq'), i # j
        PROVE  doneq'[i].index # doneq'[j].index
    BY <1>4, <1>11, <2>1, <2>4 DEF IInv, Owners, Distinct
  <2>5. ASSUME NEW i \in 1 .. Len(inq'), NEW j \in 1 .. Len(doneq')
        PROVE  inq'[i] # doneq'[j].index
    BY <1>2, <1>4, <1>11, <2>2 DEF IInv, Owners, Distinct
  <2>6. Apart'
    BY <1>2, <1>4, <1>6, <1>11, <2>1 DEF IInv, Owners, Apart, resources
  <2> QED BY <2>3, <2>4, <2>5, <2>6 DEF Owners, Distinct
<1>13. Numbered'
  <2>1. UNCHANGED <<counting, have_last_sequence_, last_sequence_, on>> /\ lost' + 1 = 1
    BY <1>6 DEF classVars, history
  <2>2. ASSUME NEW i \in 1 .. Len(doneq'), NEW j \in 1 .. Len(doneq'), j = i + 1
        PROVE  After(doneq'[i].sequence, doneq'[j].lost + 1, doneq'[j].sequence)
    <3>1. i \in 1 .. n /\ doneq'[i] = doneq[i]
      BY <1>5, <2>2
    <3>2. CASE j \in 1 .. n
      BY <1>5, <2>2, <3>1, <3>2 DEF IInv, Numbered
    <3>3. CASE j = n + 1
      <4>1. i = n
        BY <1>5, <2>2, <3>1, <3>3
      <4> QED BY <1>4, <1>5, <3>1, <3>3, <4>1 DEF IInv, Numbered
    <3> QED BY <1>11, <3>2, <3>3
  <2>3. ASSUME NEW i \in 1 .. Len(doneq'), i = Len(doneq')
        PROVE  After(doneq'[i].sequence, lost' + 1, sequence')
    BY <1>4, <1>5, <1>8, <2>1, <2>3
  <2>4. ASSUME NEW i \in 1 .. Len(doneq'), counting, i = 1
        PROVE  After(last_sequence_, doneq'[i].lost + 1, doneq'[i].sequence)
    <3>1. CASE n = 0
      <4>1. doneq = <<>> /\ doneq'[i] = g
        BY <1>5, <2>4, <3>1 DEF IInv, TypeOK, CaptureTypeOK
      <4> QED BY <1>4, <1>6, <2>4, <4>1 DEF IInv, Numbered
    <3>2. CASE n # 0
      BY <1>5, <2>4, <3>2 DEF IInv, Numbered
    <3> QED BY <3>1, <3>2
  <2>5. doneq' # <<>>
    BY <1>5
  <2>6. \A i \in 1 .. Len(doneq') : doneq'[i].lost < SeqMod
    BY <1>4, <1>7, <1>11 DEF IInv, Numbered
  <2>7. lost' < SeqMod /\ counting' = have_last_sequence_'
    BY <1>6, <2>1 DEF IInv, Numbered
  <2> QED BY <2>1, <2>2, <2>3, <2>4, <2>5, <2>6, <2>7 DEF Numbered, After
<1>14. Tallied'
  <2>1. PICK s : Tally(s)
    BY DEF IInv, Tallied
  <2> DEFINE t == [i \in 0 .. n + 1 |-> IF i = n + 1 THEN s[n] + lost ELSE s[i]]
  <2>2. /\ s \in [0 .. n -> Nat] /\ s[n] \in Nat /\ s[n] + lost <= produced
        /\ lostSeen <= s[0]
        /\ \A i, j \in 0 .. n : i <= j => s[i] <= s[j]
        /\ \A i \in 1 .. n : s[i - 1] + doneq[i].lost <= s[i]
    <3>1. s \in [0 .. n -> Nat] /\ s[n] + lost <= produced /\ lostSeen <= s[0]
      BY <2>1 DEF Tally
    <3>2. /\ \A i, j \in 0 .. n : i <= j => s[i] <= s[j]
          /\ \A i \in 1 .. n : s[i - 1] + doneq[i].lost <= s[i]
      BY <2>1, Zenon DEF Tally
    <3>3. n \in 0 .. n
      BY <1>5
    <3>4. s[n] \in Nat
      BY <3>1, <3>3
    <3> HIDE DEF n
    <3> QED BY <3>1, <3>2, <3>4
  <2>3. /\ \A i \in 0 .. n : t[i] = s[i]
        /\ t[n + 1] = s[n] + lost /\ t \in [0 .. n + 1 -> Nat]
    BY <1>5, <1>7, <2>2
  <2> HIDE DEF t
  <2>4. lostSeen <= t[0]
    BY <1>5, <2>2, <2>3
  <2>5. ASSUME NEW i \in 0 .. n + 1, NEW j \in 0 .. n + 1, i <= j PROVE t[i] <= t[j]
    <3>1. CASE j = n + 1 /\ i # j
      <4>1. i \in 0 .. n /\ n \in 0 .. n /\ i <= n
        BY <1>5, <3>1
      <4>2. s[i] <= s[n] /\ s[i] \in Nat
        BY <2>2, <4>1
      <4> QED BY <1>7, <2>2, <2>3, <3>1, <4>1, <4>2
    <3>2. CASE j # n + 1
      <4>1. i \in 0 .. n /\ j \in 0 .. n
        BY <1>5, <2>5, <3>2
      <4> QED BY <2>2, <2>3, <2>5, <4>1
    <3>3. CASE i = j
      BY <2>3, <3>3
    <3> QED BY <3>1, <3>2, <3>3
  <2>6. ASSUME NEW i \in 1 .. n + 1 PROVE t[i - 1] + doneq'[i].lost <= t[i]
    <3>1. i - 1 \in 0 .. n /\ t[i - 1] = s[i - 1]
      BY <1>5, <2>3
    <3>2. CASE i = n + 1
      <4>1. i - 1 = n
        BY <1>5, <3>2
      <4> QED BY <1>4, <1>5, <1>7, <2>2, <2>3, <3>1, <3>2, <4>1
    <3>3. CASE i # n + 1
      <4>1. i \in 1 .. n /\ i \in 0 .. n
        BY <1>5, <3>3
      <4> QED BY <1>5, <2>2, <2>3, <3>1, <4>1
    <3> QED BY <3>2, <3>3
  <2>7. t[n + 1] + 0 <= produced + 1
    BY <1>7, <2>2, <2>3
  <2> SUFFICES \E u : /\ u \in [0 .. Len(doneq') -> Nat]
                      /\ lostSeen' <= u[0]
                      /\ \A i, j \in 0 .. Len(doneq') : i <= j => u[i] <= u[j]
                      /\ \A i \in 1 .. Len(doneq') : u[i - 1] + doneq'[i].lost <= u[i]
                      /\ u[Len(doneq')] + lost' <= produced'
    BY DEF Tallied, Tally
  <2> WITNESS t
  <2> QED BY <1>5, <1>6, <2>3, <2>4, <2>5, <2>6, <2>7 DEF history
<1>15. DropsCounted'
  BY <1>6 DEF IInv, DropsCounted, classVars, history
<1> QED BY <1>9, <1>10, <1>12, <1>13, <1>14, <1>15 DEF IInv

\* A lost frame uses up a number.
LEMMA DriverLoseKeeps ==
  ASSUME IInv, DriverLose, UNCHANGED <<ready, held>>
  PROVE  IInv'
<1>1. /\ on /\ produced < MaxFrames /\ lost < SeqMod - 1 /\ sequence' = NextSequence
      /\ produced' = produced + 1 /\ lost' = lost + 1
      /\ UNCHANGED <<classVars, resources, queues, gone, history>>
  BY DEF DriverLose
<1>2. sequence \in 0 .. SeqMod - 1 /\ lost \in Nat /\ produced \in Nat
  BY DEF IInv, TypeOK, CaptureTypeOK
<1>3. sequence' \in 0 .. SeqMod - 1
  BY <1>1, <1>2, Increment DEF NextSequence
<1>4. Tallied' /\ lost' <= produced'
  <2>1. PICK s : Tally(s)
    BY DEF IInv, Tallied
  <2>2. s[Len(doneq)] \in Nat /\ s[Len(doneq)] + lost <= produced
    BY <2>1 DEF Tally, IInv, TypeOK, CaptureTypeOK
  <2>3. UNCHANGED <<doneq, lostSeen>> /\ s[Len(doneq)] + lost' <= produced'
    BY <1>1, <1>2, <2>2 DEF queues, history
  <2>4. lost' <= produced'
    BY <1>1, <1>2, <2>2
  <2>5. Tallied'
    <3> SUFFICES \E u : /\ u \in [0 .. Len(doneq') -> Nat]
                        /\ lostSeen' <= u[0]
                        /\ \A i, j \in 0 .. Len(doneq') : i <= j => u[i] <= u[j]
                        /\ \A i \in 1 .. Len(doneq') : u[i - 1] + doneq'[i].lost <= u[i]
                        /\ u[Len(doneq')] + lost' <= produced'
      BY DEF Tallied, Tally
    <3> WITNESS s
    <3> QED BY <2>1, <2>3 DEF Tally
  <2> QED BY <2>4, <2>5
<1>5. TypeOK'
  BY <1>1, <1>2, <1>3, <1>4
  DEF IInv, TypeOK, CaptureTypeOK, classVars, resources, queues, history
<1>6. Recorded' /\ Owners' /\ DropsCounted'
  BY <1>1 DEF IInv, Recorded, Owners, Distinct, Apart, DropsCounted, classVars, resources,
              queues, history
<1>7. Numbered'
  <2>1. UNCHANGED <<counting, have_last_sequence_, last_sequence_, on, doneq>>
    BY <1>1 DEF classVars, history, queues
  <2>2. ASSUME NEW a \in 0 .. SeqMod - 1, After(a, lost + 1, sequence)
        PROVE  After(a, lost' + 1, sequence')
    <3>1. lost + 1 \in Nat /\ lost + 1 < SeqMod
      BY <1>1, <1>2
    <3>2. After(a, (lost + 1) + 1, (sequence + 1) % SeqMod)
      BY <1>2, <2>2, <3>1, AfterOneMore
    <3> QED BY <1>1, <3>2 DEF NextSequence
  <2>3. \A i \in 1 .. Len(doneq) : doneq[i].sequence \in 0 .. SeqMod - 1
    <3>1. \A i \in 1 .. Len(doneq) : doneq[i] \in FilledBuffers
      BY DEF IInv, TypeOK, CaptureTypeOK
    <3> QED BY <3>1 DEF FilledBuffers
  <2>4. last_sequence_ \in 0 .. SeqMod - 1 /\ lost' < SeqMod
    BY <1>1, <1>2 DEF IInv, TypeOK, CaptureTypeOK
  <2>5. \A i \in 1 .. Len(doneq) :
          i = Len(doneq) => After(doneq[i].sequence, lost' + 1, sequence')
    BY <2>2, <2>3 DEF IInv, Numbered
  <2>6. counting /\ on /\ doneq = <<>> => After(last_sequence_, lost' + 1, sequence')
    BY <2>2, <2>4 DEF IInv, Numbered
  <2> QED BY <2>1, <2>4, <2>5, <2>6 DEF IInv, Numbered, After
<1> QED BY <1>4, <1>5, <1>6, <1>7 DEF IInv

\* The device is unplugged.
LEMMA UnplugKeeps ==
  ASSUME IInv, Unplug, UNCHANGED <<ready, held>>
  PROVE  IInv'
<1> USE DEF Unplug, classVars, resources, queues, history
<1>1. {on', waiting', gone', counting', straddled'} \subseteq BOOLEAN
  BY Zenon DEF IInv, TypeOK, CaptureTypeOK
<1>2. TypeOK'
  BY <1>1 DEF IInv, TypeOK, CaptureTypeOK
<1>3. Recorded' /\ Owners' /\ DropsCounted'
  BY DEF IInv, Recorded, Owners, Distinct, Apart, DropsCounted
<1>4. Numbered' /\ Tallied'
  BY DEF IInv, Numbered, After, Tallied, Tally
<1> QED BY <1>2, <1>3, <1>4 DEF IInv

-------------------------------------------------------------------------------
(* The theorems *)

\* Every step preserves the invariant.
LEMMA NextInv ==
  ASSUME IInv, [ClientNext]_clientVars
  PROVE  IInv'
<1>1. CASE CallNext
  <2>1. ready' = ready /\ ready' \in BOOLEAN
    BY <1>1 DEF CallNext, IInv, TypeOK
  <2>2. CASE doneq # <<>> /\ NextFrame(Head(doneq)) /\ held' = held \cup {Head(doneq).index}
    BY <2>1, <2>2, NextFrameKeeps
  <2>3. CASE (NextNothing \/ NextThrows) /\ UNCHANGED held
    BY <2>1, <2>3, NothingKeeps DEF NextNothing, NextThrows
  <2> QED BY <1>1, <2>2, <2>3 DEF CallNext
<1>2. CASE ClientDriver
  BY <1>2, DriverFillKeeps, DriverLoseKeeps, UnplugKeeps DEF ClientDriver, DriverStep
<1>3. CASE UNCHANGED clientVars
  BY <1>3, NothingKeeps DEF clientVars, IInv, TypeOK
<1> QED
  BY <1>1, <1>2, <1>3, CallOpenKeeps, CallStartKeeps, CallReleaseKeeps, CallStopKeeps,
     CallCloseKeeps
  DEF ClientNext

\* The inductive invariant holds.
THEOREM InvariantHolds == ClientSpec => []IInv
  BY InitInv, NextInv, PTL DEF ClientSpec

\* Every variable keeps its type.
THEOREM TypeCorrect == ClientSpec => []TypeOK
<1>1. IInv => TypeOK
  BY DEF IInv
<1> QED BY <1>1, InvariantHolds, PTL

\* A closed capture object leaves nothing behind in the kernel, wherever open()
\* stopped.
THEOREM ClosedHolds == ClientSpec => []ClosedMeansReleased
  BY InvariantHolds, InvImplies, PTL

\* The pixels of a held frame are mapped and with no queue of the driver, and no
\* buffer is queued twice.
THEOREM HeldStableHolds == ClientSpec => []HeldFramesStable
  BY InvariantHolds, InvImplies, PTL

\* frames_dropped is the number of frames lost between frames that were dequeued,
\* across restarts and across the wrap of the counter; a gap that contains the wrap
\* may be undercounted, and nothing is overcounted.
THEOREM DropsCountedHolds == ClientSpec => []DropsCounted
<1>1. IInv => DropsCounted
  BY DEF IInv
<1> QED BY <1>1, InvariantHolds, PTL
================================================================================

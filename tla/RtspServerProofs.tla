--------------------------- MODULE RtspServerProofs ---------------------------
(***************************************************************************)
(* Lemmas about the actions of Pipeline and RtspServer, for every capacity,*)
(* every number of samples and of media, and whichever thread owns the     *)
(* server: the labels of the owner's steps are parameters.  FeedInv is the *)
(* part of the inductive invariant that RtspFeeding and GstPipe share:     *)
(*   - Places: what the feeder holds at each place of feeder_loop;         *)
(*   - AbsentUntouched and AppsrcRefsExact: the reference counting;        *)
(*   - GateShut: what a full appsrc has been fed since the gate opened;    *)
(*   - InOrder: every frame still on its way is newer than what was fed.   *)
(***************************************************************************)
EXTENDS RtspServer, Integers, TLAPS

Holding == feeder \in {"gate", "grab", "push"}

\* The feeder has a frame between its pop and the end of the iteration, and a
\* reference of its own only around the push.
Places ==
  /\ src # NoMedia <=> feeder = "push"
  /\ ~Holding => item = NoFrame
  /\ Holding => item.n > 0

\* Nobody holds the appsrc of a media that has not been configured.
AbsentUntouched ==
  \A m \in Media :
    media[m] = "absent" => appsrc_ # m /\ src # m /\ configuring # m

\* A full appsrc that took a delta frame has shut the gate, and the feeder has not
\* let another delta frame through since.
GateShut ==
  /\ overfed <= 1
  /\ overfed = 1 => ~feeding_ /\ (feeder \in {"grab", "push"} => item.key)

\* Every frame that has not reached the feeder yet is newer than frame n.
Ahead(n) ==
  /\ n <= nEncoded
  /\ encSample # NoFrame => n < encSample.n
  /\ \A i \in 1 .. Len(enc_q_.items) : n < enc_q_.items[i].n

QueueSorted ==
  \A i, j \in 1 .. Len(enc_q_.items) : i < j => enc_q_.items[i].n < enc_q_.items[j].n

InOrder ==
  /\ pts_counter_ = nEncoded
  /\ encSample # NoFrame => encSample.n = nEncoded /\ nEncoded > 0
  /\ QueueSorted
  /\ \A i \in 1 .. Len(enc_q_.items) :
       /\ enc_q_.items[i].n <= nEncoded
       /\ encSample # NoFrame => enc_q_.items[i].n < encSample.n
  /\ Ahead(item.n) /\ Ahead(served_)
  /\ \A m \in Media : Ahead(last[m].n)
  /\ Holding => served_ < item.n /\ \A m \in Media : last[m].n < item.n

\* What has been counted as queued in an appsrc, or as overfed, was served.
Served ==
  /\ \A m \in Media : level[m] <= served_
  /\ overfed <= served_

FeedInv ==
  /\ PipelineTypeOK /\ RtspTypeOK
  /\ Places /\ AbsentUntouched /\ AppsrcRefsExact
  /\ GateShut /\ InOrder /\ Served

USE QueueCapacityAssumption, SampleBoundAssumption, PtsValidityAssumption,
    MediaAssumption

\* The numbers in a frame.
LEMMA FrameNumbers ==
  ASSUME NEW f \in Frames
  PROVE  f.n \in 0 .. MaxEncoded /\ f.pts \in 0 .. MaxEncoded + 1 /\ f.key \in BOOLEAN
  BY DEF Frames

\* gst_object_unref on one appsrc, or on none, as a change of every count.
LEMMA UnrefCounts ==
  ASSUME NEW r \in [Media -> Int], NEW m \in Media \cup {NoMedia}
  PROVE  /\ Unref(r, m) \in [Media -> Int]
         /\ \A k \in Media : Unref(r, m)[k] = IF k = m THEN r[k] - 1 ELSE r[k]
  BY DEF Unref, NoMedia, Media

\* The reference counts are integers.
LEMMA RefsInt == ASSUME RtspTypeOK PROVE refs \in [Media -> Int]
  BY DEF RtspTypeOK

\* The initial state of the pipeline and of the server.
LEMMA FeedInit ==
  ASSUME PipelineInit, RtspInit
  PROVE  FeedInv
<1> USE DEF PipelineInit, RtspInit, NoFrame, NoBuffer, NoMedia, Media
<1>1. PipelineTypeOK
  <2>1. EmptyQueue \in [items : Seq(Frames), closed : BOOLEAN]
    BY DEF EmptyQueue
  <2>2. EmptyQueue \in [items : Seq(1 .. MaxRaw), closed : BOOLEAN]
    BY DEF EmptyQueue
  <2>3. NoFrame \in Frames
    BY DEF Frames
  <2>4. bus_watch_ \in BOOLEAN
    BY Zenon
  <2> HIDE DEF NoFrame
  <2> QED BY <2>1, <2>2, <2>3, <2>4 DEF PipelineTypeOK
<1>2. RtspTypeOK
  <2>1. NoFrame \in Frames
    BY DEF Frames
  <2>2. NoFrame = NoBuffer
    OBVIOUS
  <2>3. NoPts \in 0 .. NoPts
    BY DEF NoPts
  <2>4. {server_, source_id_, running_, feeding_} \subseteq BOOLEAN
    BY Zenon
  <2>5. connected \in BOOLEAN /\ asked \in [Media -> BOOLEAN]
    BY Zenon
  <2> HIDE DEF NoFrame, NoBuffer
  <2> QED BY <2>1, <2>2, <2>3, <2>4, <2>5 DEF RtspTypeOK
<1>3. Places /\ AbsentUntouched /\ GateShut /\ Served
  BY DEF Places, Holding, AbsentUntouched, GateShut, Served
<1>4. AppsrcRefsExact
  BY DEF AppsrcRefsExact, One
<1>5. InOrder
  BY DEF InOrder, Ahead, QueueSorted, Holding, EmptyQueue
<1> QED BY <1>1, <1>2, <1>3, <1>4, <1>5 DEF FeedInv

\* A step that touches nothing the feeding depends on.
LEMMA QuietKeeps ==
  ASSUME FeedInv,
         pipeline_' \in {"none", "null", "playing", "stopping"},
         bus_watch_' \in BOOLEAN,
         raw_q_' \in [items : Seq(1 .. MaxRaw), closed : BOOLEAN],
         rawSample' \in 0 .. MaxRaw, nRaw' \in 0 .. MaxRaw,
         server_' \in BOOLEAN, source_id_' \in BOOLEAN, running_' \in BOOLEAN,
         connected' \in BOOLEAN,
         UNCHANGED <<enc_q_, pts_counter_, encSample, nEncoded>>,
         UNCHANGED <<feeding_, appsrc_, served_, feederVars, configuring, refs,
                     overfed, media, level, asked, last>>
  PROVE  FeedInv'
<1> USE DEF FeedInv, feederVars
<1>1. PipelineTypeOK'
  BY DEF PipelineTypeOK
<1>2. RtspTypeOK'
  BY DEF RtspTypeOK
<1>3. Places' /\ AbsentUntouched' /\ AppsrcRefsExact' /\ GateShut' /\ Served'
  BY DEF Places, Holding, AbsentUntouched, AppsrcRefsExact, GateShut, Served
<1>4. InOrder'
  BY DEF InOrder, Ahead, QueueSorted, Holding
<1> QED BY <1>1, <1>2, <1>3, <1>4

-------------------------------------------------------------------------------
(* The encoder branch *)

\* Closing the encoded queue leaves the frames in it.
LEMMA CloseKeeps ==
  ASSUME FeedInv, enc_q_' = CloseQueue(enc_q_),
         UNCHANGED <<pipeline_, bus_watch_, raw_q_, streamVars>>, UNCHANGED rtspVars
  PROVE  FeedInv'
<1> USE DEF FeedInv, streamVars, rtspVars, feederVars, mediaVars
<1>1. /\ enc_q_' \in [items : Seq(Frames), closed : BOOLEAN]
      /\ enc_q_'.items = enc_q_.items
  BY DEF CloseQueue, PipelineTypeOK
<1>2. PipelineTypeOK'
  BY <1>1 DEF PipelineTypeOK
<1>3. RtspTypeOK'
  BY DEF RtspTypeOK
<1>4. Places' /\ AbsentUntouched' /\ AppsrcRefsExact' /\ GateShut' /\ Served'
  BY DEF Places, Holding, AbsentUntouched, AppsrcRefsExact, GateShut, Served
<1>5. InOrder'
  BY <1>1 DEF InOrder, Ahead, QueueSorted, Holding
<1> QED BY <1>2, <1>3, <1>4, <1>5

\* The sample that is pulled is newer than every frame before it.
LEMMA OnNewEncodedSampleKeeps ==
  ASSUME FeedInv, OnNewEncodedSample, UNCHANGED rtspVars
  PROVE  FeedInv'
<1> USE DEF FeedInv, rtspVars, feederVars, mediaVars
<1>1. PICK key \in BOOLEAN, valid \in PtsValidity :
        encSample' = [n |-> nEncoded + 1, key |-> key,
                      pts |-> IF valid THEN CaptureTime(nEncoded + 1)
                                       ELSE pts_counter_]
  BY DEF OnNewEncodedSample
<1>2. /\ encSample' \in Frames /\ encSample'.n = nEncoded + 1
      /\ nEncoded' = nEncoded + 1 /\ nEncoded' \in 0 .. MaxEncoded
      /\ pts_counter_' = nEncoded' /\ enc_q_' = enc_q_ /\ encSample = NoFrame
  BY <1>1 DEF OnNewEncodedSample, Frames, CaptureTime, PipelineTypeOK, InOrder
<1>3. PipelineTypeOK'
  BY <1>2 DEF PipelineTypeOK, OnNewEncodedSample
<1>4. RtspTypeOK'
  BY DEF RtspTypeOK
<1>5. Places' /\ AbsentUntouched' /\ AppsrcRefsExact' /\ GateShut' /\ Served'
  BY DEF Places, Holding, AbsentUntouched, AppsrcRefsExact, GateShut, Served
<1>6. InOrder'
  <2>1. ASSUME NEW n \in Nat, Ahead(n) PROVE Ahead(n)'
    BY <1>2, <2>1 DEF Ahead, PipelineTypeOK
  <2>2. item.n \in Nat /\ served_ \in Nat /\ \A m \in Media : last[m].n \in Nat
    BY DEF RtspTypeOK, Frames
  <2>3. \A i \in 1 .. Len(enc_q_.items) : enc_q_.items[i].n \in Nat
    <3>1. \A i \in 1 .. Len(enc_q_.items) : enc_q_.items[i] \in Frames
      BY DEF PipelineTypeOK
    <3> QED BY <3>1, FrameNumbers
  <2>4. Ahead(item.n)' /\ Ahead(served_)' /\ \A m \in Media : Ahead(last[m].n)'
    BY <2>1, <2>2 DEF InOrder, Ahead
  <2>5. \A i \in 1 .. Len(enc_q_.items) :
          enc_q_.items[i].n <= nEncoded' /\ enc_q_.items[i].n < encSample'.n
    BY <1>2, <2>3 DEF InOrder, PipelineTypeOK
  <2>6. QueueSorted' /\ nEncoded' > 0
    <3>1. QueueSorted'
      BY <1>2 DEF InOrder, QueueSorted
    <3>2. nEncoded' > 0
      BY <1>2 DEF PipelineTypeOK
    <3> QED BY <3>1, <3>2
  <2>7. Holding' => served_' < item'.n /\ \A m \in Media : last'[m].n < item'.n
    BY DEF InOrder, Holding
  <2> QED
    BY <1>2, <2>4, <2>5, <2>6, <2>7 DEF InOrder, Ahead
<1> QED BY <1>3, <1>4, <1>5, <1>6

\* push() appends the newest frame and may evict the oldest: the queue stays
\* sorted and everything in it newer than what was fed.
LEMMA PushEncodedSampleKeeps ==
  ASSUME FeedInv, PushEncodedSample, UNCHANGED rtspVars
  PROVE  FeedInv'
<1> USE DEF FeedInv, rtspVars, feederVars, mediaVars
<1> DEFINE q == enc_q_.items
           kept == IF Len(q) >= EncCapacity THEN Tail(q) ELSE q
           d == IF Len(q) >= EncCapacity THEN 1 ELSE 0
<1> HIDE DEF kept, d
<1>1. q \in Seq(Frames) /\ enc_q_.closed \in BOOLEAN
  BY DEF PipelineTypeOK
<1>2. /\ encSample' = NoFrame /\ nEncoded' = nEncoded /\ encSample \in Frames
      /\ pts_counter_' = pts_counter_ /\ NoFrame \in Frames
  BY DEF PushEncodedSample, PipelineTypeOK, NoFrame, Frames
<1>3. CASE enc_q_.closed
  <2>1. enc_q_' = enc_q_
    BY <1>3 DEF PushEncodedSample, PushTo
  <2>2. PipelineTypeOK'
    BY <1>2, <2>1 DEF PipelineTypeOK, PushEncodedSample
  <2>3. RtspTypeOK'
    BY DEF RtspTypeOK
  <2>4. Places' /\ AbsentUntouched' /\ AppsrcRefsExact' /\ GateShut' /\ Served'
    BY DEF Places, Holding, AbsentUntouched, AppsrcRefsExact, GateShut, Served
  <2>5. InOrder'
    BY <1>2, <2>1 DEF InOrder, Ahead, QueueSorted, Holding
  <2> QED BY <2>2, <2>3, <2>4, <2>5
<1>4. CASE ~enc_q_.closed
  <2>1. enc_q_' = [enc_q_ EXCEPT !.items = Append(kept, encSample)]
    BY <1>4 DEF PushEncodedSample, PushTo, kept
  <2>2. kept \in Seq(Frames)
    BY <1>1 DEF kept
  <2>3. /\ enc_q_'.items = Append(kept, encSample)
        /\ enc_q_' \in [items : Seq(Frames), closed : BOOLEAN]
    <3>1. Append(kept, encSample) \in Seq(Frames)
      BY <1>2, <2>2
    <3> QED BY <2>1, <3>1 DEF PipelineTypeOK
  <2>4. /\ Len(kept) + d = Len(q) /\ d \in {0, 1}
        /\ \A i \in 1 .. Len(kept) : kept[i] = q[i + d]
    <3>1. CASE Len(q) >= EncCapacity
      <4>1. q # <<>> /\ kept = Tail(q) /\ d = 1
        BY <1>1, <3>1 DEF kept, d
      <4>2. Len(kept) + 1 = Len(q) /\ \A i \in 1 .. Len(kept) : kept[i] = q[i + 1]
        BY <1>1, <4>1
      <4> QED BY <4>1, <4>2
    <3>2. CASE ~(Len(q) >= EncCapacity)
      BY <1>1, <3>2 DEF kept, d
    <3> QED BY <3>1, <3>2
  <2>5. /\ Len(enc_q_'.items) = Len(kept) + 1
        /\ \A i \in 1 .. Len(kept) : enc_q_'.items[i] = q[i + d]
        /\ enc_q_'.items[Len(kept) + 1] = encSample
    BY <1>2, <2>2, <2>3, <2>4
  <2>6. PipelineTypeOK'
    BY <1>2, <2>3 DEF PipelineTypeOK, PushEncodedSample
  <2>7. RtspTypeOK'
    BY DEF RtspTypeOK
  <2>8. Places' /\ AbsentUntouched' /\ AppsrcRefsExact' /\ GateShut' /\ Served'
    BY DEF Places, Holding, AbsentUntouched, AppsrcRefsExact, GateShut, Served
  <2>9. InOrder'
    <3>1. Len(kept) \in Nat /\ Len(q) \in Nat /\ encSample # NoFrame
      BY <1>1, <2>2 DEF PushEncodedSample
    <3>2. encSample.n \in Nat /\ nEncoded \in Nat /\ encSample.n = nEncoded
      BY <1>2, <3>1 DEF PipelineTypeOK, InOrder, Frames
    <3>3. \A i \in 1 .. Len(q) : q[i].n \in Nat /\ q[i].n < encSample.n
      <4>1. \A i \in 1 .. Len(q) : q[i] \in Frames
        BY <1>1
      <4> QED BY <3>1, <4>1, FrameNumbers DEF InOrder
    <3>4. ASSUME NEW i \in 1 .. Len(enc_q_'.items)
          PROVE  \/ i \in 1 .. Len(kept) /\ i + d \in 1 .. Len(q)
                    /\ enc_q_'.items[i] = q[i + d]
                 \/ i = Len(kept) + 1 /\ enc_q_'.items[i] = encSample
      BY <2>4, <2>5, <3>1
    <3>5. ASSUME NEW n \in Nat, Ahead(n) PROVE Ahead(n)'
      <4> SUFFICES ASSUME NEW i \in 1 .. Len(enc_q_'.items)
                   PROVE  n < enc_q_'.items[i].n
        BY <1>2, <3>5 DEF Ahead
      <4> QED BY <3>1, <3>4, <3>5 DEF Ahead
    <3>6. item.n \in Nat /\ served_ \in Nat /\ \A m \in Media : last[m].n \in Nat
      BY DEF RtspTypeOK, Frames
    <3>7. Ahead(item.n)' /\ Ahead(served_)' /\ \A m \in Media : Ahead(last[m].n)'
      BY <3>5, <3>6 DEF InOrder, Ahead
    <3>8. QueueSorted'
      <4> SUFFICES ASSUME NEW i \in 1 .. Len(enc_q_'.items),
                          NEW j \in 1 .. Len(enc_q_'.items), i < j
                   PROVE  enc_q_'.items[i].n < enc_q_'.items[j].n
        BY DEF QueueSorted
      <4>1. i \in 1 .. Len(kept) /\ i + d \in 1 .. Len(q)
            /\ enc_q_'.items[i] = q[i + d]
        BY <2>5, <3>1, <3>4
      <4>2. CASE j = Len(kept) + 1
        BY <2>5, <3>3, <4>1, <4>2
      <4>3. CASE j # Len(kept) + 1
        <5>1. j + d \in 1 .. Len(q) /\ enc_q_'.items[j] = q[j + d]
          BY <3>4, <4>3
        <5>2. i + d < j + d
          BY <2>4, <3>1
        <5> QED BY <4>1, <5>1, <5>2 DEF InOrder, QueueSorted
      <4> QED BY <4>2, <4>3
    <3>9. \A i \in 1 .. Len(enc_q_'.items) : enc_q_'.items[i].n <= nEncoded
      BY <3>2, <3>3, <3>4
    <3> QED BY <1>2, <3>7, <3>8, <3>9 DEF InOrder, Ahead, Holding
  <2> QED BY <2>6, <2>7, <2>8, <2>9
<1> QED BY <1>1, <1>3, <1>4

-------------------------------------------------------------------------------
(* The owner *)

\* A step that leaves the frames and the feeder's locals alone keeps their order.
LEMMA SameFrames ==
  ASSUME FeedInv, UNCHANGED pipelineVars, UNCHANGED <<item, served_, last>>,
         Holding' => Holding
  PROVE  PipelineTypeOK' /\ InOrder'
  BY DEF FeedInv, pipelineVars, PipelineTypeOK, InOrder, Ahead, QueueSorted

\* Nor does dropping the frame that the feeder holds.
LEMMA FrameDropped ==
  ASSUME FeedInv, UNCHANGED pipelineVars, UNCHANGED <<served_, last>>,
         item' = NoFrame, ~Holding'
  PROVE  InOrder'
<1>1. Ahead(item.n)'
  <2>1. Ahead(item.n) /\ item.n \in Nat
    BY DEF FeedInv, InOrder, RtspTypeOK, Frames
  <2>2. encSample # NoFrame => encSample.n \in Nat
    BY DEF FeedInv, PipelineTypeOK, Frames
  <2>3. \A i \in 1 .. Len(enc_q_.items) : enc_q_.items[i].n \in Nat
    <3>1. \A i \in 1 .. Len(enc_q_.items) : enc_q_.items[i] \in Frames
      BY DEF FeedInv, PipelineTypeOK
    <3> QED BY <3>1, FrameNumbers
  <2>4. item'.n = 0 /\ nEncoded \in Nat
    BY DEF NoFrame, FeedInv, PipelineTypeOK
  <2> QED BY <2>1, <2>2, <2>3, <2>4 DEF Ahead, pipelineVars
<1> QED BY <1>1 DEF FeedInv, InOrder, Ahead, QueueSorted, pipelineVars

\* attach() starts a feeder that has not run before.
LEMMA AttachKeeps ==
  ASSUME FeedInv, NEW from, NEW to, Attach(from, to), feeder = "none",
         UNCHANGED pipelineVars
  PROVE  FeedInv'
<1> USE DEF FeedInv, Attach, mediaVars
<1>1. PipelineTypeOK' /\ InOrder'
  BY SameFrames DEF Holding
<1>2. {server_', source_id_', running_', feeding_'} \subseteq BOOLEAN
  BY Zenon DEF RtspTypeOK
<1>3. RtspTypeOK'
  BY <1>2 DEF RtspTypeOK
<1>4. Places' /\ AbsentUntouched' /\ AppsrcRefsExact' /\ GateShut' /\ Served'
  BY DEF Places, Holding, AbsentUntouched, AppsrcRefsExact, GateShut, Served
<1> QED BY <1>1, <1>3, <1>4

\* shutdown() gives back the reference that appsrc_ keeps.
LEMMA ShutdownReleaseKeeps ==
  ASSUME FeedInv, NEW from, NEW to, ShutdownRelease(from, to), UNCHANGED pipelineVars
  PROVE  FeedInv'
<1> USE DEF FeedInv, ShutdownRelease, mediaVars, feederVars
<1>1. PipelineTypeOK' /\ InOrder'
  BY SameFrames DEF Holding
<1>2. {server_', source_id_', running_', feeding_'} \subseteq BOOLEAN
  BY Zenon DEF RtspTypeOK
<1>3. AppsrcRefsExact' /\ refs' \in [Media -> 0 .. 4]
  <2>1. /\ refs' \in [Media -> Int]
        /\ \A k \in Media : refs'[k] = IF k = appsrc_ THEN refs[k] - 1 ELSE refs[k]
    BY RefsInt, UnrefCounts DEF RtspTypeOK
  <2>2. AppsrcRefsExact'
    <3> SUFFICES ASSUME NEW k \in Media
                 PROVE  refs'[k] = (One(media[k] \in {"live", "flushing"})
                          + One(configuring = k) + One(appsrc_ = k) + One(src = k))'
      BY DEF AppsrcRefsExact
    <3>1. refs[k] = One(media[k] \in {"live", "flushing"}) + One(configuring = k)
                      + One(appsrc_ = k) + One(src = k)
      BY DEF AppsrcRefsExact
    <3>2. k # NoMedia
      BY DEF NoMedia, Media
    <3> QED BY <2>1, <3>1, <3>2 DEF One
  <2> QED BY <2>1, <2>2 DEF AppsrcRefsExact, One
<1>4. RtspTypeOK'
  BY <1>2, <1>3 DEF RtspTypeOK
<1>5. Places' /\ AbsentUntouched' /\ GateShut' /\ Served'
  BY DEF Places, Holding, AbsentUntouched, GateShut, Served, NoMedia, Media
<1> QED BY <1>1, <1>3, <1>4, <1>5

-------------------------------------------------------------------------------
(* The media callbacks *)

\* on_media_configure publishes a new appsrc and drops the old reference.
LEMMA OnMediaConfigureKeeps ==
  ASSUME FeedInv, NEW m \in Media, OnMediaConfigure(m), UNCHANGED pipelineVars
  PROVE  FeedInv'
<1> USE DEF FeedInv, OnMediaConfigure, feederVars
<1>1. PipelineTypeOK' /\ InOrder'
  BY SameFrames DEF Holding
<1>2. AppsrcRefsExact' /\ refs' \in [Media -> 0 .. 4]
  <2>1. /\ Unref(refs, appsrc_) \in [Media -> Int]
        /\ \A k \in Media : Unref(refs, appsrc_)[k]
                              = IF k = appsrc_ THEN refs[k] - 1 ELSE refs[k]
    BY RefsInt, UnrefCounts DEF RtspTypeOK
  <2>2. /\ refs' \in [Media -> Int]
        /\ \A k \in Media :
             refs'[k] = IF k = m THEN 3
                        ELSE IF k = appsrc_ THEN refs[k] - 1 ELSE refs[k]
    BY <2>1
  <2>3. AppsrcRefsExact'
    <3> SUFFICES ASSUME NEW k \in Media
                 PROVE  refs'[k] = (One(media[k] \in {"live", "flushing"})
                          + One(configuring = k) + One(appsrc_ = k) + One(src = k))'
      BY DEF AppsrcRefsExact
    <3>1. refs[k] = One(media[k] \in {"live", "flushing"}) + One(configuring = k)
                      + One(appsrc_ = k) + One(src = k)
      BY DEF AppsrcRefsExact
    <3>2. k # NoMedia
      BY DEF NoMedia, Media
    <3> QED BY <2>2, <3>1, <3>2 DEF One, RtspTypeOK, AbsentUntouched
  <2> QED BY <2>2, <2>3 DEF AppsrcRefsExact, One
<1>3. RtspTypeOK'
  BY <1>2 DEF RtspTypeOK
<1>4. Places' /\ GateShut' /\ Served'
  BY DEF Places, Holding, GateShut, Served
<1>5. AbsentUntouched'
  BY DEF AbsentUntouched, RtspTypeOK
<1> QED BY <1>1, <1>2, <1>3, <1>4, <1>5

\* The end of on_media_configure opens the gate and drops the handler's reference.
LEMMA OnMediaConfiguredKeeps ==
  ASSUME FeedInv, NEW m \in Media, OnMediaConfigured(m), UNCHANGED pipelineVars
  PROVE  FeedInv'
<1> USE DEF FeedInv, OnMediaConfigured, feederVars, mediaVars
<1>1. PipelineTypeOK' /\ InOrder'
  BY SameFrames DEF Holding
<1>2. AppsrcRefsExact' /\ refs' \in [Media -> 0 .. 4]
  <2>1. /\ refs' \in [Media -> Int]
        /\ \A k \in Media : refs'[k] = IF k = m THEN refs[k] - 1 ELSE refs[k]
    BY RefsInt, UnrefCounts DEF RtspTypeOK
  <2>2. AppsrcRefsExact'
    <3> SUFFICES ASSUME NEW k \in Media
                 PROVE  refs'[k] = (One(media[k] \in {"live", "flushing"})
                          + One(configuring = k) + One(appsrc_ = k) + One(src = k))'
      BY DEF AppsrcRefsExact
    <3>1. refs[k] = One(media[k] \in {"live", "flushing"}) + One(configuring = k)
                      + One(appsrc_ = k) + One(src = k)
      BY DEF AppsrcRefsExact
    <3>2. k # NoMedia
      BY DEF NoMedia, Media
    <3> QED BY <2>1, <3>1, <3>2 DEF One
  <2> QED BY <2>1, <2>2 DEF AppsrcRefsExact, One
<1>3. {server_', source_id_', running_', feeding_'} \subseteq BOOLEAN
  BY Zenon DEF RtspTypeOK
<1>4. RtspTypeOK'
  BY <1>2, <1>3 DEF RtspTypeOK, NoMedia
<1>5. Places' /\ AbsentUntouched'
  BY DEF Places, Holding, AbsentUntouched, NoMedia, Media
<1>6. GateShut' /\ Served'
  BY DEF GateShut, Served, RtspTypeOK
<1> QED BY <1>1, <1>2, <1>4, <1>5, <1>6

\* The streaming thread takes a buffer out of the appsrc.
LEMMA ClientPullKeeps ==
  ASSUME FeedInv, NEW m \in Media, ClientPull(m), UNCHANGED pipelineVars
  PROVE  FeedInv'
<1> USE DEF FeedInv, ClientPull, feederVars
<1>1. PipelineTypeOK' /\ InOrder'
  BY SameFrames DEF Holding
<1>2. asked' \in [Media -> BOOLEAN]
  BY Zenon DEF RtspTypeOK
<1>3. level' \in [Media -> 0 .. MaxEncoded] /\ Served'
  BY DEF RtspTypeOK, Served
<1>4. RtspTypeOK'
  BY <1>2, <1>3 DEF RtspTypeOK
<1>5. Places' /\ AbsentUntouched' /\ AppsrcRefsExact' /\ GateShut'
  BY DEF Places, Holding, AbsentUntouched, AppsrcRefsExact, GateShut
<1> QED BY <1>1, <1>3, <1>4, <1>5

\* need-data opens the gate.
LEMMA OnNeedDataKeeps ==
  ASSUME FeedInv, NEW m \in Media, OnNeedData(m), UNCHANGED pipelineVars
  PROVE  FeedInv'
<1> USE DEF FeedInv, OnNeedData, feederVars
<1>1. PipelineTypeOK' /\ InOrder'
  BY SameFrames DEF Holding
<1>2. asked' \in [Media -> BOOLEAN]
  BY Zenon DEF RtspTypeOK
<1>3. {server_', source_id_', running_', feeding_'} \subseteq BOOLEAN
  BY Zenon DEF RtspTypeOK
<1>4. RtspTypeOK'
  BY <1>2, <1>3 DEF RtspTypeOK
<1>5. Places' /\ AbsentUntouched' /\ AppsrcRefsExact'
  BY DEF Places, Holding, AbsentUntouched, AppsrcRefsExact
<1>6. GateShut' /\ Served'
  BY DEF GateShut, Served, RtspTypeOK
<1> QED BY <1>1, <1>4, <1>5, <1>6

\* The media goes away; its bin gives its reference back at the end.
LEMMA MediaGoesKeeps ==
  ASSUME FeedInv, NEW m \in Media, MediaUnprepare(m) \/ MediaFinalize(m),
         UNCHANGED pipelineVars
  PROVE  FeedInv'
<1> USE DEF FeedInv, MediaUnprepare, MediaFinalize, feederVars
<1>1. PipelineTypeOK' /\ InOrder'
  BY SameFrames DEF Holding
<1>2. AppsrcRefsExact' /\ refs' \in [Media -> 0 .. 4]
  <2>1. CASE MediaUnprepare(m)
    BY <2>1 DEF AppsrcRefsExact, One, RtspTypeOK
  <2>2. CASE MediaFinalize(m)
    <3>1. /\ refs' \in [Media -> Int]
        /\ \A k \in Media : refs'[k] = IF k = m THEN refs[k] - 1 ELSE refs[k]
      BY <2>2, RefsInt, UnrefCounts DEF RtspTypeOK
    <3>2. AppsrcRefsExact'
      BY <2>2, <3>1 DEF AppsrcRefsExact, One, RtspTypeOK
    <3> QED BY <3>1, <3>2 DEF AppsrcRefsExact, One
  <2> QED BY <2>1, <2>2
<1>3. level' \in [Media -> 0 .. MaxEncoded] /\ Served'
  BY DEF RtspTypeOK, Served
<1>4. RtspTypeOK'
  BY <1>2, <1>3 DEF RtspTypeOK
<1>5. Places' /\ GateShut'
  BY DEF Places, Holding, GateShut
<1>6. AbsentUntouched'
  BY DEF AbsentUntouched, RtspTypeOK
<1> QED BY <1>1, <1>2, <1>3, <1>4, <1>5, <1>6

-------------------------------------------------------------------------------
(* feeder_loop *)

\* The feeder reads running_.
LEMMA FeederCheckKeeps ==
  ASSUME FeedInv, FeederCheck, UNCHANGED pipelineVars
  PROVE  FeedInv'
<1> USE DEF FeedInv, FeederCheck, FeederGoto, mediaVars
<1>1. PipelineTypeOK' /\ InOrder'
  BY SameFrames DEF Holding
<1>2. RtspTypeOK'
  BY DEF RtspTypeOK
<1>3. Places' /\ AbsentUntouched' /\ AppsrcRefsExact' /\ GateShut' /\ Served'
  BY DEF Places, Holding, AbsentUntouched, AppsrcRefsExact, GateShut, Served
<1> QED BY <1>1, <1>2, <1>3

\* pop() takes the oldest frame: the ones behind it are newer.
LEMMA FeederPopKeeps ==
  ASSUME FeedInv, FeederPop
  PROVE  FeedInv'
<1> USE DEF FeedInv, FeederPop, FeederGoto, mediaVars, streamVars
<1> DEFINE q == enc_q_.items
<1>1. q \in Seq(Frames) /\ enc_q_.closed \in BOOLEAN
  BY DEF PipelineTypeOK
<1>2. AbsentUntouched' /\ AppsrcRefsExact' /\ GateShut' /\ Served'
  BY DEF AbsentUntouched, AppsrcRefsExact, GateShut, Served
<1>3. CASE HasItem(enc_q_)
  <2>1. q # <<>> /\ Len(q) \in Nat /\ Len(q) >= 1 /\ feeder = "pop" /\ feeder' = "gate"
    BY <1>1, <1>3 DEF HasItem
  <2>2. item' = q[1] /\ item' \in Frames
    BY <1>1, <1>3, <2>1 DEF FrontOf
  <2>3. /\ Tail(q) \in Seq(Frames) /\ Len(Tail(q)) = Len(q) - 1
        /\ \A i \in 1 .. Len(Tail(q)) : Tail(q)[i] = q[i + 1]
    BY <1>1, <2>1
  <2>4. enc_q_' = [enc_q_ EXCEPT !.items = Tail(q)]
    BY <1>3 DEF WithoutFront
  <2>5. enc_q_'.items = Tail(q) /\ enc_q_' \in [items : Seq(Frames), closed : BOOLEAN]
    BY <2>3, <2>4 DEF PipelineTypeOK
  <2>6. PipelineTypeOK'
    BY <2>5 DEF PipelineTypeOK
  <2>7. RtspTypeOK'
    BY <2>1, <2>2 DEF RtspTypeOK
  <2>8. /\ Len(enc_q_'.items) = Len(q) - 1
        /\ \A i \in 1 .. Len(q) - 1 : enc_q_'.items[i] = q[i + 1] /\ i + 1 \in 1 .. Len(q)
    BY <2>1, <2>3, <2>5
  <2>9. \A i \in 1 .. Len(q) : q[i].n \in Nat
    <3>1. \A i \in 1 .. Len(q) : q[i] \in Frames
      BY <1>1
    <3> QED BY <3>1, FrameNumbers
  <2>10. item.n \in Nat /\ served_ \in Nat /\ \A m \in Media : last[m].n \in Nat
    BY DEF RtspTypeOK, Frames
  <2>11. 1 \in 1 .. Len(q)
    BY <2>1
  <2>12. Places'
    <3>1. item.n < q[1].n
      BY <2>11 DEF InOrder, Ahead
    <3> QED BY <2>1, <2>2, <2>9, <2>10, <2>11, <3>1 DEF Places, Holding
  <2>13. InOrder'
    <3>1. UNCHANGED <<encSample, nEncoded, pts_counter_, served_, last>>
      OBVIOUS
    <3>2. ASSUME NEW n \in Nat, Ahead(n) PROVE Ahead(n)' /\ n < item'.n
      BY <2>2, <2>8, <2>11, <3>1, <3>2 DEF Ahead
    <3>3. Ahead(served_)' /\ \A m \in Media : Ahead(last[m].n)'
      BY <2>10, <3>1, <3>2 DEF InOrder, Ahead
    <3>4. served_' < item'.n /\ \A m \in Media : last'[m].n < item'.n
      BY <2>10, <3>1, <3>2 DEF InOrder
    <3>5. Ahead(item.n)'
      <4>1. ASSUME NEW i \in 1 .. Len(enc_q_'.items) PROVE q[1].n < enc_q_'.items[i].n
        <5>1. i + 1 \in 1 .. Len(q) /\ enc_q_'.items[i] = q[i + 1] /\ 1 < i + 1
          BY <2>1, <2>8
        <5> QED BY <2>11, <5>1 DEF InOrder, QueueSorted
      <4>2. q[1].n <= nEncoded /\ (encSample # NoFrame => q[1].n < encSample.n)
        BY <2>11 DEF InOrder
      <4> QED BY <2>2, <3>1, <4>1, <4>2 DEF Ahead
    <3>6. QueueSorted'
      <4> SUFFICES ASSUME NEW i \in 1 .. Len(enc_q_'.items),
                          NEW j \in 1 .. Len(enc_q_'.items), i < j
                   PROVE  enc_q_'.items[i].n < enc_q_'.items[j].n
        BY DEF QueueSorted
      <4>1. /\ i + 1 \in 1 .. Len(q) /\ j + 1 \in 1 .. Len(q) /\ i + 1 < j + 1
            /\ enc_q_'.items[i] = q[i + 1] /\ enc_q_'.items[j] = q[j + 1]
        <5>1. i \in 1 .. Len(q) - 1 /\ j \in 1 .. Len(q) - 1
          BY <2>8
        <5> HIDE DEF q, FeederPop
        <5> QED BY <2>1, <2>8, <5>1
      <4> QED BY <4>1 DEF InOrder, QueueSorted
    <3>7. \A i \in 1 .. Len(enc_q_'.items) :
            /\ enc_q_'.items[i].n <= nEncoded
            /\ encSample # NoFrame => enc_q_'.items[i].n < encSample.n
      BY <2>8 DEF InOrder
    <3> QED BY <3>1, <3>3, <3>4, <3>5, <3>6, <3>7 DEF InOrder, Ahead
  <2> QED BY <1>2, <2>6, <2>7, <2>12, <2>13
<1>4. CASE ~HasItem(enc_q_)
  <2>1. UNCHANGED <<item, enc_q_>> /\ feeder = "pop" /\ feeder' = "exited"
    BY <1>4
  <2>2. PipelineTypeOK' /\ InOrder'
    BY <2>1, SameFrames DEF Holding, pipelineVars
  <2>3. RtspTypeOK'
    BY <2>1 DEF RtspTypeOK
  <2>4. Places'
    BY <2>1 DEF Places, Holding
  <2> QED BY <1>2, <2>2, <2>3, <2>4
<1> QED BY <1>3, <1>4

\* A frame that the gate stops is dropped; one that it lets through is a keyframe or
\* was let through with the gate open.
LEMMA FeederGateKeeps ==
  ASSUME FeedInv, FeederGate, UNCHANGED pipelineVars
  PROVE  FeedInv'
<1> USE DEF FeedInv, FeederGate, FeederGoto, mediaVars
<1>1. NoFrame \in Frames /\ NoFrame.n = 0
  BY DEF NoFrame, Frames
<1>2. AbsentUntouched' /\ AppsrcRefsExact' /\ Served'
  BY DEF AbsentUntouched, AppsrcRefsExact, Served
<1>3. CASE GatePasses
  <2>1. item' = item /\ feeder = "gate" /\ feeder' = "grab"
    BY <1>3
  <2>2. PipelineTypeOK' /\ InOrder'
    BY <2>1, SameFrames DEF Holding
  <2>3. RtspTypeOK'
    BY <2>1 DEF RtspTypeOK
  <2>4. Places' /\ GateShut'
    BY <1>3, <2>1 DEF Places, Holding, GateShut, GatePasses
  <2> QED BY <1>2, <2>2, <2>3, <2>4
<1>4. CASE ~GatePasses
  <2>1. item' = NoFrame /\ feeder = "gate" /\ feeder' = "check"
    BY <1>4
  <2>2. PipelineTypeOK'
    BY DEF PipelineTypeOK, pipelineVars
  <2>3. RtspTypeOK'
    BY <1>1, <2>1 DEF RtspTypeOK
  <2>4. Places' /\ GateShut'
    BY <1>1, <2>1 DEF Places, Holding, GateShut
  <2>5. InOrder'
    BY <1>1, <2>1, FrameDropped DEF Holding
  <2> QED BY <1>2, <2>2, <2>3, <2>4, <2>5
<1> QED BY <1>3, <1>4

\* The feeder takes its own reference, or drops the frame when there is no appsrc.
LEMMA FeederGrabKeeps ==
  ASSUME FeedInv, FeederGrab, UNCHANGED pipelineVars
  PROVE  FeedInv'
<1> USE DEF FeedInv, FeederGrab, FeederGoto, mediaVars
<1>1. NoFrame \in Frames /\ NoFrame.n = 0
  BY DEF NoFrame, Frames
<1>2. Served' /\ PipelineTypeOK'
  BY DEF Served, PipelineTypeOK, pipelineVars
<1>3. CASE appsrc_ = NoMedia
  <2>1. /\ item' = NoFrame /\ feeder = "grab" /\ feeder' = "check"
        /\ UNCHANGED <<src, refs>>
    BY <1>3
  <2>2. RtspTypeOK'
    BY <1>1, <2>1 DEF RtspTypeOK
  <2>3. Places' /\ GateShut' /\ AbsentUntouched' /\ AppsrcRefsExact'
    BY <1>1, <2>1 DEF Places, Holding, GateShut, AbsentUntouched, AppsrcRefsExact
  <2>4. InOrder'
    BY <1>1, <2>1, FrameDropped DEF Holding
  <2> QED BY <1>2, <2>2, <2>3, <2>4
<1>4. CASE appsrc_ # NoMedia
  <2>1. /\ src' = appsrc_ /\ feeder = "grab" /\ feeder' = "push" /\ item' = item
        /\ refs' = [refs EXCEPT ![appsrc_] = @ + 1]
    BY <1>4 DEF Grabbed, Ref
  <2>2. InOrder'
    BY <2>1, SameFrames DEF Holding
  <2>3. /\ refs' \in [Media -> Int]
        /\ \A k \in Media : refs'[k] = IF k = appsrc_ THEN refs[k] + 1 ELSE refs[k]
    BY <1>4, <2>1, RefsInt DEF RtspTypeOK
  <2>4. src = NoMedia
    BY <2>1 DEF Places
  <2>5. AppsrcRefsExact'
    <3> SUFFICES ASSUME NEW k \in Media
                 PROVE  refs'[k] = (One(media[k] \in {"live", "flushing"})
                          + One(configuring = k) + One(appsrc_ = k) + One(src = k))'
      BY DEF AppsrcRefsExact
    <3>1. refs[k] = One(media[k] \in {"live", "flushing"}) + One(configuring = k)
                      + One(appsrc_ = k) + One(src = k)
      BY DEF AppsrcRefsExact
    <3>2. k # NoMedia
      BY DEF NoMedia, Media
    <3> QED BY <2>1, <2>3, <2>4, <3>1, <3>2 DEF One
  <2>6. refs' \in [Media -> 0 .. 4]
    BY <2>3, <2>5 DEF AppsrcRefsExact, One
  <2>7. RtspTypeOK'
    BY <2>1, <2>6 DEF RtspTypeOK
  <2>8. Places' /\ GateShut' /\ AbsentUntouched'
    BY <1>4, <2>1 DEF Places, Holding, GateShut, AbsentUntouched
  <2> QED BY <1>2, <2>2, <2>5, <2>7, <2>8
<1> QED BY <1>3, <1>4

\* A push counts one frame more, feeds the newest frame so far, and ends the
\* feeder's reference; into a full appsrc it shuts the gate.
LEMMA FeederPushKeeps ==
  ASSUME FeedInv, FeederPush, UNCHANGED pipelineVars
  PROVE  FeedInv'
<1> USE DEF FeedInv
<1>1. /\ feeder = "push" /\ feeder' = "check" /\ item' = NoFrame /\ src' = NoMedia
      /\ refs' = Unref(refs, src) /\ src # NoMedia /\ src \in Media
      /\ UNCHANGED <<appsrc_, configuring, media, asked, connected>>
      /\ UNCHANGED <<server_, source_id_, running_>>
  BY DEF FeederPush, FeederGoto, Places, RtspTypeOK
<1>2. /\ NoFrame \in Frames /\ NoFrame.n = 0 /\ item \in Frames /\ item.n \in Nat
      /\ served_ \in Nat /\ nEncoded \in Nat /\ item.n <= nEncoded
      /\ nEncoded <= MaxEncoded /\ served_ < item.n
  BY <1>1, FrameNumbers
  DEF NoFrame, Frames, RtspTypeOK, PipelineTypeOK, InOrder, Ahead, Holding
<1>3. PipelineTypeOK'
  BY DEF PipelineTypeOK, pipelineVars
<1>4. AppsrcRefsExact' /\ refs' \in [Media -> 0 .. 4]
  <2>1. /\ refs' \in [Media -> Int]
        /\ \A k \in Media : refs'[k] = IF k = src THEN refs[k] - 1 ELSE refs[k]
    BY <1>1, RefsInt, UnrefCounts
  <2>2. AppsrcRefsExact'
    <3> SUFFICES ASSUME NEW k \in Media
                 PROVE  refs'[k] = (One(media[k] \in {"live", "flushing"})
                          + One(configuring = k) + One(appsrc_ = k) + One(src = k))'
      BY DEF AppsrcRefsExact
    <3>1. refs[k] = One(media[k] \in {"live", "flushing"}) + One(configuring = k)
                      + One(appsrc_ = k) + One(src = k)
      BY DEF AppsrcRefsExact
    <3>2. k # NoMedia
      BY DEF NoMedia, Media
    <3> QED BY <1>1, <2>1, <3>1, <3>2 DEF One
  <2> QED BY <2>1, <2>2 DEF AppsrcRefsExact, One
<1>5. Places' /\ AbsentUntouched'
  BY <1>1 DEF Places, Holding, AbsentUntouched, NoMedia, Media
<1>6. base_pts' \in 0 .. NoPts
  BY <1>2, FrameNumbers DEF FeederPush, Base, RtspTypeOK, NoPts
<1>7. CASE FeederPushFlushing
  <2>1. UNCHANGED <<feeding_, level, last, served_, overfed>>
    BY <1>7 DEF FeederPushFlushing
  <2>2. RtspTypeOK'
    BY <1>1, <1>2, <1>4, <1>6, <2>1 DEF RtspTypeOK
  <2>3. GateShut' /\ Served'
    BY <1>1, <2>1 DEF GateShut, Served
  <2>4. InOrder'
    BY <1>1, <2>1, FrameDropped DEF Holding
  <2> QED BY <1>3, <1>4, <1>5, <2>2, <2>3, <2>4
<1>8. CASE FeederPushOK
  <2>1. PICK pts \in Stamps(Base) :
          last' = [last EXCEPT ![src] = [n |-> item.n, key |-> item.key, pts |-> pts]]
    BY <1>8 DEF FeederPushOK
  <2>2. pts \in 0 .. MaxEncoded + 1
    BY <1>2, FrameNumbers DEF Stamps, Base, RtspTypeOK, NoPts
  <2>3. last' \in [Media -> Frames]
    <3>1. [n |-> item.n, key |-> item.key, pts |-> pts] \in Frames
      BY <1>2, <2>2 DEF Frames
    <3> QED BY <2>1, <3>1 DEF RtspTypeOK
  <2>4. last'[src].n = item.n /\ \A m \in Media \ {src} : last'[m] = last[m]
    BY <1>1, <2>1 DEF RtspTypeOK
  <2>5. served_' = served_ + 1 /\ served_' <= item.n
    BY <1>2, <1>8 DEF FeederPushOK
  <2>6. feeding_' \in BOOLEAN
    BY <1>8 DEF FeederPushOK, AfterEnoughData, RtspTypeOK
  <2>7. level' \in [Media -> Nat] /\ \A m \in Media : level'[m] <= served_ + 1
    BY <1>1, <1>2, <1>8 DEF FeederPushOK, RtspTypeOK, Served
  <2>8. level' \in [Media -> 0 .. MaxEncoded]
    BY <1>2, <2>5, <2>7
  <2>9. /\ overfed \in Nat /\ overfed' \in Nat /\ overfed' <= overfed + 1
        /\ overfed' # overfed =>
             overfed' = overfed + 1 /\ ~item.key /\ feeding_' = FALSE
    BY <1>8 DEF FeederPushOK, AfterEnoughData, RtspTypeOK
  <2>10. Served'
    BY <1>2, <2>5, <2>7, <2>9 DEF Served
  <2>11. GateShut'
    <3>1. feeder' \notin {"grab", "push"}
      BY <1>1
    <3>2. CASE overfed' # overfed
      <4>1. overfed = 0
        BY <1>1, <2>9, <3>2 DEF GateShut
      <4> QED BY <2>9, <3>1, <3>2, <4>1 DEF GateShut
    <3>3. CASE overfed' = overfed
      <4>1. overfed = 1 => ~feeding_'
        BY <1>8 DEF FeederPushOK, AfterEnoughData, GateShut
      <4> QED BY <3>1, <3>3, <4>1 DEF GateShut
    <3> QED BY <3>2, <3>3
  <2>12. RtspTypeOK'
    <3>1. served_' \in 0 .. MaxEncoded /\ overfed' \in 0 .. MaxEncoded
      BY <1>2, <2>5, <2>9, <2>10 DEF Served
    <3>2. {server_', source_id_', running_', feeding_'} \subseteq BOOLEAN
      BY <1>1, <2>6 DEF RtspTypeOK
    <3> QED BY <1>1, <1>2, <1>4, <1>6, <2>3, <2>8, <3>1, <3>2 DEF RtspTypeOK
  <2>13. InOrder'
    <3>1. Ahead(item.n) /\ \A m \in Media : Ahead(last[m].n)
      BY DEF InOrder
    <3>2. ~Holding'
      BY <1>1 DEF Holding
    <3>3. \A m \in Media : Ahead(last[m].n)'
      BY <2>4, <3>1 DEF Ahead, pipelineVars
    <3>4. Ahead(served_)' /\ Ahead(item.n)'
      <4>1. ASSUME NEW n \in Nat, n <= item.n PROVE Ahead(n)
        <5>1. \A i \in 1 .. Len(enc_q_.items) : enc_q_.items[i] \in Frames
          BY DEF PipelineTypeOK
        <5>2. encSample.n \in Nat
          BY FrameNumbers DEF PipelineTypeOK
        <5> QED BY <1>2, <3>1, <4>1, <5>1, <5>2, FrameNumbers DEF Ahead
      <4>2. Ahead(served_ + 1) /\ Ahead(0)
        BY <1>2, <2>5, <4>1
      <4> QED BY <1>1, <1>2, <2>5, <4>2 DEF Ahead, pipelineVars
    <3> QED BY <3>2, <3>3, <3>4 DEF InOrder, Ahead, QueueSorted, pipelineVars
  <2> QED BY <1>3, <1>4, <1>5, <2>10, <2>11, <2>12, <2>13
<1> QED BY <1>7, <1>8 DEF FeederPush
===============================================================================

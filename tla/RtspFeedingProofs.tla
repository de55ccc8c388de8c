-------------------------- MODULE RtspFeedingProofs --------------------------
(***************************************************************************)
(* TLAPS proofs about RtspFeeding, for every capacity, number of samples   *)
(* and number of media.  IInv is FeedInv of RtspServerProofs with the fact *)
(* that no feeder runs before attach().  TimeInv, for an encoder whose     *)
(* samples all carry a timestamp or none, adds where timestamps come from. *)
(***************************************************************************)
EXTENDS RtspFeeding, RtspServerProofs

\* The owner has one feeder thread, started by attach().
NotYetAttached == main \in {"build", "attach"} => feeder = "none"

IInv == FeedInv /\ NotYetAttached

\* The timestamp of frame n: its capture time, or the counter it drew.
PtsOf(n) == IF TRUE \in PtsValidity THEN n + 1 ELSE n - 1

\* Every frame on its way has the timestamp of its number ...
Stamped ==
  /\ encSample # NoFrame => encSample.pts = PtsOf(encSample.n)
  /\ \A i \in 1 .. Len(enc_q_.items) : enc_q_.items[i].pts = PtsOf(enc_q_.items[i].n)
  /\ Holding => item.pts = PtsOf(item.n)

\* ... and was captured after the base, ...
Based ==
  base_pts # NoPts =>
    /\ base_pts <= PtsOf(nEncoded)
    /\ encSample # NoFrame => base_pts < encSample.pts
    /\ \A i \in 1 .. Len(enc_q_.items) : base_pts < enc_q_.items[i].pts
    /\ Holding => base_pts < item.pts

\* ... to which the buffers in the appsrcs are relative.
Relative ==
  \A m \in Media :
    last[m] # NoBuffer =>
      base_pts # NoPts /\ last[m].pts = PtsOf(last[m].n) - base_pts

TimeInv == Stamped /\ Based /\ Relative

USE QueueCapacityAssumption, SampleBoundAssumption, PtsValidityAssumption,
    MediaAssumption

\* The initial states satisfy the invariant.
LEMMA InitInv == Init => IInv
  BY FeedInit DEF Init, IInv, NotYetAttached, RtspInit

\* The owner's steps preserve it.
LEMMA OwnerInv ==
  ASSUME IInv, OwnerStep
  PROVE  IInv'
<1> USE DEF IInv, NotYetAttached
<1>1. CASE Build("build", "attach") /\ OnPipeline
  <2>1. bus_watch_' \in BOOLEAN
    BY <1>1, Zenon DEF Build
  <2>2. FeedInv'
    BY <1>1, <2>1, QuietKeeps
    DEF Build, OnPipeline, rtspVars, mediaVars, streamVars, FeedInv, PipelineTypeOK,
        RtspTypeOK
  <2> QED BY <1>1, <2>2 DEF Build, Goto, OnPipeline, rtspVars, feederVars
<1>2. CASE Attach("attach", "start") /\ OnServer
  <2>1. feeder = "none"
    BY <1>2 DEF Attach, Goto
  <2>2. FeedInv'
    BY <1>2, <2>1, AttachKeeps DEF OnServer
  <2> QED BY <1>2, <2>2 DEF Attach, Goto
<1>3. CASE Start("start", "loop") /\ OnPipeline
  <2>1. FeedInv'
    BY <1>3, QuietKeeps
    DEF Start, OnPipeline, rtspVars, mediaVars, streamVars, FeedInv, PipelineTypeOK,
        RtspTypeOK
  <2> QED BY <1>3, <2>1 DEF Start, Goto
<1>4. CASE ShutdownBegin("loop", "shutdown_close") /\ OnServer
  <2>1. running_' \in BOOLEAN
    BY <1>4, Zenon DEF ShutdownBegin
  <2>2. FeedInv'
    BY <1>4, <2>1, QuietKeeps
    DEF ShutdownBegin, OnServer, pipelineVars, mediaVars, FeedInv, PipelineTypeOK,
        RtspTypeOK
  <2> QED BY <1>4, <2>2 DEF ShutdownBegin, Goto
<1>5. CASE ShutdownClose("shutdown_close", "shutdown_join")
  BY <1>5, CloseKeeps DEF ShutdownClose, Goto
<1>6. CASE ShutdownJoin("shutdown_join", "shutdown_release") /\ OnServer
  <2>1. FeedInv'
    BY <1>6, QuietKeeps
    DEF ShutdownJoin, OnServer, pipelineVars, rtspVars, mediaVars, FeedInv,
        PipelineTypeOK, RtspTypeOK
  <2> QED BY <1>6, <2>1 DEF ShutdownJoin, Goto
<1>7. CASE ShutdownRelease("shutdown_release", "done") /\ OnServer
  BY <1>7, ShutdownReleaseKeeps DEF ShutdownRelease, OnServer, Goto
<1> QED BY <1>1, <1>2, <1>3, <1>4, <1>5, <1>6, <1>7 DEF OwnerStep

\* So do the feeder's, ...
LEMMA FeederInv ==
  ASSUME IInv, FeederStep
  PROVE  IInv'
<1>1. FeedInv'
  BY FeederPopKeeps, FeederCheckKeeps, FeederGateKeeps, FeederGrabKeeps, FeederPushKeeps
  DEF IInv, FeederStep, FeederLocal, OnServer
<1>2. feeder # "none"
  BY DEF FeederStep, FeederPop, FeederLocal, FeederCheck, FeederGate, FeederGrab,
         FeederPush, FeederGoto
<1> QED BY <1>1, <1>2 DEF IInv, NotYetAttached, FeederStep

\* ... and those of the media.
LEMMA MediaInv ==
  ASSUME IInv, MediaStep
  PROVE  IInv'
<1>1. UNCHANGED <<main, feeder>>
  BY DEF MediaStep, ClientConnects, OnMediaConfigure, OnMediaConfigured, ClientPull,
         OnNeedData, MediaUnprepare, MediaFinalize, feederVars
<1>2. CASE ClientConnects("loop")
  <2>1. connected' \in BOOLEAN
    BY <1>2, Zenon DEF ClientConnects
  <2>2. FeedInv'
    BY <1>2, <2>1, QuietKeeps
    DEF ClientConnects, MediaStep, OnServer, pipelineVars, IInv, FeedInv,
        PipelineTypeOK, RtspTypeOK
  <2> QED BY <1>1, <2>2 DEF IInv, NotYetAttached
<1>3. CASE \E m \in Media :
             \/ OnMediaConfigure(m) \/ OnMediaConfigured(m)
             \/ ClientPull(m) \/ OnNeedData(m)
             \/ MediaUnprepare(m) \/ MediaFinalize(m)
  <2>1. FeedInv'
    BY <1>3, OnMediaConfigureKeeps, OnMediaConfiguredKeeps, ClientPullKeeps,
       OnNeedDataKeeps, MediaGoesKeeps
    DEF MediaStep, OnServer, IInv
  <2> QED BY <1>1, <2>1 DEF IInv, NotYetAttached
<1> QED BY <1>2, <1>3 DEF MediaStep

\* Every step preserves the invariant.
LEMMA NextInv ==
  ASSUME IInv, [Next]_vars
  PROVE  IInv'
<1>1. CASE StreamStep
  <2>1. FeedInv'
    BY <1>1, OnNewEncodedSampleKeeps, PushEncodedSampleKeeps DEF StreamStep, IInv
  <2> QED BY <1>1, <2>1 DEF StreamStep, IInv, NotYetAttached, rtspVars, feederVars
<1>2. CASE Ended \/ UNCHANGED vars
  <2>1. UNCHANGED vars
    BY <1>2 DEF Ended
  <2>2. FeedInv'
    BY <2>1, QuietKeeps
    DEF vars, pipelineVars, rtspVars, mediaVars, IInv, FeedInv, PipelineTypeOK,
        RtspTypeOK
  <2> QED BY <2>1, <2>2 DEF vars, rtspVars, feederVars, IInv, NotYetAttached
<1> QED BY <1>1, <1>2, OwnerInv, FeederInv, MediaInv DEF Next

\* The inductive invariant holds.
THEOREM InvariantHolds == Spec => []IInv
  BY InitInv, NextInv, PTL DEF Spec

\* The references on every appsrc are exactly the ones somebody will release,
\* however media are configured and torn down around the feeder's push.
THEOREM RefsExactHolds == Spec => []AppsrcRefsExact
<1>1. IInv => AppsrcRefsExact
  BY DEF IInv, FeedInv
<1> QED BY <1>1, InvariantHolds, PTL

\* A full appsrc takes at most one delta frame for each opening of the gate.
THEOREM OneDeltaHolds == Spec => []OneDeltaPerOpening
<1>1. IInv => OneDeltaPerOpening
  BY DEF IInv, FeedInv, GateShut, OneDeltaPerOpening
<1> QED BY <1>1, InvariantHolds, PTL

-------------------------------------------------------------------------------
(* Timestamps *)

\* The two ways in which a frame's timestamp comes from its number.
LEMMA PtsShape ==
  /\ TRUE \in PtsValidity => \A n : PtsOf(n) = n + 1
  /\ TRUE \notin PtsValidity => \A n : PtsOf(n) = n - 1
  BY Zenon DEF PtsOf

\* Timestamps follow frame numbers.
LEMMA PtsOrder ==
  ASSUME NEW a \in Nat, NEW b \in Nat
  PROVE  /\ PtsOf(a) \in Int /\ PtsOf(b) \in Int
         /\ a < b => PtsOf(a) < PtsOf(b)
         /\ a <= b => PtsOf(a) <= PtsOf(b)
<1>1. (\A n : PtsOf(n) = n + 1) \/ (\A n : PtsOf(n) = n - 1)
  BY PtsShape, Zenon
<1> QED BY <1>1

\* A step that adds no frame, and at most drops the one the feeder holds.
LEMMA TimeQuiet ==
  ASSUME TimeInv, UNCHANGED <<encSample, nEncoded, base_pts, last>>,
         enc_q_'.items = enc_q_.items, Holding' => Holding /\ item' = item
  PROVE  TimeInv'
  BY DEF TimeInv, Stamped, Based, Relative

\* With uniform timestamps a new sample has the timestamp of its number.
LEMMA TimeNewSample ==
  ASSUME PtsValidity # BOOLEAN, IInv, TimeInv, OnNewEncodedSample, UNCHANGED rtspVars
  PROVE  TimeInv'
<1>1. PICK key \in BOOLEAN, valid \in PtsValidity :
        encSample' = [n |-> nEncoded + 1, key |-> key,
                      pts |-> IF valid THEN CaptureTime(nEncoded + 1)
                                       ELSE pts_counter_]
  BY DEF OnNewEncodedSample
<1>2. nEncoded \in Nat /\ pts_counter_ = nEncoded
  BY DEF IInv, FeedInv, PipelineTypeOK, InOrder
<1>3. valid \in BOOLEAN /\ (valid <=> TRUE \in PtsValidity)
  BY Zenon
<1>4. /\ encSample'.n = nEncoded + 1 /\ nEncoded' = nEncoded + 1
      /\ encSample'.pts = PtsOf(nEncoded + 1)
  <2>1. nEncoded' = nEncoded + 1 /\ encSample'.n = nEncoded + 1
    BY <1>1 DEF OnNewEncodedSample
  <2>2. CASE valid
    <3>1. encSample'.pts = CaptureTime(nEncoded + 1)
      BY <1>1, <2>2
    <3>2. \A n : PtsOf(n) = n + 1
      BY <1>3, <2>2, PtsShape, Zenon
    <3> QED BY <2>1, <3>1, <3>2 DEF CaptureTime
  <2>3. CASE ~valid
    <3>1. encSample'.pts = pts_counter_
      BY <1>1, <2>3
    <3>2. \A n : PtsOf(n) = n - 1
      BY <1>3, <2>3, PtsShape, Zenon
    <3> QED BY <1>2, <2>1, <3>1, <3>2
  <2> QED BY <2>2, <2>3
<1>5. PtsOf(nEncoded) < PtsOf(nEncoded + 1) /\ PtsOf(nEncoded) \in Int
      /\ PtsOf(nEncoded + 1) \in Int /\ base_pts \in Int
  BY <1>2, PtsOrder DEF IInv, FeedInv, RtspTypeOK, NoPts
<1>6. UNCHANGED <<enc_q_, item, feeder, base_pts, last>>
  BY DEF OnNewEncodedSample, rtspVars, feederVars, mediaVars
<1>7. Stamped'
  BY <1>4, <1>6 DEF TimeInv, Stamped, Holding
<1>8. Based'
  BY <1>4, <1>5, <1>6 DEF TimeInv, Based, Holding
<1>9. Relative'
  BY <1>6 DEF TimeInv, Relative
<1> QED BY <1>7, <1>8, <1>9 DEF TimeInv

\* What push() leaves in the queue was there before, or is the new frame.
LEMMA PushedItems ==
  ASSUME IInv, PushEncodedSample, NEW i \in 1 .. Len(enc_q_'.items)
  PROVE  \/ \E j \in 1 .. Len(enc_q_.items) : enc_q_'.items[i] = enc_q_.items[j]
         \/ enc_q_'.items[i] = encSample
<1> DEFINE q == enc_q_.items
<1>1. q \in Seq(Frames) /\ encSample \in Frames
  BY DEF IInv, FeedInv, PipelineTypeOK
<1>2. CASE enc_q_.closed
  BY <1>2 DEF PushEncodedSample, PushTo
<1>3. CASE ~enc_q_.closed /\ Len(q) >= EncCapacity
  <2>1. q # <<>> /\ Tail(q) \in Seq(Frames) /\ Len(Tail(q)) = Len(q) - 1
        /\ \A k \in 1 .. Len(Tail(q)) : Tail(q)[k] = q[k + 1]
    BY <1>1, <1>3
  <2>2. enc_q_' = [enc_q_ EXCEPT !.items = Append(Tail(q), encSample)]
    BY <1>3 DEF PushEncodedSample, PushTo
  <2>3. enc_q_'.items = Append(Tail(q), encSample)
    BY <2>2 DEF IInv, FeedInv, PipelineTypeOK
  <2>4. CASE i = Len(q)
    BY <1>1, <2>1, <2>3, <2>4
  <2>5. CASE i # Len(q)
    <3>1. i \in 1 .. Len(q) - 1 /\ i + 1 \in 1 .. Len(q)
      BY <1>1, <2>1, <2>3, <2>5
    <3>2. enc_q_'.items[i] = q[i + 1]
      BY <1>1, <2>1, <2>3, <3>1
    <3> QED BY <3>1, <3>2
  <2> QED BY <2>4, <2>5
<1>4. CASE ~enc_q_.closed /\ ~(Len(q) >= EncCapacity)
  <2>1. enc_q_' = [enc_q_ EXCEPT !.items = Append(q, encSample)]
    BY <1>4 DEF PushEncodedSample, PushTo
  <2>2. enc_q_'.items = Append(q, encSample)
    BY <2>1 DEF IInv, FeedInv, PipelineTypeOK
  <2> QED BY <1>1, <2>2
<1> QED BY <1>2, <1>3, <1>4 DEF IInv, FeedInv, PipelineTypeOK

\* Pushing the sample moves its timestamp into the queue.
LEMMA TimePushed ==
  ASSUME IInv, TimeInv, PushEncodedSample, UNCHANGED rtspVars
  PROVE  TimeInv'
<1>1. /\ encSample # NoFrame /\ encSample' = NoFrame
      /\ UNCHANGED <<nEncoded, item, feeder, base_pts, last>>
  BY DEF PushEncodedSample, rtspVars, feederVars, mediaVars
<1>2. \A i \in 1 .. Len(enc_q_'.items) :
        /\ enc_q_'.items[i].pts = PtsOf(enc_q_'.items[i].n)
        /\ base_pts # NoPts => base_pts < enc_q_'.items[i].pts
  BY <1>1, PushedItems DEF TimeInv, Stamped, Based
<1> QED BY <1>1, <1>2 DEF TimeInv, Stamped, Based, Relative, Holding

\* pop() hands the front's timestamp to the feeder.
LEMMA TimePopped ==
  ASSUME IInv, TimeInv, FeederPop
  PROVE  TimeInv'
<1> DEFINE q == enc_q_.items
<1>1. q \in Seq(Frames)
  BY DEF IInv, FeedInv, PipelineTypeOK
<1>2. UNCHANGED <<encSample, nEncoded, base_pts, last>>
  BY DEF FeederPop, streamVars, mediaVars
<1>3. CASE HasItem(enc_q_)
  <2>1. /\ q # <<>> /\ item' = q[1] /\ 1 \in 1 .. Len(q)
        /\ enc_q_' = [enc_q_ EXCEPT !.items = Tail(q)]
    BY <1>1, <1>3 DEF FeederPop, HasItem, FrontOf, WithoutFront
  <2>2. enc_q_'.items = Tail(q)
    BY <2>1 DEF IInv, FeedInv, PipelineTypeOK
  <2>3. \A i \in 1 .. Len(Tail(q)) : Tail(q)[i] = q[i + 1] /\ i + 1 \in 1 .. Len(q)
    BY <1>1, <2>1
  <2> QED BY <1>2, <2>1, <2>2, <2>3 DEF TimeInv, Stamped, Based, Relative
<1>4. CASE ~HasItem(enc_q_)
  <2>1. UNCHANGED <<item, enc_q_>> /\ feeder' = "exited"
    BY <1>4 DEF FeederPop, FeederGoto
  <2> QED BY <1>2, <2>1, TimeQuiet DEF Holding
<1> QED BY <1>3, <1>4

\* The push sets the base once; what it stamps is relative to it and larger than
\* what this appsrc took before.
LEMMA TimeFed ==
  ASSUME IInv, TimeInv, FeederPush, UNCHANGED pipelineVars
  PROVE  /\ TimeInv'
         /\ \A m \in Media :
              (last'[m] # last[m] /\ last[m] # NoBuffer) =>
                last'[m].n > last[m].n /\ last'[m].pts > last[m].pts
<1>1. /\ feeder = "push" /\ feeder' = "check" /\ base_pts' = Base /\ src \in Media
      /\ Holding /\ ~Holding'
  BY DEF IInv, FeedInv, FeederPush, FeederGoto, Places, RtspTypeOK, Holding
<1>2. /\ item \in Frames /\ item.n \in Nat /\ item.pts \in 0 .. MaxEncoded + 1
      /\ item.n > 0 /\ item.n <= nEncoded /\ nEncoded \in Nat /\ base_pts \in Nat
      /\ last \in [Media -> Frames] /\ \A m \in Media : last[m].n \in Nat
  BY <1>1, FrameNumbers
  DEF IInv, FeedInv, RtspTypeOK, Places, InOrder, Ahead, PipelineTypeOK, NoPts
<1>3. item.pts = PtsOf(item.n) /\ (base_pts # NoPts => base_pts < item.pts)
  BY <1>1 DEF TimeInv, Stamped, Based
<1>4. /\ Base # NoPts /\ Base \in Nat /\ Base <= item.pts
      /\ base_pts # NoPts => Base = base_pts
  BY <1>2, <1>3 DEF Base, NoPts
<1>5. Stamped'
  BY <1>1 DEF TimeInv, Stamped, pipelineVars
<1>6. Based'
  <2>1. \A n \in Nat : item.n < n => item.pts < PtsOf(n)
    BY <1>2, <1>3, PtsOrder
  <2>2. item.pts <= PtsOf(nEncoded) /\ PtsOf(nEncoded) \in Int
    BY <1>2, <1>3, PtsOrder
  <2>3. encSample # NoFrame => item.pts < encSample.pts /\ encSample.pts \in Int
    BY <2>1, FrameNumbers
    DEF IInv, FeedInv, PipelineTypeOK, InOrder, Ahead, TimeInv, Stamped
  <2>4. \A i \in 1 .. Len(enc_q_.items) :
          item.pts < enc_q_.items[i].pts /\ enc_q_.items[i].pts \in Int
    <3>1. \A i \in 1 .. Len(enc_q_.items) : enc_q_.items[i] \in Frames
      BY DEF IInv, FeedInv, PipelineTypeOK
    <3>2. \A i \in 1 .. Len(enc_q_.items) : item.n < enc_q_.items[i].n
      BY DEF IInv, FeedInv, InOrder, Ahead
    <3> QED BY <2>1, <3>1, <3>2, FrameNumbers DEF TimeInv, Stamped
  <2> QED BY <1>1, <1>2, <1>4, <2>2, <2>3, <2>4 DEF Based, pipelineVars
<1>7. CASE FeederPushFlushing
  <2>1. last' = last
    BY <1>7 DEF FeederPushFlushing
  <2> QED BY <1>1, <1>4, <1>5, <1>6, <2>1 DEF TimeInv, Relative
<1>8. CASE FeederPushOK
  <2>1. PICK pts \in Stamps(Base) :
          last' = [last EXCEPT ![src] = [n |-> item.n, key |-> item.key, pts |-> pts]]
    BY <1>8 DEF FeederPushOK
  <2>2. pts = item.pts - Base
    BY <1>2, <1>4 DEF Stamps
  <2>3. /\ last'[src].n = item.n /\ last'[src].pts = item.pts - Base
        /\ \A m \in Media \ {src} : last'[m] = last[m]
    BY <1>1, <1>2, <2>1, <2>2
  <2>4. Relative'
    <3> SUFFICES ASSUME NEW m \in Media, last'[m] # NoBuffer
                 PROVE  base_pts' # NoPts /\ last'[m].pts = PtsOf(last'[m].n) - base_pts'
      BY DEF Relative
    <3>1. CASE m = src
      BY <1>1, <1>3, <1>4, <2>3, <3>1
    <3>2. CASE m # src
      BY <1>1, <1>4, <2>3, <3>2 DEF TimeInv, Relative
    <3> QED BY <3>1, <3>2
  <2>5. ASSUME last[src] # NoBuffer
        PROVE  last'[src].n > last[src].n /\ last'[src].pts > last[src].pts
    <3>1. last[src].n < item.n
      BY <1>1 DEF IInv, FeedInv, InOrder
    <3>2. PtsOf(last[src].n) < item.pts /\ PtsOf(last[src].n) \in Int
      BY <1>1, <1>2, <1>3, <3>1, PtsOrder
    <3>3. base_pts # NoPts /\ last[src].pts = PtsOf(last[src].n) - base_pts
      BY <1>1, <2>5 DEF TimeInv, Relative
    <3> QED BY <1>1, <1>2, <1>4, <2>3, <3>1, <3>2, <3>3
  <2> QED BY <1>5, <1>6, <2>3, <2>4, <2>5 DEF TimeInv
<1> QED BY <1>7, <1>8 DEF FeederPush

\* Every step keeps the timestamps in order and feeds in order.
LEMMA NextTime ==
  ASSUME PtsValidity # BOOLEAN, IInv, TimeInv, [Next]_vars
  PROVE  /\ TimeInv'
         /\ \A m \in Media :
              (last'[m] # last[m] /\ last[m] # NoBuffer) =>
                last'[m].n > last[m].n /\ last'[m].pts > last[m].pts
<1>1. CASE OwnerStep
  <2>1. /\ UNCHANGED <<encSample, nEncoded, base_pts, last, item>>
        /\ enc_q_'.items = enc_q_.items
    <3>1. CASE ShutdownClose("shutdown_close", "shutdown_join")
      BY <3>1 DEF ShutdownClose, CloseQueue, rtspVars, feederVars, mediaVars, streamVars,
                  IInv, FeedInv, PipelineTypeOK
    <3> QED
      BY <1>1, <3>1
      DEF OwnerStep, Build, Attach, Start, ShutdownBegin, ShutdownJoin, ShutdownRelease,
          OnPipeline, OnServer, pipelineVars, streamVars, rtspVars, feederVars, mediaVars
  <2>2. Holding' => Holding
    BY <1>1 DEF OwnerStep, Build, Attach, Start, ShutdownBegin, ShutdownClose,
                ShutdownJoin, ShutdownRelease, OnPipeline, OnServer, rtspVars,
                feederVars, Holding
  <2> QED BY <2>1, <2>2, TimeQuiet
<1>2. CASE StreamStep
  <2>1. last' = last
    BY <1>2 DEF StreamStep, rtspVars, mediaVars
  <2> QED BY <1>2, <2>1, TimeNewSample, TimePushed DEF StreamStep
<1>3. CASE FeederPop
  BY <1>3, TimePopped DEF FeederPop, mediaVars
<1>4. CASE (FeederCheck \/ FeederGate \/ FeederGrab) /\ OnServer
  <2>1. UNCHANGED <<encSample, nEncoded, base_pts, last, enc_q_>>
    BY <1>4 DEF FeederCheck, FeederGate, FeederGrab, OnServer, pipelineVars, mediaVars
  <2>2. Holding' => Holding /\ item' = item
    BY <1>4 DEF FeederCheck, FeederGate, FeederGrab, FeederGoto, Holding
  <2> QED BY <2>1, <2>2, TimeQuiet
<1>5. CASE FeederPush /\ OnServer
  BY <1>5, TimeFed DEF OnServer
<1>6. CASE MediaStep \/ Ended \/ UNCHANGED vars
  <2>1. UNCHANGED <<encSample, nEncoded, base_pts, last, enc_q_, item, feeder>>
    BY <1>6 DEF MediaStep, Ended, vars, ClientConnects, OnMediaConfigure,
       OnMediaConfigured, ClientPull, OnNeedData, MediaUnprepare, MediaFinalize,
       OnServer, pipelineVars, rtspVars, feederVars, mediaVars
  <2> QED BY <2>1, TimeQuiet DEF Holding
<1> QED BY <1>1, <1>2, <1>3, <1>4, <1>5, <1>6 DEF Next, FeederStep, FeederLocal

\* What one appsrc accepts has increasing frame numbers and timestamps, through
\* evictions, skipped frames and changes of media, when the encoder's samples all
\* carry a timestamp or none does.
THEOREM FedInOrderHolds ==
  ASSUME PtsValidity # BOOLEAN
  PROVE  Spec => FedInOrder
<1>1. Init => TimeInv
  BY DEF Init, PipelineInit, RtspInit, TimeInv, Stamped, Based, Relative, EmptyQueue,
         Holding
<1>2. IInv /\ TimeInv /\ [Next]_vars => TimeInv'
  BY NextTime
<1>3. IInv /\ TimeInv /\ [Next]_vars =>
        [\A m \in Media :
           (last'[m] # last[m] /\ last[m] # NoBuffer) =>
             /\ last'[m].n > last[m].n
             /\ last'[m].pts > last[m].pts]_last
  BY NextTime
<1> QED BY <1>1, <1>2, <1>3, InvariantHolds, PTL DEF Spec, FedInOrder
==============================================================================

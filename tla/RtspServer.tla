------------------------------ MODULE RtspServer ------------------------------
(***************************************************************************)
(* gstpipe::RtspServer (include/gstpipe/rtsp_server.hpp,                   *)
(* src/rtsp_server.cpp): the feeder thread that moves encoded frames from  *)
(* the pipeline's queue into the appsrc of the current media, the callbacks*)
(* that gst-rtsp-server runs when clients come and go, and attach() /      *)
(* shutdown().                                                             *)
(*                                                                         *)
(* External: gst-rtsp-server and appsrc.  The factory is shared, so one    *)
(* media serves all clients; when the last one leaves, that media is torn  *)
(* down (its appsrc answers FLUSHING, then its bin drops its reference)    *)
(* and the next client gets a new one.  Media callbacks run on the server's*)
(* own threads.  appsrc has block=false: a push into a full one emits      *)
(* enough-data from the pushing thread and queues the buffer all the same; *)
(* need-data is emitted once each time its streaming thread finds it empty.*)
(***************************************************************************)
EXTENDS Pipeline

CONSTANTS MaxMedia,   \* bound: media configured in a behaviour
          AppsrcMax   \* appsrc max-bytes, counted in buffers

ASSUME MediaAssumption == MaxMedia \in Nat /\ AppsrcMax \in Nat \ {0}

Media == 1 .. MaxMedia
NoMedia == 0
NoPts == MaxEncoded + 2   \* GST_CLOCK_TIME_NONE, larger than every timestamp

VARIABLES server_, source_id_, running_, feeding_, appsrc_, served_,
          feeder,       \* the feeder thread: its place in feeder_loop
          item, src,    \* its locals, reset at the end of an iteration
          base_pts,
          configuring,  \* the media whose on_media_configure has published its
                        \* appsrc and not yet returned
          connected,    \* some client's connection has been accepted
          media,        \* what the server library has made of each media
          refs,         \* references on each media's appsrc, the bin's included
          level,        \* buffers queued in each appsrc
          asked,        \* the appsrc has emitted need-data and is waiting
          last,         \* history: the buffer each appsrc accepted last
          overfed       \* history: delta frames accepted by a full appsrc since
                        \* the gate was last opened

feederVars == <<feeder, item, src, base_pts>>
mediaVars == <<connected, media, level, asked, last>>
rtspVars ==
  <<server_, source_id_, running_, feeding_, appsrc_, served_, feederVars,
    configuring, refs, overfed, mediaVars>>

NoBuffer == [n |-> 0, key |-> FALSE, pts |-> 0]

RtspTypeOK ==
  /\ {server_, source_id_, running_, feeding_} \subseteq BOOLEAN
  /\ appsrc_ \in Media \cup {NoMedia}
  /\ served_ \in 0 .. MaxEncoded
  /\ feeder \in {"none", "check", "pop", "gate", "grab", "push", "exited"}
  /\ item \in Frames
  /\ src \in Media \cup {NoMedia}
  /\ base_pts \in 0 .. NoPts
  /\ configuring \in Media \cup {NoMedia}
  /\ connected \in BOOLEAN
  /\ media \in [Media -> {"absent", "live", "flushing", "gone"}]
  /\ refs \in [Media -> 0 .. 4]
  /\ level \in [Media -> 0 .. MaxEncoded]
  /\ asked \in [Media -> BOOLEAN]
  /\ last \in [Media -> Frames]
  /\ overfed \in 0 .. MaxEncoded

RtspInit ==
  /\ server_ = FALSE /\ source_id_ = FALSE /\ running_ = FALSE
  /\ feeding_ = FALSE /\ appsrc_ = NoMedia /\ served_ = 0
  /\ feeder = "none" /\ item = NoFrame /\ src = NoMedia /\ base_pts = NoPts
  /\ configuring = NoMedia
  /\ connected = FALSE
  /\ media = [m \in Media |-> "absent"]
  /\ refs = [m \in Media |-> 0]
  /\ level = [m \in Media |-> 0]
  /\ asked = [m \in Media |-> FALSE]
  /\ last = [m \in Media |-> NoBuffer]
  /\ overfed = 0

Ref(r, m) == [r EXCEPT ![m] = @ + 1]
Unref(r, m) == IF m = NoMedia THEN r ELSE [r EXCEPT ![m] = @ - 1]

-------------------------------------------------------------------------------
(* attach() and shutdown(): the owning thread *)

\* The server listens and the feeder thread runs.
Attach(from, to) ==
  /\ Goto(from, to)
  /\ server_' = TRUE /\ source_id_' = TRUE /\ running_' = TRUE
  /\ feeder' = "check"
  /\ UNCHANGED <<feeding_, appsrc_, served_, item, src, base_pts, configuring, refs,
                 overfed, mediaVars>>

\* gst_rtsp_server_attach returned 0: attach() returns without a feeder.
AttachRefused(from, to) ==
  /\ Goto(from, to)
  /\ server_' = TRUE
  /\ UNCHANGED <<source_id_, running_, feeding_, appsrc_, served_, feederVars,
                 configuring, refs, overfed, mediaVars>>

\* The feeder thread cannot be created: attach() throws with running_ set.  In the
\* variant running_ is set after the thread is made.
AttachThrowsUnmarked(from, to) ==
  /\ Goto(from, to)
  /\ server_' = TRUE /\ source_id_' = TRUE
  /\ UNCHANGED <<running_, feeding_, appsrc_, served_, feederVars, configuring, refs,
                 overfed, mediaVars>>
AttachThrows(from, to) ==
  /\ Goto(from, to)
  /\ server_' = TRUE /\ source_id_' = TRUE /\ running_' = TRUE
  /\ UNCHANGED <<feeding_, appsrc_, served_, feederVars, configuring, refs, overfed,
                 mediaVars>>

\* shutdown() when the server is not running: returns at once.
ShutdownNothing(from, to) ==
  /\ Goto(from, to)
  /\ ~running_
  /\ UNCHANGED rtspVars

\* running_.exchange(false) ...
ShutdownBegin(from, to) ==
  /\ Goto(from, to)
  /\ running_
  /\ running_' = FALSE
  /\ UNCHANGED <<server_, source_id_, feeding_, appsrc_, served_, feederVars,
                 configuring, refs, overfed, mediaVars>>

\* ... source_.close(), which wakes a blocked feeder; the variant forgets it ...
ShutdownCloseNever(from, to) ==
  /\ Goto(from, to)
  /\ UNCHANGED pipelineVars /\ UNCHANGED rtspVars
ShutdownClose(from, to) ==
  /\ Goto(from, to)
  /\ enc_q_' = CloseQueue(enc_q_)
  /\ UNCHANGED <<pipeline_, bus_watch_, raw_q_, streamVars>>
  /\ UNCHANGED rtspVars

\* ... the join, when there is a thread to join ...
ShutdownJoin(from, to) ==
  /\ Goto(from, to)
  /\ feeder \in {"none", "exited"}
  /\ UNCHANGED rtspVars

\* ... and the listening source, the appsrc and the server are released.
ShutdownRelease(from, to) ==
  /\ Goto(from, to)
  /\ source_id_' = FALSE
  /\ server_' = FALSE
  /\ appsrc_' = NoMedia
  /\ refs' = Unref(refs, appsrc_)
  /\ UNCHANGED <<running_, feeding_, served_, feederVars, configuring, overfed,
                 mediaVars>>

-------------------------------------------------------------------------------
(* Media callbacks: the threads of the server library *)

\* A client connects; the main loop accepts it while the server listens.  From
\* then on the library's threads serve it, during and after shutdown() too.
ClientConnects(loop) ==
  /\ main = loop
  /\ source_id_ /\ ~connected
  /\ connected' = TRUE
  /\ UNCHANGED <<server_, source_id_, running_, feeding_, appsrc_, served_,
                 feederVars, configuring, refs, overfed, media, level, asked, last>>

\* on_media_configure up to the end of its locked block: the bin's reference, the
\* handler's own, and the one appsrc_ keeps; the previous appsrc_ loses its own.
\* The handler's early return for a media without "vsrc" cannot happen: the
\* launch line of attach() names it.
OnMediaConfigure(m) ==
  /\ connected
  /\ media[m] = "absent"
  /\ \A k \in Media : media[k] # "live" /\ (k < m => media[k] # "absent")
  /\ configuring = NoMedia
  /\ media' = [media EXCEPT ![m] = "live"]
  /\ refs' = [Unref(refs, appsrc_) EXCEPT ![m] = 3]
  /\ appsrc_' = m
  /\ configuring' = m
  /\ UNCHANGED <<server_, source_id_, running_, feeding_, served_, feederVars,
                 connected, level, asked, last, overfed>>

\* The rest of it: the gate opens and the handler's reference goes.
OnMediaConfigured(m) ==
  /\ configuring = m
  /\ configuring' = NoMedia
  /\ feeding_' = TRUE
  /\ overfed' = 0
  /\ refs' = Unref(refs, m)
  /\ UNCHANGED <<server_, source_id_, running_, appsrc_, served_, feederVars,
                 mediaVars>>

\* The appsrc's streaming thread takes a buffer for the clients.
ClientPull(m) ==
  /\ media[m] = "live" /\ level[m] > 0
  /\ level' = [level EXCEPT ![m] = @ - 1]
  /\ asked' = [asked EXCEPT ![m] = FALSE]
  /\ UNCHANGED <<server_, source_id_, running_, feeding_, appsrc_, served_,
                 feederVars, configuring, refs, overfed, connected, media, last>>

\* on_need_data, from the streaming thread of an empty appsrc.
OnNeedData(m) ==
  /\ media[m] = "live" /\ level[m] = 0 /\ ~asked[m]
  /\ asked' = [asked EXCEPT ![m] = TRUE]
  /\ feeding_' = TRUE
  /\ overfed' = 0
  /\ UNCHANGED <<server_, source_id_, running_, appsrc_, served_, feederVars,
                 configuring, refs, connected, media, level, last>>

\* The last client leaves: the media is unprepared, then finalised.
MediaUnprepare(m) ==
  /\ media[m] = "live" /\ configuring # m
  /\ media' = [media EXCEPT ![m] = "flushing"]
  /\ level' = [level EXCEPT ![m] = 0]
  /\ UNCHANGED <<server_, source_id_, running_, feeding_, appsrc_, served_,
                 feederVars, configuring, refs, overfed, connected, asked, last>>

MediaFinalize(m) ==
  /\ media[m] = "flushing"
  /\ media' = [media EXCEPT ![m] = "gone"]
  /\ refs' = Unref(refs, m)
  /\ UNCHANGED <<server_, source_id_, running_, feeding_, appsrc_, served_,
                 feederVars, configuring, overfed, connected, level, asked, last>>

-------------------------------------------------------------------------------
(* feeder_loop *)

FeederGoto(from, to) == feeder = from /\ feeder' = to

FeederCheck ==
  /\ FeederGoto("check", IF running_ THEN "pop" ELSE "exited")
  /\ UNCHANGED <<server_, source_id_, running_, feeding_, appsrc_, served_, item, src,
                 base_pts, configuring, refs, overfed, mediaVars>>

\* source_.pop(): a frame, or nullopt from a closed and drained queue.
FeederPop ==
  /\ CanPop(enc_q_)
  /\ \/ /\ HasItem(enc_q_)
        /\ FeederGoto("pop", "gate")
        /\ item' = FrontOf(enc_q_)
        /\ enc_q_' = WithoutFront(enc_q_)
     \/ /\ ~HasItem(enc_q_)
        /\ FeederGoto("pop", "exited")
        /\ UNCHANGED <<item, enc_q_>>
  /\ UNCHANGED <<pipeline_, bus_watch_, raw_q_, streamVars>>
  /\ UNCHANGED <<server_, source_id_, running_, feeding_, appsrc_, served_, src,
                 base_pts, configuring, refs, overfed, mediaVars>>

\* The need-data / enough-data gate: closed, it lets keyframes through only.
GatePasses == feeding_ \/ item.key

FeederGate ==
  /\ FeederGoto("gate", IF GatePasses THEN "grab" ELSE "check")
  /\ item' = IF GatePasses THEN item ELSE NoFrame
  /\ UNCHANGED <<server_, source_id_, running_, feeding_, appsrc_, served_, src,
                 base_pts, configuring, refs, overfed, mediaVars>>

\* Under appsrc_mtx_, a reference of the feeder's own; the variant takes none.
GrabbedNoRef == refs
Grabbed == Ref(refs, appsrc_)

FeederGrab ==
  /\ \/ /\ appsrc_ = NoMedia
        /\ FeederGoto("grab", "check")
        /\ item' = NoFrame
        /\ UNCHANGED <<src, refs>>
     \/ /\ appsrc_ # NoMedia
        /\ FeederGoto("grab", "push")
        /\ src' = appsrc_
        /\ refs' = Grabbed
        /\ UNCHANGED item
  /\ UNCHANGED <<server_, source_id_, running_, feeding_, appsrc_, served_, base_pts,
                 configuring, overfed, mediaVars>>

\* base_pts is set once, by the first frame fed; the variant starts again at
\* every keyframe.
BaseAtKeyframe == IF base_pts = NoPts \/ item.key THEN item.pts ELSE base_pts
Base == IF base_pts = NoPts THEN item.pts ELSE base_pts

\* The timestamps the buffer may get: relative to the base, or the wall clock
\* since the thread started when the source's timestamps stepped back.
Stamps(base) ==
  IF item.pts >= base THEN {item.pts - base} ELSE 0 .. MaxEncoded

AppsrcFull == level[src] >= AppsrcMax

\* appsrc takes the buffer (OK): a full one first emits enough-data, which runs
\* on_enough_data in this thread; the variant ignores the signal.
EnoughDataIgnored == feeding_
AfterEnoughData == IF AppsrcFull THEN FALSE ELSE feeding_

FeederPushOK ==
  /\ media[src] = "live"
  /\ feeding_' = AfterEnoughData
  /\ level' = [level EXCEPT ![src] = @ + 1]
  /\ overfed' = IF AppsrcFull /\ ~item.key THEN overfed + 1 ELSE overfed
  /\ \E pts \in Stamps(Base) :
       last' = [last EXCEPT ![src] = [n |-> item.n, key |-> item.key, pts |-> pts]]
  /\ served_' = served_ + 1

\* appsrc of a media that is going away (FLUSHING): ignored.
FeederPushFlushing ==
  /\ media[src] # "live"
  /\ UNCHANGED <<feeding_, level, last, served_, overfed>>

FeederPush ==
  /\ FeederGoto("push", "check")
  /\ base_pts' = Base
  /\ FeederPushOK \/ FeederPushFlushing
  /\ refs' = Unref(refs, src)
  /\ src' = NoMedia
  /\ item' = NoFrame
  /\ UNCHANGED <<server_, source_id_, running_, appsrc_, configuring, connected,
                 media, asked>>

FeederLocal == FeederCheck \/ FeederGate \/ FeederGrab \/ FeederPush

-------------------------------------------------------------------------------
(* Properties of the feeding of media, whoever owns the server *)

One(b) == IF b THEN 1 ELSE 0

\* The references on every appsrc are exactly the ones somebody will release: the
\* media's bin, the running on_media_configure, appsrc_ and the feeder.  So the
\* feeder never pushes into a freed appsrc, however media come and go between its
\* locked block and its push, and nothing is released twice.
AppsrcRefsExact ==
  \A m \in Media :
    refs[m] = One(media[m] \in {"live", "flushing"}) + One(configuring = m)
                + One(appsrc_ = m) + One(src = m)

\* What one appsrc accepts has increasing frame numbers and increasing
\* timestamps, through evictions, skipped frames and changes of media, as long
\* as the encoder's samples all carry a timestamp or none does.
FedInOrder ==
  [][\A m \in Media :
       (last'[m] # last[m] /\ last[m] # NoBuffer) =>
         /\ last'[m].n > last[m].n
         /\ last'[m].pts > last[m].pts]_last

\* Back-pressure on delta frames: each opening of the gate (need-data, or the end
\* of on_media_configure) lets at most one delta frame into an appsrc that is
\* already full; its enough-data shuts the gate for the ones behind it.
OneDeltaPerOpening == overfed <= 1

\* What the header of RtspServer says: the need-data / enough-data signals keep
\* the data buffered in the server bounded (one buffer may overshoot the limit,
\* and one more while the gate is being opened).
AppsrcBounded == \A m \in Media : level[m] <= AppsrcMax + 2
===============================================================================

------------------------------- MODULE Pipeline -------------------------------
(***************************************************************************)
(* gstpipe::Pipeline (include/gstpipe/pipeline.hpp, src/pipeline.cpp): the *)
(* GStreamer capture graph and the two appsink callbacks that feed the     *)
(* encoded and the raw queue.                                              *)
(*                                                                         *)
(* Each branch has a streaming thread of its own.  A callback is two       *)
(* steps, pulling and copying the sample and pushing it into the queue, so *)
(* that stop() and the consumers interleave with it.  Setting the graph to *)
(* NULL starts no new callback and completes when the running ones have    *)
(* returned, which is what gst_element_set_state does (external).          *)
(*                                                                         *)
(* main is the program counter of the thread that owns the object; the     *)
(* operations take the label they start from and the one they go to, and   *)
(* GstPipe.tla supplies the labels of main().                              *)
(***************************************************************************)
EXTENDS FrameQueueOps

CONSTANTS EncCapacity,   \* PipelineConfig::enc_queue_capacity
          RawCapacity,   \* PipelineConfig::raw_queue_capacity
          PtsValidity,   \* what GST_BUFFER_PTS_IS_VALID may say of a sample
          MaxEncoded,    \* bound: samples of the encoder branch
          MaxRaw         \* bound: samples of the raw branch

ASSUME QueueCapacityAssumption ==
  EncCapacity \in Nat \ {0} /\ RawCapacity \in Nat \ {0}
ASSUME SampleBoundAssumption == MaxEncoded \in Nat /\ MaxRaw \in Nat
ASSUME PtsValidityAssumption == PtsValidity \in (SUBSET BOOLEAN) \ {{}}

NoFrame == [n |-> 0, key |-> FALSE, pts |-> 0]

VARIABLES main,
          pipeline_,     \* "none" is nullptr, otherwise the state of the graph
          bus_watch_,
          enc_q_, raw_q_,
          pts_counter_,
          encSample,     \* the frame on_new_encoded_sample is about to push
          rawSample,     \* the number of the frame on_new_raw_sample is to push
          nEncoded, nRaw \* samples pulled so far: the n-th one is frame n

pipelineVars ==
  <<pipeline_, bus_watch_, enc_q_, raw_q_, pts_counter_, encSample, rawSample,
    nEncoded, nRaw>>
streamVars == <<pts_counter_, encSample, rawSample, nEncoded, nRaw>>

Frames == [n : 0 .. MaxEncoded, key : BOOLEAN, pts : 0 .. MaxEncoded + 1]

PipelineTypeOK ==
  /\ pipeline_ \in {"none", "null", "playing", "stopping"}
  /\ bus_watch_ \in BOOLEAN
  /\ enc_q_ \in [items : Seq(Frames), closed : BOOLEAN]
  /\ raw_q_ \in [items : Seq(1 .. MaxRaw), closed : BOOLEAN]
  /\ pts_counter_ \in 0 .. MaxEncoded
  /\ encSample \in Frames
  /\ rawSample \in 0 .. MaxRaw
  /\ nEncoded \in 0 .. MaxEncoded /\ nRaw \in 0 .. MaxRaw

PipelineInit ==
  /\ pipeline_ = "none" /\ bus_watch_ = FALSE
  /\ enc_q_ = EmptyQueue /\ raw_q_ = EmptyQueue
  /\ pts_counter_ = 0
  /\ encSample = NoFrame /\ rawSample = 0
  /\ nEncoded = 0 /\ nRaw = 0

Goto(from, to) == main = from /\ main' = to

-------------------------------------------------------------------------------
(* build(), start(), stop(), the destructor: the owning thread *)

\* build() succeeds: every element made, added, linked, and the bus watched.
Build(from, to) ==
  /\ Goto(from, to)
  /\ pipeline_' = "null"
  /\ bus_watch_' = TRUE
  /\ UNCHANGED <<enc_q_, raw_q_, streamVars>>

\* build() throws: before gst_pipeline_new has returned (no encoder element, no
\* pipeline), or after it (an element, a link or a tee pad fails) with pipeline_
\* already set and no bus watch yet.
BuildThrows(from, to) ==
  /\ Goto(from, to)
  /\ pipeline_' \in {"none", "null"}
  /\ UNCHANGED <<bus_watch_, enc_q_, raw_q_, streamVars>>

Start(from, to) ==
  /\ Goto(from, to)
  /\ pipeline_' = "playing"
  /\ UNCHANGED <<bus_watch_, enc_q_, raw_q_, streamVars>>

\* The state change to PLAYING fails: start() throws.
StartThrows(from, to) ==
  /\ Goto(from, to)
  /\ UNCHANGED pipelineVars

\* stop() on a pipeline that was never built returns at once.
StopNothing(from, to) ==
  /\ Goto(from, to)
  /\ pipeline_ = "none"
  /\ UNCHANGED pipelineVars

\* stop() asks for GST_STATE_NULL ...
StopSetNull(from, to) ==
  /\ Goto(from, to)
  /\ pipeline_ # "none"
  /\ pipeline_' = "stopping"
  /\ UNCHANGED <<bus_watch_, enc_q_, raw_q_, streamVars>>

\* ... the call returns once the streaming threads are out of the callbacks ...
NullReached == pipeline_ = "stopping" /\ encSample = NoFrame /\ rawSample = 0

StopNullDone(from, to) ==
  /\ Goto(from, to)
  /\ NullReached
  /\ pipeline_' = "null"
  /\ UNCHANGED <<bus_watch_, enc_q_, raw_q_, streamVars>>

\* ... and the two queues are closed, one after the other.
StopCloseEnc(from, to) ==
  /\ Goto(from, to)
  /\ enc_q_' = CloseQueue(enc_q_)
  /\ UNCHANGED <<pipeline_, bus_watch_, raw_q_, streamVars>>

StopCloseRaw(from, to) ==
  /\ Goto(from, to)
  /\ raw_q_' = CloseQueue(raw_q_)
  /\ UNCHANGED <<pipeline_, bus_watch_, enc_q_, streamVars>>

\* ~Pipeline after its stop(): the bus watch and the graph are released.
ReleasePipeline(from, to) ==
  /\ Goto(from, to)
  /\ bus_watch_' = FALSE
  /\ pipeline_' = "none"
  /\ UNCHANGED <<enc_q_, raw_q_, streamVars>>

-------------------------------------------------------------------------------
(* The appsink callbacks: the streaming threads *)

\* The running time of the n-th sample, in frame periods.
CaptureTime(n) == n + 1

\* on_new_encoded_sample pulls and copies a sample.  The synthetic timestamp is
\* always drawn from pts_counter_ and replaced by the buffer's own when valid.
\* The latency it records goes to LatencyTracker and influences nothing here.
OnNewEncodedSample ==
  /\ pipeline_ = "playing"
  /\ encSample = NoFrame
  /\ nEncoded < MaxEncoded
  /\ nEncoded' = nEncoded + 1
  /\ pts_counter_' = pts_counter_ + 1
  /\ \E key \in BOOLEAN, valid \in PtsValidity :
       encSample' = [n |-> nEncoded + 1, key |-> key,
                     pts |-> IF valid THEN CaptureTime(nEncoded + 1)
                                      ELSE pts_counter_]
  /\ UNCHANGED <<pipeline_, bus_watch_, enc_q_, raw_q_, rawSample, nRaw>>

PushEncodedSample ==
  /\ encSample # NoFrame
  /\ enc_q_' = PushTo(enc_q_, EncCapacity, encSample)
  /\ encSample' = NoFrame
  /\ UNCHANGED <<pipeline_, bus_watch_, raw_q_, pts_counter_, rawSample, nEncoded,
                 nRaw>>

OnNewRawSample ==
  /\ pipeline_ = "playing"
  /\ rawSample = 0
  /\ nRaw < MaxRaw
  /\ nRaw' = nRaw + 1
  /\ rawSample' = nRaw + 1
  /\ UNCHANGED <<pipeline_, bus_watch_, enc_q_, raw_q_, pts_counter_, encSample,
                 nEncoded>>

PushRawSample ==
  /\ rawSample # 0
  /\ raw_q_' = PushTo(raw_q_, RawCapacity, rawSample)
  /\ rawSample' = 0
  /\ UNCHANGED <<pipeline_, bus_watch_, enc_q_, pts_counter_, encSample, nEncoded,
                 nRaw>>
===============================================================================

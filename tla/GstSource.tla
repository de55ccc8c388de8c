------------------------------ MODULE GstSource ------------------------------
(***************************************************************************)
(* edge_ai::GstSource and edge_ai::Frame (src/gst_source.cpp): the capture *)
(* front end of the detector.  next() pulls a sample from the appsink and  *)
(* wraps it in a Frame, which owns one reference on the sample and one     *)
(* mapping of its buffer until it is destroyed.  Samples are frame numbers.*)
(* The counters pulled_ and drops_, which nothing reads, are left out.     *)
(***************************************************************************)
EXTENDS Naturals, Sequences

CONSTANT MaxFrames   \* bound: frames the camera delivers

ASSUME FramesAssumption == MaxFrames \in Nat

VARIABLES pipeline_,  \* "none", or the state of the pipeline the source owns
          appsink_,   \* whether the source holds its reference on the appsink
          frame,      \* the loop's Frame: its sample_ (0: null) and whether data_ is set
          camera,     \* external: the number of the latest frame captured
          eos,        \* external: the appsink has seen end-of-stream
          sink,       \* external: the samples waiting in the appsink
          held,       \* external: the samples the program holds a reference on
          mapped      \* external: the samples whose buffer is mapped

sourceVars == <<pipeline_, appsink_, frame, camera, eos, sink, held, mapped>>

\* max-buffers of the appsink.
SinkBuffers == 2

NoSample == [sample_ |-> 0, data_ |-> FALSE]

SourceInit ==
  /\ pipeline_ = "none" /\ appsink_ = FALSE /\ frame = NoSample
  /\ camera = 0 /\ eos = FALSE /\ sink = <<>> /\ held = {} /\ mapped = {}

-------------------------------------------------------------------------------
(* start() and stop() *)

SourceStarts ==
  /\ pipeline_' = "playing"
  /\ appsink_' = TRUE
  /\ UNCHANGED <<frame, camera, eos, sink, held, mapped>>

\* gst_parse_launch fails, with or without a pipeline; the appsink is not found;
\* or PLAYING is not reached.  What was made stays in the members.
SourceStartThrows ==
  /\ \/ pipeline_' \in {"none", "null"} /\ appsink_' = FALSE
     \/ pipeline_' = "null" /\ appsink_' = TRUE
  /\ UNCHANGED <<frame, camera, eos, sink, held, mapped>>

SourceStop ==
  /\ appsink_' = FALSE
  /\ pipeline_' = "none"
  /\ sink' = <<>>
  /\ UNCHANGED <<frame, camera, eos, held, mapped>>

-------------------------------------------------------------------------------
(* next() and the Frame it returns *)

\* A sample is pulled; its buffer may lack caps or refuse the mapping.
NextSample ==
  /\ appsink_
  /\ sink # <<>>
  /\ LET n == Head(sink)
     IN  \E ok \in BOOLEAN :
           /\ frame' = [sample_ |-> n, data_ |-> ok]
           /\ held' = held \cup {n}
           /\ mapped' = IF ok THEN mapped \cup {n} ELSE mapped
  /\ sink' = Tail(sink)
  /\ UNCHANGED <<pipeline_, appsink_, camera, eos>>

\* No sample within the time-out, or end-of-stream: an invalid Frame.
NextInvalid ==
  /\ sink = <<>>
  /\ frame' = NoSample
  /\ UNCHANGED <<pipeline_, appsink_, camera, eos, sink, held, mapped>>

\* Frame::valid()
Valid == frame.sample_ # 0 /\ frame.data_

\* What release() leaves referenced; the variant unreferences mapped samples only.
UnreffedMapped == IF frame.data_ THEN held \ {frame.sample_} ELSE held
Unreffed == held \ {frame.sample_}

\* Frame::~Frame
FrameRelease ==
  /\ held' = Unreffed
  /\ mapped' = IF frame.data_ THEN mapped \ {frame.sample_} ELSE mapped
  /\ frame' = NoSample
  /\ UNCHANGED <<pipeline_, appsink_, camera, eos, sink>>

-------------------------------------------------------------------------------
(* The camera and the appsink *)

\* drop=true with max-buffers=2: a full appsink lets go of its oldest sample.
\* The variant keeps what it has.
SinkKeepsOld(n) == IF Len(sink) = SinkBuffers THEN sink ELSE Append(sink, n)
SinkWith(n) ==
  IF Len(sink) = SinkBuffers THEN Append(Tail(sink), n) ELSE Append(sink, n)

Capture ==
  /\ pipeline_ = "playing" /\ ~eos
  /\ camera < MaxFrames
  /\ camera' = camera + 1
  /\ sink' = SinkWith(camera + 1)
  /\ UNCHANGED <<pipeline_, appsink_, frame, eos, held, mapped>>

EndOfStream ==
  /\ pipeline_ = "playing" /\ ~eos
  /\ eos' = TRUE
  /\ UNCHANGED <<pipeline_, appsink_, frame, camera, sink, held, mapped>>
===============================================================================

------------------------------ MODULE TrtEngine ------------------------------
(***************************************************************************)
(* edge_ai::TrtEngine (src/trt_engine.cpp): the device buffers bound to the*)
(* I/O tensors of an engine, and infer(), which queues the copies and the  *)
(* network on a CUDA stream and waits for the stream.  The content of a    *)
(* buffer is the number of the frame it was computed from, 0 at first.     *)
(***************************************************************************)
EXTENDS Naturals, Sequences

CONSTANT Engines     \* engine files: the direction of each I/O tensor

ASSUME EnginesAssumption == Engines \subseteq Seq({"in", "out"})

VARIABLES model,      \* the engine that is deserialized
          bindings_,  \* number of tensors in bindings_, which are the first ones
          input_idx_, \* 0 for the code's -1
          stream_,    \* whether the stream and the events exist
          host,       \* content of the host copy of each tensor (outputs_)
          device,     \* external: content of each device buffer
          allocated,  \* external: tensors with device memory that is not freed
          queue       \* external: work queued on the stream

engineVars == <<model, bindings_, input_idx_, stream_, host, device, allocated, queue>>

Tensors == 1 .. Len(model)
IsInput(t) == model[t] = "in"

\* The bindings of outputs_: the loop pushes those that are not inputs, in order.
OutputsOf(m) ==
  LET upTo[n \in 0 .. Len(m)] ==
        IF n = 0 THEN <<>>
        ELSE IF m[n] = "in" THEN upTo[n - 1] ELSE Append(upTo[n - 1], n)
  IN  upTo[Len(m)]
Outputs == OutputsOf(model)

EngineInit ==
  /\ model \in Engines
  /\ bindings_ = 0 /\ input_idx_ = 0 /\ stream_ = FALSE
  /\ host = [t \in Tensors |-> 0]
  /\ device = [t \in Tensors |-> 0]
  /\ allocated = {} /\ queue = <<>>

-------------------------------------------------------------------------------
(* load() and allocate_bindings() *)

\* Up to the events.
LoadContext ==
  /\ stream_' = TRUE
  /\ UNCHANGED <<model, bindings_, input_idx_, host, device, allocated, queue>>

\* The file, the runtime, the engine, the context, the stream or an event fails.
LoadThrows ==
  /\ stream_' \in BOOLEAN
  /\ UNCHANGED <<model, bindings_, input_idx_, host, device, allocated, queue>>

\* One turn of the loop: memory for the next tensor, its address set, the binding
\* stored.
Bind ==
  /\ bindings_ < Len(model)
  /\ allocated' = allocated \cup {bindings_ + 1}
  /\ bindings_' = bindings_ + 1
  /\ UNCHANGED <<model, input_idx_, stream_, host, device, queue>>

\* setInputShape() or cudaMalloc() fails; or setTensorAddress() does, when the
\* memory is allocated and the binding not yet stored.
BindThrows ==
  /\ bindings_ < Len(model)
  /\ allocated' \in {allocated, allocated \cup {bindings_ + 1}}
  /\ UNCHANGED <<model, bindings_, input_idx_, stream_, host, device, queue>>

HasInput == \E t \in Tensors : IsInput(t)

\* The first input tensor is the one infer() fills.
ChooseInput ==
  /\ bindings_ = Len(model)
  /\ HasInput
  /\ input_idx_' = CHOOSE t \in Tensors : IsInput(t) /\ \A u \in 1 .. t - 1 : ~IsInput(u)
  /\ UNCHANGED <<model, bindings_, stream_, host, device, allocated, queue>>

ChooseInputThrows ==
  /\ bindings_ = Len(model)
  /\ ~HasInput
  /\ UNCHANGED engineVars

-------------------------------------------------------------------------------
(* infer() *)

ToDevice(n) == [op |-> "h2d", frame |-> n]
Run == [op |-> "enqueueV3"]
ToHost(t) == [op |-> "d2h", tensor |-> t]

CopiesBack == [i \in DOMAIN Outputs |-> ToHost(Outputs[i])]

\* What infer() queues for frame n.
Work(n) == <<ToDevice(n), Run>> \o CopiesBack

InferEnqueue(n) ==
  /\ queue' = queue \o Work(n)
  /\ UNCHANGED <<model, bindings_, input_idx_, stream_, host, device, allocated>>

\* The blob is too small, or a call fails after any number of others succeeded.
InferThrows(n) ==
  /\ \E k \in 0 .. Len(Work(n)) : queue' = queue \o SubSeq(Work(n), 1, k)
  /\ UNCHANGED <<model, bindings_, input_idx_, stream_, host, device, allocated>>

\* cudaStreamSynchronize; the variant does not wait.
SynchronizedAtOnce == TRUE
Synchronized == queue = <<>>

\* The stream does its work in order.
StreamStep ==
  /\ queue # <<>>
  /\ queue' = Tail(queue)
  /\ LET w == Head(queue)
     IN  \/ /\ w.op = "h2d"
            /\ device' = [device EXCEPT ![input_idx_] = w.frame]
            /\ UNCHANGED host
         \/ /\ w.op = "enqueueV3"
            /\ device' = [t \in Tensors |->
                            IF IsInput(t) THEN device[t] ELSE device[input_idx_]]
            /\ UNCHANGED host
         \/ /\ w.op = "d2h"
            /\ host' = [host EXCEPT ![w.tensor] = device[w.tensor]]
            /\ UNCHANGED device
  /\ UNCHANGED <<model, bindings_, input_idx_, stream_, allocated>>

-------------------------------------------------------------------------------
\* ~TrtEngine: cudaFree of each binding, which waits for the device to be idle,
\* then the events and the stream.
EngineDestroy ==
  /\ queue = <<>>
  /\ allocated' = allocated \ (1 .. bindings_)
  /\ bindings_' = 0
  /\ stream_' = FALSE
  /\ UNCHANGED <<model, input_idx_, host, device, queue>>
===============================================================================

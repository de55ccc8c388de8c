---------------------------- MODULE DetectorProofs ----------------------------
(***************************************************************************)
(* TLAPS proofs about the detector.                                        *)
(*                                                                         *)
(* DetectorNode, for every set of engines with any number of tensors in any*)
(* order, every number of frames and of detections and every byte range.   *)
(* The inductive invariant has a part for each component, tied together by *)
(* the program counter of the worker:                                      *)
(*   - Control: what is thrown, open and closed at each statement;         *)
(*   - Latest: the appsink holds the latest frames, in order;              *)
(*   - Owned: the Frame owns exactly what is referenced and mapped;        *)
(*   - Engine: which device memory is bound, and which is lost;            *)
(*   - Queued: what work the stream may hold at each statement;            *)
(*   - Computing: the work left on the stream, with what is already done,  *)
(*     ends with the frame's result in every output;                       *)
(*   - Burst: the CAN frames written so far are the beginning of a set.    *)
(*                                                                         *)
(* YoloPostprocess, for every frame size, input size and tensor: the       *)
(* letterbox, the reading of the tensor in either layout, the boxes in the *)
(* frame and what nms() keeps of them.  YoloInv says that the tensor reads *)
(* back as what was found, that raw is the end of the decode loop and keep *)
(* that of the pass over a sorted order; two inductions say what the ends  *)
(* of these loops are.                                                     *)
(*                                                                         *)
(* EngineBuilder, for every batch size and every contents of the directory:*)
(* BuilderInv says that the batches, joined, are the readable images before*)
(* the cursor, that every table and every file is a part of the table of   *)
(* one generation of the directory, and when it is the whole of it.        *)
(***************************************************************************)
EXTENDS DetectorNode, YoloPostprocess, EngineBuilder, Integers, WellFoundedInduction, FiniteSetTheorems, TLAPS

-------------------------------------------------------------------------------
(* Induction over the natural numbers, for the recursive function of Outputs *)

\* A non-empty set of numbers has a least one.
LEMMA LeastNumber ==
  ASSUME NEW T, T \subseteq Nat, T # {}
  PROVE  \E x \in T : \A y \in T : x <= y
<1>1. IsWellFoundedOn(OpToRel(<, Nat), Nat)
  BY NatLessThanWellFounded
<1>2. PICK x \in T : \A y \in T : ~(<<y, x>> \in OpToRel(<, Nat))
  BY <1>1, WFMin
<1>3. \A y \in T : x <= y
  <2> SUFFICES ASSUME NEW y \in T PROVE x <= y
    OBVIOUS
  <2>1. ~(<<y, x>> \in OpToRel(<, Nat)) /\ x \in Nat /\ y \in Nat
    BY <1>2
  <2>2. <<y, x>> \in OpToRel(<, Nat) <=> y < x
    BY <2>1 DEF OpToRel
  <2>3. ~(y < x)
    BY <2>1, <2>2, Zenon
  <2>4. x \in Nat /\ y \in Nat
    BY <1>2, Zenon
  <2> QED BY <2>3, <2>4
<1> QED BY <1>3

\* Induction, with a set of numbers for the predicate.
LEMMA Induction ==
  ASSUME NEW T, 0 \in T, \A n \in Nat : n \in T => n + 1 \in T
  PROVE  Nat \subseteq T
<1> SUFFICES ASSUME Nat \ T # {} PROVE FALSE
  OBVIOUS
<1>1. PICK x \in Nat \ T : \A y \in Nat \ T : x <= y
  BY LeastNumber
<1>2. x - 1 \in Nat /\ (x - 1) + 1 = x /\ ~(x <= x - 1)
  BY <1>1
<1> QED BY <1>1, <1>2

\* One turn of the loop that collects the outputs of an engine m.
OutputsStep(m, f, n) ==
  IF n = 0 THEN <<>> ELSE IF m[n] = "in" THEN f[n - 1] ELSE Append(f[n - 1], n)

\* The recursive function of OutputsOf exists.
LEMMA OutputsFunction ==
  ASSUME NEW m \in Seq({"in", "out"})
  PROVE  \E f : /\ f = [n \in 0 .. Len(m) |-> OutputsStep(m, f, n)]
                /\ OutputsOf(m) = f[Len(m)]
<1> DEFINE T == {k \in Nat : \E f : f = [n \in 0 .. k |-> OutputsStep(m, f, n)]}
<1>1. 0 \in T
  <2> DEFINE f == [n \in 0 .. 0 |-> <<>>]
  <2>1. \A n \in 0 .. 0 : n = 0
    OBVIOUS
  <2>2. f = [n \in 0 .. 0 |-> OutputsStep(m, f, n)]
    BY <2>1 DEF OutputsStep
  <2> QED BY <2>2
<1>2. ASSUME NEW k \in Nat, k \in T PROVE k + 1 \in T
  <2>1. PICK f : f = [n \in 0 .. k |-> OutputsStep(m, f, n)]
    BY <1>2
  <2> DEFINE g == [n \in 0 .. k + 1 |-> IF n = k + 1 THEN OutputsStep(m, f, n) ELSE f[n]]
  <2>2. \A n \in 0 .. k : g[n] = f[n] /\ f[n] = OutputsStep(m, f, n)
    <3> SUFFICES ASSUME NEW n \in 0 .. k PROVE g[n] = f[n] /\ f[n] = OutputsStep(m, f, n)
      OBVIOUS
    <3>1. f[n] = OutputsStep(m, f, n)
      BY <2>1, Zenon
    <3>2. n \in 0 .. k + 1 /\ n # k + 1
      OBVIOUS
    <3>3. g[n] = f[n]
      BY <3>2
    <3> QED BY <3>1, <3>3
  <2>3. g[k + 1] = OutputsStep(m, f, k + 1)
    OBVIOUS
  <2> HIDE DEF g
  <2>4. ASSUME NEW n \in 0 .. k + 1 PROVE g[n] = OutputsStep(m, g, n)
    <3>1. n = 0 \/ (n - 1 \in 0 .. k /\ g[n - 1] = f[n - 1])
      BY <2>2
    <3>2. OutputsStep(m, g, n) = OutputsStep(m, f, n)
      BY <3>1 DEF OutputsStep
    <3>3. n \in 0 .. k \/ n = k + 1
      OBVIOUS
    <3> QED BY <2>2, <2>3, <3>2, <3>3
  <2>5. g = [n \in 0 .. k + 1 |-> g[n]]
    BY DEF g
  <2>6. g = [n \in 0 .. k + 1 |-> OutputsStep(m, g, n)]
    BY <2>4, <2>5
  <2> QED BY <2>6
<1>3. Nat \subseteq T
  <2> HIDE DEF T
  <2> QED BY <1>1, <1>2, Induction
<1>4. \E f : f = [n \in 0 .. Len(m) |-> OutputsStep(m, f, n)]
  BY <1>3
<1> DEFINE F == CHOOSE f : f = [n \in 0 .. Len(m) |-> OutputsStep(m, f, n)]
<1>5. F = [n \in 0 .. Len(m) |-> OutputsStep(m, F, n)]
  <2> HIDE DEF T
  <2> QED BY <1>4
<1>6. OutputsOf(m) = F[Len(m)]
  BY DEF OutputsOf, OutputsStep
<1> QED BY <1>5, <1>6

\* The outputs are tensors of the engine, and none of them is an input.
LEMMA OutputsTyped ==
  ASSUME NEW m \in Seq({"in", "out"})
  PROVE  /\ OutputsOf(m) \in Seq(1 .. Len(m))
         /\ \A k \in 1 .. Len(OutputsOf(m)) : m[OutputsOf(m)[k]] # "in"
<1>1. PICK f : /\ f = [n \in 0 .. Len(m) |-> OutputsStep(m, f, n)]
               /\ OutputsOf(m) = f[Len(m)]
  BY OutputsFunction
<1> DEFINE Good(s) == /\ s \in Seq(1 .. Len(m))
                      /\ \A k \in 1 .. Len(s) : m[s[k]] # "in"
           T == {n \in Nat : n <= Len(m) => Good(f[n])}
<1>2. Len(m) \in Nat
  OBVIOUS
<1>3. \A n \in 0 .. Len(m) : f[n] = OutputsStep(m, f, n)
  BY <1>1
<1>4. 0 \in T
  <2>1. f[0] = <<>>
    BY <1>2, <1>3 DEF OutputsStep
  <2>2. <<>> \in Seq(1 .. Len(m)) /\ \A k \in 1 .. Len(<<>>) : FALSE
    OBVIOUS
  <2>3. Good(f[0])
    BY <2>1, <2>2
  <2> QED BY <2>3
<1>5. ASSUME NEW n \in Nat, n \in T PROVE n + 1 \in T
  <2> SUFFICES ASSUME n + 1 <= Len(m) PROVE Good(f[n + 1])
    OBVIOUS
  <2>1. n + 1 \in 1 .. Len(m) /\ n + 1 # 0 /\ (n + 1) - 1 = n /\ n <= Len(m)
    BY <1>2
  <2>2. Good(f[n])
    BY <1>5, <2>1
  <2>3. f[n + 1] = IF m[n + 1] = "in" THEN f[n] ELSE Append(f[n], n + 1)
    BY <1>2, <1>3, <2>1 DEF OutputsStep
  <2>4. ASSUME m[n + 1] # "in" PROVE Good(Append(f[n], n + 1))
    <3> DEFINE s == f[n]
               u == Append(s, n + 1)
    <3>1. s \in Seq(1 .. Len(m))
      BY <2>2
    <3> HIDE DEF s
    <3>2. /\ u \in Seq(1 .. Len(m)) /\ Len(u) = Len(s) + 1 /\ Len(s) \in Nat
          /\ \A k \in 1 .. Len(s) : u[k] = s[k]
          /\ u[Len(s) + 1] = n + 1
      BY <2>1, <3>1
    <3>3. \A k \in 1 .. Len(s) : m[s[k]] # "in"
      BY <2>2 DEF s
    <3> HIDE DEF u
    <3>4. \A k \in 1 .. Len(u) : m[u[k]] # "in"
      BY <2>4, <3>2, <3>3
    <3>5. Good(u)
      BY <3>2, <3>4
    <3> QED BY <3>5 DEF u, s
  <2> HIDE DEF Good
  <2> QED BY <2>2, <2>3, <2>4
<1>6. Nat \subseteq T
  <2> HIDE DEF T
  <2> QED BY <1>4, <1>5, Induction
<1>7. Good(f[Len(m)])
  BY <1>2, <1>6
<1> QED BY <1>1, <1>7

-------------------------------------------------------------------------------
(* The inductive invariant *)

\* Statements of run() before an exception or the normal way out.
Running == {"load", "bind", "can", "start", "check", "pull", "pulled", "infer", "sync",
            "publish", "burst", "record", "stop"}
Unwinding == {"~engine", "~source", "catch", "done"}
\* Statements where the loop's Frame may hold a sample.
WithFrame == {"pulled", "infer", "sync", "publish", "burst", "record", "throw"}

Control ==
  /\ worker \in Running \cup {"throw"} \cup Unwinding
  /\ worker \in Running => ~thrown
  /\ worker = "throw" => thrown
  /\ worker \in Unwinding => ~can

\* The samples in the appsink are the latest frames, and newer than those used.
Latest ==
  /\ camera \in Nat /\ blob \in Nat /\ frame.sample_ \in Nat /\ sink \in Seq(Nat)
  /\ Len(sink) <= SinkBuffers
  /\ \A i \in 1 .. Len(sink) : sink[i] + Len(sink) = camera + i
  /\ blob + Len(sink) <= camera /\ frame.sample_ + Len(sink) <= camera

\* The Frame owns what is referenced and mapped.
Owned ==
  /\ frame \in [sample_ : Nat, data_ : BOOLEAN]
  /\ held = {frame.sample_} \ {0}
  /\ mapped = IF frame.data_ THEN {frame.sample_} ELSE {}
  /\ frame.data_ => frame.sample_ # 0
  /\ worker \notin WithFrame => frame = NoSample
  /\ worker \in {"infer", "sync", "publish"} => blob = frame.sample_
  /\ worker \in {"catch", "done"} => pipeline_ = "none" /\ ~appsink_

\* Device memory that the destructor does not free.
Leaked == allocated \ (1 .. bindings_)

Engine ==
  /\ model \in Seq({"in", "out"})
  /\ bindings_ \in 0 .. Len(model)
  /\ worker \in {"load", "bind"} => input_idx_ = 0
  /\ worker \in Running \ {"load", "bind"} =>
       input_idx_ \in Tensors /\ IsInput(input_idx_)
  /\ \A s, t \in Leaked : s = t
  /\ Leaked # {} => thrown /\ input_idx_ = 0
  /\ worker \in {"~source", "catch", "done"} => bindings_ = 0 /\ ~stream_

\* Work on the stream.
Items == {ToDevice(n) : n \in Nat} \cup {Run} \cup {ToHost(t) : t \in Nat}

Queued ==
  /\ queue \in Seq(Items)
  /\ DOMAIN device = Tensors /\ DOMAIN host = Tensors
  /\ worker \notin {"sync", "throw", "~engine"} => queue = <<>>

\* What infer() has queued and not yet done, and what is done.
Pending ==
  /\ \A i \in 1 .. Len(queue) :
       queue[i].op = "h2d" => i = 1 /\ queue[i].frame = blob
  /\ \A i \in 1 .. Len(queue) :
       queue[i].op = "enqueueV3" => i = 1 \/ (i = 2 /\ queue[1].op = "h2d")
  /\ \/ \E i \in 1 .. Len(queue) : queue[i].op = "h2d"
     \/ device[input_idx_] = blob
  /\ \/ \E i \in 1 .. Len(queue) : queue[i].op = "enqueueV3"
     \/ \A t \in Tensors : ~IsInput(t) => device[t] = blob
  /\ \A k \in 1 .. Len(Outputs) :
       \/ \E i \in 1 .. Len(queue) : queue[i] = ToHost(Outputs[k])
       \/ host[Outputs[k]] = blob

Computing ==
  /\ worker = "sync" => Pending
  /\ worker = "publish" => \A k \in 1 .. Len(Outputs) : host[Outputs[k]] = blob
  /\ DetectionsMatchFrame

\* The CAN frames of the set so far.
Numbered == [index : Nat, total : Nat]

Burst ==
  /\ count \in Nat /\ wire \in Seq(Numbered)
  /\ worker \notin {"burst", "record"} => wire = <<>> /\ ~cut
  /\ Len(wire) <= Total
  /\ \A k \in 1 .. Len(wire) : wire[k].index = k - 1 /\ wire[k].total = Total
  /\ worker = "record" /\ can /\ ~cut => Len(wire) = Total

IInv == Control /\ Latest /\ Owned /\ Engine /\ Queued /\ Computing /\ Burst

\* The initial state.
LEMMA InitHolds == ASSUME Init PROVE IInv
<1> USE DEF Init, SourceInit, EngineInit, CanInit
<1>1. Control
  BY DEF Control, Running, Unwinding
<1>2. Latest
  BY DEF Latest, NoSample, SinkBuffers
<1>3. Owned
  <2>1. frame \in [sample_ : Nat, data_ : BOOLEAN] /\ frame.sample_ = 0 /\ ~frame.data_
    BY DEF NoSample
  <2> QED BY <2>1 DEF Owned, WithFrame
<1>4. model \in Seq({"in", "out"}) /\ Len(model) \in Nat
  BY EnginesAssumption
<1>5. Engine
  BY <1>4 DEF Engine, Leaked, Running
<1>6. Queued
  BY DEF Queued
<1>7. Computing
  BY DEF Computing, DetectionsMatchFrame, NoDetections
<1>8. Burst
  BY BytesAssumption DEF Burst, Total
<1> QED BY <1>1, <1>2, <1>3, <1>5, <1>6, <1>7, <1>8 DEF IInv

-------------------------------------------------------------------------------
(* Control *)

\* The program counter of the worker, the exception and the CAN socket.
LEMMA ControlKept == ASSUME Control, [Next]_vars PROVE Control'
<1> USE DEF Control, Running, Unwinding, Goto, Raise
<1>1. ASSUME UNCHANGED <<worker, thrown, can>> PROVE Control'
  BY <1>1
<1>2. CASE WorkerLoad \/ WorkerBind \/ WorkerStart \/ WorkerInfer \/ WorkerSync
  BY <1>2 DEF WorkerLoad, WorkerBind, WorkerStart, WorkerInfer, WorkerSync, canVars
<1>3. CASE WorkerPublish
  BY <1>3 DEF WorkerPublish, canVars, CanDetected
<1>4. CASE WorkerCan \/ WorkerCheck \/ WorkerPull \/ WorkerSkip \/ WorkerLetterbox
           \/ WorkerBurst \/ WorkerRecord
  BY <1>4 DEF WorkerCan, WorkerCheck, WorkerPull, WorkerSkip, WorkerLetterbox,
              WorkerBurst, WorkerRecord
<1>5. CASE WorkerStop \/ WorkerUnwind
  BY <1>5 DEF WorkerStop, WorkerUnwind, CanClose
<1>6. CASE WorkerDestroyEngine \/ WorkerDestroySource \/ WorkerCatch
  BY <1>6 DEF WorkerDestroyEngine, WorkerDestroySource, WorkerCatch, canVars
<1>7. CASE MainStep \/ Environment \/ GpuStep \/ Ended \/ UNCHANGED vars
  BY <1>1, <1>7 DEF MainStep, MainEnterSpin, MainLeaveSpin, MainJoin,
      Environment, RosShutdown, GpuStep,
                    Ended, vars, nodeVars, canVars
<1> QED BY <1>2, <1>3, <1>4, <1>5, <1>6, <1>7 DEF Next, WorkerStep

-------------------------------------------------------------------------------
(* The capture *)

\* What is left of a queue of numbers without its head.
LEMMA TailOf ==
  ASSUME NEW S, NEW s \in Seq(S), s # <<>>
  PROVE  /\ Head(s) = s[1] /\ s[1] \in S /\ Len(s) \in Nat /\ Len(s) >= 1
         /\ Tail(s) \in Seq(S) /\ Len(Tail(s)) = Len(s) - 1
         /\ \A i \in 1 .. Len(Tail(s)) : Tail(s)[i] = s[i + 1] /\ i + 1 \in 1 .. Len(s)
  OBVIOUS

\* A queue with one more element.
LEMMA AppendTo ==
  ASSUME NEW S, NEW s \in Seq(S), NEW e \in S
  PROVE  /\ Append(s, e) \in Seq(S) /\ Len(s) \in Nat
         /\ Len(Append(s, e)) = Len(s) + 1
         /\ \A i \in 1 .. Len(s) : Append(s, e)[i] = s[i]
         /\ Append(s, e)[Len(s) + 1] = e
  OBVIOUS

\* A new frame enters the appsink, and the oldest one leaves it when it is full.
LEMMA SinkWithNext ==
  ASSUME Latest
  PROVE  LET s == SinkWith(camera + 1)
         IN  /\ s \in Seq(Nat) /\ Len(s) <= SinkBuffers /\ Len(s) <= Len(sink) + 1
             /\ Len(s) \in Nat
             /\ \A i \in 1 .. Len(s) : s[i] + Len(s) = (camera + 1) + i
<1>1. sink \in Seq(Nat) /\ camera + 1 \in Nat /\ camera \in Nat /\ Len(sink) \in Nat
      /\ Len(sink) <= SinkBuffers
  BY DEF Latest
<1>2. ASSUME NEW q \in Seq(Nat), Len(q) <= Len(sink), Len(q) < SinkBuffers,
             \A i \in 1 .. Len(q) : q[i] + Len(q) = camera + i
      PROVE  /\ Append(q, camera + 1) \in Seq(Nat)
             /\ Len(Append(q, camera + 1)) \in Nat
             /\ Len(Append(q, camera + 1)) <= SinkBuffers
             /\ Len(Append(q, camera + 1)) <= Len(sink) + 1
             /\ \A i \in 1 .. Len(Append(q, camera + 1)) :
                  Append(q, camera + 1)[i] + Len(Append(q, camera + 1)) = (camera + 1) + i
  <2> DEFINE s == Append(q, camera + 1)
  <2>1. /\ s \in Seq(Nat) /\ Len(q) \in Nat /\ Len(s) = Len(q) + 1
        /\ \A i \in 1 .. Len(q) : s[i] = q[i]
        /\ s[Len(q) + 1] = camera + 1
    BY <1>1, <1>2, AppendTo
  <2>2. \A i \in 1 .. Len(q) : q[i] \in Nat
    BY <1>2
  <2> HIDE DEF s
  <2>3. ASSUME NEW i \in 1 .. Len(s) PROVE s[i] + Len(s) = (camera + 1) + i
    <3>1. i \in 1 .. Len(q) \/ i = Len(q) + 1
      BY <2>1
    <3>2. CASE i \in 1 .. Len(q)
      <4>1. q[i] + Len(q) = camera + i
        BY <1>2, <3>2
      <4>2. s[i] = q[i] /\ q[i] \in Nat
        BY <2>1, <2>2, <3>2
      <4>3. PICK a \in Nat, n \in Nat : a = q[i] /\ n = Len(q)
        BY <2>1, <4>2
      <4>4. a + n = camera + i /\ i \in Int
        BY <4>1, <4>3
      <4>5. a + (n + 1) = (camera + 1) + i
        BY <1>1, <4>4
      <4>6. s[i] = a /\ Len(s) = n + 1
        BY <2>1, <4>2, <4>3
      <4> QED BY <4>5, <4>6
    <3>3. CASE i = Len(q) + 1
      BY <1>1, <2>1, <3>3
    <3> QED BY <3>1, <3>2, <3>3
  <2>4. s \in Seq(Nat) /\ Len(s) \in Nat /\ Len(s) <= SinkBuffers /\ Len(s) <= Len(sink) + 1
    BY <1>1, <1>2, <2>1 DEF SinkBuffers
  <2> QED BY <2>3, <2>4 DEF s
<1>3. CASE Len(sink) = SinkBuffers
  <2>1. sink # <<>>
    BY <1>1, <1>3 DEF SinkBuffers
  <2>2. /\ Tail(sink) \in Seq(Nat) /\ Len(Tail(sink)) = Len(sink) - 1
        /\ \A i \in 1 .. Len(Tail(sink)) :
             Tail(sink)[i] = sink[i + 1] /\ i + 1 \in 1 .. Len(sink)
    BY <1>1, <2>1, TailOf
  <2>3. \A i \in 1 .. Len(Tail(sink)) : Tail(sink)[i] + Len(Tail(sink)) = camera + i
    <3> SUFFICES ASSUME NEW i \in 1 .. Len(Tail(sink))
                 PROVE  Tail(sink)[i] + Len(Tail(sink)) = camera + i
      OBVIOUS
    <3>1. Tail(sink)[i] = sink[i + 1] /\ sink[i + 1] + Len(sink) = camera + (i + 1)
          /\ sink[i + 1] \in Nat
      BY <1>1, <2>2 DEF Latest
    <3> QED BY <1>1, <2>2, <3>1
  <2>4. SinkWith(camera + 1) = Append(Tail(sink), camera + 1)
    BY <1>3 DEF SinkWith
  <2>5. Len(Tail(sink)) <= Len(sink) /\ Len(Tail(sink)) < SinkBuffers
    BY <1>1, <1>3, <2>2
  <2> HIDE DEF SinkWith
  <2> DEFINE q == Tail(sink)
  <2>6. q \in Seq(Nat) /\ \A i \in 1 .. Len(q) : q[i] + Len(q) = camera + i
    BY <2>2, <2>3
  <2>7. Len(q) <= Len(sink) /\ Len(q) < SinkBuffers /\ SinkWith(camera + 1) = Append(q, camera + 1)
    BY <2>4, <2>5
  <2> HIDE DEF q
  <2>8. /\ Append(q, camera + 1) \in Seq(Nat)
        /\ Len(Append(q, camera + 1)) \in Nat
        /\ Len(Append(q, camera + 1)) <= SinkBuffers
        /\ Len(Append(q, camera + 1)) <= Len(sink) + 1
        /\ \A i \in 1 .. Len(Append(q, camera + 1)) :
             Append(q, camera + 1)[i] + Len(Append(q, camera + 1)) = (camera + 1) + i
    BY <1>2, <2>6, <2>7
  <2> QED BY <2>7, <2>8, Zenon
<1>4. CASE Len(sink) # SinkBuffers
  <2>1. SinkWith(camera + 1) = Append(sink, camera + 1)
    BY <1>4 DEF SinkWith
  <2>2. Len(sink) < SinkBuffers /\ Len(sink) <= Len(sink)
    <3>1. PICK n \in Nat : n = Len(sink)
      BY <1>1
    <3>2. n <= 2 /\ n # 2
      BY <1>1, <1>4, <3>1 DEF SinkBuffers
    <3> QED BY <3>1, <3>2 DEF SinkBuffers
  <2>3. sink \in Seq(Nat) /\ \A i \in 1 .. Len(sink) : sink[i] + Len(sink) = camera + i
    BY DEF Latest
  <2>4. /\ Append(sink, camera + 1) \in Seq(Nat)
        /\ Len(Append(sink, camera + 1)) \in Nat
        /\ Len(Append(sink, camera + 1)) <= SinkBuffers
        /\ Len(Append(sink, camera + 1)) <= Len(sink) + 1
        /\ \A i \in 1 .. Len(Append(sink, camera + 1)) :
             Append(sink, camera + 1)[i] + Len(Append(sink, camera + 1)) = (camera + 1) + i
    BY <1>2, <2>2, <2>3
  <2> QED BY <2>1, <2>4, Zenon
<1> QED BY <1>3, <1>4

\* A pulled sample is the oldest in the appsink.
LEMMA PullTakesOldest ==
  ASSUME Latest, NextSample
  PROVE  /\ frame'.sample_ \in Nat /\ frame'.sample_ = Head(sink)
         /\ frame'.sample_ > blob /\ frame'.sample_ > camera - SinkBuffers
         /\ frame'.sample_ # 0
         /\ sink' \in Seq(Nat) /\ Len(sink') \in Nat /\ Len(sink') <= SinkBuffers
         /\ \A i \in 1 .. Len(sink') : sink'[i] + Len(sink') = camera + i
         /\ frame'.sample_ + Len(sink') <= camera /\ blob + Len(sink') <= camera
<1>1. sink \in Seq(Nat) /\ sink # <<>> /\ sink' = Tail(sink)
      /\ camera \in Nat /\ blob \in Nat /\ Len(sink) <= SinkBuffers
  BY DEF Latest, NextSample
<1>2. /\ Head(sink) = sink[1] /\ sink[1] \in Nat /\ Len(sink) \in Nat /\ Len(sink) >= 1
      /\ sink' \in Seq(Nat) /\ Len(sink') = Len(sink) - 1
      /\ \A i \in 1 .. Len(sink') : sink'[i] = sink[i + 1] /\ i + 1 \in 1 .. Len(sink)
  BY <1>1, TailOf
<1>3. frame'.sample_ = sink[1]
  BY <1>2 DEF NextSample
<1>4. sink[1] + Len(sink) = camera + 1 /\ blob + Len(sink) <= camera
  BY <1>2 DEF Latest
<1>5. \A i \in 1 .. Len(sink') : sink'[i] + Len(sink') = camera + i
  <2> SUFFICES ASSUME NEW i \in 1 .. Len(sink') PROVE sink'[i] + Len(sink') = camera + i
    OBVIOUS
  <2>1. sink'[i] = sink[i + 1] /\ sink[i + 1] + Len(sink) = camera + (i + 1)
        /\ sink[i + 1] \in Nat
    BY <1>1, <1>2 DEF Latest
  <2>2. /\ Len(sink) \in Int /\ Len(sink') \in Int /\ camera \in Int /\ i \in Int
        /\ Len(sink') = Len(sink) - 1 /\ sink'[i] \in Int
    BY <1>1, <1>2, <2>1
  <2> QED BY <2>1, <2>2
<1>6. /\ Len(sink') \in Nat /\ Len(sink') <= SinkBuffers
      /\ sink[1] > blob /\ sink[1] > camera - SinkBuffers /\ sink[1] # 0
      /\ sink[1] + Len(sink') <= camera /\ blob + Len(sink') <= camera
  BY <1>1, <1>2, <1>4 DEF SinkBuffers
<1> QED BY <1>2, <1>3, <1>5, <1>6

\* The order and the freshness of the samples.
LEMMA LatestKept == ASSUME Latest, [Next]_vars PROVE Latest'
<1>0. camera \in Nat /\ blob \in Nat /\ sink \in Seq(Nat) /\ Len(sink) \in Nat
      /\ frame.sample_ \in Nat
  BY DEF Latest
<1>1. ASSUME UNCHANGED <<camera, blob, sink, frame>> PROVE Latest'
  BY <1>1 DEF Latest
<1>2. ASSUME UNCHANGED <<camera, blob, sink>>, frame' = NoSample PROVE Latest'
  BY <1>2 DEF Latest, NoSample
<1>3. ASSUME SourceStop, UNCHANGED blob PROVE Latest'
  <2>1. sink' = <<>> /\ UNCHANGED <<camera, blob, frame>>
    BY <1>3 DEF SourceStop
  <2>2. frame.sample_ <= camera /\ blob <= camera
    BY <1>0 DEF Latest
  <2> QED BY <2>1, <2>2 DEF Latest, SinkBuffers
<1>4. CASE WorkerPull
  <2>1. CASE NextSample
    <3>1. UNCHANGED <<camera, blob>>
      BY <1>4, <2>1 DEF WorkerPull, NextSample
    <3> QED BY <2>1, <3>1, PullTakesOldest DEF Latest
  <2>2. CASE NextInvalid
    BY <1>2, <1>4, <2>2 DEF WorkerPull, NextInvalid
  <2> QED BY <1>4, <2>1, <2>2 DEF WorkerPull
<1>5. CASE WorkerLetterbox
  BY <1>5 DEF WorkerLetterbox, Latest, sourceVars
<1>6. CASE Environment
  <2>1. CASE Capture /\ UNCHANGED nodeVars
    <3>1. camera' = camera + 1 /\ sink' = SinkWith(camera + 1) /\ UNCHANGED <<frame, blob>>
      BY <2>1 DEF Capture, nodeVars
    <3>2. /\ sink' \in Seq(Nat) /\ Len(sink') <= SinkBuffers /\ Len(sink') <= Len(sink) + 1
          /\ Len(sink') \in Nat
          /\ \A i \in 1 .. Len(sink') : sink'[i] + Len(sink') = camera' + i
      BY <3>1, SinkWithNext
    <3>3. blob + Len(sink) <= camera /\ frame.sample_ + Len(sink) <= camera
      BY DEF Latest
    <3> QED BY <1>0, <3>1, <3>2, <3>3 DEF Latest
  <2>2. CASE EndOfStream /\ UNCHANGED nodeVars
    BY <1>1, <2>2 DEF EndOfStream, nodeVars
  <2>3. CASE RosShutdown
    BY <1>1, <2>3 DEF RosShutdown, sourceVars
  <2> QED BY <1>6, <2>1, <2>2, <2>3 DEF Environment
<1>7. CASE WorkerSkip \/ WorkerRecord \/ WorkerUnwind
  BY <1>2, <1>7 DEF WorkerSkip, WorkerRecord, WorkerUnwind, FrameRelease
<1>8. CASE WorkerStop \/ WorkerDestroySource
  BY <1>3, <1>8 DEF WorkerStop, WorkerDestroySource
<1>9. CASE WorkerLoad \/ WorkerBind \/ WorkerCan \/ WorkerCheck \/ WorkerInfer
           \/ WorkerSync \/ WorkerPublish \/ WorkerBurst \/ WorkerDestroyEngine \/ WorkerCatch
  BY <1>1, <1>9
  DEF WorkerLoad, WorkerBind, WorkerCan, WorkerCheck, WorkerInfer, WorkerSync,
      WorkerPublish, WorkerBurst, WorkerDestroyEngine, WorkerCatch, sourceVars
<1>10. CASE WorkerStart
  BY <1>1, <1>10 DEF WorkerStart, SourceStarts, SourceStartThrows
<1>11. CASE MainStep \/ GpuStep \/ Ended \/ UNCHANGED vars
  BY <1>1, <1>11 DEF MainStep, MainEnterSpin, MainLeaveSpin, MainJoin,
      GpuStep, Ended, vars, nodeVars,
                     sourceVars
<1> QED BY <1>4, <1>5, <1>6, <1>7, <1>8, <1>9, <1>10, <1>11 DEF Next, WorkerStep

\* The Frame and what it owns.
LEMMA OwnedKept == ASSUME Latest, Owned, [Next]_vars PROVE Owned'
<1> USE DEF Goto, Raise, WithFrame
<1>1. ASSUME UNCHANGED <<frame, held, mapped, worker, blob, pipeline_, appsink_>> PROVE Owned'
  BY <1>1 DEF Owned
<1>2. ASSUME UNCHANGED <<frame, held, mapped>>,
             worker' \notin WithFrame => frame = NoSample,
             worker' \in {"infer", "sync", "publish"} => blob' = frame.sample_,
             worker' \in {"catch", "done"} => pipeline_' = "none" /\ ~appsink_'
      PROVE  Owned'
  BY <1>2 DEF Owned
<1>3. ASSUME FrameRelease, worker' \notin {"infer", "sync", "publish", "catch", "done"}
      PROVE  Owned'
  <2>1. frame' = NoSample /\ held' = {} /\ mapped' = {}
    BY <1>3 DEF Owned, FrameRelease, Unreffed
  <2>2. frame' \in [sample_ : Nat, data_ : BOOLEAN] /\ frame'.sample_ = 0 /\ ~frame'.data_
    BY <2>1 DEF NoSample
  <2> QED BY <1>3, <2>1, <2>2 DEF Owned
<1>4. CASE WorkerPull
  <2>1. worker = "pull" /\ worker' = "pulled" /\ frame = NoSample
    BY <1>4 DEF WorkerPull, Owned
  <2>2. held = {} /\ mapped = {}
    BY <2>1 DEF Owned, NoSample
  <2>3. CASE NextSample
    <3>1. PICK data \in BOOLEAN :
            /\ frame' = [sample_ |-> Head(sink), data_ |-> data]
            /\ held' = held \cup {Head(sink)}
            /\ mapped' = IF data THEN mapped \cup {Head(sink)} ELSE mapped
      BY <2>3 DEF NextSample
    <3>2. Head(sink) \in Nat /\ Head(sink) # 0
      BY <2>3, PullTakesOldest
    <3>3. /\ frame' \in [sample_ : Nat, data_ : BOOLEAN]
          /\ frame'.sample_ = Head(sink) /\ frame'.data_ = data
      BY <3>1, <3>2
    <3>4. held' = {frame'.sample_} \ {0}
      BY <2>2, <3>1, <3>2, <3>3
    <3>5. mapped' = IF frame'.data_ THEN {frame'.sample_} ELSE {}
      BY <2>2, <3>1, <3>3
    <3> QED BY <2>1, <3>2, <3>3, <3>4, <3>5 DEF Owned
  <2>4. CASE NextInvalid
    <3>1. frame' = NoSample /\ UNCHANGED <<held, mapped>>
      BY <2>4 DEF NextInvalid
    <3>2. frame' \in [sample_ : Nat, data_ : BOOLEAN] /\ frame'.sample_ = 0 /\ ~frame'.data_
      BY <3>1 DEF NoSample
    <3> QED BY <2>1, <2>2, <3>1, <3>2 DEF Owned
  <2> QED BY <1>4, <2>3, <2>4 DEF WorkerPull
<1>5. CASE WorkerSkip \/ WorkerRecord \/ WorkerUnwind
  BY <1>3, <1>5 DEF WorkerSkip, WorkerRecord, WorkerUnwind
<1>6. CASE WorkerLetterbox
  BY <1>2, <1>6 DEF WorkerLetterbox, sourceVars
<1>7. CASE WorkerLoad \/ WorkerBind \/ WorkerCan \/ WorkerCheck
  <2>1. UNCHANGED <<frame, held, mapped>> /\ frame = NoSample
        /\ worker' \notin {"infer", "sync", "publish", "catch", "done"}
    BY <1>7 DEF WorkerLoad, WorkerBind, WorkerCan, WorkerCheck, sourceVars, Owned
  <2> QED BY <1>2, <2>1
<1>8. CASE WorkerStart
  <2>1. UNCHANGED <<frame, held, mapped>> /\ frame = NoSample
        /\ worker' \notin {"infer", "sync", "publish", "catch", "done"}
    BY <1>8 DEF WorkerStart, SourceStarts, SourceStartThrows, Owned
  <2> QED BY <1>2, <2>1
<1>9. CASE WorkerInfer \/ WorkerSync \/ WorkerPublish \/ WorkerBurst
  <2>1. UNCHANGED <<frame, held, mapped, blob>> /\ worker' \in WithFrame
        /\ (worker' \in {"infer", "sync", "publish"} => worker \in {"infer", "sync", "publish"})
    BY <1>9 DEF WorkerInfer, WorkerSync, WorkerPublish, WorkerBurst, sourceVars
  <2>2. worker' \notin {"catch", "done"}
    BY <2>1
  <2> QED BY <1>2, <2>1, <2>2 DEF Owned
<1>10. CASE WorkerStop
  <2>1. UNCHANGED <<frame, held, mapped>> /\ frame = NoSample /\ worker' = "~engine"
    BY <1>10 DEF WorkerStop, SourceStop, Owned
  <2> QED BY <1>2, <2>1
<1>11. CASE WorkerDestroyEngine
  <2>1. UNCHANGED <<frame, held, mapped>> /\ frame = NoSample /\ worker' = "~source"
    BY <1>11 DEF WorkerDestroyEngine, sourceVars, Owned
  <2> QED BY <1>2, <2>1
<1>12. CASE WorkerDestroySource
  <2>1. UNCHANGED <<frame, held, mapped>> /\ frame = NoSample /\ worker' \in {"catch", "done"}
        /\ pipeline_' = "none" /\ ~appsink_'
    BY <1>12 DEF WorkerDestroySource, SourceStop, Owned
  <2> QED BY <1>2, <2>1
<1>13. CASE WorkerCatch
  <2>1. UNCHANGED <<frame, held, mapped, pipeline_, appsink_>> /\ frame = NoSample
        /\ worker' = "done" /\ pipeline_ = "none" /\ ~appsink_
    BY <1>13 DEF WorkerCatch, sourceVars, Owned
  <2> QED BY <1>2, <2>1
<1>14. CASE MainStep \/ Environment \/ GpuStep \/ Ended \/ UNCHANGED vars
  BY <1>1, <1>14 DEF MainStep, MainEnterSpin, MainLeaveSpin, MainJoin,
      Environment, Capture, EndOfStream,
                     RosShutdown, GpuStep, Ended, vars, nodeVars, sourceVars
<1> QED BY <1>4, <1>5, <1>6, <1>7, <1>8, <1>9, <1>10, <1>11, <1>12, <1>13, <1>14
        DEF Next, WorkerStep

-------------------------------------------------------------------------------
(* The CAN set *)

\* The conversion to a byte keeps what fits.
LEMMA SmallRemainder ==
  ASSUME NEW a \in Nat, NEW b \in Nat, a < b
  PROVE  a % b = a
  OBVIOUS

\* The numbers of the CAN frames.
LEMMA BurstKept == ASSUME Burst, [Next]_vars PROVE Burst'
<1> USE BytesAssumption DEF Goto, Raise
<1>1. ASSUME UNCHANGED <<count, wire, cut>>, wire = <<>>, ~cut,
             worker' # "record" \/ UNCHANGED <<worker, can>>
      PROVE  Burst'
  BY <1>1 DEF Burst, Total
<1>2. ASSUME UNCHANGED <<count, wire, cut, can, worker>> PROVE Burst'
  BY <1>2 DEF Burst, Total
<1>3. count \in Nat /\ Total \in Nat /\ Total < Bytes
  BY DEF Burst, Total
<1>4. CASE WorkerPublish
  <2>1. worker = "publish" /\ wire = <<>> /\ ~cut /\ UNCHANGED <<wire, cut>>
        /\ worker' # "record"
    BY <1>4 DEF WorkerPublish, CanDetected, canVars, Burst
  <2>2. count' \in Nat
    BY <1>3, <1>4 DEF WorkerPublish, CanDetected, canVars
  <2> QED BY <2>1, <2>2 DEF Burst, Total
<1>5. CASE WorkerBurst
  <2>1. worker = "burst"
    BY <1>5 DEF WorkerBurst
  <2>2. CASE worker' = "burst" /\ CanWrite
    <3>1. /\ UNCHANGED <<can, count, cut>> /\ Len(wire) < Total
          /\ wire' = Append(wire, [index |-> Len(wire) % Bytes, total |-> Total % Bytes])
      BY <1>3, <2>2 DEF CanWrite, SetDone, Burst
    <3>2. wire \in Seq(Numbered) /\ Len(wire) \in Nat
      BY DEF Burst
    <3>3. Len(wire) % Bytes = Len(wire) /\ Total % Bytes = Total
      <4>1. PICK n \in Nat : n = Len(wire)
        BY <3>2
      <4>2. n < Bytes
        BY <1>3, <3>1, <4>1
      <4> QED BY <1>3, <4>1, <4>2, SmallRemainder
    <3> DEFINE e == [index |-> Len(wire), total |-> Total]
    <3>4. e \in Numbered /\ e.index = Len(wire) /\ e.total = Total
      BY <1>3, <3>2 DEF Numbered
    <3>5. wire' = Append(wire, e)
      BY <3>1, <3>3
    <3> HIDE DEF e
    <3>6. /\ wire' \in Seq(Numbered) /\ Len(wire') = Len(wire) + 1
          /\ \A k \in 1 .. Len(wire) : wire'[k] = wire[k]
          /\ wire'[Len(wire) + 1] = e
      BY <3>2, <3>4, <3>5, AppendTo
    <3>7. ASSUME NEW k \in 1 .. Len(wire')
          PROVE  wire'[k].index = k - 1 /\ wire'[k].total = Total
      <4>1. k \in 1 .. Len(wire) \/ k = Len(wire) + 1
        BY <3>2, <3>6
      <4>2. CASE k \in 1 .. Len(wire)
        BY <3>6, <4>2 DEF Burst
      <4>3. CASE k = Len(wire) + 1
        BY <3>2, <3>4, <3>6, <4>3
      <4> QED BY <4>1, <4>2, <4>3
    <3>8. Total' = Total
      BY <3>1 DEF Total
    <3>9. Len(wire') <= Total
      BY <1>3, <3>1, <3>2, <3>6
    <3>10. worker' \in {"burst", "record"} /\ worker' # "record" /\ count' \in Nat
      BY <1>3, <2>2, <3>1
    <3> HIDE DEF Total
    <3> QED BY <3>6, <3>7, <3>8, <3>9, <3>10 DEF Burst
  <2>3. CASE worker' = "burst" /\ CanWriteFails
    BY <2>3 DEF CanWriteFails, Burst, Total
  <2>4. CASE worker' = "record" /\ SetDone /\ UNCHANGED canVars
    <3>1. UNCHANGED <<can, count, wire, cut>> /\ Total' = Total
      BY <2>4 DEF canVars, Total
    <3>2. can /\ ~cut => Len(wire) >= Total
      BY <2>4 DEF SetDone
    <3>3. Len(wire) \in Nat /\ Len(wire) <= Total
      BY DEF Burst
    <3>4. PICK n \in Nat : n = Len(wire)
      BY <3>3
    <3>5. can /\ ~cut => n = Total
      BY <1>3, <3>2, <3>3, <3>4
    <3> QED BY <2>4, <3>1, <3>3, <3>4, <3>5 DEF Burst
  <2> QED BY <1>5, <2>2, <2>3, <2>4 DEF WorkerBurst
<1>6. CASE WorkerRecord
  BY <1>6 DEF WorkerRecord, CanForget, Burst, Total
<1>7. CASE WorkerLoad \/ WorkerBind \/ WorkerCan \/ WorkerStart \/ WorkerCheck
           \/ WorkerPull \/ WorkerSkip \/ WorkerLetterbox \/ WorkerInfer \/ WorkerSync
           \/ WorkerStop \/ WorkerUnwind \/ WorkerDestroyEngine \/ WorkerDestroySource
           \/ WorkerCatch
  <2>1. UNCHANGED <<count, wire, cut>> /\ worker \notin {"burst", "record"}
        /\ worker' # "record"
    BY <1>7 DEF WorkerLoad, WorkerBind, WorkerCan, WorkerStart, WorkerCheck, WorkerPull,
                WorkerSkip, WorkerLetterbox, WorkerInfer, WorkerSync, WorkerStop,
                WorkerUnwind, WorkerDestroyEngine, WorkerDestroySource, WorkerCatch,
                CanOpen, CanClose, canVars
  <2> QED BY <1>1, <2>1 DEF Burst
<1>8. CASE MainStep \/ Environment \/ GpuStep \/ Ended \/ UNCHANGED vars
  BY <1>2, <1>8 DEF MainStep, MainEnterSpin, MainLeaveSpin, MainJoin,
      Environment, RosShutdown, GpuStep,
                    Ended, vars, nodeVars, canVars
<1> QED BY <1>4, <1>5, <1>6, <1>7, <1>8 DEF Next, WorkerStep

-------------------------------------------------------------------------------
(* The engine *)

\* infer() gets an input tensor when there is one.
LEMMA InputChosen ==
  ASSUME Engine, ChooseInput
  PROVE  input_idx_' \in Tensors /\ IsInput(input_idx_')
<1> DEFINE T == {t \in Tensors : IsInput(t)}
<1>1. Len(model) \in Nat /\ T \subseteq Nat /\ T # {}
  BY DEF Engine, Tensors, ChooseInput, HasInput
<1>2. PICK x \in T : \A y \in T : x <= y
  <2> HIDE DEF T
  <2> QED BY <1>1, LeastNumber
<1>3. ASSUME NEW u \in 1 .. x - 1 PROVE ~IsInput(u)
  <2>1. x \in 1 .. Len(model)
    BY <1>2 DEF Tensors
  <2>2. u \in Tensors /\ ~(x <= u)
    BY <1>1, <2>1 DEF Tensors
  <2> QED BY <1>2, <2>2
<1>4. \E t \in Tensors : IsInput(t) /\ \A u \in 1 .. t - 1 : ~IsInput(u)
  BY <1>2, <1>3
<1>5. input_idx_' = CHOOSE t \in Tensors : IsInput(t) /\ \A u \in 1 .. t - 1 : ~IsInput(u)
  BY DEF ChooseInput
<1> QED BY <1>4, <1>5

\* The bound and the lost device memory.
LEMMA EngineKept == ASSUME Control, Engine, [Next]_vars PROVE Engine'
<1> USE DEF Goto, Raise, Running
<1>0. Len(model) \in Nat /\ bindings_ \in Nat
  BY DEF Engine
<1>1. ASSUME UNCHANGED <<model, bindings_, input_idx_, allocated>>, thrown => thrown',
             worker' \in {"load", "bind"} => worker \in {"load", "bind"},
             worker' \in Running \ {"load", "bind"} => worker \in Running \ {"load", "bind"},
             worker' \in {"~source", "catch", "done"} =>
               worker \in {"~source", "catch", "done"} /\ UNCHANGED stream_
      PROVE  Engine'
  <2>1. Tensors' = Tensors /\ Leaked' = Leaked
    BY <1>1 DEF Tensors, Leaked
  <2>2. IsInput(input_idx_)' = IsInput(input_idx_)
    BY <1>1 DEF IsInput
  <2> QED BY <1>1, <2>1, <2>2 DEF Engine
<1>2. worker = "bind" => Leaked = {} /\ input_idx_ = 0
  BY DEF Control, Engine
<1>3. CASE WorkerBind
  <2>0. worker = "bind"
    BY <1>3 DEF WorkerBind
  <2>1. CASE worker' = "bind" /\ Bind
    <3>1. /\ UNCHANGED <<model, input_idx_>> /\ bindings_' = bindings_ + 1
          /\ allocated' = allocated \cup {bindings_ + 1} /\ bindings_ < Len(model)
      BY <2>1 DEF Bind
    <3>2. Leaked' = {}
      BY <1>0, <1>2, <2>0, <3>1 DEF Leaked
    <3>3. bindings_' \in 0 .. Len(model)
      BY <1>0, <3>1
    <3> QED BY <1>2, <2>0, <2>1, <3>1, <3>2, <3>3 DEF Engine
  <2>2. CASE worker' = "can" /\ ChooseInput
    <3>1. UNCHANGED <<model, bindings_, allocated>>
      BY <2>2 DEF ChooseInput
    <3>2. Leaked' = {}
      BY <1>2, <2>0, <3>1 DEF Leaked
    <3>3. (input_idx_ \in Tensors /\ IsInput(input_idx_))'
      BY <2>2, <3>1, InputChosen DEF Tensors, IsInput
    <3> QED BY <2>2, <3>1, <3>2, <3>3 DEF Engine
  <2>3. CASE worker' = "throw" /\ thrown' = TRUE /\ (BindThrows \/ ChooseInputThrows)
    <3>1. /\ UNCHANGED <<model, bindings_, input_idx_>>
          /\ allocated' \subseteq allocated \cup {bindings_ + 1}
      BY <2>3 DEF BindThrows, ChooseInputThrows, engineVars
    <3>2. Leaked' \subseteq {bindings_ + 1}
      BY <1>2, <2>0, <3>1 DEF Leaked
    <3>3. thrown' /\ input_idx_' = 0
      BY <1>2, <2>0, <2>3, <3>1
    <3> QED BY <2>3, <3>1, <3>2, <3>3 DEF Engine
  <2> QED BY <1>3, <2>1, <2>2, <2>3 DEF WorkerBind
<1>4. CASE WorkerDestroyEngine
  <2>1. /\ worker' = "~source" /\ UNCHANGED <<model, input_idx_, thrown>> /\ bindings_' = 0
        /\ ~stream_' /\ allocated' = allocated \ (1 .. bindings_)
    BY <1>4 DEF WorkerDestroyEngine, EngineDestroy
  <2>2. Leaked' = Leaked
    BY <2>1 DEF Leaked
  <2>3. 0 \in 0 .. Len(model)
    BY <1>0
  <2> QED BY <2>1, <2>2, <2>3 DEF Engine
<1>5. CASE WorkerLoad
  <2>1. UNCHANGED <<model, bindings_, input_idx_, allocated>> /\ worker = "load"
        /\ worker' \in {"bind", "throw"} /\ (thrown => thrown')
    BY <1>5 DEF WorkerLoad, LoadContext, LoadThrows
  <2> QED BY <1>1, <2>1
<1>6. CASE WorkerInfer
  <2>1. UNCHANGED <<model, bindings_, input_idx_, allocated>> /\ worker = "infer"
        /\ worker' \in {"sync", "throw"} /\ (thrown => thrown')
    BY <1>6 DEF WorkerInfer, InferEnqueue, InferThrows
  <2> QED BY <1>1, <2>1
<1>7. CASE WorkerCan \/ WorkerStart \/ WorkerCheck \/ WorkerPull \/ WorkerSkip
           \/ WorkerLetterbox \/ WorkerSync \/ WorkerPublish \/ WorkerBurst \/ WorkerRecord
  <2>1. UNCHANGED <<model, bindings_, input_idx_, allocated>> /\ (thrown => thrown')
        /\ worker \in Running \ {"load", "bind"}
        /\ worker' \in (Running \ {"load", "bind"}) \cup {"throw"}
    BY <1>7 DEF WorkerCan, WorkerStart, WorkerCheck, WorkerPull, WorkerSkip,
                WorkerLetterbox, WorkerSync, WorkerPublish, WorkerBurst, WorkerRecord,
                engineVars
  <2> QED BY <1>1, <2>1
<1>8. CASE WorkerStop \/ WorkerUnwind
  <2>1. UNCHANGED <<model, bindings_, input_idx_, allocated, thrown>> /\ worker' = "~engine"
    BY <1>8 DEF WorkerStop, WorkerUnwind, engineVars
  <2> QED BY <1>1, <2>1
<1>9. CASE WorkerDestroySource \/ WorkerCatch
  <2>1. UNCHANGED <<model, bindings_, input_idx_, allocated, thrown, stream_>>
        /\ worker \in {"~source", "catch"} /\ worker' \in {"catch", "done"}
    BY <1>9 DEF WorkerDestroySource, WorkerCatch, engineVars
  <2> QED BY <1>1, <2>1
<1>10. CASE MainStep \/ Environment \/ GpuStep \/ Ended \/ UNCHANGED vars
  <2>1. UNCHANGED <<model, bindings_, input_idx_, allocated, thrown, stream_, worker>>
    BY <1>10 DEF MainStep, MainEnterSpin, MainLeaveSpin, MainJoin,
        Environment, RosShutdown, GpuStep,
                 StreamStep, Ended, vars, nodeVars, engineVars
  <2> QED BY <1>1, <2>1
<1> QED BY <1>3, <1>4, <1>5, <1>6, <1>7, <1>8, <1>9, <1>10 DEF Next, WorkerStep

-------------------------------------------------------------------------------
(* The stream *)

\* The kinds of work.
LEMMA ItemKinds ==
  /\ \A n : ToDevice(n).op = "h2d" /\ ToDevice(n).frame = n
  /\ Run.op = "enqueueV3"
  /\ \A t : ToHost(t).op = "d2h" /\ ToHost(t).tensor = t
BY DEF ToDevice, Run, ToHost

\* The outputs of the engine that is loaded.
LEMMA OutputsOk ==
  ASSUME Engine
  PROVE  /\ Outputs \in Seq(Tensors)
         /\ \A k \in 1 .. Len(Outputs) : Outputs[k] \in Tensors /\ ~IsInput(Outputs[k])
<1>1. /\ OutputsOf(model) \in Seq(1 .. Len(model))
      /\ \A k \in 1 .. Len(OutputsOf(model)) : model[OutputsOf(model)[k]] # "in"
  BY OutputsTyped DEF Engine
<1>2. Outputs \in Seq(Tensors)
  BY <1>1 DEF Outputs, Tensors
<1>3. \A k \in 1 .. Len(Outputs) : Outputs[k] \in Tensors
  BY <1>2
<1>4. \A k \in 1 .. Len(Outputs) : ~IsInput(Outputs[k])
  BY <1>1 DEF Outputs, IsInput
<1> QED BY <1>2, <1>3, <1>4

\* The length of a concatenation.
LEMMA ConcatenationLength ==
  ASSUME NEW S, NEW s \in Seq(S), NEW u \in Seq(S)
  PROVE  Len(s \o u) = Len(s) + Len(u)
  OBVIOUS

\* Two elements before a sequence.
LEMMA AfterTwo ==
  ASSUME NEW S, NEW w \in Seq(S), NEW c \in Seq(S), Len(w) = 2
  PROVE  /\ w \o c \in Seq(S) /\ Len(w \o c) = Len(c) + 2
         /\ (w \o c)[1] = w[1] /\ (w \o c)[2] = w[2]
         /\ \A k \in 1 .. Len(c) : (w \o c)[k + 2] = c[k]
<1>1. w \o c \in Seq(S) /\ Len(w \o c) = Len(c) + 2 /\ Len(c) \in Nat
  <2>1. w \o c \in Seq(S)
    OBVIOUS
  <2>2. Len(w \o c) = Len(w) + Len(c)
    BY ConcatenationLength, Zenon
  <2>3. PICK n \in Nat : n = Len(c)
    OBVIOUS
  <2>4. 2 + n = n + 2
    OBVIOUS
  <2> QED BY <2>1, <2>2, <2>3, <2>4
<1>2. (w \o c)[1] = w[1] /\ (w \o c)[2] = w[2]
  BY <1>1
<1>3. ASSUME NEW k \in 1 .. Len(c) PROVE (w \o c)[k + 2] = c[k]
  <2>1. k + 2 \in 1 .. Len(c) + 2 /\ ~(k + 2 <= 2) /\ (k + 2) - 2 = k
    BY <1>1
  <2> QED BY <1>1, <2>1
<1> QED BY <1>1, <1>2, <1>3

\* What infer() queues: the copy of the blob, the network, a copy of each output.
LEMMA WorkItems ==
  ASSUME Engine, NEW n \in Nat
  PROVE  /\ Work(n) \in Seq(Items) /\ Len(Work(n)) = Len(Outputs) + 2
         /\ Len(Outputs) \in Nat
         /\ Work(n)[1] = ToDevice(n) /\ Work(n)[2] = Run
         /\ \A k \in 1 .. Len(Outputs) : Work(n)[k + 2] = ToHost(Outputs[k])
<1>1. Outputs \in Seq(Tensors) /\ Len(Outputs) \in Nat /\ DOMAIN Outputs = 1 .. Len(Outputs)
      /\ \A k \in 1 .. Len(Outputs) : Outputs[k] \in Nat
  <2>1. Outputs \in Seq(Tensors) /\ Tensors \subseteq Nat
    BY OutputsOk DEF Tensors, Engine
  <2>2. Len(Outputs) \in Nat /\ DOMAIN Outputs = 1 .. Len(Outputs)
    BY <2>1
  <2>3. \A k \in 1 .. Len(Outputs) : Outputs[k] \in Tensors
    BY OutputsOk
  <2> QED BY <2>1, <2>2, <2>3
<1> DEFINE c == CopiesBack
           w == <<ToDevice(n), Run>>
<1>2. c = [i \in 1 .. Len(Outputs) |-> ToHost(Outputs[i])]
  BY <1>1 DEF CopiesBack
<1>3. \A k \in 1 .. Len(Outputs) : c[k] = ToHost(Outputs[k]) /\ c[k] \in Items
  BY <1>1, <1>2 DEF Items
<1>4. c \in Seq(Items) /\ Len(c) = Len(Outputs)
  <2>1. c \in [1 .. Len(Outputs) -> Items]
    BY <1>2, <1>3
  <2> HIDE DEF c
  <2> QED BY <1>1, <2>1
<1>5. ToDevice(n) \in Items /\ Run \in Items
  BY DEF Items
<1>6. w \in Seq(Items) /\ Len(w) = 2 /\ w[1] = ToDevice(n) /\ w[2] = Run
  BY <1>5
<1>7. Work(n) = w \o c
  BY DEF Work
<1> HIDE DEF c, w
<1>8. /\ w \o c \in Seq(Items) /\ Len(w \o c) = Len(Outputs) + 2
      /\ (w \o c)[1] = w[1] /\ (w \o c)[2] = w[2]
      /\ \A k \in 1 .. Len(Outputs) : (w \o c)[k + 2] = c[k]
  BY <1>4, <1>6, AfterTwo
<1> QED BY <1>1, <1>3, <1>6, <1>7, <1>8

\* The stream is empty but while infer() waits or an exception unwinds.
LEMMA QueuedKept == ASSUME Latest, Engine, Queued, [Next]_vars PROVE Queued'
<1> USE DEF Goto, Raise
<1>0. queue \in Seq(Items) /\ DOMAIN device = Tensors /\ DOMAIN host = Tensors /\ blob \in Nat
  BY DEF Queued, Latest
<1>1. ASSUME UNCHANGED <<queue, device, host, model>>,
             worker' \notin {"sync", "throw", "~engine"} => queue = <<>>
      PROVE  Queued'
  BY <1>1 DEF Queued, Tensors
<1>2. CASE WorkerInfer
  <2>1. worker = "infer" /\ queue = <<>>
    BY <1>2 DEF WorkerInfer, Queued
  <2>2. UNCHANGED <<device, host, model>> /\ worker' \in {"sync", "throw"}
    BY <1>2 DEF WorkerInfer, InferEnqueue, InferThrows
  <2>3. queue' \in Seq(Items)
    <3>1. Work(blob) \in Seq(Items) /\ Len(Work(blob)) \in Nat
      BY <1>0, WorkItems
    <3>2. \A k \in 0 .. Len(Work(blob)) : SubSeq(Work(blob), 1, k) \in Seq(Items)
      BY <3>1
    <3>3. \E s \in Seq(Items) : queue' = queue \o s
      BY <1>2, <3>1, <3>2 DEF WorkerInfer, InferEnqueue, InferThrows
    <3> QED BY <1>0, <3>3
  <2> QED BY <1>0, <2>2, <2>3 DEF Queued, Tensors
<1>3. CASE GpuStep
  <2>1. queue # <<>> /\ queue' = Tail(queue) /\ UNCHANGED <<model, worker>>
    BY <1>3 DEF GpuStep, StreamStep, nodeVars
  <2>2. worker \in {"sync", "throw", "~engine"}
    BY <2>1 DEF Queued
  <2>3. queue' \in Seq(Items)
    BY <1>0, <2>1, TailOf
  <2>4. DOMAIN device' = Tensors /\ DOMAIN host' = Tensors
    BY <1>0, <1>3 DEF GpuStep, StreamStep
  <2> QED BY <2>1, <2>2, <2>3, <2>4 DEF Queued, Tensors
<1>4. CASE WorkerSync
  <2>1. UNCHANGED <<queue, device, host, model>> /\ (worker' = "throw" \/ queue = <<>>)
    BY <1>4 DEF WorkerSync, Synchronized, engineVars
  <2> QED BY <1>1, <2>1
<1>5. CASE WorkerDestroyEngine
  <2>1. UNCHANGED <<queue, device, host, model>> /\ queue = <<>>
    BY <1>5 DEF WorkerDestroyEngine, EngineDestroy
  <2> QED BY <1>1, <2>1
<1>6. CASE WorkerStop \/ WorkerUnwind
  <2>1. UNCHANGED <<queue, device, host, model>> /\ worker' = "~engine"
    BY <1>6 DEF WorkerStop, WorkerUnwind, engineVars
  <2> QED BY <1>1, <2>1
<1>7. CASE WorkerLoad \/ WorkerBind
  <2>1. UNCHANGED <<queue, device, host, model>> /\ worker \in {"load", "bind"}
    BY <1>7 DEF WorkerLoad, WorkerBind, LoadContext, LoadThrows, Bind, BindThrows,
                ChooseInput, ChooseInputThrows, engineVars
  <2> QED BY <1>1, <2>1 DEF Queued
<1>8. CASE WorkerCan \/ WorkerStart \/ WorkerCheck \/ WorkerPull \/ WorkerSkip
           \/ WorkerLetterbox \/ WorkerPublish \/ WorkerBurst \/ WorkerRecord
           \/ WorkerDestroySource \/ WorkerCatch
  <2>1. UNCHANGED <<queue, device, host, model>> /\ worker \notin {"sync", "throw", "~engine"}
    BY <1>8 DEF WorkerCan, WorkerStart, WorkerCheck, WorkerPull, WorkerSkip,
                WorkerLetterbox, WorkerPublish, WorkerBurst, WorkerRecord,
                WorkerDestroySource, WorkerCatch, engineVars
  <2> QED BY <1>1, <2>1 DEF Queued
<1>9. CASE MainStep \/ Environment \/ Ended \/ UNCHANGED vars
  <2>1. UNCHANGED <<queue, device, host, model, worker>>
    BY <1>9 DEF MainStep, MainEnterSpin, MainLeaveSpin, MainJoin, Environment, RosShutdown,
                Ended, vars, nodeVars, engineVars
  <2> QED BY <1>1, <2>1 DEF Queued
<1> QED BY <1>2, <1>3, <1>4, <1>5, <1>6, <1>7, <1>8, <1>9 DEF Next, WorkerStep

\* infer() has queued everything and nothing is done.
LEMMA EnqueuedPending ==
  ASSUME Engine, Queued, queue = <<>>, blob \in Nat, blob' = blob, InferEnqueue(blob)
  PROVE  Pending'
<1>1. queue' = queue \o Work(blob) /\ UNCHANGED <<model, input_idx_, host, device>>
  BY DEF InferEnqueue
<1>2. /\ Work(blob) \in Seq(Items) /\ Len(Work(blob)) = Len(Outputs) + 2
      /\ Len(Outputs) \in Nat
      /\ Work(blob)[1] = ToDevice(blob) /\ Work(blob)[2] = Run
      /\ \A k \in 1 .. Len(Outputs) : Work(blob)[k + 2] = ToHost(Outputs[k])
  BY WorkItems
<1>3. queue' = Work(blob)
  BY <1>1, <1>2
<1>4. Outputs' = Outputs /\ Tensors' = Tensors
  BY <1>1 DEF Outputs, Tensors
<1>5. PICK l \in Nat : l = Len(Outputs)
  BY <1>2
<1>6. /\ Len(queue') = l + 2 /\ queue'[1] = ToDevice(blob) /\ queue'[2] = Run
      /\ \A k \in 1 .. l : queue'[k + 2] = ToHost(Outputs[k])
  BY <1>2, <1>3, <1>5
<1>7. \A i \in 1 .. l + 2 : i = 1 \/ i = 2 \/ i - 2 \in 1 .. l
  OBVIOUS
<1>8. \A i \in 1 .. l + 2 : i - 2 \in 1 .. l => queue'[i].op = "d2h"
  <2> SUFFICES ASSUME NEW i \in 1 .. l + 2, i - 2 \in 1 .. l PROVE queue'[i].op = "d2h"
    OBVIOUS
  <2>1. queue'[(i - 2) + 2] = ToHost(Outputs[i - 2]) /\ (i - 2) + 2 = i
    BY <1>6
  <2> QED BY <2>1, ItemKinds
<1>9. queue'[1].op = "h2d" /\ queue'[1].frame = blob /\ queue'[2].op = "enqueueV3"
  BY <1>6, ItemKinds
<1>10. \A i \in 1 .. l + 2 : queue'[i].op = "h2d" => i = 1 /\ queue'[i].frame = blob
  BY <1>7, <1>8, <1>9
<1>11. \A i \in 1 .. l + 2 : queue'[i].op = "enqueueV3" => i = 1 \/ (i = 2 /\ queue'[1].op = "h2d")
  BY <1>7, <1>8, <1>9
<1>12. 1 \in 1 .. l + 2 /\ 2 \in 1 .. l + 2
  OBVIOUS
<1>13. \A k \in 1 .. l : \E i \in 1 .. l + 2 : queue'[i] = ToHost(Outputs[k])
  <2> SUFFICES ASSUME NEW k \in 1 .. l
               PROVE  \E i \in 1 .. l + 2 : queue'[i] = ToHost(Outputs[k])
    OBVIOUS
  <2>1. k + 2 \in 1 .. l + 2 /\ queue'[k + 2] = ToHost(Outputs[k])
    BY <1>6
  <2> QED BY <2>1
<1> QED BY <1>4, <1>5, <1>6, <1>9, <1>10, <1>11, <1>12, <1>13 DEF Pending

\* The stream does the next piece of work.
LEMMA StreamStepPending ==
  ASSUME Engine, Queued, Pending, StreamStep, blob' = blob,
         input_idx_ \in Tensors, IsInput(input_idx_)
  PROVE  Pending'
<1>1. /\ queue \in Seq(Items) /\ DOMAIN device = Tensors /\ DOMAIN host = Tensors
      /\ queue # <<>> /\ queue' = Tail(queue) /\ UNCHANGED <<model, input_idx_>>
  BY DEF Queued, StreamStep
<1>2. /\ Head(queue) = queue[1] /\ Len(queue) \in Nat /\ Len(queue) >= 1
      /\ Len(queue') = Len(queue) - 1 /\ queue[1] \in Items
      /\ \A i \in 1 .. Len(queue') : queue'[i] = queue[i + 1] /\ i + 1 \in 1 .. Len(queue)
  BY <1>1, TailOf
<1>3. Outputs' = Outputs /\ Tensors' = Tensors /\ \A t : IsInput(t)' = IsInput(t)
  BY <1>1 DEF Outputs, Tensors, IsInput
<1>4. PICK n \in Nat : n = Len(queue')
  BY <1>2
<1>5. /\ n + 1 = Len(queue) /\ 1 \in 1 .. n + 1
      /\ \A i \in 1 .. n : queue'[i] = queue[i + 1] /\ i + 1 \in 1 .. n + 1 /\ i + 1 # 1
  BY <1>2, <1>4
<1>6. \A i \in 2 .. n + 1 : i - 1 \in 1 .. n /\ queue'[i - 1] = queue[i]
  <2> SUFFICES ASSUME NEW i \in 2 .. n + 1 PROVE i - 1 \in 1 .. n /\ queue'[i - 1] = queue[i]
    OBVIOUS
  <2>1. i - 1 \in 1 .. n /\ (i - 1) + 1 = i
    OBVIOUS
  <2> QED BY <1>5, <2>1
<1>7. \A i \in 1 .. n + 1 : i = 1 \/ i \in 2 .. n + 1
  OBVIOUS
<1>8. \A i \in 1 .. n : queue'[i].op # "h2d"
  BY <1>5 DEF Pending
<1>9. ASSUME NEW i \in 1 .. n, queue'[i].op = "enqueueV3" PROVE i = 1 /\ queue[1].op = "h2d"
  <2>1. i + 1 = 1 \/ (i + 1 = 2 /\ queue[1].op = "h2d")
    BY <1>5, <1>9 DEF Pending
  <2> QED BY <2>1
<1>10. /\ \A k \in 1 .. Len(Outputs) : Outputs[k] \in Tensors /\ ~IsInput(Outputs[k])
  BY OutputsOk
<1>11. ASSUME device'[input_idx_] = blob,
              \/ \E i \in 1 .. n : queue'[i].op = "enqueueV3"
              \/ \A t \in Tensors : ~IsInput(t) => device'[t] = blob,
              \A k \in 1 .. Len(Outputs) :
                \/ \E i \in 1 .. n : queue'[i] = ToHost(Outputs[k])
                \/ host'[Outputs[k]] = blob
       PROVE  Pending'
  BY <1>1, <1>3, <1>4, <1>8, <1>9, <1>11 DEF Pending
<1>12. ASSUME NEW k \in 1 .. Len(Outputs), host[Outputs[k]] # blob,
              queue[1] # ToHost(Outputs[k])
       PROVE  \E i \in 1 .. n : queue'[i] = ToHost(Outputs[k])
  <2>1. PICK i \in 1 .. n + 1 : queue[i] = ToHost(Outputs[k])
    BY <1>5, <1>12 DEF Pending
  <2>2. i \in 2 .. n + 1
    BY <1>7, <1>12, <2>1
  <2> QED BY <1>6, <2>1, <2>2
<1>13. CASE queue[1].op = "h2d"
  <2>1. device' = [device EXCEPT ![input_idx_] = blob] /\ host' = host
    <3>1. queue[1].frame = blob
      BY <1>5, <1>13 DEF Pending
    <3> QED BY <1>2, <1>13, <3>1 DEF StreamStep
  <2>2. device'[input_idx_] = blob /\ \A t \in Tensors : ~IsInput(t) => device'[t] = device[t]
    BY <1>1, <2>1
  <2>3. \/ \E i \in 1 .. n : queue'[i].op = "enqueueV3"
        \/ \A t \in Tensors : ~IsInput(t) => device'[t] = blob
    <3>1. CASE \E i \in 1 .. n + 1 : queue[i].op = "enqueueV3"
      <4>1. PICK i \in 1 .. n + 1 : queue[i].op = "enqueueV3"
        BY <3>1
      <4>2. i \in 2 .. n + 1
        BY <1>7, <1>13, <4>1
      <4> QED BY <1>6, <4>1, <4>2
    <3>2. CASE \A t \in Tensors : ~IsInput(t) => device[t] = blob
      BY <2>2, <3>2
    <3> QED BY <1>5, <3>1, <3>2 DEF Pending
  <2>4. \A k \in 1 .. Len(Outputs) : queue[1] # ToHost(Outputs[k])
    BY <1>13, ItemKinds
  <2> QED BY <1>11, <1>12, <2>1, <2>2, <2>3, <2>4
<1>14. CASE queue[1].op # "h2d"
  <2>1. \A i \in 1 .. n + 1 : queue[i].op # "h2d"
    BY <1>5, <1>14 DEF Pending
  <2>2. device[input_idx_] = blob
    BY <1>5, <2>1 DEF Pending
  <2>3. \A i \in 1 .. n : queue'[i].op # "enqueueV3"
    BY <1>9, <1>14
  <2>4. CASE queue[1].op = "enqueueV3"
    <3>1. device' = [t \in Tensors |-> IF IsInput(t) THEN device[t] ELSE device[input_idx_]]
          /\ host' = host
      BY <1>2, <2>4 DEF StreamStep
    <3>2. device'[input_idx_] = blob /\ \A t \in Tensors : ~IsInput(t) => device'[t] = blob
      BY <2>2, <3>1
    <3>3. \A k \in 1 .. Len(Outputs) : queue[1] # ToHost(Outputs[k])
      BY <2>4, ItemKinds
    <3> QED BY <1>11, <1>12, <3>1, <3>2, <3>3
  <2>5. CASE queue[1].op # "enqueueV3"
    <3>1. \A t \in Tensors : ~IsInput(t) => device[t] = blob
      <4>1. ASSUME NEW i \in 1 .. n + 1, queue[i].op = "enqueueV3" PROVE FALSE
        BY <1>5, <1>14, <2>5, <4>1 DEF Pending
      <4> QED BY <1>5, <4>1 DEF Pending
    <3>2. host' = [host EXCEPT ![queue[1].tensor] = device[queue[1].tensor]] /\ device' = device
      BY <1>2, <1>14, <2>5 DEF StreamStep
    <3>3. \A t \in Tensors : queue[1].tensor = t => host'[t] = device[t]
      BY <1>1, <3>2
    <3>4. \A t \in Tensors : queue[1].tensor # t => host'[t] = host[t]
      BY <1>1, <3>2
    <3>5. ASSUME NEW k \in 1 .. Len(Outputs)
          PROVE  \/ \E i \in 1 .. n : queue'[i] = ToHost(Outputs[k])
                 \/ host'[Outputs[k]] = blob
      <4>1. Outputs[k] \in Tensors /\ device[Outputs[k]] = blob
        BY <1>10, <3>1
      <4>2. CASE queue[1].tensor = Outputs[k]
        BY <3>3, <4>1, <4>2
      <4>3. CASE queue[1].tensor # Outputs[k]
        <5>1. host'[Outputs[k]] = host[Outputs[k]] /\ queue[1] # ToHost(Outputs[k])
          BY <3>4, <4>1, <4>3, ItemKinds
        <5> QED BY <1>12, <5>1
      <4> QED BY <4>2, <4>3
    <3> QED BY <1>11, <2>2, <3>1, <3>2, <3>5
  <2> QED BY <2>4, <2>5
<1> QED BY <1>13, <1>14

\* The detections of the frame.
LEMMA ComputingKept == ASSUME IInv, [Next]_vars PROVE Computing'
<1> USE DEF Goto, Raise
<1>0. /\ Latest /\ Owned /\ Engine /\ Queued /\ Computing /\ blob \in Nat
      /\ worker \in Running \ {"load", "bind"} => input_idx_ \in Tensors /\ IsInput(input_idx_)
  BY DEF IInv, Latest, Engine
<1>1. ASSUME UNCHANGED <<model, published>>, worker' \notin {"sync", "publish"}
      PROVE  Computing'
  BY <1>0, <1>1 DEF Computing, DetectionsMatchFrame, Outputs
<1>2. CASE WorkerInfer
  <2>1. worker = "infer" /\ queue = <<>> /\ UNCHANGED <<model, published, blob>>
    BY <1>0, <1>2 DEF WorkerInfer, InferEnqueue, InferThrows, Queued
  <2>2. CASE worker' = "sync" /\ InferEnqueue(blob)
    <3>1. Pending'
      BY <1>0, <2>1, <2>2, EnqueuedPending
    <3>2. DetectionsMatchFrame'
      BY <1>0, <2>1 DEF Computing, DetectionsMatchFrame, Outputs
    <3> QED BY <2>2, <3>1, <3>2 DEF Computing
  <2>3. CASE worker' = "throw"
    BY <1>1, <2>1, <2>3
  <2> QED BY <1>2, <2>2, <2>3 DEF WorkerInfer
<1>3. CASE GpuStep
  <2>1. UNCHANGED <<model, published, worker, blob>> /\ StreamStep /\ queue # <<>>
    BY <1>3 DEF GpuStep, StreamStep, nodeVars
  <2>2. CASE worker = "sync"
    <3>1. Pending'
      BY <1>0, <2>1, <2>2, StreamStepPending DEF Computing, Running
    <3>2. DetectionsMatchFrame'
      BY <1>0, <2>1 DEF Computing, DetectionsMatchFrame, Outputs
    <3> QED BY <2>1, <2>2, <3>1, <3>2 DEF Computing
  <2>3. CASE worker # "sync"
    <3>1. worker' \notin {"sync", "publish"}
      BY <1>0, <2>1, <2>3 DEF Queued
    <3> QED BY <1>1, <2>1, <3>1
  <2> QED BY <2>2, <2>3
<1>4. CASE WorkerSync
  <2>1. worker = "sync" /\ UNCHANGED <<model, published, host, blob>>
    BY <1>4 DEF WorkerSync, engineVars
  <2>2. CASE worker' = "publish" /\ queue = <<>>
    <3>1. Len(queue) = 0 /\ \A i \in 1 .. 0 : FALSE
      BY <2>2
    <3>2. \A k \in 1 .. Len(Outputs) : host[Outputs[k]] = blob
      BY <1>0, <2>1, <3>1 DEF Computing, Pending
    <3>3. Outputs' = Outputs
      BY <2>1 DEF Outputs
    <3>4. DetectionsMatchFrame'
      BY <1>0, <2>1 DEF Computing, DetectionsMatchFrame, Outputs
    <3> QED BY <2>1, <2>2, <3>2, <3>3, <3>4 DEF Computing
  <2>3. CASE worker' = "throw"
    BY <1>1, <2>1, <2>3
  <2> QED BY <1>4, <2>2, <2>3 DEF WorkerSync, Synchronized
<1>5. CASE WorkerPublish
  <2>1. worker = "publish" /\ UNCHANGED model
    BY <1>5 DEF WorkerPublish, engineVars
  <2>2. CASE worker' = "burst" /\ published' = Message
    <3>1. Outputs' = Outputs
      BY <2>1 DEF Outputs
    <3>2. published'.frame = frame.sample_ /\ published'.dets = Decoded
      BY <2>2 DEF Message
    <3>3. blob = frame.sample_
      BY <1>0, <2>1 DEF Owned
    <3>4. Outputs # <<>> => host[Outputs[1]] = blob
      <4>1. Outputs \in Seq(Tensors)
        BY <1>0, OutputsOk
      <4>2. Outputs # <<>> => 1 \in 1 .. Len(Outputs)
        BY <4>1
      <4> QED BY <1>0, <2>1, <4>2 DEF Computing
    <3>5. DetectionsMatchFrame'
      BY <3>1, <3>2, <3>3, <3>4 DEF DetectionsMatchFrame, Decoded
    <3> QED BY <2>2, <3>5 DEF Computing
  <2>3. CASE worker' = "throw" /\ UNCHANGED published
    BY <1>1, <2>1, <2>3
  <2> QED BY <1>5, <2>2, <2>3 DEF WorkerPublish
<1>6. CASE WorkerLoad \/ WorkerBind \/ WorkerCan \/ WorkerStart \/ WorkerCheck
           \/ WorkerPull \/ WorkerSkip \/ WorkerLetterbox \/ WorkerBurst \/ WorkerRecord
           \/ WorkerStop \/ WorkerUnwind \/ WorkerDestroyEngine \/ WorkerDestroySource
           \/ WorkerCatch
  <2>1. UNCHANGED <<model, published>> /\ worker' \notin {"sync", "publish"}
    BY <1>6 DEF WorkerLoad, WorkerBind, WorkerCan, WorkerStart, WorkerCheck, WorkerPull,
                WorkerSkip, WorkerLetterbox, WorkerBurst, WorkerRecord, WorkerStop,
                WorkerUnwind, WorkerDestroyEngine, WorkerDestroySource, WorkerCatch,
                LoadContext, LoadThrows, Bind, BindThrows, ChooseInput, ChooseInputThrows,
                EngineDestroy, engineVars
  <2> QED BY <1>1, <2>1
<1>7. CASE MainStep \/ Environment \/ Ended \/ UNCHANGED vars
  <2>1. UNCHANGED <<model, published, worker, queue, device, host, input_idx_, blob>>
    BY <1>7 DEF MainStep, MainEnterSpin, MainLeaveSpin, MainJoin, Environment, RosShutdown,
                Ended, vars, nodeVars, engineVars
  <2> QED BY <1>0, <2>1
          DEF Computing, Pending, DetectionsMatchFrame, Outputs, Tensors, IsInput
<1> QED BY <1>2, <1>3, <1>4, <1>5, <1>6, <1>7 DEF Next, WorkerStep

-------------------------------------------------------------------------------
(* Theorems *)

\* The inductive invariant holds of every behaviour of the detector.
THEOREM InvariantHolds == Spec => []IInv
<1>1. Init => IInv
  BY InitHolds
<1>2. IInv /\ [Next]_vars => IInv'
  BY ControlKept, LatestKept, OwnedKept, EngineKept, QueuedKept, ComputingKept, BurstKept
  DEF IInv
<1> QED BY <1>1, <1>2, PTL DEF Spec

\* A message carries the detections of its own frame, for engines with any number of
\* outputs in any place among the tensors: WorkerSync waits for all the queued copies.
THEOREM DetectionsMatchHolds == Spec => []DetectionsMatchFrame
<1>1. IInv => DetectionsMatchFrame
  BY DEF IInv, Computing
<1> QED BY <1>1, InvariantHolds, PTL

\* Every sample is unreferenced and unmapped by the end of its iteration, on every
\* path through the loop and out of it.
THEOREM SamplesReturnedHolds == Spec => []SamplesReturned
<1>1. IInv => SamplesReturned
  <2> SUFFICES ASSUME IInv PROVE SamplesReturned
    OBVIOUS
  <2>1. frame = NoSample => held = {}
    BY DEF IInv, Owned, NoSample
  <2>2. held = {frame.sample_} \ {0} /\ mapped \subseteq held
    BY DEF IInv, Owned
  <2>3. worker \in {"check", "pull", "stop", "~engine", "done"} => frame = NoSample
    BY DEF IInv, Owned, WithFrame
  <2> QED BY <2>1, <2>2, <2>3 DEF SamplesReturned
<1> QED BY <1>1, InvariantHolds, PTL

\* A pulled frame is newer than the last one used and among the latest that the
\* camera delivered: the appsink drops the oldest sample, never the newest.
THEOREM PulledFreshHolds == Spec => PulledFresh
<1>1. IInv /\ [Next]_vars =>
        [frame'.sample_ \notin {0, frame.sample_} =>
           /\ frame'.sample_ > blob
           /\ frame'.sample_ > camera - SinkBuffers]_vars
  <2> SUFFICES ASSUME IInv, Next, frame'.sample_ \notin {0, frame.sample_}
               PROVE  frame'.sample_ > blob /\ frame'.sample_ > camera - SinkBuffers
    OBVIOUS
  <2>1. UNCHANGED frame \/ frame' = NoSample \/ NextSample
    <3>1. CASE WorkerPull
      BY <3>1 DEF WorkerPull, NextInvalid
    <3>2. CASE WorkerSkip \/ WorkerRecord \/ WorkerUnwind
      BY <3>2 DEF WorkerSkip, WorkerRecord, WorkerUnwind, FrameRelease
    <3>3. CASE WorkerLoad \/ WorkerBind \/ WorkerCan \/ WorkerCheck \/ WorkerLetterbox
               \/ WorkerInfer \/ WorkerSync \/ WorkerPublish \/ WorkerBurst
               \/ WorkerDestroyEngine \/ WorkerCatch
      BY <3>3 DEF WorkerLoad, WorkerBind, WorkerCan, WorkerCheck, WorkerLetterbox,
                  WorkerInfer, WorkerSync, WorkerPublish, WorkerBurst,
                  WorkerDestroyEngine, WorkerCatch, sourceVars
    <3>4. CASE WorkerStart \/ WorkerStop \/ WorkerDestroySource
      BY <3>4 DEF WorkerStart, WorkerStop, WorkerDestroySource, SourceStarts,
                  SourceStartThrows, SourceStop
    <3>5. CASE MainStep \/ Environment \/ GpuStep \/ Ended
      BY <3>5 DEF MainStep, MainEnterSpin, MainLeaveSpin, MainJoin,
          Environment, Capture, EndOfStream,
                  RosShutdown, GpuStep, Ended, vars, sourceVars
    <3> QED BY <3>1, <3>2, <3>3, <3>4, <3>5 DEF Next, WorkerStep
  <2>2. NextSample
    BY <2>1 DEF NoSample
  <2> QED BY <2>2, PullTakesOldest DEF IInv
<1> QED BY <1>1, InvariantHolds, PTL DEF Spec, PulledFresh

\* Wherever an exception leaves run(), the destructors give everything back but at
\* most one tensor's memory, whose address could not be set.
THEOREM NothingLeftHolds == Spec => []WorkerLeavesNothing
<1>1. IInv => WorkerLeavesNothing
  <2> SUFFICES ASSUME IInv, worker = "done"
               PROVE  /\ pipeline_ = "none" /\ ~appsink_ /\ held = {} /\ mapped = {}
                      /\ ~stream_ /\ queue = <<>> /\ ~can
                      /\ \A s, t \in allocated : s = t
                      /\ allocated # {} => thrown /\ input_idx_ = 0
    BY DEF WorkerLeavesNothing
  <2>1. pipeline_ = "none" /\ ~appsink_ /\ frame = NoSample
    BY DEF IInv, Owned, WithFrame
  <2>2. held = {} /\ mapped = {}
    BY <2>1 DEF IInv, Owned, NoSample
  <2>3. ~stream_ /\ bindings_ = 0 /\ queue = <<>> /\ ~can
    BY DEF IInv, Engine, Queued, Control, Unwinding
  <2>4. Leaked = allocated
    BY <2>3 DEF Leaked
  <2> QED BY <2>1, <2>2, <2>3, <2>4 DEF IInv, Engine
<1> QED BY <1>1, InvariantHolds, PTL

\* The CAN frames of a set are numbered from 0 and announce its length, also when
\* there are more detections than a byte can count.
THEOREM CanSetHolds == Spec => []CanSetWellFormed
<1>1. IInv => CanSetWellFormed
  <2> SUFFICES ASSUME IInv PROVE CanSetWellFormed
    OBVIOUS
  <2>1. /\ count \in Nat /\ wire \in Seq(Numbered) /\ Len(wire) <= Total
        /\ \A k \in 1 .. Len(wire) : wire[k].index = k - 1 /\ wire[k].total = Total
        /\ (worker = "record" /\ can /\ ~cut => Len(wire) = Total)
    BY DEF IInv, Burst
  <2>2. PICK n \in Nat : n = Len(wire) /\ DOMAIN wire = 1 .. n
    BY <2>1
  <2>3. Total \in Nat /\ n <= Total
    BY <2>1, <2>2, BytesAssumption DEF Total
  <2>4. ASSUME NEW k \in DOMAIN wire
        PROVE  wire[k].index = k - 1 /\ k <= wire[k].total /\ wire[k].total = wire[1].total
    <3>1. k \in 1 .. n /\ 1 \in 1 .. n
      BY <2>2
    <3>2. k <= Total
      BY <2>3, <3>1
    <3> QED BY <2>1, <2>2, <3>1, <3>2
  <2>5. ASSUME worker = "record", can, ~cut, wire = <<>> PROVE count = 0
    <3>1. Total = 0
      BY <2>1, <2>5
    <3> QED BY <2>1, <3>1, BytesAssumption DEF Total
  <2>6. ASSUME worker = "record", can, ~cut, wire # <<>> PROVE Len(wire) = wire[1].total
    <3>1. 1 \in 1 .. Len(wire)
      BY <2>1, <2>6
    <3> QED BY <2>1, <2>6, <3>1
  <2> QED BY <2>4, <2>5, <2>6 DEF CanSetWellFormed
<1> QED BY <1>1, InvariantHolds, PTL

-------------------------------------------------------------------------------
(* Numbers, for what follows *)

\* The smaller and the larger of two numbers.
LEMMA MinOfTwo ==
  ASSUME NEW a \in Int, NEW b \in Int
  PROVE  Min({a, b}) = IF a <= b THEN a ELSE b
<1> DEFINE c == IF a <= b THEN a ELSE b
<1>1. c \in {a, b} /\ \A y \in {a, b} : c <= y
  OBVIOUS
<1>2. \A x \in {a, b} : (\A y \in {a, b} : x <= y) => x = c
  OBVIOUS
<1> HIDE DEF c
<1>3. Min({a, b}) = c
  BY <1>1, <1>2 DEF Min
<1> QED
  BY <1>3 DEF c

\* The larger of two numbers.
LEMMA MaxOfTwo ==
  ASSUME NEW a \in Int, NEW b \in Int
  PROVE  Max({a, b}) = IF a >= b THEN a ELSE b
<1> DEFINE c == IF a >= b THEN a ELSE b
<1>1. c \in {a, b} /\ \A y \in {a, b} : c >= y
  OBVIOUS
<1>2. \A x \in {a, b} : (\A y \in {a, b} : x >= y) => x = c
  OBVIOUS
<1> HIDE DEF c
<1>3. Max({a, b}) = c
  BY <1>1, <1>2 DEF Max
<1> QED
  BY <1>3 DEF c

\* Division by a positive number: the quotient and the remainder's bounds.
LEMMA Quotient ==
  ASSUME NEW v \in Int, NEW m \in Nat, 0 < m
  PROVE  /\ v \div m \in Int
         /\ m * (v \div m) \in Int
         /\ m * (v \div m) <= v
         /\ v < m * (v \div m) + m
OBVIOUS

\* Multiplying by a natural number keeps the order.
LEMMA TimesMonotone ==
  ASSUME NEW a \in Int, NEW b \in Int, NEW m \in Nat, a <= b
  PROVE  m * a <= m * b
OBVIOUS

\* One dimension of PixelMapsBack, in quarters of 1/n of a pixel: pixel k of the resized
\* image begins at a = k d and is d wide, the frame ends at b, and the copied pixel begins
\* at c, which is the multiple q of n below the pixel's centre, kept inside the frame.
LEMMA OneDimension ==
  ASSUME NEW lb, NEW n \in Nat \ {0}, NEW d \in Nat \ {0}, lb.num = n, lb.den = d,
         NEW src \in Nat \ {0}, NEW pad \in Int, NEW k \in Nat,
         k < (2 * src * n + d) \div (2 * d)
  PROVE  LET back == Unletterbox(lb, 2 * (k + pad) + 1, 2, pad, src)
             off  == 2 * back[1] + back[2] - (2 * Sampled(lb, k, src) + 1) * (4 * lb.num)
             over  == Max({0, 4 * (k + 1) * lb.den - src * (4 * lb.num)})
         IN  -(4 * lb.num) - over < off /\ off < 2 * (4 * lb.num)
<1> DEFINE a == k * d
           b == src * n
           q0 == ((2 * k + 1) * d - n) \div (2 * n)
           S == Min({src - 1, Max({0, q0})})
           q == n * q0
           c == n * S
           x == Clamp(4 * a, 0, 4 * b - 4 * n)
           w == Clamp(4 * d, 0, 4 * b - x)
           over == Max({0, 4 * a + 4 * d - 4 * b})
<1>1. a \in Nat /\ b \in Nat /\ n <= b
  OBVIOUS
<1>2. 2 * a + d <= 2 * b
  <2> DEFINE t == (2 * src * n + d) \div (2 * d)
  <2>1. 2 * src * n + d = 2 * b + d /\ 2 * d \in Nat /\ 0 < 2 * d
    OBVIOUS
  <2>2. t \in Int /\ (2 * d) * t \in Int /\ (2 * d) * t <= 2 * b + d
    <3>1. 2 * src * n + d \in Int
      BY <1>1, <2>1
    <3> HIDE DEF b
    <3> QED BY <3>1, <2>1, Quotient
  <2> HIDE DEF t, b
  <2>3. (2 * d) * (k + 1) <= (2 * d) * t
    <3>1. k + 1 \in Int /\ k + 1 <= t
      BY <2>2 DEF t
    <3> QED BY <3>1, <2>1, <2>2, TimesMonotone
  <2>4. (2 * d) * (k + 1) = 2 * a + 2 * d
    OBVIOUS
  <2> HIDE DEF a
  <2> QED BY <1>1, <2>2, <2>3, <2>4
<1>3. /\ q0 \in Int /\ q \in Int
      /\ 2 * q <= 2 * a + d - n
      /\ 2 * a + d - n < 2 * q + 2 * n
  <2>1. (2 * k + 1) * d - n = 2 * a + d - n
    OBVIOUS
  <2>2. 2 * a + d - n \in Int /\ 2 * n \in Nat /\ 0 < 2 * n
    OBVIOUS
  <2>3. /\ q0 \in Int /\ (2 * n) * q0 \in Int
        /\ (2 * n) * q0 <= 2 * a + d - n
        /\ 2 * a + d - n < (2 * n) * q0 + 2 * n
    <3> HIDE DEF a
    <3> QED BY <2>1, <2>2, Quotient, Zenon
  <2> HIDE DEF q0, a
  <2>4. (2 * n) * q0 = 2 * q /\ q \in Int
    BY <2>3
  <2> HIDE DEF q
  <2> QED BY <2>3, <2>4
<1>4. /\ S \in Int /\ c \in Int
      /\ \/ c = 0 /\ q <= -n
         \/ c = b - n /\ b <= q
         \/ c = q /\ 0 <= q /\ q <= b - n
  <2> HIDE DEF q0
  <2>1. Max({0, q0}) = IF 0 >= q0 THEN 0 ELSE q0
    BY <1>3, MaxOfTwo
  <2>2. S = IF src - 1 <= Max({0, q0}) THEN src - 1 ELSE Max({0, q0})
    <3>1. Max({0, q0}) \in Int /\ src - 1 \in Int
      BY <1>3, <2>1
    <3> QED BY <3>1, MinOfTwo, Zenon
  <2>3. CASE q0 < 0
    <3>1. S = 0 /\ q0 <= -1
      BY <1>3, <2>1, <2>2, <2>3
    <3> HIDE DEF S
    <3>2. n * q0 <= n * (-1)
      BY <1>3, <3>1, TimesMonotone
    <3> QED BY <3>1, <3>2
  <2>4. CASE 0 <= q0 /\ q0 <= src - 1
    <3>1. S = q0
      BY <1>3, <2>1, <2>2, <2>4
    <3> HIDE DEF S
    <3>2. n * q0 <= n * (src - 1) /\ n * 0 <= n * q0
      BY <1>3, <2>4, TimesMonotone
    <3>3. n * (src - 1) = b - n /\ n * 0 = 0
      OBVIOUS
    <3> HIDE DEF b
    <3> QED BY <1>3, <3>1, <3>2, <3>3
  <2>5. CASE src <= q0
    <3>1. S = src - 1
      BY <1>3, <2>1, <2>2, <2>5
    <3> HIDE DEF S
    <3>2. n * src <= n * q0
      BY <1>3, <2>5, TimesMonotone
    <3>3. n * (src - 1) = b - n /\ n * src = b
      OBVIOUS
    <3> HIDE DEF b
    <3> QED BY <1>1, <1>3, <3>1, <3>2, <3>3
  <2> QED BY <1>3, <2>3, <2>4, <2>5
<1>5. over = IF 0 >= 4 * a + 4 * d - 4 * b THEN 0 ELSE 4 * a + 4 * d - 4 * b
  <2>1. 4 * a + 4 * d - 4 * b \in Int
    BY <1>1
  <2> HIDE DEF a, b
  <2> QED BY <2>1, MaxOfTwo
<1>6. x \in Int /\ w \in Int /\ over \in Int
  <2> HIDE DEF a, b
  <2>1. x \in Int
    BY <1>1 DEF Clamp
  <2> HIDE DEF x, over
  <2> QED BY <1>1, <1>5, <2>1 DEF Clamp
<1>7. -(4 * n) - over < 2 * x + w - (8 * c + 4 * n) /\ 2 * x + w - (8 * c + 4 * n) < 8 * n
  <2>1. /\ x = Clamp(4 * a, 0, 4 * b - 4 * n) /\ w = Clamp(4 * d, 0, 4 * b - x)
    OBVIOUS
  <2>2. d \in Nat /\ 0 < d
    OBVIOUS
  <2> HIDE DEF a, b, q, c, x, w, over, S
  <2>3. x = IF 4 * a > 4 * b - 4 * n THEN 4 * b - 4 * n ELSE 4 * a
    BY <1>1, <1>6, <2>1 DEF Clamp
  <2>4. x <= 4 * b /\ w = IF 4 * d > 4 * b - x THEN 4 * b - x ELSE 4 * d
    BY <1>1, <1>6, <2>1, <2>3 DEF Clamp
  <2>5. CASE c = 0 /\ q <= -n
    BY <1>1, <1>2, <1>3, <1>4, <1>5, <1>6, <2>3, <2>4, <2>5
  <2>6. CASE c = b - n /\ b <= q
    BY <1>1, <1>2, <1>3, <1>4, <1>5, <1>6, <2>3, <2>4, <2>6
  <2>7. CASE c = q /\ 0 <= q /\ q <= b - n
    BY <1>1, <1>2, <1>3, <1>4, <1>5, <1>6, <2>3, <2>4, <2>7
  <2> QED BY <1>4, <2>5, <2>6, <2>7
<1>8. /\ (2 * (2 * (k + pad) + 1) - 2 - 4 * pad) * d = 4 * a
      /\ (src - 1) * (4 * n) = 4 * b - 4 * n
      /\ 2 * 2 * d = 4 * d
      /\ src * (4 * n) = 4 * b
      /\ 4 * (k + 1) * d - src * (4 * n) = 4 * a + 4 * d - 4 * b
  OBVIOUS
<1>9. (2 * S + 1) * (4 * n) = 8 * c + 4 * n
  <2> HIDE DEF S
  <2> QED BY <1>4
<1>10. Unletterbox(lb, 2 * (k + pad) + 1, 2, pad, src) = <<x, w>>
  <2> HIDE DEF a, b
  <2> QED BY <1>8, Zenon DEF Unletterbox
<1>11. Sampled(lb, k, src) = S
  BY Zenon DEF Sampled
<1>12. /\ Unletterbox(lb, 2 * (k + pad) + 1, 2, pad, src)[1] = x
       /\ Unletterbox(lb, 2 * (k + pad) + 1, 2, pad, src)[2] = w
  <2> HIDE DEF x, w
  <2> QED BY <1>10
<1>13. Max({0, 4 * (k + 1) * lb.den - src * (4 * lb.num)}) = over
  <2>1. 4 * (k + 1) * lb.den - src * (4 * lb.num) = 4 * a + 4 * d - 4 * b
    BY <1>8, Zenon
  <2> HIDE DEF a, b
  <2> QED BY <2>1, Zenon
<1>14. 2 * (4 * n) = 8 * n
  OBVIOUS
<1> HIDE DEF a, b, q, q0, S, c, x, w, over
<1> QED BY <1>7, <1>9, <1>11, <1>12, <1>13, <1>14, Zenon

\* One dimension of the letterbox: rounding the scaled size leaves it inside the input.
LEMMA Rounded ==
  ASSUME NEW v \in Nat, NEW n \in Nat, NEW d \in Nat, 0 < d, NEW top \in Nat, v * n <= top * d
  PROVE  /\ (2 * v * n + d) \div (2 * d) \in Nat
         /\ (2 * v * n + d) \div (2 * d) <= top
<1> DEFINE p == v * n
           t == (2 * v * n + d) \div (2 * d)
           r == top * d
<1>1. p \in Nat /\ r \in Nat /\ p <= r /\ 2 * v * n + d = 2 * p + d /\ 2 * d \in Nat /\ 0 < 2 * d
  OBVIOUS
<1>2. /\ t \in Int /\ (2 * d) * t \in Int /\ (2 * d) * t <= 2 * p + d
      /\ 2 * p + d < (2 * d) * t + 2 * d
  <2>1. 2 * v * n + d \in Int
    BY <1>1
  <2> HIDE DEF p
  <2> QED BY <1>1, <2>1, Quotient
<1> HIDE DEF t, p, r
<1>3. t <= top
  <2> SUFFICES ASSUME top + 1 <= t PROVE FALSE
    BY <1>2
  <2>1. (2 * d) * (top + 1) <= (2 * d) * t
    BY <1>1, <1>2, TimesMonotone
  <2>2. (2 * d) * (top + 1) = 2 * r + 2 * d
    BY DEF r
  <2> QED BY <1>1, <1>2, <2>1, <2>2
<1>4. 0 <= t
  <2> SUFFICES ASSUME t <= -1 PROVE FALSE
    BY <1>2
  <2>1. (2 * d) * t <= (2 * d) * (-1)
    BY <1>1, <1>2, TimesMonotone
  <2>2. (2 * d) * (-1) = -(2 * d)
    OBVIOUS
  <2> QED BY <1>1, <1>2, <2>1, <2>2
<1>5. t \in Nat /\ t <= top
  BY <1>2, <1>3, <1>4
<1> QED BY <1>5 DEF t

\* What the letterbox computes: in the dimension that decides the scale the input is
\* filled, in the other one the resized image fits.
LEMMA LetterboxFits ==
  ASSUME NEW src \in [w : Nat \ {0}, h : Nat \ {0}], NEW lb, lb = Letterbox(src)
  PROVE  /\ lb.num \in Nat \ {0} /\ lb.den \in Nat \ {0}
         /\ lb.src_w = src.w /\ lb.src_h = src.h
         /\ lb.new_w = (2 * src.w * lb.num + lb.den) \div (2 * lb.den)
         /\ lb.new_h = (2 * src.h * lb.num + lb.den) \div (2 * lb.den)
         /\ lb.pad_x \in Nat /\ lb.new_w \in Nat /\ lb.pad_x + lb.new_w <= InputW
         /\ lb.pad_y \in Nat /\ lb.new_h \in Nat /\ lb.pad_y + lb.new_h <= InputH
<1>1. PICK W \in Nat \ {0} : W = src.w
  OBVIOUS
<1>2. PICK H \in Nat \ {0} : H = src.h
  OBVIOUS
<1> DEFINE n == lb.num
           d == lb.den
           rw == (2 * W * n + d) \div (2 * d)
           rh == (2 * H * n + d) \div (2 * d)
<1>3. /\ n = IF InputW * H <= InputH * W THEN InputW ELSE InputH
      /\ d = IF InputW * H <= InputH * W THEN W ELSE H
      /\ lb.src_w = W /\ lb.src_h = H
      /\ lb.new_w = rw /\ lb.new_h = rh
      /\ lb.pad_x = (InputW - rw) \div 2 /\ lb.pad_y = (InputH - rh) \div 2
  BY <1>1, <1>2, Zenon DEF Letterbox
<1>4. n \in Nat \ {0} /\ d \in Nat \ {0}
  BY <1>3, InputAssumption
<1>5. W * n <= InputW * d /\ H * n <= InputH * d
  <2> HIDE DEF n, d
  <2>1. CASE InputW * H <= InputH * W
    <3>1. n = InputW /\ d = W
      BY <1>3, <2>1
    <3>2. W * InputW = InputW * W /\ H * InputW = InputW * H /\ W * InputW \in Nat
      BY InputAssumption
    <3> QED BY <2>1, <3>1, <3>2
  <2>2. CASE ~(InputW * H <= InputH * W)
    <3>1. n = InputH /\ d = H
      BY <1>3, <2>2
    <3>2. W * InputH = InputH * W /\ H * InputH = InputH * H /\ H * InputH \in Nat
          /\ InputW * H \in Nat /\ InputH * W \in Nat
      BY InputAssumption
    <3> QED BY <2>2, <3>1, <3>2
  <2> QED BY <2>1, <2>2
<1>6. rw \in Nat /\ rw <= InputW
  <2> HIDE DEF n, d
  <2> QED BY <1>4, <1>5, Rounded, InputAssumption
<1>7. rh \in Nat /\ rh <= InputH
  <2> HIDE DEF n, d
  <2> QED BY <1>4, <1>5, Rounded, InputAssumption
<1> HIDE DEF n, d, rw, rh
<1>8. (InputW - rw) \div 2 \in Nat /\ (InputW - rw) \div 2 + rw <= InputW
  BY <1>6, InputAssumption
<1>9. (InputH - rh) \div 2 \in Nat /\ (InputH - rh) \div 2 + rh <= InputH
  BY <1>7, InputAssumption
<1>10. /\ lb.num \in Nat \ {0} /\ lb.den \in Nat \ {0}
       /\ lb.new_w = (2 * src.w * lb.num + lb.den) \div (2 * lb.den)
       /\ lb.new_h = (2 * src.h * lb.num + lb.den) \div (2 * lb.den)
  BY <1>1, <1>2, <1>3, <1>4, Zenon DEF rw, rh, n, d
<1> QED BY <1>1, <1>2, <1>3, <1>6, <1>7, <1>8, <1>9, <1>10

\* Letterbox and inverse agree on every frame the detector may be given.
LEMMA MapsBack == ASSUME image \in Cameras PROVE PixelMapsBack
<1> DEFINE lb == Letterbox(image)
<1>1. image \in [w : Nat \ {0}, h : Nat \ {0}]
  BY CamerasAssumption
<1>2. lb = Letterbox(image)
  OBVIOUS
<1> HIDE DEF lb
<1>3. /\ lb.num \in Nat \ {0} /\ lb.den \in Nat \ {0}
      /\ lb.src_w = image.w /\ lb.src_h = image.h
      /\ lb.new_w = (2 * image.w * lb.num + lb.den) \div (2 * lb.den)
      /\ lb.new_h = (2 * image.h * lb.num + lb.den) \div (2 * lb.den)
      /\ lb.pad_x \in Nat /\ lb.new_w \in Nat /\ lb.pad_x + lb.new_w <= InputW
      /\ lb.pad_y \in Nat /\ lb.new_h \in Nat /\ lb.pad_y + lb.new_h <= InputH
  BY <1>1, <1>2, LetterboxFits, Zenon
<1>4. image.w \in Nat \ {0} /\ image.h \in Nat \ {0} /\ lb.pad_x \in Int /\ lb.pad_y \in Int
  BY <1>1, <1>3
<1> DEFINE near(k, pad, src) ==
        LET back == Unletterbox(lb, 2 * (k + pad) + 1, 2, pad, src)
            off  == 2 * back[1] + back[2] - (2 * Sampled(lb, k, src) + 1) * (4 * lb.num)
            over  == Max({0, 4 * (k + 1) * lb.den - src * (4 * lb.num)})
        IN  -(4 * lb.num) - over < off /\ off < 2 * (4 * lb.num)
<1>5. ASSUME NEW k \in 0 .. lb.new_w - 1
      PROVE  near(k, lb.pad_x, lb.src_w)
  <2>1. k \in Nat /\ k < (2 * image.w * lb.num + lb.den) \div (2 * lb.den)
    BY <1>3
  <2> QED BY <1>3, <1>4, <2>1, OneDimension, Zenon
<1>6. ASSUME NEW k \in 0 .. lb.new_h - 1
      PROVE  near(k, lb.pad_y, lb.src_h)
  <2>1. k \in Nat /\ k < (2 * image.h * lb.num + lb.den) \div (2 * lb.den)
    BY <1>3
  <2> QED BY <1>3, <1>4, <2>1, OneDimension, Zenon
<1>7. 0 <= lb.pad_x /\ 0 <= lb.pad_y /\ lb.pad_x >= 0 /\ lb.pad_y >= 0
  BY <1>3
<1> QED BY <1>2, <1>3, <1>5, <1>6, <1>7, Zenon DEF PixelMapsBack

-------------------------------------------------------------------------------
(* Reading the tensor *)

\* A row and a column are read back from their place.
LEMMA PlaceReads ==
  ASSUME NEW a \in Nat, NEW b \in Nat, NEW m \in Nat, b < m
  PROVE  (a * m + b) \div m = a /\ (a * m + b) % m = b
<1> DEFINE v == a * m + b
           t == v \div m
<1>1. v \in Int /\ 0 < m
  OBVIOUS
<1>2. t \in Int /\ m * t \in Int /\ m * t <= v /\ v < m * t + m
  <2> HIDE DEF v
  <2> QED BY <1>1, Quotient
<1>3. v = m * a + b /\ m * a \in Int
  OBVIOUS
<1> HIDE DEF t, v
<1>4. ~(t + 1 <= a)
  <2> SUFFICES ASSUME t + 1 <= a PROVE FALSE
    OBVIOUS
  <2>1. m * (t + 1) <= m * a
    BY <1>2, TimesMonotone
  <2>2. m * (t + 1) = m * t + m
    BY <1>2
  <2> QED BY <1>2, <1>3, <2>1, <2>2
<1>5. ~(a + 1 <= t)
  <2> SUFFICES ASSUME a + 1 <= t PROVE FALSE
    OBVIOUS
  <2>1. m * (a + 1) <= m * t
    BY <1>2, TimesMonotone
  <2>2. m * (a + 1) = m * a + m
    OBVIOUS
  <2> QED BY <1>2, <1>3, <2>1, <2>2
<1>6. t = a
  BY <1>2, <1>4, <1>5
<1>7. v % m = v - m * t
  BY <1>1, <1>2 DEF t
<1>8. v % m = b
  BY <1>3, <1>6, <1>7
<1> QED BY <1>6, <1>8 DEF t, v

\* The place is inside the tensor.
LEMMA PlaceInside ==
  ASSUME NEW a \in Nat, NEW b \in Nat, NEW m \in Nat, NEW n \in Nat, a < n, b < m
  PROVE  1 + (a * m + b) \in 1 .. n * m /\ (1 + (a * m + b)) - 1 = a * m + b
<1>1. m * (a + 1) <= m * n
  BY TimesMonotone
<1>2. m * (a + 1) = a * m + m /\ m * n = n * m /\ a * m \in Nat /\ n * m \in Nat
  OBVIOUS
<1> DEFINE p == a * m
           r == n * m
<1> HIDE DEF p, r
<1>3. p \in Nat /\ r \in Nat /\ p + m <= r
  BY <1>1, <1>2 DEF p, r
<1>4. 1 + (p + b) \in 1 .. r /\ (1 + (p + b)) - 1 = p + b
  BY <1>3
<1> QED BY <1>4 DEF p, r

\* The attributes of a candidate, as the network lays them out.
Attributes(c, withObj) ==
  <<c.cx, c.cy, c.bw, c.bh>> \o (IF withObj THEN <<c.obj>> ELSE <<>>) \o c.scores

\* What a concatenation of two sequences holds, and where.
LEMMA Concatenation ==
  ASSUME NEW s \in Seq(Int), NEW t \in Seq(Int)
  PROVE  /\ s \o t \in Seq(Int) /\ Len(s \o t) = Len(s) + Len(t)
         /\ \A k \in 1 .. Len(s) : (s \o t)[k] = s[k]
         /\ \A k \in 1 .. Len(t) : (s \o t)[Len(s) + k] = t[k]
<1>0. PICK m \in Nat, n \in Nat : m = Len(s) /\ n = Len(t)
  OBVIOUS
<1>1. s \o t \in Seq(Int) /\ Len(s \o t) = m + n
  BY <1>0
<1>2. \A k \in 1 .. m + n : (s \o t)[k] = IF k <= m THEN s[k] ELSE t[k - m]
  BY <1>0
<1>3. \A k \in 1 .. m : k \in 1 .. m + n /\ k <= m
  OBVIOUS
<1>4. \A k \in 1 .. n : m + k \in 1 .. m + n /\ ~(m + k <= m) /\ (m + k) - m = k
  OBVIOUS
<1>5. \A k \in 1 .. m : (s \o t)[k] = s[k]
  BY <1>2, <1>3, Zenon
<1>6. \A k \in 1 .. n : (s \o t)[m + k] = t[k]
  BY <1>2, <1>4, Zenon
<1> QED BY <1>0, <1>1, <1>5, <1>6

\* A candidate whose network has no objectness.
LEMMA CertainCandidate ==
  ASSUME NEW c \in Candidate, NEW e, e = [c EXCEPT !.obj = 10]
  PROVE  /\ e \in Candidate /\ e.obj = 10 /\ e.cx = c.cx /\ e.cy = c.cy
         /\ e.bw = c.bw /\ e.bh = c.bh /\ e.scores = c.scores
<1> DEFINE S == [1 .. NumClasses -> 0 .. 10]
           T == 0 .. 10
<1>1. 10 \in T
  OBVIOUS
<1>2. c \in [cx : Int, cy : Int, bw : Nat, bh : Nat, obj : T, scores : S]
  BY Zenon DEF Candidate
<1> HIDE DEF S, T
<1>3. e \in [cx : Int, cy : Int, bw : Nat, bh : Nat, obj : T, scores : S]
  BY <1>1, <1>2
<1>4. e \in Candidate
  BY <1>3, Zenon DEF Candidate, S, T
<1>5. e.obj = 10 /\ e.cx = c.cx /\ e.cy = c.cy /\ e.bw = c.bw /\ e.bh = c.bh /\ e.scores = c.scores
  BY <1>2
<1> QED BY <1>4, <1>5

\* Where the attributes of a candidate stand in a row of the tensor.
LEMMA AttributesAt ==
  ASSUME NEW c \in Candidate, NEW withObj \in BOOLEAN
  PROVE  /\ Attributes(c, withObj)[1] = c.cx /\ Attributes(c, withObj)[2] = c.cy
         /\ Attributes(c, withObj)[3] = c.bw /\ Attributes(c, withObj)[4] = c.bh
         /\ withObj => Attributes(c, withObj)[5] = c.obj
         /\ \A k \in 1 .. NumClasses :
              Attributes(c, withObj)[(IF withObj THEN 5 ELSE 4) + k] = c.scores[k]
<1> DEFINE head == <<c.cx, c.cy, c.bw, c.bh>>
           sc == c.scores
<1>1. sc \in Seq(Int) /\ Len(sc) = NumClasses
  BY ConfigAssumption DEF Candidate
<1>2. head \in Seq(Int) /\ Len(head) = 4 /\ c.obj \in Int
      /\ head[1] = c.cx /\ head[2] = c.cy /\ head[3] = c.bw /\ head[4] = c.bh
  BY DEF Candidate
<1>3. CASE withObj
  <2> DEFINE one == <<c.obj>>
  <2>1. one \in Seq(Int) /\ Len(one) = 1 /\ one[1] = c.obj
    BY <1>2
  <2>2. Attributes(c, withObj) = (head \o one) \o sc
    BY <1>3 DEF Attributes
  <2> HIDE DEF head, one, sc
  <2>3. 4 \in Nat /\ 1 \in Nat /\ 4 = Len(head) /\ 1 = Len(one)
    BY <1>2, <2>1
  <2>31. /\ head \o one \in Seq(Int) /\ Len(head \o one) = Len(head) + Len(one)
         /\ \A k \in 1 .. Len(head) : (head \o one)[k] = head[k]
         /\ \A k \in 1 .. Len(one) : (head \o one)[Len(head) + k] = one[k]
    BY <1>2, <2>1, Concatenation, Zenon
  <2>4. PICK ho : /\ ho = head \o one /\ ho \in Seq(Int) /\ Len(ho) = 4 + 1
                  /\ \A k \in 1 .. 4 : ho[k] = head[k]
                  /\ \A k \in 1 .. 1 : ho[4 + k] = one[k]
    BY <2>3, <2>31, Zenon
  <2>5. ho[1] = c.cx /\ ho[2] = c.cy /\ ho[3] = c.bw /\ ho[4] = c.bh /\ ho[5] = c.obj
    <3>1. /\ 1 \in 1 .. 4 /\ 2 \in 1 .. 4 /\ 3 \in 1 .. 4 /\ 4 \in 1 .. 4 /\ 1 \in 1 .. 1 /\ 4 + 1 = 5
      OBVIOUS
    <3> QED BY <1>2, <2>1, <2>4, <3>1, Zenon
  <2>51. ho \in Seq(Int) /\ 5 \in Nat /\ 5 = Len(ho) /\ NumClasses \in Nat
    BY <2>4, ConfigAssumption
  <2>52. (\A k \in 1 .. 5 : (ho \o sc)[k] = ho[k]) /\ \A k \in 1 .. NumClasses : (ho \o sc)[5 + k] = sc[k]
    <3>1. /\ \A k \in 1 .. Len(ho) : (ho \o sc)[k] = ho[k]
          /\ \A k \in 1 .. Len(sc) : (ho \o sc)[Len(ho) + k] = sc[k]
      BY <1>1, <2>51, Concatenation, Zenon
    <3> QED BY <1>1, <2>51, <3>1, Zenon
  <2>6. Attributes(c, withObj) = ho \o sc
    BY <2>2, <2>4, Zenon
  <2>7. 1 \in 1 .. 5 /\ 2 \in 1 .. 5 /\ 3 \in 1 .. 5 /\ 4 \in 1 .. 5 /\ 5 \in 1 .. 5
    OBVIOUS
  <2> QED BY <1>3, <2>5, <2>52, <2>6, <2>7, Zenon DEF sc
<1>4. CASE ~withObj
  <2> DEFINE none == <<>>
  <2>1. none \in Seq(Int) /\ Len(none) = 0
    OBVIOUS
  <2>2. Attributes(c, withObj) = (head \o none) \o sc
    BY <1>4 DEF Attributes
  <2> HIDE DEF head, none, sc
  <2>3. 4 \in Nat /\ 0 \in Nat /\ 4 = Len(head) /\ 0 = Len(none)
    BY <1>2, <2>1
  <2>31. /\ head \o none \in Seq(Int) /\ Len(head \o none) = Len(head) + Len(none)
         /\ \A k \in 1 .. Len(head) : (head \o none)[k] = head[k]
         /\ \A k \in 1 .. Len(none) : (head \o none)[Len(head) + k] = none[k]
    BY <1>2, <2>1, Concatenation, Zenon
  <2>4. PICK ho : /\ ho = head \o none /\ ho \in Seq(Int) /\ Len(ho) = 4 + 0
                  /\ \A k \in 1 .. 4 : ho[k] = head[k]
                  /\ \A k \in 1 .. 0 : ho[4 + k] = none[k]
    BY <2>3, <2>31, Zenon
  <2>5. ho[1] = c.cx /\ ho[2] = c.cy /\ ho[3] = c.bw /\ ho[4] = c.bh 
    <3>1. /\ 1 \in 1 .. 4 /\ 2 \in 1 .. 4 /\ 3 \in 1 .. 4 /\ 4 \in 1 .. 4 /\ 1 \in 1 .. 1 /\ 4 + 1 = 5
      OBVIOUS
    <3> QED BY <1>2, <2>1, <2>4, <3>1, Zenon
  <2>51. ho \in Seq(Int) /\ 4 \in Nat /\ 4 = Len(ho) /\ NumClasses \in Nat
    BY <2>4, ConfigAssumption
  <2>52. (\A k \in 1 .. 4 : (ho \o sc)[k] = ho[k]) /\ \A k \in 1 .. NumClasses : (ho \o sc)[4 + k] = sc[k]
    <3>1. /\ \A k \in 1 .. Len(ho) : (ho \o sc)[k] = ho[k]
          /\ \A k \in 1 .. Len(sc) : (ho \o sc)[Len(ho) + k] = sc[k]
      BY <1>1, <2>51, Concatenation, Zenon
    <3> QED BY <1>1, <2>51, <3>1, Zenon
  <2>6. Attributes(c, withObj) = ho \o sc
    BY <2>2, <2>4, Zenon
  <2>7. 1 \in 1 .. 4 /\ 2 \in 1 .. 4 /\ 3 \in 1 .. 4 /\ 4 \in 1 .. 4
    OBVIOUS
  <2> QED BY <1>4, <2>5, <2>52, <2>6, <2>7, Zenon DEF sc
<1> QED BY <1>3, <1>4

\* What decode_yolo() reads, for either layout: the candidates the network found.
TensorRead ==
  /\ found \in Seq(Candidate) /\ NumBoxes = Len(found)
  /\ \A b \in 0 .. Len(found) - 1 :
       /\ At(b, 0) = found[b + 1].cx /\ At(b, 1) = found[b + 1].cy
       /\ At(b, 2) = found[b + 1].bw /\ At(b, 3) = found[b + 1].bh
       /\ found[b + 1].obj = IF HasObj THEN At(b, 4) ELSE 10
       /\ \A c \in 0 .. NumClasses - 1 :
            At(b, (IF HasObj THEN 5 ELSE 4) + c) = found[b + 1].scores[c + 1]

\* From the first state on, the tensor is read back as the candidates the network found,
\* whichever of the two layouts it has.
LEMMA NetworkRead == ASSUME YoloInit PROVE TensorRead
<1>1. PICK cands \in Candidates, withObj \in BOOLEAN :
       /\ found = IF withObj THEN cands ELSE [k \in DOMAIN cands |-> [cands[k] EXCEPT !.obj = 10]]
       /\ tensor = Network(cands, withObj, transposed)
  BY DEF YoloInit
<1>2. transposed \in BOOLEAN
  BY DEF YoloInit
<1>3. cands \in Seq(Candidate)
  BY CandidatesAssumption
<1>4. PICK n \in Nat : n = Len(cands) /\ DOMAIN cands = 1 .. n
  BY <1>3
<1>5. \A k \in 1 .. n : cands[k] \in Candidate
  BY <1>3, <1>4
<1>6. /\ Len(found) = n /\ DOMAIN found = 1 .. n
      /\ \A k \in 1 .. n : /\ found[k] = IF withObj THEN cands[k] ELSE [cands[k] EXCEPT !.obj = 10]
                           /\ found[k] \in Candidate
  <2>1. CASE withObj
    BY <1>1, <1>4, <1>5, <2>1
  <2>2. CASE ~withObj
    <3>1. found = [k \in 1 .. n |-> [cands[k] EXCEPT !.obj = 10]]
      BY <1>1, <1>4, <2>2
    <3>2. \A k \in 1 .. n : [cands[k] EXCEPT !.obj = 10] \in Candidate
      BY <1>5, CertainCandidate, Zenon
    <3> QED BY <2>2, <3>1, <3>2
  <2> QED BY <2>1, <2>2
<1>7. found \in Seq(Candidate)
  <2>1. CASE withObj
    BY <1>1, <1>3, <2>1
  <2>2. CASE ~withObj
    <3>1. found = [k \in 1 .. n |-> [cands[k] EXCEPT !.obj = 10]]
      BY <1>1, <1>4, <2>2
    <3>2. \A k \in 1 .. n : [cands[k] EXCEPT !.obj = 10] \in Candidate
      BY <1>5, CertainCandidate, Zenon
    <3> QED BY <3>1, <3>2
  <2> QED BY <2>1, <2>2
<1> DEFINE attrs == NumClasses + (IF withObj THEN 5 ELSE 4)
<1>8. /\ tensor.rows = IF transposed THEN attrs ELSE n
      /\ tensor.cols = IF transposed THEN n ELSE attrs
      /\ tensor.output = [k \in 1 .. n * attrs |->
             IF transposed THEN Attributes(cands[((k - 1) % n) + 1], withObj)[((k - 1) \div n) + 1]
             ELSE Attributes(cands[((k - 1) \div attrs) + 1], withObj)[((k - 1) % attrs) + 1]]
  BY <1>1, <1>4, Zenon DEF Network, Attributes
<1>9. attrs \in Nat /\ 4 < attrs /\ (withObj => 5 < attrs)
  BY ConfigAssumption
<1>10. NumBoxes = n /\ (HasObj <=> withObj)
  <2>1. NumBoxes = n
    BY <1>2, <1>8 DEF NumBoxes
  <2>2. (IF transposed THEN tensor.rows ELSE tensor.cols) = attrs
    BY <1>2, <1>8
  <2>3. attrs = NumClasses + 5 <=> withObj
    BY ConfigAssumption
  <2> QED BY <2>1, <2>2, <2>3 DEF HasObj
<1>11. ASSUME NEW b \in 0 .. n - 1, NEW a \in Nat, a < attrs
       PROVE  At(b, a) = Attributes(cands[b + 1], withObj)[a + 1]
  <2> HIDE DEF attrs
  <2>1. b \in Nat /\ b < n
    BY <1>4
  <2>2. CASE transposed
    <3>1. At(b, a) = tensor.output[1 + (a * n + b)]
      BY <1>8, <2>2, Zenon DEF At
    <3>2. 1 + (a * n + b) \in 1 .. attrs * n /\ (1 + (a * n + b)) - 1 = a * n + b
      BY <1>9, <1>11, <2>1, PlaceInside, Zenon
    <3>3. attrs * n = n * attrs
      BY <1>9
    <3>4. (a * n + b) \div n = a /\ (a * n + b) % n = b
      BY <2>1, PlaceReads
    <3> DEFINE k == 1 + (a * n + b)
    <3>5. k \in 1 .. n * attrs /\ ((k - 1) % n) = b /\ ((k - 1) \div n) = a
      BY <3>2, <3>3, <3>4, Zenon
    <3> HIDE DEF k
    <3>6. tensor.output[k] = Attributes(cands[((k - 1) % n) + 1], withObj)[((k - 1) \div n) + 1]
      BY <1>8, <2>2, <3>5
    <3> QED BY <3>1, <3>5, <3>6, Zenon DEF k
  <2>3. CASE ~transposed
    <3>1. At(b, a) = tensor.output[1 + (b * attrs + a)]
      BY <1>8, <2>3, Zenon DEF At
    <3>2. 1 + (b * attrs + a) \in 1 .. n * attrs /\ (1 + (b * attrs + a)) - 1 = b * attrs + a
      BY <1>9, <1>11, <2>1, PlaceInside, Zenon
    <3>4. (b * attrs + a) \div attrs = b /\ (b * attrs + a) % attrs = a
      BY <1>9, <1>11, <2>1, PlaceReads, Zenon
    <3> DEFINE k == 1 + (b * attrs + a)
    <3>5. k \in 1 .. n * attrs /\ ((k - 1) % attrs) = a /\ ((k - 1) \div attrs) = b
      BY <3>2, <3>4, Zenon
    <3> HIDE DEF k
    <3>6. tensor.output[k] = Attributes(cands[((k - 1) \div attrs) + 1], withObj)[((k - 1) % attrs) + 1]
      BY <1>8, <2>3, <3>5
    <3> QED BY <3>1, <3>5, <3>6, Zenon DEF k
  <2> QED BY <1>2, <2>2, <2>3
<1>12. ASSUME NEW b \in 0 .. n - 1
       PROVE  /\ At(b, 0) = found[b + 1].cx /\ At(b, 1) = found[b + 1].cy
              /\ At(b, 2) = found[b + 1].bw /\ At(b, 3) = found[b + 1].bh
              /\ found[b + 1].obj = IF HasObj THEN At(b, 4) ELSE 10
              /\ \A c \in 0 .. NumClasses - 1 :
                   At(b, (IF HasObj THEN 5 ELSE 4) + c) = found[b + 1].scores[c + 1]
  <2> DEFINE cand == cands[b + 1]
             attr == Attributes(cands[b + 1], withObj)
  <2>1. b + 1 \in 1 .. n /\ cand \in Candidate
    BY <1>4, <1>5
  <2>2. /\ found[b + 1].cx = cand.cx /\ found[b + 1].cy = cand.cy
        /\ found[b + 1].bw = cand.bw /\ found[b + 1].bh = cand.bh
        /\ found[b + 1].scores = cand.scores
        /\ found[b + 1].obj = IF withObj THEN cand.obj ELSE 10
    <3>1. found[b + 1] = IF withObj THEN cand ELSE [cand EXCEPT !.obj = 10]
      BY <1>6, <2>1, Zenon
    <3> HIDE DEF cand
    <3>2. CASE withObj
      BY <3>1, <3>2
    <3>3. CASE ~withObj
      <4>1. found[b + 1] = [cand EXCEPT !.obj = 10]
        BY <3>1, <3>3
      <4> QED BY <2>1, <3>3, <4>1, CertainCandidate, Zenon
    <3> QED BY <3>2, <3>3
  <2>3. /\ attr[1] = cand.cx /\ attr[2] = cand.cy
        /\ attr[3] = cand.bw /\ attr[4] = cand.bh
        /\ withObj => attr[5] = cand.obj
        /\ \A k \in 1 .. NumClasses : attr[(IF withObj THEN 5 ELSE 4) + k] = cand.scores[k]
    BY <2>1, AttributesAt, Zenon
  <2>4. /\ At(b, 0) = attr[1] /\ At(b, 1) = attr[2] /\ At(b, 2) = attr[3] /\ At(b, 3) = attr[4]
        /\ withObj => At(b, 4) = attr[5]
    <3>1. /\ At(b, 0) = attr[0 + 1] /\ At(b, 1) = attr[1 + 1] /\ At(b, 2) = attr[2 + 1]
          /\ At(b, 3) = attr[3 + 1] /\ (withObj => At(b, 4) = attr[4 + 1])
      BY <1>9, <1>11
    <3> QED BY <3>1
  <2> HIDE DEF cand, attr
  <2>5. ASSUME NEW c \in 0 .. NumClasses - 1
        PROVE  At(b, (IF HasObj THEN 5 ELSE 4) + c) = cand.scores[c + 1]
    <3> DEFINE a == (IF withObj THEN 5 ELSE 4) + c
    <3>1. a \in Nat /\ a < attrs /\ a + 1 = (IF withObj THEN 5 ELSE 4) + (c + 1) /\ c + 1 \in 1 .. NumClasses
      BY ConfigAssumption
    <3>2. a = (IF HasObj THEN 5 ELSE 4) + c
      BY <1>10
    <3> HIDE DEF a
    <3>3. At(b, a) = attr[a + 1]
      BY <1>11, <3>1 DEF attr
    <3>4. attr[(IF withObj THEN 5 ELSE 4) + (c + 1)] = cand.scores[c + 1]
      BY <2>3, <3>1, Zenon
    <3> QED BY <3>1, <3>2, <3>3, <3>4, Zenon
  <2> QED BY <1>10, <2>2, <2>3, <2>4, <2>5
<1> QED BY <1>6, <1>7, <1>10, <1>12 DEF TensorRead

-------------------------------------------------------------------------------
(* What decode_yolo() makes of a candidate *)

\* The greatest element of a set of numbers.
LEMMA MaxIs ==
  ASSUME NEW S, S \subseteq Int, NEW m \in S, \A y \in S : m >= y
  PROVE  Max(S) = m
<1>1. \A x \in S : (\A y \in S : x >= y) => x = m
  OBVIOUS
<1> QED BY <1>1 DEF Max

\* The least element of a set of numbers.
LEMMA MinIs ==
  ASSUME NEW S, S \subseteq Int, NEW m \in S, \A y \in S : m <= y
  PROVE  Min(S) = m
<1>1. \A x \in S : (\A y \in S : x <= y) => x = m
  OBVIOUS
<1> QED BY <1>1 DEF Min

\* A candidate has a best class, and its score is the best of all.
LEMMA BestClass ==
  ASSUME NEW c \in Candidate
  PROVE  \E m \in 1 .. NumClasses : /\ BestScore(c) = c.scores[m] /\ c.scores[m] \in 0 .. 10
                                    /\ \A k \in 1 .. NumClasses : c.scores[k] <= c.scores[m]
<1>1. /\ \A k \in 1 .. NumClasses : c.scores[k] \in 0 .. 10
      /\ NumClasses \in Nat /\ 1 \in 1 .. NumClasses
  BY ConfigAssumption DEF Candidate
<1> DEFINE s == c.scores
           T == {v \in Nat : \E k \in 1 .. NumClasses : v = 10 - s[k]}
<1> HIDE DEF s
<1>2. T \subseteq Nat /\ \A k \in 1 .. NumClasses : 10 - s[k] \in T
  BY <1>1 DEF s
<1>3. T # {}
  BY <1>1, <1>2
<1>4. PICK v \in T : \A y \in T : v <= y
  <2> HIDE DEF T
  <2> QED BY <1>2, <1>3, LeastNumber, Zenon
<1>5. PICK m \in 1 .. NumClasses : v = 10 - s[m]
  BY <1>4
<1>6. \A k \in 1 .. NumClasses : s[k] <= s[m]
  <2> SUFFICES ASSUME NEW k \in 1 .. NumClasses PROVE s[k] <= s[m]
    OBVIOUS
  <2>1. 10 - s[m] <= 10 - s[k]
    <3> HIDE DEF T
    <3> QED BY <1>2, <1>4, <1>5, Zenon
  <2>2. s[k] \in 0 .. 10 /\ s[m] \in 0 .. 10
    BY <1>1, Zenon DEF s
  <2> QED BY <2>1, <2>2
<1> DEFINE S == {s[k] : k \in 1 .. NumClasses}
<1>7. S \subseteq Int /\ s[m] \in S /\ \A y \in S : s[m] >= y
  BY <1>1, <1>6 DEF s
<1> HIDE DEF S
<1>8. Max(S) = s[m]
  BY <1>7, MaxIs, Zenon
<1> QED BY <1>1, <1>6, <1>8 DEF BestScore, S, s

\* The detection of a box, in terms of the candidate it is read from.
LEMMA DetectionIs ==
  ASSUME TensorRead, NEW b \in 0 .. Len(found) - 1,
         NEW c, c = found[b + 1], NEW d, d = Detection(b), NEW lb, lb = Letterbox(image)
  PROVE  /\ c \in Candidate /\ d.box = b /\ d.obj = c.obj /\ d.score = Score(c)
         /\ d.x = Unletterbox(lb, c.cx, c.bw, lb.pad_x, lb.src_w)[1]
         /\ d.w = Unletterbox(lb, c.cx, c.bw, lb.pad_x, lb.src_w)[2]
         /\ d.y = Unletterbox(lb, c.cy, c.bh, lb.pad_y, lb.src_h)[1]
         /\ d.h = Unletterbox(lb, c.cy, c.bh, lb.pad_y, lb.src_h)[2]
         /\ d.class_id >= 0 <=> BestScore(c) > 0
         /\ BestScore(c) > 0 => /\ d.class_id \in 0 .. NumClasses - 1
                                /\ c.scores[d.class_id + 1] = BestScore(c)
<1>1. c \in Candidate
  <2>1. b + 1 \in 1 .. Len(found)
    BY DEF TensorRead
  <2> QED BY <2>1 DEF TensorRead
<1>2. /\ At(b, 0) = c.cx /\ At(b, 1) = c.cy /\ At(b, 2) = c.bw /\ At(b, 3) = c.bh
      /\ c.obj = IF HasObj THEN At(b, 4) ELSE 10
      /\ \A k \in 0 .. NumClasses - 1 : At(b, (IF HasObj THEN 5 ELSE 4) + k) = c.scores[k + 1]
  BY Zenon DEF TensorRead
<1> DEFINE s(k) == At(b, (IF HasObj THEN 5 ELSE 4) + k)
           best == Max({0} \cup {s(k) : k \in 0 .. NumClasses - 1})
<1>3. /\ d.box = b /\ d.obj = c.obj /\ d.score = best * c.obj
      /\ d.x = Unletterbox(lb, c.cx, c.bw, lb.pad_x, lb.src_w)[1]
      /\ d.w = Unletterbox(lb, c.cx, c.bw, lb.pad_x, lb.src_w)[2]
      /\ d.y = Unletterbox(lb, c.cy, c.bh, lb.pad_y, lb.src_h)[1]
      /\ d.h = Unletterbox(lb, c.cy, c.bh, lb.pad_y, lb.src_h)[2]
      /\ d.class_id = IF best = 0 THEN -1 ELSE Min({k \in 0 .. NumClasses - 1 : s(k) = best})
  BY <1>2, Zenon DEF Detection
<1>4. PICK m \in 1 .. NumClasses : /\ BestScore(c) = c.scores[m] /\ c.scores[m] \in 0 .. 10
                                   /\ \A k \in 1 .. NumClasses : c.scores[k] <= c.scores[m]
  BY <1>1, BestClass
<1>5. \A k \in 1 .. NumClasses : c.scores[k] \in 0 .. 10
  BY <1>1 DEF Candidate
<1>6. best = BestScore(c)
  <2> DEFINE S == {s(k) : k \in 0 .. NumClasses - 1}
             E == {0} \cup S
  <2> HIDE DEF s
  <2>1. \A k \in 0 .. NumClasses - 1 : k + 1 \in 1 .. NumClasses /\ s(k) = c.scores[k + 1]
    <3>1. \A k \in 0 .. NumClasses - 1 : k + 1 \in 1 .. NumClasses
      BY ConfigAssumption
    <3> QED BY <1>2, <3>1, Zenon DEF s
  <2>2. m - 1 \in 0 .. NumClasses - 1 /\ (m - 1) + 1 = m
    BY ConfigAssumption
  <2>3. c.scores[m] \in E
    BY <2>1, <2>2
  <2>4. E \subseteq Int /\ \A y \in E : c.scores[m] >= y
    <3>1. \A y \in S : y \in Int /\ c.scores[m] >= y
      BY <1>4, <1>5, <2>1
    <3> HIDE DEF S
    <3> QED BY <1>4, <3>1
  <2>5. best = Max(E)
    BY Zenon
  <2> HIDE DEF E, best
  <2>6. Max(E) = c.scores[m]
    BY <2>3, <2>4, MaxIs, Zenon
  <2> QED BY <1>4, <2>5, <2>6
<1>7. BestScore(c) \in 0 .. 10
  BY <1>4
<1>8. d.score = Score(c)
  BY <1>3, <1>6, Zenon DEF Score
<1>9. ASSUME BestScore(c) > 0
      PROVE  d.class_id \in 0 .. NumClasses - 1 /\ c.scores[d.class_id + 1] = BestScore(c)
  <2> DEFINE T == {k \in 0 .. NumClasses - 1 : s(k) = best}
  <2>1. d.class_id = Min(T)
    BY <1>3, <1>6, <1>7, <1>9
  <2> HIDE DEF s, best
  <2>2. m - 1 \in 0 .. NumClasses - 1 /\ (m - 1) + 1 = m
    BY ConfigAssumption
  <2>3. s(m - 1) = best
    BY <1>2, <1>4, <1>6, <2>2, Zenon DEF s
  <2>4. T \subseteq Nat /\ T # {} /\ T \subseteq Int
    BY <2>2, <2>3
  <2>5. PICK x \in T : \A y \in T : x <= y
    <3> HIDE DEF T
    <3> QED BY <2>4, LeastNumber, Zenon
  <2>6. Min(T) = x
    <3> HIDE DEF T
    <3> QED BY <2>4, <2>5, MinIs, Zenon
  <2>7. x \in 0 .. NumClasses - 1 /\ s(x) = best
    BY <2>5
  <2>8. c.scores[x + 1] = best
    BY <1>2, <2>7, Zenon DEF s
  <2> QED BY <1>6, <2>1, <2>6, <2>7, <2>8, Zenon
<1>10. d.class_id >= 0 <=> BestScore(c) > 0
  <2>1. CASE BestScore(c) > 0
    <3> HIDE DEF best
    <3> QED BY <1>9, <2>1, ConfigAssumption
  <2>2. CASE ~(BestScore(c) > 0)
    <3>1. best = 0
      <4> HIDE DEF best
      <4> QED BY <1>6, <1>7, <2>2
    <3>2. d.class_id = -1
      BY <1>3, <3>1, Zenon
    <3> QED BY <2>2, <3>2
  <2> QED BY <2>1, <2>2
<1> QED BY <1>1, <1>3, <1>8, <1>9, <1>10, Zenon

\* The early test of the objectness drops no candidate that is worth anything.
LEMMA AcceptedIsWorthy ==
  ASSUME TensorRead, NEW b \in 0 .. Len(found) - 1
  PROVE  Accepted(Detection(b)) <=> b + 1 \in Worthy
<1> DEFINE c == found[b + 1]
           d == Detection(b)
           lb == Letterbox(image)
<1>0. c = found[b + 1] /\ d = Detection(b) /\ lb = Letterbox(image)
  OBVIOUS
<1> HIDE DEF c, d, lb
<1>1. /\ c \in Candidate /\ d.obj = c.obj /\ d.score = Score(c)
      /\ d.class_id >= 0 <=> BestScore(c) > 0
  BY <1>0, DetectionIs
<1>2. b + 1 \in DOMAIN found
  BY DEF TensorRead
<1>3. b + 1 \in Worthy <=> BestScore(c) > 0 /\ Score(c) >= Conf
  BY <1>0, <1>2 DEF Worthy
<1>4. PICK s \in 0 .. 10 : s = BestScore(c)
  BY <1>1, BestClass
<1>5. PICK o \in 0 .. 10 : o = c.obj
  BY <1>1 DEF Candidate
<1>6. Score(c) = s * o
  BY <1>4, <1>5 DEF Score
<1>7. s * o \in Nat /\ s * o <= 10 * o
  OBVIOUS
<1>8. s * o >= Conf => ~(20 * o < Conf)
  <2> PICK p \in Nat : p = s * o
    BY <1>7
  <2> QED BY <1>7, ConfigAssumption
<1>9. Accepted(d) <=> ~(HasObj /\ 20 * o < Conf) /\ BestScore(c) > 0 /\ s * o >= Conf
  BY <1>1, <1>5, <1>6, Zenon DEF Accepted
<1>10. Accepted(d) <=> BestScore(c) > 0 /\ s * o >= Conf
  BY <1>8, <1>9, Zenon
<1> QED BY <1>3, <1>6, <1>10, Zenon DEF d

-------------------------------------------------------------------------------
(* The loop of decode_yolo() *)

DecodedStep(f, n) ==
  IF n = 0 THEN <<>>
  ELSE IF Accepted(Detection(n - 1)) THEN Append(f[n - 1], Detection(n - 1))
  ELSE f[n - 1]

\* The recursive function of DecodedBoxes exists.
LEMMA DecodedFunction ==
  ASSUME NumBoxes \in Nat
  PROVE  \E f : /\ f = [n \in 0 .. NumBoxes |-> DecodedStep(f, n)]
                /\ DecodedBoxes = f[NumBoxes]
<1> DEFINE T == {k \in Nat : \E f : f = [n \in 0 .. k |-> DecodedStep(f, n)]}
<1>1. 0 \in T
  <2> DEFINE f == [n \in 0 .. 0 |-> <<>>]
  <2>1. \A n \in 0 .. 0 : n = 0
    OBVIOUS
  <2>2. f = [n \in 0 .. 0 |-> DecodedStep(f, n)]
    BY <2>1 DEF DecodedStep
  <2> QED BY <2>2
<1>2. ASSUME NEW k \in Nat, k \in T PROVE k + 1 \in T
  <2>1. PICK f : f = [n \in 0 .. k |-> DecodedStep(f, n)]
    BY <1>2
  <2> DEFINE g == [n \in 0 .. k + 1 |-> IF n = k + 1 THEN DecodedStep(f, n) ELSE f[n]]
  <2>2. \A n \in 0 .. k : g[n] = f[n] /\ f[n] = DecodedStep(f, n)
    <3> SUFFICES ASSUME NEW n \in 0 .. k PROVE g[n] = f[n] /\ f[n] = DecodedStep(f, n)
      OBVIOUS
    <3>1. f[n] = DecodedStep(f, n)
      BY <2>1, Zenon
    <3>2. n \in 0 .. k + 1 /\ n # k + 1
      OBVIOUS
    <3>3. g[n] = f[n]
      BY <3>2
    <3> QED BY <3>1, <3>3
  <2>3. g[k + 1] = DecodedStep(f, k + 1)
    OBVIOUS
  <2> HIDE DEF g
  <2>4. ASSUME NEW n \in 0 .. k + 1 PROVE g[n] = DecodedStep(g, n)
    <3>1. n = 0 \/ (n - 1 \in 0 .. k /\ g[n - 1] = f[n - 1])
      BY <2>2
    <3>2. DecodedStep(g, n) = DecodedStep(f, n)
      BY <3>1 DEF DecodedStep
    <3>3. n \in 0 .. k \/ n = k + 1
      OBVIOUS
    <3> QED BY <2>2, <2>3, <3>2, <3>3
  <2>5. g = [n \in 0 .. k + 1 |-> g[n]]
    BY DEF g
  <2>6. g = [n \in 0 .. k + 1 |-> DecodedStep(g, n)]
    BY <2>4, <2>5
  <2> QED BY <2>6
<1>3. Nat \subseteq T
  <2> HIDE DEF T
  <2> QED BY <1>1, <1>2, Induction
<1>4. \E f : f = [n \in 0 .. NumBoxes |-> DecodedStep(f, n)]
  BY <1>3
<1> DEFINE F == CHOOSE f : f = [n \in 0 .. NumBoxes |-> DecodedStep(f, n)]
<1>5. F = [n \in 0 .. NumBoxes |-> DecodedStep(F, n)]
  <2> HIDE DEF T
  <2> QED BY <1>4
<1>6. DecodedBoxes = F[NumBoxes]
  BY DEF DecodedBoxes, DecodedStep
<1> QED BY <1>5, <1>6

\* The detections of the first n boxes: those that are accepted, in their order.
DecodedTo(s, n) ==
  /\ s \in Seq({Detection(b) : b \in 0 .. NumBoxes - 1})
  /\ \A k \in 1 .. Len(s) : /\ s[k].box \in 0 .. n - 1 /\ s[k] = Detection(s[k].box)
                            /\ Accepted(s[k])
  /\ \A b \in 0 .. n - 1 : Accepted(Detection(b)) => \E k \in 1 .. Len(s) : s[k] = Detection(b)
  /\ \A j, k \in 1 .. Len(s) : j < k => s[j].box < s[k].box

\* The loop of decode_yolo() ends with the accepted candidates, each once and in order.
LEMMA DecodedIs == ASSUME TensorRead PROVE DecodedTo(DecodedBoxes, NumBoxes)
<1>0. NumBoxes \in Nat /\ NumBoxes = Len(found)
  BY DEF TensorRead
<1>1. PICK f : /\ f = [n \in 0 .. NumBoxes |-> DecodedStep(f, n)]
               /\ DecodedBoxes = f[NumBoxes]
  BY <1>0, DecodedFunction
<1> DEFINE T == {n \in Nat : n <= NumBoxes => DecodedTo(f[n], n)}
<1>3. \A n \in 0 .. NumBoxes : f[n] = DecodedStep(f, n)
  BY <1>1, Zenon
<1>4. 0 \in T
  <2>1. f[0] = <<>>
    BY <1>0, <1>3 DEF DecodedStep
  <2>2. DecodedTo(<<>>, 0)
    BY DEF DecodedTo
  <2> QED BY <2>1, <2>2
<1>5. ASSUME NEW n \in Nat, n \in T PROVE n + 1 \in T
  <2> SUFFICES ASSUME n + 1 <= NumBoxes PROVE DecodedTo(f[n + 1], n + 1)
    OBVIOUS
  <2>1. n + 1 \in 0 .. NumBoxes /\ n + 1 # 0 /\ (n + 1) - 1 = n /\ n <= NumBoxes
        /\ n \in 0 .. NumBoxes - 1
    BY <1>0
  <2> DEFINE s == f[n]
             d == Detection(n)
             u == Append(s, d)
             A == {Detection(b) : b \in 0 .. NumBoxes - 1}
  <2>2. DecodedTo(s, n)
    BY <1>5, <2>1
  <2>3. f[n + 1] = IF Accepted(d) THEN u ELSE s
    BY <1>3, <2>1, Zenon DEF DecodedStep
  <2>4. d.box = n
    BY DEF Detection
  <2>5. d \in A
    BY <2>1
  <2> HIDE DEF s, d, A
  <2>6. /\ s \in Seq(A)
        /\ \A k \in 1 .. Len(s) : s[k].box \in 0 .. n - 1 /\ s[k] = Detection(s[k].box) /\ Accepted(s[k])
        /\ \A b \in 0 .. n - 1 : Accepted(Detection(b)) => \E k \in 1 .. Len(s) : s[k] = Detection(b)
        /\ \A j, k \in 1 .. Len(s) : j < k => s[j].box < s[k].box
    BY <2>2 DEF DecodedTo, A
  <2>61. \A b \in 0 .. (n + 1) - 1 : b \in 0 .. n - 1 \/ b = n
    OBVIOUS
  <2>62. \A b \in 0 .. n - 1 : b \in 0 .. (n + 1) - 1 /\ b < n
    OBVIOUS
  <2>7. CASE ~Accepted(d)
    <3>1. \A k \in 1 .. Len(s) : s[k].box \in 0 .. (n + 1) - 1
      BY <2>6, <2>62, Zenon
    <3>2. \A b \in 0 .. (n + 1) - 1 : Accepted(Detection(b)) => \E k \in 1 .. Len(s) : s[k] = Detection(b)
      BY <2>6, <2>61, <2>7, Zenon DEF d
    <3>3. DecodedTo(s, n + 1)
      BY <2>6, <3>1, <3>2, Zenon DEF DecodedTo, A
    <3> QED BY <2>3, <2>7, <3>3, Zenon
  <2>8. CASE Accepted(d)
    <3> PICK m \in Nat : m = Len(s)
      BY <2>6
    <3>1. /\ u \in Seq(A) /\ Len(u) = m + 1 /\ u[m + 1] = d
          /\ \A k \in 1 .. m : u[k] = s[k]
      BY <2>5, <2>6
    <3> HIDE DEF u
    <3>2. /\ \A k \in 1 .. m + 1 : k \in 1 .. m \/ k = m + 1
          /\ \A k \in 1 .. m : k \in 1 .. m + 1
          /\ m + 1 \in 1 .. m + 1 /\ n \in 0 .. (n + 1) - 1
          /\ \A k \in 1 .. m : ~(m + 1 < k)
          /\ ~(m + 1 < m + 1)
      OBVIOUS
    <3>3. \A k \in 1 .. m + 1 : u[k].box \in 0 .. (n + 1) - 1 /\ u[k] = Detection(u[k].box) /\ Accepted(u[k])
      BY <2>4, <2>6, <2>62, <2>8, <3>1, <3>2, Zenon DEF d
    <3>4. \A b \in 0 .. (n + 1) - 1 : Accepted(Detection(b)) => \E k \in 1 .. m + 1 : u[k] = Detection(b)
      BY <2>6, <2>61, <3>1, <3>2, Zenon DEF d
    <3>5. \A j, k \in 1 .. m + 1 : j < k => u[j].box < u[k].box
      <4> SUFFICES ASSUME NEW j \in 1 .. m + 1, NEW k \in 1 .. m + 1, j < k PROVE u[j].box < u[k].box
        OBVIOUS
      <4>1. j \in 1 .. m
        OBVIOUS
      <4>2. CASE k \in 1 .. m
        BY <2>6, <3>1, <4>1, <4>2, Zenon
      <4>3. CASE k = m + 1
        BY <2>4, <2>6, <2>62, <3>1, <4>1, <4>3, Zenon
      <4> QED BY <3>2, <4>2, <4>3
    <3>6. DecodedTo(u, n + 1)
      BY <3>1, <3>3, <3>4, <3>5, Zenon DEF DecodedTo, A
    <3> QED BY <2>3, <2>8, <3>6, Zenon
  <2> QED BY <2>7, <2>8, Zenon
<1>6. Nat \subseteq T
  <2> HIDE DEF T
  <2> QED BY <1>4, <1>5, Induction
<1>7. DecodedTo(f[NumBoxes], NumBoxes)
  BY <1>0, <1>6
<1> QED BY <1>1, <1>7

-------------------------------------------------------------------------------
(* BoxClipped *)

\* One dimension of BoxClipped.
Covers(lb, pos, size, centre, extent, pad, src) ==
  LET px == 4 * lb.num
      lo == (2 * centre - extent - 4 * pad) * lb.den
      v  == Visible(lo, lo + 2 * extent * lb.den, src * px)
  IN  /\ 0 <= pos /\ 0 <= size /\ pos + size <= src * px
      /\ IF lo <= (src - 1) * px THEN pos <= v[1] /\ v[2] <= pos + size
                                 ELSE pos = (src - 1) * px

\* One dimension of unletterbox().
LEMMA Clipped ==
  ASSUME NEW lb, lb.num \in Nat \ {0}, lb.den \in Nat \ {0},
         NEW src \in Nat \ {0}, NEW pad \in Int, NEW centre \in Int, NEW extent \in Nat,
         NEW pos, pos = Unletterbox(lb, centre, extent, pad, src)[1],
         NEW size, size = Unletterbox(lb, centre, extent, pad, src)[2]
  PROVE  Covers(lb, pos, size, centre, extent, pad, src)
<1> DEFINE px == 4 * lb.num
           lo == (2 * centre - extent - 4 * pad) * lb.den
           e == 2 * extent * lb.den
           top == src * px
           last == (src - 1) * px
<1>1. /\ px \in Nat /\ lo \in Int /\ e \in Nat /\ top \in Nat /\ last \in Nat /\ last + px = top
  <2> PICK n \in Nat \ {0}, d \in Nat \ {0} : n = lb.num /\ d = lb.den
    OBVIOUS
  <2>1. /\ 4 * n \in Nat /\ (2 * centre - extent - 4 * pad) * d \in Int /\ 2 * extent * d \in Nat
        /\ src * (4 * n) \in Nat /\ (src - 1) * (4 * n) \in Nat
        /\ (src - 1) * (4 * n) + 4 * n = src * (4 * n)
    OBVIOUS
  <2> QED BY <2>1
<1>2. pos = Clamp(lo, 0, last) /\ size = Clamp(e, 0, top - pos)
  <2> DEFINE x == Clamp(lo, 0, last)
             w == Clamp(e, 0, top - x)
  <2>1. Unletterbox(lb, centre, extent, pad, src) = <<x, w>>
    BY Zenon DEF Unletterbox
  <2> HIDE DEF x, w
  <2>2. pos = x /\ size = w
    BY <2>1
  <2> QED BY <2>2, Zenon DEF x, w
<1> HIDE DEF px, lo, e, top, last
<1>3. Visible(lo, lo + e, top) = <<Max({lo, 0}), Min({lo + e, top})>>
  BY Zenon DEF Visible
<1>4. Max({lo, 0}) = (IF lo >= 0 THEN lo ELSE 0) /\ Min({lo + e, top}) = IF lo + e <= top THEN lo + e ELSE top
  BY <1>1, MaxOfTwo, MinOfTwo
<1> DEFINE v == Visible(lo, lo + e, top)
<1>5. v[1] = (IF lo >= 0 THEN lo ELSE 0) /\ v[2] = IF lo + e <= top THEN lo + e ELSE top
  BY <1>3, <1>4
<1> HIDE DEF v
<1>6. pos \in Int /\ 0 <= pos /\ pos <= last /\ (lo <= last => pos = IF lo < 0 THEN 0 ELSE lo)
      /\ (~(lo <= last) => pos = last)
  BY <1>1, <1>2 DEF Clamp
<1>7. size \in Int /\ 0 <= size /\ pos + size <= top /\ (size = e \/ size = top - pos) /\ size <= e
  BY <1>1, <1>2, <1>6 DEF Clamp
<1>8. lo <= last => pos <= v[1] /\ v[2] <= pos + size
  BY <1>1, <1>5, <1>6, <1>7
<1>9. /\ 0 <= pos /\ 0 <= size /\ pos + size <= top
      /\ IF lo <= last THEN pos <= v[1] /\ v[2] <= pos + size ELSE pos = last
  BY <1>6, <1>7, <1>8
<1> QED BY <1>9, Zenon DEF v, lo, e, top, last, px, Covers

\* Every box decode_yolo() makes lies in the frame.
LEMMA RawClipped ==
  ASSUME TensorRead, image \in Cameras, DecodedTo(raw, NumBoxes)
  PROVE  BoxClipped
<1>0. NumBoxes \in Nat /\ NumBoxes = Len(found) /\ DOMAIN raw = 1 .. Len(raw)
  BY DEF TensorRead, DecodedTo
<1> SUFFICES ASSUME NEW k \in DOMAIN raw, NEW lb, lb = Letterbox(image), NEW c, c = found[raw[k].box + 1]
             PROVE  /\ Covers(lb, raw[k].x, raw[k].w, c.cx, c.bw, lb.pad_x, lb.src_w)
                    /\ Covers(lb, raw[k].y, raw[k].h, c.cy, c.bh, lb.pad_y, lb.src_h)
  BY Zenon DEF BoxClipped, Covers
<1> DEFINE b == raw[k].box
           d == raw[k]
<1>1. b \in 0 .. NumBoxes - 1 /\ d = Detection(b)
  BY <1>0, Zenon DEF DecodedTo
<1>2. lb = Letterbox(image) /\ c = found[b + 1]
  OBVIOUS
<1>21. b = raw[k].box /\ d = raw[k]
  OBVIOUS
<1> HIDE DEF b, d
<1>3. /\ c \in Candidate
      /\ d.x = Unletterbox(lb, c.cx, c.bw, lb.pad_x, lb.src_w)[1]
      /\ d.w = Unletterbox(lb, c.cx, c.bw, lb.pad_x, lb.src_w)[2]
      /\ d.y = Unletterbox(lb, c.cy, c.bh, lb.pad_y, lb.src_h)[1]
      /\ d.h = Unletterbox(lb, c.cy, c.bh, lb.pad_y, lb.src_h)[2]
  BY <1>0, <1>1, <1>2, DetectionIs
<1>4. image \in [w : Nat \ {0}, h : Nat \ {0}]
  BY CamerasAssumption
<1>5. /\ lb.num \in Nat \ {0} /\ lb.den \in Nat \ {0}
      /\ lb.src_w = image.w /\ lb.src_h = image.h /\ lb.pad_x \in Nat /\ lb.pad_y \in Nat
  BY <1>2, <1>4, LetterboxFits, Zenon
<1>6. /\ lb.src_w \in Nat \ {0} /\ lb.src_h \in Nat \ {0} /\ lb.pad_x \in Int /\ lb.pad_y \in Int
      /\ c.cx \in Int /\ c.cy \in Int /\ c.bw \in Nat /\ c.bh \in Nat
  BY <1>3, <1>4, <1>5 DEF Candidate
<1>7. Covers(lb, d.x, d.w, c.cx, c.bw, lb.pad_x, lb.src_w)
  BY <1>3, <1>5, <1>6, Clipped, Zenon
<1>8. Covers(lb, d.y, d.h, c.cy, c.bh, lb.pad_y, lb.src_h)
  BY <1>3, <1>5, <1>6, Clipped, Zenon
<1> QED BY <1>21, <1>7, <1>8, Zenon

-------------------------------------------------------------------------------
(* nms() *)

\* Every detection once, the scores in descending order.
IsOrder(p, n) ==
  /\ p \in [1 .. n -> 1 .. n] /\ Len(p) = n
  /\ \A i, j \in 1 .. n : i # j => p[i] # p[j]
  /\ \A k \in 1 .. n : \E i \in 1 .. n : p[i] = k
  /\ \A i, j \in 1 .. n : i < j => raw[p[i]].score >= raw[p[j]].score

\* What the sort leaves.
LEMMA OrderIs ==
  ASSUME NEW n \in Nat, n = Len(raw), NEW p \in SortedOrders,
         \A k \in 1 .. n : raw[k].score \in Int
  PROVE  IsOrder(p, n)
<1>1. IsFiniteSet(1 .. n) /\ Cardinality(1 .. n) = n
  <2>1. 1 \in Int /\ n \in Int /\ (IF 1 > n THEN 0 ELSE n - 1 + 1) = n
    OBVIOUS
  <2> QED BY <2>1, FS_Interval, Zenon
<1>2. /\ p \in [1 .. n -> 1 .. n] /\ \A i, j \in 1 .. n : i # j => p[i] # p[j]
      /\ \A i \in 1 .. Len(p) - 1 : raw[p[i]].score >= raw[p[i + 1]].score
  BY <1>1, Zenon DEF SortedOrders, SetToSeqs
<1>3. Len(p) = n
  BY <1>2
<1>4. \A k \in 1 .. n : \E i \in 1 .. n : p[i] = k
  <2>1. p \in Injection(1 .. n, 1 .. n)
    BY <1>2 DEF Injection, IsInjective
  <2>2. p \in Surjection(1 .. n, 1 .. n)
    BY <1>1, <2>1, FS_Injection, Zenon
  <2> QED BY <2>2, Zenon DEF Surjection
<1>5. \A i \in 1 .. n : raw[p[i]].score \in Int
  BY <1>2
<1>6. ASSUME NEW i \in 1 .. n
      PROVE  \A j \in 1 .. n : i < j => raw[p[i]].score >= raw[p[j]].score
  <2> DEFINE sc(k) == raw[p[k]].score
             T == {m \in Nat : i + m <= n => sc(i) >= sc(i + m)}
  <2>0. \A k \in 1 .. n : sc(k) \in Int
    BY <1>5
  <2>01. \A k \in 1 .. n - 1 : sc(k) >= sc(k + 1)
    BY <1>2, <1>3, Zenon
  <2> HIDE DEF sc
  <2>1. 0 \in T
    <3>1. i + 0 = i
      OBVIOUS
    <3> QED BY <2>0, <3>1
  <2>2. ASSUME NEW m \in Nat, m \in T PROVE m + 1 \in T
    <3> SUFFICES ASSUME i + (m + 1) <= n PROVE sc(i) >= sc(i + (m + 1))
      OBVIOUS
    <3>1. i + m \in 1 .. n - 1 /\ i + m \in 1 .. n /\ i + m <= n /\ (i + m) + 1 = i + (m + 1)
          /\ i + (m + 1) \in 1 .. n
      OBVIOUS
    <3>2. sc(i) >= sc(i + m)
      BY <2>2, <3>1
    <3>3. sc(i + m) >= sc(i + (m + 1))
      BY <2>01, <3>1
    <3>4. sc(i) \in Int /\ sc(i + m) \in Int /\ sc(i + (m + 1)) \in Int
      BY <2>0, <3>1
    <3> QED BY <3>2, <3>3, <3>4
  <2>3. Nat \subseteq T
    <3> HIDE DEF T
    <3> QED BY <2>1, <2>2, Induction
  <2>4. ASSUME NEW j \in 1 .. n, i < j PROVE sc(i) >= sc(j)
    <3>1. j - i \in Nat /\ i + (j - i) = j /\ j <= n
      BY <2>4
    <3>2. i + (j - i) <= n => sc(i) >= sc(i + (j - i))
      BY <2>3, <3>1
    <3> QED BY <3>1, <3>2
  <2> QED BY <2>4 DEF sc
<1> QED BY <1>2, <1>3, <1>4, <1>6 DEF IsOrder

PassStep(p, f, n) == IF n = 0 THEN <<>> ELSE Turn(f[n - 1], raw[p[n]])

\* The recursive function of Pass exists.
LEMMA PassFunction ==
  ASSUME NEW p, Len(p) \in Nat
  PROVE  \E f : f = [n \in 0 .. Len(p) |-> PassStep(p, f, n)] /\ Pass(p) = f[Len(p)]
<1> DEFINE T == {k \in Nat : \E f : f = [n \in 0 .. k |-> PassStep(p, f, n)]}
<1>1. 0 \in T
  <2> DEFINE f == [n \in 0 .. 0 |-> <<>>]
  <2>1. \A n \in 0 .. 0 : n = 0
    OBVIOUS
  <2>2. f = [n \in 0 .. 0 |-> PassStep(p, f, n)]
    BY <2>1 DEF PassStep
  <2> QED BY <2>2
<1>2. ASSUME NEW k \in Nat, k \in T PROVE k + 1 \in T
  <2>1. PICK f : f = [n \in 0 .. k |-> PassStep(p, f, n)]
    BY <1>2
  <2> DEFINE g == [n \in 0 .. k + 1 |-> IF n = k + 1 THEN PassStep(p, f, n) ELSE f[n]]
  <2>2. \A n \in 0 .. k : g[n] = f[n] /\ f[n] = PassStep(p, f, n)
    <3> SUFFICES ASSUME NEW n \in 0 .. k PROVE g[n] = f[n] /\ f[n] = PassStep(p, f, n)
      OBVIOUS
    <3>1. f[n] = PassStep(p, f, n)
      BY <2>1, Zenon
    <3>2. n \in 0 .. k + 1 /\ n # k + 1
      OBVIOUS
    <3>3. g[n] = f[n]
      BY <3>2
    <3> QED BY <3>1, <3>3
  <2>3. g[k + 1] = PassStep(p, f, k + 1)
    OBVIOUS
  <2> HIDE DEF g
  <2>4. ASSUME NEW n \in 0 .. k + 1 PROVE g[n] = PassStep(p, g, n)
    <3>1. n = 0 \/ (n - 1 \in 0 .. k /\ g[n - 1] = f[n - 1])
      BY <2>2
    <3>2. PassStep(p, g, n) = PassStep(p, f, n)
      BY <3>1 DEF PassStep
    <3>3. n \in 0 .. k \/ n = k + 1
      OBVIOUS
    <3> QED BY <2>2, <2>3, <3>2, <3>3
  <2>5. g = [n \in 0 .. k + 1 |-> g[n]]
    BY DEF g
  <2>6. g = [n \in 0 .. k + 1 |-> PassStep(p, g, n)]
    BY <2>4, <2>5
  <2> QED BY <2>6
<1>3. Nat \subseteq T
  <2> HIDE DEF T
  <2> QED BY <1>1, <1>2, Induction
<1>4. \E f : f = [n \in 0 .. Len(p) |-> PassStep(p, f, n)]
  BY <1>3
<1> DEFINE F == CHOOSE f : f = [n \in 0 .. Len(p) |-> PassStep(p, f, n)]
<1>5. F = [n \in 0 .. Len(p) |-> PassStep(p, F, n)]
  <2> HIDE DEF T
  <2> QED BY <1>4
<1>6. Pass(p) = F[Len(p)]
  BY DEF Pass, PassStep
<1> QED BY <1>5, <1>6

\* Where detection d is after the greedy pass, with the detections s kept: it is kept, or
\* came when s was full, or a better one of its class removed it.
Settled(s, d) ==
  \/ \E k \in 1 .. Len(s) : s[k] = d
  \/ Len(s) = max_detections /\ \A k \in 1 .. Len(s) : s[k].score >= d.score
  \/ \E k \in 1 .. Len(s) : s[k].score >= d.score /\ Suppresses(s[k], d)

\* The first n turns of the pass over the detections q.
PassedTo(s, q, n) ==
  /\ s \in Seq({q[i] : i \in 1 .. Len(q)}) /\ Len(s) <= max_detections
  /\ \A k \in 1 .. Len(s) : \E i \in 1 .. n : s[k] = q[i]
  /\ \A j, k \in 1 .. Len(s) : j < k => \E a, b \in 1 .. n : a < b /\ s[j] = q[a] /\ s[k] = q[b]
  /\ \A j, k \in 1 .. Len(s) : j < k => ~Suppresses(s[j], s[k])
  /\ \A i \in 1 .. n : Settled(s, q[i])

\* One turn.
LEMMA TurnKeeps ==
  ASSUME NEW N \in Nat, NEW q, Len(q) = N, NEW n \in Nat, n + 1 <= N, NEW s, PassedTo(s, q, n),
         \A i, j \in 1 .. N : i < j => q[i].score >= q[j].score,
         NEW d, d = q[n + 1], NEW t, t = Turn(s, d)
  PROVE  PassedTo(t, q, n + 1)
<1> DEFINE A == {q[i] : i \in 1 .. Len(q)}
<1>1. n + 1 \in 1 .. N /\ n + 1 \in 1 .. n + 1
  OBVIOUS
<1>2. d \in A
  BY <1>1
<1> HIDE DEF A
<1>3. /\ s \in Seq(A) /\ Len(s) <= max_detections
      /\ \A k \in 1 .. Len(s) : \E i \in 1 .. n : s[k] = q[i]
      /\ \A j, k \in 1 .. Len(s) : j < k => \E a, b \in 1 .. n : a < b /\ s[j] = q[a] /\ s[k] = q[b]
      /\ \A j, k \in 1 .. Len(s) : j < k => ~Suppresses(s[j], s[k])
      /\ \A i \in 1 .. n : Settled(s, q[i])
  BY Zenon DEF PassedTo, A
<1>4. PICK m \in Nat : m = Len(s)
  BY <1>3
<1>5. DOMAIN s = 1 .. m
  BY <1>3, <1>4
<1>6. \A i \in 1 .. n : i \in 1 .. n + 1 /\ i \in 1 .. N /\ i < n + 1
  OBVIOUS
<1>7. \A i \in 1 .. n + 1 : i \in 1 .. n \/ i = n + 1
  OBVIOUS
<1>8. \A k \in 1 .. m : s[k].score >= d.score
  <2> SUFFICES ASSUME NEW k \in 1 .. m PROVE s[k].score >= d.score
    OBVIOUS
  <2>1. PICK i \in 1 .. n : s[k] = q[i]
    BY <1>3, <1>4, Zenon
  <2> QED BY <1>1, <1>6, <2>1, Zenon
<1>9. CASE t = s
  <2>1. Settled(s, d)
    <3>1. CASE s # <<>> /\ m >= max_detections
      <4>1. m = max_detections
        BY <1>3, <1>4, <3>1, ConfigAssumption
      <4> QED BY <1>4, <1>8, <4>1, Zenon DEF Settled
    <3>2. CASE \E k \in DOMAIN s : Suppresses(s[k], d)
      BY <1>4, <1>5, <1>8, <3>2, Zenon DEF Settled
    <3>3. CASE ~(s # <<>> /\ m >= max_detections) /\ ~(\E k \in DOMAIN s : Suppresses(s[k], d))
      <4>1. Turn(s, d) = Append(s, d)
        BY <1>4, <3>3, Zenon DEF Turn
      <4>2. Len(Append(s, d)) = m + 1
        BY <1>2, <1>3, <1>4
      <4>3. m # m + 1
        OBVIOUS
      <4> QED BY <1>4, <1>9, <4>1, <4>2, <4>3, Zenon
    <3> QED BY <3>1, <3>2, <3>3, Zenon
  <2>2. \A i \in 1 .. n + 1 : Settled(s, q[i])
    BY <1>3, <1>7, <2>1, Zenon
  <2>3. \A k \in 1 .. Len(s) : \E i \in 1 .. n + 1 : s[k] = q[i]
    BY <1>3, <1>6, Zenon
  <2>4. \A j, k \in 1 .. Len(s) : j < k => \E a, b \in 1 .. n + 1 : a < b /\ s[j] = q[a] /\ s[k] = q[b]
    <3> SUFFICES ASSUME NEW j \in 1 .. Len(s), NEW k \in 1 .. Len(s), j < k
                 PROVE  \E a, b \in 1 .. n + 1 : a < b /\ s[j] = q[a] /\ s[k] = q[b]
      BY Zenon
    <3>1. PICK a \in 1 .. n, b \in 1 .. n : a < b /\ s[j] = q[a] /\ s[k] = q[b]
      BY <1>3, Zenon
    <3>2. a \in 1 .. n + 1 /\ b \in 1 .. n + 1
      BY <1>6, Zenon
    <3> QED BY <3>1, <3>2, Zenon
  <2>5. PassedTo(s, q, n + 1)
    BY <1>3, <2>2, <2>3, <2>4, Zenon DEF PassedTo, A
  <2> QED BY <1>9, <2>5, Zenon
<1>10. CASE t # s
  <2>1. /\ t = Append(s, d) /\ ~(s # <<>> /\ m >= max_detections)
        /\ \A k \in 1 .. m : ~Suppresses(s[k], d)
    BY <1>4, <1>5, <1>10, Zenon DEF Turn
  <2>2. /\ t \in Seq(A) /\ Len(t) = m + 1 /\ t[m + 1] = d
        /\ \A k \in 1 .. m : t[k] = s[k]
    BY <1>2, <1>3, <1>4, <2>1
  <2>3. m < max_detections
    <3>1. s = <<>> => m = 0
      BY <1>4
    <3> QED BY <2>1, <3>1, ConfigAssumption
  <2>4. m + 1 <= max_detections /\ m # max_detections
    BY <2>3, ConfigAssumption
  <2>5. /\ \A k \in 1 .. m + 1 : k \in 1 .. m \/ k = m + 1
        /\ \A k \in 1 .. m : k \in 1 .. m + 1
        /\ m + 1 \in 1 .. m + 1
        /\ \A k \in 1 .. m + 1 : ~(m + 1 < k)
    OBVIOUS
  <2>6. \A k \in 1 .. m + 1 : \E i \in 1 .. n + 1 : t[k] = q[i]
    <3> SUFFICES ASSUME NEW k \in 1 .. m + 1 PROVE \E i \in 1 .. n + 1 : t[k] = q[i]
      BY Zenon
    <3>1. CASE k \in 1 .. m
      <4>1. PICK i \in 1 .. n : s[k] = q[i]
        BY <1>3, <1>4, <3>1, Zenon
      <4> QED BY <1>6, <2>2, <3>1, <4>1, Zenon
    <3>2. CASE k = m + 1
      BY <1>1, <2>2, <3>2, Zenon
    <3> QED BY <2>5, <3>1, <3>2, Zenon
  <2>7. ASSUME NEW j \in 1 .. m + 1, NEW k \in 1 .. m + 1, j < k
        PROVE  /\ \E a, b \in 1 .. n + 1 : a < b /\ t[j] = q[a] /\ t[k] = q[b]
               /\ ~Suppresses(t[j], t[k])
    <3>1. j \in 1 .. m
      BY <2>7
    <3>2. CASE k \in 1 .. m
      <4>1. PICK a \in 1 .. n, b \in 1 .. n : a < b /\ s[j] = q[a] /\ s[k] = q[b]
        BY <1>3, <1>4, <2>7, <3>1, <3>2, Zenon
      <4>2. a \in 1 .. n + 1 /\ b \in 1 .. n + 1
        BY <1>6, Zenon
      <4>3. ~Suppresses(s[j], s[k])
        BY <1>3, <1>4, <2>7, <3>1, <3>2, Zenon
      <4>4. t[j] = s[j] /\ t[k] = s[k]
        BY <2>2, <3>1, <3>2, Zenon
      <4> QED BY <4>1, <4>2, <4>3, <4>4, Zenon
    <3>3. CASE k = m + 1
      <4>1. PICK i \in 1 .. n : s[j] = q[i]
        BY <1>3, <1>4, <3>1, Zenon
      <4>2. t[k] = q[n + 1] /\ t[j] = q[i] /\ i < n + 1 /\ i \in 1 .. n + 1
        BY <1>6, <2>2, <3>1, <3>3, <4>1, Zenon
      <4>3. ~Suppresses(t[j], t[k])
        BY <2>1, <2>2, <3>1, <3>3, Zenon
      <4> QED BY <1>1, <4>2, <4>3, Zenon
    <3> QED BY <2>5, <3>2, <3>3, Zenon
  <2>8. ASSUME NEW i \in 1 .. n + 1 PROVE Settled(t, q[i])
    <3>1. CASE i \in 1 .. n
      <4>1. Settled(s, q[i])
        BY <1>3, <3>1, Zenon
      <4>2. ~(Len(s) = max_detections)
        BY <1>4, <2>4, Zenon
      <4>3. \/ \E k \in 1 .. m : s[k] = q[i]
            \/ \E k \in 1 .. m : s[k].score >= q[i].score /\ Suppresses(s[k], q[i])
        BY <1>4, <4>1, <4>2, Zenon DEF Settled
      <4> QED BY <2>2, <2>5, <4>3, Zenon DEF Settled
    <3>2. CASE i = n + 1
      BY <2>2, <2>5, <3>2, Zenon DEF Settled
    <3> QED BY <1>7, <3>1, <3>2
  <2>9. Len(t) <= max_detections
    BY <2>2, <2>4
  <2>10. \A j, k \in 1 .. m + 1 : j < k => \E a, b \in 1 .. n + 1 : a < b /\ t[j] = q[a] /\ t[k] = q[b]
    BY <2>7, Zenon
  <2>11. \A j, k \in 1 .. m + 1 : j < k => ~Suppresses(t[j], t[k])
    BY <2>7, Zenon
  <2>12. PICK l : l = Len(t)
    BY Zenon
  <2>13. l = m + 1
    BY <2>2, <2>12, Zenon
  <2>14. /\ \A k \in 1 .. l : \E i \in 1 .. n + 1 : t[k] = q[i]
         /\ \A j, k \in 1 .. l : j < k => \E a, b \in 1 .. n + 1 : a < b /\ t[j] = q[a] /\ t[k] = q[b]
         /\ \A j, k \in 1 .. l : j < k => ~Suppresses(t[j], t[k])
    BY <2>6, <2>10, <2>11, <2>13, Zenon
  <2>15. /\ \A k \in 1 .. Len(t) : \E i \in 1 .. n + 1 : t[k] = q[i]
         /\ \A j, k \in 1 .. Len(t) : j < k => \E a, b \in 1 .. n + 1 : a < b /\ t[j] = q[a] /\ t[k] = q[b]
         /\ \A j, k \in 1 .. Len(t) : j < k => ~Suppresses(t[j], t[k])
    BY <2>12, <2>14, Zenon
  <2> QED BY <2>2, <2>8, <2>9, <2>15, Zenon DEF PassedTo, A
<1> QED BY <1>9, <1>10

\* The whole pass.
LEMMA PassIs ==
  ASSUME NEW N \in Nat, N = Len(raw), NEW p \in SortedOrders, \A k \in 1 .. N : raw[k].score \in Int,
         NEW q, q = [i \in 1 .. N |-> raw[p[i]]]
  PROVE  PassedTo(Pass(p), q, N)
<1>1. /\ Len(p) = N
      /\ \A i, j \in 1 .. N : i < j => raw[p[i]].score >= raw[p[j]].score
  BY OrderIs, Zenon DEF IsOrder
<1>2. Len(q) = N /\ \A i \in 1 .. N : q[i] = raw[p[i]]
  OBVIOUS
<1>3. \A i, j \in 1 .. N : i < j => q[i].score >= q[j].score
  BY <1>1, <1>2, Zenon
<1>4. PICK f : f = [n \in 0 .. N |-> PassStep(p, f, n)] /\ Pass(p) = f[N]
  BY <1>1, PassFunction
<1>5. \A n \in 0 .. N : f[n] = PassStep(p, f, n)
  BY <1>4, Zenon
<1> DEFINE T == {n \in Nat : n <= N => PassedTo(f[n], q, n)}
<1>6. 0 \in T
  <2>1. f[0] = <<>>
    BY <1>5 DEF PassStep
  <2>2. PassedTo(<<>>, q, 0)
    BY ConfigAssumption DEF PassedTo
  <2> QED BY <2>1, <2>2
<1>7. ASSUME NEW n \in Nat, n \in T PROVE n + 1 \in T
  <2> SUFFICES ASSUME n + 1 <= N PROVE PassedTo(f[n + 1], q, n + 1)
    OBVIOUS
  <2>1. n + 1 \in 0 .. N /\ n + 1 # 0 /\ (n + 1) - 1 = n /\ n <= N /\ n + 1 \in 1 .. N
    OBVIOUS
  <2>2. PassedTo(f[n], q, n)
    BY <1>7, <2>1
  <2>3. f[n + 1] = Turn(f[n], raw[p[n + 1]])
    BY <1>5, <2>1, Zenon DEF PassStep
  <2>4. f[n + 1] = Turn(f[n], q[n + 1])
    BY <1>2, <2>1, <2>3, Zenon
  <2>5. PICK d, s, t : d = q[n + 1] /\ s = f[n] /\ t = f[n + 1]
    BY Zenon
  <2>6. PassedTo(s, q, n) /\ t = Turn(s, d)
    BY <2>2, <2>4, <2>5, Zenon
  <2>7. PassedTo(t, q, n + 1)
    BY <1>2, <1>3, <2>5, <2>6, TurnKeeps
  <2> QED BY <2>5, <2>7, Zenon
<1>8. Nat \subseteq T
  <2> HIDE DEF T
  <2> QED BY <1>6, <1>7, Induction
<1>9. PassedTo(f[N], q, N)
  BY <1>8
<1> QED BY <1>4, <1>9

-------------------------------------------------------------------------------
(* What the two together compute *)

\* The boxes in the first n places, numbered from 1.
Boxes(box, n) == {box[k] + 1 : k \in 1 .. n}

\* As many boxes as places, when no box is in two places.
LEMMA AsManyBoxes ==
  ASSUME NEW n \in Nat, NEW box, \A k \in 1 .. n : box[k] \in Nat,
         \A j, k \in 1 .. n : j < k => box[j] # box[k]
  PROVE  Cardinality(Boxes(box, n)) = n
<1> DEFINE B == Boxes(box, n)
<1>1. IsFiniteSet(1 .. n) /\ Cardinality(1 .. n) = n
  <2>1. 1 \in Int /\ n \in Int /\ (IF 1 > n THEN 0 ELSE n - 1 + 1) = n
    OBVIOUS
  <2> QED BY <2>1, FS_Interval, Zenon
<1> DEFINE f == [k \in 1 .. n |-> box[k] + 1]
<1>2. f \in [1 .. n -> B] /\ \A t \in B : \E k \in 1 .. n : f[k] = t
  BY DEF Boxes
<1>3. \A j, k \in 1 .. n : f[j] = f[k] => j = k
  <2> SUFFICES ASSUME NEW j \in 1 .. n, NEW k \in 1 .. n, f[j] = f[k], j # k PROVE FALSE
    OBVIOUS
  <2>1. box[j] \in Nat /\ box[k] \in Nat /\ box[j] + 1 = box[k] + 1
    OBVIOUS
  <2>2. box[j] = box[k] /\ (j < k \/ k < j)
    BY <2>1
  <2> QED BY <2>2
<1> HIDE DEF f, B
<1>4. f \in Injection(1 .. n, B) /\ f \in Surjection(1 .. n, B)
  BY <1>2, <1>3 DEF Injection, IsInjective, Surjection
<1>5. ExistsBijection(1 .. n, B)
  BY <1>4 DEF ExistsBijection, Bijection
<1>6. Cardinality(B) = n
  BY <1>1, <1>5, FS_Bijection
<1> QED BY <1>6 DEF B

\* What nms() keeps, taking the boxes in a sorted order, is what DecodeCorrect asks for.
LEMMA KeepIsCorrect ==
  ASSUME TensorRead, DecodedTo(raw, NumBoxes), NEW p \in SortedOrders, keep = Pass(p)
  PROVE  DecodeCorrect
<1>0. NumBoxes \in Nat /\ NumBoxes = Len(found) /\ DOMAIN found = 1 .. NumBoxes
  BY DEF TensorRead
<1>1. PICK N \in Nat : N = Len(raw)
  BY DEF DecodedTo
<1>2. /\ \A k \in 1 .. N : /\ raw[k].box \in 0 .. NumBoxes - 1 /\ raw[k] = Detection(raw[k].box)
                           /\ Accepted(raw[k])
      /\ \A b \in 0 .. NumBoxes - 1 : Accepted(Detection(b)) => \E k \in 1 .. N : raw[k] = Detection(b)
      /\ \A j, k \in 1 .. N : j < k => raw[j].box < raw[k].box
  BY <1>1, Zenon DEF DecodedTo
\* What is known of a detection.
<1>3. ASSUME NEW k \in 1 .. N, NEW c, c = found[raw[k].box + 1]
      PROVE  /\ raw[k].box + 1 \in Worthy /\ raw[k].score = Score(c) /\ raw[k].score \in Int
             /\ c.scores[raw[k].class_id + 1] = BestScore(c)
  <2> DEFINE b == raw[k].box
             d == raw[k]
  <2>1. b \in 0 .. NumBoxes - 1 /\ d = Detection(b) /\ Accepted(d) /\ c = found[b + 1]
    BY <1>2, <1>3, Zenon
  <2>2. b \in 0 .. Len(found) - 1
    BY <1>0, <2>1, Zenon
  <2> HIDE DEF b, d
  <2>3. PICK lb : lb = Letterbox(image)
    BY Zenon
  <2>4. /\ c \in Candidate /\ d.score = Score(c)
        /\ d.class_id >= 0 <=> BestScore(c) > 0
        /\ BestScore(c) > 0 => c.scores[d.class_id + 1] = BestScore(c)
    BY <2>1, <2>2, <2>3, DetectionIs
  <2>5. b + 1 \in Worthy
    BY <2>1, <2>2, AcceptedIsWorthy, Zenon
  <2>6. d.class_id >= 0
    BY <2>1, Zenon DEF Accepted
  <2>7. Score(c) \in Int
    <3>1. PICK x \in 0 .. 10 : x = BestScore(c)
      BY <2>4, BestClass
    <3>2. PICK y \in 0 .. 10 : y = c.obj
      BY <2>4 DEF Candidate
    <3>3. x * y \in Int
      OBVIOUS
    <3> QED BY <3>1, <3>2, <3>3, Zenon DEF Score
  <2> QED BY <2>4, <2>5, <2>6, <2>7, Zenon DEF b, d
<1>4. \A k \in 1 .. N : raw[k].score \in Int
  BY <1>3, Zenon
<1>5. /\ p \in [1 .. N -> 1 .. N]
      /\ \A i, j \in 1 .. N : i # j => p[i] # p[j]
      /\ \A k \in 1 .. N : \E i \in 1 .. N : p[i] = k
      /\ \A i, j \in 1 .. N : i < j => raw[p[i]].score >= raw[p[j]].score
  <2>1. IsOrder(p, N)
    BY <1>1, <1>4, OrderIs, Zenon
  <2> QED BY <2>1, Zenon DEF IsOrder
<1> DEFINE q == [i \in 1 .. N |-> raw[p[i]]]
<1>6. PassedTo(keep, q, N)
  <2>1. q = [i \in 1 .. N |-> raw[p[i]]]
    OBVIOUS
  <2> HIDE DEF q
  <2> QED BY <1>1, <1>4, <2>1, PassIs
<1>7. Len(q) = N /\ (\A i \in 1 .. N : q[i] = raw[p[i]] /\ p[i] \in 1 .. N)
  BY <1>5
<1> HIDE DEF q
<1>8. /\ keep \in Seq({q[i] : i \in 1 .. N}) /\ Len(keep) <= max_detections
      /\ \A k \in 1 .. Len(keep) : \E i \in 1 .. N : keep[k] = q[i]
      /\ \A j, k \in 1 .. Len(keep) : j < k => \E a, b \in 1 .. N : a < b /\ keep[j] = q[a] /\ keep[k] = q[b]
      /\ \A j, k \in 1 .. Len(keep) : j < k => ~Suppresses(keep[j], keep[k])
      /\ \A i \in 1 .. N : Settled(keep, q[i])
  BY <1>6, <1>7 DEF PassedTo
<1>9. PICK M \in Nat : M = Len(keep) /\ DOMAIN keep = 1 .. M
  BY <1>8
<1>10. ASSUME NEW k \in 1 .. M
       PROVE  \E i \in 1 .. N : keep[k] = raw[i]
  <2>1. PICK i \in 1 .. N : keep[k] = q[i]
    BY <1>8, <1>9, Zenon
  <2> QED BY <1>7, <2>1, Zenon
<1>11. ASSUME NEW j \in 1 .. M, NEW k \in 1 .. M, j < k
       PROVE  /\ keep[j].score >= keep[k].score /\ ~Suppresses(keep[j], keep[k])
              /\ keep[j].box # keep[k].box
  <2>1. PICK a \in 1 .. N, b \in 1 .. N : a < b /\ keep[j] = q[a] /\ keep[k] = q[b]
    BY <1>8, <1>9, <1>11, Zenon
  <2>2. keep[j] = raw[p[a]] /\ keep[k] = raw[p[b]] /\ p[a] \in 1 .. N /\ p[b] \in 1 .. N
    BY <1>7, <2>1, Zenon
  <2>3. a # b
    BY <2>1
  <2>4. p[a] # p[b] /\ raw[p[a]].score >= raw[p[b]].score
    BY <1>5, <2>1, <2>3, Zenon
  <2>5. PICK x \in 1 .. N, y \in 1 .. N : x = p[a] /\ y = p[b]
    BY <2>2, Zenon
  <2>6. x < y \/ y < x
    BY <2>4, <2>5
  <2>7. /\ raw[x].box \in Nat /\ raw[y].box \in Nat
        /\ raw[x].box < raw[y].box \/ raw[y].box < raw[x].box
    BY <1>0, <1>2, <2>6
  <2>8. raw[x].box # raw[y].box
    BY <2>7
  <2>9. ~Suppresses(keep[j], keep[k])
    BY <1>8, <1>9, <1>11, Zenon
  <2> QED BY <2>2, <2>4, <2>5, <2>8, <2>9, Zenon
<1> DEFINE kept == {keep[k].box + 1 : k \in DOMAIN keep}
<1>12. Cardinality(kept) = M
  <2> DEFINE box == [k \in 1 .. M |-> keep[k].box]
  <2>1. \A k \in 1 .. M : box[k] = keep[k].box /\ box[k] \in Nat
    <3> SUFFICES ASSUME NEW k \in 1 .. M PROVE box[k] = keep[k].box /\ keep[k].box \in Nat
      OBVIOUS
    <3>1. PICK i \in 1 .. N : keep[k] = raw[i]
      BY <1>10
    <3>2. raw[i].box \in 0 .. NumBoxes - 1
      BY <1>2, Zenon
    <3>3. 0 .. NumBoxes - 1 \subseteq Nat
      BY <1>0
    <3> QED BY <3>1, <3>2, <3>3
  <2>2. kept = {box[k] + 1 : k \in 1 .. M}
    BY <1>9, <2>1
  <2> HIDE DEF box, kept
  <2>3. \A j, k \in 1 .. M : j < k => box[j] # box[k]
    BY <1>11, <2>1, Zenon
  <2>4. \A k \in 1 .. M : box[k] \in Nat
    BY <2>1, Zenon
  <2>5. kept = Boxes(box, M)
    BY <2>2, Zenon DEF Boxes
  <2>6. Cardinality(Boxes(box, M)) = M
    BY <2>3, <2>4, AsManyBoxes, Zenon
  <2> QED BY <2>5, <2>6, Zenon
<1>13. ASSUME NEW k \in DOMAIN keep
       PROVE  /\ keep[k].box + 1 \in Worthy
              /\ keep[k].score = Score(found[keep[k].box + 1])
              /\ found[keep[k].box + 1].scores[keep[k].class_id + 1] = BestScore(found[keep[k].box + 1])
  <2>1. PICK i \in 1 .. N : keep[k] = raw[i]
    BY <1>9, <1>10, Zenon
  <2>2. /\ raw[i].box + 1 \in Worthy /\ raw[i].score = Score(found[raw[i].box + 1])
        /\ found[raw[i].box + 1].scores[raw[i].class_id + 1] = BestScore(found[raw[i].box + 1])
    BY <1>3, Zenon
  <2> QED BY <2>1, <2>2, Zenon
<1>14. ASSUME NEW k \in DOMAIN keep, NEW j \in 1 .. k - 1
       PROVE  /\ keep[j].score >= keep[k].score
              /\ ~(keep[j].class_id = keep[k].class_id /\ OverThreshold(keep[j], keep[k]))
  <2>1. k \in 1 .. M /\ j \in 1 .. M /\ j < k
    BY <1>9
  <2> QED BY <1>11, <2>1, Zenon DEF Suppresses
<1>15. ASSUME NEW b \in Worthy \ kept, NEW d, d = Detection(b - 1),
              NEW better, better = {k \in DOMAIN keep : keep[k].score >= d.score}
       PROVE  \/ Len(keep) = max_detections /\ better = DOMAIN keep
              \/ \E k \in better : keep[k].class_id = d.class_id /\ OverThreshold(keep[k], d)
  <2>1. b \in 1 .. NumBoxes
    BY <1>0 DEF Worthy
  <2>2. b - 1 \in 0 .. NumBoxes - 1 /\ (b - 1) + 1 = b
    BY <1>0, <2>1
  <2>3. Accepted(d)
    <3>1. b - 1 \in 0 .. Len(found) - 1
      BY <1>0, <2>2, Zenon
    <3>2. (b - 1) + 1 \in Worthy
      BY <1>15, <2>2, Zenon
    <3> QED BY <1>15, <3>1, <3>2, AcceptedIsWorthy, Zenon
  <2>4. PICK m \in 1 .. N : raw[m] = d
    BY <1>2, <1>15, <2>2, <2>3, Zenon
  <2>5. PICK i \in 1 .. N : p[i] = m
    BY <1>5, Zenon
  <2>6. q[i] = d
    BY <1>7, <2>4, <2>5, Zenon
  <2>7. d.box = b - 1
    BY <1>15 DEF Detection
  <2>8. Settled(keep, d)
    BY <1>8, <2>6, Zenon
  <2>9. ~(\E k \in 1 .. Len(keep) : keep[k] = d)
    <3> SUFFICES ASSUME NEW k \in 1 .. Len(keep), keep[k] = d PROVE FALSE
      BY Zenon
    <3>1. keep[k].box + 1 = b /\ k \in DOMAIN keep
      BY <1>9, <2>2, <2>7, Zenon
    <3>2. b \in kept
      BY <3>1
    <3> QED BY <1>15, <3>2
  <2>10. CASE Len(keep) = max_detections /\ \A k \in 1 .. Len(keep) : keep[k].score >= d.score
    <3>1. better = DOMAIN keep
      BY <1>9, <1>15, <2>10
    <3> QED BY <2>10, <3>1, Zenon
  <2>11. CASE \E k \in 1 .. Len(keep) : keep[k].score >= d.score /\ Suppresses(keep[k], d)
    <3>1. PICK k \in 1 .. Len(keep) : keep[k].score >= d.score /\ Suppresses(keep[k], d)
      BY <2>11, Zenon
    <3>2. k \in better
      BY <1>9, <1>15, <3>1
    <3> QED BY <3>1, <3>2, Zenon DEF Suppresses
  <2> QED BY <2>8, <2>9, <2>10, <2>11, Zenon DEF Settled
<1>16. kept \subseteq Worthy
  BY <1>13
<1>17. Cardinality(kept) = Len(keep) /\ Len(keep) <= max_detections
  BY <1>8, <1>9, <1>12, Zenon
<1> HIDE DEF kept
<1>18. kept = {keep[k].box + 1 : k \in DOMAIN keep}
  BY DEF kept
<1> QED BY <1>13, <1>14, <1>15, <1>16, <1>17, <1>18, Zenon DEF DecodeCorrect

-------------------------------------------------------------------------------
(* The theorems about YoloPostprocess *)

\* The camera frame and the tensor stay what they are while the detections are decoded;
\* raw has what the loop over the boxes accepts, and keep what the pass over one of the
\* orders that the sort may leave keeps.
YoloInv ==
  /\ image \in Cameras /\ TensorRead
  /\ raw = IF yolo = "decode" THEN <<>> ELSE DecodedBoxes
  /\ yolo = "done" => \E p \in SortedOrders : keep = Pass(p)

\* Both calls keep the inductive invariant of the postprocessing.
LEMMA YoloInvKept == ASSUME YoloInv, [YoloNext]_yoloVars PROVE YoloInv'
<1>1. image' = image /\ found' = found /\ transposed' = transposed /\ tensor' = tensor
  BY DEF YoloNext, DecodeYolo, Nms, yoloVars
<1>2. (image \in Cameras)' /\ TensorRead'
  <2>1. TensorRead' = TensorRead
    BY <1>1 DEF TensorRead, At, HasObj, NumBoxes
  <2> QED BY <1>1, <2>1 DEF YoloInv
<1>3. DecodedBoxes' = DecodedBoxes
  BY <1>1 DEF DecodedBoxes, Accepted, Detection, At, HasObj, NumBoxes, Letterbox
<1>4. CASE DecodeYolo
  <2>1. yolo' = "nms" /\ raw' = DecodedBoxes
    BY <1>4 DEF DecodeYolo
  <2> QED BY <1>2, <1>3, <2>1 DEF YoloInv
<1>5. CASE Nms
  <2>1. yolo = "nms" /\ yolo' = "done" /\ raw' = raw
    BY <1>5 DEF Nms
  <2>2. PICK p \in SortedOrders : keep' = Pass(p)
    BY <1>5 DEF Nms
  <2>3. SortedOrders' = SortedOrders
    BY <2>1 DEF SortedOrders
  <2>4. Pass(p)' = Pass(p)
    BY <2>1 DEF Pass
  <2>5. raw' = DecodedBoxes
    BY <2>1 DEF YoloInv
  <2> QED BY <1>2, <1>3, <2>1, <2>2, <2>3, <2>4, <2>5 DEF YoloInv
<1>6. CASE UNCHANGED yoloVars
  <2>1. yolo' = yolo /\ raw' = raw /\ keep' = keep
    BY <1>6 DEF yoloVars
  <2>2. SortedOrders' = SortedOrders
    BY <2>1 DEF SortedOrders
  <2>3. \A p : Pass(p)' = Pass(p)
    BY <2>1 DEF Pass
  <2> QED BY <1>2, <1>3, <2>1, <2>2, <2>3 DEF YoloInv
<1> QED BY <1>4, <1>5, <1>6 DEF YoloNext

\* So it always holds.
LEMMA YoloInvHolds == YoloSpec => []YoloInv
<1>1. YoloInit => YoloInv
  <2> SUFFICES ASSUME YoloInit PROVE YoloInv
    OBVIOUS
  <2>1. image \in Cameras /\ yolo = "decode" /\ raw = <<>>
    BY DEF YoloInit
  <2> QED BY <2>1, NetworkRead DEF YoloInv
<1> QED BY <1>1, YoloInvKept, PTL DEF YoloSpec

\* Letterbox and unletterbox() agree on where a pixel is, for every size of the camera
\* frame and of the network's input.
THEOREM PixelMapsBackHolds == YoloSpec => []PixelMapsBack
<1>1. YoloInv => PixelMapsBack
  BY MapsBack DEF YoloInv
<1> QED BY <1>1, YoloInvHolds, PTL

\* The detections of decode_yolo() lie inside the camera frame and cover what is visible
\* of the network's boxes, for every frame, input size and network output.
THEOREM BoxClippedHolds == YoloSpec => []BoxClipped
<1>1. YoloInv => BoxClipped
  <2> SUFFICES ASSUME YoloInv PROVE BoxClipped
    OBVIOUS
  <2>1. CASE yolo = "decode"
    <3>1. raw = <<>>
      BY <2>1 DEF YoloInv
    <3>2. DOMAIN raw = {}
      BY <3>1
    <3> QED BY <3>2, Zenon DEF BoxClipped
  <2>2. CASE yolo # "decode"
    <3>1. TensorRead /\ image \in Cameras /\ raw = DecodedBoxes
      BY <2>2 DEF YoloInv
    <3> QED BY <3>1, DecodedIs, RawClipped, Zenon
  <2> QED BY <2>1, <2>2
<1> QED BY <1>1, YoloInvHolds, PTL

\* decode_yolo() and nms() keep the right detections, for every network output in either
\* layout, every number of classes, threshold and limit, and every order std::sort may
\* leave equal scores in.
THEOREM DecodeCorrectHolds == YoloSpec => []DecodeCorrect
<1>1. YoloInv => DecodeCorrect
  <2> SUFFICES ASSUME YoloInv, yolo = "done" PROVE DecodeCorrect
    BY DEF DecodeCorrect
  <2>1. TensorRead /\ raw = DecodedBoxes
    BY DEF YoloInv
  <2>2. PICK p \in SortedOrders : keep = Pass(p)
    BY DEF YoloInv
  <2>3. DecodedTo(raw, NumBoxes)
    BY <2>1, DecodedIs, Zenon
  <2> QED BY <2>1, <2>2, <2>3, KeepIsCorrect, Zenon
<1> QED BY <1>1, YoloInvHolds, PTL

-------------------------------------------------------------------------------
(* EngineBuilder: positions of a directory in their order *)

\* The images, with generations and positions for all directories.
Places == Nat \X Nat

\* The elements of S up to n, and how many they are.
FirstOf(S, n) == {m \in S : m <= n}
Rank(S, n) == Cardinality(FirstOf(S, n))

\* Sets of positions are finite, and so are their beginnings.
LEMMA RankBounds ==
  ASSUME NEW N \in Nat, NEW S, S \subseteq 1 .. N
  PROVE  /\ IsFiniteSet(S) /\ Cardinality(S) \in Nat
         /\ \A n \in Int : IsFiniteSet(FirstOf(S, n)) /\ Rank(S, n) \in 0 .. Cardinality(S)
         /\ \A n \in S : Rank(S, n) \in 1 .. Cardinality(S)
<1>1. IsFiniteSet(1 .. N)
  <2>1. 1 \in Int /\ N \in Int
    OBVIOUS
  <2> QED BY <2>1, FS_Interval, Zenon
<1>2. IsFiniteSet(S) /\ Cardinality(S) \in Nat
  BY <1>1, FS_Subset, FS_CardinalityType
<1>3. ASSUME NEW n \in Int
      PROVE  IsFiniteSet(FirstOf(S, n)) /\ Rank(S, n) \in 0 .. Cardinality(S)
  <2>1. FirstOf(S, n) \in SUBSET S
    BY DEF FirstOf
  <2>2. /\ IsFiniteSet(FirstOf(S, n)) /\ Cardinality(FirstOf(S, n)) <= Cardinality(S)
        /\ Cardinality(FirstOf(S, n)) \in Nat
    BY <1>2, <2>1, FS_Subset, FS_CardinalityType
  <2> QED BY <1>2, <2>2 DEF Rank
<1>4. ASSUME NEW n \in S PROVE Rank(S, n) \in 1 .. Cardinality(S)
  <2>1. n \in Int /\ n \in FirstOf(S, n)
    BY DEF FirstOf
  <2>2. IsFiniteSet(FirstOf(S, n)) /\ Rank(S, n) \in 0 .. Cardinality(S)
    BY <1>3, <2>1
  <2>3. Rank(S, n) # 0
    <3>1. FirstOf(S, n) # {}
      BY <2>1
    <3> QED BY <2>2, <3>1, FS_EmptySet, Zenon DEF Rank
  <2> QED BY <1>2, <2>2, <2>3
<1> QED BY <1>2, <1>3, <1>4

\* A later element has a higher rank.
LEMMA RankStrict ==
  ASSUME NEW N \in Nat, NEW S, S \subseteq 1 .. N, NEW a \in Int, NEW b \in S, a < b
  PROVE  Rank(S, a) < Rank(S, b)
<1> DEFINE A == FirstOf(S, a)
           B == FirstOf(S, b)
<1>1. /\ IsFiniteSet(A) /\ IsFiniteSet(B) /\ Cardinality(A) \in Nat /\ Cardinality(B) \in Nat
  <2>1. b \in Int
    OBVIOUS
  <2>2. IsFiniteSet(A) /\ IsFiniteSet(B)
    BY <2>1, RankBounds, Zenon
  <2> QED BY <2>2, FS_CardinalityType
<1>2. A \in SUBSET B /\ b \in B /\ b \notin A
  <2>1. \A m \in S : m \in Int
    OBVIOUS
  <2>2. ASSUME NEW m \in S, m <= a PROVE m <= b
    BY <2>1, <2>2
  <2>3. b \in Int /\ b <= b /\ ~(b <= a)
    BY <2>1
  <2> QED BY <2>2, <2>3, Zenon DEF FirstOf
<1> HIDE DEF A, B
<1>3. Cardinality(A) <= Cardinality(B) /\ Cardinality(A) # Cardinality(B)
  BY <1>1, <1>2, FS_Subset
<1>4. Cardinality(A) < Cardinality(B)
  BY <1>1, <1>3
<1> QED BY <1>4 DEF Rank, A, B

\* Every rank is taken.
LEMMA RankOnto ==
  ASSUME NEW N \in Nat, NEW S, S \subseteq 1 .. N
  PROVE  \A k \in 1 .. Cardinality(S) : \E n \in S : Rank(S, n) = k
<1> DEFINE c == Cardinality(S)
           f == [n \in S |-> Rank(S, n)]
<1>1. c \in Nat /\ IsFiniteSet(S) /\ \A n \in S : Rank(S, n) \in 1 .. c
  BY RankBounds
<1> HIDE DEF c
<1>2. \A a, b \in S : Rank(S, a) = Rank(S, b) => a = b
  <2> SUFFICES ASSUME NEW a \in S, NEW b \in S, Rank(S, a) = Rank(S, b), a # b PROVE FALSE
    OBVIOUS
  <2>1. a \in Int /\ b \in Int /\ (a < b \/ b < a)
    OBVIOUS
  <2>2. Rank(S, a) < Rank(S, b) \/ Rank(S, b) < Rank(S, a)
    BY <2>1, RankStrict
  <2>3. Rank(S, a) \in Int /\ Rank(S, b) \in Int
    BY <1>1
  <2> QED BY <2>2, <2>3
<1>3. f \in Injection(S, 1 .. c)
  BY <1>1, <1>2 DEF Injection, IsInjective
<1>4. IsFiniteSet(1 .. c) /\ Cardinality(1 .. c) = c
  <2>1. 1 \in Int /\ c \in Int /\ (IF 1 > c THEN 0 ELSE c - 1 + 1) = c
    BY <1>1
  <2> QED BY <2>1, FS_Interval, Zenon
<1>5. f \in Surjection(S, 1 .. c)
  <2> HIDE DEF f
  <2> QED BY <1>3, <1>4, FS_Injection DEF c
<1>6. \A k \in 1 .. c : \E n \in S : f[n] = k
  <2> HIDE DEF f
  <2> QED BY <1>5, Zenon DEF Surjection
<1> QED BY <1>6 DEF c

\* The images at a set of positions: position k has the element of rank k.
LEMMA ImagesAt ==
  ASSUME NEW N \in Nat, NEW S, S \subseteq 1 .. N, NEW g \in Nat
  PROVE  /\ Images(g, S) \in Seq(Places) /\ Len(Images(g, S)) = Cardinality(S)
         /\ \A n \in S : Images(g, S)[Rank(S, n)] = <<g, n>>
<1> DEFINE c == Cardinality(S)
           at(k) == CHOOSE n \in S : Rank(S, n) = k
<1>1. c \in Nat /\ \A n \in S : Rank(S, n) \in 1 .. c
  BY RankBounds
<1>2. Images(g, S) = [k \in 1 .. c |-> <<g, at(k)>>]
  BY Zenon DEF Images, Rank, FirstOf
<1> HIDE DEF c
<1>3. \A k \in 1 .. c : at(k) \in S /\ Rank(S, at(k)) = k
  <2>1. \A k \in 1 .. c : \E n \in S : Rank(S, n) = k
    BY RankOnto DEF c
  <2> QED BY <2>1, Zenon
<1>4. ASSUME NEW n \in S PROVE at(Rank(S, n)) = n
  <2> DEFINE m == at(Rank(S, n))
  <2>1. m \in S /\ Rank(S, m) = Rank(S, n) /\ Rank(S, n) \in Int
    BY <1>1, <1>3
  <2> HIDE DEF m
  <2>2. m \in Int /\ n \in Int
    BY <2>1
  <2>3. ~(m < n) /\ ~(n < m)
    <3>1. ASSUME m < n PROVE FALSE
      <4>1. Rank(S, m) < Rank(S, n)
        BY <2>2, <3>1, RankStrict
      <4> QED BY <2>1, <4>1
    <3>2. ASSUME n < m PROVE FALSE
      <4>1. Rank(S, n) < Rank(S, m)
        BY <2>1, <2>2, <3>2, RankStrict
      <4> QED BY <2>1, <4>1
    <3> QED BY <3>1, <3>2
  <2>4. m = n
    BY <2>2, <2>3
  <2> QED BY <2>4 DEF m
<1> HIDE DEF at
<1>5. \A k \in 1 .. c : <<g, at(k)>> \in Places
  <2>1. \A m \in S : m \in Nat
    OBVIOUS
  <2>2. \A k \in 1 .. c : at(k) \in Nat
    BY <1>3, <2>1, Zenon
  <2> QED BY <2>2 DEF Places
<1>6. Images(g, S) \in Seq(Places) /\ Len(Images(g, S)) = c
  BY <1>1, <1>2, <1>5
<1>7. ASSUME NEW n \in S PROVE Images(g, S)[Rank(S, n)] = <<g, n>>
  <2>1. Rank(S, n) \in 1 .. c
    BY <1>1
  <2>2. Images(g, S)[Rank(S, n)] = <<g, at(Rank(S, n))>>
    BY <1>2, <2>1
  <2> QED BY <1>4, <2>2
<1> QED BY <1>6, <1>7 DEF c

\* No images at no positions, and only there.
LEMMA ImagesEmpty ==
  ASSUME NEW N \in Nat, NEW S, S \subseteq 1 .. N, NEW g \in Nat
  PROVE  Images(g, S) = <<>> <=> S = {}
<1>1. Images(g, S) \in Seq(Places) /\ Len(Images(g, S)) = Cardinality(S)
  BY ImagesAt, Zenon
<1>2. Cardinality(S) = 0 <=> S = {}
  BY RankBounds, FS_EmptySet
<1> DEFINE v == Images(g, S)
<1> HIDE DEF v
<1>3. v \in Seq(Places) => (v = <<>> <=> Len(v) = 0)
  OBVIOUS
<1> QED BY <1>1, <1>2, <1>3, Zenon DEF v

\* Sequences that agree everywhere are equal.
LEMMA SameSeq ==
  ASSUME NEW P, NEW s \in Seq(P), NEW t \in Seq(P), NEW n \in Nat, Len(s) = n, Len(t) = n,
         \A k \in 1 .. n : s[k] = t[k]
  PROVE  s = t
OBVIOUS

\* The files S are among the n of a directory.
Among(S, n) == n \in Nat /\ S \subseteq 1 .. n

\* Two sequences of images and their lengths.
Two(v, w, s, t) ==
  v \in Seq(Places) /\ w \in Seq(Places) /\ s \in Nat /\ t \in Nat /\ Len(v) = s /\ Len(w) = t
\* A concatenation, for two sequences of images.
LEMMA JoinAt ==
  ASSUME NEW v, NEW w, NEW s, NEW t, Two(v, w, s, t)
  PROVE  /\ v \o w \in Seq(Places) /\ Len(v \o w) = s + t
         /\ \A k \in 1 .. s + t : (v \o w)[k] = IF k <= s THEN v[k] ELSE w[k - s]
<1> PICK P : P = Places
  BY Zenon
<1>1. v \in Seq(P) /\ w \in Seq(P) /\ s \in Nat /\ t \in Nat /\ Len(v) = s /\ Len(w) = t
  BY DEF Two
<1> QED BY <1>1

\* ImagesAt, for one position at a time.
LEMMA ImagesTyped ==
  ASSUME NEW N \in Nat, NEW S, S \subseteq 1 .. N, NEW g \in Nat, NEW v, v = Images(g, S)
  PROVE  v \in Seq(Places) /\ Len(v) = Cardinality(S)
BY ImagesAt, Zenon

\* The image of a position has the rank of the position.
LEMMA ImageAt ==
  ASSUME NEW N, NEW S, Among(S, N), NEW g \in Nat, NEW v, v = Images(g, S), NEW n \in S
  PROVE  v[Rank(S, n)] = <<g, n>>
<1>1. N \in Nat /\ S \subseteq 1 .. N
  BY DEF Among
<1> QED BY <1>1, ImagesAt, Zenon

\* U are the files of S and, behind them, those of T.
Consecutive(S, T, U, n, g) ==
  /\ Among(S, n) /\ Among(T, n) /\ g \in Nat
  /\ (\A a \in S, b \in T : a < b) /\ U = S \cup T

\* Images at positions behind others come behind theirs.
LEMMA ImagesJoin ==
  ASSUME NEW S, NEW T, NEW U, NEW q, NEW h, Consecutive(S, T, U, q, h)
  PROVE  Images(h, U) = Images(h, S) \o Images(h, T)
<1>g. PICK g \in Nat : g = h
  BY DEF Consecutive
<1>n. PICK N \in Nat : N = q
  BY DEF Consecutive, Among
<1> S \subseteq 1 .. N
  BY <1>n DEF Consecutive, Among
<1> T \subseteq 1 .. N
  BY <1>n DEF Consecutive, Among
<1> \A a \in S, b \in T : a < b
  BY DEF Consecutive
<1>9. U = S \cup T
  BY DEF Consecutive
<1>0. U \subseteq 1 .. N /\ Among(U, N) /\ Among(S, N) /\ Among(T, N)
  BY <1>9 DEF Among
<1>5. PICK u, v, w : u = Images(g, U) /\ v = Images(g, S) /\ w = Images(g, T)
  BY Zenon
<1>51. u \in Seq(Places) /\ Len(u) = Cardinality(U) /\ \A n \in U : u[Rank(U, n)] = <<g, n>>
  <2>1. u \in Seq(Places) /\ Len(u) = Cardinality(U)
    BY <1>0, <1>5, ImagesTyped
  <2>2. \A n \in U : u[Rank(U, n)] = <<g, n>>
    BY <1>0, <1>5, ImageAt, Zenon
  <2> QED BY <2>1, <2>2, Zenon
<1>52. v \in Seq(Places) /\ Len(v) = Cardinality(S) /\ \A n \in S : v[Rank(S, n)] = <<g, n>>
  <2>1. v \in Seq(Places) /\ Len(v) = Cardinality(S)
    BY <1>5, ImagesTyped
  <2>2. \A n \in S : v[Rank(S, n)] = <<g, n>>
    BY <1>0, <1>5, ImageAt, Zenon
  <2> QED BY <2>1, <2>2, Zenon
<1>53. w \in Seq(Places) /\ Len(w) = Cardinality(T) /\ \A n \in T : w[Rank(T, n)] = <<g, n>>
  <2>1. w \in Seq(Places) /\ Len(w) = Cardinality(T)
    BY <1>5, ImagesTyped
  <2>2. \A n \in T : w[Rank(T, n)] = <<g, n>>
    BY <1>0, <1>5, ImageAt, Zenon
  <2> QED BY <2>1, <2>2, Zenon
<1>1. PICK s \in Nat, t \in Nat : s = Cardinality(S) /\ t = Cardinality(T)
  BY RankBounds
<1>2. Cardinality(U) = s + t
  <2>1. S \cap T = {}
    <3> SUFFICES ASSUME NEW a \in S, a \in T PROVE FALSE
      OBVIOUS
    <3>1. a < a /\ a \in Int
      OBVIOUS
    <3> QED BY <3>1
  <2>2. IsFiniteSet(S) /\ IsFiniteSet(T) /\ Cardinality(S \cap T) = 0
    BY <2>1, RankBounds, FS_EmptySet
  <2>3. Cardinality(S \cup T) = Cardinality(S) + Cardinality(T) - Cardinality(S \cap T)
    BY <2>2, FS_Union
  <2> QED BY <1>1, <1>9, <2>2, <2>3
<1>3. /\ \A n \in S : Rank(U, n) = Rank(S, n) /\ Rank(S, n) \in 1 .. s
      /\ \A n \in T : Rank(T, n) \in 1 .. t
  <2>1. ASSUME NEW n \in S PROVE Rank(U, n) = Rank(S, n)
    <3>1. \A b \in T : ~(b <= n)
      <4> SUFFICES ASSUME NEW b \in T PROVE ~(b <= n)
        OBVIOUS
      <4>1. n < b /\ n \in Int /\ b \in Int
        OBVIOUS
      <4> QED BY <4>1
    <3>2. FirstOf(U, n) = FirstOf(S, n)
      BY <1>9, <3>1 DEF FirstOf
    <3> QED BY <3>2 DEF Rank
  <2> QED BY <1>1, <2>1, RankBounds
<1>4. ASSUME NEW n \in T PROVE Rank(U, n) = s + Rank(T, n)
  <2>1. n \in Int /\ \A a \in S : a <= n
    <3> SUFFICES ASSUME NEW a \in S PROVE n \in Int /\ a <= n
      OBVIOUS
    <3>1. a < n /\ n \in Int /\ a \in Int
      OBVIOUS
    <3> QED BY <3>1
  <2>2. FirstOf(U, n) = S \cup FirstOf(T, n)
    BY <1>9, <2>1 DEF FirstOf
  <2>3. S \cap FirstOf(T, n) = {}
    <3> SUFFICES ASSUME NEW a \in S, a \in FirstOf(T, n) PROVE FALSE
      OBVIOUS
    <3>1. a < a /\ a \in Int
      BY DEF FirstOf
    <3> QED BY <3>1
  <2>4. n \in Int
    OBVIOUS
  <2>5. IsFiniteSet(S) /\ IsFiniteSet(FirstOf(T, n)) /\ Cardinality(S \cap FirstOf(T, n)) = 0
    BY <2>3, <2>4, RankBounds, FS_EmptySet
  <2>6. Cardinality(S \cup FirstOf(T, n)) = Cardinality(S) + Rank(T, n) - Cardinality(S \cap FirstOf(T, n))
    BY <2>5, FS_Union DEF Rank
  <2>7. Rank(T, n) \in Int
    BY <1>3
  <2>8. Rank(U, n) = Cardinality(S \cup FirstOf(T, n))
    BY <2>2, Zenon DEF Rank
  <2> QED BY <1>1, <2>5, <2>6, <2>7, <2>8
<1>6. u \in Seq(Places) /\ Len(u) = s + t /\ \A n \in U : u[Rank(U, n)] = <<g, n>>
  BY <1>2, <1>51, Zenon
<1>7. v \in Seq(Places) /\ Len(v) = s /\ \A n \in S : v[Rank(S, n)] = <<g, n>>
  BY <1>1, <1>52, Zenon
<1>8. w \in Seq(Places) /\ Len(w) = t /\ \A n \in T : w[Rank(T, n)] = <<g, n>>
  BY <1>1, <1>53, Zenon
<1>10. ASSUME NEW k \in 1 .. s PROVE u[k] = v[k]
  <2>1. PICK n \in S : Rank(S, n) = k
    BY <1>1, RankOnto
  <2>2. n \in U
    BY <1>9
  <2> QED BY <1>3, <1>6, <1>7, <2>1, <2>2
<1>11. ASSUME NEW k \in 1 .. t PROVE u[s + k] = w[k]
  <2>1. PICK n \in T : Rank(T, n) = k
    BY <1>1, RankOnto
  <2>2. n \in U
    BY <1>9
  <2> QED BY <1>4, <1>6, <1>8, <2>1, <2>2
<1>12. /\ v \o w \in Seq(Places) /\ Len(v \o w) = s + t
       /\ \A k \in 1 .. s + t : (v \o w)[k] = IF k <= s THEN v[k] ELSE w[k - s]
  <2>1. Two(v, w, s, t)
    BY <1>7, <1>8, Zenon DEF Two
  <2> QED BY <2>1, JoinAt
<1>13. \A k \in 1 .. s + t : u[k] = (v \o w)[k]
  <2> SUFFICES ASSUME NEW k \in 1 .. s + t PROVE u[k] = (v \o w)[k]
    OBVIOUS
  <2>1. CASE k <= s
    <3>1. k \in 1 .. s
      BY <2>1
    <3> QED BY <1>10, <1>12, <2>1, <3>1, Zenon
  <2>2. CASE ~(k <= s)
    <3>1. k - s \in 1 .. t /\ s + (k - s) = k
      BY <2>2
    <3> QED BY <1>11, <1>12, <2>2, <3>1, Zenon
  <2> QED BY <2>1, <2>2
<1>14. u = v \o w
  <2> DEFINE x == v \o w
  <2>1. x \in Seq(Places) /\ Len(x) = s + t /\ s + t \in Nat /\ \A k \in 1 .. s + t : u[k] = x[k]
    BY <1>12, <1>13
  <2> HIDE DEF x
  <2>2. u = x
    BY <1>6, <2>1, SameSeq
  <2> QED BY <2>2 DEF x
<1> QED BY <1>g, <1>5, <1>14, Zenon

-------------------------------------------------------------------------------
(* Batches *)

\* The elements of G from a to b, and how many they are.
Between(G, a, b) == {m \in G : a <= m /\ m <= b}
Size(G, a, b) == Cardinality(Between(G, a, b))

\* Such a set is finite.
LEMMA SizeType ==
  ASSUME NEW N \in Nat, NEW G, G \subseteq 1 .. N, NEW a \in Int, NEW b \in Int
  PROVE  IsFiniteSet(Between(G, a, b)) /\ Size(G, a, b) \in Nat /\ Between(G, a, b) \subseteq 1 .. N
<1>1. Between(G, a, b) \subseteq 1 .. N
  BY DEF Between
<1>2. IsFiniteSet(Between(G, a, b)) /\ Cardinality(Between(G, a, b)) \in Nat
  BY <1>1, RankBounds
<1> QED BY <1>1, <1>2 DEF Size

\* More positions, at least as many elements.
LEMMA SizeGrows ==
  ASSUME NEW N \in Nat, NEW G, G \subseteq 1 .. N, NEW a \in Int, NEW b \in Int, NEW c \in Int, b <= c
  PROVE  Size(G, a, b) <= Size(G, a, c)
<1>1. Between(G, a, b) \in SUBSET Between(G, a, c)
  <2>1. \A m \in G : m \in Int
    OBVIOUS
  <2>2. ASSUME NEW m \in G, m <= b PROVE m <= c
    BY <2>1, <2>2
  <2> QED BY <2>2 DEF Between
<1>2. IsFiniteSet(Between(G, a, c))
  BY SizeType
<1> QED BY <1>1, <1>2, FS_Subset DEF Size

\* One position further that can be read is one element more.
LEMMA SizeGrowsBy ==
  ASSUME NEW N \in Nat, NEW G, G \subseteq 1 .. N, NEW a \in Int, NEW b \in Int, NEW c \in G, b < c, a <= c
  PROVE  Size(G, a, b) < Size(G, a, c)
<1>0. c \in Int
  OBVIOUS
<1>1. /\ IsFiniteSet(Between(G, a, b)) /\ IsFiniteSet(Between(G, a, c))
      /\ Size(G, a, b) \in Nat /\ Size(G, a, c) \in Nat
  BY <1>0, SizeType
<1>2. Between(G, a, b) \in SUBSET Between(G, a, c)
  <2>1. \A m \in G : m \in Int
    OBVIOUS
  <2>2. ASSUME NEW m \in G, m <= b PROVE m <= c
    BY <2>1, <2>2
  <2> QED BY <2>2 DEF Between
<1>3. c \in Between(G, a, c) /\ c \notin Between(G, a, b)
  BY <1>0 DEF Between
<1>4. Size(G, a, b) <= Size(G, a, c) /\ Size(G, a, b) # Size(G, a, c)
  BY <1>1, <1>2, <1>3, FS_Subset DEF Size
<1> QED BY <1>1, <1>4

\* One position further is at most one element more.
LEMMA SizeStep ==
  ASSUME NEW N \in Nat, NEW G, G \subseteq 1 .. N, NEW a \in Int, NEW b \in Int
  PROVE  Size(G, a, b + 1) <= Size(G, a, b) + 1
<1> DEFINE B == Between(G, a, b)
           C == Between(G, a, b + 1)
<1>0. b + 1 \in Int
  OBVIOUS
<1>1. IsFiniteSet(B) /\ Cardinality(B) \in Nat
  BY SizeType DEF Size
<1>2. C \in SUBSET (B \cup {b + 1})
  <2>1. \A m \in G : m \in Int
    OBVIOUS
  <2>2. ASSUME NEW m \in G, m <= b + 1 PROVE m <= b \/ m = b + 1
    BY <2>1, <2>2
  <2> QED BY <2>2 DEF Between
<1> HIDE DEF B, C
<1>3. /\ IsFiniteSet(B \cup {b + 1})
      /\ Cardinality(B \cup {b + 1}) = IF b + 1 \in B THEN Cardinality(B) ELSE Cardinality(B) + 1
  BY <1>1, FS_AddElement, Zenon
<1>4. Cardinality(C) <= Cardinality(B \cup {b + 1}) /\ IsFiniteSet(C)
  BY <1>2, <1>3, FS_Subset
<1>5. Cardinality(C) \in Nat
  BY <1>4, FS_CardinalityType
<1>6. Cardinality(C) <= Cardinality(B) + 1
  BY <1>1, <1>3, <1>4, <1>5
<1> QED BY <1>6 DEF Size, B, C

\* load_next_batch(): what is taken, from position c of a directory with n files on, of
\* which those in G can be read, and where it stops.
Full(G, c, n) == {k \in c .. n : Size(G, c, k) = Batch}
Stop(G, c, n) == IF Full(G, c, n) = {} THEN n ELSE Min(Full(G, c, n))
Taken(G, c, n) == {k \in G : c <= k /\ Size(G, c, k) <= Batch}

\* A batch is what can be read up to where it stops; it is full or the directory is at its
\* end, and an empty one means that nothing more can be read.
LEMMA BatchTaken ==
  ASSUME NEW n, NEW G, Among(G, n), NEW c \in 1 .. n, NEW L, L = Stop(G, c, n)
  PROVE  /\ L \in c .. n /\ Taken(G, c, n) = Between(G, c, L)
         /\ Cardinality(Taken(G, c, n)) = Batch \/ L = n
         /\ Taken(G, c, n) = {} => Between(G, c, n) = {}
<1>00. n \in Nat /\ G \subseteq 1 .. n
  BY DEF Among
<1>0. n \in Nat /\ G \subseteq 1 .. n /\ c \in Int /\ n \in Int /\ c <= n /\ 1 <= c /\ Batch \in Nat /\ 0 < Batch
      /\ \A m \in G : m \in Int /\ m \in 1 .. n /\ m <= n
  BY <1>00, BatchAssumption
<1>1. CASE Full(G, c, n) = {}
  <2>1. L = n
    BY <1>1 DEF Stop
  <2> DEFINE T == {j \in Nat : (c - 1) + j <= n => Size(G, c, (c - 1) + j) < Batch}
  <2>2. 0 \in T
    <3>1. (c - 1) + 0 = c - 1
      OBVIOUS
    <3>2. Between(G, c, c - 1) = {}
      <4>1. ASSUME NEW m \in G PROVE ~(c <= m /\ m <= c - 1)
        BY <1>0
      <4> QED BY <4>1 DEF Between
    <3>3. Size(G, c, c - 1) = 0
      BY <3>2, FS_EmptySet DEF Size
    <3> QED BY <1>0, <3>1, <3>3
  <2>3. ASSUME NEW j \in Nat, j \in T PROVE j + 1 \in T
    <3> SUFFICES ASSUME (c - 1) + (j + 1) <= n PROVE Size(G, c, (c - 1) + (j + 1)) < Batch
      OBVIOUS
    <3> DEFINE b == (c - 1) + j
    <3>1. b \in Int /\ b <= n /\ (c - 1) + (j + 1) = b + 1 /\ b + 1 \in c .. n /\ b + 1 \in Int
      BY <1>0
    <3>2. Size(G, c, b) < Batch
      BY <2>3, <3>1
    <3> HIDE DEF b
    <3>3. Size(G, c, b + 1) <= Size(G, c, b) + 1
      BY <1>0, <3>1, SizeStep
    <3>4. Size(G, c, b) \in Nat /\ Size(G, c, b + 1) \in Nat
      BY <1>0, <3>1, SizeType
    <3>5. Size(G, c, b + 1) # Batch
      BY <1>1, <3>1 DEF Full
    <3>6. Size(G, c, b + 1) < Batch
      BY <1>0, <3>2, <3>3, <3>4, <3>5
    <3> QED BY <3>1, <3>6, Zenon
  <2>4. Nat \subseteq T
    <3> HIDE DEF T
    <3> QED BY <2>2, <2>3, Induction
  <2>5. ASSUME NEW k \in G, c <= k PROVE Size(G, c, k) <= Batch
    <3>1. k - (c - 1) \in Nat /\ (c - 1) + (k - (c - 1)) = k /\ k <= n
      BY <1>0, <2>5
    <3>2. Size(G, c, (c - 1) + (k - (c - 1))) < Batch
      BY <2>4, <3>1
    <3>3. Size(G, c, k) \in Nat
      BY <1>0, SizeType
    <3> QED BY <1>0, <3>1, <3>2, <3>3
  <2>6. Taken(G, c, n) = Between(G, c, n)
    BY <1>0, <2>5 DEF Taken, Between
  <2> QED BY <1>0, <2>1, <2>6
<1>2. CASE Full(G, c, n) # {}
  <2> DEFINE F == Full(G, c, n)
  <2>1. F \subseteq Nat /\ F # {} /\ F \subseteq Int
    BY <1>0, <1>2 DEF Full
  <2>2. PICK x \in F : \A y \in F : x <= y
    <3> HIDE DEF F
    <3> QED BY <2>1, LeastNumber, Zenon
  <2>3. Min(F) = x
    <3> HIDE DEF F
    <3> QED BY <2>1, <2>2, MinIs, Zenon
  <2>4. L = x
    BY <1>2, <2>3 DEF Stop
  <2>5. L \in c .. n /\ Size(G, c, L) = Batch /\ L \in Int
    BY <2>2, <2>4 DEF Full
  <2>6. ASSUME NEW k \in G, c <= k PROVE Size(G, c, k) <= Batch <=> k <= L
    <3>1. k \in Int /\ Size(G, c, k) \in Nat
      BY <1>0, SizeType
    <3>2. CASE k <= L
      BY <1>0, <2>5, <3>1, <3>2, SizeGrows
    <3>3. CASE L < k
      <4>1. Size(G, c, L) < Size(G, c, k)
        BY <1>0, <2>5, <2>6, <3>3, SizeGrowsBy
      <4> QED BY <1>0, <2>5, <3>1, <3>3, <4>1
    <3> QED BY <2>5, <3>1, <3>2, <3>3
  <2>7. Taken(G, c, n) = Between(G, c, L)
    BY <2>6 DEF Taken, Between
  <2>8. Cardinality(Taken(G, c, n)) = Batch
    BY <2>5, <2>7 DEF Size
  <2>9. Taken(G, c, n) # {}
    BY <1>0, <2>8, FS_EmptySet
  <2> QED BY <2>5, <2>7, <2>8, <2>9
<1> QED BY <1>1, <1>2

-------------------------------------------------------------------------------
(* Joining the batches *)

IsFlat(f, bs) == f = [k \in 1 .. Len(bs) |-> IF k = 1 THEN bs[k] ELSE f[k - 1] \o bs[k]]
FlatTo(bs, v) == IF bs = <<>> THEN v = <<>> ELSE \E f : IsFlat(f, bs) /\ f[Len(bs)] = v

\* One batch more.
LEMMA FlatAdds ==
  ASSUME NEW bs \in Seq(Seq(Places)), NEW v \in Seq(Places), FlatTo(bs, v), NEW x \in Seq(Places)
  PROVE  FlatTo(Append(bs, x), v \o x)
<1> DEFINE later == Append(bs, x)
<1> PICK n \in Nat : n = Len(bs)
  OBVIOUS
<1>1. /\ Len(later) = n + 1 /\ later[n + 1] = x /\ later # <<>>
      /\ \A k \in 1 .. n : later[k] = bs[k]
  OBVIOUS
<1> HIDE DEF later
<1>2. CASE bs = <<>>
  <2>1. v \o x = x /\ n = 0
    BY <1>2 DEF FlatTo
  <2> DEFINE f == [k \in 1 .. 1 |-> x]
  <2>2. \A k \in 1 .. 1 : k = 1
    OBVIOUS
  <2>3. Len(later) = 1 /\ later[1] = x
    BY <1>1, <2>1
  <2>4. IsFlat(f, later) /\ f[Len(later)] = x
    BY <2>2, <2>3 DEF IsFlat
  <2> HIDE DEF f
  <2> QED BY <1>1, <2>1, <2>4 DEF FlatTo, later
<1>3. CASE bs # <<>>
  <2>0. n # 0
    BY <1>3
  <2>1. PICK f : IsFlat(f, bs) /\ f[n] = v
    BY <1>3 DEF FlatTo
  <2>2. f = [k \in 1 .. n |-> IF k = 1 THEN bs[k] ELSE f[k - 1] \o bs[k]]
    BY <2>1 DEF IsFlat
  <2>3. \A k \in 1 .. n : f[k] = IF k = 1 THEN bs[k] ELSE f[k - 1] \o bs[k]
    BY <2>2, Zenon
  <2> DEFINE g == [k \in 1 .. n + 1 |-> IF k = n + 1 THEN v \o x ELSE f[k]]
  <2>4. \A k \in 1 .. n : g[k] = f[k]
    <3>1. \A k \in 1 .. n : k \in 1 .. n + 1 /\ k # n + 1
      OBVIOUS
    <3> QED BY <3>1, Zenon
  <2>5. g[n + 1] = v \o x /\ g = [k \in 1 .. n + 1 |-> g[k]]
    OBVIOUS
  <2> HIDE DEF g
  <2>6. ASSUME NEW k \in 1 .. n + 1 PROVE g[k] = IF k = 1 THEN later[k] ELSE g[k - 1] \o later[k]
    <3>1. CASE k = n + 1
      <4>1. k # 1 /\ k - 1 = n /\ n \in 1 .. n
        BY <2>0, <3>1
      <4> QED BY <1>1, <2>1, <2>4, <2>5, <3>1, <4>1, Zenon
    <3>2. CASE k \in 1 .. n
      <4>1. k = 1 \/ k - 1 \in 1 .. n
        BY <3>2
      <4>2. k # 1 => g[k - 1] = f[k - 1]
        BY <2>4, <4>1, Zenon
      <4> QED BY <1>1, <2>3, <2>4, <3>2, <4>2, Zenon
    <3> QED BY <3>1, <3>2
  <2>7. g = [k \in 1 .. n + 1 |-> IF k = 1 THEN later[k] ELSE g[k - 1] \o later[k]]
    BY <2>5, <2>6, Zenon
  <2>8. IsFlat(g, later) /\ g[Len(later)] = v \o x
    BY <1>1, <2>5, <2>7, Zenon DEF IsFlat
  <2> QED BY <1>1, <2>8, Zenon DEF FlatTo, later
<1> QED BY <1>2, <1>3

\* What FlattenSeq computes.
LEMMA FlatComputed ==
  ASSUME NEW bs \in Seq(Seq(Places)), bs # <<>>, NEW v, FlatTo(bs, v)
  PROVE  FlattenSeq(bs) = v
<1> PICK n \in Nat : n = Len(bs) /\ n # 0
  OBVIOUS
<1>1. PICK f : IsFlat(f, bs) /\ f[n] = v
  BY DEF FlatTo
<1> DEFINE g == CHOOSE h : IsFlat(h, bs)
<1>2. IsFlat(g, bs)
  BY <1>1
<1>3. FlattenSeq(bs) = g[n]
  <2>1. FlattenSeq(bs) = g[Len(bs)]
    BY DEF FlattenSeq, IsFlat
  <2> QED BY <2>1
<1> HIDE DEF g
<1>4. \A k \in 1 .. n : /\ f[k] = IF k = 1 THEN bs[k] ELSE f[k - 1] \o bs[k]
                        /\ g[k] = IF k = 1 THEN bs[k] ELSE g[k - 1] \o bs[k]
  <2>1. f = [k \in 1 .. n |-> IF k = 1 THEN bs[k] ELSE f[k - 1] \o bs[k]]
    BY <1>1 DEF IsFlat
  <2>2. g = [k \in 1 .. n |-> IF k = 1 THEN bs[k] ELSE g[k - 1] \o bs[k]]
    BY <1>2 DEF IsFlat
  <2> QED BY <2>1, <2>2, Zenon
<1> DEFINE T == {k \in Nat : k \in 1 .. n => f[k] = g[k]}
<1>5. 0 \in T
  OBVIOUS
<1>6. ASSUME NEW k \in Nat, k \in T PROVE k + 1 \in T
  <2> SUFFICES ASSUME k + 1 \in 1 .. n PROVE f[k + 1] = g[k + 1]
    OBVIOUS
  <2>1. CASE k = 0
    <3>1. k + 1 = 1
      BY <2>1
    <3> QED BY <1>4, <3>1, Zenon
  <2>2. CASE k # 0
    <3>1. k \in 1 .. n /\ k + 1 # 1 /\ (k + 1) - 1 = k
      BY <2>2
    <3>2. f[k] = g[k]
      BY <1>6, <3>1
    <3>3. f[k + 1] = f[k] \o bs[k + 1]
      BY <1>4, <3>1, Zenon
    <3>4. g[k + 1] = g[k] \o bs[k + 1]
      BY <1>4, <3>1, Zenon
    <3> QED BY <3>2, <3>3, <3>4, Zenon
  <2> QED BY <2>1, <2>2
<1>7. Nat \subseteq T
  <2> HIDE DEF T
  <2> QED BY <1>5, <1>6, Induction
<1>8. n \in T /\ n \in 1 .. n
  BY <1>7
<1> QED BY <1>1, <1>3, <1>8

-------------------------------------------------------------------------------
(* The inductive invariant of build_engine *)

\* The positions of a directory d that can be read.
Good(d) == {m \in DOMAIN d : d[m]}

BuilderTypes ==
  /\ dirs \in Seq(Seq(BOOLEAN)) /\ dirs # <<>>
  /\ batches \in Seq(Seq(Places))

\* While TensorRT calibrates, the batches together are the images before the cursor, and
\* a batch with grey slots means that the files are at their end.
Calibration ==
  /\ build = "read_cache" => cursor_ = 1 /\ batches = <<>>
  /\ build = "calibrate" =>
       /\ cursor_ \in 1 .. Len(Present) + 1
       /\ FlatTo(batches, Images(Len(dirs), Between(Good(Present), 1, cursor_ - 1)))
       /\ batches # <<>> /\ Len(batches[Len(batches)]) # Batch => cursor_ > Len(Present)

FullBatches ==
  \A b \in DOMAIN batches : /\ batches[b] # <<>>
                            /\ b < Len(batches) => Len(batches[b]) = Batch

\* A table is a part of the one of a generation of the directory, and so is the file; it
\* is the whole of it when this build computed it, or when the file was written to its end.
FromDirectory(t) == \E g \in DOMAIN dirs : t = Readable(g)
PartOf(t) == \E g \in DOMAIN dirs : IsPrefix(t, Readable(g))
Tables ==
  /\ build = "calibrate" => table = NoTable
  /\ build \in {"write_cache", "fill_cache"} => FromDirectory(table)
  /\ table # NoTable => /\ PartOf(table)
                        /\ batches # <<>> \/ ~torn => FromDirectory(table)
  /\ cache \notin {Absent, <<>>} => /\ PartOf(cache)
                                    /\ ~torn => FromDirectory(cache)

BuilderInv == BuilderTypes /\ Calibration /\ FullBatches /\ Tables

\* The generations of the directory are numbered once and for all.
LEMMA ReadableKept ==
  ASSUME BuilderTypes, dirs' = dirs \/ \E d : dirs' = Append(dirs, d)
  PROVE  /\ \A t : FromDirectory(t) => FromDirectory(t)'
         /\ \A t : PartOf(t) => PartOf(t)'
<1>1. ASSUME NEW g \in DOMAIN dirs PROVE g \in DOMAIN dirs' /\ dirs'[g] = dirs[g]
  <2>1. CASE dirs' = dirs
    BY <2>1
  <2>2. CASE \E d : dirs' = Append(dirs, d)
    <3>1. PICK d : dirs' = Append(dirs, d)
      BY <2>2
    <3> QED BY <3>1 DEF BuilderTypes
  <2> QED BY <2>1, <2>2
<1>2. ASSUME NEW g \in DOMAIN dirs PROVE Readable(g)' = Readable(g)
  <2>1. Readable(g) = Images(g, Good(dirs[g])) /\ Readable(g)' = Images(g, Good(dirs'[g]))
    BY Zenon DEF Readable, Good
  <2> QED BY <1>1, <2>1, Zenon
<1>3. ASSUME NEW t, NEW g \in DOMAIN dirs, t = Readable(g) PROVE FromDirectory(t)'
  <2>1. g \in DOMAIN dirs' /\ t = Readable(g)'
    BY <1>1, <1>2, <1>3, Zenon
  <2> QED BY <2>1, Zenon DEF FromDirectory
<1>4. ASSUME NEW t, NEW g \in DOMAIN dirs, IsPrefix(t, Readable(g)) PROVE PartOf(t)'
  <2>1. g \in DOMAIN dirs' /\ IsPrefix(t, Readable(g)')
    BY <1>1, <1>2, <1>4, Zenon
  <2> QED BY <2>1, Zenon DEF PartOf
<1> QED BY <1>3, <1>4, Zenon DEF FromDirectory, PartOf

\* A part of a sequence, the whole of it included, is a prefix.
LEMMA PartIsPrefix ==
  ASSUME NEW A, NEW r \in Seq(A), NEW n \in Nat, n = Len(r), NEW k \in 0 .. n
  PROVE  IsPrefix(SubSeq(r, 1, k), r) /\ IsPrefix(r, r)
<1>1. SubSeq(r, 1, k) \in Seq(A) /\ Len(SubSeq(r, 1, k)) = k
  OBVIOUS
<1> DEFINE s == SubSeq(r, 1, k)
<1> HIDE DEF s
<1>2. s \in Seq(A) /\ Len(s) = k
  BY <1>1 DEF s
<1>3. SubSeq(s, 1, Len(s)) = s
  BY <1>2
<1>4. IsPrefix(s, r)
  BY <1>2, <1>3, SMT DEF IsPrefix, s
<1>5. IsPrefix(r, r)
  BY SMT DEF IsPrefix
<1> QED BY <1>4, <1>5, Zenon DEF s

\* So are the tables of the directory, and what a cut write leaves of them.
LEMMA PartsOfDirectory ==
  ASSUME BuilderTypes, NEW t, FromDirectory(t)
  PROVE  PartOf(t) /\ \A k \in 0 .. Len(t) - 1 : PartOf(SubSeq(t, 1, k))
<1>1. PICK g \in DOMAIN dirs : t = Readable(g)
  BY DEF FromDirectory
<1>2. dirs[g] \in Seq(BOOLEAN) /\ g \in Nat /\ Len(dirs[g]) \in Nat
  BY DEF BuilderTypes
<1>3. PICK n \in Nat : n = Len(dirs[g])
  BY <1>2
<1> DEFINE S == {m \in DOMAIN dirs[g] : dirs[g][m]}
<1>4. S \subseteq 1 .. n
  BY <1>2, <1>3
<1>5. t = Images(g, S)
  BY <1>1, Zenon DEF Readable
<1> HIDE DEF S
<1>6. t \in Seq(Places)
  BY <1>2, <1>4, <1>5, ImagesTyped, Zenon
<1>7. PICK l \in Nat : l = Len(t)
  BY <1>6
<1>8. IsPrefix(t, t) /\ \A k \in 0 .. l : IsPrefix(SubSeq(t, 1, k), t)
  <2>1. 0 \in 0 .. l
    OBVIOUS
  <2> QED BY <1>6, <1>7, <2>1, PartIsPrefix, Zenon
<1>9. PartOf(t) /\ \A k \in 0 .. l : PartOf(SubSeq(t, 1, k))
  BY <1>1, <1>8, Zenon DEF PartOf
<1>10. \A k \in 0 .. Len(t) - 1 : k \in 0 .. l
  BY <1>7
<1> QED BY <1>9, <1>10, Zenon

\* The present directory.
LEMMA PresentIs ==
  ASSUME BuilderTypes
  PROVE  /\ Present \in Seq(BOOLEAN) /\ Present = dirs[Len(dirs)] /\ Len(Present) \in Nat
         /\ Len(dirs) \in Nat /\ Len(dirs) \in DOMAIN dirs
         /\ Good(Present) \subseteq 1 .. Len(Present)
<1>1. Len(dirs) \in Nat /\ Len(dirs) \in DOMAIN dirs /\ dirs[Len(dirs)] \in Seq(BOOLEAN)
  BY DEF BuilderTypes
<1>2. Present = dirs[Len(dirs)]
  BY DEF Present, Last
<1>3. Len(Present) \in Nat /\ DOMAIN Present = 1 .. Len(Present)
  BY <1>1, <1>2
<1> QED BY <1>1, <1>2, <1>3 DEF Good

\* load_next_batch() in terms of the positions that can be read.
LEMMA LoadedIs ==
  ASSUME BuilderTypes, cursor_ \in 1 .. Len(Present)
  PROVE  /\ Loaded = Images(Len(dirs), Taken(Good(Present), cursor_, Len(Present)))
         /\ LastOfBatch = Stop(Good(Present), cursor_, Len(Present))
<1>1. PICK n \in Nat : n = Len(Present) /\ DOMAIN Present = 1 .. n
  BY PresentIs
<1>2. PICK c \in 1 .. n : c = cursor_
  BY <1>1
<1> DEFINE G == Good(Present)
<1>3. ASSUME NEW m PROVE m \in G <=> m \in 1 .. n /\ Present[m]
  BY <1>1 DEF Good
<1> HIDE DEF G
<1>4. ASSUME NEW k \in c .. n PROVE {m \in c .. k : Present[m]} = Between(G, c, k)
  <2>1. ASSUME NEW m PROVE (m \in c .. k /\ Present[m]) <=> m \in Between(G, c, k)
    <3>1. m \in c .. k <=> m \in 1 .. n /\ c <= m /\ m <= k
      BY <1>1
    <3> QED BY <1>3, <3>1, Zenon DEF Between
  <2> QED BY <2>1, Zenon
<1>5. ASSUME NEW k \in c .. n PROVE Cardinality({m \in c .. k : Present[m]}) = Size(G, c, k)
  BY <1>4, Zenon DEF Size
<1>6. {k \in c .. n : Cardinality({m \in c .. k : Present[m]}) = Batch} = Full(G, c, n)
  BY <1>5 DEF Full
<1>7. {k \in c .. n : Present[k] /\ Cardinality({m \in c .. k : Present[m]}) <= Batch} = Taken(G, c, n)
  <2>1. ASSUME NEW k
        PROVE  (k \in c .. n /\ Present[k] /\ Cardinality({m \in c .. k : Present[m]}) <= Batch)
                 <=> k \in Taken(G, c, n)
    <3>1. k \in c .. n <=> k \in 1 .. n /\ c <= k
      BY <1>1
    <3> QED BY <1>3, <1>5, <3>1, Zenon DEF Taken
  <2> QED BY <2>1, Zenon
<1>8. Loaded = Images(Len(dirs), Taken(G, c, n))
  BY <1>1, <1>2, <1>7, Zenon DEF Loaded
<1>9. LastOfBatch = Stop(G, c, n)
  BY <1>1, <1>2, <1>6, Zenon DEF LastOfBatch, Stop
<1> QED BY <1>1, <1>2, <1>8, <1>9, Zenon DEF G

\* A batch more.
LEMMA GetBatchKeeps ==
  ASSUME BuilderInv, GetBatch
  PROVE  (BuilderTypes /\ Calibration /\ FullBatches)'
<1>1. /\ build = "calibrate" /\ build' = build /\ dirs' = dirs /\ Loaded # <<>>
      /\ batches' = Append(batches, Loaded) /\ cursor_' = LastOfBatch + 1 /\ cursor_ <= Len(Present)
  BY DEF GetBatch
<1>2. BuilderTypes /\ Calibration /\ FullBatches
  BY DEF BuilderInv
<1>3. PICK n \in Nat, g \in Nat : n = Len(Present) /\ g = Len(dirs)
  BY <1>2, PresentIs, Zenon
<1>4. PICK c \in 1 .. n : c = cursor_
  BY <1>1, <1>2, <1>3 DEF Calibration
<1> DEFINE G == Good(Present)
<1>5. G \subseteq 1 .. n
  BY <1>2, <1>3, PresentIs, Zenon
<1> HIDE DEF G
<1>6. PICK L : L = Stop(G, c, n)
  BY Zenon
<1>7. Loaded = Images(g, Taken(G, c, n)) /\ LastOfBatch = L
  <2>1. cursor_ \in 1 .. Len(Present)
    BY <1>3, <1>4, Zenon
  <2> QED BY <1>2, <1>3, <1>4, <1>6, <2>1, LoadedIs, Zenon DEF G
<1>8. /\ L \in c .. n /\ Taken(G, c, n) = Between(G, c, L)
      /\ Cardinality(Taken(G, c, n)) = Batch \/ L = n
  <2>1. Among(G, n)
    BY <1>5, Zenon DEF Among
  <2> QED BY <1>6, <2>1, BatchTaken
<1>9. Between(G, c, L) \subseteq 1 .. n /\ Between(G, 1, c - 1) \subseteq 1 .. n
  BY <1>5 DEF Between
<1> DEFINE v == Images(g, Between(G, 1, c - 1))
<1>10. Loaded \in Seq(Places) /\ Len(Loaded) = Cardinality(Taken(G, c, n))
  <2>1. Loaded = Images(g, Taken(G, c, n)) /\ Taken(G, c, n) \subseteq 1 .. n
    BY <1>7, <1>8, <1>9, Zenon
  <2> QED BY <2>1, ImagesTyped
<1>11. v \in Seq(Places)
  <2>1. v = Images(g, Between(G, 1, c - 1))
    OBVIOUS
  <2> HIDE DEF v
  <2> QED BY <1>9, <2>1, ImagesTyped
<1>12. FlatTo(batches, v)
  BY <1>1, <1>2, <1>3, <1>4, Zenon DEF Calibration, G
<1>13. FlatTo(Append(batches, Loaded), v \o Loaded)
  <2>1. batches \in Seq(Seq(Places))
    BY <1>2 DEF BuilderTypes
  <2> HIDE DEF v
  <2> QED BY <1>10, <1>11, <1>12, <2>1, FlatAdds, Zenon
<1>14. v \o Loaded = Images(g, Between(G, 1, L))
  <2>1. PICK S, T, U : S = Between(G, 1, c - 1) /\ T = Between(G, c, L) /\ U = Between(G, 1, L)
    BY Zenon
  <2>2. U = S \cup T
    <3>1. ASSUME NEW m \in G
          PROVE  (1 <= m /\ m <= L) <=> ((1 <= m /\ m <= c - 1) \/ (c <= m /\ m <= L))
      BY <1>5, <1>8
    <3> QED BY <2>1, <3>1, Zenon DEF Between
  <2>3. \A a \in S, b \in T : a < b
    BY <1>5, <1>8, <2>1 DEF Between
  <2>4. Consecutive(S, T, U, n, g)
    BY <1>9, <2>1, <2>2, <2>3, Zenon DEF Among, Consecutive
  <2>5. Images(g, U) = Images(g, S) \o Images(g, T)
    BY <2>4, ImagesJoin
  <2>6. Loaded = Images(g, T)
    BY <1>7, <1>8, <2>1, Zenon
  <2> QED BY <2>1, <2>5, <2>6, Zenon
<1>15. Present' = Present /\ Len(dirs') = g
  BY <1>1, <1>3 DEF Present, Last
<1>16. cursor_' = L + 1 /\ cursor_' \in 1 .. n + 1 /\ cursor_' - 1 = L
  BY <1>1, <1>7, <1>8
<1>17. FlatTo(batches', Images(Len(dirs'), Between(Good(Present'), 1, cursor_' - 1)))
  BY <1>1, <1>13, <1>14, <1>15, <1>16, Zenon DEF G
<1>18. PICK m \in Nat : m = Len(batches)
  BY <1>2 DEF BuilderTypes
<1>19. /\ batches' \in Seq(Seq(Places)) /\ Len(batches') = m + 1 /\ batches'[m + 1] = Loaded
       /\ DOMAIN batches' = 1 .. m + 1 /\ DOMAIN batches = 1 .. m
       /\ \A b \in 1 .. m : batches'[b] = batches[b]
  BY <1>1, <1>2, <1>10, <1>18 DEF BuilderTypes
<1>20. BuilderTypes'
  BY <1>1, <1>2, <1>19 DEF BuilderTypes
<1>21. Calibration'
  <2>1. Len(batches'[Len(batches')]) # Batch => cursor_' > n
    <3>1. batches'[Len(batches')] = Loaded
      BY <1>19, Zenon
    <3>2. Len(Loaded) # Batch => L = n
      BY <1>8, <1>10, Zenon
    <3> QED BY <1>16, <3>1, <3>2
  <2> QED BY <1>1, <1>3, <1>15, <1>16, <1>17, <2>1 DEF Calibration
<1>22. FullBatches'
  <2>1. ASSUME NEW b \in 1 .. m PROVE batches[b] # <<>> /\ Len(batches[b]) = Batch
    <3>1. batches[b] # <<>> /\ (b < m => Len(batches[b]) = Batch)
      BY <1>2, <1>18, <1>19, Zenon DEF FullBatches
    <3>2. CASE b < m
      BY <3>1, <3>2
    <3>3. CASE b = m
      <4>1. batches # <<>> /\ ~(cursor_ > Len(Present))
        BY <1>3, <1>4, <1>18, <3>3
      <4>2. Len(batches[Len(batches)]) = Batch
        BY <1>1, <1>2, <4>1, Zenon DEF Calibration
      <4> QED BY <1>18, <3>1, <3>3, <4>2, Zenon
    <3> QED BY <3>2, <3>3
  <2>2. ASSUME NEW b \in 1 .. m + 1
        PROVE  batches'[b] # <<>> /\ (b < m + 1 => Len(batches'[b]) = Batch)
    <3>1. CASE b \in 1 .. m
      BY <1>19, <2>1, <3>1, Zenon
    <3>2. CASE b = m + 1
      BY <1>1, <1>19, <3>2
    <3> QED BY <3>1, <3>2
  <2> QED BY <1>19, <2>2, Zenon DEF FullBatches
<1> QED BY <1>20, <1>21, <1>22

\* At the end of the calibration the batches hold every image that can be read.
LEMMA CalibratedTable ==
  ASSUME BuilderInv, BatchesEnd, batches # <<>>
  PROVE  FlattenSeq(batches) = Readable(Len(dirs))
<1>1. build = "calibrate" /\ (cursor_ > Len(Present) \/ Loaded = <<>>)
  BY DEF BatchesEnd
<1>2. BuilderTypes /\ Calibration
  BY DEF BuilderInv
<1>3. PICK n \in Nat, g \in Nat : n = Len(Present) /\ g = Len(dirs)
  BY <1>2, PresentIs, Zenon
<1>4. PICK c \in 1 .. n + 1 : c = cursor_
  BY <1>1, <1>2, <1>3 DEF Calibration
<1> DEFINE G == Good(Present)
<1>5. G \subseteq 1 .. n
  BY <1>2, <1>3, PresentIs, Zenon
<1> HIDE DEF G
<1>6. Between(G, 1, c - 1) = G
  <2>1. CASE c = n + 1
    <3>1. \A m \in G : 1 <= m /\ m <= c - 1
      BY <1>5, <2>1
    <3> QED BY <3>1, Zenon DEF Between
  <2>2. CASE c \in 1 .. n
    <3>1. Loaded = <<>>
      BY <1>1, <1>3, <1>4, <2>2
    <3>2. cursor_ \in 1 .. Len(Present)
      BY <1>3, <1>4, <2>2, Zenon
    <3>3. Loaded = Images(g, Taken(G, c, n))
      BY <1>2, <1>3, <1>4, <3>2, LoadedIs, Zenon DEF G
    <3>4. PICK L, S : L = Stop(G, c, n) /\ S = Taken(G, c, n)
      BY Zenon
    <3>5. Among(G, n)
      BY <1>5, Zenon DEF Among
    <3>6. S \subseteq 1 .. n
      BY <1>5, <3>4 DEF Taken
    <3>7. S = {}
      <4>1. Images(g, S) = <<>>
        BY <3>1, <3>3, <3>4, Zenon
      <4> QED BY <3>6, <4>1, ImagesEmpty
    <3>8. Taken(G, c, n) = {} => Between(G, c, n) = {}
      BY <2>2, <3>4, <3>5, BatchTaken
    <3>9. Between(G, c, n) = {}
      BY <3>4, <3>7, <3>8, Zenon
    <3>10. ASSUME NEW m \in G PROVE 1 <= m /\ m <= c - 1
      <4>1. m \in Int /\ 1 <= m /\ m <= n
        BY <1>5
      <4>2. ~(c <= m)
        BY <3>9, <4>1 DEF Between
      <4> QED BY <4>1, <4>2
    <3> QED BY <3>10, Zenon DEF Between
  <2> QED BY <2>1, <2>2
<1>7. FlatTo(batches, Images(g, G))
  <2>1. FlatTo(batches, Images(g, Between(G, 1, c - 1)))
    BY <1>1, <1>2, <1>3, <1>4, Zenon DEF Calibration, G
  <2> QED BY <1>6, <2>1, Zenon
<1>8. batches \in Seq(Seq(Places))
  BY <1>2 DEF BuilderTypes
<1>9. FlattenSeq(batches) = Images(g, G)
  BY <1>7, <1>8, FlatComputed, Zenon
<1>10. Readable(Len(dirs)) = Images(Len(dirs), Good(dirs[Len(dirs)]))
  BY Zenon DEF Readable, Good
<1>11. Present = dirs[Len(dirs)]
  BY <1>2, PresentIs, Zenon
<1> QED BY <1>3, <1>9, <1>10, <1>11, Zenon DEF G

\* A further generation of the directory.
LEMMA NextBuildKeeps ==
  ASSUME BuilderTypes, NextBuild, UNCHANGED batches
  PROVE  /\ BuilderTypes'
         /\ \A t : FromDirectory(t) => FromDirectory(t)'
         /\ \A t : PartOf(t) => PartOf(t)'
<1>1. PICK d \in Directories \cup {Present} : dirs' = Append(dirs, d)
  BY DEF NextBuild
<1>2. d \in Seq(BOOLEAN)
  BY PresentIs, DirectoriesAssumption
<1>3. BuilderTypes'
  BY <1>1, <1>2 DEF BuilderTypes
<1>4. /\ \A t : FromDirectory(t) => FromDirectory(t)'
      /\ \A t : PartOf(t) => PartOf(t)'
  BY <1>1, ReadableKept, Zenon
<1> QED BY <1>3, <1>4, Zenon

\* Before the first batch there are no images.
LEMMA CalibrationStarts ==
  ASSUME BuilderInv, ReadCache
  PROVE  Calibration'
<1>1. /\ build = "read_cache" /\ dirs' = dirs /\ cursor_' = cursor_ /\ batches' = batches
      /\ build' # "read_cache"
  BY DEF ReadCache, Stage
<1>2. BuilderTypes /\ cursor_ = 1 /\ batches = <<>>
  BY <1>1 DEF BuilderInv, Calibration
<1>3. PICK n \in Nat, g \in Nat : n = Len(Present) /\ g = Len(dirs)
  BY <1>2, PresentIs, Zenon
<1>4. Present' = Present /\ Len(dirs') = g
  BY <1>1, <1>3 DEF Present, Last
<1> DEFINE G == Good(Present)
<1>5. G \subseteq 1 .. n
  BY <1>2, <1>3, PresentIs, Zenon
<1> HIDE DEF G
<1>6. PICK S : S = Between(G, 1, 1 - 1)
  BY Zenon
<1>7. S = {}
  <2>1. ASSUME NEW m \in G PROVE ~(1 <= m /\ m <= 1 - 1)
    BY <1>5
  <2> QED BY <1>6, <2>1, Zenon DEF Between
<1>8. S \subseteq 1 .. n
  BY <1>7
<1>9. Images(g, S) = <<>>
  BY <1>7, <1>8, ImagesEmpty
<1>10. FlatTo(batches', Images(Len(dirs'), Between(Good(Present'), 1, cursor_' - 1)))
  <2>1. FlatTo(batches', Images(g, S))
    BY <1>1, <1>2, <1>9, Zenon DEF FlatTo
  <2>2. S = Between(Good(Present'), 1, cursor_' - 1)
    BY <1>1, <1>2, <1>4, <1>6, Zenon DEF G
  <2> QED BY <1>4, <2>1, <2>2, Zenon
<1>11. cursor_' \in 1 .. Len(Present') + 1 /\ batches' = <<>>
  BY <1>1, <1>2, <1>3, <1>4
<1> QED BY <1>1, <1>10, <1>11 DEF Calibration

\* Every step of build_engine keeps its inductive invariant.
LEMMA BuilderInvKept == BuilderInv /\ [BuilderNext]_builderVars => BuilderInv'
<1> SUFFICES ASSUME BuilderInv, [BuilderNext]_builderVars PROVE BuilderInv'
  OBVIOUS
<1>0. BuilderTypes /\ Calibration /\ FullBatches /\ Tables
  BY DEF BuilderInv
<1>s. ASSUME UNCHANGED <<dirs>>
      PROVE  /\ \A t : FromDirectory(t) => FromDirectory(t)'
             /\ \A t : PartOf(t) => PartOf(t)'
  BY <1>0, <1>s, ReadableKept, Zenon
<1>f. ASSUME FromDirectory(table)
      PROVE  PartOf(table) /\ (FillPart => PartOf(cache') /\ torn' = TRUE)
  BY <1>0, <1>f, PartsOfDirectory DEF FillPart
<1>1. CASE Configure
  <2>1. /\ dirs' = dirs /\ batches' = <<>> /\ cursor_' = 1 /\ table' = NoTable
        /\ cache' = cache /\ torn' = torn /\ build' \in {"read_cache", "serialize"}
    BY <1>1 DEF Configure
  <2>2. BuilderTypes' /\ Calibration' /\ FullBatches'
    BY <1>0, <2>1 DEF BuilderTypes, Calibration, FullBatches
  <2>3. Tables'
    BY <1>0, <1>s, <2>1 DEF Tables
  <2> QED BY <2>2, <2>3 DEF BuilderInv
<1>2. CASE ReadCache
  <2>1. /\ dirs' = dirs /\ batches' = batches /\ cache' = cache /\ torn' = torn
        /\ build' = IF cache \in {Absent, <<>>} THEN "calibrate" ELSE "serialize"
        /\ table' = IF cache \in {Absent, <<>>} THEN NoTable ELSE cache
        /\ batches = <<>>
    BY <1>0, <1>2 DEF ReadCache, Stage, Calibration
  <2>2. BuilderTypes' /\ FullBatches'
    BY <1>0, <2>1 DEF BuilderTypes, FullBatches
  <2>3. Tables'
    BY <1>0, <1>s, <2>1 DEF Tables
  <2>4. Calibration'
    BY <1>2, CalibrationStarts
  <2> QED BY <2>2, <2>3, <2>4 DEF BuilderInv
<1>3. CASE GetBatch
  <2>1. /\ dirs' = dirs /\ table' = table /\ cache' = cache /\ torn' = torn /\ build' = build
        /\ build = "calibrate"
    BY <1>3 DEF GetBatch
  <2>2. Tables'
    BY <1>0, <1>s, <2>1 DEF Tables
  <2> QED BY <1>3, <2>2, GetBatchKeeps DEF BuilderInv
<1>4. CASE BatchesEnd
  <2>1. /\ dirs' = dirs /\ batches' = batches /\ cache' = cache /\ torn' = torn
        /\ build' = IF batches = <<>> THEN "serialize" ELSE "write_cache"
        /\ table' = IF batches = <<>> THEN NoTable ELSE FlattenSeq(batches)
    BY <1>4 DEF BatchesEnd
  <2>2. batches # <<>> => FromDirectory(FlattenSeq(batches)) /\ PartOf(FlattenSeq(batches))
    <3> SUFFICES ASSUME batches # <<>>
                 PROVE  FromDirectory(FlattenSeq(batches)) /\ PartOf(FlattenSeq(batches))
      OBVIOUS
    <3>1. FlattenSeq(batches) = Readable(Len(dirs))
      BY <1>4, CalibratedTable
    <3>2. Len(dirs) \in DOMAIN dirs
      BY <1>0, PresentIs, Zenon
    <3>3. FromDirectory(FlattenSeq(batches))
      BY <3>1, <3>2, Zenon DEF FromDirectory
    <3> QED BY <1>0, <3>3, PartsOfDirectory, Zenon
  <2>3. BuilderTypes' /\ FullBatches' /\ Calibration'
    BY <1>0, <2>1 DEF BuilderTypes, FullBatches, Calibration
  <2>4. Tables'
    BY <1>0, <1>s, <2>1, <2>2 DEF Tables
  <2> QED BY <2>3, <2>4 DEF BuilderInv
<1>5. CASE TruncateCache
  <2>1. /\ dirs' = dirs /\ batches' = batches /\ table' = table /\ torn' = torn
        /\ build = "write_cache" /\ build' \in {"fill_cache", "serialize"} /\ cache' \in {cache, <<>>}
    BY <1>5 DEF TruncateCache, Stage
  <2>3. BuilderTypes' /\ FullBatches' /\ Calibration'
    BY <1>0, <2>1 DEF BuilderTypes, FullBatches, Calibration
  <2>4. Tables'
    BY <1>0, <1>s, <2>1 DEF Tables
  <2> QED BY <2>3, <2>4 DEF BuilderInv
<1>6. CASE FillCache
  <2>1. /\ dirs' = dirs /\ batches' = batches /\ table' = table
        /\ build = "fill_cache" /\ build' = "serialize"
        /\ (cache' = table /\ torn' = FALSE) \/ FillPart
    BY <1>6 DEF FillCache, Stage
  <2>2. FromDirectory(table) /\ PartOf(table) /\ (FillPart => PartOf(cache') /\ torn' = TRUE)
    BY <1>0, <1>f, <2>1 DEF Tables
  <2>3. BuilderTypes' /\ FullBatches' /\ Calibration'
    BY <1>0, <2>1 DEF BuilderTypes, FullBatches, Calibration
  <2>4. Tables'
    BY <1>0, <1>s, <2>1, <2>2 DEF Tables
  <2> QED BY <2>3, <2>4 DEF BuilderInv
<1>7. CASE Serialize \/ Killed
  <2>1. /\ NextBuild /\ batches' = batches /\ table' = table /\ build' = "idle"
        /\ (cache' = cache /\ torn' = torn) \/ (build = "fill_cache" /\ FillPart)
    BY <1>7 DEF Serialize, Killed, Stage
  <2>2. /\ BuilderTypes'
        /\ \A t : FromDirectory(t) => FromDirectory(t)'
        /\ \A t : PartOf(t) => PartOf(t)'
    BY <1>0, <2>1, NextBuildKeeps
  <2>3. FullBatches' /\ Calibration'
    BY <1>0, <2>1 DEF FullBatches, Calibration
  <2>4. CASE cache' = cache /\ torn' = torn
    <3>1. Tables'
      BY <1>0, <2>1, <2>2, <2>4 DEF Tables
    <3> QED BY <2>2, <2>3, <3>1 DEF BuilderInv
  <2>5. CASE build = "fill_cache" /\ FillPart
    <3>1. FromDirectory(table) /\ PartOf(cache') /\ torn' = TRUE
      BY <1>0, <1>f, <2>5 DEF Tables
    <3>2. Tables'
      BY <1>0, <2>1, <2>2, <3>1 DEF Tables
    <3> QED BY <2>2, <2>3, <3>2 DEF BuilderInv
  <2> QED BY <2>1, <2>4, <2>5
<1>8. CASE UNCHANGED builderVars
  <2>1. /\ dirs' = dirs /\ batches' = batches /\ table' = table /\ torn' = torn
        /\ build' = build /\ cache' = cache /\ cursor_' = cursor_
    BY <1>8 DEF builderVars
  <2>2. Present' = Present
    BY <2>1 DEF Present, Last
  <2>3. BuilderTypes' /\ FullBatches' /\ Calibration'
    BY <1>0, <2>1, <2>2 DEF BuilderTypes, FullBatches, Calibration
  <2>4. Tables'
    BY <1>0, <1>s, <2>1 DEF Tables
  <2> QED BY <2>3, <2>4 DEF BuilderInv
<1> QED BY <1>1, <1>2, <1>3, <1>4, <1>5, <1>6, <1>7, <1>8 DEF BuilderNext

\* The first build starts in it.
LEMMA BuilderInvStarts == BuilderInit => BuilderInv
<1> SUFFICES ASSUME BuilderInit PROVE BuilderInv
  OBVIOUS
<1>1. PICK d \in Directories : dirs = <<d>>
  BY DEF BuilderInit
<1>2. d \in Seq(BOOLEAN)
  BY DirectoriesAssumption
<1>3. build = "idle" /\ batches = <<>> /\ table = NoTable /\ cache = Absent
  BY DEF BuilderInit
<1>4. BuilderTypes
  BY <1>1, <1>2, <1>3 DEF BuilderTypes
<1>5. Calibration /\ FullBatches /\ Tables
  BY <1>3 DEF Calibration, FullBatches, Tables
<1> QED BY <1>4, <1>5 DEF BuilderInv

\* A build that calibrates quantises with a table of every readable image of one
\* generation of the directory, and one that reads the cache with such a table or, after
\* a write that was cut short, with the beginning of one; only the last batch of a
\* calibration has grey slots: for every batch size, every number of builds, killed or
\* out of disk space at any point, and every contents of the directory.
THEOREM TableExactHolds == BuilderSpec => []TableExact
<1>1. BuilderInv => TableExact
  BY DEF BuilderInv, Tables, FullBatches, FromDirectory, PartOf, TableExact
<1> QED BY <1>1, BuilderInvStarts, BuilderInvKept, PTL DEF BuilderSpec
===============================================================================

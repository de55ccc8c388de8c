--------------------------- MODULE FrameQueueProofs ---------------------------
(***************************************************************************)
(* TLAPS proofs about FrameQueue, for every set of threads, every capacity *)
(* and every number of frames.  IInv is the inductive invariant: the       *)
(* window of frames and the wake-up counting argument, with the facts      *)
(* about the thread sets and about taken that they need.                   *)
(* The end is about FrameQueueOps, the same queue as one operation per     *)
(* call, for every type of items.                                          *)
(***************************************************************************)
EXTENDS FrameQueue, FrameQueueOps, FiniteSetTheorems, TLAPS

\* A blocked consumer is not also counted among the woken ones.
Apart == cv_ \cap woken = {}

\* The frame delivered last has left the queue.
TakenLeft == taken <= popped_ + dropped_

\* While a consumer sleeps on a closed queue, a notify_all() is still to come.
CloseWillNotify == cv_ # {} /\ closed_ => notifyingAll # {}

IInv ==
  TypeOK /\ Window /\ Apart /\ TakenLeft /\ WakeupsCoverFrames /\ CloseWillNotify

USE CapacityAssumption, ThreadsAssumption, BoundAssumption

\* The thread sets that a step counts are finite, so their sizes are naturals.
LEMMA FiniteThreads ==
  ASSUME TypeOK
  PROVE  /\ IsFiniteSet(notifying) /\ IsFiniteSet(woken)
         /\ Cardinality(notifying) \in Nat /\ Cardinality(woken) \in Nat
  BY FS_Subset, FS_CardinalityType DEF TypeOK

\* The counters, the flags and the thread sets keep their types.
LEMMA TypeStep ==
  ASSUME TypeOK, [Next]_vars
  PROVE  TypeOK'
<1> USE DEF TypeOK
<1>1. ASSUME NEW p \in Producers, Push(p) PROVE TypeOK'
  <2>1. q_' \in Seq(Nat)
    BY <1>1 DEF Push, Enqueued, Overflow
  <2> QED BY <1>1, <2>1 DEF Push, Owing, consumers
<1>2. ASSUME NEW p \in Producers, PushClosed(p) PROVE TypeOK'
  BY <1>2 DEF PushClosed, vars
<1>3. ASSUME NEW p \in Producers, NotifyOne(p) PROVE TypeOK'
  BY <1>3 DEF NotifyOne, queue
<1>4. ASSUME NEW c \in Consumers, PopFrame(c) PROVE TypeOK'
  BY <1>4 DEF PopFrame, TakeFront
<1>5. ASSUME NEW c \in Consumers, PopEnd(c) PROVE TypeOK'
  BY <1>5 DEF PopEnd, queue
<1>6. ASSUME NEW c \in Consumers, PopWait(c) PROVE TypeOK'
  BY <1>6 DEF PopWait, queue
<1>7. ASSUME NEW c \in Consumers, TryPop(c) PROVE TypeOK'
  <2>1. CASE TakeFront
    BY <1>7, <2>1 DEF TryPop, TakeFront, consumers
  <2>2. CASE UNCHANGED queue
    BY <1>7, <2>2 DEF TryPop, queue, consumers
  <2> QED BY <1>7, <2>1, <2>2 DEF TryPop
<1>8. ASSUME NEW c \in Consumers, SpuriousWake(c) PROVE TypeOK'
  BY <1>8 DEF SpuriousWake, queue
<1>9. ASSUME NEW k \in Closers, Close(k) PROVE TypeOK'
  BY <1>9 DEF Close, OwingAll, consumers
<1>10. ASSUME NEW k \in Closers, NotifyAll(k) PROVE TypeOK'
  BY <1>10 DEF NotifyAll, queue
<1>11. CASE UNCHANGED vars
  BY <1>11 DEF vars
<1> QED
  BY <1>1, <1>2, <1>3, <1>4, <1>5, <1>6, <1>7, <1>8, <1>9, <1>10, <1>11
  DEF Next, Pop

\* Taking the front keeps the queue a window that starts one frame later.
LEMMA TakeFrontWindow ==
  ASSUME TypeOK, Window, TakenLeft, TakeFront
  PROVE  Window' /\ TakenLeft' /\ Len(q_') = Len(q_) - 1
<1>1. Len(q_) >= 1 /\ q_[1] = popped_ + dropped_ + 1 /\ taken' = q_[1]
  BY DEF TypeOK, Window, TakeFront
<1>2. Len(q_') = Len(q_) - 1 /\ \A i \in 1 .. Len(q_') : q_'[i] = q_[i + 1]
  BY <1>1 DEF TypeOK, TakeFront
<1>3. Window'
  BY <1>1, <1>2 DEF TypeOK, Window, TakeFront
<1> QED
  BY <1>1, <1>2, <1>3 DEF TypeOK, TakenLeft, TakeFront

\* Accepting a frame keeps the queue a window that ends one frame later, and
\* makes it at most one frame longer.
LEMMA PushWindow ==
  ASSUME TypeOK, Window, TakenLeft, NEW p, Push(p)
  PROVE  Window' /\ TakenLeft' /\ Len(q_') <= Len(q_) + 1
<1>1. CASE Overflow
  <2>1. Len(q_) = Capacity /\ q_ # <<>>
    BY <1>1 DEF TypeOK, Window, Overflow
  <2>2. Len(q_') = Len(q_)
    BY <1>1, <2>1 DEF TypeOK, Push, Enqueued
  <2>3. \A i \in 1 .. Len(q_) - 1 : q_'[i] = q_[i + 1]
    BY <1>1, <2>1 DEF TypeOK, Push, Enqueued
  <2>4. q_'[Len(q_)] = pushed_ + 1
    BY <1>1, <2>1 DEF TypeOK, Push, Enqueued
  <2>5. /\ pushed_' = pushed_ + 1 /\ dropped_' = dropped_ + 1
        /\ popped_' = popped_ /\ taken' = taken
    BY <1>1 DEF Push
  <2>6. \A i \in 1 .. Len(q_') : q_'[i] = popped_' + dropped_' + i
    <3> SUFFICES ASSUME NEW i \in 1 .. Len(q_)
                 PROVE  q_'[i] = popped_ + dropped_ + 1 + i
      BY <2>2, <2>5 DEF TypeOK
    <3>1. CASE i = Len(q_)
      BY <2>4, <3>1 DEF TypeOK, Window
    <3>2. CASE i \in 1 .. Len(q_) - 1
      BY <2>3, <3>2 DEF TypeOK, Window
    <3> QED BY <3>1, <3>2 DEF TypeOK
  <2> QED
    BY <2>1, <2>2, <2>5, <2>6 DEF TypeOK, Window, TakenLeft
<1>2. CASE ~Overflow
  <2>1. Len(q_) < Capacity
    BY <1>2 DEF TypeOK, Overflow
  <2>2. Len(q_') = Len(q_) + 1
    BY <1>2 DEF TypeOK, Push, Enqueued
  <2>3. \A i \in 1 .. Len(q_) : q_'[i] = q_[i]
    BY <1>2 DEF TypeOK, Push, Enqueued
  <2>4. q_'[Len(q_) + 1] = pushed_ + 1
    BY <1>2 DEF TypeOK, Push, Enqueued
  <2> QED
    BY <1>2, <2>1, <2>2, <2>3, <2>4 DEF TypeOK, Window, TakenLeft, Push
<1> QED BY <1>1, <1>2

\* A step that leaves the frames, the counters and the closed flag alone keeps
\* the window.
LEMMA QuietWindow ==
  ASSUME TypeOK, Window, TakenLeft, UNCHANGED queue
  PROVE  Window' /\ TakenLeft'
  BY DEF TypeOK, Window, TakenLeft, queue

\* Window and TakenLeft are preserved by every step.
LEMMA WindowStep ==
  ASSUME TypeOK, Window, TakenLeft, [Next]_vars
  PROVE  Window' /\ TakenLeft'
<1>1. ASSUME NEW p \in Producers, Push(p) PROVE Window' /\ TakenLeft'
  BY <1>1, PushWindow
<1>2. ASSUME NEW c \in Consumers, PopFrame(c) \/ TryPop(c)
      PROVE  Window' /\ TakenLeft'
  BY <1>2, TakeFrontWindow, QuietWindow DEF PopFrame, TryPop
<1>3. ASSUME NEW k \in Closers, Close(k) PROVE Window' /\ TakenLeft'
  BY <1>3 DEF Close, Window, TakenLeft
<1>4. ASSUME NEW p \in Producers, PushClosed(p) \/ NotifyOne(p)
      PROVE  UNCHANGED queue
  BY <1>4 DEF PushClosed, NotifyOne, vars, queue
<1>5. ASSUME NEW c \in Consumers, PopEnd(c) \/ PopWait(c) \/ SpuriousWake(c)
      PROVE  UNCHANGED queue
  BY <1>5 DEF PopEnd, PopWait, SpuriousWake
<1>6. ASSUME NEW k \in Closers, NotifyAll(k) PROVE UNCHANGED queue
  BY <1>6 DEF NotifyAll
<1>7. UNCHANGED vars => UNCHANGED queue
  BY DEF vars, queue
<1> QED
  BY <1>1, <1>2, <1>3, <1>4, <1>5, <1>6, <1>7, QuietWindow DEF Next, Pop

\* A blocked consumer stays out of the woken set.
LEMMA ApartStep ==
  ASSUME TypeOK, Apart, [Next]_vars
  PROVE  Apart'
  BY DEF TypeOK, Apart, Next, Push, PushClosed, NotifyOne, Pop, PopFrame, PopEnd,
         PopWait, TryPop, SpuriousWake, Close, NotifyAll, CanRun, consumers, vars

\* Once the queue is closed nobody blocks any more, and those who were blocked
\* are released by the notify_all() that follows.
LEMMA CloseStep ==
  ASSUME TypeOK, CloseWillNotify, [Next]_vars
  PROVE  CloseWillNotify'
<1> USE DEF TypeOK, CloseWillNotify
<1>1. ASSUME NEW p \in Producers, Push(p) \/ PushClosed(p) \/ NotifyOne(p)
      PROVE  CloseWillNotify'
  BY <1>1 DEF Push, PushClosed, NotifyOne, queue, consumers, vars
<1>2. ASSUME NEW c \in Consumers, Pop(c) \/ TryPop(c) \/ SpuriousWake(c)
      PROVE  CloseWillNotify'
  BY <1>2 DEF Pop, PopFrame, PopEnd, PopWait, TryPop, SpuriousWake, TakeFront,
              queue, consumers
<1>3. ASSUME NEW k \in Closers, Close(k) \/ NotifyAll(k) PROVE CloseWillNotify'
  BY <1>3 DEF Close, OwingAll, NotifyAll, consumers
<1>4. CASE UNCHANGED vars
  BY <1>4 DEF vars
<1> QED BY <1>1, <1>2, <1>3, <1>4 DEF Next

\* The counting argument: a push adds one frame and one notification to come; a
\* notify_one() turns a notification into a woken consumer; a woken consumer
\* that stops being one either took a frame or found none.
LEMMA WakeupStep ==
  ASSUME TypeOK, Window, TakenLeft, Apart, WakeupsCoverFrames, [Next]_vars
  PROVE  WakeupsCoverFrames'
<1> DEFINE W == Cardinality(woken)
           N == Cardinality(notifying)
<1>0. /\ IsFiniteSet(woken) /\ IsFiniteSet(notifying)
      /\ W \in Nat /\ N \in Nat /\ Len(q_) \in Nat
  BY FiniteThreads DEF TypeOK
<1>1. ASSUME NEW p \in Producers, Push(p) PROVE WakeupsCoverFrames'
  <2>1. Cardinality(notifying') = N + 1 /\ woken' = woken /\ cv_' = cv_
    BY <1>0, <1>1, FS_AddElement DEF Push, Owing, consumers
  <2>2. closed_' = closed_ /\ Len(q_') <= Len(q_) + 1 /\ Len(q_') \in Nat
    BY <1>1, PushWindow, TypeStep DEF Push, TypeOK
  <2> QED BY <1>0, <2>1, <2>2 DEF WakeupsCoverFrames
<1>2. ASSUME NEW p \in Producers, NotifyOne(p) PROVE WakeupsCoverFrames'
  <2>1. CASE cv_ = {} /\ UNCHANGED <<cv_, woken>>
    BY <2>1 DEF WakeupsCoverFrames
  <2>2. ASSUME NEW c \in cv_, cv_' = cv_ \ {c}, woken' = woken \cup {c}
        PROVE  WakeupsCoverFrames'
    <3>1. Cardinality(notifying') = N - 1
      BY <1>0, <1>2, FS_RemoveElement DEF NotifyOne
    <3>2. Cardinality(woken') = W + 1
      BY <1>0, <2>2, FS_AddElement DEF Apart
    <3> QED BY <1>0, <1>2, <2>2, <3>1, <3>2 DEF NotifyOne, queue, WakeupsCoverFrames
  <2> QED BY <1>2, <2>1, <2>2 DEF NotifyOne
<1>3. ASSUME NEW c \in Consumers, PopFrame(c) PROVE WakeupsCoverFrames'
  <2>1. Len(q_') = Len(q_) - 1
    BY <1>3, TakeFrontWindow DEF PopFrame
  <2>2. Cardinality(woken') \in {W, W - 1}
    BY <1>0, <1>3, FS_RemoveElement DEF PopFrame
  <2> QED
    BY <1>0, <1>3, <2>1, <2>2 DEF PopFrame, TakeFront, WakeupsCoverFrames
<1>4. ASSUME NEW c \in Consumers, PopEnd(c) PROVE WakeupsCoverFrames'
  BY <1>4 DEF PopEnd, queue, WakeupsCoverFrames
<1>5. ASSUME NEW c \in Consumers, PopWait(c) PROVE WakeupsCoverFrames'
  <2>1. Cardinality(woken') \in Nat /\ Cardinality(notifying') = N
    BY <1>0, <1>5, FS_Subset, FS_CardinalityType DEF PopWait
  <2>2. Len(q_') = 0
    BY <1>5 DEF PopWait, queue
  <2> QED BY <1>0, <2>1, <2>2 DEF WakeupsCoverFrames
<1>6. ASSUME NEW c \in Consumers, TryPop(c) PROVE WakeupsCoverFrames'
  <2>1. Len(q_') <= Len(q_) /\ Len(q_') \in Nat /\ closed_' = closed_
    BY <1>0, <1>6, TakeFrontWindow, TypeStep DEF TryPop, TakeFront, queue, TypeOK
  <2> QED BY <1>0, <1>6, <2>1 DEF TryPop, consumers, WakeupsCoverFrames
<1>7. ASSUME NEW c \in Consumers, SpuriousWake(c) PROVE WakeupsCoverFrames'
  <2>1. Cardinality(woken') = W + 1
    BY <1>0, <1>7, FS_AddElement DEF SpuriousWake, Apart
  <2> QED BY <1>0, <1>7, <2>1 DEF SpuriousWake, queue, WakeupsCoverFrames
<1>8. ASSUME NEW k \in Closers, Close(k) PROVE WakeupsCoverFrames'
  BY <1>8 DEF Close, WakeupsCoverFrames
<1>9. ASSUME NEW k \in Closers, NotifyAll(k) PROVE WakeupsCoverFrames'
  BY <1>9 DEF NotifyAll, WakeupsCoverFrames
<1>10. ASSUME UNCHANGED vars PROVE WakeupsCoverFrames'
  BY <1>10 DEF vars, WakeupsCoverFrames
<1>11. ASSUME NEW p \in Producers, PushClosed(p) PROVE WakeupsCoverFrames'
  BY <1>10, <1>11 DEF PushClosed
<1> QED
  BY <1>1, <1>2, <1>3, <1>4, <1>5, <1>6, <1>7, <1>8, <1>9, <1>10, <1>11
  DEF Next, Pop

-------------------------------------------------------------------------------
\* IInv holds in every reachable state.
THEOREM Invariance == Spec => []IInv
<1>1. Init => IInv
  <2> SUFFICES ASSUME Init PROVE IInv
    OBVIOUS
  <2>1. TypeOK
    <3>1. <<>> \in Seq(Nat) /\ FALSE \in BOOLEAN
      OBVIOUS
    <3>2. 0 \in Nat
      OBVIOUS
    <3> QED BY <3>1, <3>2, Zenon DEF Init, TypeOK
  <2>2. Window /\ TakenLeft
    BY DEF Init, Window, TakenLeft
  <2>3. Apart /\ CloseWillNotify /\ WakeupsCoverFrames
    BY DEF Init, Apart, CloseWillNotify, WakeupsCoverFrames
  <2> QED BY <2>1, <2>2, <2>3 DEF IInv
<1>2. IInv /\ [Next]_vars => IInv'
  BY TypeStep, WindowStep, ApartStep, WakeupStep, CloseStep DEF IInv
<1> QED BY <1>1, <1>2, PTL DEF Spec

\* Every reachable state is well typed: TypeOK for any threads and capacity.
THEOREM TypeCorrect == Spec => []TypeOK
  BY Invariance, PTL DEF IInv

\* push(), pop() and try_pop() keep the queue the window of the newest frames, at
\* most capacity_ of them, with exact counters.
THEOREM WindowHolds == Spec => []Window
  BY Invariance, PTL DEF IInv

\* As many wake-ups are on their way as there are frames for sleeping consumers.
THEOREM WakeupsCoverFramesHolds == Spec => []WakeupsCoverFrames
  BY Invariance, PTL DEF IInv

\* notify_one() and notify_all() outside the lock never lose a wake-up.
THEOREM NoLostWakeupHolds == Spec => []NoLostWakeup
<1>1. IInv => NoLostWakeup
  <2> SUFFICES ASSUME IInv, cv_ # {}
               PROVE  /\ q_ # <<>> /\ ~closed_ => (notifying # {} \/ woken # {})
                      /\ closed_ => notifyingAll # {}
    BY DEF NoLostWakeup
  <2>1. ASSUME q_ # <<>>, ~closed_, notifying = {}, woken = {} PROVE FALSE
    <3>1. Len(q_) > 0
      BY <2>1 DEF IInv, TypeOK
    <3>2. Cardinality(notifying) = 0 /\ Cardinality(woken) = 0
      BY <2>1, FS_EmptySet
    <3> QED BY <2>1, <3>1, <3>2 DEF IInv, WakeupsCoverFrames
  <2> QED BY <2>1 DEF IInv, CloseWillNotify
<1> QED BY <1>1, Invariance, PTL

\* Frames are delivered in acceptance order and are never older than the Capacity
\* newest ones, whatever threads pop them.
THEOREM FreshInOrderHolds == Spec => FreshInOrder
<1>1. IInv /\ [Next]_vars
      => [popped_' # popped_ => (taken' > taken /\ taken' > pushed_ - Capacity)]_vars
  <2> SUFFICES ASSUME IInv, [Next]_vars, popped_' # popped_
               PROVE  taken' > taken /\ taken' > pushed_ - Capacity
    OBVIOUS
  <2>1. TakeFront
    BY DEF Next, Push, PushClosed, NotifyOne, Pop, PopFrame, PopEnd, PopWait, TryPop,
           SpuriousWake, Close, NotifyAll, queue, vars
  <2>2. taken' = popped_ + dropped_ + 1 /\ Len(q_) >= 1
    BY <2>1 DEF IInv, TypeOK, Window, TakeFront
  <2> QED BY <2>2 DEF IInv, TypeOK, Window, TakenLeft
<1> QED BY <1>1, Invariance, PTL DEF Spec, FreshInOrder

\* The threaded queue implements the abstract drop-oldest buffer.
THEOREM Refinement == Spec => ImplementsBuffer
<1>1. Init => Buffer!Init
  BY DEF Init, Buffer!Init
<1>2. IInv /\ [Next]_vars => [Buffer!Next]_(Buffer!vars)
  <2> SUFFICES ASSUME IInv, [Next]_vars PROVE Buffer!Next \/ UNCHANGED Buffer!vars
    OBVIOUS
  <2> USE DEF IInv, TypeOK, Window
  <2>1. ASSUME NEW p \in Producers, Push(p) PROVE Buffer!Offer
    BY <2>1 DEF Push, Accepting, Overflow, Buffer!Offer
  <2>2. ASSUME TakeFront PROVE Buffer!Deliver
    BY <2>2 DEF TakeFront, Buffer!Deliver
  <2>3. ASSUME NEW k \in Closers, Close(k) PROVE Buffer!Close
    BY <2>3 DEF Close, Buffer!Close
  <2>4. ASSUME UNCHANGED queue PROVE UNCHANGED Buffer!vars
    BY <2>4 DEF queue, Buffer!vars
  <2>5. \/ \E p \in Producers : Push(p)
        \/ TakeFront
        \/ \E k \in Closers : Close(k)
        \/ UNCHANGED queue
    BY DEF Next, PushClosed, NotifyOne, Pop, PopFrame, PopEnd, PopWait, TryPop,
           SpuriousWake, NotifyAll, queue, vars
  <2> QED BY <2>1, <2>2, <2>3, <2>4, <2>5 DEF Buffer!Next
<1> QED BY <1>1, <1>2, Invariance, PTL DEF Spec, ImplementsBuffer, Buffer!Spec

-------------------------------------------------------------------------------
(* The operations that the pipeline is modelled with *)

\* The queue q, with room for capacity items, after the items of `accepted` were pushed and
\* the first `gone` of them have left: what the variables first, last and closed of
\* DropOldestBuffer say of a buffer.
Represents(q, capacity, Item, accepted, gone, closed) ==
  /\ gone <= Len(accepted) /\ Len(accepted) - gone <= capacity
  /\ q \in [items : Seq(Item), closed : BOOLEAN] /\ q.closed = closed
  /\ Len(q.items) = Len(accepted) - gone
  /\ \A k \in 1 .. Len(q.items) : q.items[k] = accepted[gone + k]

\* What is behind the front of a sequence.
LEMMA TailAt ==
  ASSUME NEW P, NEW s \in Seq(P), NEW n \in Nat, Len(s) = n, n # 0
  PROVE  Tail(s) \in Seq(P) /\ Len(Tail(s)) = n - 1 /\ \A k \in 1 .. n - 1 : Tail(s)[k] = s[k + 1]
OBVIOUS

\* What a sequence holds with an element behind it.
LEMMA AppendAt ==
  ASSUME NEW P, NEW s \in Seq(P), NEW e \in P, NEW n \in Nat, Len(s) = n
  PROVE  /\ Append(s, e) \in Seq(P) /\ Len(Append(s, e)) = n + 1 /\ Append(s, e)[n + 1] = e
         /\ \A k \in 1 .. n : Append(s, e)[k] = s[k]
OBVIOUS

\* A queue starts as an empty buffer does.
LEMMA EmptyQueueIs ==
  ASSUME NEW capacity \in Nat, NEW Item
  PROVE  Represents(EmptyQueue, capacity, Item, <<>>, 0, FALSE)
BY DEF Represents, EmptyQueue

\* push() is Offer, or changes nothing of a closed queue.
LEMMA PushToIs ==
  ASSUME NEW capacity \in Nat \ {0}, NEW Item, NEW q, NEW accepted \in Seq(Item),
         NEW gone \in Nat, NEW closed \in BOOLEAN,
         Represents(q, capacity, Item, accepted, gone, closed), NEW item \in Item
  PROVE  IF closed
           THEN PushTo(q, capacity, item) = q
           ELSE Represents(PushTo(q, capacity, item), capacity, Item, Append(accepted, item),
                           IF Len(accepted) - gone = capacity THEN gone + 1 ELSE gone, closed)
<1>0. PICK v \in Seq(Item) : v = q.items
  BY DEF Represents
<1>a. q = [items |-> v, closed |-> closed]
  BY <1>0 DEF Represents
<1>n. PICK n \in Nat : n = Len(accepted)
  OBVIOUS
<1>m. PICK m \in Nat : m = Len(v)
  OBVIOUS
<1>1. /\ gone <= n /\ n - gone <= capacity /\ m = n - gone
      /\ \A k \in 1 .. m : v[k] = accepted[gone + k]
  BY <1>0, <1>n, <1>m DEF Represents
<1>2. CASE closed
  <2>1. q.closed = closed
    BY Zenon DEF Represents
  <2> QED BY <1>2, <2>1, Zenon DEF PushTo
<1>3. CASE ~closed
  <2> DEFINE left == IF m >= capacity THEN Tail(v) ELSE v
             later == Append(accepted, item)
             gone1 == IF n - gone = capacity THEN gone + 1 ELSE gone
  <2>2. PushTo(q, capacity, item) = [items |-> Append(left, item), closed |-> closed]
    <3>1. q.items = v /\ ~q.closed
      BY <1>0, <1>3 DEF Represents
    <3>2. PushTo(q, capacity, item) = [q EXCEPT !.items = Append(left, item)]
      BY <1>m, <3>1, Zenon DEF PushTo
    <3> HIDE DEF left
    <3> QED BY <1>a, <3>2
  <2>3. /\ later \in Seq(Item) /\ Len(later) = n + 1 /\ later[n + 1] = item
        /\ \A k \in 1 .. n : later[k] = accepted[k]
    BY <1>1, <1>n, <1>m
  <2>4. /\ left \in Seq(Item) /\ Len(left) = n - gone1 /\ gone1 \in 0 .. n
        /\ \A k \in 1 .. Len(left) : left[k] = accepted[gone1 + k]
    <3>1. CASE m >= capacity
      <4>1. m = capacity /\ n - gone = capacity /\ v # <<>> /\ gone1 = gone + 1
        BY <1>1, <1>n, <1>m, <3>1
      <4>2. /\ Tail(v) \in Seq(Item) /\ Len(Tail(v)) = m - 1
            /\ \A k \in 1 .. m - 1 : Tail(v)[k] = v[k + 1]
        BY <1>m, <3>1, <4>1, TailAt
      <4>3. ASSUME NEW k \in 1 .. m - 1 PROVE v[k + 1] = accepted[gone1 + k]
        <5>1. k + 1 \in 1 .. Len(v) /\ gone + (k + 1) = gone1 + k
          BY <1>1, <1>n, <1>m, <4>1
        <5> QED BY <1>1, <5>1
      <4> QED BY <1>1, <1>n, <1>m, <3>1, <4>1, <4>2, <4>3
    <3>2. CASE m < capacity
      <4>1. ~(m >= capacity) /\ n - gone # capacity
        BY <1>1, <3>2
      <4>2. left = v /\ gone1 = gone
        BY <4>1, Zenon
      <4>3. gone \in 0 .. n
        BY <1>1
      <4> HIDE DEF left, gone1
      <4> QED BY <1>m, <1>1, <4>2, <4>3
    <3>3. m >= capacity \/ m < capacity
      OBVIOUS
    <3> QED BY <3>1, <3>2, <3>3, Zenon
  <2> HIDE DEF left, later, gone1
  <2> DEFINE items == Append(left, item)
  <2>5. /\ items \in Seq(Item) /\ Len(items) = n + 1 - gone1
        /\ \A k \in 1 .. Len(items) : items[k] = later[gone1 + k]
    <3>1. PICK j \in Nat : j = Len(left)
      BY <2>4
    <3>2. /\ items \in Seq(Item) /\ Len(items) = j + 1 /\ items[j + 1] = item
          /\ \A k \in 1 .. j : items[k] = left[k]
      <4>1. left \in Seq(Item) /\ Len(left) = j
        BY <2>4, <3>1, Zenon
      <4> QED BY <4>1, AppendAt
    <3> HIDE DEF items
    <3>3. ASSUME NEW k \in 1 .. j + 1 PROVE items[k] = later[gone1 + k]
      <4>1. CASE k = j + 1
        BY <2>3, <2>4, <3>1, <3>2, <4>1
      <4>2. CASE k \in 1 .. j
        BY <2>3, <2>4, <3>1, <3>2, <4>2
      <4> QED BY <4>1, <4>2
    <3> QED BY <2>4, <3>1, <3>2, <3>3
  <2>6. Len(later) - gone1 <= capacity
    BY <1>1, <1>n, <1>m, <2>3 DEF gone1
  <2> HIDE DEF items
  <2>7. Represents([items |-> items, closed |-> closed], capacity, Item, later, gone1, closed)
    BY <1>1, <2>3, <2>4, <2>5, <2>6 DEF Represents
  <2> QED BY <1>3, <1>n, <1>m, <2>2, <2>7 DEF later, gone1, items
<1> QED BY <1>1, <1>2, <1>3

\* pop() waits for what Deliver or Close enables, and with an item it is Deliver.
LEMMA PopIs ==
  ASSUME NEW capacity \in Nat, NEW Item, NEW q, NEW accepted \in Seq(Item),
         NEW gone \in Nat, NEW closed \in BOOLEAN,
         Represents(q, capacity, Item, accepted, gone, closed)
  PROVE  /\ HasItem(q) <=> gone < Len(accepted)
         /\ CanPop(q) <=> (gone < Len(accepted) \/ closed)
         /\ HasItem(q) => /\ FrontOf(q) = accepted[gone + 1]
                          /\ Represents(WithoutFront(q), capacity, Item, accepted, gone + 1, closed)
<1>0. PICK v \in Seq(Item) : v = q.items
  BY DEF Represents
<1>a. q = [items |-> v, closed |-> closed]
  BY <1>0 DEF Represents
<1>n. PICK n \in Nat : n = Len(accepted)
  OBVIOUS
<1>m. PICK m \in Nat : m = Len(v)
  OBVIOUS
<1>1. /\ gone <= n /\ n - gone <= capacity /\ m = n - gone
      /\ \A k \in 1 .. m : v[k] = accepted[gone + k]
  BY <1>0, <1>n, <1>m DEF Represents
<1>b. HasItem(q) <=> m # 0
  <2>1. HasItem(q) <=> v # <<>>
    BY <1>0, Zenon DEF HasItem
  <2>2. v # <<>> <=> m # 0
    BY <1>m
  <2> QED BY <2>1, <2>2, Zenon
<1>2. HasItem(q) <=> gone < Len(accepted)
  <2>1. m # 0 <=> gone < n
    BY <1>1
  <2> QED BY <1>n, <1>b, <2>1, Zenon
<1>3. CanPop(q) <=> (gone < Len(accepted) \/ closed)
  <2>1. q.closed = closed
    BY Zenon DEF Represents
  <2> QED BY <1>2, <2>1, Zenon DEF CanPop, HasItem
<1>4. ASSUME HasItem(q)
      PROVE  FrontOf(q) = accepted[gone + 1]
  <2>1. m # 0 /\ v # <<>> /\ 1 \in 1 .. m
    BY <1>m, <1>b, <1>4
  <2>2. FrontOf(q) = Head(v)
    BY <1>0, Zenon DEF FrontOf
  <2>3. Head(v) = v[1]
    BY <2>1
  <2> QED BY <1>1, <2>1, <2>2, <2>3, Zenon
<1>5. ASSUME HasItem(q)
      PROVE  Represents(WithoutFront(q), capacity, Item, accepted, gone + 1, closed)
  <2> DEFINE rest == Tail(v)
  <2>1. WithoutFront(q) = [items |-> rest, closed |-> closed]
    <3>1. WithoutFront(q) = [q EXCEPT !.items = rest]
      BY <1>0, Zenon DEF WithoutFront
    <3> HIDE DEF rest
    <3> QED BY <1>a, <3>1
  <2>3. v # <<>> /\ m # 0
    BY <1>5, <1>m, <1>b
  <2>4. rest \in Seq(Item) /\ Len(rest) = m - 1 /\ \A k \in 1 .. m - 1 : rest[k] = v[k + 1]
    BY <1>m, <2>3, TailAt
  <2>5. ASSUME NEW k \in 1 .. m - 1 PROVE v[k + 1] = accepted[(gone + 1) + k]
    <3>1. k + 1 \in 1 .. Len(v) /\ gone + (k + 1) = (gone + 1) + k
      BY <1>1, <1>m
    <3> QED BY <1>1, <3>1
  <2> HIDE DEF rest
  <2>6. /\ Len(rest) = n - (gone + 1) /\ gone + 1 <= n /\ n - (gone + 1) <= capacity /\ gone + 1 \in Nat
        /\ \A k \in 1 .. Len(rest) : rest[k] = accepted[(gone + 1) + k]
    <3>1. m - 1 = n - (gone + 1) /\ gone + 1 <= n /\ n - (gone + 1) <= capacity /\ gone + 1 \in Nat
      BY <1>1, <2>3
    <3>2. \A k \in 1 .. m - 1 : rest[k] = accepted[(gone + 1) + k]
      BY <2>4, <2>5, Zenon
    <3>3. Len(rest) = m - 1
      BY <2>4, Zenon
    <3> QED BY <3>1, <3>2, <3>3, Zenon
  <2> QED BY <1>n, <2>1, <2>4, <2>6 DEF Represents
<1> QED BY <1>2, <1>3, <1>4, <1>5

\* close() is Close.
LEMMA CloseQueueIs ==
  ASSUME NEW capacity \in Nat, NEW Item, NEW q, NEW accepted \in Seq(Item),
         NEW gone \in Nat, NEW closed \in BOOLEAN,
         Represents(q, capacity, Item, accepted, gone, closed)
  PROVE  Represents(CloseQueue(q), capacity, Item, accepted, gone, TRUE)
BY DEF Represents, CloseQueue

\* The operations with which Pipeline, RtspServer and GstPipe use their queues are the steps
\* of DropOldestBuffer: push() accepts an item and, when the queue is full, drops the
\* oldest one; pop() waits for an item or the end and takes the oldest item; close() ends the
\* acceptance and loses nothing.
THEOREM OperationsAreBufferSteps ==
  ASSUME NEW capacity \in Nat \ {0}, NEW Item, NEW q, NEW accepted \in Seq(Item),
         NEW gone \in Nat, NEW closed \in BOOLEAN,
         Represents(q, capacity, Item, accepted, gone, closed), NEW item \in Item
  PROVE  /\ IF closed
              THEN PushTo(q, capacity, item) = q
              ELSE Represents(PushTo(q, capacity, item), capacity, Item, Append(accepted, item),
                              IF Len(accepted) - gone = capacity THEN gone + 1 ELSE gone, closed)
         /\ CanPop(q) <=> (gone < Len(accepted) \/ closed)
         /\ HasItem(q) <=> gone < Len(accepted)
         /\ HasItem(q) => /\ FrontOf(q) = accepted[gone + 1]
                          /\ Represents(WithoutFront(q), capacity, Item, accepted, gone + 1, closed)
         /\ Represents(CloseQueue(q), capacity, Item, accepted, gone, TRUE)
<1>1. capacity \in Nat
  OBVIOUS
<1>2. Represents(CloseQueue(q), capacity, Item, accepted, gone, TRUE)
  BY <1>1, CloseQueueIs, Zenon
<1>3. /\ CanPop(q) <=> (gone < Len(accepted) \/ closed)
      /\ HasItem(q) <=> gone < Len(accepted)
      /\ HasItem(q) => /\ FrontOf(q) = accepted[gone + 1]
                       /\ Represents(WithoutFront(q), capacity, Item, accepted, gone + 1, closed)
  BY <1>1, PopIs, Zenon
<1>4. IF closed
        THEN PushTo(q, capacity, item) = q
        ELSE Represents(PushTo(q, capacity, item), capacity, Item, Append(accepted, item),
                        IF Len(accepted) - gone = capacity THEN gone + 1 ELSE gone, closed)
  BY PushToIs
<1> QED BY <1>2, <1>3, <1>4, Zenon
===============================================================================

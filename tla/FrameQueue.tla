------------------------------ MODULE FrameQueue ------------------------------
(***************************************************************************)
(* gstpipe::FrameQueue (include/gstpipe/frame_queue.hpp): a bounded queue  *)
(* shared by producer threads (appsink callbacks), consumer threads (the   *)
(* RTSP feeder, the raw sink) and the threads that close it.               *)
(*                                                                         *)
(* Each critical section of m_ is one step.  notify_one() and notify_all() *)
(* are called after the lock is released, so they are steps of their own,  *)
(* and a woken consumer evaluates the predicate of cv_.wait again in a     *)
(* later step.  A frame is its acceptance number: the n-th frame that      *)
(* push() accepts is n.                                                    *)
(***************************************************************************)
EXTENDS Naturals, Sequences, FiniteSets

CONSTANTS Producers,  \* threads that call push()
          Consumers,  \* threads that call pop() / try_pop() until it ends
          Closers,    \* threads that call close()
          Capacity,   \* capacity_
          MaxPush     \* bound: frames accepted in a behaviour

ASSUME CapacityAssumption == Capacity \in Nat \ {0}
ASSUME ThreadsAssumption == IsFiniteSet(Producers) /\ IsFiniteSet(Consumers)
ASSUME BoundAssumption == MaxPush \in Nat

VARIABLES q_, closed_, pushed_, popped_, dropped_,
          cv_,        \* consumers blocked in cv_.wait
          woken,      \* consumers notified, predicate not yet evaluated again
          ended,      \* consumers whose pop() returned nullopt
          notifying,  \* producers between the unlock and notify_one()
          notifyingAll, \* closers between the unlock and notify_all()
          taken       \* history: the frame delivered last

vars == <<q_, closed_, pushed_, popped_, dropped_,
          cv_, woken, ended, notifying, notifyingAll, taken>>
queue == <<q_, closed_, pushed_, popped_, dropped_, taken>>
consumers == <<cv_, woken, ended>>

TypeOK ==
  /\ q_ \in Seq(Nat)
  /\ closed_ \in BOOLEAN
  /\ pushed_ \in Nat /\ popped_ \in Nat /\ dropped_ \in Nat /\ taken \in Nat
  /\ cv_ \in SUBSET Consumers
  /\ woken \in SUBSET Consumers
  /\ ended \in SUBSET Consumers
  /\ notifying \in SUBSET Producers
  /\ notifyingAll \in SUBSET Closers

Init ==
  /\ q_ = <<>> /\ closed_ = FALSE
  /\ pushed_ = 0 /\ popped_ = 0 /\ dropped_ = 0 /\ taken = 0
  /\ cv_ = {} /\ woken = {} /\ ended = {}
  /\ notifying = {} /\ notifyingAll = {}

-------------------------------------------------------------------------------
(* push() *)

OverflowOffByOne == Len(q_) > Capacity
Overflow == Len(q_) >= Capacity

\* q_ once the arriving frame is in; the variant drops the arriving frame.
EnqueuedDropNewest == IF Overflow THEN q_ ELSE Append(q_, pushed_ + 1)
Enqueued == Append(IF Overflow THEN Tail(q_) ELSE q_, pushed_ + 1)

\* push() looks at closed_ under the lock; the variant forgets to.
AcceptingAlways == TRUE
Accepting == ~closed_

\* The producers that owe a notify_one() once p has pushed; the variants notify
\* only when the queue was empty, or never.
OwingIfEmpty(p) == IF q_ = <<>> THEN notifying \cup {p} ELSE notifying
OwingNever(p) == notifying
Owing(p) == notifying \cup {p}

\* The locked half of push() on an open queue.
Push(p) ==
  /\ p \notin notifying
  /\ Accepting
  /\ pushed_ < MaxPush
  /\ q_' = Enqueued
  /\ dropped_' = IF Overflow THEN dropped_ + 1 ELSE dropped_
  /\ pushed_' = pushed_ + 1
  /\ notifying' = Owing(p)
  /\ UNCHANGED <<closed_, popped_, taken, consumers, notifyingAll>>

\* push() on a closed queue returns before it touches anything.
PushClosed(p) ==
  /\ p \notin notifying
  /\ closed_
  /\ UNCHANGED vars

\* cv_.notify_one(): any one waiter, or nobody when none waits.
NotifyOne(p) ==
  /\ p \in notifying
  /\ notifying' = notifying \ {p}
  /\ \/ cv_ = {} /\ UNCHANGED <<cv_, woken>>
     \/ \E c \in cv_ : cv_' = cv_ \ {c} /\ woken' = woken \cup {c}
  /\ UNCHANGED <<queue, ended, notifyingAll>>

-------------------------------------------------------------------------------
(* pop(), try_pop() *)

\* A variant that counts the other way.
TakeFrontCountsDown ==
  /\ q_ # <<>>
  /\ taken' = Head(q_)
  /\ q_' = Tail(q_)
  /\ popped_' = popped_ - 1
  /\ UNCHANGED <<closed_, pushed_, dropped_>>

\* The front frame leaves the queue.
TakeFront ==
  /\ q_ # <<>>
  /\ taken' = Head(q_)
  /\ q_' = Tail(q_)
  /\ popped_' = popped_ + 1
  /\ UNCHANGED <<closed_, pushed_, dropped_>>

CanRun(c) == c \in Consumers \ (cv_ \cup ended)

\* pop() evaluates its predicate, on entry or after a wake-up, and finds a frame.
PopFrame(c) ==
  /\ CanRun(c)
  /\ TakeFront
  /\ woken' = woken \ {c}
  /\ UNCHANGED <<cv_, ended, notifying, notifyingAll>>

\* ... finds the queue drained and closed: nullopt, and the caller's loop ends.
PopEnd(c) ==
  /\ CanRun(c)
  /\ q_ = <<>> /\ closed_
  /\ woken' = woken \ {c}
  /\ ended' = ended \cup {c}
  /\ UNCHANGED <<queue, cv_, notifying, notifyingAll>>

\* ... finds nothing: releases m_ and blocks, atomically.
PopWait(c) ==
  /\ CanRun(c)
  /\ q_ = <<>> /\ ~closed_
  /\ woken' = woken \ {c}
  /\ cv_' = cv_ \cup {c}
  /\ UNCHANGED <<queue, ended, notifying, notifyingAll>>

Pop(c) == PopFrame(c) \/ PopEnd(c) \/ PopWait(c)

\* try_pop() by a consumer that is not inside pop(); it changes nothing when
\* the queue is empty.
TryPop(c) ==
  /\ CanRun(c) /\ c \notin woken
  /\ TakeFront \/ (q_ = <<>> /\ UNCHANGED queue)
  /\ UNCHANGED <<consumers, notifying, notifyingAll>>

\* The wake-up without a notification that the standard allows.
SpuriousWake(c) ==
  /\ c \in cv_
  /\ cv_' = cv_ \ {c}
  /\ woken' = woken \cup {c}
  /\ UNCHANGED <<queue, ended, notifying, notifyingAll>>

-------------------------------------------------------------------------------
(* close(), which stop(), shutdown() and both destructors repeat *)

\* The closers that owe a notify_all() once k has closed; the variant forgets it.
OwingAllNever(k) == notifyingAll
OwingAll(k) == notifyingAll \cup {k}

Close(k) ==
  /\ k \notin notifyingAll
  /\ closed_' = TRUE
  /\ notifyingAll' = OwingAll(k)
  /\ UNCHANGED <<q_, pushed_, popped_, dropped_, taken, consumers, notifying>>

\* The variant calls notify_one() where the code calls notify_all().
NotifyAllAsOne(k) ==
  /\ k \in notifyingAll
  /\ notifyingAll' = notifyingAll \ {k}
  /\ \/ cv_ = {} /\ UNCHANGED <<cv_, woken>>
     \/ \E c \in cv_ : cv_' = cv_ \ {c} /\ woken' = woken \cup {c}
  /\ UNCHANGED <<queue, ended, notifying>>
NotifyAll(k) ==
  /\ k \in notifyingAll
  /\ notifyingAll' = notifyingAll \ {k}
  /\ woken' = woken \cup cv_
  /\ cv_' = {}
  /\ UNCHANGED <<queue, ended, notifying>>

-------------------------------------------------------------------------------
Next ==
  \/ \E p \in Producers : Push(p) \/ PushClosed(p) \/ NotifyOne(p)
  \/ \E c \in Consumers : Pop(c) \/ TryPop(c) \/ SpuriousWake(c)
  \/ \E k \in Closers : Close(k) \/ NotifyAll(k)

Spec == Init /\ [][Next]_vars

\* A thread that left a critical section goes on to its notification, and every
\* consumer calls pop() until it returns nullopt, as the feeder and the raw sink
\* do.  Nothing obliges a producer to push or a closer to close.
Fairness ==
  /\ \A p \in Producers : WF_vars(NotifyOne(p))
  /\ \A k \in Closers : WF_vars(NotifyAll(k))
  /\ \A c \in Consumers : WF_vars(Pop(c))

FairSpec == Spec /\ Fairness

-------------------------------------------------------------------------------
(* Properties *)

\* The queue holds exactly the newest frames, consecutive and in order, at most
\* Capacity of them, and every accepted frame is in the queue, popped or
\* counted as dropped: push() evicts only the front and counts what it evicts.
Window ==
  /\ Len(q_) = pushed_ - (popped_ + dropped_)
  /\ Len(q_) <= Capacity
  /\ \A i \in 1 .. Len(q_) : q_[i] = popped_ + dropped_ + i

\* The notify_one() calls still to come and the consumers already woken are
\* enough for the frames in the queue, so a frame never sits in an open queue
\* with a consumer asleep and nobody left to wake it.
WakeupsCoverFrames ==
  cv_ # {} /\ ~closed_ => Len(q_) <= Cardinality(notifying) + Cardinality(woken)

\* No lost wake-up: while a consumer sleeps in cv_.wait, a frame in the queue or
\* a close() implies that a notification is still on its way or that another
\* consumer is already awake to take the frame.
NoLostWakeup ==
  cv_ # {} =>
    /\ q_ # <<>> /\ ~closed_ => (notifying # {} \/ woken # {})
    /\ closed_ => notifyingAll # {}

\* A delivered frame is newer than every frame delivered before it and is among
\* the Capacity newest accepted ones, whichever thread takes it: the drop-oldest
\* policy bounds the age of what a slow consumer sees.
FreshInOrder ==
  [][popped_' # popped_ => (taken' > taken /\ taken' > pushed_ - Capacity)]_vars

\* Every accepted frame leaves the queue, popped or dropped, whatever the
\* interleaving of notifications and spurious wake-ups.
EveryFrameLeaves ==
  \A n \in 1 .. MaxPush : pushed_ >= n ~> popped_ + dropped_ >= n

\* close() ends every consumer: blocked ones wake, running ones drain what is
\* left, and all see nullopt.
CloseEndsConsumers == closed_ ~> ended = Consumers

\* The implementation of the abstract buffer.
Buffer == INSTANCE DropOldestBuffer
            WITH first <- popped_ + dropped_, last <- pushed_,
                 closed <- closed_, out <- taken

\* Every step of the threaded queue is a step of the abstract drop-oldest buffer
\* or leaves it alone.
ImplementsBuffer == Buffer!Spec
===============================================================================

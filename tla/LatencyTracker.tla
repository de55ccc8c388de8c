---------------------------- MODULE LatencyTracker ----------------------------
(***************************************************************************)
(* gstpipe::LatencyTracker (include/gstpipe/latency_tracker.hpp): a ring of*)
(* the latest window_ latency samples, written by the appsink callback and *)
(* summarised by the reporter thread.  Both operations run under one lock, *)
(* so add() is one step and snapshot() is a function of the state.         *)
(* Milliseconds are naturals.                                              *)
(***************************************************************************)
EXTENDS SortedValues

CONSTANTS Window,    \* window_
          Values,    \* the latencies that occur
          MaxAdds    \* bound: samples in a behaviour

ASSUME WindowAssumption == Window \in Nat \ {0} /\ Values \subseteq Nat
ASSUME AddsAssumption == MaxAdds \in Nat

VARIABLES samples_, cursor_, total_, sum_,
          hist       \* history: every sample ever added, in order

vars == <<samples_, cursor_, total_, sum_, hist>>

Init ==
  /\ samples_ = <<>> /\ cursor_ = 0 /\ total_ = 0 /\ sum_ = 0
  /\ hist = <<>>

\* The next cursor.
Advance == (cursor_ + 1) % Window

\* The slot (from 1) a full ring overwrites; the variant advances first.
OverwrittenAfterAdvance == Advance + 1
Overwritten == cursor_ + 1

Add(ms) ==
  /\ total_ < MaxAdds
  /\ samples_' = IF Len(samples_) < Window
                   THEN Append(samples_, ms)
                   ELSE [samples_ EXCEPT ![Overwritten] = ms]
  /\ cursor_' = Advance
  /\ total_' = total_ + 1
  /\ sum_' = sum_ + ms
  /\ hist' = Append(hist, ms)

Next == \E ms \in Values : Add(ms)

Spec == Init /\ [][Next]_vars

-------------------------------------------------------------------------------
(* snapshot() of a non-empty tracker; an empty one reports zeros *)

MinMs == Sorted(samples_)[1]
MaxMs == Sorted(samples_)[Len(samples_)]

\* mean_ms as a fraction: the sum and the number of samples it divides.
MeanMs == [sum |-> sum_, count |-> total_]

\* size * 0.95, truncated.  In double arithmetic the product is exact whenever
\* size is a multiple of 20, so truncation agrees with integer division.
\* The variant is the 90th percentile.
P90Index(size) == (size * 9) \div 10
P95Index(size) ==
  LET scaled == (size * 19) \div 20
  IN  IF scaled < size - 1 THEN scaled ELSE size - 1

P95Ms == Sorted(samples_)[P95Index(Len(samples_)) + 1]

-------------------------------------------------------------------------------
(* Properties *)

\* The ring holds exactly the latest Window samples: slot i holds the youngest
\* sample whose position is i modulo Window, through any number of turns.
RingHoldsLatest ==
  /\ Len(samples_) = IF total_ < Window THEN total_ ELSE Window
  /\ \A i \in 1 .. Len(samples_) :
       \E j \in 1 .. total_ :
         /\ j % Window = i % Window
         /\ total_ - j < Window
         /\ samples_[i] = hist[j]

\* A snapshot is about the latest Window samples, and about nothing older: the
\* extremes are theirs, and p95_ms is a 95th percentile of them (at most 5% are
\* above it and at least 5% at or above it, with ties and before the ring is full).
SnapshotExact ==
  samples_ # <<>> =>
    LET size   == Len(samples_)
        latest == SubSeq(hist, 1 + Len(hist) - size, Len(hist))
        above(v) == Cardinality({i \in 1 .. size : latest[i] > v})
        atOrAbove(v) == Cardinality({i \in 1 .. size : latest[i] >= v})
        p95    == P95Ms
    IN  /\ above(MaxMs) = 0 /\ atOrAbove(MaxMs) > 0
        /\ atOrAbove(MinMs) = size /\ above(MinMs) < size
        /\ 20 * above(p95) <= size /\ 20 * atOrAbove(p95) >= size

\* What the head of latency_tracker.hpp and the README say of the mean: it is rolling
\* too, the mean of the samples in the window.
MeanOfWindow ==
  samples_ # <<>> =>
    LET sum[i \in 0 .. Len(samples_)] == IF i = 0 THEN 0 ELSE sum[i - 1] + samples_[i]
    IN  MeanMs.sum * Len(samples_) = sum[Len(samples_)] * MeanMs.count
===============================================================================

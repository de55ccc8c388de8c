---------------------------- MODULE BenchmarkTrace ----------------------------
(***************************************************************************)
(* edge_ai::BenchmarkTrace and RollingStats (edge-ai-detector-tensorrt-    *)
(* ros2/include/edge_ai_detector/benchmark.hpp): the detector's worker     *)
(* records the times of every frame in one ring per stage and, while the   *)
(* file is good, in a row of a CSV file; the report timer prints a summary.*)
(* Both take one lock, so record() is one step and summary() a function of *)
(* the state.                                                              *)
(***************************************************************************)
EXTENDS SortedValues, FiniteSetsExt

CONSTANTS BenchWindow,  \* window of RollingStats (300)
          Frames,       \* the metrics that occur: functions on Stages
          MaxRecords    \* bound: frames recorded

Stages == {"capture", "preprocess", "inference", "postprocess", "end_to_end"}

ASSUME BenchAssumption == BenchWindow \in Nat \ {0} /\ Frames \subseteq [Stages -> Nat]

VARIABLES rings,     \* cap_, pre_, inf_, post_ and e2e_
          csv_,      \* closed, good, or failed for good
          rows,      \* rows in the file
          frames     \* history: every recorded frame, in order

benchVars == <<rings, csv_, rows, frames>>

EmptyRing == [buf |-> <<>>, cursor |-> 0, n |-> 0, sum |-> 0]

BenchInit ==
  /\ rings = [s \in Stages |-> EmptyRing]
  /\ csv_ = "closed" /\ rows = 0
  /\ frames = <<>>

-------------------------------------------------------------------------------
(* RollingStats *)

\* The slot (from 1) that a value goes to.  The variant keeps filling the first.
SlotStuck(r) == IF Len(r.buf) < BenchWindow THEN Len(r.buf) + 1 ELSE 1
Slot(r) == IF Len(r.buf) < BenchWindow THEN Len(r.buf) + 1 ELSE r.cursor + 1

RollingAdd(r, v) ==
  [buf    |-> [i \in DOMAIN r.buf \cup {Slot(r)} |-> IF i = Slot(r) THEN v ELSE r.buf[i]],
   cursor |-> (r.cursor + 1) % BenchWindow,
   n      |-> r.n + 1,
   sum    |-> r.sum + v]

\* v[min(size - 1, size * num/den)] of the sorted values; in double arithmetic the
\* truncated product agrees with integer division for these quantiles and sizes.
Quantile(r, num, den) ==
  LET size == Len(r.buf)
  IN  Sorted(r.buf)[Min({size - 1, (size * num) \div den}) + 1]

Snap(r) ==
  [n |-> r.n, mean |-> [sum |-> r.sum, count |-> r.n],
   p50 |-> Quantile(r, 1, 2), p90 |-> Quantile(r, 9, 10), p99 |-> Quantile(r, 99, 100),
   max |-> Quantile(r, 1, 1)]

-------------------------------------------------------------------------------
(* BenchmarkTrace *)

\* open(), which only the constructor of the node calls; it may fail.
BenchOpen ==
  /\ csv_ = "closed" /\ frames = <<>>
  /\ csv_' \in {"good", "failed"}
  /\ UNCHANGED <<rings, rows, frames>>

\* record(): a row that cannot be written ends the file, and nobody is told.
Record(m) ==
  /\ Len(frames) < MaxRecords
  /\ rings' = [s \in Stages |-> RollingAdd(rings[s], m[s])]
  /\ \/ csv_ = "good" /\ rows' = rows + 1 /\ UNCHANGED csv_
     \/ csv_ = "good" /\ csv_' = "failed" /\ UNCHANGED rows
     \/ csv_ # "good" /\ UNCHANGED <<csv_, rows>>
  /\ frames' = Append(frames, m)

BenchNext == BenchOpen \/ \E m \in Frames : Record(m)

BenchSpec == BenchInit /\ [][BenchNext]_benchVars

-------------------------------------------------------------------------------
(* Properties *)

\* The summary is about the same frames for every stage: the percentiles of a stage
\* are those of the latest BenchWindow frames (as many values above and at or above
\* as the quantile allows, also before the window is full and while its slots are
\* overwritten), n and the mean those of all frames.
SummaryExact ==
  frames # <<>> =>
    LET size   == Min({Len(frames), BenchWindow})
        latest == SubSeq(frames, 1 + Len(frames) - size, Len(frames))
        above(s, v)  == Cardinality({i \in 1 .. size : latest[i][s] > v})
        within(s, v) == Cardinality({i \in 1 .. size : latest[i][s] >= v})
        isQuantile(s, v, num, den) ==
          den * above(s, v) <= (den - num) * size /\ den * within(s, v) >= (den - num) * size
    IN  \A s \in Stages :
          LET snap == Snap(rings[s])
              sum[i \in 0 .. Len(frames)] == IF i = 0 THEN 0 ELSE sum[i - 1] + frames[i][s]
          IN  /\ snap.n = Len(frames)
              /\ snap.mean.sum = sum[Len(frames)]
              /\ isQuantile(s, snap.p50, 1, 2) /\ isQuantile(s, snap.p90, 9, 10)
              /\ isQuantile(s, snap.p99, 99, 100)
              /\ above(s, snap.max) = 0 /\ within(s, snap.max) > 0
===============================================================================

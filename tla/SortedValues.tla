----------------------------- MODULE SortedValues -----------------------------
(***************************************************************************)
(* What std::sort leaves in a vector of numbers, for the two classes that  *)
(* report percentiles: gstpipe::LatencyTracker (include/gstpipe/           *)
(* latency_tracker.hpp) and edge_ai::RollingStats (include/                *)
(* edge_ai_detector/benchmark.hpp) sort a copy of their ring and pick      *)
(* values by their position.                                               *)
(***************************************************************************)
EXTENDS Naturals, Sequences, FiniteSets

\* The positions of the values below v, and of those that are at most v.
Below(s, v) == {i \in 1 .. Len(s) : s[i] < v}
UpTo(s, v) == {i \in 1 .. Len(s) : s[i] <= v}

\* Position k has the value that fewer than k values are below and at least k values
\* do not exceed; equal values are interchangeable.
Sorted(s) ==
  [k \in 1 .. Len(s) |->
     CHOOSE v \in {s[i] : i \in 1 .. Len(s)} :
       Cardinality(Below(s, v)) < k /\ k <= Cardinality(UpTo(s, v))]
===============================================================================

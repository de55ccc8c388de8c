-------------------------- MODULE SocketCanPublisher --------------------------
(***************************************************************************)
(* edge_ai::SocketCanPublisher (edge-ai-detector-tensorrt-ros2/            *)
(* src/socketcan_publisher.cpp): one CAN frame per detection, numbered     *)
(* within its set, written one by one; a failed write cuts the set short.  *)
(* Of a CAN frame the model keeps the two bytes that number it; class,     *)
(* score and centre are not looked at again.                               *)
(***************************************************************************)
EXTENDS Naturals, Sequences

CONSTANTS Bytes,         \* values of a byte (256)
          MaxDetections  \* bound: detections of a frame

ASSUME BytesAssumption == Bytes \in Nat \ {0, 1} /\ MaxDetections \in Nat

VARIABLES can,    \* fd_ >= 0
          count,  \* dets.size() of this iteration
          wire,   \* history: the CAN frames written for it
          cut     \* a write of this set has failed

canVars == <<can, count, wire, cut>>

CanInit == can = FALSE /\ count = 0 /\ wire = <<>> /\ cut = FALSE

\* open(): succeeds, or closes its socket and fails.
CanOpen == can' \in BOOLEAN /\ UNCHANGED <<count, wire, cut>>

\* The destructor.
CanClose == can' = FALSE /\ UNCHANGED <<count, wire, cut>>

\* The length of a set.  The variant announces every detection.
TotalUncapped == count
Total == IF count < Bytes - 1 THEN count ELSE Bytes - 1

\* publish() has no frame left to write.  It returns as early for a frame without
\* pixels, which the caps of a sample cannot describe: such a set would be empty.
SetDone == ~can \/ cut \/ Len(wire) >= Total

\* One turn of the loop of publish(), with a write() that succeeds or fails.
CanWrite ==
  /\ ~SetDone
  /\ wire' = Append(wire, [index |-> Len(wire) % Bytes, total |-> Total % Bytes])
  /\ UNCHANGED <<can, count, cut>>

CanWriteFails == ~SetDone /\ cut' = TRUE /\ UNCHANGED <<can, count, wire>>

\* The detections of an iteration, and the end of their scope.
CanDetected(n) == count' = n /\ UNCHANGED <<can, wire, cut>>
CanForget == count' = 0 /\ wire' = <<>> /\ cut' = FALSE /\ UNCHANGED can
===============================================================================

----------------------------- MODULE MCFrameQueue -----------------------------
(* Model-checking instances of FrameQueue. *)
EXTENDS FrameQueue

CONSTANTS p1, p2, c1, c2, c3, k1, k2   \* model values: the threads
===============================================================================

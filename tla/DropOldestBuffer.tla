--------------------------- MODULE DropOldestBuffer ---------------------------
(***************************************************************************)
(* What FrameQueue promises its users, without threads, lock or condition  *)
(* variable: frames are numbered in the order they are accepted, the       *)
(* buffer is always the run of consecutive numbers first+1 .. last, it     *)
(* never holds more than Capacity of them, and only the oldest one ever    *)
(* leaves, either delivered or evicted by an arrival into a full buffer.   *)
(***************************************************************************)
EXTENDS Naturals

CONSTANT Capacity

VARIABLES first,    \* every frame up to this one has left the buffer
          last,     \* the newest accepted frame
          closed,   \* no frame is accepted any more
          out       \* the frame delivered last, 0 before the first one

vars == <<first, last, closed, out>>

Init == first = 0 /\ last = 0 /\ closed = FALSE /\ out = 0

\* A frame arrives; a full buffer evicts its oldest frame to make room.
Offer ==
  /\ ~closed
  /\ last' = last + 1
  /\ first' = IF last - first = Capacity THEN first + 1 ELSE first
  /\ UNCHANGED <<closed, out>>

\* The oldest frame is handed to a consumer.
Deliver ==
  /\ first < last
  /\ first' = first + 1
  /\ out' = first + 1
  /\ UNCHANGED <<last, closed>>

\* Arrivals end; what is buffered can still be delivered.
Close ==
  /\ closed' = TRUE
  /\ UNCHANGED <<first, last, out>>

Next == Offer \/ Deliver \/ Close

Spec == Init /\ [][Next]_vars
===============================================================================

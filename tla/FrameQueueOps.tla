---------------------------- MODULE FrameQueueOps ----------------------------
(***************************************************************************)
(* The calls of gstpipe::FrameQueue as the rest of the pipeline sees them: *)
(* a queue is a record of the buffered items and the closed flag, push()   *)
(* and close() are functions on it, and pop() is a step that is enabled    *)
(* when its wait predicate holds.  FrameQueue.tla shows that the threaded  *)
(* implementation behaves like this and that no blocked pop() is forgotten.*)
(***************************************************************************)
EXTENDS Naturals, Sequences

EmptyQueue == [items |-> <<>>, closed |-> FALSE]

\* push(): refused when closed; evicts the oldest item when full.
PushTo(queue, capacity, item) ==
  IF queue.closed
    THEN queue
    ELSE [queue EXCEPT !.items =
            Append(IF Len(@) >= capacity THEN Tail(@) ELSE @, item)]

CloseQueue(queue) == [queue EXCEPT !.closed = TRUE]

\* pop(): the predicate of cv_.wait, the item it returns and what is left.
CanPop(queue) == queue.items # <<>> \/ queue.closed
HasItem(queue) == queue.items # <<>>
FrontOf(queue) == Head(queue.items)
WithoutFront(queue) == [queue EXCEPT !.items = Tail(@)]
==============================================================================

--------------------------- MODULE PlxFrameQueue ---------------------------
(* What a ring of frame buffers promises its readers, with no pointers in  *)
(* it: a bounded queue of frames, announced in the order they were taken   *)
(* and delivered whole, once and in that order.  The promise ends with the *)
(* first trouble (an overrun, a misread pointer, a reset), after which     *)
(* nothing is said until the program is started again.                     *)
EXTENDS Integers, Sequences

CONSTANTS
  Capacity,  \* frames that may wait at a time
  Frames     \* the frame numbers, positive

VARIABLES
  queue,     \* frames announced and not yet delivered, the oldest first
  last,      \* the frame delivered last, 0 at first
  trusted    \* no trouble so far

Newest == IF queue = << >> THEN last ELSE queue[Len(queue)]

Init == queue = << >> /\ last = 0 /\ trusted = TRUE

Announce ==
  /\ trusted
  /\ Len(queue) < Capacity
  /\ \E f \in Frames : f > Newest /\ queue' = Append(queue, f)
  /\ UNCHANGED <<last, trusted>>

Deliver ==
  /\ trusted
  /\ queue # << >>
  /\ last' = Head(queue)
  /\ queue' = Tail(queue)
  /\ UNCHANGED trusted

Trouble ==
  /\ trusted
  /\ trusted' = FALSE
  /\ queue' = << >>
  /\ last' = 0

Next == Announce \/ Deliver \/ Trouble

Spec == Init /\ [][Next]_<<queue, last, trusted>>

=============================================================================

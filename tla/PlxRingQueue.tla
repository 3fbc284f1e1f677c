---------------------------- MODULE PlxRingQueue ----------------------------
(* The ring of PlxRing, seen by its readers: it implements the queue of    *)
(* PlxFrameQueue until NoTrouble ends.  rp and wp are the ends of the      *)
(* queue, a pointer in the middle of its wrap being taken for slot 0, and  *)
(* of the slots only those between them are seen.                          *)
EXTENDS PlxRing, Sequences

(* What lies between rp and wp.                                            *)
Announced == [k \in 1 .. Filled |-> FrameAt(k - 1)]

Queue == INSTANCE PlxFrameQueue WITH
  Capacity <- NO_OF_BUFFERS - 1,
  Frames   <- 1 .. MaxFrames,
  queue    <- IF NoTrouble THEN Announced ELSE << >>,
  last     <- IF NoTrouble THEN delivered ELSE 0,
  trusted  <- NoTrouble

(* plx_drv_read hands out what plx_dpc_for_isr announced, first come first *)
(* served and one at a time: no step of the interrupt side, of another     *)
(* reader or of a reader that gives up changes what waits, and a slot that *)
(* is announced holds a whole frame newer than all before it.              *)
ImplementsQueue == Queue!Spec

=============================================================================

---------------------------- MODULE MCPlxRing ----------------------------
(* PlxRing on small rings with one or two processes.                       *)
EXTENDS PlxRingQueue, TLC

CONSTANTS r1, r2

TwoReaders == {r1, r2}
OneReader == {r1}

(* The processes are interchangeable; used where no liveness is checked.   *)
ReaderSymmetry == Permutations(Readers)

===========================================================================

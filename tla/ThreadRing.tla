----------------------------- MODULE ThreadRing -----------------------------
(***************************************************************************)
(* The ring between a writer and a reader thread (pthreads/pthreads.c),    *)
(* with no lock: each thread steps its own pointer and looks at the        *)
(* other's.  Every load and every store of a shared variable is a step.    *)
(*                                                                         *)
(* Frames are numbered from 1; a slot that was never written holds 0.      *)
(***************************************************************************)
EXTENDS Integers, Sequences

CONSTANTS
  MAX,        \* slots of the ring (8)
  MaxWrites   \* bound: frames the writer writes

ASSUME ThreadAssumption == MAX \in Nat \ {0, 1} /\ MaxWrites \in Nat

VARIABLES
  arrays, wp, rp,  \* the ring and its pointers, each up to MAX for a moment
  wpos, rpos,      \* where the writer and the reader are
  written,         \* the number of the last frame written
  held,            \* what the reader has read and not stepped over
  received,        \* the frame it stepped over last
  raced            \* the reader found rp # wp in the middle of the wrap of wp

threadVars == <<arrays, wp, rp, wpos, rpos, written, held, received, raced>>

ThreadInit ==
  /\ arrays = [i \in 0 .. MAX - 1 |-> 0] /\ wp = 0 /\ rp = 0
  /\ wpos = "full?" /\ rpos = "wrap"
  /\ written = 0 /\ held = 0 /\ received = 0 /\ raced = FALSE

(* writer(): wp+1==rp || (wp+1==MAX && !rp) loads rp twice.                *)
CheckNext ==
  /\ wpos = "full?" /\ written < MaxWrites
  /\ wpos' = IF wp + 1 = rp THEN "full?" ELSE "wrapped?"
  /\ UNCHANGED <<arrays, wp, rp, rpos, written, held, received, raced>>

(* Mutant: the second half of the test is left out.                        *)
CheckNotWrapped ==
  /\ wpos = "wrapped?"
  /\ wpos' = "fill"
  /\ UNCHANGED <<arrays, wp, rp, rpos, written, held, received, raced>>

CheckWrapped ==
  /\ wpos = "wrapped?"
  /\ wpos' = IF wp + 1 = MAX /\ rp = 0 THEN "full?" ELSE "fill"
  /\ UNCHANGED <<arrays, wp, rp, rpos, written, held, received, raced>>

Fill ==
  /\ wpos = "fill" /\ wpos' = "step"
  /\ written' = written + 1
  /\ arrays' = [arrays EXCEPT ![wp] = written']
  /\ UNCHANGED <<wp, rp, rpos, held, received, raced>>

StepWp ==
  /\ wpos = "step" /\ wpos' = "turn"
  /\ wp' = wp + 1
  /\ UNCHANGED <<arrays, rp, rpos, written, held, received, raced>>

WrapWp ==
  /\ wpos = "turn" /\ wpos' = "full?"
  /\ wp' = IF wp = MAX THEN 0 ELSE wp
  /\ UNCHANGED <<arrays, rp, rpos, written, held, received, raced>>

Writer == CheckNext \/ CheckWrapped \/ Fill \/ StepWp \/ WrapWp

(* reader(): it wraps rp late, when it comes round again.                  *)
WrapRp ==
  /\ rpos = "wrap" /\ rpos' = "empty?"
  /\ rp' = IF rp = MAX THEN 0 ELSE rp
  /\ UNCHANGED <<arrays, wp, wpos, written, held, received, raced>>

(* The test takes a wp that is about to be wrapped for a slot of the ring. *)
CheckEmpty ==
  /\ rpos = "empty?"
  /\ rpos' = IF rp = wp THEN "wrap" ELSE "read"
  /\ raced' = (raced \/ (rp = 0 /\ wp = MAX))
  /\ UNCHANGED <<arrays, wp, rp, wpos, written, held, received>>

ReadFrame ==
  /\ rpos = "read" /\ rpos' = "next"
  /\ held' = arrays[rp]
  /\ UNCHANGED <<arrays, wp, rp, wpos, written, received, raced>>

StepRp ==
  /\ rpos = "next" /\ rpos' = "wrap"
  /\ rp' = rp + 1 /\ received' = held
  /\ UNCHANGED <<arrays, wp, wpos, written, held, raced>>

Reader == WrapRp \/ CheckEmpty \/ ReadFrame \/ StepRp

ThreadNext == Writer \/ Reader
ThreadSpec == ThreadInit /\ [][ThreadNext]_threadVars

-----------------------------------------------------------------------------
(* Properties.                                                             *)

ThreadTypeOK ==
  /\ arrays \in [0 .. MAX - 1 -> 0 .. MaxWrites] /\ wp \in 0 .. MAX /\ rp \in 0 .. MAX
  /\ wpos \in {"full?", "wrapped?", "fill", "step", "turn"}
  /\ rpos \in {"wrap", "empty?", "read", "next"}
  /\ {written, held, received} \subseteq 0 .. MaxWrites /\ raced \in BOOLEAN

(* What lies between the pointers; either may be one step before its wrap. *)
Between == ((wp % MAX) - (rp % MAX) + MAX) % MAX
Waiting == [k \in 1 .. Between |-> arrays[(rp + k - 1) % MAX]]

FrameQueue == INSTANCE PlxFrameQueue WITH
  Capacity <- MAX - 1,
  Frames   <- 1 .. MaxWrites,
  queue    <- IF raced THEN << >> ELSE Waiting,
  last     <- IF raced THEN 0 ELSE received,
  trusted  <- ~raced

(* Without a lock the two threads still implement the queue the driver's   *)
(* ring implements, each frame whole, once and in order, until the reader  *)
(* looks at wp in the middle of its wrap.                                  *)
ThreadsImplementQueue == FrameQueue!Spec

=============================================================================

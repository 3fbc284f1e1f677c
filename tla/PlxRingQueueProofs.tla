------------------------- MODULE PlxRingQueueProofs -------------------------
(* The ring implements the queue of PlxFrameQueue, for every ring size,    *)
(* every set of processes and every number of frames.                      *)
EXTENDS PlxRingQueue, PlxRingOrderProofs, SequenceTheorems

USE BuffersAssumption, BoundsAssumption

-----------------------------------------------------------------------------
(* Sequences: what makes one the Append, the Tail of another.              *)
LEMMA IsAppend ==
  ASSUME NEW S, NEW s \in Seq(S), NEW t \in Seq(S), Len(t) = Len(s) + 1,
         \A i \in 1 .. Len(s) : t[i] = s[i]
  PROVE  t = Append(s, t[Len(t)])
<1>1. /\ Len(s) \in Nat /\ t[Len(t)] \in S /\ Append(s, t[Len(t)]) \in Seq(S)
      /\ Len(Append(s, t[Len(t)])) = Len(s) + 1
  BY LenProperties
<1>2. \A i \in 1 .. Len(t) : t[i] = Append(s, t[Len(t)])[i]
  BY <1>1
<1>3. QED
  BY <1>1, <1>2, SeqEqual

LEMMA IsTail ==
  ASSUME NEW S, NEW s \in Seq(S), NEW t \in Seq(S), Len(s) = Len(t) + 1,
         \A i \in 1 .. Len(t) : t[i] = s[i + 1]
  PROVE  s # << >> /\ Head(s) = s[1] /\ t = Tail(s)
<1>1. s # << >> /\ Len(t) \in Nat
  BY LenProperties
<1>2. /\ Head(s) = s[1] /\ Tail(s) \in Seq(S) /\ Len(Tail(s)) = Len(t)
      /\ \A i \in 1 .. Len(t) : Tail(s)[i] = s[i + 1]
  BY <1>1, HeadTailProperties
<1>3. QED
  BY <1>1, <1>2, SeqEqual

-----------------------------------------------------------------------------
(* No buffer holds a number the detector never produced.                   *)
FramesBounded ==
  /\ produced \in 0 .. MaxFrames /\ dma.frame \in 0 .. MaxFrames
  /\ frames \in [Slots -> 0 .. MaxFrames]

LEMMA FramesStayBounded == Spec => []FramesBounded
<1>1. Init => FramesBounded
  BY DEF Init, FramesBounded, Idle, Torn
<1>2. TypeOK /\ FramesBounded /\ [Next]_vars => FramesBounded'
  <2> SUFFICES ASSUME TypeOK, FramesBounded, [Next]_vars PROVE FramesBounded'
    OBVIOUS
  <2>1. CASE FrameArrives \/ FrameMissed
    BY <2>1 DEF FrameArrives, FrameMissed, FramesBounded, dmaVars
  <2>2. CASE DmaCompletes
    BY <2>2 DEF DmaCompletes, Idle, Torn, FramesBounded, boardVars, TypeOK
  <2>3. CASE IsrRingFull \/ IsrFrame
    BY <2>3 DEF IsrRingFull, IsrFrame, ServeLocal, TransferBlock, Torn, FramesBounded, TypeOK
  <2>4. CASE IsrDmaDone \/ Dpc \/ Reset \/ UNCHANGED vars
    BY <2>4 DEF IsrDmaDone, Dpc, DpcStart, DpcAck, DpcPublish, DpcWrapAndWake, DpcEnable, Reset,
       ResetIp, ResetRp, ResetWp, vars, boardVars, dmaVars, FramesBounded
  <2>5. ASSUME NEW r \in Readers, Reader(r) PROVE UNCHANGED <<produced, dma, frames>>
    BY <2>5 DEF Reader, Running, Call, Down, Interrupted, FoundEmpty, FoundFrame, TestCondition,
       Copy, ReachedIp, NotReachedIp, Advance, WrapRp, Up, unreadVars, boardVars, dmaVars
  <2>6. QED
    BY <2>1, <2>2, <2>3, <2>4, <2>5 DEF Next, Isr, FramesBounded
<1>3. QED
  BY <1>1, <1>2, TypeCorrect, PTL DEF Spec

-----------------------------------------------------------------------------
QueueInv == FramesInv /\ FramesBounded

(* What waits is a sequence of frame numbers.                              *)
LEMMA AnnouncedIsSeq ==
  ASSUME QueueInv, NoTrouble
  PROVE  /\ Announced \in Seq(Nat) /\ Len(Announced) = Filled
         /\ Filled \in 0 .. NO_OF_BUFFERS - 1
         /\ \A k \in 1 .. Filled : Announced[k] = FrameAt(k - 1)
         /\ Announced = << >> <=> Filled = 0
<1>1. Filled \in 0 .. NO_OF_BUFFERS - 1 /\ Filled \in Nat
  BY PointersFacts DEF QueueInv, FramesInv
<1>2. \A k \in 1 .. Filled : FrameAt(k - 1) \in Nat
  <2> SUFFICES ASSUME NEW k \in 1 .. Filled PROVE FrameAt(k - 1) \in Nat
    OBVIOUS
  <2>1. k - 1 \in -1 .. NO_OF_BUFFERS - 1
    BY <1>1
  <2>2. QED
    BY <2>1, FrameIsNat DEF QueueInv, FramesInv, PointersInv
<1>3. Announced \in Seq(Nat) /\ Len(Announced) = Filled
  BY <1>1, <1>2 DEF Announced
<1>4. QED
  BY <1>1, <1>3, EmptySeq DEF Announced

LEMMA AnnouncedIsSeqNext ==
  ASSUME QueueInv', NoTrouble'
  PROVE  /\ Announced' \in Seq(Nat) /\ Len(Announced') = Filled'
         /\ Filled' \in 0 .. NO_OF_BUFFERS - 1
         /\ \A k \in 1 .. Filled' : Announced'[k] = FrameAt(k - 1)'
<1>1. Filled' \in 0 .. NO_OF_BUFFERS - 1 /\ Filled' \in Nat
  <2>1. WrappedRp' \in Slots /\ WrappedWp' \in Slots
    <3>1. rp' \in 0 .. NO_OF_BUFFERS /\ wp' \in 0 .. NO_OF_BUFFERS
      BY DEF QueueInv, FramesInv, PointersInv, TypeOK
    <3> QED BY <3>1, BuffersAssumption DEF WrappedRp, WrappedWp, Slots
  <2>2. QED
    BY <2>1, DistanceRange DEF Filled
<1>2. \A k \in 1 .. Filled' : FrameAt(k - 1)' \in Nat
  <2>1. TypeOK'
    BY DEF QueueInv, FramesInv, PointersInv
  <2>2. \A j \in 0 .. NO_OF_BUFFERS - 1 : SlotAt(j)' \in Slots
    <3>1. WrappedRp' \in 0 .. NO_OF_BUFFERS - 1
      BY <2>1 DEF TypeOK, WrappedRp
    <3>2. \A j : SlotAt(j)' = IF WrappedRp' + j < NO_OF_BUFFERS THEN WrappedRp' + j
                              ELSE WrappedRp' + j - NO_OF_BUFFERS
      BY DEF SlotAt
    <3>3. QED
      BY <3>1, <3>2 DEF Slots
  <2>3. \A j \in 0 .. NO_OF_BUFFERS - 1 : FrameAt(j)' \in Nat
    BY <2>1, <2>2 DEF FrameAt, TypeOK
  <2>4. \A k \in 1 .. Filled' : k - 1 \in 0 .. NO_OF_BUFFERS - 1
    BY <1>1
  <2>5. QED
    BY <2>3, <2>4
<1>3. Announced' = [k \in 1 .. Filled' |-> FrameAt(k - 1)']
  BY DEF Announced
<1>4. QED
  BY <1>1, <1>2, <1>3

(* The steps that only move what lies outside rp .. wp.                    *)
LEMMA QueueKept ==
  ASSUME QueueInv, QueueInv', NoTrouble, NoTrouble', UNCHANGED <<WrappedRp, WrappedWp, delivered>>,
         \A k \in 0 .. Filled - 1 : frames'[SlotAt(k)] = frames[SlotAt(k)]
  PROVE  UNCHANGED <<Announced, delivered, NoTrouble>>
<1>1. Filled' = Filled /\ Filled \in 0 .. NO_OF_BUFFERS - 1
  BY AnnouncedIsSeq DEF Filled
<1>2. \A k \in 1 .. Filled : FrameAt(k - 1)' = FrameAt(k - 1)
  <2> SUFFICES ASSUME NEW k \in 1 .. Filled PROVE FrameAt(k - 1)' = FrameAt(k - 1)
    OBVIOUS
  <2>1. k - 1 \in 0 .. Filled - 1 /\ SlotAt(k - 1)' = SlotAt(k - 1)
    BY <1>1 DEF SlotAt
  <2>2. QED
    BY <2>1, <1>1 DEF FrameAt
<1>3. QED
  BY <1>1, <1>2 DEF Announced

LEMMA QueueDeliver ==
  ASSUME QueueInv, QueueInv', NoTrouble, NoTrouble', NEW r \in Readers, Advance(r)
  PROVE  Queue!Deliver
<1>1. /\ WrappedRp' = Succ(rp) /\ WrappedRp = rp /\ rp \in Slots
      /\ delivered' = copied /\ pc[r] = "advance" /\ UNCHANGED <<WrappedWp, frames>>
  BY StepOfRp DEF Advance, Goto, unreadVars, dmaVars, QueueInv, FramesInv, PointersInv, WrappedWp
<1>2. Filled > 0 /\ copied = frames[rp] /\ Filled \in 0 .. NO_OF_BUFFERS - 1
  BY <1>1, PointersFacts, FramesFacts DEF QueueInv, FramesInv
<1>3. Filled' = Filled - 1
  <2>1. WrappedWp \in Slots /\ rp # WrappedWp
    BY <1>1, <1>2, WrappedInSlots, PointersFacts DEF QueueInv, FramesInv, PointersInv
  <2>2. QED
    BY <2>1, <1>1, DistanceShrinks DEF Filled
<1>4. \A k \in 0 .. Filled - 2 : FrameAt(k)' = FrameAt(k + 1)
  <2>1. \A k \in 0 .. NO_OF_BUFFERS - 2 : SlotAt(k)' = SlotAt(k + 1)
    BY <1>1 DEF SlotAt, Slots, Succ
  <2>2. QED
    BY <1>1, <1>2, <2>1 DEF FrameAt
<1>5. \A i \in 1 .. Len(Announced') : Announced'[i] = Announced[i + 1]
  <2> SUFFICES ASSUME NEW i \in 1 .. Filled' PROVE Announced'[i] = Announced[i + 1]
    BY AnnouncedIsSeqNext
  <2>1. i - 1 \in 0 .. Filled - 2 /\ i \in 1 .. Filled' /\ i + 1 \in 1 .. Filled
    BY <1>2, <1>3
  <2>2. Announced'[i] = FrameAt(i - 1)' /\ Announced[i + 1] = FrameAt((i + 1) - 1)
    BY <2>1, AnnouncedIsSeq, AnnouncedIsSeqNext
  <2>3. (i - 1) + 1 = (i + 1) - 1
    BY <2>1
  <2>4. QED
    BY <2>1, <2>2, <2>3, <1>4
<1>6. Announced # << >> /\ Head(Announced) = Announced[1] /\ Announced' = Tail(Announced)
  <2>1. Announced \in Seq(Nat) /\ Announced' \in Seq(Nat) /\ Len(Announced) = Len(Announced') + 1
    BY <1>2, <1>3, AnnouncedIsSeq, AnnouncedIsSeqNext
  <2>2. QED
    BY <2>1, <1>5, IsTail
<1>7. Announced[1] = delivered'
  <2>1. SlotAt(0) = rp
    BY <1>1 DEF SlotAt, Slots
  <2>2. Announced[1] = FrameAt(0)
    BY <1>2, AnnouncedIsSeq
  <2>3. QED
    BY <1>1, <1>2, <2>1, <2>2 DEF FrameAt
<1>8. QED
  BY <1>6, <1>7 DEF Queue!Deliver

LEMMA QueueAnnounce ==
  ASSUME QueueInv, QueueInv', NoTrouble, NoTrouble', DpcPublish
  PROVE  Queue!Announce
<1>1. /\ wp \in Slots /\ WrappedWp = wp /\ ip \in Slots /\ WrappedRp \in Slots
      /\ dpcPc = "publish" /\ UNCHANGED <<WrappedRp, ip, frames, delivered, dma, dmaInt>>
  BY WrappedInSlots DEF DpcPublish, QueueInv, FramesInv, PointersInv, TypeOK, WrappedRp, WrappedWp, Slots, dmaVars, readVars
<1>2. /\ Filled \in 0 .. Taken - 1 /\ Taken \in 0 .. NO_OF_BUFFERS - 1
      /\ dma.busy => Filled \in 0 .. Taken - 2
  <2>1. UnderWay(dma.busy) + UnderWay(dmaInt) + 1 <= Unpublished
    BY <1>1, PointersFacts DEF QueueInv, FramesInv, UnderWay
  <2>2. UnderWay(dma.busy) \in 0 .. 1 /\ UnderWay(dmaInt) \in 0 .. 1
        /\ (dma.busy => UnderWay(dma.busy) = 1)
    BY DEF UnderWay
  <2>3. QED
    BY <2>1, <2>2, PointersFacts DEF QueueInv, FramesInv, Taken
<1>3. Filled' = Filled + 1
  <2>1. counted' = counted /\ wp' = wp + 1
    BY PointersPublish DEF DpcPublish, QueueInv, FramesInv
  <2>2. PointersInOrder' /\ WrappedWp' = Succ(wp)
    BY <1>1, <2>1 DEF QueueInv, FramesInv, PointersInv, WrappedRp, WrappedWp, Succ, Slots
  <2>3. Succ(wp) # WrappedRp
    BY <1>1, <2>1, ReachesIsSucc DEF DpcPublish, QueueInv, FramesInv, PointersInv
  <2>4. QED
    BY <1>1, <2>2, <2>3, DistanceGrows DEF Filled
<1>4. \A k \in -1 .. NO_OF_BUFFERS : FrameAt(k)' = FrameAt(k)
  BY <1>1 DEF FrameAt, SlotAt
<1>5. FrameAt(Filled) > FrameAt(Filled - 1)
  BY <1>2, FramesFacts DEF QueueInv
<1>6. \A i \in 1 .. Len(Announced) : Announced'[i] = Announced[i]
  <2> SUFFICES ASSUME NEW i \in 1 .. Filled PROVE Announced'[i] = Announced[i]
    BY AnnouncedIsSeq
  <2>1. i \in 1 .. Filled' /\ i - 1 \in -1 .. NO_OF_BUFFERS
    BY <1>2, <1>3
  <2>2. QED
    BY <2>1, <1>4, AnnouncedIsSeq, AnnouncedIsSeqNext
<1> DEFINE f == FrameAt(Filled)
<1>7. Len(Announced') = Len(Announced) + 1 /\ Announced'[Len(Announced')] = f
  <2>1. \A n : n = Filled + 1 => n \in 1 .. Filled' /\ n - 1 = Filled /\ Filled \in -1 .. NO_OF_BUFFERS
    BY <1>2, <1>3
  <2>2. \A n : n = Filled + 1 => Announced'[n] = f
    BY <1>4, <2>1, AnnouncedIsSeqNext
  <2>3. QED
    BY <1>3, <2>2, AnnouncedIsSeq, AnnouncedIsSeqNext
<1>8. Announced' = Append(Announced, f)
  BY <1>6, <1>7, AnnouncedIsSeq, AnnouncedIsSeqNext, IsAppend
<1>9. f > (IF Announced = << >> THEN delivered ELSE Announced[Len(Announced)])
  <2>1. CASE Filled = 0
    BY <2>1, <1>5, AnnouncedIsSeq DEF FrameAt
  <2>2. CASE Filled # 0
    <3>1. Filled \in 1 .. Filled
      BY <2>2, <1>2
    <3>2. Announced[Filled] = FrameAt(Filled - 1)
      BY <3>1, AnnouncedIsSeq
    <3>3. QED
      BY <2>2, <3>2, <1>5, AnnouncedIsSeq
  <2>3. QED
    BY <2>1, <2>2
<1>10. f \in 1 .. MaxFrames
  <2>1. Filled \in 0 .. NO_OF_BUFFERS - 1 /\ Filled - 1 \in -1 .. NO_OF_BUFFERS - 1
    BY <1>2
  <2>2. SlotAt(Filled) \in Slots /\ FrameAt(Filled - 1) \in Nat
    BY <2>1, SlotInSlots, FrameIsNat DEF QueueInv, FramesInv, PointersInv
  <2>3. f = frames[SlotAt(Filled)]
    BY <2>1 DEF FrameAt
  <2>4. f \in 0 .. MaxFrames
    BY <2>2, <2>3 DEF QueueInv, FramesBounded
  <2>5. QED
    BY <2>2, <2>4, <1>5
<1>11. Len(Announced) < NO_OF_BUFFERS - 1
  BY <1>2, AnnouncedIsSeq
<1>12. QED
  BY <1>1, <1>8, <1>9, <1>10, <1>11 DEF Queue!Announce, Queue!Newest

(* Every step while all is well.                                           *)
LEMMA QueueStep ==
  ASSUME QueueInv, QueueInv', NoTrouble, NoTrouble', [Next]_vars
  PROVE  Queue!Announce \/ Queue!Deliver \/ UNCHANGED <<Announced, delivered, NoTrouble>>
<1>1. CASE DpcPublish
  BY <1>1, QueueAnnounce
<1>2. ASSUME NEW r \in Readers, Advance(r) PROVE Queue!Deliver
  BY <1>2, QueueDeliver
<1>3. CASE DmaCompletes
  <2>1. /\ frames' = [frames EXCEPT ![dma.slot] = dma.frame] /\ dma.busy
        /\ UNCHANGED <<WrappedRp, WrappedWp, delivered>> /\ frames \in [Slots -> Nat]
    BY <1>3 DEF DmaCompletes, readVars, WrappedRp, WrappedWp, QueueInv, FramesInv, PointersInv, TypeOK
  <2>2. \A k \in 0 .. Filled - 1 : SlotAt(k) # dma.slot /\ SlotAt(k) \in Slots
    BY <2>1, FilledIsApart, SlotInSlots, AnnouncedIsSeq DEF QueueInv, FramesInv, PointersInv
  <2>3. QED
    BY <2>1, <2>2, QueueKept
<1>4. CASE IsrFrame
  <2>1. /\ frames' = [i \in Slots |-> IF i = ip THEN Torn
                                     ELSE IF dma.busy /\ i = dma.slot THEN dma.frame
                                     ELSE frames[i]]
        /\ UNCHANGED <<WrappedRp, WrappedWp, delivered>> /\ ip \in Slots /\ Succ(ip) # WrappedRp
    BY <1>4, ReachesIsSucc DEF IsrFrame, ServeLocal, TransferBlock, LocalTrouble, NoTrouble,
       readVars, WrappedRp, WrappedWp, QueueInv, FramesInv, PointersInv, TypeOK
  <2>2. \A k \in 0 .. Filled - 1 :
          SlotAt(k) \in Slots /\ SlotAt(k) # ip /\ (dma.busy => SlotAt(k) # dma.slot)
    BY FilledIsApart, SlotInSlots, AnnouncedIsSeq, FilledIsBelowIp
       DEF QueueInv, FramesInv, PointersInv
  <2>3. QED
    BY <2>1, <2>2, QueueKept
<1>5. CASE IsrRingFull \/ Reset
  <2>1. resetPc = "idle"
    BY PointersFacts DEF QueueInv, FramesInv
  <2>2. QED
    BY <1>5, <2>1 DEF IsrRingFull, Reset, ResetIp, ResetRp, ResetWp, NoTrouble
<1>6. CASE FrameArrives \/ FrameMissed \/ IsrDmaDone \/ DpcStart \/ DpcAck \/ DpcEnable
           \/ UNCHANGED vars
  <2>1. UNCHANGED <<WrappedRp, WrappedWp, delivered, frames>>
    BY <1>6 DEF FrameArrives, FrameMissed, IsrDmaDone, DpcStart, DpcAck, DpcEnable, vars, dmaVars,
       readVars, WrappedRp, WrappedWp
  <2>2. QED
    BY <2>1, QueueKept
<1>7. CASE DpcWrapAndWake
  <2>1. UNCHANGED <<WrappedRp, delivered, frames>> /\ WrappedWp' = WrappedWp
    BY <1>7 DEF DpcWrapAndWake, dmaVars, WrappedRp, WrappedWp, QueueInv, FramesInv, PointersInv, TypeOK
  <2>2. QED
    BY <2>1, QueueKept
<1>8. ASSUME NEW r \in Readers, WrapRp(r)
      PROVE  UNCHANGED <<Announced, delivered, NoTrouble>>
  <2>1. UNCHANGED <<WrappedRp, WrappedWp, delivered, frames>>
    BY <1>8, WrapOfRp DEF QueueInv, FramesInv, PointersInv
  <2>2. QED
    BY <2>1, QueueKept
<1>9. ASSUME NEW r \in Readers, Reader(r), ~Advance(r), ~WrapRp(r)
      PROVE  UNCHANGED <<Announced, delivered, NoTrouble>>
  <2>1. UNCHANGED <<WrappedRp, WrappedWp, delivered, frames>>
    BY <1>9 DEF Reader, Running, Call, Down, Interrupted, FoundEmpty, FoundFrame, TestCondition,
       Copy, ReachedIp, NotReachedIp, Up, unreadVars, dmaVars, WrappedRp, WrappedWp
  <2>2. QED
    BY <2>1, QueueKept
<1>10. QED
  BY <1>1, <1>2, <1>3, <1>4, <1>5, <1>6, <1>7, <1>8, <1>9 DEF Next, Isr, Dpc

-----------------------------------------------------------------------------
(* The ring is a queue until something went wrong.                         *)
THEOREM RingImplementsQueue == Spec => ImplementsQueue
<1>1. Init => Queue!Init
  <2> SUFFICES ASSUME Init PROVE Queue!Init
    OBVIOUS
  <2>1. rp = 0 /\ wp = 0 /\ delivered = 0 /\ NoTrouble
    BY DEF Init, NoTrouble
  <2>2. Filled = 0
    BY <2>1 DEF Filled, Distance, WrappedRp, WrappedWp
  <2>3. Announced = << >>
    BY <2>2 DEF Announced
  <2>4. QED
    BY <2>1, <2>3 DEF Queue!Init
<1>2. QueueInv /\ QueueInv' /\ [Next]_vars =>
        [Queue!Next]_<<IF NoTrouble THEN Announced ELSE << >>,
                       IF NoTrouble THEN delivered ELSE 0, NoTrouble>>
  <2> SUFFICES ASSUME QueueInv, QueueInv', [Next]_vars
               PROVE  [Queue!Next]_<<IF NoTrouble THEN Announced ELSE << >>,
                                     IF NoTrouble THEN delivered ELSE 0, NoTrouble>>
    OBVIOUS
  <2>1. CASE NoTrouble /\ NoTrouble'
    BY <2>1, QueueStep DEF Queue!Next
  <2>2. CASE NoTrouble /\ ~NoTrouble'
    <3>1. /\ NoTrouble /\ NoTrouble' = FALSE
          /\ (IF NoTrouble THEN Announced ELSE << >>)' = << >>
          /\ (IF NoTrouble THEN delivered ELSE 0)' = 0
      BY <2>2
    <3>2. Queue!Trouble
      BY <3>1 DEF Queue!Trouble
    <3>3. QED
      BY <3>2 DEF Queue!Next
  <2>3. CASE ~NoTrouble
    <3>1. ~NoTrouble'
      BY <2>3, TroubleStays DEF QueueInv, FramesInv, PointersInv
    <3>2. /\ (IF NoTrouble THEN Announced ELSE << >>)' = IF NoTrouble THEN Announced ELSE << >>
          /\ (IF NoTrouble THEN delivered ELSE 0)' = IF NoTrouble THEN delivered ELSE 0
      BY <2>3, <3>1
    <3>3. NoTrouble' = NoTrouble
      BY <2>3, <3>1 DEF NoTrouble
    <3>4. QED
      BY <3>2, <3>3
  <2>4. QED
    BY <2>1, <2>2, <2>3
<1>3. Spec => []QueueInv
  BY TypeCorrect, MutualExclusion, ChipOwned, PointersStayInOrder, FramesStayInOrder,
     FramesStayBounded, PTL DEF QueueInv, FramesInv, PointersInv
<1>4. QED
  BY <1>1, <1>2, <1>3, PTL DEF Spec, ImplementsQueue, Queue!Spec

=============================================================================

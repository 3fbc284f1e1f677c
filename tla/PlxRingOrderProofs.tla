------------------------- MODULE PlxRingOrderProofs -------------------------
(* The pointers and the frames of PlxRing stay in order, for every ring    *)
(* size, every set of processes and every number of frames.                *)
EXTENDS PlxRingProofs

USE BuffersAssumption

(* Trouble once counted is not forgotten.                                  *)
LEMMA TroubleStays ==
  ASSUME TypeOK, [Next]_vars, NoTrouble'
  PROVE  NoTrouble
<1>1. resets' = 0 => resets = 0
  BY DEF TypeOK, Next, FrameArrives, FrameMissed, DmaCompletes, Isr, IsrRingFull, IsrFrame,
         IsrDmaDone, Dpc, DpcStart, DpcAck, DpcPublish, DpcWrapAndWake, DpcEnable,
         Reset, ResetIp, ResetRp, ResetWp, Reader, Running, Call, Down, Interrupted,
         FoundEmpty, FoundFrame, TestCondition, Copy, ReachedIp, NotReachedIp, Advance,
         WrapRp, Up,
         unreadVars, vars, resetVars
<1>2. \A c : c \in counted => c \in counted'
  BY DEF Next, FrameArrives, FrameMissed, DmaCompletes, Isr, IsrRingFull, IsrFrame,
         IsrDmaDone, Dpc, DpcStart, DpcAck, DpcPublish, DpcWrapAndWake, DpcEnable,
         Reset, ResetIp, ResetRp, ResetWp, Reader, Running, Call, Down, Interrupted,
         FoundEmpty, FoundFrame, TestCondition, Copy, ReachedIp, NotReachedIp, Advance,
         WrapRp, Up,
         unreadVars, vars
<1>3. wrapRace => wrapRace'
  BY DEF Next, FrameArrives, FrameMissed, DmaCompletes, Isr, IsrRingFull, IsrFrame,
         IsrDmaDone, Dpc, DpcStart, DpcAck, DpcPublish, DpcWrapAndWake, DpcEnable,
         Reset, ResetIp, ResetRp, ResetWp, Reader, Running, Call, Down, Interrupted,
         FoundEmpty, FoundFrame, TestCondition, Copy, ReachedIp, NotReachedIp, Advance,
         WrapRp, Up,
         unreadVars, vars, readVars
<1>4. QED
  BY <1>1, <1>2, <1>3 DEF NoTrouble

(* Distances are less than a round, and nothing is behind a slot itself.   *)
LEMMA DistanceRange ==
  ASSUME NEW a \in Slots, NEW b \in Slots
  PROVE  Distance(a, b) \in 0 .. NO_OF_BUFFERS - 1 /\ (Distance(a, b) = 0 <=> a = b)
  BY DEF Distance, Slots

(* The far end steps on.                                                   *)
LEMMA DistanceGrows ==
  ASSUME NEW a \in Slots, NEW b \in Slots, Succ(b) # a
  PROVE  Distance(a, Succ(b)) = Distance(a, b) + 1
  BY DEF Distance, Slots, Succ

(* The near end steps on.                                                  *)
LEMMA DistanceShrinks ==
  ASSUME NEW a \in Slots, NEW b \in Slots, a # b
  PROVE  Distance(Succ(a), b) = Distance(a, b) - 1
  BY DEF Distance, Slots, Succ

(* Two stretches that make less than a round make the whole.               *)
LEMMA DistanceAdds ==
  ASSUME NEW a \in Slots, NEW b \in Slots, NEW c \in Slots,
         Distance(a, b) + Distance(b, c) < NO_OF_BUFFERS
  PROVE  Distance(a, b) + Distance(b, c) = Distance(a, c)
  BY DEF Distance, Slots

(* rp and wp are taken for the slot they are about to wrap to; a process   *)
(* that reads, which has the semaphore, finds rp wrapped.                  *)
LEMMA WrappedInSlots ==
  ASSUME TypeOK PROVE WrappedRp \in Slots /\ WrappedWp \in Slots
  BY DEF TypeOK, WrappedRp, WrappedWp, Slots

LEMMA ReaderFindsWrapped ==
  ASSUME TypeOK, ReadersExclude, NEW r \in Readers, pc[r] \in Holding \ {"wrap"}
  PROVE  rp \in Slots /\ WrappedRp = rp
  BY RpInRing DEF WrappedRp, Slots

(* Between its increment and its wrap rp is still in one process's hands.  *)
LEMMA StepOfRp ==
  ASSUME TypeOK, ReadersExclude, NEW r \in Readers, Advance(r)
  PROVE  rp \in Slots /\ WrappedRp = rp /\ WrappedRp' = Succ(rp)
<1>1. rp \in Slots /\ WrappedRp = rp
  BY ReaderFindsWrapped DEF Advance, Goto, Holding
<1>2. rp' = rp + 1
  BY DEF Advance
<1>3. QED
  BY <1>1, <1>2 DEF WrappedRp, Succ, Slots

LEMMA WrapOfRp ==
  ASSUME TypeOK, ReadersExclude, NEW r \in Readers, WrapRp(r)
  PROVE  /\ UNCHANGED <<WrappedRp, WrappedWp, frames, delivered, copied, unreadVars, counted>>
         /\ \A s \in Readers : pc'[s] \notin {"copy", "verify", "advance"}
         /\ \A s \in Readers : pc'[s] = "asleep" => pc[s] = "asleep"
<1>1. UNCHANGED <<WrappedRp, WrappedWp, frames, delivered, copied, unreadVars, counted>>
  BY DEF WrapRp, WrappedRp, WrappedWp, unreadVars, dmaVars
<1>2. pc[r] = "wrap" /\ pc' = [pc EXCEPT ![r] = "up"]
  BY DEF WrapRp, Goto
<1>3. QED
  BY <1>1, <1>2 DEF ReadersExclude, Holding, TypeOK

LEMMA ReachesIsSucc ==
  ASSUME TypeOK, NEW p \in Slots
  PROVE  ReachesReader(p) <=> Succ(p) = WrappedRp
  BY DEF TypeOK, ReachesReader, Succ, Slots, WrappedRp

-----------------------------------------------------------------------------
PointersInv == TypeOK /\ ReadersExclude /\ DpcOwnsChip /\ PointersInOrder

(* The facts PointersInOrder is about, for a state without trouble.        *)
LEMMA PointersFacts ==
  ASSUME PointersInv, NoTrouble
  PROVE  /\ resetPc = "idle"
         /\ Filled \in 0 .. NO_OF_BUFFERS - 1 /\ Unpublished \in 0 .. NO_OF_BUFFERS - 1
         /\ Filled + Unpublished < NO_OF_BUFFERS
         /\ Filled + Unpublished = Distance(WrappedRp, ip)
         /\ Filled = 0 <=> WrappedRp = WrappedWp
         /\ UnderWay(dma.busy) + UnderWay(dmaInt) + UnderWay(dpcPc = "publish") <= Unpublished
         /\ dpcPc = "ack" => dmaInt
         /\ \A r \in Readers : pc[r] \in {"copy", "verify", "advance"} => Filled > 0
<1>1. WrappedRp \in Slots /\ WrappedWp \in Slots /\ ip \in Slots
  BY WrappedInSlots DEF PointersInv, TypeOK
<1>2. QED
  BY <1>1, DistanceRange, DistanceAdds DEF PointersInv, PointersInOrder, Filled, Unpublished

(* A step that leaves the pointers alone and puts nothing under way.       *)
LEMMA PointersKept ==
  ASSUME PointersInv, NoTrouble, UNCHANGED <<WrappedRp, WrappedWp, ip, resetPc>>,
         UnderWay(dma'.busy) + UnderWay(dmaInt') + UnderWay(dpcPc' = "publish")
           <= UnderWay(dma.busy) + UnderWay(dmaInt) + UnderWay(dpcPc = "publish"),
         dpcPc' = "ack" => dmaInt',
         \A r \in Readers : pc'[r] \in {"copy", "verify", "advance"} =>
            pc[r] \in {"copy", "verify", "advance"} \/ Filled > 0
  PROVE  PointersInOrder'
<1>1. Filled' = Filled /\ Unpublished' = Unpublished
  BY DEF Filled, Unpublished, Distance, WrappedRp, WrappedWp
<1>2. UnderWay(dma'.busy) + UnderWay(dmaInt') + UnderWay(dpcPc' = "publish") <= Unpublished
  BY PointersFacts DEF UnderWay
<1>3. QED
  BY <1>1, <1>2, PointersFacts DEF PointersInOrder

LEMMA PointersBoard ==
  ASSUME PointersInv, NoTrouble, FrameArrives \/ FrameMissed \/ DmaCompletes
  PROVE  PointersInOrder'
<1>1. /\ UNCHANGED <<WrappedRp, WrappedWp, ip, resetPc, pc, dpcPc>>
      /\ dmaInt => dmaInt'
  BY DEF FrameArrives, FrameMissed, DmaCompletes, WrappedRp, WrappedWp, dmaVars, dpcVars, readVars, resetVars
<1>2. UnderWay(dma'.busy) + UnderWay(dmaInt') <= UnderWay(dma.busy) + UnderWay(dmaInt)
  BY DEF FrameArrives, FrameMissed, DmaCompletes, dmaVars, UnderWay, Idle
<1>3. UnderWay(dma'.busy) + UnderWay(dmaInt') + UnderWay(dpcPc' = "publish")
        <= UnderWay(dma.busy) + UnderWay(dmaInt) + UnderWay(dpcPc = "publish")
  BY <1>1, <1>2 DEF UnderWay
<1>4. QED
  BY <1>1, <1>3, PointersKept, PointersFacts

(* A frame's transfer takes the slot at ip: one more is under way.         *)
LEMMA PointersFrame ==
  ASSUME PointersInv, NoTrouble, NoTrouble', IsrFrame
  PROVE  PointersInOrder'
<1>1. /\ ip' = Succ(ip) /\ Succ(ip) # WrappedRp /\ ip \in Slots /\ WrappedRp \in Slots
      /\ UNCHANGED <<WrappedRp, WrappedWp, resetPc, pc, dpcPc>>
  BY ReachesIsSucc, WrappedInSlots DEF IsrFrame, PointersInv, TypeOK, WrappedRp, WrappedWp, readVars, resetVars
<1>2. dma'.busy /\ dmaInt' = (dmaInt \/ dma.busy)
  BY DEF IsrFrame, ServeLocal, TransferBlock, LocalTrouble, NoTrouble
<1>3. Filled' = Filled
  BY <1>1 DEF Filled, Distance, WrappedRp, WrappedWp
<1>4. Distance(WrappedRp, ip') = Filled + Unpublished + 1
  BY <1>1, DistanceGrows, PointersFacts
<1>5. Filled + Unpublished + 1 < NO_OF_BUFFERS
  <2>1. Distance(WrappedRp, ip') \in 0 .. NO_OF_BUFFERS - 1
    BY <1>1, SuccInSlots, DistanceRange
  <2>2. QED
    BY <2>1, <1>4
<1>6. Unpublished' = Unpublished + 1
  <2>1. WrappedWp \in Slots
    BY WrappedInSlots DEF PointersInv
  <2>2. Succ(ip) # WrappedWp
    BY <2>1, <1>1, <1>4, <1>5, PointersFacts DEF Unpublished, Filled, Distance, Slots, Succ
  <2>3. QED
    BY <2>1, <2>2, <1>1, DistanceGrows DEF Unpublished, WrappedRp, WrappedWp
<1>7. UnderWay(dma'.busy) + UnderWay(dmaInt') <= UnderWay(dma.busy) + UnderWay(dmaInt) + 1
  BY <1>2 DEF UnderWay, PointersInv, TypeOK
<1>8. UnderWay(dma'.busy) + UnderWay(dmaInt') + UnderWay(dpcPc' = "publish") <= Unpublished'
  BY <1>1, <1>6, <1>7, PointersFacts DEF UnderWay
<1>9. dpcPc' = "ack" => dmaInt'
  BY <1>1, <1>2, PointersFacts
<1>10. Filled' + Unpublished' < NO_OF_BUFFERS
  BY <1>3, <1>5, <1>6, PointersFacts
<1>11. QED
  BY <1>1, <1>3, <1>8, <1>9, <1>10, PointersFacts DEF PointersInOrder

LEMMA PointersIsr ==
  ASSUME PointersInv, NoTrouble, NoTrouble', Isr
  PROVE  PointersInOrder'
<1>1. CASE IsrRingFull
  BY <1>1 DEF IsrRingFull, NoTrouble
<1>2. CASE IsrFrame
  BY <1>2, PointersFrame
<1>3. CASE IsrDmaDone
  <2>1. UNCHANGED <<WrappedRp, WrappedWp, ip, resetPc, pc, dpcPc, dma, dmaInt>>
    BY <1>3 DEF IsrDmaDone, ScheduleDpc, WrappedRp, WrappedWp, dmaVars, readVars, resetVars
  <2>2. QED
    BY <2>1, PointersKept, PointersFacts DEF UnderWay
<1>4. QED
  BY <1>1, <1>2, <1>3 DEF Isr

(* The DPC steps wp over the oldest slot whose transfer has ended.         *)
LEMMA PointersPublish ==
  ASSUME PointersInv, NoTrouble, DpcPublish
  PROVE  PointersInOrder' /\ counted' = counted /\ wp' = wp + 1
<1>1. /\ dpcPc = "publish" /\ dpcPc' = "wrap" /\ wp \in Slots /\ WrappedWp = wp
      /\ WrappedRp \in Slots /\ ip \in Slots
      /\ UNCHANGED <<WrappedRp, ip, resetPc, pc, dma, dmaInt>>
  BY WrappedInSlots DEF DpcPublish, PointersInv, TypeOK, WrappedRp, WrappedWp, Slots, dmaVars, readVars, resetVars
<1>2. /\ UnderWay(dpcPc = "publish") = 1 /\ UnderWay(dpcPc' = "publish") = 0
      /\ UnderWay(dma.busy) \in 0 .. 1 /\ UnderWay(dmaInt) \in 0 .. 1
  BY <1>1 DEF UnderWay
<1>3. Unpublished >= 1
  BY <1>2, PointersFacts
<1>4. wp # ip /\ Succ(wp) # WrappedRp
  <2>1. wp # ip
    BY <1>1, <1>3, DistanceRange DEF Unpublished
  <2>2. Distance(WrappedRp, wp) < NO_OF_BUFFERS - 1
    BY <1>1, <1>3, PointersFacts DEF Filled
  <2>3. QED
    BY <1>1, <2>1, <2>2 DEF Distance, Slots, Succ
<1>5. wp' = wp + 1 /\ counted' = counted
  BY <1>1, <1>4, ReachesIsSucc DEF DpcPublish, PointersInv
<1>6. WrappedWp' = Succ(wp)
  BY <1>1, <1>5 DEF WrappedRp, WrappedWp, Succ, Slots
<1>7. Filled' = Filled + 1 /\ Unpublished' = Unpublished - 1
  BY <1>1, <1>4, <1>6, DistanceGrows, DistanceShrinks DEF Filled, Unpublished
<1>8. UnderWay(dma'.busy) + UnderWay(dmaInt') + UnderWay(dpcPc' = "publish") <= Unpublished'
  BY <1>1, <1>2, <1>7, PointersFacts
<1>9. QED
  BY <1>1, <1>5, <1>7, <1>8, PointersFacts DEF PointersInOrder

LEMMA PointersDpc ==
  ASSUME PointersInv, NoTrouble, Dpc
  PROVE  PointersInOrder' /\ counted' = counted
<1>1. CASE DpcStart
  <2>1. /\ UNCHANGED <<WrappedRp, WrappedWp, ip, resetPc, pc, dma, dmaInt, counted>>
        /\ dpcPc = "idle" /\ dpcPc' \in {"ack", "enable"}
        /\ dpcPc' = "ack" => dmaInt'
    BY <1>1 DEF DpcStart, WrappedRp, WrappedWp, dmaVars, readVars, resetVars, PointersInv, DpcOwnsChip
  <2>2. QED
    BY <2>1, PointersKept, PointersFacts DEF UnderWay
<1>2. CASE DpcAck
  <2>1. /\ UNCHANGED <<WrappedRp, WrappedWp, ip, resetPc, pc, dma, counted>>
        /\ dpcPc = "ack" /\ dpcPc' = "publish" /\ dmaInt /\ ~dmaInt'
    BY <1>2, PointersFacts DEF DpcAck, WrappedRp, WrappedWp, readVars, resetVars
  <2>2. QED
    BY <2>1, PointersKept, PointersFacts DEF UnderWay
<1>3. CASE DpcPublish
  BY <1>3, PointersPublish
<1>4. CASE DpcWrapAndWake
  <2>1. /\ UNCHANGED <<WrappedRp, ip, resetPc, dma, dmaInt, counted>>
        /\ dpcPc = "wrap" /\ dpcPc' = "enable"
    BY <1>4 DEF DpcWrapAndWake, WrappedRp, dmaVars, resetVars
  <2>2. WrappedWp' = WrappedWp
    BY <1>4 DEF DpcWrapAndWake, WrappedRp, WrappedWp, PointersInv, TypeOK
  <2>3. \A r \in Readers : pc'[r] = "test" \/ pc'[r] = pc[r]
    BY <1>4 DEF DpcWrapAndWake
  <2>4. QED
    BY <2>1, <2>2, <2>3, PointersKept, PointersFacts DEF UnderWay
<1>5. CASE DpcEnable
  <2>1. /\ UNCHANGED <<WrappedRp, WrappedWp, ip, resetPc, pc, dma, dmaInt, counted>>
        /\ dpcPc = "enable" /\ dpcPc' = "idle"
    BY <1>5 DEF DpcEnable, WrappedRp, WrappedWp, dmaVars, readVars, resetVars
  <2>2. QED
    BY <2>1, PointersKept, PointersFacts DEF UnderWay
<1>6. QED
  BY <1>1, <1>2, <1>3, <1>4, <1>5 DEF Dpc

(* rp steps over a filled slot, by the one reader that holds the semaphore.*)
LEMMA PointersAdvance ==
  ASSUME PointersInv, NoTrouble, NEW r \in Readers, Advance(r)
  PROVE  PointersInOrder'
<1>0. rp \in Slots /\ WrappedRp = rp /\ WrappedRp' = Succ(rp)
  BY StepOfRp DEF PointersInv
<1>1. /\ pc[r] = "advance" /\ pc' = [pc EXCEPT ![r] = "wrap"]
      /\ UNCHANGED <<WrappedWp, ip, resetPc, dpcPc, dma, dmaInt>>
  BY DEF Advance, Goto, unreadVars, dmaVars, dpcVars, resetVars, WrappedWp
<1>2. \A s \in Readers : pc'[s] \notin {"copy", "verify", "advance"}
  BY <1>1 DEF PointersInv, ReadersExclude, Holding, TypeOK
<1>3. Filled > 0 /\ rp # WrappedWp
  BY <1>0, <1>1, PointersFacts
<1>4. Filled' = Filled - 1 /\ Unpublished' = Unpublished
  <2>1. rp \in Slots /\ WrappedWp \in Slots
    BY <1>0, WrappedInSlots DEF PointersInv
  <2>2. Filled' = Distance(Succ(rp), WrappedWp) /\ Filled = Distance(rp, WrappedWp)
    BY <1>0, <1>1 DEF Filled, Distance
  <2>3. Unpublished' = Unpublished
    BY <1>1 DEF Unpublished, Distance
  <2>4. QED
    BY <2>1, <2>2, <2>3, <1>3, DistanceShrinks
<1>5. QED
  BY <1>1, <1>2, <1>4, PointersFacts DEF PointersInOrder

LEMMA PointersReader ==
  ASSUME PointersInv, NoTrouble, NoTrouble', NEW r \in Readers, Reader(r)
  PROVE  PointersInOrder' /\ counted' = counted
<1>0. pc \in [Readers -> Holding \cup {"idle", "down", "poll_down", "test", "asleep"}]
  BY DEF PointersInv, TypeOK
<1>1. CASE \/ Call(r) \/ Down(r) \/ Interrupted(r) \/ FoundEmpty(r) \/ TestCondition(r)
           \/ Copy(r) \/ NotReachedIp(r) \/ Up(r)
  <2>1. /\ UNCHANGED <<WrappedRp, WrappedWp, ip, resetPc, dma, dmaInt, dpcPc, counted>>
        /\ \A s \in Readers : pc'[s] \in {"copy", "verify", "advance"} =>
                               pc[s] \in {"copy", "verify", "advance"}
    BY <1>0, <1>1 DEF Call, Down, Interrupted, FoundEmpty, TestCondition, Copy, NotReachedIp,
                      Up, Goto, unreadVars, dmaVars, dpcVars, resetVars, WrappedRp, WrappedWp
  <2>2. QED
    BY <2>1, PointersKept, PointersFacts DEF UnderWay
<1>2. CASE FoundFrame(r)
  <2>1. /\ UNCHANGED <<WrappedRp, WrappedWp, ip, resetPc, dma, dmaInt, dpcPc, counted>>
        /\ \A s \in Readers : s = r \/ pc'[s] = pc[s]
    BY <1>0, <1>2 DEF FoundFrame, Goto, unreadVars, dmaVars, dpcVars, resetVars, WrappedRp, WrappedWp
  <2>2. WrappedRp = rp /\ rp # WrappedWp
    <3>1. WrappedRp = rp
      BY <1>2, ReaderFindsWrapped DEF FoundFrame, Goto, Holding, PointersInv
    <3>2. rp # WrappedWp
      BY <1>2 DEF FoundFrame, NoTrouble, WrappedWp
    <3> QED BY <3>1, <3>2
  <2>3. QED
    BY <2>1, <2>2, PointersKept, PointersFacts DEF UnderWay
<1>3. CASE ReachedIp(r)
  <2>1. rp = ip /\ pc[r] = "verify"
    BY <1>3 DEF ReachedIp, Goto
  <2>2. Distance(WrappedRp, ip) > 0
    BY <2>1, PointersFacts
  <2>3. WrappedRp = ip /\ ip \in Slots
    BY <2>1, ReaderFindsWrapped DEF PointersInv, Holding
  <2>4. QED
    BY <2>2, <2>3, DistanceRange
<1>4. CASE Advance(r)
  BY <1>4, PointersAdvance DEF Advance
<1>5. CASE WrapRp(r)
  <2>1. /\ UNCHANGED <<WrappedRp, WrappedWp, unreadVars, counted>>
        /\ \A s \in Readers : pc'[s] \notin {"copy", "verify", "advance"}
    BY <1>5, WrapOfRp DEF PointersInv
  <2>2. UNCHANGED <<ip, resetPc, dma, dmaInt, dpcPc>>
    BY <2>1 DEF unreadVars, dmaVars, dpcVars, resetVars
  <2>3. QED
    BY <2>1, <2>2, PointersKept, PointersFacts DEF UnderWay
<1>6. QED
  BY <1>1, <1>2, <1>3, <1>4, <1>5 DEF Reader, Running

-----------------------------------------------------------------------------
(* rp, wp and ip never lap each other, and none of the transfers that wait *)
(* lacks a slot between wp and ip, until trouble is counted.               *)
THEOREM PointersStayInOrder == Spec => []PointersInOrder
<1>1. Init => PointersInOrder
  <2> SUFFICES ASSUME Init PROVE PointersInOrder
    OBVIOUS
  <2>1. rp = 0 /\ wp = 0 /\ ip = 0 /\ ~dma.busy /\ ~dmaInt /\ dpcPc = "idle" /\ resetPc = "idle"
    BY DEF Init, Idle
  <2>2. \A r \in Readers : pc[r] = "idle"
    BY DEF Init
  <2>3. Filled = 0 /\ Unpublished = 0
    BY <2>1 DEF Filled, Unpublished, Distance, WrappedRp, WrappedWp
  <2>4. QED
    BY <2>1, <2>2, <2>3 DEF PointersInOrder, UnderWay
<1>2. PointersInv /\ [Next]_vars => PointersInOrder'
  <2> SUFFICES ASSUME PointersInv, [Next]_vars, NoTrouble' PROVE PointersInOrder'
    BY DEF PointersInOrder
  <2>1. NoTrouble
    BY TroubleStays DEF PointersInv
  <2>2. CASE Reset
    <3>1. ~ResetRp /\ ~ResetWp
      BY <2>1, PointersFacts DEF ResetRp, ResetWp
    <3>2. ~ResetIp
      BY <2>1 DEF ResetIp, NoTrouble
    <3>3. QED
      BY <2>2, <3>1, <3>2 DEF Reset
  <2>3. CASE UNCHANGED vars
    <3>1. UNCHANGED <<WrappedRp, WrappedWp, ip, resetPc, pc, dma, dmaInt, dpcPc>>
      BY <2>3 DEF vars, dmaVars, dpcVars, readVars, resetVars, WrappedRp, WrappedWp
    <3>2. QED
      BY <2>1, <3>1, PointersKept, PointersFacts DEF UnderWay
  <2>4. QED
    BY <2>1, <2>2, <2>3, PointersBoard, PointersIsr, PointersDpc, PointersReader DEF Next
<1>3. QED
  BY <1>1, <1>2, TypeCorrect, MutualExclusion, ChipOwned, PTL DEF Spec, PointersInv

(* The full ring that the DPC would see and the rp = ip that read() would  *)
(* see are never the first sign of trouble.                                *)
THEOREM TroubleComesFirst == Spec => []PointersMeetOnlyAfterTrouble
<1>1. Init => PointersMeetOnlyAfterTrouble
  BY DEF Init, PointersMeetOnlyAfterTrouble
<1>2. PointersInv /\ PointersMeetOnlyAfterTrouble /\ [Next]_vars => PointersMeetOnlyAfterTrouble'
  <2> SUFFICES ASSUME PointersInv, PointersMeetOnlyAfterTrouble, [Next]_vars, NoTrouble'
               PROVE  "circ_full_wp" \notin counted' /\ "circ_empty_rp" \notin counted'
    BY DEF PointersMeetOnlyAfterTrouble
  <2>1. NoTrouble
    BY TroubleStays DEF PointersInv
  <2>2. "circ_full_wp" \notin counted /\ "circ_empty_rp" \notin counted
    BY <2>1 DEF PointersMeetOnlyAfterTrouble
  <2>3. CASE Isr
    BY <2>2, <2>3 DEF Isr, IsrRingFull, IsrFrame, IsrDmaDone, LocalTrouble
  <2>4. CASE Dpc
    BY <2>1, <2>2, <2>4, PointersDpc
  <2>5. ASSUME NEW r \in Readers, Reader(r) PROVE counted' = counted
    BY <2>1, <2>5, PointersReader
  <2>6. QED
    BY <2>2, <2>3, <2>4, <2>5 DEF Next, FrameArrives, FrameMissed, DmaCompletes, Reset, ResetIp,
       ResetRp, ResetWp, vars
<1>3. QED
  BY <1>1, <1>2, TypeCorrect, MutualExclusion, ChipOwned, PointersStayInOrder, PTL
     DEF Spec, PointersInv

-----------------------------------------------------------------------------
(* What the slots hold.                                                    *)

(* Going k slots on from rp: different slots for different k, and ip after *)
(* as many slots as it is away.                                            *)
LEMMA SlotInSlots ==
  ASSUME TypeOK, NEW k \in 0 .. NO_OF_BUFFERS - 1
  PROVE  SlotAt(k) \in Slots
  BY WrappedInSlots DEF SlotAt, Slots

LEMMA SlotsDiffer ==
  ASSUME TypeOK, NEW j \in 0 .. NO_OF_BUFFERS - 1, NEW k \in 0 .. NO_OF_BUFFERS - 1,
         SlotAt(j) = SlotAt(k)
  PROVE  j = k
  BY WrappedInSlots DEF SlotAt, Slots

LEMMA SlotAtIp ==
  ASSUME TypeOK PROVE SlotAt(Distance(WrappedRp, ip)) = ip
  BY WrappedInSlots DEF TypeOK, SlotAt, Slots, Distance

LEMMA FrameIsNat ==
  ASSUME TypeOK, NEW k \in -1 .. NO_OF_BUFFERS - 1
  PROVE  FrameAt(k) \in Nat
<1>1. CASE k = -1
  BY <1>1 DEF TypeOK, FrameAt
<1>2. CASE k # -1
  <2>1. SlotAt(k) \in Slots
    BY <1>2, SlotInSlots
  <2>2. QED
    BY <1>2, <2>1 DEF TypeOK, FrameAt
<1>3. QED
  BY <1>1, <1>2

LEMMA TakenIsDistance ==
  ASSUME PointersInv, NoTrouble
  PROVE  Taken = Distance(WrappedRp, ip) /\ Taken \in 0 .. NO_OF_BUFFERS - 1
  BY PointersFacts DEF Taken

LEMMA TakenIsDistanceNext ==
  ASSUME PointersInv', NoTrouble'
  PROVE  Taken' = Distance(WrappedRp', ip')
<1>1. WrappedRp' \in Slots /\ WrappedWp' \in Slots /\ ip' \in Slots
  <2>1. rp' \in 0 .. NO_OF_BUFFERS /\ ip' \in Slots /\ wp' \in 0 .. NO_OF_BUFFERS
    BY DEF PointersInv, TypeOK
  <2> QED BY <2>1, BuffersAssumption DEF WrappedRp, WrappedWp, Slots
<1>2. (Filled + Unpublished)' = Distance(WrappedRp', ip')
  BY <1>1, DistanceAdds DEF PointersInv, PointersInOrder, Filled, Unpublished
<1>3. QED
  BY <1>2 DEF Taken

FramesInv == PointersInv /\ FramesInOrder

(* The transfer that runs has a slot of its own past the filled ones.      *)
LEMMA BusyIsUnpublished ==
  ASSUME PointersInv, NoTrouble, dma.busy
  PROVE  Filled \in 0 .. Taken - 1
<1>1. Unpublished >= 1
  BY PointersFacts DEF UnderWay
<1>2. QED
  BY <1>1, PointersFacts DEF Taken

(* The order of the frames once no transfer runs is what FramesInOrder     *)
(* makes of it: a step that changes no slot and no pointer keeps it.       *)
LEMMA FramesKept ==
  ASSUME FramesInv, PointersInv', NoTrouble, NoTrouble',
         UNCHANGED <<WrappedRp, ip, frames, delivered, dma>>,
         produced' >= produced,
         localInt' => localInt \/ produced' > produced,
         produced' \in Nat,
         \A r \in Readers : pc'[r] \in {"verify", "advance"} => copied' = frames[rp']
  PROVE  FramesInOrder'
<1>1. Taken' = Taken
  BY TakenIsDistance, TakenIsDistanceNext DEF FramesInv, Distance
<1>2. \A k : SlotAt(k)' = SlotAt(k) /\ FrameAt(k)' = FrameAt(k)
  BY DEF SlotAt, FrameAt
<1>3. NewestTaken' = NewestTaken
  BY <1>1, <1>2 DEF NewestTaken
<1>4. NewestTaken \in Nat /\ produced \in Nat
  <2>1. Taken - 1 \in -1 .. NO_OF_BUFFERS - 1
    BY TakenIsDistance DEF FramesInv
  <2>2. FrameAt(Taken - 1) \in Nat
    BY <2>1, FrameIsNat DEF FramesInv, PointersInv
  <2>3. QED
    BY <2>2 DEF NewestTaken, FramesInv, PointersInv, TypeOK
<1>5. produced' >= NewestTaken' /\ (localInt' => produced' > NewestTaken')
  BY <1>3, <1>4 DEF FramesInv, FramesInOrder
<1>6. /\ \A k \in 0 .. (IF dma.busy THEN Taken - 2 ELSE Taken - 1) :
            FrameAt(k)' > FrameAt(k - 1)'
      /\ dma.busy => SlotAt(Taken - 1)' = dma.slot /\ dma.frame > FrameAt(Taken - 2)'
  BY <1>1, <1>2 DEF FramesInv, FramesInOrder
<1>7. QED
  BY <1>1, <1>5, <1>6 DEF FramesInOrder

(* What FramesInOrder says of a state without trouble.                     *)
LEMMA FramesFacts ==
  ASSUME FramesInv, NoTrouble
  PROVE  /\ \A k \in 0 .. (IF dma.busy THEN Taken - 2 ELSE Taken - 1) :
              FrameAt(k) > FrameAt(k - 1)
         /\ dma.busy => /\ SlotAt(Taken - 1) = dma.slot /\ dma.frame > FrameAt(Taken - 2)
                        /\ NewestTaken = dma.frame
         /\ ~dma.busy => NewestTaken = FrameAt(Taken - 1)
         /\ produced >= NewestTaken
         /\ localInt => produced > NewestTaken
         /\ \A r \in Readers : pc[r] \in {"verify", "advance"} => copied = frames[rp]
  BY DEF FramesInv, FramesInOrder, NewestTaken

(* The end of a transfer fills the slot before ip and no other.            *)
LEMMA CompletesSlots ==
  ASSUME FramesInv, PointersInv', NoTrouble, NoTrouble', DmaCompletes
  PROVE  /\ dma.busy /\ dma.slot \in Slots /\ ~dma'.busy
         /\ frames' = [frames EXCEPT ![dma.slot] = dma.frame]
         /\ UNCHANGED <<rp, WrappedRp, ip, delivered, produced, localInt, pc, copied>>
         /\ frames \in [Slots -> Nat]
         /\ Taken' = Taken /\ Taken \in 1 .. NO_OF_BUFFERS - 1 /\ Filled \in 0 .. Taken - 1
         /\ FrameAt(Taken - 1)' = dma.frame
         /\ \A k \in -1 .. Taken - 2 : FrameAt(k)' = FrameAt(k)
<1>1. /\ dma.busy /\ dma.slot \in Slots /\ ~dma'.busy
      /\ frames' = [frames EXCEPT ![dma.slot] = dma.frame]
      /\ UNCHANGED <<rp, WrappedRp, ip, delivered, produced, localInt, pc, copied>>
      /\ frames \in [Slots -> Nat]
  BY DEF DmaCompletes, WrappedRp, Idle, boardVars, readVars, FramesInv, PointersInv, TypeOK
<1>2. Taken' = Taken /\ Taken \in 1 .. NO_OF_BUFFERS - 1 /\ Filled \in 0 .. Taken - 1
  BY <1>1, TakenIsDistance, TakenIsDistanceNext, BusyIsUnpublished DEF FramesInv, Distance
<1>3. /\ FrameAt(Taken - 1)' = dma.frame
      /\ \A k \in -1 .. Taken - 2 : FrameAt(k)' = FrameAt(k)
  <2>1. SlotAt(Taken - 1) = dma.slot
    BY <1>1, FramesFacts
  <2>2. \A k \in 0 .. Taken - 2 : SlotAt(k) # dma.slot /\ SlotAt(k) \in Slots
    BY <1>2, <2>1, SlotsDiffer, SlotInSlots DEF FramesInv, PointersInv
  <2>3. \A k \in 0 .. Taken - 1 : SlotAt(k)' = SlotAt(k)
    BY <1>1 DEF SlotAt
  <2>4. FrameAt(Taken - 1)' = dma.frame
    BY <1>1, <1>2, <2>1, <2>3 DEF FrameAt
  <2>5. \A k \in -1 .. Taken - 2 : FrameAt(k)' = FrameAt(k)
    BY <1>1, <1>2, <2>2, <2>3 DEF FrameAt
  <2>6. QED
    BY <2>4, <2>5
<1>4. QED
  BY <1>1, <1>2, <1>3

LEMMA FramesCompletes ==
  ASSUME FramesInv, PointersInv', NoTrouble, NoTrouble', DmaCompletes
  PROVE  FramesInOrder'
<1>1. /\ dma.busy /\ dma.slot \in Slots /\ ~dma'.busy
      /\ frames' = [frames EXCEPT ![dma.slot] = dma.frame]
      /\ UNCHANGED <<rp, WrappedRp, ip, delivered, produced, localInt, pc, copied>>
      /\ frames \in [Slots -> Nat]
  BY CompletesSlots
<1>2. Taken' = Taken /\ Taken \in 1 .. NO_OF_BUFFERS - 1 /\ Filled \in 0 .. Taken - 1
  BY CompletesSlots
<1>3. /\ FrameAt(Taken - 1)' = dma.frame
      /\ \A k \in -1 .. Taken - 2 : FrameAt(k)' = FrameAt(k)
  BY CompletesSlots
<1>4. \A k \in 0 .. Taken - 1 : FrameAt(k)' > FrameAt(k - 1)'
  <2> SUFFICES ASSUME NEW k \in 0 .. Taken - 1 PROVE FrameAt(k)' > FrameAt(k - 1)'
    OBVIOUS
  <2>1. FrameAt(k - 1)' = FrameAt(k - 1)
    BY <1>2, <1>3
  <2>2. CASE k = Taken - 1
    BY <1>1, <1>2, <1>3, <2>1, <2>2, FramesFacts
  <2>3. CASE k # Taken - 1
    BY <1>1, <1>2, <1>3, <2>1, <2>3, FramesFacts
  <2>4. QED
    BY <2>2, <2>3
<1>5. NewestTaken' = dma.frame
  BY <1>1, <1>2, <1>3 DEF NewestTaken
<1>6. \A r \in Readers : pc'[r] \in {"verify", "advance"} => copied' = frames'[rp']
  <2> SUFFICES ASSUME NEW r \in Readers, pc[r] \in {"verify", "advance"}
               PROVE  copied = frames'[rp]
    BY <1>1
  <2>1. Filled > 0
    BY PointersFacts DEF FramesInv
  <2>2. rp # dma.slot
    <3>1. SlotAt(Taken - 1) = dma.slot
      BY <1>1, FramesFacts
    <3>2. SlotAt(0) = rp
      BY ReaderFindsWrapped DEF SlotAt, FramesInv, PointersInv, Holding, Slots
    <3>3. QED
      BY <3>1, <3>2, <2>1, <1>2, SlotsDiffer DEF FramesInv, PointersInv
  <2>3. QED
    BY <1>1, <2>2, FramesFacts DEF FramesInv, PointersInv, TypeOK
<1>7. QED
  BY <1>1, <1>2, <1>4, <1>5, <1>6, FramesFacts DEF FramesInOrder

(* A new transfer takes the slot at ip; the one before it, if it has just  *)
(* ended, is whole.                                                        *)
LEMMA IsrFrameSlots ==
  ASSUME FramesInv, PointersInv', NoTrouble, NoTrouble', IsrFrame
  PROVE  /\ ip' = Succ(ip) /\ Succ(ip) # WrappedRp /\ ip \in Slots /\ WrappedRp \in Slots
         /\ localInt /\ ~localInt'
         /\ UNCHANGED <<rp, WrappedRp, delivered, produced, pc, copied>>
         /\ frames \in [Slots -> Nat]
         /\ dma' = [busy |-> TRUE, slot |-> ip, frame |-> produced]
         /\ frames' = [i \in Slots |-> IF i = ip THEN Torn
                                      ELSE IF dma.busy /\ i = dma.slot THEN dma.frame
                                      ELSE frames[i]]
         /\ Taken' = Taken + 1 /\ Taken \in 0 .. NO_OF_BUFFERS - 2 /\ SlotAt(Taken) = ip
         /\ \A k \in 0 .. Taken : SlotAt(k)' = SlotAt(k) /\ SlotAt(k) \in Slots /\ (SlotAt(k) = ip <=> k = Taken)
         /\ \A k \in -1 .. Taken - 1 :
              FrameAt(k)' = IF dma.busy /\ k = Taken - 1 THEN dma.frame ELSE FrameAt(k)
<1>1. /\ ip' = Succ(ip) /\ Succ(ip) # WrappedRp /\ ip \in Slots /\ WrappedRp \in Slots
      /\ localInt /\ ~localInt'
      /\ UNCHANGED <<rp, WrappedRp, delivered, produced, pc, copied>>
      /\ frames \in [Slots -> Nat]
  BY ReachesIsSucc, WrappedInSlots DEF IsrFrame, ServeLocal, WrappedRp, readVars, FramesInv, PointersInv, TypeOK
<1>2. /\ dma' = [busy |-> TRUE, slot |-> ip, frame |-> produced]
      /\ frames' = [i \in Slots |-> IF i = ip THEN Torn
                                   ELSE IF dma.busy /\ i = dma.slot THEN dma.frame
                                   ELSE frames[i]]
  BY DEF IsrFrame, ServeLocal, TransferBlock, LocalTrouble, NoTrouble
<1>3. Taken' = Taken + 1 /\ Taken \in 0 .. NO_OF_BUFFERS - 2 /\ SlotAt(Taken) = ip
  <2>1. Taken = Distance(WrappedRp, ip) /\ Taken' = Distance(WrappedRp, Succ(ip))
    BY <1>1, TakenIsDistance, TakenIsDistanceNext DEF FramesInv
  <2>2. Distance(WrappedRp, Succ(ip)) \in 0 .. NO_OF_BUFFERS - 1
    BY <1>1, SuccInSlots, DistanceRange
  <2>3. QED
    BY <1>1, <2>1, <2>2, DistanceGrows, TakenIsDistance, SlotAtIp DEF FramesInv, PointersInv
<1>4. \A k \in 0 .. Taken : SlotAt(k)' = SlotAt(k) /\ SlotAt(k) \in Slots /\ (SlotAt(k) = ip <=> k = Taken)
  BY <1>1, <1>3, SlotInSlots, SlotsDiffer DEF SlotAt, FramesInv, PointersInv
<1>5. \A k \in -1 .. Taken - 1 :
        FrameAt(k)' = IF dma.busy /\ k = Taken - 1 THEN dma.frame ELSE FrameAt(k)
  <2> SUFFICES ASSUME NEW k \in -1 .. Taken - 1
               PROVE  FrameAt(k)' = IF dma.busy /\ k = Taken - 1 THEN dma.frame ELSE FrameAt(k)
    OBVIOUS
  <2>1. dma.busy => Taken >= 1 /\ SlotAt(Taken - 1) = dma.slot
    BY <1>3, BusyIsUnpublished, FramesFacts DEF FramesInv
  <2>2. CASE k = -1
    BY <1>1, <1>3, <2>1, <2>2 DEF FrameAt
  <2>3. CASE k # -1
    <3>1. k \in 0 .. Taken - 1 /\ k \in 0 .. Taken
      BY <1>3, <2>3
    <3>2. dma.busy => (SlotAt(k) = dma.slot <=> k = Taken - 1)
      BY <1>3, <2>1, <3>1, SlotsDiffer DEF FramesInv, PointersInv
    <3>3. FrameAt(k)' = frames'[SlotAt(k)] /\ FrameAt(k) = frames[SlotAt(k)]
      BY <1>4, <2>3, <3>1 DEF FrameAt
    <3>4. SlotAt(k) # ip /\ SlotAt(k) \in Slots
      BY <1>3, <1>4, <3>1
    <3>5. QED
      BY <1>2, <3>2, <3>3, <3>4
  <2>4. QED
    BY <2>2, <2>3
<1>6. QED
  BY <1>1, <1>2, <1>3, <1>4, <1>5

LEMMA FramesIsrFrame ==
  ASSUME FramesInv, PointersInv', NoTrouble, NoTrouble', IsrFrame
  PROVE  FramesInOrder'
<1>1. /\ ip' = Succ(ip) /\ Succ(ip) # WrappedRp /\ ip \in Slots /\ WrappedRp \in Slots
      /\ localInt /\ ~localInt'
      /\ UNCHANGED <<rp, WrappedRp, delivered, produced, pc, copied>>
      /\ frames \in [Slots -> Nat]
  BY IsrFrameSlots
<1>2. /\ dma' = [busy |-> TRUE, slot |-> ip, frame |-> produced]
      /\ frames' = [i \in Slots |-> IF i = ip THEN Torn
                                   ELSE IF dma.busy /\ i = dma.slot THEN dma.frame
                                   ELSE frames[i]]
  BY IsrFrameSlots
<1>3. Taken' = Taken + 1 /\ Taken \in 0 .. NO_OF_BUFFERS - 2 /\ SlotAt(Taken) = ip
  BY IsrFrameSlots
<1>4. \A k \in 0 .. Taken : SlotAt(k)' = SlotAt(k) /\ SlotAt(k) \in Slots /\ (SlotAt(k) = ip <=> k = Taken)
  BY IsrFrameSlots
<1>5. \A k \in -1 .. Taken - 1 :
        FrameAt(k)' = IF dma.busy /\ k = Taken - 1 THEN dma.frame ELSE FrameAt(k)
  BY IsrFrameSlots
<1>6. \A k \in 0 .. Taken - 1 : FrameAt(k)' > FrameAt(k - 1)'
  <2> SUFFICES ASSUME NEW k \in 0 .. Taken - 1 PROVE FrameAt(k)' > FrameAt(k - 1)'
    OBVIOUS
  <2>1. FrameAt(k - 1)' = FrameAt(k - 1)
    BY <1>3, <1>5
  <2>2. CASE dma.busy /\ k = Taken - 1
    BY <1>3, <1>5, <2>1, <2>2, FramesFacts
  <2>3. CASE ~(dma.busy /\ k = Taken - 1)
    BY <1>3, <1>5, <2>1, <2>3, FramesFacts
  <2>4. QED
    BY <2>2, <2>3
<1>7. \A k : k = Taken - 1 => produced > FrameAt(k)'
  BY <1>1, <1>3, <1>5, FramesFacts
<1>8. (\A k : k = Taken => SlotAt(k)' = ip) /\ NewestTaken' = produced
  BY <1>2, <1>3, <1>4 DEF NewestTaken
<1>9. \A r \in Readers : pc'[r] \in {"verify", "advance"} => copied' = frames'[rp']
  <2> SUFFICES ASSUME NEW r \in Readers, pc[r] \in {"verify", "advance"}
               PROVE  copied = frames'[rp]
    BY <1>1
  <2>1. Filled \in Int /\ Filled > 0 /\ Filled <= Taken /\ (dma.busy => Filled <= Taken - 1)
    BY PointersFacts, BusyIsUnpublished DEF FramesInv, Taken
  <2>2. SlotAt(0) = rp
    BY ReaderFindsWrapped DEF SlotAt, FramesInv, PointersInv, Holding, Slots
  <2>3. FrameAt(0)' = FrameAt(0)
    BY <1>3, <1>5, <2>1
  <2>4. FrameAt(0)' = frames'[rp] /\ FrameAt(0) = frames[rp]
    BY <1>1, <1>3, <1>4, <2>2 DEF FrameAt
  <2>5. QED
    BY <2>3, <2>4, FramesFacts
<1>10. dma'.busy /\ dma'.slot = ip /\ dma'.frame = produced
  BY <1>2
<1>11. Taken' - 2 = Taken - 1 /\ Taken' - 1 = Taken
  BY <1>3
<1>12. produced \in Nat
  BY DEF FramesInv, PointersInv, TypeOK
<1>13. QED
  BY <1>1, <1>3, <1>6, <1>7, <1>8, <1>9, <1>10, <1>11, <1>12 DEF FramesInOrder

(* Reading moves every slot one closer: what was k + 1 slots on is k on,   *)
(* and the frame copied becomes the last one delivered.                    *)
LEMMA AdvanceSlots ==
  ASSUME FramesInv, PointersInv', NoTrouble, NoTrouble', NEW r \in Readers, Advance(r)
  PROVE  /\ WrappedRp' = Succ(rp) /\ WrappedRp = rp /\ rp \in Slots /\ ip \in Slots
         /\ delivered' = copied
         /\ pc[r] = "advance" /\ pc' = [pc EXCEPT ![r] = "wrap"]
         /\ UNCHANGED <<ip, frames, dma, produced, localInt>>
         /\ \A s \in Readers : pc'[s] \notin {"verify", "advance"}
         /\ Filled \in Int /\ Filled > 0 /\ Taken \in 1 .. NO_OF_BUFFERS - 1
         /\ dma.busy => Taken >= 2
         /\ Taken' = Taken - 1
         /\ \A k \in 0 .. NO_OF_BUFFERS - 2 : SlotAt(k)' = SlotAt(k + 1)
         /\ \A k \in -1 .. NO_OF_BUFFERS - 2 : FrameAt(k)' = FrameAt(k + 1)
<1>1. /\ WrappedRp' = Succ(rp) /\ WrappedRp = rp /\ rp \in Slots /\ ip \in Slots
      /\ delivered' = copied
      /\ pc[r] = "advance" /\ pc' = [pc EXCEPT ![r] = "wrap"]
      /\ UNCHANGED <<ip, frames, dma, produced, localInt>>
  BY StepOfRp DEF Advance, Goto, unreadVars, boardVars, dmaVars, FramesInv, PointersInv, TypeOK
<1>2. \A s \in Readers : pc'[s] \notin {"verify", "advance"}
  BY <1>1 DEF FramesInv, PointersInv, ReadersExclude, Holding, TypeOK
<1>3. Filled \in Int /\ Filled > 0 /\ Taken \in 1 .. NO_OF_BUFFERS - 1
      /\ (dma.busy => Taken >= 2)
  BY <1>1, PointersFacts, BusyIsUnpublished, TakenIsDistance DEF FramesInv, Taken
<1>4. Taken' = Taken - 1
  <2>1. Taken = Distance(WrappedRp, ip) /\ Taken' = Distance(Succ(rp), ip)
    BY <1>1, TakenIsDistance, TakenIsDistanceNext DEF FramesInv
  <2>2. rp # ip
    BY <1>1, <1>3, <2>1, DistanceRange
  <2>3. QED
    BY <1>1, <2>1, <2>2, DistanceShrinks
<1>5. \A k \in 0 .. NO_OF_BUFFERS - 2 : SlotAt(k)' = SlotAt(k + 1)
  BY <1>1 DEF SlotAt, Slots, Succ
<1>6. \A k \in -1 .. NO_OF_BUFFERS - 2 : FrameAt(k)' = FrameAt(k + 1)
  <2> SUFFICES ASSUME NEW k \in -1 .. NO_OF_BUFFERS - 2
               PROVE  FrameAt(k)' = FrameAt(k + 1)
    OBVIOUS
  <2>1. CASE k = -1
    <3>1. SlotAt(0) = rp
      BY <1>1 DEF SlotAt, Slots
    <3>2. FrameAt(k)' = copied /\ FrameAt(k + 1) = frames[rp]
      BY <1>1, <2>1, <3>1 DEF FrameAt
    <3>3. QED
      BY <1>1, <3>2, FramesFacts
  <2>2. CASE k # -1
    <3>1. k \in 0 .. NO_OF_BUFFERS - 2 /\ k + 1 # -1
      BY <2>2
    <3>2. QED
      BY <1>1, <1>5, <2>2, <3>1 DEF FrameAt
  <2>3. QED
    BY <2>1, <2>2
<1>7. QED
  BY <1>1, <1>2, <1>3, <1>4, <1>5, <1>6

LEMMA FramesAdvance ==
  ASSUME FramesInv, PointersInv', NoTrouble, NoTrouble', NEW r \in Readers, Advance(r)
  PROVE  FramesInOrder'
<1>1. /\ WrappedRp' = Succ(rp) /\ WrappedRp = rp /\ rp \in Slots /\ ip \in Slots
      /\ delivered' = copied
      /\ pc[r] = "advance" /\ pc' = [pc EXCEPT ![r] = "wrap"]
      /\ UNCHANGED <<ip, frames, dma, produced, localInt>>
  BY AdvanceSlots
<1>2. \A s \in Readers : pc'[s] \notin {"verify", "advance"}
  BY AdvanceSlots
<1>3. Filled \in Int /\ Filled > 0 /\ Taken \in 1 .. NO_OF_BUFFERS - 1
      /\ (dma.busy => Taken >= 2)
  BY AdvanceSlots
<1>4. Taken' = Taken - 1
  BY AdvanceSlots
<1>5. \A k \in 0 .. NO_OF_BUFFERS - 2 : SlotAt(k)' = SlotAt(k + 1)
  BY AdvanceSlots
<1>6. \A k \in -1 .. NO_OF_BUFFERS - 2 : FrameAt(k)' = FrameAt(k + 1)
  BY AdvanceSlots
<1>7. \A k \in 0 .. (IF dma.busy THEN Taken - 3 ELSE Taken - 2) : FrameAt(k)' > FrameAt(k - 1)'
  <2> SUFFICES ASSUME NEW k \in 0 .. (IF dma.busy THEN Taken - 3 ELSE Taken - 2)
               PROVE  FrameAt(k)' > FrameAt(k - 1)'
    OBVIOUS
  <2>1. FrameAt(k)' = FrameAt(k + 1) /\ FrameAt(k - 1)' = FrameAt((k - 1) + 1)
    BY <1>3, <1>6
  <2>2. (k + 1) - 1 = (k - 1) + 1 /\ k + 1 \in 0 .. (IF dma.busy THEN Taken - 2 ELSE Taken - 1)
    BY <1>3
  <2>3. FrameAt(k + 1) > FrameAt((k + 1) - 1)
    BY <2>2, FramesFacts
  <2>4. QED
    BY <2>1, <2>2, <2>3
<1>8. /\ \A k : k = Taken - 2 => FrameAt(k)' = FrameAt(Taken - 1)
      /\ dma.busy => /\ \A k : k = Taken - 3 => FrameAt(k)' = FrameAt(Taken - 2)
                     /\ \A k : k = Taken - 2 => SlotAt(k)' = SlotAt(Taken - 1)
  BY <1>3, <1>5, <1>6
<1>9. Taken' - 1 = Taken - 2 /\ Taken' - 2 = Taken - 3
  BY <1>3, <1>4
<1>10. NewestTaken' = NewestTaken
  BY <1>1, <1>8, <1>9 DEF NewestTaken
<1>11. QED
  BY <1>1, <1>2, <1>7, <1>8, <1>9, <1>10, FramesFacts DEF FramesInOrder

LEMMA FramesReader ==
  ASSUME FramesInv, PointersInv', NoTrouble, NoTrouble', NEW r \in Readers, Reader(r)
  PROVE  FramesInOrder'
<1>0. pc \in [Readers -> Holding \cup {"idle", "down", "poll_down", "test", "asleep"}]
  BY DEF FramesInv, PointersInv, TypeOK
<1>1. CASE Advance(r)
  BY <1>1, FramesAdvance
<1>2. CASE Copy(r)
  <2>1. /\ UNCHANGED <<rp, WrappedRp, ip, frames, delivered, dma, produced, localInt>>
        /\ produced \in Nat /\ \A s \in Readers : s = r \/ pc'[s] = pc[s]
        /\ pc[r] = "copy"
        /\ pc'[r] = "up" \/ copied' = frames[rp]
    BY <1>0, <1>2 DEF Copy, Goto, WrappedRp, unreadVars, boardVars, dmaVars, FramesInv, PointersInv, TypeOK
  <2>2. \A s \in Readers : pc[s] \in {"verify", "advance"} => s = r
    BY <2>1 DEF FramesInv, PointersInv, ReadersExclude, Holding
  <2>3. \A s \in Readers : pc'[s] \in {"verify", "advance"} => copied' = frames[rp]
    BY <2>1, <2>2
  <2>4. QED
    BY <2>1, <2>3, FramesKept
<1>3. CASE \/ Call(r) \/ Down(r) \/ Interrupted(r) \/ FoundEmpty(r) \/ FoundFrame(r)
           \/ TestCondition(r) \/ NotReachedIp(r) \/ Up(r)
  <2>1. /\ UNCHANGED <<rp, WrappedRp, ip, frames, delivered, dma, produced, localInt, copied>>
        /\ produced \in Nat
        /\ \A s \in Readers : pc'[s] \in {"verify", "advance"} => pc[s] \in {"verify", "advance"}
    BY <1>0, <1>3 DEF Call, Down, Interrupted, FoundEmpty, FoundFrame, TestCondition,
                      NotReachedIp, Up, Goto, WrappedRp, unreadVars, boardVars, dmaVars, FramesInv,
                      PointersInv, TypeOK
  <2>2. QED
    BY <2>1, FramesKept, FramesFacts
<1>4. CASE ReachedIp(r)
  <2>1. WrappedRp = ip /\ pc[r] = "verify" /\ ip \in Slots
    BY <1>4, ReaderFindsWrapped DEF ReachedIp, Goto, Holding, FramesInv, PointersInv
  <2>2. Distance(WrappedRp, ip) > 0
    BY <2>1, PointersFacts DEF FramesInv
  <2>3. QED
    BY <2>1, <2>2, DistanceRange
<1>5. CASE WrapRp(r)
  <2>1. /\ UNCHANGED <<WrappedRp, frames, delivered, unreadVars>>
        /\ \A s \in Readers : pc'[s] \notin {"verify", "advance"}
    BY <1>5, WrapOfRp DEF FramesInv, PointersInv
  <2>2. UNCHANGED <<ip, dma, produced, localInt>> /\ produced \in Nat
    BY <2>1 DEF unreadVars, boardVars, dmaVars, FramesInv, PointersInv, TypeOK
  <2>3. QED
    BY <2>1, <2>2, FramesKept
<1>6. QED
  BY <1>1, <1>2, <1>3, <1>4, <1>5 DEF Reader, Running

LEMMA FramesOthers ==
  ASSUME FramesInv, PointersInv', NoTrouble, NoTrouble',
         FrameArrives \/ FrameMissed \/ DmaCompletes \/ Isr \/ Dpc \/ Reset \/ UNCHANGED vars
  PROVE  FramesInOrder'
<1>1. CASE DmaCompletes
  BY <1>1, FramesCompletes
<1>2. CASE IsrFrame
  BY <1>2, FramesIsrFrame
<1>3. CASE IsrRingFull
  BY <1>3 DEF IsrRingFull, NoTrouble
<1>4. CASE Reset
  <2>1. resetPc = "idle" /\ resets = 0 /\ resets' = 0
    BY PointersFacts DEF FramesInv, NoTrouble
  <2>2. QED
    BY <1>4, <2>1 DEF Reset, ResetIp, ResetRp, ResetWp
<1>5. CASE FrameArrives \/ FrameMissed \/ IsrDmaDone \/ Dpc \/ UNCHANGED vars
  <2>1. /\ UNCHANGED <<rp, WrappedRp, ip, frames, delivered, dma, copied>>
        /\ produced' \in Nat /\ produced' >= produced
        /\ localInt' => localInt \/ produced' > produced
    BY <1>5 DEF FrameArrives, FrameMissed, IsrDmaDone, ScheduleDpc, Dpc, DpcStart, DpcAck,
                DpcPublish, DpcWrapAndWake, DpcEnable, WrappedRp, vars, boardVars, dmaVars, readVars,
                FramesInv, PointersInv, TypeOK
  <2>2. \A s \in Readers : pc'[s] \in {"verify", "advance"} => pc[s] \in {"verify", "advance"}
    BY <1>5 DEF FrameArrives, FrameMissed, IsrDmaDone, Dpc, DpcStart, DpcAck,
                DpcPublish, DpcWrapAndWake, DpcEnable, vars, readVars
  <2>3. QED
    BY <2>1, <2>2, FramesKept, FramesFacts
<1>6. QED
  BY <1>1, <1>2, <1>3, <1>4, <1>5 DEF Isr

(* From rp on to ip lie ever newer frames, the running transfer the last.  *)
THEOREM FramesStayInOrder == Spec => []FramesInOrder
<1>1. Init => FramesInOrder
  <2> SUFFICES ASSUME Init PROVE FramesInOrder
    OBVIOUS
  <2>1. /\ rp = 0 /\ wp = 0 /\ ip = 0 /\ ~dma.busy /\ produced = 0 /\ delivered = 0
        /\ ~localInt /\ \A r \in Readers : pc[r] = "idle"
    BY DEF Init, Idle
  <2>2. Taken = 0
    BY <2>1 DEF Taken, Filled, Unpublished, Distance, WrappedRp, WrappedWp
  <2>3. NewestTaken = 0
    BY <2>1, <2>2 DEF NewestTaken, FrameAt
  <2>4. QED
    BY <2>1, <2>2, <2>3 DEF FramesInOrder
<1>2. FramesInv /\ PointersInv' /\ [Next]_vars => FramesInOrder'
  <2> SUFFICES ASSUME FramesInv, PointersInv', [Next]_vars, NoTrouble' PROVE FramesInOrder'
    BY DEF FramesInOrder
  <2>1. NoTrouble
    BY TroubleStays DEF FramesInv, PointersInv
  <2>2. QED
    BY <2>1, FramesReader, FramesOthers DEF Next
<1>3. QED
  BY <1>1, <1>2, TypeCorrect, MutualExclusion, ChipOwned, PointersStayInOrder, PTL
     DEF Spec, PointersInv, FramesInv

(* The filled slots are apart from that of the transfer and from ip.       *)
LEMMA FilledIsApart ==
  ASSUME FramesInv, NoTrouble, dma.busy, NEW k \in 0 .. Filled - 1
  PROVE  SlotAt(k) # dma.slot
<1>1. Filled \in 0 .. Taken - 1 /\ Taken \in 0 .. NO_OF_BUFFERS - 1
  BY BusyIsUnpublished, TakenIsDistance DEF FramesInv
<1>2. SlotAt(Taken - 1) = dma.slot
  BY FramesFacts
<1>3. /\ Taken - 1 \in 0 .. NO_OF_BUFFERS - 1 /\ k \in 0 .. NO_OF_BUFFERS - 1
      /\ k # Taken - 1
  BY <1>1
<1>4. QED
  BY <1>2, <1>3, SlotsDiffer DEF FramesInv, PointersInv

LEMMA FilledIsBelowIp ==
  ASSUME PointersInv, NoTrouble, NEW k \in 0 .. Filled - 1
  PROVE  SlotAt(k) # ip
<1>1. Filled \in Int /\ Filled <= Taken /\ Taken \in 0 .. NO_OF_BUFFERS - 1
  BY PointersFacts, TakenIsDistance DEF Taken
<1>2. SlotAt(Taken) = ip
  BY TakenIsDistance, SlotAtIp DEF PointersInv
<1>3. Taken \in 0 .. NO_OF_BUFFERS - 1 /\ k \in 0 .. NO_OF_BUFFERS - 1 /\ k # Taken
  BY <1>1
<1>4. QED
  BY <1>2, <1>3, SlotsDiffer DEF PointersInv

(* Readers get whole frames, the oldest first, none twice, while the DMA   *)
(* engine writes elsewhere.                                                *)
THEOREM DeliveredInOrder == Spec => []DeliversInOrder
<1>1. FramesInv => DeliversInOrder
  <2> SUFFICES ASSUME FramesInv, NoTrouble
               PROVE  /\ \A k \in 0 .. Filled - 1 : FrameAt(k) > FrameAt(k - 1)
                      /\ \A r \in Readers : pc[r] \in {"verify", "advance"} =>
                           Filled > 0 /\ copied = frames[rp]
                      /\ dma.busy => \A k \in 0 .. Filled - 1 : SlotAt(k) # dma.slot
    BY DEF DeliversInOrder
  <2>1. Filled \in Int /\ Filled <= Taken /\ Taken \in 0 .. NO_OF_BUFFERS - 1
    BY PointersFacts, TakenIsDistance DEF FramesInv, Taken
  <2>2. dma.busy => Filled <= Taken - 1
    BY BusyIsUnpublished DEF FramesInv
  <2>3. \A k \in 0 .. Filled - 1 : FrameAt(k) > FrameAt(k - 1)
    BY <2>1, <2>2, FramesFacts
  <2>4. ASSUME dma.busy, NEW k \in 0 .. Filled - 1 PROVE SlotAt(k) # dma.slot
    BY <2>4, FilledIsApart
  <2>5. \A r \in Readers : pc[r] \in {"verify", "advance"} => Filled > 0 /\ copied = frames[rp]
    BY PointersFacts, FramesFacts DEF FramesInv
  <2>6. QED
    BY <2>3, <2>4, <2>5
<1>2. QED
  BY <1>1, TypeCorrect, MutualExclusion, ChipOwned, PointersStayInOrder, FramesStayInOrder, PTL
     DEF PointersInv, FramesInv

-----------------------------------------------------------------------------
(* What the counter cntr_lost_ints can tell: modulo the four hardware      *)
(* buffers.                                                                *)
Follows(a, b) == (a - b) % 4 = 1

LEMMA FollowsNext ==
  ASSUME NEW a \in Nat, NEW b \in Nat
  PROVE  /\ (a - 1) % 4 = b % 4 => Follows(a, b)
         /\ (((a - 1) % 4) + 1) % 4 = a % 4
  BY DEF Follows

NothingLost == NoTrouble /\ "lost_ints" \notin counted

(* While nothing was lost each frame taken follows the one before, and     *)
(* hw_buff_check is the hardware buffer of the frame to come.              *)
GapsTight ==
  NothingLost =>
    /\ \A k \in 0 .. (IF dma.busy THEN Taken - 2 ELSE Taken - 1) :
         Follows(FrameAt(k), FrameAt(k - 1))
    /\ dma.busy => Follows(dma.frame, FrameAt(Taken - 2))
    /\ hw_buff_check = NewestTaken % 4

GapsInv == FramesInv /\ GapsTight

LEMMA NothingLostStays ==
  ASSUME TypeOK, [Next]_vars, NothingLost'
  PROVE  NothingLost
<1>1. NoTrouble
  BY TroubleStays DEF NothingLost
<1>2. "lost_ints" \in counted => "lost_ints" \in counted'
  BY DEF Next, FrameArrives, FrameMissed, DmaCompletes, Isr, IsrRingFull, IsrFrame,
         IsrDmaDone, Dpc, DpcStart, DpcAck, DpcPublish, DpcWrapAndWake, DpcEnable,
         Reset, ResetIp, ResetRp, ResetWp, Reader, Running, Call, Down, Interrupted,
         FoundEmpty, FoundFrame, TestCondition, Copy, ReachedIp, NotReachedIp, Advance,
         WrapRp, Up,
         unreadVars, vars
<1>3. QED
  BY <1>1, <1>2 DEF NothingLost

LEMMA GapsKept ==
  ASSUME GapsInv, PointersInv', NothingLost, NothingLost',
         UNCHANGED <<WrappedRp, ip, frames, delivered, dma, hw_buff_check>>
  PROVE  GapsTight'
<1>1. Taken' = Taken
  BY TakenIsDistance, TakenIsDistanceNext DEF GapsInv, FramesInv, Distance, NothingLost
<1>2. \A k : FrameAt(k)' = FrameAt(k)
  BY DEF SlotAt, FrameAt
<1>3. NewestTaken' = NewestTaken
  BY <1>1, <1>2 DEF NewestTaken
<1>4. /\ \A k \in 0 .. (IF dma.busy THEN Taken - 2 ELSE Taken - 1) :
            Follows(FrameAt(k)', FrameAt(k - 1)')
      /\ dma.busy => Follows(dma.frame, FrameAt(Taken - 2)')
  <2>1. \A k : FrameAt(k)' = FrameAt(k) /\ FrameAt(k - 1)' = FrameAt(k - 1)
    BY <1>2
  <2>2. FrameAt(Taken - 2)' = FrameAt(Taken - 2)
    <3>1. \A k : k = Taken - 2 => FrameAt(k)' = FrameAt(k)
      BY <1>2
    <3>2. QED
      BY <1>1, <1>2 DEF FrameAt, SlotAt
  <2>3. QED
    BY <2>1, <2>2 DEF GapsInv, GapsTight
<1>5. QED
  BY <1>1, <1>3, <1>4 DEF GapsInv, GapsTight, Follows

LEMMA GapsCompletes ==
  ASSUME GapsInv, PointersInv', NothingLost, NothingLost', DmaCompletes
  PROVE  GapsTight'
<1>1. NoTrouble /\ NoTrouble' /\ FramesInv
  BY DEF NothingLost, GapsInv
<1>2. /\ dma.busy /\ ~dma'.busy
      /\ Taken' = Taken /\ Taken \in 1 .. NO_OF_BUFFERS - 1
      /\ FrameAt(Taken - 1)' = dma.frame
      /\ \A k \in -1 .. Taken - 2 : FrameAt(k)' = FrameAt(k)
      /\ hw_buff_check' = hw_buff_check
  BY <1>1, CompletesSlots DEF DmaCompletes
<1>3. ASSUME NEW k \in 0 .. Taken - 1 PROVE Follows(FrameAt(k)', FrameAt(k - 1)')
  <2>1. FrameAt(k - 1)' = FrameAt(k - 1)
    BY <1>2
  <2>2. CASE k = Taken - 1
    BY <1>2, <2>1, <2>2 DEF GapsInv, GapsTight
  <2>3. CASE k # Taken - 1
    BY <1>2, <2>1, <2>3 DEF GapsInv, GapsTight
  <2>4. QED
    BY <2>2, <2>3
<1>4. NewestTaken' = NewestTaken
  BY <1>2 DEF NewestTaken
<1>5. QED
  BY <1>2, <1>3, <1>4 DEF GapsInv, GapsTight, Follows

LEMMA GapsIsrFrame ==
  ASSUME GapsInv, PointersInv', NothingLost, NothingLost', IsrFrame
  PROVE  GapsTight'
<1>1. NoTrouble /\ NoTrouble' /\ FramesInv
  BY DEF NothingLost, GapsInv
<1>2. /\ dma' = [busy |-> TRUE, slot |-> ip, frame |-> produced]
      /\ Taken' = Taken + 1 /\ Taken \in 0 .. NO_OF_BUFFERS - 2
      /\ \A k \in -1 .. Taken - 1 :
           FrameAt(k)' = IF dma.busy /\ k = Taken - 1 THEN dma.frame ELSE FrameAt(k)
  BY <1>1, IsrFrameSlots
<1>3. /\ hw_buff_check' = (((produced - 1) % 4) + 1) % 4
      /\ (produced - 1) % 4 = hw_buff_check
  BY DEF IsrFrame, ServeLocal, LocalTrouble, HwBuffer, NothingLost
<1>4. produced \in Nat /\ NewestTaken \in Nat
  <2>1. Taken - 1 \in -1 .. NO_OF_BUFFERS - 1
    BY <1>2
  <2>2. FrameAt(Taken - 1) \in Nat
    BY <2>1, FrameIsNat DEF GapsInv, FramesInv, PointersInv
  <2>3. QED
    BY <2>2 DEF NewestTaken, GapsInv, FramesInv, PointersInv, TypeOK
<1>5. Follows(produced, NewestTaken) /\ hw_buff_check' = produced % 4
  BY <1>3, <1>4, FollowsNext DEF GapsInv, GapsTight
<1>6. \A k : k = Taken - 1 => FrameAt(k)' = NewestTaken
  BY <1>2 DEF NewestTaken
<1>7. ASSUME NEW k \in 0 .. Taken - 1 PROVE Follows(FrameAt(k)', FrameAt(k - 1)')
  <2>1. FrameAt(k - 1)' = FrameAt(k - 1)
    BY <1>2
  <2>2. CASE dma.busy /\ k = Taken - 1
    BY <1>2, <2>1, <2>2 DEF GapsInv, GapsTight
  <2>3. CASE ~(dma.busy /\ k = Taken - 1)
    BY <1>2, <2>1, <2>3 DEF GapsInv, GapsTight
  <2>4. QED
    BY <2>2, <2>3
<1>8. NewestTaken' = produced /\ dma'.busy /\ dma'.frame = produced
  BY <1>2 DEF NewestTaken
<1>9. Taken' - 2 = Taken - 1
  BY <1>2
<1>10. \A k : k = Taken - 1 => Follows(produced, FrameAt(k)')
  BY <1>5, <1>6
<1>11. QED
  BY <1>2, <1>5, <1>7, <1>8, <1>9, <1>10 DEF GapsTight, Follows

LEMMA GapsAdvance ==
  ASSUME GapsInv, PointersInv', NothingLost, NothingLost', NEW r \in Readers, Advance(r)
  PROVE  GapsTight'
<1>1. NoTrouble /\ NoTrouble' /\ FramesInv
  BY DEF NothingLost, GapsInv
<1>2. /\ UNCHANGED <<dma, hw_buff_check>>
      /\ Taken \in 1 .. NO_OF_BUFFERS - 1 /\ Taken' = Taken - 1 /\ (dma.busy => Taken >= 2)
      /\ \A k \in -1 .. NO_OF_BUFFERS - 2 : FrameAt(k)' = FrameAt(k + 1)
  BY <1>1, AdvanceSlots DEF Advance, unreadVars
<1>3. ASSUME NEW k \in 0 .. (IF dma.busy THEN Taken - 3 ELSE Taken - 2)
      PROVE  Follows(FrameAt(k)', FrameAt(k - 1)')
  <2>1. FrameAt(k)' = FrameAt(k + 1) /\ FrameAt(k - 1)' = FrameAt((k - 1) + 1)
    BY <1>2
  <2>2. (k + 1) - 1 = (k - 1) + 1 /\ k + 1 \in 0 .. (IF dma.busy THEN Taken - 2 ELSE Taken - 1)
    BY <1>2
  <2>3. Follows(FrameAt(k + 1), FrameAt((k + 1) - 1))
    BY <2>2 DEF GapsInv, GapsTight
  <2>4. QED
    BY <2>1, <2>2, <2>3
<1>4. /\ \A k : k = Taken - 2 => FrameAt(k)' = FrameAt(Taken - 1)
      /\ dma.busy => \A k : k = Taken - 3 => FrameAt(k)' = FrameAt(Taken - 2)
  BY <1>2
<1>5. Taken' - 1 = Taken - 2 /\ Taken' - 2 = Taken - 3
  BY <1>2
<1>6. NewestTaken' = NewestTaken
  BY <1>2, <1>4, <1>5 DEF NewestTaken
<1>7. dma.busy => \A k : k = Taken - 3 => Follows(dma.frame, FrameAt(k)')
  BY <1>4 DEF GapsInv, GapsTight
<1>8. hw_buff_check' = NewestTaken' % 4
  BY <1>2, <1>6 DEF GapsInv, GapsTight
<1>9. QED
  BY <1>2, <1>3, <1>5, <1>7, <1>8 DEF GapsTight, Follows

LEMMA GapsStep ==
  ASSUME GapsInv, PointersInv', [Next]_vars
  PROVE  GapsTight'
<1> SUFFICES ASSUME NothingLost' PROVE GapsTight'
  BY DEF GapsTight
<1>1. NothingLost
  BY NothingLostStays DEF GapsInv, FramesInv, PointersInv
<1>2. CASE DmaCompletes
  BY <1>1, <1>2, GapsCompletes
<1>3. CASE IsrFrame
  BY <1>1, <1>3, GapsIsrFrame
<1>4. CASE IsrRingFull \/ Reset
  <2>1. resetPc = "idle" /\ resets = 0 /\ resets' = 0 /\ "circ_full_ip" \notin counted'
    BY <1>1, PointersFacts DEF GapsInv, FramesInv, NothingLost, NoTrouble
  <2>2. ~IsrRingFull
    BY <2>1 DEF IsrRingFull
  <2>3. ~Reset
    BY <2>1 DEF Reset, ResetIp, ResetRp, ResetWp
  <2>4. QED
    BY <1>4, <2>2, <2>3
<1>5. CASE FrameArrives \/ FrameMissed \/ IsrDmaDone \/ Dpc \/ UNCHANGED vars
  <2>1. UNCHANGED <<WrappedRp, ip, frames, delivered, dma, hw_buff_check>>
    BY <1>5 DEF FrameArrives, FrameMissed, IsrDmaDone, Dpc, DpcStart, DpcAck, DpcPublish,
       DpcWrapAndWake, DpcEnable, WrappedRp, vars, dmaVars, readVars
  <2>2. QED
    BY <1>1, <2>1, GapsKept
<1>6. ASSUME NEW r \in Readers, Reader(r) PROVE GapsTight'
  <2>1. CASE Advance(r)
    BY <1>1, <2>1, GapsAdvance
  <2>2. CASE WrapRp(r)
    <3>1. UNCHANGED <<WrappedRp, frames, delivered, unreadVars>>
      BY <2>2, WrapOfRp DEF GapsInv, FramesInv, PointersInv
    <3>2. QED
      BY <1>1, <3>1, GapsKept DEF unreadVars, dmaVars
  <2>3. CASE ~Advance(r) /\ ~WrapRp(r)
    <3>1. UNCHANGED <<WrappedRp, ip, frames, delivered, dma, hw_buff_check>>
      BY <1>6, <2>3 DEF Reader, WrappedRp, Running, Call, Down, Interrupted, FoundEmpty, FoundFrame,
         TestCondition, Copy, ReachedIp, NotReachedIp, Up, unreadVars, dmaVars
    <3>2. QED
      BY <1>1, <3>1, GapsKept
  <2>4. QED
    BY <2>1, <2>2, <2>3
<1>7. QED
  BY <1>2, <1>3, <1>4, <1>5, <1>6 DEF Next, Isr

(* A frame the driver never fetched leaves its trace in cntr_lost_ints,    *)
(* but for whole rounds of the four hardware buffers.                      *)
THEOREM GapsLeaveATrace == Spec => []GapsAreCounted
<1>1. Init => GapsTight
  <2> SUFFICES ASSUME Init PROVE GapsTight
    OBVIOUS
  <2>1. rp = 0 /\ wp = 0 /\ ip = 0 /\ ~dma.busy /\ delivered = 0 /\ hw_buff_check = 0
    BY DEF Init, Idle
  <2>2. Taken = 0
    BY <2>1 DEF Taken, Filled, Unpublished, Distance, WrappedRp, WrappedWp
  <2>3. NewestTaken = 0
    BY <2>1, <2>2 DEF NewestTaken, FrameAt
  <2>4. QED
    BY <2>1, <2>2, <2>3 DEF GapsTight
<1>2. FramesInv /\ GapsTight /\ PointersInv' /\ [Next]_vars => GapsTight'
  BY GapsStep DEF GapsInv
<1>3. FramesInv /\ GapsTight => GapsAreCounted
  <2> SUFFICES ASSUME FramesInv, GapsTight, NothingLost, NEW k \in 0 .. Filled - 1
               PROVE  (FrameAt(k) - FrameAt(k - 1)) % 4 = 1
    BY DEF GapsAreCounted, NothingLost
  <2>1. Filled \in Int /\ Filled <= Taken /\ Taken \in Int /\ (dma.busy => Filled <= Taken - 1)
    BY PointersFacts, TakenIsDistance, BusyIsUnpublished DEF FramesInv, Taken, NothingLost
  <2>2. k \in 0 .. (IF dma.busy THEN Taken - 2 ELSE Taken - 1)
    BY <2>1
  <2>3. QED
    BY <2>2 DEF GapsTight, Follows
<1>4. QED
  BY <1>1, <1>2, <1>3, TypeCorrect, MutualExclusion, ChipOwned, PointersStayInOrder,
     FramesStayInOrder, PTL DEF Spec, PointersInv, FramesInv

-----------------------------------------------------------------------------
(* wait_event tests the pointers without the semaphore, and wake_up comes  *)
(* after wp was stepped.                                                   *)
SleepersHaveACall ==
  NoTrouble =>
    \A r \in Readers : pc[r] = "asleep" /\ rp # wp => dpcPc = "wrap"

SleepInv == PointersInv /\ SleepersHaveACall

(* Nobody falls asleep while there is a frame.                             *)
LEMMA CallsKept ==
  ASSUME SleepInv, NoTrouble, UNCHANGED <<rp, wp>>, dpcPc = "wrap" => dpcPc' = "wrap",
         \A r \in Readers : pc'[r] = "asleep" => pc[r] = "asleep" \/ rp = wp
  PROVE  SleepersHaveACall'
BY DEF SleepInv, SleepersHaveACall

LEMMA CallsDpc ==
  ASSUME SleepInv, NoTrouble, Dpc
  PROVE  SleepersHaveACall'
<1>1. CASE DpcStart \/ DpcAck \/ DpcEnable
  <2>1. UNCHANGED <<rp, wp, pc>> /\ dpcPc # "wrap"
    BY <1>1 DEF DpcStart, DpcAck, DpcEnable, readVars
  <2> QED BY <2>1, CallsKept
<1>2. CASE DpcPublish
  BY <1>2 DEF DpcPublish, SleepersHaveACall
<1>3. CASE DpcWrapAndWake
  <2>1. \A r \in Readers : pc'[r] # "asleep"
    BY <1>3 DEF DpcWrapAndWake
  <2> QED BY <2>1 DEF SleepersHaveACall
<1> QED BY <1>1, <1>2, <1>3 DEF Dpc

LEMMA CallsReader ==
  ASSUME SleepInv, NoTrouble, NEW r \in Readers, Reader(r)
  PROVE  SleepersHaveACall'
<1>0. /\ UNCHANGED <<wp, dpcPc>>
      /\ pc \in [Readers -> Holding \cup {"idle", "down", "poll_down", "test", "asleep"}]
  BY DEF Reader, Running, Call, Down, Interrupted, FoundEmpty, FoundFrame, TestCondition, Copy,
         ReachedIp, NotReachedIp, Advance, WrapRp, Up, unreadVars, dpcVars, SleepInv, PointersInv, TypeOK
<1>1. CASE Advance(r)
  <2>1. WrappedRp = rp /\ rp # WrappedWp
    <3>1. WrappedRp = rp /\ rp \in Slots
      BY <1>1, StepOfRp DEF SleepInv, PointersInv
    <3>2. pc[r] \in {"copy", "verify", "advance"}
      BY <1>1 DEF Advance, Goto
    <3> QED BY <3>1, <3>2, PointersFacts DEF SleepInv
  <2>2. \A s \in Readers : pc'[s] = "asleep" => pc[s] = "asleep"
    BY <1>0, <1>1 DEF Advance, Goto
  <2>3. CASE dpcPc = "wrap"
    BY <1>0, <2>3 DEF SleepersHaveACall
  <2>4. CASE dpcPc # "wrap"
    <3>1. rp # wp
      BY <2>1, <2>4 DEF WrappedWp, SleepInv, PointersInv, TypeOK
    <3>2. \A s \in Readers : pc[s] # "asleep"
      BY <2>4, <3>1 DEF SleepInv, SleepersHaveACall
    <3> QED BY <2>2, <3>2 DEF SleepersHaveACall
  <2> QED BY <2>3, <2>4
<1>2. CASE TestCondition(r)
  <2>1. UNCHANGED rp /\ \A s \in Readers : pc'[s] = "asleep" => pc[s] = "asleep" \/ rp = wp
    BY <1>0, <1>2 DEF TestCondition, Goto
  <2> QED BY <1>0, <2>1, CallsKept
<1>3. CASE \/ Call(r) \/ Down(r) \/ Interrupted(r) \/ FoundEmpty(r) \/ FoundFrame(r)
           \/ Copy(r) \/ ReachedIp(r) \/ NotReachedIp(r) \/ Up(r)
  <2>1. UNCHANGED rp /\ \A s \in Readers : pc'[s] = "asleep" => pc[s] = "asleep"
    BY <1>0, <1>3 DEF Call, Down, Interrupted, FoundEmpty, FoundFrame, Copy, ReachedIp,
                      NotReachedIp, Up, Goto
  <2> QED BY <1>0, <2>1, CallsKept
<1>4. CASE WrapRp(r)
  <2>1. \A s \in Readers : pc'[s] = "asleep" => pc[s] = "asleep"
    BY <1>4, WrapOfRp DEF SleepInv, PointersInv
  <2>2. CASE dpcPc = "wrap"
    BY <1>0, <2>2 DEF SleepersHaveACall
  <2>3. CASE dpcPc # "wrap"
    <3>1. wp # NO_OF_BUFFERS /\ (rp = wp => rp' = rp)
      BY <1>4, <2>3 DEF WrapRp, WrappedRp, SleepInv, PointersInv, TypeOK
    <3>2. \A s \in Readers : pc[s] = "asleep" => rp = wp
      BY <2>3 DEF SleepInv, SleepersHaveACall
    <3> QED BY <1>0, <2>1, <3>1, <3>2 DEF SleepersHaveACall
  <2> QED BY <2>2, <2>3
<1> QED BY <1>1, <1>2, <1>3, <1>4 DEF Reader, Running

(* No wake-up is lost, for any number of readers and buffers: until trouble*)
(* is counted, a process asleep in wait_event while there is a frame has a *)
(* deferred procedure between the store of wp and wake_up_interruptible.   *)
THEOREM NoWakeupIsLost == Spec => []SleepersHaveACall
<1>1. Init => SleepersHaveACall
  BY DEF Init, SleepersHaveACall
<1>2. SleepInv /\ [Next]_vars => SleepersHaveACall'
  <2> SUFFICES ASSUME SleepInv, [Next]_vars, NoTrouble' PROVE SleepersHaveACall'
    BY DEF SleepersHaveACall
  <2>1. NoTrouble
    BY TroubleStays DEF SleepInv, PointersInv
  <2>2. CASE FrameArrives \/ FrameMissed \/ DmaCompletes \/ Isr \/ UNCHANGED vars
    <3>1. UNCHANGED <<rp, wp, pc, dpcPc>>
      BY <2>2 DEF FrameArrives, FrameMissed, DmaCompletes, Isr, IsrRingFull, IsrFrame,
                  IsrDmaDone, vars, dpcVars, readVars
    <3> QED BY <2>1, <3>1, CallsKept
  <2>3. CASE Reset
    <3>1. resetPc = "idle"
      BY <2>1, PointersFacts DEF SleepInv
    <3>2. resets = 0
      BY <2>1 DEF NoTrouble
    <3> QED BY <2>3, <3>1, <3>2 DEF Reset, ResetIp, ResetRp, ResetWp, NoTrouble
  <2> QED BY <2>1, <2>2, <2>3, CallsDpc, CallsReader DEF Next
<1>3. Spec => []PointersInv
  BY TypeCorrect, MutualExclusion, ChipOwned, PointersStayInOrder, PTL DEF PointersInv
<1> QED BY <1>1, <1>2, <1>3, PTL DEF Spec, SleepInv

=============================================================================

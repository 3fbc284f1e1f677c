--------------------------- MODULE PlxRingProofs ---------------------------
(* Proofs about PlxRing, for every ring size and every set of processes.   *)
EXTENDS PlxRing, TLAPS

(* A pointer that steps stays in the ring.                                 *)
LEMMA SuccInSlots ==
  ASSUME NEW p \in Slots
  PROVE  Succ(p) \in Slots
  BY BuffersAssumption DEF Succ, Slots

(* The types hold where plx_drv_open leaves the driver ...                 *)
LEMMA TypeInitially == Init => TypeOK
<1> SUFFICES ASSUME Init PROVE TypeOK
  OBVIOUS
<1>1. 0 \in Slots /\ 0 \in 0 .. NO_OF_BUFFERS /\ 0 # NO_OF_BUFFERS
  BY BuffersAssumption DEF Slots
<1>2. dma \in [busy : BOOLEAN, slot : Slots, frame : Nat] /\ frames \in [Slots -> Nat]
  BY <1>1 DEF Init, Idle, Torn
<1>3. pc \in [Readers -> Holding \cup {"idle", "down", "poll_down", "test", "asleep"}]
  BY DEF Init
<1>4. /\ ip \in Slots /\ rp \in 0 .. NO_OF_BUFFERS /\ wp \in 0 .. NO_OF_BUFFERS
      /\ rp # NO_OF_BUFFERS /\ wp # NO_OF_BUFFERS
  BY <1>1 DEF Init
<1>5. /\ \A c \in counted : c \in Counters
      /\ Source_Ints \subseteq {"LOCAL", "DMA_0"} /\ IntData \subseteq {"LOCAL", "DMA_0"}
  BY DEF Init
<1>6. /\ produced \in Nat /\ copied \in Nat /\ delivered \in Nat /\ read_semph \in Nat
      /\ resets \in Nat /\ hw_buff_check \in 0 .. 3
  BY DEF Init, Torn
<1>7. /\ localInt \in BOOLEAN /\ overrun \in BOOLEAN /\ dmaInt \in BOOLEAN
      /\ intEnabled \in BOOLEAN /\ localEnabled \in BOOLEAN
      /\ dpcQueued \in BOOLEAN /\ wrapRace \in BOOLEAN
      /\ dpcPc \in {"idle", "ack", "publish", "wrap", "enable"}
      /\ resetPc \in {"idle", "rp", "wp"}
  BY DEF Init
<1>8. QED
  BY <1>2, <1>3, <1>4, <1>5, <1>6, <1>7 DEF TypeOK

(* While one process is between the increment and the wrap of rp, no other *)
(* is where it reads or steps rp to use it.                                *)
LEMMA RpInRing ==
  ASSUME TypeOK, ReadersExclude, NEW r \in Readers, pc[r] \in Holding \ {"wrap"}
  PROVE  rp \in Slots
<1>1. \A s \in Readers : pc[s] # "wrap"
  BY DEF ReadersExclude, Holding
<1>2. QED
  BY <1>1, BuffersAssumption DEF TypeOK, Slots

(* Steps that leave rp alone, and no process between its increment and its *)
(* wrap.                                                                   *)
LEMMA RpKept ==
  ASSUME TypeOK, rp' = rp, \A r \in Readers : pc[r] = "wrap" => pc'[r] = "wrap"
  PROVE  /\ rp' \in 0 .. NO_OF_BUFFERS
         /\ rp' = NO_OF_BUFFERS => \E r \in Readers : pc'[r] = "wrap"
  BY DEF TypeOK

(* ... and no step of the board, the handler, the DPC, a process or the    *)
(* reset of the pointers breaks it: rp is stepped by one process at a time.*)
LEMMA TypeStays == TypeOK /\ ReadersExclude /\ [Next]_vars => TypeOK'
<1> SUFFICES ASSUME TypeOK, ReadersExclude, [Next]_vars PROVE TypeOK'
  OBVIOUS
<1>1. CASE FrameArrives
  BY <1>1 DEF TypeOK, FrameArrives, dmaVars, enableVars, dpcVars, readVars, resetVars
<1>2. CASE FrameMissed
  BY <1>2 DEF TypeOK, FrameMissed, dmaVars, enableVars, dpcVars, readVars, resetVars
<1>3. CASE DmaCompletes
  BY <1>3, BuffersAssumption DEF TypeOK, DmaCompletes, boardVars, enableVars, dpcVars,
         readVars, resetVars, Idle, Slots, Torn
<1>0. ASSUME NEW refused \in BOOLEAN, ServeLocal(refused)
      PROVE  /\ hw_buff_check' \in 0 .. 3 /\ localInt' = FALSE /\ overrun' = FALSE
             /\ dma' \in [busy : BOOLEAN, slot : Slots, frame : Nat]
             /\ dmaInt' \in BOOLEAN
             /\ frames' \in [Slots -> Nat]
             /\ \A c \in LocalTrouble(refused) : c \in Counters
  <2>1. HwBuffer(produced) + 1 \in Int
    BY DEF TypeOK, HwBuffer
  <2>2. hw_buff_check' \in 0 .. 3
    BY <1>0, <2>1 DEF ServeLocal
  <2>3. \A c \in LocalTrouble(refused) : c \in Counters
    BY DEF LocalTrouble, Counters
  <2>4. CASE refused
    BY <1>0, <2>2, <2>3, <2>4 DEF ServeLocal, TypeOK, TransferBlock
  <2>5. CASE ~refused
    <3>1. /\ dma' = [busy |-> TRUE, slot |-> ip, frame |-> produced]
          /\ dmaInt' = (dmaInt \/ dma.busy)
          /\ frames' = [i \in Slots |-> IF i = ip THEN Torn
                                       ELSE IF dma.busy /\ i = dma.slot THEN dma.frame
                                       ELSE frames[i]]
      BY <1>0, <2>5 DEF ServeLocal, TransferBlock
    <3>2. dma' \in [busy : BOOLEAN, slot : Slots, frame : Nat] /\ dmaInt' \in BOOLEAN
      BY <3>1 DEF TypeOK
    <3>3. frames' \in [Slots -> Nat]
      BY <3>1 DEF TypeOK, Torn
    <3>4. QED
      BY <1>0, <2>2, <2>3, <3>2, <3>3 DEF ServeLocal
  <2>6. QED
    BY <2>4, <2>5
<1>4. CASE IsrRingFull
  <2>1. PICK refused \in BOOLEAN :
          /\ ServeLocal(refused)
          /\ counted' = counted \cup LocalTrouble(refused) \cup {"circ_full_ip"}
          /\ UNCHANGED <<produced, enableVars, dpcVars, readVars, resetVars, rp, wp, ip>>
    BY <1>4 DEF IsrRingFull
  <2>2. \A c \in counted' : c \in Counters
    BY <2>1, <1>0 DEF TypeOK, Counters
  <2>3. QED
    BY <2>1, <1>0, <2>2 DEF TypeOK, enableVars, dpcVars, readVars, resetVars
<1>5. CASE IsrFrame
  <2>1. PICK refused \in BOOLEAN :
          /\ ServeLocal(refused)
          /\ ip' = Succ(ip)
          /\ counted' = counted \cup LocalTrouble(refused)
          /\ ScheduleDpc({"LOCAL"} \cup DmaSource)
          /\ UNCHANGED <<produced, localEnabled, dpcPc, IntData, readVars, resetVars, rp, wp>>
    BY <1>5 DEF IsrFrame
  <2>2. \A c \in counted' : c \in Counters
    BY <2>1, <1>0 DEF TypeOK
  <2>3. QED
    BY <2>1, <1>0, <2>2, SuccInSlots DEF TypeOK, ScheduleDpc, DmaSource, readVars, resetVars
<1>6. CASE IsrDmaDone
  BY <1>6 DEF TypeOK, IsrDmaDone, ScheduleDpc, DmaSource, boardVars, dmaVars, readVars,
         resetVars
<1>7. CASE DpcStart
  BY <1>7 DEF TypeOK, DpcStart, boardVars, dmaVars, readVars, resetVars
<1>8. CASE DpcAck
  BY <1>8 DEF TypeOK, DpcAck, boardVars, enableVars, readVars, resetVars
<1>9. CASE DpcPublish
  BY <1>9, BuffersAssumption DEF TypeOK, DpcPublish, Counters, boardVars, dmaVars,
         enableVars, readVars, resetVars
<1>10. CASE DpcWrapAndWake
  <2>1. \A r \in Readers : pc[r] = "wrap" => pc'[r] = "wrap"
    BY <1>10 DEF DpcWrapAndWake
  <2>2. wp' \in 0 .. NO_OF_BUFFERS /\ wp' # NO_OF_BUFFERS
    BY <1>10, BuffersAssumption DEF DpcWrapAndWake, WrappedWp, TypeOK
  <2>3. pc' \in [Readers -> Holding \cup {"idle", "down", "poll_down", "test", "asleep"}]
    BY <1>10 DEF DpcWrapAndWake, TypeOK
  <2>4. rp' = rp
    BY <1>10 DEF DpcWrapAndWake
  <2>5. QED
    BY <1>10, <2>1, <2>2, <2>3, <2>4, RpKept DEF TypeOK, DpcWrapAndWake, boardVars, dmaVars, enableVars,
         resetVars
<1>11. CASE DpcEnable
  BY <1>11 DEF TypeOK, DpcEnable, boardVars, dmaVars, readVars, resetVars
<1>12. CASE Reset
  <2> USE BuffersAssumption DEF TypeOK, Slots, boardVars, dmaVars, enableVars, dpcVars,
                                readVars
  <2>1. CASE ResetIp
    BY <2>1 DEF ResetIp
  <2>2. CASE ResetRp
    BY <2>2 DEF ResetRp
  <2>3. CASE ResetWp
    BY <2>3 DEF ResetWp
  <2>4. QED
    BY <1>12, <2>1, <2>2, <2>3 DEF Reset
<1>13. ASSUME NEW r \in Readers, Reader(r) PROVE TypeOK'
  <2>0. ASSUME pc[r] # "wrap", \A s \in Readers \ {r} : pc'[s] = pc[s], rp' = rp
        PROVE  /\ rp' \in 0 .. NO_OF_BUFFERS
               /\ rp' = NO_OF_BUFFERS => \E s \in Readers : pc'[s] = "wrap"
    BY <2>0, RpKept
  <2> USE DEF TypeOK, unreadVars, boardVars, dmaVars, enableVars, dpcVars, resetVars,
              Goto, Holding
  <2>1. CASE Call(r)
    BY <2>1, <2>0 DEF Call
  <2>2. CASE Down(r)
    BY <2>2, <2>0 DEF Down
  <2>3. CASE Interrupted(r)
    BY <2>3, <2>0 DEF Interrupted
  <2>4. CASE FoundEmpty(r)
    BY <2>4, <2>0 DEF FoundEmpty
  <2>5. CASE FoundFrame(r)
    BY <2>5, <2>0 DEF FoundFrame
  <2>6. CASE TestCondition(r)
    BY <2>6, <2>0 DEF TestCondition
  <2>7. CASE Copy(r)
    <3>1. frames[rp] \in Nat
      BY <2>7, RpInRing DEF Copy
    <3>2. QED
      BY <2>7, <2>0, <3>1 DEF Copy
  <2>8. CASE ReachedIp(r)
    BY <2>8, <2>0 DEF ReachedIp, Torn, Counters
  <2>9. CASE NotReachedIp(r)
    BY <2>9, <2>0 DEF NotReachedIp
  <2>10. CASE Advance(r)
    <3>1. rp \in Slots
      BY <2>10, RpInRing DEF Advance
    <3>2. rp + 1 \in 0 .. NO_OF_BUFFERS /\ pc'[r] = "wrap"
      BY <2>10, <3>1, BuffersAssumption DEF Advance, Slots
    <3>3. /\ rp' \in 0 .. NO_OF_BUFFERS
          /\ rp' = NO_OF_BUFFERS => \E s \in Readers : pc'[s] = "wrap"
      BY <2>10, <3>2 DEF Advance
    <3>4. pc' \in [Readers -> Holding \cup {"idle", "down", "poll_down", "test", "asleep"}]
      BY <2>10 DEF Advance
    <3>5. /\ delivered' = copied /\ copied' = 0
          /\ UNCHANGED <<unreadVars, read_semph, wrapRace, counted>>
      BY <2>10 DEF Advance, Torn
    <3> HIDE DEF Goto
    <3>6. QED
      BY <3>3, <3>4, <3>5
  <2>11. CASE WrapRp(r)
    <3>1. rp' \in 0 .. NO_OF_BUFFERS /\ rp' # NO_OF_BUFFERS
      BY <2>11, BuffersAssumption DEF WrapRp, WrappedRp
    <3>2. QED
      BY <2>11, <3>1 DEF WrapRp
  <2>12. CASE Up(r)
    BY <2>12, <2>0 DEF Up
  <2>13. QED
    BY <1>13, <2>1, <2>2, <2>3, <2>4, <2>5, <2>6, <2>7, <2>8, <2>9, <2>10, <2>11, <2>12
       DEF Reader, Running
<1>14. CASE UNCHANGED vars
  BY <1>14 DEF TypeOK, vars, boardVars, dmaVars, enableVars, dpcVars, readVars, resetVars
<1>15. QED
  BY <1>1, <1>2, <1>3, <1>4, <1>5, <1>6, <1>7, <1>8, <1>9, <1>10, <1>11, <1>12, <1>13,
     <1>14 DEF Next, Isr, Dpc

-----------------------------------------------------------------------------
(* The processes as the semaphore sees them: TypeOK and these two together *)
(* are inductive.                                                          *)
SemaphoreInv == TypeOK /\ ReadersExclude /\ SemaphoreLostOnlyAtIp

(* A step that moves nobody across down or up, and no counter back.        *)
LEMMA SemaphoreKept ==
  ASSUME SemaphoreInv, read_semph' = read_semph,
         \A r \in Readers : pc'[r] \in Holding <=> pc[r] \in Holding,
         "circ_empty_rp" \in counted => "circ_empty_rp" \in counted'
  PROVE  ReadersExclude' /\ SemaphoreLostOnlyAtIp'
  BY DEF SemaphoreInv, ReadersExclude, SemaphoreLostOnlyAtIp

(* A process takes the semaphore.                                          *)
LEMMA SemaphoreTaken ==
  ASSUME SemaphoreInv, NEW r \in Readers, read_semph = 1, read_semph' = 0,
         pc'[r] \in Holding, \A s \in Readers \ {r} : pc'[s] = pc[s]
  PROVE  ReadersExclude' /\ SemaphoreLostOnlyAtIp'
  BY DEF SemaphoreInv, ReadersExclude, SemaphoreLostOnlyAtIp

(* The process that holds it gives it back.                                *)
LEMMA SemaphoreGiven ==
  ASSUME SemaphoreInv, NEW r \in Readers, pc[r] \in Holding,
         read_semph' = read_semph + 1, pc'[r] \notin Holding,
         \A s \in Readers \ {r} : pc'[s] = pc[s]
  PROVE  ReadersExclude' /\ SemaphoreLostOnlyAtIp'
<1>1. read_semph = 0
  BY DEF SemaphoreInv, SemaphoreLostOnlyAtIp
<1>2. \A s \in Readers : pc'[s] \notin Holding
  BY DEF SemaphoreInv, ReadersExclude
<1>3. QED
  BY <1>1, <1>2 DEF ReadersExclude, SemaphoreLostOnlyAtIp

(* The holder leaves by the return that has no up().                       *)
LEMMA SemaphoreLost ==
  ASSUME SemaphoreInv, NEW r \in Readers, pc[r] \in Holding,
         read_semph' = read_semph, pc'[r] \notin Holding,
         \A s \in Readers \ {r} : pc'[s] = pc[s], "circ_empty_rp" \in counted'
  PROVE  ReadersExclude' /\ SemaphoreLostOnlyAtIp'
<1>1. read_semph = 0
  BY DEF SemaphoreInv, SemaphoreLostOnlyAtIp
<1>2. \A s \in Readers : pc'[s] \notin Holding
  BY DEF SemaphoreInv, ReadersExclude
<1>3. QED
  BY <1>1, <1>2 DEF ReadersExclude, SemaphoreLostOnlyAtIp

(* No step of read() or poll() breaks the semaphore.                       *)
LEMMA SemaphoreReader ==
  ASSUME SemaphoreInv, NEW r \in Readers, Reader(r)
  PROVE  ReadersExclude' /\ SemaphoreLostOnlyAtIp'
<1> DEFINE Labels == Holding \cup {"idle", "down", "poll_down", "test", "asleep"}
<1>0. pc \in [Readers -> Labels]
  BY DEF SemaphoreInv, TypeOK
<1>1. CASE Call(r) \/ Interrupted(r) \/ TestCondition(r)
  <2>1. /\ pc[r] \notin Holding /\ pc'[r] \notin Holding /\ read_semph' = read_semph
        /\ \A s \in Readers \ {r} : pc'[s] = pc[s]
        /\ counted' = counted
    BY <1>0, <1>1 DEF Call, Interrupted, TestCondition, Goto, Holding
  <2>2. QED
    BY <2>1, SemaphoreKept
<1>2. CASE FoundFrame(r) \/ Copy(r) \/ NotReachedIp(r) \/ Advance(r) \/ WrapRp(r)
  <2>1. /\ pc[r] \in Holding /\ pc'[r] \in Holding /\ read_semph' = read_semph
        /\ \A s \in Readers \ {r} : pc'[s] = pc[s]
        /\ counted' = counted
    BY <1>0, <1>2 DEF FoundFrame, Copy, NotReachedIp, Advance, WrapRp, Goto, Holding
  <2>2. QED
    BY <2>1, SemaphoreKept
<1>3. CASE Down(r)
  <2>1. /\ read_semph = 1 /\ read_semph' = 0 /\ pc'[r] \in Holding
        /\ \A s \in Readers \ {r} : pc'[s] = pc[s]
    BY <1>0, <1>3 DEF Down, Goto, Holding
  <2>2. QED
    BY <2>1, SemaphoreTaken
<1>4. CASE FoundEmpty(r) \/ Up(r)
  <2>1. /\ pc[r] \in Holding /\ read_semph' = read_semph + 1 /\ pc'[r] \notin Holding
        /\ \A s \in Readers \ {r} : pc'[s] = pc[s]
    BY <1>0, <1>4 DEF FoundEmpty, Up, Goto, Holding
  <2>2. QED
    BY <2>1, SemaphoreGiven
<1>5. CASE ReachedIp(r)
  <2>1. /\ pc[r] \in Holding /\ read_semph' = read_semph /\ pc'[r] \notin Holding
        /\ \A s \in Readers \ {r} : pc'[s] = pc[s]
        /\ "circ_empty_rp" \in counted'
    BY <1>0, <1>5 DEF ReachedIp, Goto, Holding
  <2>2. QED
    BY <2>1, SemaphoreLost
<1>6. QED
  BY <1>1, <1>2, <1>3, <1>4, <1>5 DEF Reader, Running

(* Neither the board, the ISR, the DPC nor the ioctl does.                 *)
LEMMA SemaphoreOthers ==
  ASSUME SemaphoreInv,
         FrameArrives \/ FrameMissed \/ DmaCompletes \/ Isr \/ Dpc \/ Reset \/ UNCHANGED vars
  PROVE  ReadersExclude' /\ SemaphoreLostOnlyAtIp'
<1>1. read_semph' = read_semph
  BY DEF FrameArrives, FrameMissed, DmaCompletes, Isr, IsrRingFull, IsrFrame, IsrDmaDone,
         Dpc, DpcStart, DpcAck, DpcPublish, DpcWrapAndWake, DpcEnable,
         Reset, ResetIp, ResetRp, ResetWp, vars, readVars
<1>2. "circ_empty_rp" \in counted => "circ_empty_rp" \in counted'
  BY DEF FrameArrives, FrameMissed, DmaCompletes, Isr, IsrRingFull, IsrFrame, IsrDmaDone,
         Dpc, DpcStart, DpcAck, DpcPublish, DpcWrapAndWake, DpcEnable,
         Reset, ResetIp, ResetRp, ResetWp, vars
<1>3. \A r \in Readers : pc'[r] \in Holding <=> pc[r] \in Holding
  <2>1. CASE DpcWrapAndWake
    BY <2>1 DEF DpcWrapAndWake, Holding
  <2>2. CASE pc' = pc
    BY <2>2
  <2>3. QED
    BY <2>1, <2>2
       DEF FrameArrives, FrameMissed, DmaCompletes, Isr, IsrRingFull, IsrFrame, IsrDmaDone,
           Dpc, DpcStart, DpcAck, DpcPublish, DpcEnable, Reset, ResetIp, ResetRp, ResetWp,
           vars, readVars
<1>4. QED
  BY <1>1, <1>2, <1>3, SemaphoreKept

LEMMA SemaphoreInitially == Init => SemaphoreInv
BY TypeInitially DEF Init, SemaphoreInv, ReadersExclude, SemaphoreLostOnlyAtIp, Holding

LEMMA SemaphoreStays == SemaphoreInv /\ [Next]_vars => SemaphoreInv'
<1> SUFFICES ASSUME SemaphoreInv, [Next]_vars PROVE SemaphoreInv'
  OBVIOUS
<1>1. TypeOK'
  BY TypeStays DEF SemaphoreInv
<1>2. ReadersExclude' /\ SemaphoreLostOnlyAtIp'
  BY SemaphoreReader, SemaphoreOthers DEF Next
<1> QED BY <1>1, <1>2 DEF SemaphoreInv

(* Processes exclude each other between down and up of read_semph, and the *)
(* semaphore is given back but for the one return in plx_drv_read.         *)
THEOREM Semaphore == Spec => []SemaphoreInv
BY SemaphoreInitially, SemaphoreStays, PTL DEF Spec

(* Every variable keeps its type, and the pointers stay in the ring but for*)
(* the moments between their increment and their wrap: wp in               *)
(* plx_dpc_for_isr, rp in the one process that holds the semaphore.        *)
THEOREM TypeCorrect == Spec => []TypeOK
BY Semaphore, PTL DEF SemaphoreInv

(* Readers never overlap.                                                  *)
THEOREM MutualExclusion == Spec => []ReadersExclude
BY Semaphore, PTL DEF SemaphoreInv

(* The semaphore is lost at one place only.                                *)
THEOREM LostOnlyAtIp == Spec => []SemaphoreLostOnlyAtIp
BY Semaphore, PTL DEF SemaphoreInv

-----------------------------------------------------------------------------
(* The chip is masked from the queueing of the DPC to its end, and one DPC *)
(* is under way at most.                                                   *)
THEOREM ChipOwned == Spec => []DpcOwnsChip
<1>1. Init => DpcOwnsChip
  BY DEF Init, DpcOwnsChip
<1>2. TypeOK /\ DpcOwnsChip /\ [Next]_vars => DpcOwnsChip'
  <2> SUFFICES ASSUME TypeOK, DpcOwnsChip, [Next]_vars PROVE DpcOwnsChip'
    OBVIOUS
  <2> USE DEF DpcOwnsChip
  <2>1. CASE FrameArrives \/ FrameMissed \/ DmaCompletes
    BY <2>1 DEF FrameArrives, FrameMissed, DmaCompletes, dmaVars, enableVars, dpcVars
  <2>2. CASE IsrRingFull
    <3>1. dmaInt => dmaInt'
      BY <2>2 DEF IsrRingFull, ServeLocal, TransferBlock
    <3>2. QED
      BY <2>2, <3>1 DEF IsrRingFull, enableVars, dpcVars
  <2>3. CASE IsrFrame
    <3>1. PICK refused \in BOOLEAN : ServeLocal(refused)
      BY <2>3 DEF IsrFrame
    <3>2. dmaInt => dmaInt'
      BY <3>1 DEF ServeLocal, TransferBlock
    <3>3. QED
      BY <2>3, <3>1, <3>2 DEF IsrFrame, ServeLocal, ScheduleDpc, DmaSource
  <2>4. CASE IsrDmaDone
    BY <2>4 DEF IsrDmaDone, ScheduleDpc, DmaSource, dmaVars
  <2>5. CASE Dpc
    BY <2>5 DEF TypeOK, Dpc, DpcStart, DpcAck, DpcPublish, DpcWrapAndWake, DpcEnable,
                dmaVars, enableVars
  <2>6. CASE Reset
    BY <2>6 DEF Reset, ResetIp, ResetRp, ResetWp, dmaVars, enableVars, dpcVars
  <2>7. ASSUME NEW r \in Readers, Reader(r) PROVE DpcOwnsChip'
    <3>1. UNCHANGED <<dmaVars, enableVars, dpcVars>>
      BY <2>7 DEF Reader, Running, Call, Down, Interrupted, FoundEmpty, FoundFrame,
                  TestCondition, Copy, ReachedIp, NotReachedIp, Advance,
                  WrapRp, Up, unreadVars
    <3>2. QED
      BY <3>1 DEF dmaVars, enableVars, dpcVars
  <2>8. CASE UNCHANGED vars
    BY <2>8 DEF vars, dmaVars, enableVars, dpcVars
  <2>9. QED
    BY <2>1, <2>2, <2>3, <2>4, <2>5, <2>6, <2>7, <2>8 DEF Next, Isr
<1>3. QED
  BY <1>1, <1>2, TypeCorrect, PTL DEF Spec

=============================================================================

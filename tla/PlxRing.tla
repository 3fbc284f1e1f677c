------------------------------ MODULE PlxRing ------------------------------
(***************************************************************************)
(* The frame ring of the PLX 8311 frame-grabber driver, during a session   *)
(* in which the device stays open (kernel/device_driver/chardrv/plx).      *)
(*                                                                         *)
(* A detector frame raises a local interrupt.  plx_on_interrupt starts a   *)
(* DMA into the kernel buffer frames[ip] and steps ip; the end of the DMA  *)
(* raises a second interrupt, which plx_on_interrupt hands to the deferred *)
(* procedure plx_dpc_for_isr; that one steps wp and wakes the readers;     *)
(* plx_drv_read copies frames[rp] out and steps rp.  Readers exclude each  *)
(* other with read_semph, but nothing locks the three pointers against the *)
(* interrupt side.                                                         *)
(*                                                                         *)
(* The detector, the DMA engine and the signals are the environment.       *)
(***************************************************************************)
EXTENDS Integers

CONSTANTS
  NO_OF_BUFFERS,  \* kernel buffers in the ring (8 in the driver)
  Readers,        \* processes that call read() and poll() on the device
  MaxFrames,      \* bound: frames the detector delivers
  MaxResets       \* bound: ORDER_HW 0x9 calls

ASSUME BuffersAssumption == NO_OF_BUFFERS \in Nat /\ NO_OF_BUFFERS >= 2
ASSUME BoundsAssumption == MaxFrames \in Nat /\ MaxResets \in Nat

VARIABLES
  \* the board
  produced,      \* number of the newest frame in the detector's memory
  localInt,      \* card status bit 30: a frame waits to be fetched
  overrun,       \* card status bit 31: a frame came while bit 30 was set
  dma,           \* DMA channel 0: is it running, into which slot, what frame
  dmaInt,        \* DMA channel 0 done interrupt, not yet acknowledged
  intEnabled,    \* PCI8311_INT_CTRL_STAT bit 8: interrupts of the chip
  localEnabled,  \* PCI8311_INT_CTRL_STAT bit 11: local interrupt
  \* the driver
  frames,        \* frame number held by each kernel buffer, Torn if none
  rp, wp, ip,    \* read, write and interrupt pointer
  hw_buff_check, \* the hardware buffer expected next, modulo 4
  counted,       \* the error counters that are no longer zero
  Source_Ints,   \* what the ISR found, left for the DPC
  dpcQueued,     \* the DPC's work item is pending on my_workqueue
  dpcPc, IntData,\* where the DPC is, and its copy of Source_Ints
  read_semph,    \* value of the semaphore
  pc,            \* where each process is in read() or poll()
  copied,        \* frame number read() has copied to user space
  resetPc,       \* where ORDER_HW 0x9 is
  \* history, not in the code
  delivered,     \* frame number of the last read() that succeeded
  wrapRace,      \* a reader took wp = NO_OF_BUFFERS for a filled slot
  resets         \* ORDER_HW 0x9 calls so far

boardVars  == <<produced, localInt, overrun>>
dmaVars    == <<dma, dmaInt, frames>>
enableVars == <<intEnabled, localEnabled>>
dpcVars    == <<Source_Ints, dpcQueued, dpcPc, IntData>>
readVars   == <<read_semph, pc, copied, delivered, wrapRace>>
resetVars  == <<resetPc, resets>>
vars == <<boardVars, dmaVars, enableVars, dpcVars, readVars, resetVars,
          rp, wp, ip, hw_buff_check, counted>>

Slots == 0 .. NO_OF_BUFFERS - 1

Torn == 0   \* content of a buffer no DMA has filled, or one is filling

Idle == [busy |-> FALSE, slot |-> 0, frame |-> Torn]

(* The four frame buffers of the board are filled in turn.                 *)
HwBuffer(frame) == (frame - 1) % 4

(* A pointer steps to the next slot of the ring.                           *)
Succ(p) == IF p + 1 = NO_OF_BUFFERS THEN 0 ELSE p + 1

(* A pointer that was stepped in place and is not yet wrapped means slot 0.*)
WrappedRp == IF rp = NO_OF_BUFFERS THEN 0 ELSE rp
WrappedWp == IF wp = NO_OF_BUFFERS THEN 0 ELSE wp

(* Mutant: the full ring is not seen when the pointers straddle the wrap.  *)
ReachesReaderNoWrap(p) == p + 1 = rp

(* "Check if we have reached the read pointer".                            *)
ReachesReader(p) == p + 1 = rp \/ (p + 1 = NO_OF_BUFFERS /\ rp = 0)

-----------------------------------------------------------------------------
(* The board.                                                              *)

FrameArrives ==
  /\ produced < MaxFrames
  /\ produced' = produced + 1
  /\ overrun' = (overrun \/ localInt)
  /\ localInt' = TRUE
  /\ UNCHANGED <<dmaVars, enableVars, dpcVars, readVars, resetVars,
                 rp, wp, ip, hw_buff_check, counted>>

(* A frame whose interrupt is wiped out: it came between the ISR's read of *)
(* the card status and its write of bit 30.                                *)
FrameMissed ==
  /\ produced < MaxFrames
  /\ produced' = produced + 1
  /\ UNCHANGED <<localInt, overrun, dmaVars, enableVars, dpcVars, readVars,
                 resetVars, rp, wp, ip, hw_buff_check, counted>>

DmaCompletes ==
  /\ dma.busy
  /\ frames' = [frames EXCEPT ![dma.slot] = dma.frame]
  /\ dma' = Idle
  /\ dmaInt' = TRUE
  /\ UNCHANGED <<boardVars, enableVars, dpcVars, readVars, resetVars,
                 rp, wp, ip, hw_buff_check, counted>>

-----------------------------------------------------------------------------
(* plx_on_interrupt.  It runs with the interrupts of its CPU off.  Of what *)
(* others write it reads rp, and ReachesReader, which does so twice, gives *)
(* the answer of one of the two moments; of what others read it writes ip  *)
(* once.  So it is one step.                                               *)

(* Mutant: the transfer goes to the slot at wp (built without STEP_IN_INT). *)
TransferBlockAtWp(refused) ==
  IF refused
    THEN dma.busy /\ UNCHANGED <<dma, dmaInt, frames>>
    ELSE /\ dma' = [busy |-> TRUE, slot |-> wp, frame |-> produced]
         /\ dmaInt' = (dmaInt \/ dma.busy)
         /\ frames' = [frames EXCEPT ![wp] = Torn]

(* plx_dma_transfer_block: refused while the previous transfer runs.  When *)
(* that one ends after the ISR has read the interrupt status, its interrupt*)
(* stays behind and the new transfer starts.                               *)
TransferBlock(refused) ==
  IF refused
    THEN dma.busy /\ UNCHANGED <<dma, dmaInt, frames>>
    ELSE /\ dma' = [busy |-> TRUE, slot |-> ip, frame |-> produced]
         /\ dmaInt' = (dmaInt \/ dma.busy)
         /\ frames' = [i \in Slots |->
                         IF i = ip THEN Torn
                         ELSE IF dma.busy /\ i = dma.slot THEN dma.frame
                         ELSE frames[i]]

(* Mutant: the hardware buffer is not compared with the one expected.      *)
LocalTroubleNoCompare(refused) ==
  (IF overrun THEN {"lost_hw_ints"} ELSE {})
    \cup (IF refused THEN {"failed_dma"} ELSE {})

(* What serving the local interrupt adds to the error counters.            *)
LocalTrouble(refused) ==
  (IF overrun THEN {"lost_hw_ints"} ELSE {})
    \cup (IF HwBuffer(produced) # hw_buff_check THEN {"lost_ints"} ELSE {})
    \cup (IF refused THEN {"failed_dma"} ELSE {})

(* The part common to every local interrupt, up to the check of ip.        *)
ServeLocal(refused) ==
  /\ intEnabled /\ localInt /\ localEnabled
  /\ hw_buff_check' = (HwBuffer(produced) + 1) % 4
  /\ localInt' = FALSE
  /\ overrun' = FALSE
  /\ TransferBlock(refused)

(* Mutant: the chip stays unmasked while the DPC is queued.                *)
ScheduleDpcUnmasked(source) ==
  /\ Source_Ints' = source
  /\ dpcQueued' = TRUE
  /\ UNCHANGED intEnabled

(* Mask the chip and leave the rest to the DPC.  queue_work does nothing   *)
(* when the work item is pending already.                                  *)
ScheduleDpc(source) ==
  /\ intEnabled' = FALSE
  /\ Source_Ints' = source
  /\ dpcQueued' = TRUE

(* Mutant: the interrupt of the transfer is not noted.                     *)
DmaSourceNone == {}

DmaSource == IF dmaInt THEN {"DMA_0"} ELSE {}

(* The ring is full: early return, ip and the DMA interrupt stay.          *)
IsrRingFull ==
  \E refused \in BOOLEAN :
    /\ ServeLocal(refused)
    /\ ReachesReader(ip)
    /\ counted' = counted \cup LocalTrouble(refused) \cup {"circ_full_ip"}
    /\ UNCHANGED <<produced, enableVars, dpcVars, readVars, resetVars,
                   rp, wp, ip>>

IsrFrame ==
  \E refused \in BOOLEAN :
    /\ ServeLocal(refused)
    /\ ~ReachesReader(ip)
    /\ ip' = Succ(ip)
    /\ counted' = counted \cup LocalTrouble(refused)
    /\ ScheduleDpc({"LOCAL"} \cup DmaSource)
    /\ UNCHANGED <<produced, localEnabled, dpcPc, IntData, readVars,
                   resetVars, rp, wp>>

IsrDmaDone ==
  /\ intEnabled /\ dmaInt
  /\ ~(localInt /\ localEnabled)
  /\ ScheduleDpc(DmaSource)
  /\ UNCHANGED <<boardVars, dmaVars, localEnabled, dpcPc, IntData, readVars,
                 resetVars, rp, wp, ip, hw_buff_check, counted>>

Isr == IsrRingFull \/ IsrFrame \/ IsrDmaDone

-----------------------------------------------------------------------------
(* plx_dpc_for_isr, on the single thread of my_workqueue.                  *)

DpcStart ==
  /\ dpcPc = "idle" /\ dpcQueued
  /\ dpcQueued' = FALSE
  /\ IntData' = Source_Ints
  /\ localEnabled' = (localEnabled /\ "LOCAL" \notin Source_Ints)
  /\ dpcPc' = IF "DMA_0" \in Source_Ints THEN "ack" ELSE "enable"
  /\ UNCHANGED <<boardVars, dmaVars, intEnabled, Source_Ints, readVars,
                 resetVars, rp, wp, ip, hw_buff_check, counted>>

(* Mutant: the DMA interrupt is not cleared.                               *)
DpcAckKeepsInterrupt ==
  /\ dpcPc = "ack"
  /\ dpcPc' = "publish"
  /\ UNCHANGED <<boardVars, dmaVars, enableVars, Source_Ints, dpcQueued,
                 IntData, readVars, resetVars, rp, wp, ip, hw_buff_check,
                 counted>>

DpcAck ==
  /\ dpcPc = "ack"
  /\ dmaInt' = FALSE
  /\ dpcPc' = "publish"
  /\ UNCHANGED <<boardVars, dma, frames, enableVars, Source_Ints, dpcQueued,
                 IntData, readVars, resetVars, rp, wp, ip, hw_buff_check,
                 counted>>

(* wp is stepped in place; the wrap is a store of its own.                 *)
DpcPublish ==
  /\ dpcPc = "publish"
  /\ IF ReachesReader(wp)
       THEN counted' = counted \cup {"circ_full_wp"} /\ UNCHANGED wp
       ELSE wp' = wp + 1 /\ UNCHANGED counted
  /\ dpcPc' = "wrap"
  /\ UNCHANGED <<boardVars, dmaVars, enableVars, Source_Ints, dpcQueued,
                 IntData, readVars, resetVars, rp, ip, hw_buff_check>>

(* Mutant: nobody is woken.                                                *)
DpcWrapOnly ==
  /\ dpcPc = "wrap"
  /\ wp' = WrappedWp
  /\ dpcPc' = "enable"
  /\ UNCHANGED <<boardVars, dmaVars, enableVars, Source_Ints, dpcQueued,
                 IntData, readVars, resetVars, rp, ip, hw_buff_check, counted>>

(* The wrap of wp, then wake_up_interruptible on read_queue.               *)
DpcWrapAndWake ==
  /\ dpcPc = "wrap"
  /\ wp' = WrappedWp
  /\ pc' = [r \in Readers |-> IF pc[r] = "asleep" THEN "test" ELSE pc[r]]
  /\ dpcPc' = "enable"
  /\ UNCHANGED <<boardVars, dmaVars, enableVars, Source_Ints, dpcQueued,
                 IntData, read_semph, copied, delivered, wrapRace, resetVars,
                 rp, ip, hw_buff_check, counted>>

(* Mutant: the chip is not unmasked.                                       *)
DpcEnableForgets ==
  /\ dpcPc = "enable"
  /\ localEnabled' = TRUE
  /\ dpcPc' = "idle"
  /\ UNCHANGED <<boardVars, dmaVars, intEnabled, Source_Ints, dpcQueued,
                 IntData, readVars, resetVars, rp, wp, ip, hw_buff_check,
                 counted>>

DpcEnable ==
  /\ dpcPc = "enable"
  /\ intEnabled' = TRUE
  /\ localEnabled' = TRUE
  /\ dpcPc' = "idle"
  /\ UNCHANGED <<boardVars, dmaVars, Source_Ints, dpcQueued, IntData,
                 readVars, resetVars, rp, wp, ip, hw_buff_check, counted>>

Dpc == DpcStart \/ DpcAck \/ DpcPublish \/ DpcWrapAndWake \/ DpcEnable

-----------------------------------------------------------------------------
(* plx_drv_read and plx_drv_poll.                                          *)

unreadVars == <<boardVars, dmaVars, enableVars, dpcVars, resetVars,
                wp, ip, hw_buff_check>>

Goto(r, from, to) == pc[r] = from /\ pc' = [pc EXCEPT ![r] = to]

Call(r) ==
  /\ Goto(r, "idle", "down") \/ Goto(r, "idle", "poll_down")
  /\ UNCHANGED <<unreadVars, rp, read_semph, copied, delivered, wrapRace,
                 counted>>

Down(r) ==
  /\ Goto(r, "down", "check") \/ Goto(r, "poll_down", "poll_up")
  /\ read_semph = 1
  /\ read_semph' = 0
  /\ UNCHANGED <<unreadVars, rp, copied, delivered, wrapRace, counted>>

(* A signal ends down_interruptible and wait_event_interruptible.          *)
Interrupted(r) ==
  /\ \E from \in {"down", "poll_down", "asleep"} : Goto(r, from, "idle")
  /\ UNCHANGED <<unreadVars, rp, read_semph, copied, delivered, wrapRace,
                 counted>>

(* Mutant: the semaphore is not released before waiting.                   *)
FoundEmptyKeepsLock(r) ==
  /\ rp = wp
  /\ Goto(r, "check", "idle") \/ Goto(r, "check", "test")
  /\ UNCHANGED <<unreadVars, rp, read_semph, copied, delivered, wrapRace,
                 counted>>

(* Nothing to read: release, then give up (O_NONBLOCK) or wait.            *)
FoundEmpty(r) ==
  /\ rp = wp
  /\ Goto(r, "check", "idle") \/ Goto(r, "check", "test")
  /\ read_semph' = read_semph + 1
  /\ UNCHANGED <<unreadVars, rp, copied, delivered, wrapRace, counted>>

(* Mutant: the pointers are not compared once the semaphore is held.       *)
FoundFrameAnyway(r) ==
  /\ Goto(r, "check", "copy")
  /\ wrapRace' = (wrapRace \/ (wp = NO_OF_BUFFERS /\ rp = 0))
  /\ UNCHANGED <<unreadVars, rp, read_semph, copied, delivered, counted>>

FoundFrame(r) ==
  /\ rp # wp
  /\ Goto(r, "check", "copy")
  /\ wrapRace' = (wrapRace \/ (wp = NO_OF_BUFFERS /\ rp = 0))
  /\ UNCHANGED <<unreadVars, rp, read_semph, copied, delivered, counted>>

(* Mutant: the semaphore is not taken again after the wait.                *)
TestConditionNoDown(r) ==
  /\ Goto(r, "test", IF rp # wp THEN "check" ELSE "asleep")
  /\ UNCHANGED <<unreadVars, rp, read_semph, copied, delivered, wrapRace,
                 counted>>

(* wait_event_interruptible looks at the pointers without the semaphore.   *)
TestCondition(r) ==
  /\ Goto(r, "test", IF rp # wp THEN "down" ELSE "asleep")
  /\ UNCHANGED <<unreadVars, rp, read_semph, copied, delivered, wrapRace,
                 counted>>

(* copy_to_user, which may fail.                                           *)
Copy(r) ==
  /\ \/ Goto(r, "copy", "verify") /\ copied' = frames[rp]
     \/ Goto(r, "copy", "up") /\ UNCHANGED copied
  /\ UNCHANGED <<unreadVars, rp, read_semph, delivered, wrapRace, counted>>

(* "This should never occur!": the return that keeps the semaphore.        *)
ReachedIp(r) ==
  /\ rp = ip
  /\ Goto(r, "verify", "idle")
  /\ counted' = counted \cup {"circ_empty_rp"}
  /\ copied' = Torn
  /\ UNCHANGED <<unreadVars, rp, read_semph, delivered, wrapRace>>

NotReachedIp(r) ==
  /\ rp # ip
  /\ Goto(r, "verify", "advance")
  /\ UNCHANGED <<unreadVars, rp, read_semph, copied, delivered, wrapRace,
                 counted>>

(* Mutant: the frame is handed out and stays in the ring.                  *)
AdvanceNot(r) ==
  /\ Goto(r, "advance", "wrap")
  /\ delivered' = copied
  /\ copied' = Torn
  /\ UNCHANGED <<unreadVars, rp, read_semph, wrapRace, counted>>

(* rp is stepped in place; the wrap is a store of its own.                 *)
Advance(r) ==
  /\ Goto(r, "advance", "wrap")
  /\ rp' = rp + 1
  /\ delivered' = copied
  /\ copied' = Torn
  /\ UNCHANGED <<unreadVars, read_semph, wrapRace, counted>>

(* Mutant: rp does not wrap.                                               *)
WrapRpNot(r) ==
  /\ Goto(r, "wrap", "up")
  /\ UNCHANGED <<unreadVars, rp, read_semph, copied, delivered, wrapRace, counted>>

WrapRp(r) ==
  /\ Goto(r, "wrap", "up")
  /\ rp' = WrappedRp
  /\ UNCHANGED <<unreadVars, read_semph, copied, delivered, wrapRace, counted>>

Up(r) ==
  /\ Goto(r, "up", "idle") \/ Goto(r, "poll_up", "idle")
  /\ read_semph' = read_semph + 1
  /\ UNCHANGED <<unreadVars, rp, copied, delivered, wrapRace, counted>>

(* The steps of a process that neither blocks nor is outside the driver.   *)
Running(r) ==
  \/ FoundEmpty(r) \/ FoundFrame(r) \/ TestCondition(r) \/ Copy(r)
  \/ ReachedIp(r) \/ NotReachedIp(r) \/ Advance(r) \/ WrapRp(r) \/ Up(r)

Reader(r) == Call(r) \/ Down(r) \/ Interrupted(r) \/ Running(r)

-----------------------------------------------------------------------------
(* ORDER_HW 0x9 of plx_drv_ioctl: wp = rp = ip = 0, three stores, no lock. *)

ResetIp ==
  /\ resetPc = "idle" /\ resets < MaxResets
  /\ ip' = 0
  /\ resetPc' = "rp" /\ resets' = resets + 1
  /\ UNCHANGED <<boardVars, dmaVars, enableVars, dpcVars, readVars, rp, wp,
                 hw_buff_check, counted>>

ResetRp ==
  /\ resetPc = "rp"
  /\ rp' = 0
  /\ resetPc' = "wp"
  /\ UNCHANGED <<boardVars, dmaVars, enableVars, dpcVars, readVars, resets,
                 ip, wp, hw_buff_check, counted>>

ResetWp ==
  /\ resetPc = "wp"
  /\ wp' = 0
  /\ resetPc' = "idle"
  /\ UNCHANGED <<boardVars, dmaVars, enableVars, dpcVars, readVars, resets,
                 ip, rp, hw_buff_check, counted>>

Reset == ResetIp \/ ResetRp \/ ResetWp

-----------------------------------------------------------------------------
(* plx_drv_open has set up the channel, the buffers and the handler.       *)
Init ==
  /\ produced = 0 /\ localInt = FALSE /\ overrun = FALSE
  /\ dma = Idle /\ dmaInt = FALSE
  /\ frames = [i \in Slots |-> Torn]
  /\ intEnabled = TRUE /\ localEnabled = TRUE
  /\ rp = 0 /\ wp = 0 /\ ip = 0
  /\ hw_buff_check = 0
  /\ counted = {}
  /\ Source_Ints = {} /\ dpcQueued = FALSE
  /\ dpcPc = "idle" /\ IntData = {}
  /\ read_semph = 1
  /\ pc = [r \in Readers |-> "idle"]
  /\ copied = Torn /\ delivered = 0 /\ wrapRace = FALSE
  /\ resetPc = "idle" /\ resets = 0

Next ==
  \/ FrameArrives \/ FrameMissed \/ DmaCompletes
  \/ Isr \/ Dpc \/ Reset
  \/ \E r \in Readers : Reader(r)

Spec == Init /\ [][Next]_vars

(* Transfers end, interrupts are taken, the work queue's thread runs, and  *)
(* a process that is not blocked is scheduled.  Nothing makes a frame      *)
(* arrive, a signal come or a process call the driver.                     *)
Fairness ==
  /\ WF_vars(DmaCompletes) /\ WF_vars(Isr) /\ WF_vars(Dpc)
  /\ WF_vars(ResetRp \/ ResetWp)
  /\ \A r \in Readers : WF_vars(Running(r))

FairSpec == Spec /\ Fairness

-----------------------------------------------------------------------------
(* Where a process holds read_semph.                                       *)
Holding == {"check", "copy", "verify", "advance", "wrap", "up", "poll_up"}

Counters ==
  {"lost_hw_ints", "lost_ints", "failed_dma", "circ_full_ip",
   "circ_full_wp", "circ_empty_rp"}

TypeOK ==
  /\ produced \in Nat /\ localInt \in BOOLEAN /\ overrun \in BOOLEAN
  /\ dma \in [busy : BOOLEAN, slot : Slots, frame : Nat]
  /\ dmaInt \in BOOLEAN
  /\ frames \in [Slots -> Nat]
  /\ intEnabled \in BOOLEAN /\ localEnabled \in BOOLEAN
  /\ ip \in Slots /\ rp \in 0 .. NO_OF_BUFFERS /\ wp \in 0 .. NO_OF_BUFFERS
  /\ rp = NO_OF_BUFFERS => \E r \in Readers : pc[r] = "wrap"
  /\ wp = NO_OF_BUFFERS => dpcPc = "wrap"
  /\ hw_buff_check \in 0 .. 3
  /\ \A c \in counted : c \in Counters
  /\ Source_Ints \subseteq {"LOCAL", "DMA_0"}
  /\ IntData \subseteq {"LOCAL", "DMA_0"}
  /\ dpcQueued \in BOOLEAN
  /\ dpcPc \in {"idle", "ack", "publish", "wrap", "enable"}
  /\ read_semph \in Nat
  /\ pc \in [Readers -> Holding \cup {"idle", "down", "poll_down", "test", "asleep"}]
  /\ copied \in Nat /\ delivered \in Nat /\ wrapRace \in BOOLEAN
  /\ resetPc \in {"idle", "rp", "wp"} /\ resets \in Nat

(* Two processes are never both between down and up of read_semph, though  *)
(* read() lets go of it in the middle to wait and the error paths return   *)
(* early.                                                                  *)
ReadersExclude ==
  \A r, s \in Readers : pc[r] \in Holding /\ pc[s] \in Holding => r = s

(* Every path that takes the semaphore gives it back once and only once,   *)
(* but for the return without up() in plx_drv_read: that one loses it.     *)
SemaphoreLostOnlyAtIp ==
  /\ read_semph \in {0, 1}
  /\ read_semph = 1 => \A r \in Readers : pc[r] \notin Holding
  /\ read_semph = 0 =>
       (\E r \in Readers : pc[r] \in Holding) \/ "circ_empty_rp" \in counted

(* The chip is masked exactly while a DPC is queued or running, and never  *)
(* two are: so the ISR cannot overwrite a Source_Ints the DPC has yet to   *)
(* read, and no path leaves the chip masked for good.                      *)
DpcOwnsChip ==
  /\ intEnabled <=> ~dpcQueued /\ dpcPc = "idle"
  /\ ~(dpcQueued /\ dpcPc # "idle")
  /\ dpcQueued /\ "DMA_0" \in Source_Ints => dmaInt

-----------------------------------------------------------------------------
(* What the ring promises until something went wrong: until the driver     *)
(* counted a full ring or a refused transfer, a reader believed wp in the  *)
(* middle of its wrap, or the pointers were reset under the driver's feet. *)
NoTrouble ==
  /\ "circ_full_ip" \notin counted /\ "failed_dma" \notin counted
  /\ ~wrapRace
  /\ resets = 0

(* Slots from a up to b, going round the ring.  The filled slots are those *)
(* from rp up to wp, the slots with a transfer but no wp those from wp up  *)
(* to ip.                                                                  *)
Distance(a, b) == IF a <= b THEN b - a ELSE b - a + NO_OF_BUFFERS

Filled == Distance(WrappedRp, WrappedWp)

Unpublished == Distance(WrappedWp, ip)

SlotAt(k) ==
  IF WrappedRp + k < NO_OF_BUFFERS THEN WrappedRp + k ELSE WrappedRp + k - NO_OF_BUFFERS

(* Number of the frame a reader finds k slots on; at -1, of the last frame *)
(* delivered.                                                              *)
FrameAt(k) == IF k = -1 THEN delivered ELSE frames[SlotAt(k)]

(* Between rp and wp lie whole frames, each newer than the one before and  *)
(* than the last one read; the frame being read is the oldest of them; and *)
(* the DMA engine writes to none of them.                                  *)
DeliversInOrder ==
  NoTrouble =>
    /\ \A k \in 0 .. Filled - 1 : FrameAt(k) > FrameAt(k - 1)
    /\ \A r \in Readers : pc[r] \in {"verify", "advance"} =>
         Filled > 0 /\ copied = frames[rp]
    /\ dma.busy => \A k \in 0 .. Filled - 1 : SlotAt(k) # dma.slot

(* A frame the driver never fetched leaves a trace: while cntr_lost_ints   *)
(* is zero, the frames a reader gets follow each other without a gap, or   *)
(* with a gap of whole rounds of the four hardware buffers.                *)
GapsAreCounted ==
  NoTrouble /\ "lost_ints" \notin counted =>
    \A k \in 0 .. Filled - 1 : (FrameAt(k) - FrameAt(k - 1)) % 4 = 1

(* The two counters that say the pointers met only move after the ones     *)
(* that say why.                                                           *)
PointersMeetOnlyAfterTrouble ==
  NoTrouble => "circ_full_wp" \notin counted /\ "circ_empty_rp" \notin counted

(* The invariant of the pointers that those three rest on: rp, wp and ip   *)
(* never lap each other, and of the slots between wp and ip there is one   *)
(* for the transfer that runs, one for a transfer whose interrupt waits    *)
(* and one for the transfer the DPC has acknowledged.                      *)
UnderWay(condition) == IF condition THEN 1 ELSE 0

PointersInOrder ==
  NoTrouble =>
    /\ resetPc = "idle"
    /\ Filled + Unpublished < NO_OF_BUFFERS
    /\ UnderWay(dma.busy) + UnderWay(dmaInt) + UnderWay(dpcPc = "publish")
         <= Unpublished
    /\ dpcPc = "ack" => dmaInt
    /\ \A r \in Readers : pc[r] \in {"copy", "verify", "advance"} => Filled > 0

(* What the slots hold: numbers grow from the last frame delivered up to   *)
(* the slot before ip, where the transfer that runs goes, and a frame that *)
(* waits at the board is newer than all of them.                           *)
Taken == Filled + Unpublished

NewestTaken == IF dma.busy THEN dma.frame ELSE FrameAt(Taken - 1)

FramesInOrder ==
  NoTrouble =>
    /\ \A k \in 0 .. (IF dma.busy THEN Taken - 2 ELSE Taken - 1) :
         FrameAt(k) > FrameAt(k - 1)
    /\ dma.busy => SlotAt(Taken - 1) = dma.slot /\ dma.frame > FrameAt(Taken - 2)
    /\ produced >= NewestTaken
    /\ localInt => produced > NewestTaken
    /\ \A r \in Readers : pc[r] \in {"verify", "advance"} => copied = frames[rp]

(* plx_drv_read: "This should never occur!".                               *)
ReaderNeverReachesIp == "circ_empty_rp" \notin counted

(* Once everything raised has been handled, every completed transfer is    *)
(* between rp and wp: the DPC has let a reader know of each of them.       *)
CompletedFramesAreAnnounced ==
  NoTrouble /\ intEnabled /\ ~dma.busy /\ ~dmaInt => wp = ip

-----------------------------------------------------------------------------
(* A transfer's interrupt is acknowledged in the end, though the ISR may   *)
(* leave early and the chip is masked while a DPC runs.                    *)
DmaInterruptServed == dmaInt ~> ~dmaInt

(* The chip is unmasked again in the end.                                  *)
InterruptsComeBack == ~intEnabled ~> intEnabled

(* No lost wakeup: a process asleep in wait_event while wp is ahead is     *)
(* woken, unless the pointers are reset.                                   *)
SleepersAreWoken ==
  \A r \in Readers :
    (pc[r] = "asleep" /\ rp # wp)
      ~> (pc[r] # "asleep" \/ rp = wp \/ resets > 0)

=============================================================================

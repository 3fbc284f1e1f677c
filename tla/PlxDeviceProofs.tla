-------------------------- MODULE PlxDeviceProofs --------------------------
(***************************************************************************)
(* Proofs about PlxDevice, for any number of processes, buffers, frames,   *)
(* opens and resets: the state of a session is well formed, no transfer    *)
(* has the address of memory that is not allocated, the handler goes with  *)
(* the last user, every session gets its chip back, and the semaphore      *)
(* keeps readers apart over any number of sessions.                        *)
(***************************************************************************)
EXTENDS PlxDevice, PlxRingProofs, FiniteSetTheorems

Opening   == {"channel", "install", "request", "unmask"}
Releasing == {"uninstall", "free_irq", "close"}

(* Of the steps of the ring, only the interrupt handler starts a transfer. *)
RingStep ==
  \/ FrameArrives \/ FrameMissed \/ DmaCompletes
  \/ Dpc \/ Reset \/ \E r \in Readers : Reader(r)

LEMMA OnlyIsrStartsDma ==
  ASSUME RingStep
  PROVE  dma'.busy => dma.busy
<1>1. CASE FrameArrives \/ FrameMissed
  BY <1>1 DEF FrameArrives, FrameMissed, dmaVars
<1>2. CASE DmaCompletes
  BY <1>2 DEF DmaCompletes, Idle
<1>3. CASE Dpc
  BY <1>3 DEF Dpc, DpcStart, DpcAck, DpcPublish, DpcWrapAndWake, DpcEnable, dmaVars
<1>4. CASE Reset
  BY <1>4 DEF Reset, ResetIp, ResetRp, ResetWp, dmaVars
<1>5. CASE \E r \in Readers : Reader(r)
  BY <1>5 DEF Reader, Running, Call, Down, Interrupted, FoundEmpty, FoundFrame,
              TestCondition, Copy, ReachedIp, NotReachedIp, Advance, WrapRp, Up,
              unreadVars, dmaVars
<1> QED BY <1>1, <1>2, <1>3, <1>4, <1>5 DEF RingStep

(* The steps of a session, with what the ring does in them folded away.    *)
LEMMA SessionSteps ==
  ASSUME DeviceNext
  PROVE  \/ UNCHANGED sessionVars /\ (dma'.busy => dma.busy)
         \/ UNCHANGED sessionVars /\ handler
         \/ \E r \in Readers : Open(r) \/ Release(r)
         \/ OpenStep
         \/ ReleaseStep
<1>1. CASE (FrameArrives \/ FrameMissed \/ DmaCompletes) /\ UNCHANGED sessionVars
  BY <1>1, OnlyIsrStartsDma DEF RingStep
<1>2. CASE HandlerRuns
  BY <1>2 DEF HandlerRuns
<1>3. CASE Dpc /\ UNCHANGED sessionVars
  BY <1>3, OnlyIsrStartsDma DEF RingStep
<1>4. CASE ResetRuns
  BY <1>4, OnlyIsrStartsDma DEF RingStep, ResetRuns
<1>5. CASE \E r \in Readers : ProcessRuns(r)
  BY <1>5, OnlyIsrStartsDma DEF RingStep, ProcessRuns
<1> QED BY <1>1, <1>2, <1>3, <1>4, <1>5 DEF DeviceNext

-----------------------------------------------------------------------------
(* plx_drv_open and plx_drv_release keep OpenCount, the file set, the      *)
(* stage and the counters of the bounds within their types.                *)
THEOREM DeviceTypeCorrect == DeviceSpec => []DeviceTypeOK
<1>1. DeviceInit => DeviceTypeOK
  <2> SUFFICES ASSUME DeviceInit PROVE DeviceTypeOK
    OBVIOUS
  <2> USE DEF DeviceInit, DeviceTypeOK
  <2>1. channel \in BOOLEAN /\ handler \in BOOLEAN
    OBVIOUS
  <2>2. files \subseteq Readers /\ user \in Readers /\ stage = "idle"
    OBVIOUS
  <2>3. /\ OpenCount \in 0 .. OpenModulus - 1
        /\ allocated \in 0 .. NO_OF_BUFFERS /\ opens \in 0 .. MaxOpens
    BY OpenAssumption, BuffersAssumption
  <2> QED BY <2>1, <2>2, <2>3
<1>2. DeviceTypeOK /\ [DeviceNext]_deviceVars => DeviceTypeOK'
  <2> SUFFICES ASSUME DeviceTypeOK, [DeviceNext]_deviceVars
               PROVE  DeviceTypeOK'
    OBVIOUS
  <2> USE OpenAssumption, BuffersAssumption DEF DeviceTypeOK
  <2>1. CASE UNCHANGED sessionVars
    BY <2>1 DEF sessionVars
  <2>2. ASSUME NEW r \in Readers, Open(r) PROVE DeviceTypeOK'
    BY <2>2 DEF Open
  <2>3. ASSUME NEW r \in Readers, Release(r) PROVE DeviceTypeOK'
    BY <2>3 DEF Release
  <2>4. CASE OpenStep
    <3>1. CASE ChannelUnavailable
      BY <3>1 DEF ChannelUnavailable, OpenFails
    <3>2. CASE ChannelOpened
      BY <3>2 DEF ChannelOpened, OpenFails
    <3>3. CASE InstallClears
      BY <3>3 DEF InstallClears, At
    <3>4. CASE InstallRequests
      BY <3>4 DEF InstallRequests, At
    <3>5. CASE InstallUnmasks
      BY <3>5 DEF InstallUnmasks, At
    <3> QED BY <2>4, <3>1, <3>2, <3>3, <3>4, <3>5 DEF OpenStep
  <2>5. CASE ReleaseStep
    <3>1. CASE UninstallMasks
      BY <3>1 DEF UninstallMasks, At
    <3>2. CASE UninstallFrees
      <4>1. handler' \in BOOLEAN
        BY <3>2, Zenon DEF UninstallFrees
      <4> QED BY <3>2, <4>1 DEF UninstallFrees, At
    <3>3. CASE CloseChannel
      <4>1. channel' \in BOOLEAN
        BY <3>3, Zenon DEF CloseChannel
      <4> QED BY <3>3, <4>1 DEF CloseChannel, At
    <3> QED BY <2>5, <3>1, <3>2, <3>3 DEF ReleaseStep
  <2>6. CASE UNCHANGED deviceVars
    BY <2>1, <2>6 DEF deviceVars
  <2> QED BY <2>1, <2>2, <2>3, <2>4, <2>5, <2>6, SessionSteps
<1> QED BY <1>1, <1>2, PTL DEF DeviceSpec

-----------------------------------------------------------------------------
(* What makes BuffersOutliveDma inductive: the steps of an open that put   *)
(* the handler in place come after the buffers are there, and the step of  *)
(* a release that frees them comes after the handler is gone.              *)
BuffersInv ==
  /\ BuffersOutliveDma
  /\ stage \in {"install", "request", "unmask"} => channel /\ allocated = NO_OF_BUFFERS
  /\ stage \in {"install", "request", "close"} => ~handler

(* plx_dma_transfer_block never programs, and the engine never runs with,  *)
(* the bus address of a buffer plx_dma_close_channel has freed.            *)
THEOREM DmaIntoLiveBuffers == DeviceSpec => []BuffersOutliveDma
<1>1. DeviceInit => BuffersInv
  BY DEF DeviceInit, Init, Idle, BuffersInv, BuffersOutliveDma
<1>2. BuffersInv /\ [DeviceNext]_deviceVars => BuffersInv'
  <2> SUFFICES ASSUME BuffersInv, [DeviceNext]_deviceVars
               PROVE  BuffersInv'
    OBVIOUS
  <2> USE DEF BuffersInv, BuffersOutliveDma
  <2>1. CASE UNCHANGED sessionVars /\ (dma'.busy => dma.busy)
    BY <2>1 DEF sessionVars
  <2>2. CASE UNCHANGED sessionVars /\ handler
    BY <2>2 DEF sessionVars
  <2>3. ASSUME NEW r \in Readers, Open(r) PROVE BuffersInv'
    BY <2>3 DEF Open, vars, dmaVars
  <2>4. ASSUME NEW r \in Readers, Release(r) PROVE BuffersInv'
    BY <2>4 DEF Release, vars, dmaVars
  <2>5. CASE OpenStep
    <3>1. CASE ChannelUnavailable
      BY <3>1 DEF ChannelUnavailable, OpenFails, vars, dmaVars
    <3>2. CASE ChannelOpened
      BY <3>2, BuffersAssumption DEF ChannelOpened, OpenFails, Idle
    <3>3. CASE InstallClears
      BY <3>3 DEF InstallClears, At
    <3>4. CASE InstallRequests
      BY <3>4 DEF InstallRequests, At, vars, dmaVars
    <3>5. CASE InstallUnmasks
      BY <3>5 DEF InstallUnmasks, At
    <3> QED BY <2>5, <3>1, <3>2, <3>3, <3>4, <3>5 DEF OpenStep
  <2>6. CASE ReleaseStep
    <3>1. CASE UninstallMasks
      BY <3>1 DEF UninstallMasks, At
    <3>2. CASE UninstallFrees
      BY <3>2 DEF UninstallFrees, At, vars, dmaVars
    <3>3. CASE CloseChannel
      BY <3>3 DEF CloseChannel, At, Idle
    <3> QED BY <2>6, <3>1, <3>2, <3>3 DEF ReleaseStep
  <2>7. CASE UNCHANGED deviceVars
    BY <2>7 DEF deviceVars, sessionVars, vars, dmaVars
  <2> QED BY <2>1, <2>2, <2>3, <2>4, <2>5, <2>6, <2>7, SessionSteps
<1>3. BuffersInv => BuffersOutliveDma
  BY DEF BuffersInv
<1> QED BY <1>1, <1>2, <1>3, PTL DEF DeviceSpec

-----------------------------------------------------------------------------
(* OpenCount stands for at least the files and the open that is under way; *)
(* opens that failed only make it larger.                                  *)
CountCovers ==
  /\ OpenCount \in 0 .. opens
  /\ Cardinality(files) + (IF stage \in Opening THEN 1 ELSE 0) <= OpenCount
  /\ stage \in Releasing => OpenCount = 0 /\ files = {}
  /\ stage \in {"install", "request", "close"} => ~handler
  /\ handler \/ stage \in {"install", "request"} => channel

(* It does so until OpenModulus calls of open have been made.              *)
CountInv ==
  /\ IsFiniteSet(files)
  /\ opens \in 0 .. MaxOpens
  /\ stage \in Opening \cup Releasing \cup {"idle"}
  /\ opens < OpenModulus => CountCovers

(* While OpenCount has not gone round, it never claims fewer users than    *)
(* hold a file, and a release takes the channel and the handler down only  *)
(* when nobody holds one.                                                  *)
THEOREM CountCoversFiles == DeviceSpec => []CountInv
<1>1. DeviceInit => CountInv
  BY OpenAssumption, FS_EmptySet DEF DeviceInit, CountInv, CountCovers, Opening, Releasing
<1>2. CountInv /\ [DeviceNext]_deviceVars => CountInv'
  <2> SUFFICES ASSUME CountInv, [DeviceNext]_deviceVars
               PROVE  CountInv'
    OBVIOUS
  <2>0. Cardinality(files) \in Nat
    BY FS_CardinalityType DEF CountInv
  <2> USE OpenAssumption, <2>0 DEF CountInv, CountCovers, Opening, Releasing
  <2>1. CASE UNCHANGED sessionVars
    BY <2>1 DEF sessionVars
  <2>2. ASSUME NEW r \in Readers, Open(r) PROVE CountInv'
    <3>1. /\ opens' = opens + 1 /\ opens' \in 0 .. MaxOpens
          /\ stage = "idle" /\ stage' \in {"idle", "channel"}
      BY <2>2 DEF Open
    <3>2. IsFiniteSet(files')
      BY <2>2, FS_AddElement DEF Open
    <3>3. ASSUME opens' < OpenModulus PROVE CountCovers'
      <4>1. opens < OpenModulus /\ CountCovers
        BY <3>1, <3>3
      <4>2. OpenCount' = OpenCount + 1
        BY <2>2, <3>1, <3>3, <4>1 DEF Open
      <4>3. CASE OpenCount' > 1
        <5>1. files' = files \cup {r} /\ r \notin files /\ UNCHANGED <<stage, handler, channel>>
          BY <2>2, <4>3 DEF Open
        <5>2. Cardinality(files') = Cardinality(files) + 1
          BY <5>1, FS_AddElement
        <5> QED BY <3>1, <4>1, <4>2, <5>1, <5>2
      <4>4. CASE ~(OpenCount' > 1)
        BY <2>2, <3>1, <4>1, <4>2, <4>4 DEF Open
      <4> QED BY <4>3, <4>4
    <3> QED BY <3>1, <3>2, <3>3
  <2>3. ASSUME NEW r \in Readers, Release(r) PROVE CountInv'
    <3>1. IsFiniteSet(files') /\ Cardinality(files') = Cardinality(files) - 1
      BY <2>3, FS_RemoveElement DEF Release
    <3>2. /\ opens' = opens /\ UNCHANGED <<handler, channel>>
          /\ stage = "idle" /\ stage' \in {"idle", "uninstall"}
      BY <2>3 DEF Release
    <3>3. ASSUME opens' < OpenModulus PROVE CountCovers'
      <4>1. opens < OpenModulus /\ CountCovers
        BY <3>2, <3>3
      <4>2. OpenCount' = OpenCount - 1
        BY <2>3, <3>1, <4>1, FS_CardinalityType DEF Release
      <4>3. stage' = "uninstall" => files' = {}
        <5>1. stage' = "uninstall" => OpenCount = 1
          BY <2>3 DEF Release
        <5>2. Cardinality(files') \in Nat
          BY <3>1, FS_CardinalityType
        <5>3. stage' = "uninstall" => Cardinality(files') = 0
          BY <3>1, <4>1, <5>1, <5>2
        <5> QED BY <3>1, <5>3, FS_EmptySet
      <4> QED BY <2>3, <3>1, <3>2, <4>1, <4>2, <4>3, FS_CardinalityType DEF Release
    <3> QED BY <3>1, <3>2, <3>3
  <2>4. CASE OpenStep
    <3>1. CASE ChannelUnavailable
      BY <3>1 DEF ChannelUnavailable, OpenFails
    <3>2. CASE ChannelOpened
      BY <3>2 DEF ChannelOpened, OpenFails
    <3>3. CASE InstallClears
      BY <3>3 DEF InstallClears, At
    <3>4. CASE InstallRequests
      BY <3>4 DEF InstallRequests, At
    <3>5. CASE InstallUnmasks
      <4>1. /\ IsFiniteSet(files \cup {user})
            /\ Cardinality(files \cup {user}) <= Cardinality(files) + 1
        BY FS_AddElement
      <4> QED BY <3>5, <4>1, FS_CardinalityType DEF InstallUnmasks, At
    <3> QED BY <2>4, <3>1, <3>2, <3>3, <3>4, <3>5 DEF OpenStep
  <2>5. CASE ReleaseStep
    BY <2>5 DEF ReleaseStep, UninstallMasks, UninstallFrees, CloseChannel, At
  <2>6. CASE UNCHANGED deviceVars
    BY <2>1, <2>6 DEF deviceVars
  <2> QED BY <2>1, <2>2, <2>3, <2>4, <2>5, <2>6, SessionSteps
<1> QED BY <1>1, <1>2, PTL DEF DeviceSpec

(* "this was the last user": the handler is never taken from a process     *)
(* that has the device open.                                               *)
THEOREM HandlerOutlivesFiles == DeviceSpec => LastUserUninstalls
<1>1. CountInv /\ [DeviceNext]_deviceVars
        => [opens < OpenModulus /\ handler /\ ~handler' => files' = {}]_deviceVars
  <2> SUFFICES ASSUME CountInv, DeviceNext, opens < OpenModulus, handler, ~handler'
               PROVE  files' = {}
    OBVIOUS
  <2>1. ~ UNCHANGED sessionVars
    BY DEF sessionVars
  <2>2. ASSUME NEW r \in Readers PROVE ~Open(r) /\ ~Release(r)
    BY DEF Open, Release
  <2>3. ~OpenStep
    BY DEF OpenStep, ChannelUnavailable, ChannelOpened, InstallClears,
           InstallRequests, InstallUnmasks, OpenFails, At, CountInv, CountCovers
  <2>4. ReleaseStep
    BY <2>1, <2>2, <2>3, SessionSteps
  <2> QED BY <2>4 DEF ReleaseStep, UninstallMasks, UninstallFrees, CloseChannel,
                      At, CountInv, CountCovers, Releasing
<1> QED BY <1>1, CountCoversFiles, PTL DEF DeviceSpec, LastUserUninstalls

-----------------------------------------------------------------------------
(* A chip that is masked has a DPC on its way that unmasks it, whatever    *)
(* the ring does, ...                                                      *)
ChipComesBack == ~dpcQueued /\ dpcPc = "idle" => intEnabled

LEMMA RingBringsChipBack ==
  ASSUME ChipComesBack, RingStep \/ Isr
  PROVE  ChipComesBack'
<1> USE DEF ChipComesBack
<1>1. CASE FrameArrives \/ FrameMissed \/ DmaCompletes
  BY <1>1 DEF FrameArrives, FrameMissed, DmaCompletes, enableVars, dpcVars
<1>2. CASE Dpc
  BY <1>2 DEF Dpc, DpcStart, DpcAck, DpcPublish, DpcWrapAndWake, DpcEnable, enableVars
<1>3. CASE Reset
  BY <1>3 DEF Reset, ResetIp, ResetRp, ResetWp, enableVars, dpcVars
<1>4. CASE \E r \in Readers : Reader(r)
  BY <1>4 DEF Reader, Running, Call, Down, Interrupted, FoundEmpty, FoundFrame,
              TestCondition, Copy, ReachedIp, NotReachedIp, Advance, WrapRp, Up,
              unreadVars, enableVars, dpcVars
<1>5. CASE Isr
  BY <1>5 DEF Isr, IsrRingFull, IsrFrame, IsrDmaDone, ScheduleDpc, enableVars, dpcVars
<1> QED BY <1>1, <1>2, <1>3, <1>4, <1>5 DEF RingStep

(* ... and outside of plx_install_interrupt_handler and of the release     *)
(* whatever the session does.                                              *)
ChipInv ==
  /\ handler /\ stage \in {"idle", "channel"} => ChipComesBack
  /\ stage = "close" => ~handler

(* A session with a handler is not left with its chip masked: a DPC of an  *)
(* earlier session that unmasks it early takes nothing from a later one.   *)
THEOREM ChipIsBack == DeviceSpec => []ChipBackInSession
<1>1. DeviceInit => ChipInv
  BY DEF DeviceInit, ChipInv
<1>2. ChipInv /\ [DeviceNext]_deviceVars => ChipInv'
  <2> SUFFICES ASSUME ChipInv, [DeviceNext]_deviceVars
               PROVE  ChipInv'
    OBVIOUS
  <2>1. ASSUME UNCHANGED sessionVars, RingStep \/ Isr PROVE ChipInv'
    BY <2>1, RingBringsChipBack DEF sessionVars, ChipInv
  <2>2. CASE (FrameArrives \/ FrameMissed \/ DmaCompletes \/ Dpc) /\ UNCHANGED sessionVars
    BY <2>1, <2>2 DEF RingStep
  <2>3. CASE HandlerRuns \/ ResetRuns
    BY <2>1, <2>3 DEF HandlerRuns, ResetRuns, RingStep
  <2>4. ASSUME NEW r \in Readers, ProcessRuns(r) PROVE ChipInv'
    BY <2>1, <2>4 DEF ProcessRuns, RingStep
  <2>5. ASSUME UNCHANGED <<enableVars, dpcVars>> PROVE ChipComesBack' <=> ChipComesBack
    BY <2>5 DEF ChipComesBack, enableVars, dpcVars
  <2>6. ASSUME NEW r \in Readers, Open(r) \/ Release(r) PROVE ChipInv'
    <3>1. /\ UNCHANGED <<enableVars, dpcVars, handler>> /\ stage = "idle"
          /\ stage' \in {"idle", "channel", "uninstall"}
      BY <2>6 DEF Open, Release, vars
    <3> QED BY <2>5, <3>1 DEF ChipInv
  <2>7. CASE ChannelUnavailable \/ ChannelOpened
    <3>1. /\ UNCHANGED <<enableVars, dpcVars, handler>> /\ stage = "channel"
          /\ stage' \in {"idle", "install"}
      BY <2>7 DEF ChannelUnavailable, ChannelOpened, OpenFails, vars, boardLeft, interrupts
    <3> QED BY <2>5, <3>1 DEF ChipInv
  <2>8. CASE InstallClears \/ InstallRequests \/ UninstallMasks \/ UninstallFrees
    BY <2>8 DEF InstallClears, InstallRequests, UninstallMasks, UninstallFrees, At, ChipInv
  <2>9. CASE InstallUnmasks
    BY <2>9 DEF InstallUnmasks, At, ChipInv, ChipComesBack
  <2>10. CASE CloseChannel
    BY <2>10 DEF CloseChannel, At, ChipInv
  <2>11. CASE UNCHANGED deviceVars
    <3>1. UNCHANGED <<enableVars, dpcVars, handler, stage>>
      BY <2>11 DEF deviceVars, sessionVars, vars
    <3> QED BY <2>5, <3>1 DEF ChipInv
  <2> QED BY <2>2, <2>3, <2>4, <2>6, <2>7, <2>8, <2>9, <2>10, <2>11
       DEF DeviceNext, OpenStep, ReleaseStep
<1>3. ChipInv => ChipBackInSession
  BY DEF ChipInv, ChipComesBack, ChipBackInSession
<1> QED BY <1>1, <1>2, <1>3, PTL DEF DeviceSpec

-----------------------------------------------------------------------------
(* What open and release do to the ring: they leave readers, semaphore and *)
(* DPC alone and keep the types.                                           *)
LEMMA SessionKeepsRing ==
  ASSUME TypeOK, OpenStep \/ ReleaseStep \/ UNCHANGED vars
  PROVE  TypeOK' /\ UNCHANGED <<pc, read_semph, counted>>
<1> USE DEF boardLeft, pointers, interrupts, enableVars, dpcVars, readVars, resetVars
<1>1. 0 \in Slots /\ 0 \in 0 .. NO_OF_BUFFERS /\ 0 # NO_OF_BUFFERS
  BY BuffersAssumption DEF Slots
<1>2. CASE UNCHANGED vars
  BY <1>2 DEF vars, boardVars, dmaVars, TypeOK
<1>3. CASE ChannelUnavailable \/ InstallRequests \/ UninstallFrees
  BY <1>2, <1>3 DEF ChannelUnavailable, InstallRequests, UninstallFrees
<1>4. CASE ChannelOpened
  <2>1. /\ dma' = Idle /\ frames' = [i \in Slots |-> Torn]
        /\ rp' = 0 /\ wp' = 0 /\ ip' = 0 /\ hw_buff_check' = 0
        /\ UNCHANGED <<produced, resetPc, resets, read_semph, pc, copied, delivered, wrapRace,
                       Source_Ints, dpcQueued, dpcPc, IntData, counted,
                       localInt, overrun, dmaInt, intEnabled, localEnabled>>
    BY <1>4 DEF ChannelOpened
  <2>2. dma' \in [busy : BOOLEAN, slot : Slots, frame : Nat] /\ frames' \in [Slots -> Nat]
    BY <1>1, <2>1 DEF Idle, Torn
  <2> QED BY <1>1, <2>1, <2>2 DEF TypeOK
<1>5. CASE InstallClears \/ InstallUnmasks
  <2>1. UNCHANGED <<produced, resetPc, resets, read_semph, pc, copied, delivered, wrapRace,
                    Source_Ints, dpcQueued, dpcPc, IntData, counted, rp, wp, ip, hw_buff_check,
                    dma, frames>>
    BY <1>5 DEF InstallClears, InstallUnmasks
  <2>2. /\ localInt' \in BOOLEAN /\ overrun' \in BOOLEAN /\ dmaInt' \in BOOLEAN
        /\ intEnabled' \in BOOLEAN /\ localEnabled' \in BOOLEAN
    <3>1. CASE InstallClears
      BY <3>1, Zenon DEF InstallClears, TypeOK
    <3>2. CASE InstallUnmasks
      BY <3>2, Zenon DEF InstallUnmasks, TypeOK
    <3> QED BY <1>5, <3>1, <3>2
  <2> QED BY <2>1, <2>2 DEF TypeOK
<1>6. CASE UninstallMasks
  <2>1. intEnabled' \in BOOLEAN
    BY <1>6, Zenon DEF UninstallMasks
  <2>2. UNCHANGED <<produced, resetPc, resets, read_semph, pc, copied, delivered, wrapRace,
                    Source_Ints, dpcQueued, dpcPc, IntData, counted, rp, wp, ip, hw_buff_check,
                    dma, frames, localInt, overrun, dmaInt, localEnabled>>
    BY <1>6 DEF UninstallMasks
  <2> QED BY <2>1, <2>2 DEF TypeOK
<1>7. CASE CloseChannel
  <2>1. dmaInt' \in BOOLEAN
    BY <1>7, Zenon DEF CloseChannel, TypeOK
  <2>2. dma' \in {dma, Idle} /\ frames' \in {frames, [i \in Slots |-> Torn]}
    BY <1>7 DEF CloseChannel
  <2>3. dma' \in [busy : BOOLEAN, slot : Slots, frame : Nat] /\ frames' \in [Slots -> Nat]
    <3>1. Idle \in [busy : BOOLEAN, slot : Slots, frame : Nat]
      BY <1>1 DEF Idle, Torn
    <3>2. [i \in Slots |-> Torn] \in [Slots -> Nat]
      BY DEF Torn
    <3>3. dma \in [busy : BOOLEAN, slot : Slots, frame : Nat] /\ frames \in [Slots -> Nat]
      BY DEF TypeOK
    <3> QED BY <2>2, <3>1, <3>2, <3>3, Zenon
  <2>4. UNCHANGED <<produced, resetPc, resets, read_semph, pc, copied, delivered, wrapRace,
                    Source_Ints, dpcQueued, dpcPc, IntData, counted, rp, wp, ip, hw_buff_check,
                    localInt, overrun, intEnabled, localEnabled>>
    BY <1>7 DEF CloseChannel
  <2> QED BY <2>1, <2>3, <2>4 DEF TypeOK
<1> QED BY <1>2, <1>3, <1>4, <1>5, <1>6, <1>7 DEF OpenStep, ReleaseStep

(* The semaphore over all sessions, of any number of processes: a process  *)
(* never meets another one inside, and a semaphore that is gone was lost   *)
(* by the one return without up(), be it in a session long ended: no open  *)
(* gives it back.                                                          *)
THEOREM SemaphoreOutlivesSessions ==
  DeviceSpec => [](TypeOK /\ ReadersExclude /\ SemaphoreLostOnlyAtIp)
<1>1. DeviceInit => SemaphoreInv
  BY SemaphoreInitially DEF DeviceInit
<1>2. SemaphoreInv /\ [DeviceNext]_deviceVars => SemaphoreInv'
  <2> SUFFICES ASSUME SemaphoreInv, [DeviceNext]_deviceVars PROVE SemaphoreInv'
    OBVIOUS
  <2>1. CASE Next
    BY <2>1, SemaphoreStays
  <2>2. CASE OpenStep \/ ReleaseStep \/ UNCHANGED vars
    <3>1. TypeOK' /\ UNCHANGED <<pc, read_semph, counted>>
      BY <2>2, SessionKeepsRing DEF SemaphoreInv
    <3> QED BY <3>1, SemaphoreKept DEF SemaphoreInv
  <2>3. CASE DeviceNext
    BY <2>1, <2>2, <2>3 DEF DeviceNext, HandlerRuns, ResetRuns, ProcessRuns, Open, Release, Next
  <2> QED BY <2>2, <2>3 DEF deviceVars
<1> QED BY <1>1, <1>2, PTL DEF DeviceSpec, SemaphoreInv

=============================================================================

----------------------------- MODULE PlxDevice -----------------------------
(***************************************************************************)
(* Opening and closing the PLX 8311 device around the frame ring of        *)
(* PlxRing (kernel/device_driver/chardrv/plx).                             *)
(*                                                                         *)
(* The first plx_drv_open opens DMA channel 0, which allocates the kernel  *)
(* buffers and resets the pointers, and installs the interrupt handler;    *)
(* the release that brings OpenCount back to zero undoes both.  Open and   *)
(* release exclude each other with Lock_DeviceOpen, but not the interrupt  *)
(* handler and not the deferred procedure, which the work queue keeps from *)
(* one session to the next.                                                *)
(***************************************************************************)
EXTENDS PlxRing

CONSTANTS
  OpenModulus,  \* OpenCount is a U8: 256
  MaxOpens      \* bound: calls of open()

ASSUME OpenAssumption ==
  OpenModulus \in Nat /\ OpenModulus > 1 /\ MaxOpens \in Nat

VARIABLES
  OpenCount,    \* users the driver counts
  files,        \* processes that hold an open file of the device
  stage, user,  \* where the holder of Lock_DeviceOpen is, and who that is
  channel,      \* dma_channels[0]: the channel is open
  allocated,    \* kernel buffers that are allocated
  handler,      \* Flag_Interrupt: the interrupt handler is installed
  opens         \* calls of open() so far (bound)

sessionVars == <<OpenCount, files, stage, user, channel, allocated, handler, opens>>
deviceVars  == <<vars, sessionVars>>

(* What open and release leave alone of the ring.                          *)
boardLeft  == <<produced, resetVars, readVars, dpcVars, counted>>
pointers   == <<rp, wp, ip, hw_buff_check>>
interrupts == <<localInt, overrun, dmaInt, enableVars>>

At(from, to) == stage = from /\ stage' = to

-----------------------------------------------------------------------------
(* plx_drv_open.                                                           *)

(* Mutant: every open counts anew.                                         *)
OpenAgain(r) ==
  /\ stage = "idle" /\ r \notin files /\ opens < MaxOpens
  /\ opens' = opens + 1
  /\ OpenCount' = (IF OpenCount = 0 THEN 1 ELSE OpenCount)
  /\ IF OpenCount # 0
       THEN files' = files \cup {r} /\ UNCHANGED <<stage, user>>
       ELSE stage' = "channel" /\ user' = r /\ UNCHANGED files
  /\ UNCHANGED <<vars, channel, allocated, handler>>

(* Somebody else has opened the device: nothing to set up.                 *)
Open(r) ==
  /\ stage = "idle" /\ r \notin files /\ opens < MaxOpens
  /\ opens' = opens + 1
  /\ OpenCount' = (OpenCount + 1) % OpenModulus
  /\ IF OpenCount' > 1
       THEN files' = files \cup {r} /\ UNCHANGED <<stage, user>>
       ELSE stage' = "channel" /\ user' = r /\ UNCHANGED files
  /\ UNCHANGED <<vars, channel, allocated, handler>>

(* -ENODEV: OpenCount stays, and so does what was set up.                  *)
OpenFails ==
  stage' = "idle" /\ UNCHANGED <<OpenCount, files, user, handler, opens>>

(* plx_dma_open_channel: the channel is open already.                      *)
ChannelUnavailable ==
  /\ stage = "channel" /\ channel
  /\ OpenFails
  /\ UNCHANGED <<vars, channel, allocated>>

(* Mutant: the loop over the buffers goes one too far.                     *)
ChannelOpenedOneMore ==
  /\ stage = "channel" /\ ~channel
  /\ channel' = TRUE
  /\ dma' = Idle
  /\ rp' = 0 /\ wp' = 0 /\ ip' = 0 /\ hw_buff_check' = 0
  /\ frames' = [i \in Slots |-> Torn]
  /\ \E k \in 0 .. NO_OF_BUFFERS + 1 :
       /\ allocated' = k
       /\ IF k <= NO_OF_BUFFERS
            THEN OpenFails
            ELSE /\ stage' = "install"
                 /\ UNCHANGED <<OpenCount, files, user, handler, opens>>
  /\ UNCHANGED <<boardLeft, interrupts>>

(* It is not: abort any transfer, reset the pointers and allocate one      *)
(* buffer after the other until that fails.                                *)
ChannelOpened ==
  /\ stage = "channel" /\ ~channel
  /\ channel' = TRUE
  /\ dma' = Idle
  /\ rp' = 0 /\ wp' = 0 /\ ip' = 0 /\ hw_buff_check' = 0
  /\ frames' = [i \in Slots |-> Torn]
  /\ \E k \in 0 .. NO_OF_BUFFERS :
       /\ allocated' = k
       /\ IF k < NO_OF_BUFFERS
            THEN OpenFails
            ELSE /\ stage' = "install"
                 /\ UNCHANGED <<OpenCount, files, user, handler, opens>>
  /\ UNCHANGED <<boardLeft, interrupts>>

(* plx_install_interrupt_handler: mask the chip and clear what waits.      *)
InstallClears ==
  /\ At("install", "request")
  /\ intEnabled' = FALSE /\ dmaInt' = FALSE /\ localInt' = FALSE /\ overrun' = FALSE
  /\ UNCHANGED <<boardLeft, pointers, dma, frames, localEnabled, OpenCount, files,
                 user, channel, allocated, handler, opens>>

(* request_irq, which may fail.                                            *)
InstallRequests ==
  /\ At("request", "unmask")
  /\ handler' \in BOOLEAN
  /\ UNCHANGED <<vars, OpenCount, files, user, channel, allocated, opens>>

(* Mutant: only the local interrupt is enabled again.                      *)
InstallUnmasksLocal ==
  /\ At("unmask", "idle")
  /\ localEnabled' = TRUE
  /\ files' = IF handler THEN files \cup {user} ELSE files
  /\ UNCHANGED <<boardLeft, pointers, dma, frames, localInt, overrun, dmaInt,
                 intEnabled, OpenCount, user, channel, allocated, handler, opens>>

(* The chip is unmasked whether request_irq worked or not.                 *)
InstallUnmasks ==
  /\ At("unmask", "idle")
  /\ intEnabled' = TRUE /\ localEnabled' = TRUE
  /\ files' = IF handler THEN files \cup {user} ELSE files
  /\ UNCHANGED <<boardLeft, pointers, dma, frames, localInt, overrun, dmaInt,
                 OpenCount, user, channel, allocated, handler, opens>>

-----------------------------------------------------------------------------
(* plx_drv_release.                                                        *)

(* A file is released once no call on it is under way.                     *)
Release(r) ==
  /\ stage = "idle" /\ r \in files /\ pc[r] = "idle"
  /\ files = {r} => resetPc = "idle"
  /\ files' = files \ {r}
  /\ user' = r
  /\ OpenCount' = IF OpenCount = 0 THEN 0 ELSE OpenCount - 1
  /\ stage' = IF OpenCount = 1 THEN "uninstall" ELSE "idle"
  /\ UNCHANGED <<vars, channel, allocated, handler, opens>>

(* plx_uninstall_interrupt_handler masks the chip before it frees the irq; *)
(* free_irq waits for a handler that runs.                                 *)
UninstallMasks ==
  /\ At("uninstall", IF handler THEN "free_irq" ELSE "close")
  /\ intEnabled' = (intEnabled /\ ~handler)
  /\ UNCHANGED <<boardLeft, pointers, dma, frames, localInt, overrun, dmaInt,
                 localEnabled, OpenCount, files, user, channel, allocated, handler,
                 opens>>

UninstallFrees ==
  /\ At("free_irq", "close")
  /\ handler' = FALSE
  /\ UNCHANGED <<vars, OpenCount, files, user, channel, allocated, opens>>

(* Mutant: the buffers are freed under a transfer that runs.               *)
CloseChannelNoAbort ==
  /\ At("close", "idle")
  /\ channel' = FALSE
  /\ allocated' = IF channel THEN 0 ELSE allocated
  /\ frames' = IF channel THEN [i \in Slots |-> Torn] ELSE frames
  /\ UNCHANGED <<boardLeft, pointers, dma, interrupts, OpenCount, files, user,
                 handler, opens>>

(* plx_dma_close_channel: a transfer that runs is aborted, which may raise *)
(* its interrupt; the buffers are freed.                                   *)
CloseChannel ==
  /\ At("close", "idle")
  /\ channel' = FALSE
  /\ allocated' = IF channel THEN 0 ELSE allocated
  /\ frames' = IF channel THEN [i \in Slots |-> Torn] ELSE frames
  /\ dma' = IF channel THEN Idle ELSE dma
  /\ dmaInt' \in {dmaInt, dmaInt \/ (channel /\ dma.busy)}
  /\ UNCHANGED <<boardLeft, pointers, localInt, overrun, enableVars, OpenCount,
                 files, user, handler, opens>>

-----------------------------------------------------------------------------
(* The interrupt handler runs while it is installed; a process reads, polls*)
(* or resets the pointers while it has the device open.                    *)
HandlerRuns == handler /\ Isr /\ UNCHANGED sessionVars

ProcessRuns(r) == (pc[r] = "idle" => r \in files) /\ Reader(r) /\ UNCHANGED sessionVars

ResetRuns == (resetPc = "idle" => files # {}) /\ Reset /\ UNCHANGED sessionVars

(* plx_drv_init_module and probe have run and nobody has opened the device.*)
(* Whether the chip is masked now makes no difference: no handler runs     *)
(* before InstallClears.                                                   *)
DeviceInit ==
  /\ Init
  /\ OpenCount = 0 /\ files = {} /\ opens = 0
  /\ stage = "idle" /\ user \in Readers
  /\ channel = FALSE /\ allocated = 0 /\ handler = FALSE

OpenStep ==
  \/ ChannelUnavailable \/ ChannelOpened
  \/ InstallClears \/ InstallRequests \/ InstallUnmasks

ReleaseStep == UninstallMasks \/ UninstallFrees \/ CloseChannel

DeviceNext ==
  \/ (FrameArrives \/ FrameMissed \/ DmaCompletes) /\ UNCHANGED sessionVars
  \/ HandlerRuns
  \/ Dpc /\ UNCHANGED sessionVars
  \/ ResetRuns
  \/ \E r \in Readers : ProcessRuns(r) \/ Open(r) \/ Release(r)
  \/ OpenStep \/ ReleaseStep

DeviceSpec == DeviceInit /\ [][DeviceNext]_deviceVars

(* The interrupt is taken, the work queue's thread runs, and a call of     *)
(* open or release goes on to its end.                                     *)
DeviceFairness ==
  /\ WF_deviceVars(HandlerRuns)
  /\ WF_deviceVars(Dpc /\ UNCHANGED sessionVars)
  /\ WF_deviceVars(OpenStep \/ ReleaseStep)

FairDeviceSpec == DeviceSpec /\ DeviceFairness

-----------------------------------------------------------------------------
DeviceTypeOK ==
  /\ OpenCount \in 0 .. OpenModulus - 1
  /\ files \subseteq Readers /\ user \in Readers
  /\ stage \in {"idle", "channel", "install", "request", "unmask",
                "uninstall", "free_irq", "close"}
  /\ channel \in BOOLEAN /\ handler \in BOOLEAN
  /\ allocated \in 0 .. NO_OF_BUFFERS
  /\ opens \in 0 .. MaxOpens

(* The DMA engine never has an address of memory the driver has not        *)
(* allocated or has freed: neither a transfer that runs, nor one the       *)
(* handler could still start.                                              *)
BuffersOutliveDma ==
  handler \/ dma.busy => channel /\ allocated = NO_OF_BUFFERS

(* plx_drv_release: "this was the last user uninstall isr and close dma    *)
(* channel(s)".  No handler is taken away from a process that has the      *)
(* device open, whatever opens failed before, as long as OpenCount has not *)
(* gone round.                                                             *)
LastUserUninstalls ==
  [][opens < OpenModulus /\ handler /\ ~handler' => files' = {}]_deviceVars

(* The chip is not left masked while a session lasts: it is masked only    *)
(* during an open, during a release, or with a DPC on its way that unmasks *)
(* it, even if that DPC was queued in an earlier session.                  *)
ChipBackInSession ==
  handler /\ stage = "idle" /\ ~dpcQueued /\ dpcPc = "idle" => intEnabled

(* A DMA interrupt of the session is acknowledged before the session ends, *)
(* with DPCs of two sessions in the queue as well.                         *)
SessionDmaServed ==
  (dmaInt /\ handler) ~> (~dmaInt \/ ~handler)

(* plx_drv_open: an open that finds OpenCount above one says "everything   *)
(* already installed": whoever holds a file has a handler.                 *)
EverythingInstalled ==
  files # {} /\ stage = "idle" => handler

(* plx_drv_read waits "for interrupt handler to signal that it's OK to     *)
(* read": what it is let through to was filled by a transfer of this       *)
(* session.                                                                *)
SignalledSlotIsFilled ==
  files # {} /\ handler /\ stage = "idle" /\ rp \in Slots /\ rp # wp => frames[rp] # Torn

=============================================================================

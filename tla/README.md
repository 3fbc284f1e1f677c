# TLA+ models of cjunk

cjunk is a collection of C programs around a detector system: a Linux driver for
a PLX 8311 frame grabber, a system monitor, a configuration store, small servers,
and many exercises.  This directory holds TLA+ specifications of the parts with
a protocol worth checking, the TLC configurations that check them on small
instances, and TLAPS proofs of what holds for every size.

## 1. Inventory

Paths are relative to `src/`; *driver* is `kernel/device_driver/chardrv/plx`.

| Component | State | Operations | What is hard |
|---|---|---|---|
| Frame ring of the driver (`plx_interrupt.c`, `plx_fops.c`, `plx_driver.c: plx_dma_transfer_block`) | `rp`, `wp`, `ip`, eight kernel buffers, `hw_buff_check`, error counters, `Source_Ints`, `read_semph`, interrupt mask | ISR, deferred procedure (DPC), `read`, `poll`, ORDER_HW 0x9 | no lock between the interrupt side and the readers; merged, masked and late interrupts; early returns |
| Sessions of the driver (`plx_fops.c: open/release`, `plx_driver.c`) | `OpenCount`, `dma_channels[0]`, buffers, `Flag_Interrupt` | open, release, channel open/close, handler install/uninstall | open that fails half way; DPC left over from the last session; eight-bit count |
| Command link of the driver (`plx_driver.c: chk_*`, `write_reg`, `read_reg`, SPI; `plx_ioctl.c`, `plx_proc.c`) | the transmit and receive registers of the SPI master, the static `localbuf` | immediate command, register read and write, /proc | polling without a lock, from ioctl and /proc at once; answers without a tag that come late |
| Load and exit of the driver | cdev, region, work queue, /proc entry | init, exit (probe and remove are never reached) | error paths that undo too little |
| System monitor (`watchdog/system_monitor.c`) | `clientSocket`, `gotit`, `wait_cntr` | connect, echo, reply, timeout | who speaks first after a reconnect; off-by-one limits |
| Configuration store (`configuration/configuration.c`) | configurations in memory and in the file | read, save, update, copy, calibration flags | two copies that drift apart; a write that truncates first; off-by-one limits |
| `ux_demo` server (`socket/ux_demo`) | list of clients, poll array | accept, request, drop | dangling list entries, clients that stop half way |
| Tag table (`hash/tag.c`) | tag to socket with a time | tie, untie, time out | duplicates, late timeouts |
| System state machine (`fsm/system_state.c`) | `system_state`, `background_state` | conditions reported by hardware and software | a report that answers the order before the last |
| pthreads ring (`pthreads/pthreads.c`) | `rp`, `wp` of a ring of eight | writer, reader thread | two-step wrap without a lock |
| Lists, trees, sockets, signals, SMS, dissector, scripts | - | - | sequential exercises, I/O and formatting: not modelled |

How they interact.  The detector raises a local interrupt on the board;
`plx_on_interrupt` starts a DMA from the board's buffer into `frames[ip]`; the
end of the DMA raises the second interrupt; the ISR masks the chip and queues
`plx_dpc_for_isr` on the driver's own work queue; that procedure acknowledges,
steps `wp`, wakes `read_queue` and unmasks; `plx_drv_read` copies `frames[rp]` to
the application.  The first `open` creates the buffers and installs the handler,
the last `release` takes them away.  The data acquisition application reads the
device, talks commands over sockets (tag table, state machine, configuration
store) and is watched by the system monitor.

What makes each correct:

* ring: frames come out whole, in order and without an unnoticed gap; the DMA
  never writes where a reader reads; no interrupt, wake-up or semaphore is lost;
* sessions: memory outlives the DMA; a handler is there exactly while somebody
  has the device open; nothing of one session reaches the next;
* command link: an answer goes to whoever asked, a command that succeeded arrives, every
  call returns;
* monitor: a live application is not given up, a dead one is noticed in time;
* configuration store: memory and file differ only where the program's own calls made
  them differ, and nothing in the file is forgotten;
* server, tags: no entry is used after it was freed; a reply finds its client and nobody
  else; no client is starved;
* threads: what is written is read, whole, once and in order;
* state machine: operational only on hardware that is.

## 2. Modules

| Module | What |
|---|---|
| `PlxRing` | the frame ring during one session: board, ISR, DPC, readers, ORDER_HW 0x9 |
| `MCPlxRing` | instances of it for TLC |
| `PlxRingProofs` | type, semaphore, interrupt mask: proofs |
| `PlxRingOrderProofs` | the three pointers and the order of frames: proofs |
| `PlxFrameQueue` | abstract: a bounded queue of frames, which a ring promises to be |
| `PlxRingQueue` | the refinement mapping from `PlxRing` to `PlxFrameQueue` |
| `PlxRingQueueProofs` | the ring implements the queue: proof |
| `PlxDevice` | open and release around `PlxRing` (EXTENDS it and composes its actions) |
| `MCPlxDevice` | instances of it for TLC |
| `PlxDeviceProofs` | type, life of the buffers, last user, chip and semaphore over sessions: proofs |
| `PlxLink` | the command link, the ioctls and /proc readers that share it, the detector |
| `MCPlxLink` | instance of it for TLC |
| `PlxLinkProofs` | types, requests, commands and answers: proofs |
| `SystemMonitor` | the system monitor, the application it watches and their connection |
| `MCSystemMonitor` | instance of it for TLC |
| `SystemMonitorProofs` | one echo at a time, silence, answered echoes, types: proofs |
| `ConfigStore` | the configuration in RAM and in the file |
| `MCConfigStore` | instance of it for TLC |
| `ConfigStoreProofs` | the two copies, valid flags, the count: proofs |
| `UxServer` | the `ux_demo` server and its clients |
| `TagTable` | the tag table |
| `ThreadRing` | the ring of two threads; a second implementation of `PlxFrameQueue` |
| `SystemState` | the system state machine and the hardware it stands for |
| `MCPrograms` | the last four side by side, for TLC |
| `ProgramsProofs` | each of the four, and the four side by side: proofs |

### PlxRing

Variables have the names of the fields of `driver_t`.  The board is environment:
`FrameArrives` sets bit 30 of the card status (and bit 31 when it was set
already), `FrameMissed` is a frame whose bit 30 is wiped out by the ISR's write,
`DmaCompletes` fills the slot and raises the DMA interrupt.

* **The ISR is one step** (`IsrRingFull`, `IsrFrame`, `IsrDmaDone`).  It runs with
  the interrupts of its CPU off, and of the state shared with readers it reads
  `rp` once and writes `ip` once, so nothing can tell its inner states apart; `ip`
  is momentarily equal to `NO_OF_BUFFERS` before its wrap, which no reader can
  mistake: only the reader that has the semaphore compares `rp` with `ip`, and it does so
  before it steps `rp`.  The one thing that moves under it is
  the DMA engine: `TransferBlock(refused)` lets a transfer that runs end after
  the interrupt status was read, so that the new transfer starts and the old
  interrupt stays behind.  Calls that return `IRQ_NONE` change only counters and
  are stutters.
* **The DPC** is five steps, because readers run between them: start, acknowledge,
  step `wp`, wrap `wp` and wake, unmask.  `wp++` and the wrap are separate stores,
  so `wp = NO_OF_BUFFERS` is visible in between.
* **`read`** is split at every point where shared state is read or written, but one (see
  the next item); `poll` takes the same semaphore.  Copying to user space may fail.  `rp++` and
  the wrap of `rp` are separate stores (`Advance`, `WrapRp`), so ISR, DPC, the reset and the
  readers that wait may find `rp = NO_OF_BUFFERS`.  `TypeOK` admits that value while a reader
  is in between, and at no other time.
* **Taken as one**: `rp++` and `wp++` each load, add and store in one step, so a
  reset between their load and their store is not modelled; each of the three stores of
  ORDER_HW 0x9 is a step; the ISR is one step as said above, and so is each of the DPC's five,
  its calls into the kernel included.
* **Not in the model**: counters that nothing but /proc reads (`counted` holds those
  that say something went wrong, as a set of the counters that have moved); the
  eight words written into the board's memory for debugging; DMA channel 1, which
  is compiled out (`plx/Makefile`: STEP_IN_INT, STEP_IN_INT_DPC, FASTER_CL).
* `hw_buff_check` is kept modulo 4; the code's U8 goes round at 256, a multiple
  of 4, and is only used modulo 4.
* `delivered`, `wrapRace`, `resets` are history.

`NoTrouble` is the premise of what the ring promises: no full ring, no refused
transfer, no reader that believed `wp` in the middle of its wrap, no reset of
the pointers.  After one of these the code gives no promise of order, and the
runs `ring_never` and `device_stale` show what happens.

### PlxDevice

`Open`, then one step per call of the set-up (`ChannelUnavailable` or
`ChannelOpened`, `InstallClears`, `InstallRequests`, `InstallUnmasks`), then
`Release` and one step per call of the tear-down.  `stage` is where the holder
of `Lock_DeviceOpen` is; ISR, DPC, board and readers run between the steps.
Allocation may stop after any buffer and `request_irq` may fail.  `OpenCount`
goes round at `OpenModulus`.  A file is released once no call on it is under way,
as the kernel guarantees.  The ISR's check that the channel is open
(plx_driver.c:1279) never fails here: `BuffersOutliveDma` says so.

### SystemMonitor

`pc` is where `main` is: connecting (for the first time, or again), about to send,
in `select` or reading the marker, reading the header or the data behind it, in
`wait_for_reboot`, gone.  `long` is whether the length in `msg` is above zero.
`attempts` is the local `i` of `connect_2_appl`; `gotit`, `wait_cntr` and the `cmd` of
the static `msg` have the names of the code.  One iteration of the main loop is an
action for each way through it: three for a timeout, and for something to receive
`ReceiveMarker`, then the header, then the data if there is some, because the application
sends these apart and may be gone between them.  What is not a marker keeps the loop around
`recv` waiting for one, at `"marker"`, without another `select` and its timeout.  After a header that never came `msg` still
holds the last one, its length included (`ReceiveStaleHeader`).  The loop of `receive_cmd` over
the data does not end when the connection has: `pc` then stays at `"data"`.

* **The environment** is the data acquisition application and the connection.  It may
  answer late, with an echo or with something else; it may hang, die and be
  started again between any two sends (`MaxFaults` in all).  A hung application still
  accepts connections, since the kernel's backlog does that for it.  The connection keeps
  order; what the application sent before it died is still received.
* `Killed` is SIGINT (`catch_int`) or the SIGPIPE of a send to a peer that is gone.
* **Not in the model**: what the data of a command holds, the tag, which is only
  reported, the hardware watchdog and the restart of the application (compiled out).
* `outstanding`, `answered` and `waited` are history of the connection there is: echoes
  sent less echoes received, whether the last thing was a reply, silent timeouts, the one that
  closes the connection included.  `SilenceIsBounded` allows `SENT_ECHOS + 3` of these: one
  sends the echo, `SENT_ECHOS + 1` are counted before `wait_cntr <= SENT_ECHOS` fails, one closes.

### PlxFrameQueue and PlxRingQueue

`PlxFrameQueue` is what `read()` is for: a bounded queue of frames, announced with growing
numbers and delivered oldest first, until the promise ends.  `PlxRingQueue` maps the
ring to it: the queue is what the slots from `rp` to `wp` hold (a `wp` that is about to be
wrapped is slot 0), the frame delivered last is `delivered`, and the promise is
`NoTrouble`.  `DpcPublish` is `Announce`, `Advance` of a reader is `Deliver`; all the rest,
the wraps of `wp` and `rp` and the DMA into the slot behind them included, is invisible or
`Trouble`: a pointer that is about to be wrapped is slot 0 already.

### PlxLink

One transmit register (`tx`), one receive register (`spimData` with its flag `rsd`), a
detector that owes answers in the order of the questions, and processes at one of thirteen
places (`pc`).  The steps of a call are the accesses to the status and data registers: a poll
that finds its flag at once, one that waits, one that gives up; the write of
`SPIM_LW_DATA`; the read of `SPIM_DATA`.

* `plx_drv_ioctl` is a handler of the old kind: the kernel calls it with the big kernel lock
  (`bkl`), which a process gives back while it sleeps.  `copy_from_user` and `copy_to_user`
  may sleep (`Fault`), so `localbuf` is safe between them and not in them.
  `plx_read_procmem` takes no lock.
* **A request is two words** (`addr`, `data`), and the page of the second may be missing when
  the first has been copied: `CopyHalf` writes the first and sleeps, `CopyRest` goes on, and what
  others wrote into `localbuf` meanwhile stays, so a mixed request is sent.  `mixed` is
  history: whose request another one came into.  A word is stored whole.  A mixed write is
  nobody's command (`Asked`); a mixed ORDER_HW may be another order than 0xc and goes straight
  to `"out"`; IMMEDIATE_COMMAND, which is one word, does no more than a write.
* **Both paths to -EFAULT** are there: `CopyInFails` (the kernel clears what it has not copied,
  so a word or none of the request stays behind in `localbuf`) and `CopyOutFails`.
* Each question has a ticket, a number of its own: data are named by the question
  they answer, so an answer to an older question about the same register is told from a
  fresh one.
* `Send` while a command is being shifted out either replaces that command or is ignored.
* A poll that found its flag down may run into its limit at any later moment: the limit is
  tested after the flag was read again, so a flag that came up just then is missed.
* `mess` is history: `late` (a poll for an answer gave up), `crossed` (a /proc reader came
  between two steps of another call, or another between its own), `overwritten` (an ioctl
  or a part of one came while another slept in `copy_to_user`), `skipped` (a command was never sent and nobody
  is told).
* **Not in the model**: registers of the PLX chip and of the FPGA, which are single loads and
  stores; the orders of ORDER_HW that only read or clear counters; formatting.

### ConfigStore

`file` is the configuration file, or `Torn` when nobody can parse it; `ram` is
`i_config`.  A configuration is one value for its settings and one for each calibration
flag; hand-written files may lack the groups and flags `read_configuration_file` tolerates.  The
functions that save parse the file, change what they parsed and write all of it back:
`WriteFile` truncates, `WriteEnds` is the last byte, and a full disk leaves the file torn
without an error.  A crash may come in between; somebody may put the copy
that `copy_configuration_file` made in the file's place, also while the program runs.

* A number is a signed `int`.  `Slots` are the numbers `i_config` has an element for, `Given` those
  the functions are called with (from `-Below` to `Limit + 1`), `Numbers` those `save_configuration`
  lets pass: it compares with `>` and looks at no lower bound.
  `save_default_configuration_number` checks nothing and takes all of `Given`.
* `ram` has an entry for each slot and none for another number.  A read of the file goes on
  to the count in it (`Beyond`), and `set_calibration_flag` writes to any number that is
  in the file; of a write outside the array the model keeps the number (`spilled`) and not what
  memory it hit, which the code does not determine.
* `dirty`, `asked`, `lowered` and `strayed` are history: entries of the file that were changed
  since it was read, what `set_calibration_flag` was told, whether a number below the highest
  was saved, whether one without a slot was.  They name what the code itself makes differ, and
  the properties say that nothing else does.
* `set_calibration_flag` is two actions, with the lookup that fails after `i_config` was
  changed, and without.
* **Not in the model**: SNMP agent and thresholds (read, never written), the getters (they
  only read, `get_configuration` also the element behind the array once the count is past it),
  the text of the file.

### UxServer

The server is one process: `Poll`, one step for each node of the loop, one for each part of a
packet it reads, `Reply`, `Accept`.  The list is kept as it is in memory: `head`,
`next`, `prev`, the allocated nodes, `num_clients`.  A packet is two parts, its length
and its text; reads block between them, and the rest of the server waits.  Clients connect, send and
exit at any point.  `slipped` is history: a client that was not first has been removed.
What the program does after it follows a pointer to freed memory is not
modelled; it stops there, as it does at SIGPIPE.

### TagTable

The table as the places in memory that hold an entry, each with tag, socket and age.  `asked` is what
really waits for a reply, `watch` the age a caller of `delete_multi_cmd_tag` keeps, `reused` the
tags that were asked with again before their last use was over, for which the code promises
nothing.  Of several entries with one tag the hash may return any.

### ThreadRing

One step for each load and store of `wp` and `rp`.  A compiler that merges two of them does
what the model does when nobody comes in between.  `raced` is history: the reader saw `wp`
in the middle of its wrap while `rp` was 0, which is where the promise ends.

### SystemState

`change_system_state` as a set of arrows.  The hardware is on its way, ready, failed or
silent; its reports wait in a queue and do not say what they answer.  `overtaken` is
history: an order was given before the last one was carried out and its report handled.

## 3. Runs

| Run | Bounds | Shows |
|---|---|---|
| `ring_safe` | 3 buffers, 2 readers (symmetric), 5 frames, no reset | `DeliversInOrder`, `GapsAreCounted`, `PointersMeetOnlyAfterTrouble`, `PointersInOrder`, `FramesInOrder`; the refinement `ImplementsQueue` |
| `ring_live` | 2 buffers, 2 readers, 1 reset | `TypeOK`, `ReadersExclude`, `SemaphoreLostOnlyAtIp`, `DpcOwnsChip`; `DmaInterruptServed`, `InterruptsComeBack`, `SleepersAreWoken` |
| `ring_never` | small | `ReaderNeverReachesIp` is violated |
| `device_session` | 2 buffers, 2 processes, 2 frames, 1 reset, 3 opens, `OpenModulus` 3 | `DeviceTypeOK`, `BuffersOutliveDma`, `ChipBackInSession`, `LastUserUninstalls`; `SessionDmaServed` |
| `device_stale` | 1 process, 3 buffers | `SignalledSlotIsFilled` is violated |
| `link_share` | 2 callers of ioctl, 1 reader of /proc with 2 registers, 3 tickets | `LinkTypeOK`, `RequestKept`, `OwnAnswer`, `NothingLeftOver`, `CommandsArrive`; `CallsReturn` |
| `link_late` | 1 caller, 3 tickets | `RealDataRead` is violated |
| `link_half` | 2 callers, 3 tickets | `RequestRetrieved` is violated |
| `monitor_watch` | 5 attempts, 3 echoes (the code's), 4 faults | `MonitorTypeOK`, `OneEchoAtATime`, `SilenceIsBounded`, `AnsweredIsKept`; `DeadApplicationNoticed` |
| `store_copies` | 2 slots, numbers -1 to 3, 2 settings, 1 flag, 3 writes, 1 crash | `StoreTypeOK`, `CopiesAgree`, `ValidStaysValid`, `NothingForgotten`, `SpillsOnlyStrays` |
| `programs_all` | server: 3 clients, 1 request each; tags: 2 tags, 2 sockets, 3 entries, timeout 1; threads: 3 slots, 6 frames; state: 3 reports | `ProgramsTypeOK`, `ListIsSound`, `TiesAreRequests`, `OperationalIsWarm`; `Served`, the refinement `ThreadsImplementQueue` |
| `server_list` | 3 clients | `ListOfCurrentClients` is violated |

Why the bounds are enough.  Three buffers are the smallest ring in which empty,
partly filled and full differ and the wrap happens inside a run of frames; five
frames go round the ring and round the four hardware buffers.  Two readers are
what mutual exclusion and a lost wake-up need.  Two buffers in the live run keep
the graph small and make the ring full often.  Three opens give sessions that follow each
other, so a DPC can outlive its session, and sessions that two processes share; `OpenCount`
goes round at 3 there instead of 256, so an open may meet a channel that is open already.  Three tickets let
a late answer shift two later reads, or an ioctl and both registers of a /proc
reader meet.  Four faults let the application die over half a reply, come back, hang and die
again.  With `MAX_NO_OF_CONFIGS` = 2 the numbers -1 to 3 have one below the array, two in it, the
first behind it, which `save_configuration` lets pass, and one it refuses; three writes and one crash let a configuration be saved, changed, torn and restored.
Three clients give a list with a node that is neither first nor last; the server handles one
request after the other, so one per client is enough to starve another.  Three
entries hold two uses of one tag beside another.  Six frames go round three slots twice.

`programs_all` holds four programs that do not know each other, one at a time: the variable
`program` is chosen at the start and the others keep their initial state, so the run is the sum
of four runs, not their product.

The deadlock check is on for the ring: its readers can always call again.  It is off
for the device, where `MaxOpens` lets the system come to rest with everything
closed, for the monitor, which may exit or wait for a reboot, and where a bound on tickets,
writes or requests ends the run.

Eight more configurations are kept for use by hand and belong to no run; each finds its
property violated:

| Configuration | Property | Why |
|---|---|---|
| `PlxRing_announce` | `CompletedFramesAreAnnounced` | one acknowledge covers two frames |
| `PlxDevice_installed` | `EverythingInstalled` | `OpenCount` is not taken back when open fails |
| `SystemMonitor_silence` | `GivesUpAfterSentEchos` | system_monitor.c:537 says that `SENT_ECHOS` timeouts are waited, the code takes up to three more |
| `SystemMonitor_data` | `DeathInDataNoticed` | an application that dies before the data of a command leaves the monitor in a loop around `recv`, which returns 0 for ever |
| `SystemMonitor_unasked` | `GivesUpOnlyUnanswered` | no echo is sent after a reconnect |
| `SystemMonitor_hung` | `HungApplicationNoticed` | an application that accepts connections and answers nothing is reconnected to for ever |
| `ConfigStore_count` | `CountGrows` | configuration.c:1168 says the count is incremented; saving a number below the highest one lowers it |
| `ConfigStore_flag` | `FlagReadsBack` | `set_calibration_flag` stores the number of the flag in RAM, so a flag that was invalidated reads as valid until the file is read again |

Fairness.  `Fairness` asks that a transfer ends (hardware), that a pending unmasked
interrupt is taken, that the work queue's thread runs, that ORDER_HW 0x9 and a
process that does not wait go on (the scheduler).  No fairness is assumed for frames, signals or
calls.  `DeviceFairness` adds that a call of open or release goes on to its end.
Taking the semaphore has no fairness: `ring_never` shows it can be gone.
`LinkFairness`: a process in the kernel takes its next step, a limit passes, and a page comes
in; the detector and the transmitter owe nothing.
`Fairness` of the monitor: time passes for `select` and the process runs, and an application that
is up sends its replies; nothing makes it hang, die or start.
`ServerSpec`: the server runs, and a client that has sent the length of a packet sends the
text or ends (`send_packet` waits for nothing in between).
The tag table, the two threads and the state machine are checked for safety alone: nothing says when
they are called, or that the hardware ever answers.

## 4. What the violated runs show

1. `ring_never`: `rp == ip` in `plx_drv_read`, marked "This should never occur!",
   occurs once the ring has been full, and the function returns there with the
   semaphore taken: all later reads and polls block.
2. `device_stale`: release does not flush the work queue; a DPC of the last session
   steps `wp` of the new one, and a reader is given an empty buffer.
3. `link_late`: an answer that comes after `plx_chk_rsd` gave up stays in `SPIM_DATA`; each
   later `plx_read_reg` takes the answer to the question before its own.
4. `link_half`: `copy_from_user` faults behind the first word of a request; another ioctl fills
   the same static buffer, and the first goes on with a request that is the other's in front.
   `link_share` shows that a request mixed like this is the only one that is not kept, and
   that the answers and commands of the others are still theirs.
5. `server_list`: a new client does not become the predecessor of the old first one; when
   a client leaves that is not first, the list leads to freed memory.

What a premise of a property leaves out is not shown by it.  `NothingForgotten` leaves out the
lowered count (`ConfigStore_count` shows it), `ListIsSound` the client that was not first
(`server_list`), `DeadApplicationNoticed` the death in the data (`SystemMonitor_data`).
Two premises stand for something the repository does not say, and no property covers what
they leave out: a tag that is used again while its last use is not over (`TiesAreRequests`) and an
order that overtakes the report of the last (`OperationalIsWarm`).  Nor does one cover hardware
that falls silent while it cools: CHILL expects no timeout (fsm/system_state.c:227), WARMUP does, and
the state machine stays there until a failure is reported or somebody calls
`set_standby_system_state`.

## 5. Proofs

Every invariant, every action property and both refinements of the passing runs are theorems, for
every value of the constants.  Most of them are not inductive; each module below names
the invariant that is.

For any number of buffers (at least two), readers, frames and resets:

* `PlxRingProofs`: `Semaphore`, the inductive `SemaphoreInv` (the value
  of `read_semph` against who is inside, for any set of readers), from which
  `MutualExclusion`, `LostOnlyAtIp` and `TypeCorrect`: that `rp` is in range except inside the
  wrap of one reader needs that no other reader can step it there, so the types are
  inductive together with the exclusion of the readers and not without; `ChipOwned` (`DpcOwnsChip` is inductive on its
  own given the types).
* `PlxRingOrderProofs`: `PointersStayInOrder`: `PointersInOrder` is the strengthening
  that makes `DeliversInOrder` provable.  The distances from `rp` to `wp` to `ip`
  never add up to a full ring, and between `wp` and `ip` there is a slot for each
  transfer that runs, waits for its interrupt or has been acknowledged; that is
  why the DPC can step `wp` without looking at `ip`.  `TroubleComesFirst` follows.
  A pointer in the middle of its wrap counts as slot 0 (`WrappedRp`, `WrappedWp`), so `Advance` moves
  the reader and `WrapRp` moves nothing; that the ISR's and the DPC's comparison with an `rp` that is
  not wrapped yet still stops at the reader is a lemma of its own.
  `FramesStayInOrder` adds what the slots hold, and `DeliveredInOrder` follows from
  both.
  `GapsLeaveATrace` follows the hardware buffer numbers: the frame the ISR took last
  and `hw_buff_check` agree modulo 4, and the frames in the ring are congruent
  neighbours as long as `cntr_lost_ints` is zero.
  `NoWakeupIsLost` is the safety half of `SleepersAreWoken`: until trouble is counted, a process
  asleep while there is a frame sleeps only while `dpcPc = "wrap"`, whose next step wakes it.
  No run checks it; what it needs of the pointers is that `rp` is stepped only in a ring that
  is not empty.
* `PlxRingQueueProofs`: `RingImplementsQueue`, a refinement: initial states map to initial
  states, and each action of the ring to `Announce`, `Deliver`, `Trouble` or a stutter, from the
  invariants of the two modules above.

For any number of processes and opens as well:

* `PlxDeviceProofs`: `DeviceTypeCorrect`; `DmaIntoLiveBuffers`, by an invariant that ties
  the stage of open and release to the channel and the handler; `CountCoversFiles`
  and `HandlerOutlivesFiles`, which hold until `OpenModulus` (256) calls of open have been
  made: each failed open leaves `OpenCount` one higher, and once it goes round a release can
  take the handler from a process that still has the device open.  `ChipIsBack`:
  outside of the calls that mask it a chip that is masked has a DPC on its way (`ChipInv`; the
  stage before `"close"` must also be known to have taken the handler away).
  `SemaphoreOutlivesSessions` takes the ring's types and its semaphore through all sessions: a
  semaphore lost in one session stays lost in the next, for no open gives it back.

For any numbers of callers, /proc readers, registers and tickets:

* `PlxLinkProofs`: `LinkTypesHold` and `RequestIsKept` from `LockInv`: who runs in ioctl() holds the big
  kernel lock, and whoever found the transmitter free still finds it so unless a /proc reader
  came.  A request that is half copied has one owner and no lock, and whoever writes
  `localbuf` then puts that owner into `mixed`; of everybody else both words are their own.
  `CommandsDoArrive` from `CommandsOnTheirWay`, the same said of calls that have not
  returned yet.  `AnswersAreOwn` and `NothingIsLeftOver` from `LinkInv`: a question is in
  exactly one place, being sent, with the detector or answered in `SPIM_DATA`, at most one process
  waits, and without one there is none; what was read is kept until it is handed out.

For any limits, settings and flags, writes, crashes and faults:

* `ConfigStoreProofs`: `StoreTypesHold`, `TheCopiesAgree`, `ValidDoesStayValid`, `NothingIsForgotten`
  and `OnlyStraysSpill` from `StoreInv`.  What the properties say of the file must hold of the file that is
  being written (`pending`) and, for the count, of the copy that can be put back; while the
  control system is down nothing is being written.  `SpillInv`: as long as nobody saved a number
  without a slot, all configurations in the file, in what is being written and in the copy have slots.
* `SystemMonitorProofs`: `AsksOnceAtATime`, `SilenceEnds`
  and `AnsweredStays`, all from the inductive `CreditInv`.  `gotit` and `wait_cntr` outlive a
  connection, so none of the three is inductive: a credit carried over is spent at the
  first timeout of the new connection or replaced by a reply on it, and each further silent
  timeout moves `wait_cntr`, which bounds the silence of an open connection by `SENT_ECHOS + 2`; the
  timeout that closes it is one more.
  `MonitorTypesHold` needs `RepliesInv`: that what `receive_cmd` takes for a header is one rests on
  the order of the parts under way (marker, header, data behind a header that announces some), on
  where the monitor is in them and on where the application stopped sending.

For any numbers of clients, tags, sockets, slots and reports:

* `ProgramsProofs`, one section for each program.  `TiesAreTrue`: `OneUse` adds that a tag used once at a time has at
  most one entry, of the age of its request.  `OperationalMeansWarm`: `StateInv` adds that a
  failure is reported only when there is one, and that in WARMUP a report at the head of the
  queue answers the order that led there.  `ThreadsAreAQueue`: `ThreadInv` numbers the slots
  from `rp` to `wp` without a gap and keeps writer and reader out of each other's slot, and each step
  of a thread is then a step of the queue or none.  `ListLeadsToClients`: no node knows its
  predecessor, so the removal of the first client is a pop, and as long as nothing
  else was done the list is a stack of the allocated nodes (`Stacked`); that following `next`
  reaches these and no others is proved from the least number of steps.  `ProgramsTypesHold`,
  `ProgramsAreSafe` and `ProgramsQueue` state the same of the composition the run checks.

The constants' assumptions: at least two buffers and two slots (`BuffersAssumption`,
`ThreadAssumption`: with one, empty and full are the same); `OpenModulus` above one
(`OpenAssumption`); the two kinds of processes of the link are disjoint, `None` is neither a
process nor a command and /proc shows at least one register (`LinkAssumption`, `NoneIsNoCommand`); `MAX_NO_OF_CONFIGS` is not zero and
`Zero` is no settings (`StoreAssumption`); sockets are positive numbers, for 0 stands for an asker that has gone (`TagAssumption`); the clients are
finitely many and `Nil` is none of them (`ServerAssumption`); the rest say that limits and bounds are natural numbers
(`BoundsAssumption`, `MonitorAssumption`, `StateAssumption`).

Only model-checked: the seven liveness properties (`DmaInterruptServed`, `InterruptsComeBack`,
`SleepersAreWoken`, `SessionDmaServed`, `CallsReturn`, `DeadApplicationNoticed`, `Served`),
which are out of the prover's reach with fairness and ENABLED; and the
properties that are violated.

## 6. Plan

1. Done: `PlxRing`, `PlxDevice`, `SystemMonitor`, `PlxLink`, `ConfigStore`, `UxServer`, `TagTable`, `ThreadRing`,
   `SystemState`; the abstract queue and its two implementations; the proofs of section 5.
2. What could still be proved: the safety half of other liveness properties, as `NoWakeupIsLost` is of
   `SleepersAreWoken`; the pointers and frames of the ring over more than one session, which needs
   to say what a DPC left over from the last one may do.

## 7. Not modelled, and why

* Load and exit of the driver: at this commit `plx_drv_init_module` never registers the PCI driver, so
  `plx_drv_probe` and `plx_drv_remove`, with their error paths, are not reached.  What runs is one
  sequence at load.
* The kernel timer example fires one timer a fixed number of times.
* Three quarters of the repository's lines are not protocols: vendored code
  (`memwatch`, `uthash`, `utlist`), William Kahan's `paranoia`, a Wireshark dissector,
  exercises in C, Perl and C++, generated tables.  A model of them would restate
  sequential code line by line.
* The SMS modem and the socket and signal exercises do one system call after the other and keep no
  state a property could be about.

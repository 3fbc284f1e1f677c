------------------------------ MODULE PlxLink ------------------------------
(***************************************************************************)
(* The command link to the detector (kernel/device_driver/chardrv/plx):    *)
(* ioctl() reads and writes the detector's registers over the FPGA's SPI   *)
(* master, and so does every read of the driver's /proc entry.             *)
(*                                                                         *)
(* The link has one transmit register and one receive register, no queue   *)
(* and no tags: an answer belongs to a question only because it is the     *)
(* next one to arrive.  The driver polls a status register for both, for a *)
(* limited time.  Calls of ioctl() exclude each other with the big kernel  *)
(* lock, which a process gives back while it sleeps on a page fault in     *)
(* copy_from_user or copy_to_user; they share the static buffer localbuf.  *)
(* A request is two words there, and the page of the second may be missing *)
(* when the first has been copied.  The /proc reader takes no lock at all. *)
(*                                                                         *)
(* Each question has a ticket, a number of its own, so that a stale answer *)
(* is told from a fresh one even when both are about the same register.    *)
(* Time is not modelled: a poll that found its flag down once may run into *)
(* its limit at any later moment, also when the flag has just come up.     *)
(***************************************************************************)
EXTENDS Integers, Sequences, FiniteSets

CONSTANTS
  Callers,      \* processes that call ioctl()
  ProcReaders,  \* processes that read the /proc entry
  ProcRegs,     \* registers one read of /proc asks for
  MaxTickets,   \* bound: questions and commands in all
  None          \* nobody, nothing

ASSUME LinkAssumption ==
  /\ Callers \cap ProcReaders = {} /\ None \notin Callers \cup ProcReaders
  /\ ProcRegs \in Nat \ {0} /\ MaxTickets \in Nat

Procs   == Callers \cup ProcReaders
Tickets == 1 .. MaxTickets
Unasked == 0                         \* data that answers no question
Data    == Tickets \cup {Unasked}

(* What an ioctl asks for: READ_COMMAND_LINK_REG; WRITE_COMMAND_LINK_REG   *)
(* or IMMEDIATE_COMMAND; ORDER_HW 0xc, which resets sequence counters.     *)
Ops == {"read", "write", "sequence"}

VARIABLES
  tx,        \* the command the SPI master is sending: TBUSY is set
  owed,      \* tickets of the questions the detector has yet to answer
  rsd,       \* SPIM_STAT_RSD: an answer has come and was not read
  spimData,  \* SPIM_DATA: the last answer that came
  received,  \* the commands the detector has got
  bkl,       \* who holds the big kernel lock
  localbuf,  \* the static buffer of plx_drv_ioctl, seen as a Register
  pc, op, ticket,  \* where a process is, what it does, and for which ticket
  left,      \* registers a /proc reader has still to ask for
  temp,      \* the local variable temp of plx_read_procmem
  got,       \* the data a process was handed last
  result,    \* what its last call returned
  issued,    \* tickets handed out so far (bound)
  mess,      \* what has gone wrong on the link so far
  mixed      \* whose request another one came into while it was copied

wire     == <<tx, owed, rsd, spimData, received>>
shared   == <<bkl, localbuf>>
handed   == <<got, result>>
linkVars == <<wire, shared, pc, op, ticket, left, temp, handed, issued, mess, mixed>>

Command == [ticket : Data, from : Procs, read : BOOLEAN]

ASSUME NoneIsNoCommand == None \notin Command

LinkInit ==
  /\ tx = None /\ owed = <<>> /\ rsd = FALSE /\ spimData = Unasked
  /\ received = {} /\ bkl = None
  /\ localbuf = [addr |-> Unasked, data |-> Unasked]
  /\ pc = [c \in Procs |-> "idle"] /\ op = [c \in Procs |-> "read"]
  /\ ticket = [c \in Procs |-> Unasked] /\ left = [c \in Procs |-> 0]
  /\ temp = [c \in Procs |-> Unasked] /\ got = [c \in Procs |-> Unasked]
  /\ result = [c \in Procs |-> "none"]
  /\ issued = 0 /\ mess = {} /\ mixed = {}

GoTo(c, from, to) == pc[c] = from /\ pc' = [pc EXCEPT ![c] = to]

-----------------------------------------------------------------------------
(* plx_drv_ioctl up to the switch, and from it to the return.              *)

(* Mutant: an unlocked_ioctl, which runs without the big kernel lock.      *)
EnterUnlocked(c, o) ==
  /\ issued < MaxTickets
  /\ GoTo(c, "idle", "in")
  /\ issued' = issued + 1
  /\ op' = [op EXCEPT ![c] = o]
  /\ ticket' = [ticket EXCEPT ![c] = issued + 1]
  /\ bkl' = c /\ mixed' = mixed \ {c}
  /\ UNCHANGED <<wire, localbuf, left, temp, handed, mess>>

Enter(c, o) ==
  /\ bkl = None /\ issued < MaxTickets
  /\ GoTo(c, "idle", "in")
  /\ issued' = issued + 1
  /\ op' = [op EXCEPT ![c] = o]
  /\ ticket' = [ticket EXCEPT ![c] = issued + 1]
  /\ bkl' = c /\ mixed' = mixed \ {c}
  /\ UNCHANGED <<wire, localbuf, left, temp, handed, mess>>

(* A page of the user's is not there: the process sleeps without the lock, *)
(* and goes on once it has it again.  A write copies nothing out.          *)
Fault(c) ==
  /\ \/ GoTo(c, "in", "inAsleep")
     \/ GoTo(c, "out", "outAsleep") /\ op[c] # "write"
  /\ bkl' = None
  /\ UNCHANGED <<wire, localbuf, op, ticket, left, temp, handed, issued, mess, mixed>>

InKernel(c, awake, asleep) ==
  pc[c] = awake \/ (pc[c] = asleep /\ bkl = None)

(* The second word of a request: a read hands over a place for the answer. *)
Second(c) == IF op[c] = "write" THEN ticket[c] ELSE Unasked

(* What a write into localbuf does to those who sleep with something in it:*)
(* an answer is lost, the first half of a request is another one's.        *)
Disturbed ==
  /\ mess' = mess \cup {m \in {"overwritten"} :
                          \E d \in Callers : pc[d] = "outAsleep"}
  /\ mixed' = mixed \cup {d \in Callers :
                            pc[d] = "halfAsleep" /\ localbuf'.addr # ticket[d]}

(* copy_from_user, without a fault or after one at its first word.         *)
CopyIn(c) ==
  /\ InKernel(c, "in", "inAsleep")
  /\ pc' = [pc EXCEPT ![c] = "poll"]
  /\ bkl' = c
  /\ localbuf' = [addr |-> ticket[c], data |-> Second(c)]
  /\ Disturbed
  /\ UNCHANGED <<wire, op, ticket, left, temp, handed, issued>>

(* copy_from_user, up to a fault at the second word: the process sleeps.   *)
CopyHalf(c) ==
  /\ InKernel(c, "in", "inAsleep")
  /\ pc' = [pc EXCEPT ![c] = "halfAsleep"]
  /\ bkl' = None
  /\ localbuf' = [localbuf EXCEPT !.addr = ticket[c]]
  /\ Disturbed
  /\ UNCHANGED <<wire, op, ticket, left, temp, handed, issued>>

(* The rest of copy_from_user.  An ORDER_HW whose first word is now that   *)
(* of another order does what that one says, and maybe not 0xc.            *)
CopyRest(c) ==
  /\ pc[c] = "halfAsleep" /\ bkl = None
  /\ \E to \in {"poll", "out"} :
       /\ to = "out" => op[c] = "sequence" /\ localbuf.addr # ticket[c]
       /\ pc' = [pc EXCEPT ![c] = to]
  /\ bkl' = c
  /\ localbuf' = [localbuf EXCEPT !.data = Second(c)]
  /\ Disturbed
  /\ UNCHANGED <<wire, op, ticket, left, temp, handed, issued>>

Unserved(c) ==
  /\ pc' = [pc EXCEPT ![c] = "idle"]
  /\ bkl' = None
  /\ result' = [result EXCEPT ![c] = "failed"]

(* The user's page does not exist: -EFAULT, and copy_from_user clears what *)
(* it has not copied.  An order that is none returns -EFAULT as well.      *)
CopyInFails(c) ==
  /\ \/ /\ InKernel(c, "in", "inAsleep")
        /\ \E word \in {Unasked, ticket[c]} :
             localbuf' = [addr |-> word, data |-> Unasked]
     \/ /\ pc[c] = "halfAsleep" /\ bkl = None
        /\ localbuf' = [localbuf EXCEPT !.data = Unasked]
  /\ Unserved(c)
  /\ Disturbed
  /\ UNCHANGED <<wire, op, ticket, left, temp, got, issued>>

(* copy_to_user, and the call returns.                                     *)
CopyOut(c) ==
  /\ InKernel(c, "out", "outAsleep")
  /\ pc' = [pc EXCEPT ![c] = "idle"]
  /\ bkl' = None
  /\ got' = [got EXCEPT ![c] = localbuf.data]
  /\ result' = [result EXCEPT ![c] = "ok"]
  /\ UNCHANGED <<wire, localbuf, op, ticket, left, temp, issued, mess, mixed>>

(* copy_to_user has nowhere to copy to: -EFAULT.                           *)
CopyOutFails(c) ==
  /\ InKernel(c, "out", "outAsleep") /\ op[c] # "write"
  /\ Unserved(c)
  /\ UNCHANGED <<wire, localbuf, op, ticket, left, temp, got, issued, mess, mixed>>

-----------------------------------------------------------------------------
(* plx_read_procmem: one register after the other, each into temp, whose   *)
(* value is shown whether plx_read_reg succeeded or not.                   *)

ProcStart(c) ==
  /\ issued + ProcRegs <= MaxTickets
  /\ GoTo(c, "idle", "poll")
  /\ issued' = issued + ProcRegs
  /\ ticket' = [ticket EXCEPT ![c] = issued + 1]
  /\ left' = [left EXCEPT ![c] = ProcRegs - 1]
  /\ temp' = [temp EXCEPT ![c] = Unasked]
  /\ UNCHANGED <<wire, shared, op, handed, mess, mixed>>

(* Mutant: one register too many.                                          *)
ShowOn(c, value) ==
  /\ temp' = [temp EXCEPT ![c] = value]
  /\ got' = [got EXCEPT ![c] = value]
  /\ result' = [result EXCEPT ![c] = "ok"]
  /\ pc' = [pc EXCEPT ![c] = IF left[c] < 0 THEN "idle" ELSE "shown"]
  /\ UNCHANGED <<shared, op, ticket, left, issued>>

(* Show value, and ask for the next register.                              *)
Show(c, value) ==
  /\ temp' = [temp EXCEPT ![c] = value]
  /\ got' = [got EXCEPT ![c] = value]
  /\ result' = [result EXCEPT ![c] = "ok"]
  /\ pc' = [pc EXCEPT ![c] = IF left[c] = 0 THEN "idle" ELSE "shown"]
  /\ UNCHANGED <<shared, op, ticket, left, issued>>

NextRegister(c) ==
  /\ GoTo(c, "shown", "poll")
  /\ ticket' = [ticket EXCEPT ![c] = @ + 1]
  /\ left' = [left EXCEPT ![c] = @ - 1]
  /\ UNCHANGED <<wire, shared, op, temp, handed, issued, mess, mixed>>

-----------------------------------------------------------------------------
(* plx_read_reg, plx_write_reg and plx_immediate_cmd.                      *)

(* The call fails.  An ioctl returns -EIO, but ORDER_HW 0xc ignores it; a  *)
(* /proc reader shows what temp was.                                       *)
Fails(c) ==
  \/ /\ c \in Callers /\ op[c] # "sequence"
     /\ Unserved(c)
     /\ UNCHANGED <<localbuf, op, ticket, left, temp, got, issued>>
  \/ /\ c \in Callers /\ op[c] = "sequence"
     /\ pc' = [pc EXCEPT ![c] = "out"]
     /\ UNCHANGED <<shared, op, ticket, left, temp, handed, issued>>
  \/ /\ c \in ProcReaders
     /\ Show(c, temp[c])

(* Mutant: the status is not looked at.                                    *)
PollNot(c) ==
  /\ pc[c] = "poll"
  /\ pc' = [pc EXCEPT ![c] = "send"]
  /\ UNCHANGED <<wire, shared, op, ticket, left, temp, handed, issued, mess, mixed>>

(* plx_chk_tbusy, plx_chk_tbe: wait until the transmitter is free.         *)
Poll(c) ==
  /\ pc[c] = "poll"
  /\ pc' = [pc EXCEPT ![c] = IF tx = None THEN "send" ELSE "wait"]
  /\ UNCHANGED <<wire, shared, op, ticket, left, temp, handed, issued, mess, mixed>>

PollAgain(c) ==
  /\ tx = None
  /\ GoTo(c, "wait", "send")
  /\ UNCHANGED <<wire, shared, op, ticket, left, temp, handed, issued, mess, mixed>>

(* Mutant: the loop has no limit.                                          *)
GiveUpNever(c) == FALSE

GiveUp(c) ==
  /\ pc[c] = "wait"
  /\ mess' = mess \cup {m \in {"skipped"} : c \in ProcReaders \/ op[c] = "sequence"}
  /\ Fails(c)
  /\ UNCHANGED <<wire, mixed>>

Awaiting(c) == pc[c] \in {"rsd", "answer", "data"}

(* The pair of a /proc reader and somebody else it does not exclude.       *)
Unlocked(c, d) == c # d /\ {c, d} \cap ProcReaders # {}

(* Which question or command is asked: a read of the register localbuf     *)
(* names, a write that is nobody's when its two words are of two requests, *)
(* or XL_INIT.                                                             *)
Asked(c) ==
  CASE c \in Callers /\ op[c] = "read"  -> localbuf.addr
    [] c \in Callers /\ op[c] = "write" ->
         IF localbuf.addr = localbuf.data THEN localbuf.addr ELSE Unasked
    [] OTHER -> ticket[c]

(* plx_send_SPI writes SPIM_LW_DATA.  A command written while another one  *)
(* is being sent destroys it or is ignored.                                *)
Send(c) ==
  LET cmd == [ticket |-> Asked(c), from |-> c, read |-> op[c] = "read"]
  IN /\ pc[c] = "send"
     /\ tx' \in {cmd} \cup ({tx} \ {None})
     /\ pc' = [pc EXCEPT ![c] = IF op[c] = "read" THEN "rsd" ELSE "out"]
     /\ mess' = mess \cup {m \in {"crossed"} :
                  \/ tx # None /\ Unlocked(c, tx.from)
                  \/ op[c] = "read" /\ \E d \in Procs : Awaiting(d) /\ Unlocked(c, d)}
     /\ UNCHANGED <<owed, rsd, spimData, received, shared, op, ticket, left,
                    temp, handed, issued, mixed>>

(* plx_chk_rsd: wait for an answer.                                        *)
PollAnswer(c) ==
  /\ pc[c] = "rsd"
  /\ pc' = [pc EXCEPT ![c] = IF rsd THEN "data" ELSE "answer"]
  /\ UNCHANGED <<wire, shared, op, ticket, left, temp, handed, issued, mess, mixed>>

PollAnswerAgain(c) ==
  /\ rsd
  /\ GoTo(c, "answer", "data")
  /\ UNCHANGED <<wire, shared, op, ticket, left, temp, handed, issued, mess, mixed>>

GiveUpAnswer(c) ==
  /\ pc[c] = "answer"
  /\ mess' = mess \cup {"late"}
  /\ Fails(c)
  /\ UNCHANGED <<wire, mixed>>

(* Reading SPIM_DATA takes the answer, whoever it was meant for.           *)
Take(c) ==
  \/ /\ c \in Callers
     /\ localbuf' = [localbuf EXCEPT !.data = spimData]
     /\ pc' = [pc EXCEPT ![c] = "out"]
     /\ UNCHANGED <<bkl, op, ticket, left, temp, handed, issued>>
  \/ /\ c \in ProcReaders
     /\ Show(c, spimData)

(* Mutant: the answer read stays announced.                                *)
ReadDataKeeps(c) ==
  /\ pc[c] = "data"
  /\ Take(c)
  /\ UNCHANGED <<wire, mess, mixed>>

ReadData(c) ==
  /\ pc[c] = "data"
  /\ rsd' = FALSE
  /\ Take(c)
  /\ UNCHANGED <<tx, owed, spimData, received, mess, mixed>>

-----------------------------------------------------------------------------
(* The FPGA and the detector behind it.                                    *)

(* The command in the transmit register has gone out.                      *)
Transmitted ==
  /\ tx # None
  /\ received' = received \cup {tx}
  /\ owed' = IF tx.read THEN Append(owed, tx.ticket) ELSE owed
  /\ tx' = None
  /\ UNCHANGED <<rsd, spimData, shared, pc, op, ticket, left, temp, handed,
                 issued, mess, mixed>>

(* The next answer comes, now or much later or never.                      *)
Answer ==
  /\ owed # <<>>
  /\ spimData' = Head(owed) /\ rsd' = TRUE /\ owed' = Tail(owed)
  /\ UNCHANGED <<tx, received, shared, pc, op, ticket, left, temp, handed,
                 issued, mess, mixed>>

-----------------------------------------------------------------------------
LinkStep(c) ==
  \/ Poll(c) \/ PollAgain(c) \/ GiveUp(c) \/ Send(c)
  \/ PollAnswer(c) \/ PollAnswerAgain(c) \/ GiveUpAnswer(c) \/ ReadData(c)

(* The two copies, once the process runs and no page is missing.           *)
CopyRequest(c) == CopyIn(c) \/ CopyRest(c) \/ CopyInFails(c)
CopyAnswer(c)  == CopyOut(c) \/ CopyOutFails(c)

Ioctl(c) ==
  \/ \E o \in Ops : Enter(c, o)
  \/ Fault(c) \/ CopyHalf(c) \/ CopyRequest(c) \/ CopyAnswer(c) \/ LinkStep(c)

ReadProc(c) == ProcStart(c) \/ NextRegister(c) \/ LinkStep(c)

LinkNext ==
  \/ \E c \in Callers : Ioctl(c)
  \/ \E c \in ProcReaders : ReadProc(c)
  \/ Transmitted \/ Answer

(* Fairness: a process that runs takes its next step, and the limit of a   *)
(* poll passes.  Nobody has to call, and the detector has to answer        *)
(* nothing, nor the transmitter ever to become free.                       *)
LinkFairness ==
  /\ \A c \in Procs : WF_linkVars(LinkStep(c))
  /\ \A c \in Callers : WF_linkVars(CopyRequest(c)) /\ WF_linkVars(CopyAnswer(c))
  /\ \A c \in ProcReaders : WF_linkVars(NextRegister(c))

LinkSafety == LinkInit /\ [][LinkNext]_linkVars
LinkSpec   == LinkSafety /\ LinkFairness

-----------------------------------------------------------------------------
(* Properties.                                                             *)

LinkTypeOK ==
  /\ tx \in Command \cup {None} /\ owed \in Seq(Data)
  /\ rsd \in BOOLEAN /\ spimData \in Data /\ received \subseteq Command
  /\ bkl \in Callers \cup {None}
  /\ localbuf \in [addr : Data, data : Data]
  /\ pc \in [Procs -> {"idle", "in", "inAsleep", "halfAsleep", "poll", "wait", "send",
                       "rsd", "answer", "data", "out", "outAsleep", "shown"}]
  /\ op \in [Procs -> Ops]
  /\ ticket \in [Procs -> Data] /\ left \in [Procs -> 0 .. ProcRegs]
  /\ temp \in [Procs -> Data] /\ got \in [Procs -> Data]
  /\ result \in [Procs -> {"none", "ok", "failed"}]
  /\ issued \in 0 .. MaxTickets
  /\ mess \subseteq {"late", "crossed", "overwritten", "skipped"}
  /\ mixed \subseteq Callers

(* A request stays in localbuf, which all calls of plx_drv_ioctl share,    *)
(* from copy_from_user to the moment the process may sleep again: only the *)
(* big kernel lock says so (plx_ioctl.c:66).  It does not when a process   *)
(* sleeps within copy_from_user and another one copies its request then:   *)
(* the request that is mixed so is not kept, and every other one is.       *)
RequestKept ==
  \A c \in Callers \ mixed :
    pc[c] \in {"halfAsleep", "poll", "wait", "send", "rsd", "answer", "data", "out"} =>
      /\ localbuf.addr = ticket[c]
      /\ op[c] = "write" /\ pc[c] # "halfAsleep" => localbuf.data = ticket[c]

(* The data a call hands out answers what it asked, as long as no earlier  *)
(* call gave up waiting for an answer, no /proc reader got between a       *)
(* question and its answer, and no ioctl came while another one slept      *)
(* in copy_to_user, nor into the caller's request while it was copied:     *)
(* another one's mixed request does no harm to the answer.                 *)
OwnAnswer ==
  mess = {} =>
    \A c \in Procs \ mixed : op[c] = "read" /\ result[c] = "ok" /\ pc[c] \in {"idle", "shown"}
                       => got[c] = ticket[c]

(* When nothing has gone wrong and nobody is on the link, the link is at   *)
(* rest: no answer is left over that the next reader could mistake for its *)
(* own.                                                                    *)
NothingLeftOver ==
  /\ mess = {}
  /\ \A c \in Procs : ~Awaiting(c)
  => owed = <<>> /\ ~rsd /\ (tx # None => ~tx.read)

Sending == {tx} \ {None}

(* A command whose ioctl succeeded is with the detector or on its way, as  *)
(* it was asked for: only a /proc reader can destroy it (plx_send_SPI),    *)
(* only ORDER_HW 0xc reports a success it did not have, and only a request *)
(* mixed with another one while it was copied is not what was asked for.   *)
CommandsArrive ==
  \A c \in Callers \ mixed :
    /\ pc[c] = "idle" /\ result[c] = "ok"
    /\ mess \cap {"crossed", "skipped"} = {}
    => \E cmd \in received \cup Sending : cmd.ticket = ticket[c] /\ cmd.from = c

(* Every ioctl and every read of /proc returns, also when the detector is  *)
(* switched off or the transmitter hangs: the polls have a limit.          *)
CallsReturn == \A c \in Procs : pc[c] # "idle" ~> pc[c] = "idle"

(* What plx_read_reg reads is the "REAL data" of the register asked for    *)
(* (the comment at plx_driver.c:818).                                      *)
RealDataRead ==
  \A c \in Procs : op[c] = "read" /\ result[c] = "ok" /\ pc[c] = "idle"
                     => got[c] = ticket[c]

(* The ioctl that is "ready to switch" (the comment at plx_ioctl.c:111)    *)
(* acts on what it retrieved from its user (:106).                         *)
RequestRetrieved == \A c \in Callers : pc[c] = "poll" => localbuf.addr = ticket[c]

=============================================================================

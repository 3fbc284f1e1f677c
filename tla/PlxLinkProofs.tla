--------------------------- MODULE PlxLinkProofs ---------------------------
(***************************************************************************)
(* Proofs about PlxLink, for any numbers of callers, of /proc readers and  *)
(* of questions: the big kernel lock keeps a request in localbuf, a        *)
(* command that was answered with success is with the detector, and the    *)
(* data that are handed out belong to the question as long as nothing of   *)
(* what the module calls a mess has happened.                              *)
(***************************************************************************)
EXTENDS PlxLink, SequenceTheorems, TLAPS

Waits    == {"rsd", "answer", "data"}          \* where Awaiting holds
OnLink   == {"poll", "wait", "send", "out"} \cup Waits
InCall   == {"in"} \cup OnLink                 \* an ioctl that does not sleep
Sent     == Waits \cup {"out", "outAsleep"}

(* A process is where one of its kind can be, with a ticket when it is     *)
(* under way; the tickets of a /proc reader reach to its last register.    *)
PlacesOK ==
  /\ \A c \in Callers : pc[c] # "shown"
  /\ \A c \in ProcReaders :
       /\ op[c] = "read" /\ pc[c] \in {"idle", "poll", "wait", "send", "shown"} \cup Waits
       /\ ticket[c] + left[c] <= issued
       /\ pc[c] = "shown" => left[c] # 0
  /\ \A c \in Procs :
       /\ pc[c] # "idle" => ticket[c] \in Tickets
       /\ pc[c] \in Waits => op[c] = "read"

(* The big kernel lock is with the one caller that runs in ioctl().        *)
LockHeld == \A c \in Callers : pc[c] \in InCall => bkl = c

(* A transmitter found free is taken by nobody whom the lock excludes.     *)
FreeForMe == \A c \in Procs : pc[c] = "send" /\ tx # None => Unlocked(c, tx.from)

LockInv == LinkTypeOK /\ PlacesOK /\ LockHeld /\ RequestKept /\ FreeForMe

OnItsWay(c) == \E cmd \in received \cup Sending : cmd.ticket = ticket[c] /\ cmd.from = c

(* What was sent was received or is being sent.                            *)
CommandsOnTheirWay ==
  mess \cap {"crossed", "skipped"} = {} =>
    \A c \in Callers \ mixed :
      pc[c] \in Sent \/ (pc[c] = "idle" /\ result[c] = "ok") => OnItsWay(c)

(* The question of a process is in one place: being sent, with the         *)
(* detector, or answered.                                                  *)
NotAsking == tx # None => ~tx.read

Question(c) == IF c \in Callers THEN localbuf.addr ELSE ticket[c]

QuestionOut(c) ==
  \/ tx # None /\ tx.read /\ tx.ticket = Question(c) /\ owed = << >> /\ ~rsd
  \/ NotAsking /\ owed = <<Question(c)>> /\ ~rsd
  \/ NotAsking /\ owed = << >> /\ rsd /\ spimData = Question(c)

Quiet == NotAsking /\ owed = << >> /\ ~rsd

ExchangeOK ==
  /\ \A c, d \in Procs : Awaiting(c) /\ Awaiting(d) => c = d
  /\ \A c \in Procs : Awaiting(c) => QuestionOut(c)
  /\ (\A c \in Procs : ~Awaiting(c)) => Quiet
  /\ \A c \in Procs : pc[c] = "data" => rsd

(* The answer stays in localbuf until it is copied out.                    *)
AnswerKept ==
  /\ \A c \in Callers \ mixed : op[c] = "read" /\ pc[c] \in {"out", "outAsleep"}
                          => localbuf.data = ticket[c]
  /\ \A c, d \in Callers : pc[c] = "outAsleep" => pc[d] \notin OnLink

AnswerInv == mess = {} => ExchangeOK /\ AnswerKept

-----------------------------------------------------------------------------
(* The lock and the places.                                                *)

LEMMA LockInitially == LinkInit => LockInv
<1> SUFFICES ASSUME LinkInit PROVE LockInv
  OBVIOUS
<1>1. rsd \in BOOLEAN
  BY Zenon DEF LinkInit
<1>2. owed \in Seq(Tickets)
  BY DEF LinkInit
<1>3. LinkTypeOK
  BY <1>1, <1>2, LinkAssumption DEF LinkInit, LinkTypeOK, Data, Unasked, Tickets, Procs, Ops
<1> QED
  BY <1>3, LinkAssumption DEF LinkInit, LockInv, PlacesOK, LockHeld, RequestKept, FreeForMe,
       OnLink, Waits, InCall, Procs, Unasked

Places == {"idle", "in", "inAsleep", "halfAsleep", "poll", "wait", "send", "rsd",
           "answer", "data", "out", "outAsleep", "shown"}

LEMMA ShowKeepsTypes ==
  ASSUME LinkTypeOK, NEW c \in Procs, NEW v \in Data, Show(c, v)
  PROVE  /\ pc' \in [Procs -> Places] /\ temp' \in [Procs -> Data]
         /\ got' \in [Procs -> Data] /\ result' \in [Procs -> {"none", "ok", "failed"}]
<1>1. (IF left[c] = 0 THEN "idle" ELSE "shown") \in Places
  BY DEF Places
<1>2. pc' \in [Procs -> Places]
  BY <1>1 DEF Show, LinkTypeOK, Places
<1>3. temp' \in [Procs -> Data] /\ got' \in [Procs -> Data]
  BY DEF Show, LinkTypeOK
<1>4. result' \in [Procs -> {"none", "ok", "failed"}]
  BY DEF Show, LinkTypeOK
<1> QED BY <1>2, <1>3, <1>4

(* Where a /proc reader goes when it has shown a register.                 *)
LEMMA ShowMoves ==
  ASSUME LinkTypeOK, NEW c \in Procs, NEW v, Show(c, v)
  PROVE  /\ pc' = [pc EXCEPT ![c] = pc'[c]] /\ pc'[c] \in {"idle", "shown"}
         /\ pc'[c] = "shown" => left[c] # 0
         /\ UNCHANGED <<bkl, localbuf, op, ticket, left, issued>>
<1> DEFINE to == IF left[c] = 0 THEN "idle" ELSE "shown"
<1>1. pc' = [pc EXCEPT ![c] = to]
  BY DEF Show
<1>2. pc'[c] = to
  BY <1>1 DEF LinkTypeOK
<1>3. to \in {"idle", "shown"} /\ (to = "shown" => left[c] # 0)
  OBVIOUS
<1> QED BY <1>1, <1>2, <1>3 DEF Show, shared

(* copy_from_user as a whole or in parts.  Whoever copies has the lock or  *)
(* takes it, so that no other ioctl runs; an ioctl goes on with the        *)
(* request it was given unless another one came between its two words.     *)
CopyStep(c) == CopyIn(c) \/ CopyHalf(c) \/ CopyRest(c) \/ CopyInFails(c)

LEMMA CopyStepMoves ==
  ASSUME LockInv, NEW c \in Callers, CopyStep(c)
  PROVE  /\ pc[c] \in {"in", "inAsleep", "halfAsleep"}
         /\ \A d \in Callers : d # c => pc[d] \notin InCall
         /\ pc' = [pc EXCEPT ![c] = pc'[c]]
         /\ pc'[c] \in {"poll", "out", "idle", "halfAsleep"}
         /\ pc'[c] \in {"poll", "out"} => bkl' = c
         /\ bkl' \in {c, None}
         /\ pc'[c] = "out" => op[c] = "sequence" /\ c \in mixed
         /\ localbuf' \in [addr : Data, data : Data]
         /\ \/ result' = result /\ pc'[c] # "idle"
            \/ result' = [result EXCEPT ![c] = "failed"]
         /\ Disturbed /\ UNCHANGED <<wire, op, ticket, left, temp, got, issued>>
         /\ c \notin mixed' /\ pc'[c] # "idle" =>
              /\ localbuf'.addr = ticket[c]
              /\ op[c] = "write" /\ pc'[c] # "halfAsleep" => localbuf'.data = ticket[c]
<1> USE LinkAssumption
<1> USE DEF LinkTypeOK, LockInv, PlacesOK, Procs, shared, handed
<1>0. Second(c) \in Data /\ ticket[c] \in Data /\ Unasked \in Data
  BY DEF Second, Data
<1>1. /\ pc[c] \in {"in", "inAsleep", "halfAsleep"} /\ (bkl = None \/ pc[c] = "in")
      /\ Disturbed /\ UNCHANGED <<wire, op, ticket, left, temp, got, issued>>
  BY DEF CopyStep, CopyIn, CopyHalf, CopyRest, CopyInFails, InKernel
<1>2. \A d \in Callers : d # c => pc[d] \notin InCall
  <2> SUFFICES ASSUME NEW d \in Callers, d # c, pc[d] \in InCall PROVE FALSE
    OBVIOUS
  <2>1. bkl = d
    BY DEF LockHeld
  <2>2. pc[c] = "in" => bkl = c
    BY DEF LockHeld, InCall
  <2> QED BY <1>1, <2>1, <2>2
<1>3. mixed \subseteq mixed'
  BY <1>1 DEF Disturbed
<1>4. CASE CopyIn(c)
  BY <1>0, <1>1, <1>2, <1>4 DEF CopyIn, Second
<1>5. CASE CopyHalf(c)
  BY <1>0, <1>1, <1>2, <1>5 DEF CopyHalf
<1>6. CASE CopyRest(c)
  <2>1. PICK to \in {"poll", "out"} :
          /\ to = "out" => op[c] = "sequence" /\ localbuf.addr # ticket[c]
          /\ pc' = [pc EXCEPT ![c] = to]
    BY <1>6 DEF CopyRest
  <2>2. /\ pc[c] = "halfAsleep" /\ bkl' = c /\ result' = result
        /\ localbuf' = [localbuf EXCEPT !.data = Second(c)]
    BY <1>6 DEF CopyRest
  <2>3. c \notin mixed => localbuf.addr = ticket[c]
    BY <2>2 DEF RequestKept
  <2>4. pc'[c] = to /\ localbuf'.addr = localbuf.addr /\ localbuf'.data = Second(c)
    BY <2>1, <2>2
  <2>5. localbuf' \in [addr : Data, data : Data]
    BY <1>0, <2>2
  <2> QED BY <1>1, <1>2, <1>3, <2>1, <2>2, <2>3, <2>4, <2>5 DEF Second
<1>7. CASE CopyInFails(c)
  <2>1. localbuf' \in [addr : Data, data : Data]
    BY <1>0, <1>7 DEF CopyInFails
  <2>2. /\ pc' = [pc EXCEPT ![c] = "idle"] /\ bkl' = None
        /\ result' = [result EXCEPT ![c] = "failed"]
    BY <1>7 DEF CopyInFails, Unserved
  <2> QED BY <1>1, <1>2, <2>1, <2>2
<1> QED BY <1>4, <1>5, <1>6, <1>7 DEF CopyStep

LEMMA TypesStay ==
  ASSUME LockInv, [LinkNext]_linkVars
  PROVE  LinkTypeOK'
<1> USE LinkAssumption
<1> USE DEF LinkTypeOK, LockInv, PlacesOK, linkVars, wire, shared, handed, GoTo, Procs
<1>1. ASSUME NEW c \in Callers, NEW o \in Ops, Enter(c, o) PROVE LinkTypeOK'
  BY <1>1 DEF Enter, Data, Tickets
<1>2. ASSUME NEW c \in Callers, Fault(c) PROVE LinkTypeOK'
  BY <1>2 DEF Fault
<1>3. ASSUME NEW c \in Callers, CopyStep(c) PROVE LinkTypeOK'
  <2>1. Disturbed /\ UNCHANGED <<wire, op, ticket, left, temp, got, issued>>
    BY <1>3, CopyStepMoves
  <2>2. /\ mess' \subseteq {"late", "crossed", "overwritten", "skipped"}
        /\ mixed' \subseteq Callers
    BY <2>1 DEF Disturbed
  <2>a. pc' = [pc EXCEPT ![c] = pc'[c]] /\ pc'[c] \in Places
    BY <1>3, CopyStepMoves DEF Places
  <2>3. pc' \in [Procs -> Places]
    BY <2>a DEF Places
  <2>4. bkl' \in Callers \cup {None} /\ localbuf' \in [addr : Data, data : Data]
    BY <1>3, CopyStepMoves
  <2>b. result' = result \/ result' = [result EXCEPT ![c] = "failed"]
    BY <1>3, CopyStepMoves
  <2>5. result' \in [Procs -> {"none", "ok", "failed"}]
    BY <2>b
  <2> QED BY <2>1, <2>2, <2>3, <2>4, <2>5 DEF Places
<1>4. ASSUME NEW c \in Callers, CopyAnswer(c) PROVE LinkTypeOK'
  <2>1. CASE CopyOut(c)
    BY <2>1 DEF CopyOut
  <2>2. CASE CopyOutFails(c)
    BY <2>2 DEF CopyOutFails, Unserved
  <2> QED BY <1>4, <2>1, <2>2 DEF CopyAnswer
<1>5. ASSUME NEW c \in ProcReaders, ProcStart(c) PROVE LinkTypeOK'
  BY <1>5 DEF ProcStart, Data, Tickets
<1>6. ASSUME NEW c \in ProcReaders, NextRegister(c) PROVE LinkTypeOK'
  <2>1. ticket[c] + left[c] <= issued /\ left[c] # 0 /\ ticket[c] \in Tickets
    BY <1>6 DEF NextRegister
  <2>2. ticket[c] + 1 \in Data /\ left[c] - 1 \in 0 .. ProcRegs
    BY <2>1 DEF Data, Tickets
  <2>3. ticket' \in [Procs -> Data] /\ left' \in [Procs -> 0 .. ProcRegs]
    BY <1>6, <2>2 DEF NextRegister
  <2>4. pc' \in [Procs -> Places]
    BY <1>6 DEF NextRegister, Places
  <2> QED BY <1>6, <2>3, <2>4 DEF NextRegister, Places
<1>7. ASSUME NEW c \in Procs, Poll(c) \/ PollAgain(c) \/ PollAnswer(c) \/ PollAnswerAgain(c)
      PROVE  LinkTypeOK'
  BY <1>7 DEF Poll, PollAgain, PollAnswer, PollAnswerAgain
<1>8. ASSUME NEW c \in Procs, Fails(c), UNCHANGED <<wire, mixed>>,
             mess' \subseteq mess \cup {"late", "skipped"}
      PROVE  LinkTypeOK'
  <2>1. CASE c \in Callers
    <3>1. \/ /\ pc' = [pc EXCEPT ![c] = "idle"] /\ bkl' = None
             /\ result' = [result EXCEPT ![c] = "failed"]
             /\ UNCHANGED <<localbuf, op, ticket, left, temp, got, issued>>
          \/ /\ pc' = [pc EXCEPT ![c] = "out"]
             /\ UNCHANGED <<bkl, localbuf, op, ticket, left, temp, got, result, issued>>
      BY <1>8, <2>1 DEF Fails, Unserved
    <3>a. \/ pc' = [pc EXCEPT ![c] = "idle"]
          \/ pc' = [pc EXCEPT ![c] = "out"]
      BY <3>1
    <3>b. result' = result \/ result' = [result EXCEPT ![c] = "failed"]
      BY <3>1
    <3>c. pc' \in [Procs -> Places]
      BY <3>a DEF Places
    <3>d. result' \in [Procs -> {"none", "ok", "failed"}]
      BY <3>b
    <3>2. pc' \in [Procs -> Places] /\ result' \in [Procs -> {"none", "ok", "failed"}]
      BY <3>c, <3>d
    <3>3. mess' \subseteq {"late", "crossed", "overwritten", "skipped"}
      BY <1>8
    <3> QED BY <1>8, <3>1, <3>2, <3>3 DEF Places
  <2>2. CASE c \in ProcReaders
    <3>1. Show(c, temp[c]) /\ temp[c] \in Data
      BY <1>8, <2>2 DEF Fails, Unserved
    <3> QED BY <1>8, <3>1, ShowKeepsTypes DEF Show, Places
  <2> QED BY <2>1, <2>2
<1>9. ASSUME NEW c \in Procs, GiveUp(c) \/ GiveUpAnswer(c) PROVE LinkTypeOK'
  BY <1>8, <1>9 DEF GiveUp, GiveUpAnswer
<1>10. ASSUME NEW c \in Procs, Send(c) PROVE LinkTypeOK'
  <2> DEFINE cmd == [ticket |-> Asked(c), from |-> c, read |-> op[c] = "read"]
  <2>1. (op[c] = "read") \in BOOLEAN
    OBVIOUS
  <2>2. cmd \in Command
    BY <2>1 DEF Command, Asked, Data
  <2>3. tx' \in Command \cup {None}
    BY <1>10, <2>2 DEF Send
  <2>4. pc' \in [Procs -> Places]
    BY <1>10 DEF Send, Places
  <2>5. /\ mess' \subseteq {"late", "crossed", "overwritten", "skipped"}
        /\ UNCHANGED <<owed, rsd, spimData, received, shared, op, ticket, left,
                       temp, handed, issued, mixed>>
    BY <1>10 DEF Send
  <2> HIDE DEF cmd
  <2> QED BY <2>3, <2>4, <2>5 DEF Places
<1>11. ASSUME NEW c \in Procs, ReadData(c) PROVE LinkTypeOK'
  <2>1. rsd' \in BOOLEAN
    BY <1>11, Zenon DEF ReadData
  <2>2. CASE c \in Callers
    BY <1>11, <2>1, <2>2 DEF ReadData, Take
  <2>3. CASE c \in ProcReaders
    <3>1. Show(c, spimData)
      BY <1>11, <2>3 DEF ReadData, Take
    <3> QED BY <1>11, <2>1, <3>1, ShowKeepsTypes DEF ReadData, Show, Places
  <2> QED BY <2>2, <2>3
<1>12. CASE Transmitted
  <2>1. tx \in Command /\ tx.ticket \in Data
    BY <1>12 DEF Transmitted, Command
  <2>2. owed' \in Seq(Data) /\ received' \subseteq Command
    BY <1>12, <2>1 DEF Transmitted
  <2> QED BY <1>12, <2>2 DEF Transmitted
<1>13. CASE Answer
  <2>1. rsd' \in BOOLEAN
    BY <1>13, Zenon DEF Answer
  <2>2. Head(owed) \in Data /\ Tail(owed) \in Seq(Data)
    BY <1>13, HeadTailProperties DEF Answer
  <2> QED BY <1>13, <2>1, <2>2 DEF Answer, Data
<1>14. CASE UNCHANGED linkVars
  BY <1>14
<1> QED
  BY <1>1, <1>2, <1>3, <1>4, <1>5, <1>6, <1>7, <1>9, <1>10, <1>11, <1>12, <1>13, <1>14
     DEF LinkNext, Ioctl, ReadProc, LinkStep, CopyRequest, CopyStep

LEMMA PlacesStay ==
  ASSUME LockInv, [LinkNext]_linkVars
  PROVE  PlacesOK'
<1> USE LinkAssumption
<1> USE DEF LinkTypeOK, LockInv, PlacesOK, linkVars, wire, shared, handed, GoTo, Procs, Waits
<1>1. ASSUME NEW c \in Callers, NEW o \in Ops, Enter(c, o) PROVE PlacesOK'
  <2>1. /\ ticket' = [ticket EXCEPT ![c] = issued + 1] /\ issued' = issued + 1
        /\ issued + 1 \in Tickets
    BY <1>1 DEF Enter, Tickets
  <2>2. ASSUME NEW d \in ProcReaders PROVE ticket[d] + left[d] <= issued + 1
    <3>1. ticket[d] \in Nat /\ left[d] \in Nat /\ issued \in Nat
      BY DEF Data, Tickets, Unasked
    <3> QED BY <3>1
  <2>3. /\ pc' = [pc EXCEPT ![c] = "in"] /\ op' = [op EXCEPT ![c] = o]
        /\ UNCHANGED <<left, tx>>
    BY <1>1 DEF Enter
  <2> QED BY <2>1, <2>2, <2>3
<1>2. ASSUME NEW c \in Callers, Fault(c) PROVE PlacesOK'
  BY <1>2 DEF Fault
<1>3. ASSUME NEW c \in Callers, CopyStep(c) PROVE PlacesOK'
  <2>1. pc[c] # "idle" /\ pc'[c] \in {"poll", "out", "idle", "halfAsleep"}
        /\ pc' = [pc EXCEPT ![c] = pc'[c]]
    BY <1>3, CopyStepMoves
  <2>2. UNCHANGED <<op, ticket, left, issued>>
    BY <1>3, CopyStepMoves
  <2> QED BY <2>1, <2>2
<1>4. ASSUME NEW c \in Callers, CopyAnswer(c) PROVE PlacesOK'
  BY <1>4 DEF CopyAnswer, CopyOut, CopyOutFails, Unserved
<1>5. ASSUME NEW c \in ProcReaders, ProcStart(c) PROVE PlacesOK'
  <2>1. /\ ticket' = [ticket EXCEPT ![c] = issued + 1] /\ issued' = issued + ProcRegs
        /\ left' = [left EXCEPT ![c] = ProcRegs - 1] /\ issued + 1 \in Tickets
    BY <1>5 DEF ProcStart, Tickets
  <2>2. ASSUME NEW d \in ProcReaders PROVE ticket[d] + left[d] <= issued + ProcRegs
    <3>1. ticket[d] \in Nat /\ left[d] \in Nat /\ issued \in Nat
      BY DEF Data, Tickets, Unasked
    <3> QED BY <3>1
  <2>3. (issued + 1) + (ProcRegs - 1) <= issued + ProcRegs
    OBVIOUS
  <2>4. \A d \in ProcReaders : ticket'[d] + left'[d] <= issued'
    BY <2>1, <2>2, <2>3
  <2>5. pc' = [pc EXCEPT ![c] = "poll"] /\ UNCHANGED <<op, tx>>
    BY <1>5 DEF ProcStart
  <2> QED BY <2>1, <2>4, <2>5
<1>6. ASSUME NEW c \in ProcReaders, NextRegister(c) PROVE PlacesOK'
  BY <1>6 DEF NextRegister, Data, Tickets
<1>7. ASSUME NEW c \in Procs, Poll(c) \/ PollAgain(c) \/ PollAnswer(c) \/ PollAnswerAgain(c)
      PROVE  PlacesOK'
  <2>1. /\ pc' = [pc EXCEPT ![c] = pc'[c]] /\ pc[c] # "idle"
        /\ pc'[c] \in {"send", "wait"} \/ (pc'[c] \in {"data", "answer"} /\ pc[c] \in Waits)
    BY <1>7 DEF Poll, PollAgain, PollAnswer, PollAnswerAgain
  <2>2. UNCHANGED <<op, ticket, left, issued>>
    BY <1>7 DEF Poll, PollAgain, PollAnswer, PollAnswerAgain
  <2> QED BY <2>1, <2>2
<1>8. ASSUME NEW c \in Procs, Fails(c), UNCHANGED wire, pc[c] # "idle" PROVE PlacesOK'
  <2>1. CASE c \in Callers
    <3>1. /\ pc' = [pc EXCEPT ![c] = "idle"] \/ pc' = [pc EXCEPT ![c] = "out"]
          /\ UNCHANGED <<op, ticket, left, issued>>
      BY <1>8, <2>1 DEF Fails, Unserved
    <3> QED BY <1>8, <2>1, <3>1
  <2>2. CASE c \in ProcReaders
    <3>1. Show(c, temp[c])
      BY <1>8, <2>2 DEF Fails, Unserved
    <3>2. /\ pc' = [pc EXCEPT ![c] = pc'[c]] /\ pc'[c] \in {"idle", "shown"}
          /\ pc'[c] = "shown" => left[c] # 0
          /\ UNCHANGED <<op, ticket, left, issued>>
      BY <3>1, ShowMoves
    <3> QED BY <1>8, <2>2, <3>2
  <2> QED BY <2>1, <2>2
<1>9. ASSUME NEW c \in Procs, GiveUp(c) \/ GiveUpAnswer(c) PROVE PlacesOK'
  BY <1>8, <1>9 DEF GiveUp, GiveUpAnswer
<1>10. ASSUME NEW c \in Procs, Send(c) PROVE PlacesOK'
  BY <1>10 DEF Send
<1>11. ASSUME NEW c \in Procs, ReadData(c) PROVE PlacesOK'
  <2>1. CASE c \in Callers
    BY <1>11, <2>1 DEF ReadData, Take
  <2>2. CASE c \in ProcReaders
    <3>1. Show(c, spimData) /\ UNCHANGED tx
      BY <1>11, <2>2 DEF ReadData, Take
    <3>2. /\ pc' = [pc EXCEPT ![c] = pc'[c]] /\ pc'[c] \in {"idle", "shown"}
          /\ pc'[c] = "shown" => left[c] # 0
          /\ UNCHANGED <<op, ticket, left, issued>>
      BY <3>1, ShowMoves
    <3>3. pc[c] # "idle"
      BY <1>11 DEF ReadData
    <3> QED BY <2>2, <3>2, <3>3
  <2> QED BY <2>1, <2>2
<1>12. CASE Transmitted \/ Answer \/ UNCHANGED linkVars
  BY <1>12 DEF Transmitted, Answer
<1> QED
  BY <1>1, <1>2, <1>3, <1>4, <1>5, <1>6, <1>7, <1>9, <1>10, <1>11, <1>12
     DEF LinkNext, Ioctl, ReadProc, LinkStep, CopyRequest, CopyStep

(* A request stays while nobody writes into localbuf.                      *)
LEMMA RequestUntouched ==
  ASSUME RequestKept, UNCHANGED localbuf,
         \A d \in Callers : pc'[d] \in OnLink \cup {"halfAsleep"} =>
           /\ d \in mixed => d \in mixed'
           /\ ticket'[d] = ticket[d] /\ op'[d] = op[d]
           /\ pc'[d] = pc[d] \/ (pc[d] \in OnLink /\ pc'[d] \in OnLink)
  PROVE  RequestKept'
BY DEF RequestKept, OnLink, Waits

(* The lock, the request it protects and the transmitter found free.       *)
LEMMA LockStays ==
  ASSUME LockInv, [LinkNext]_linkVars
  PROVE  LockHeld' /\ RequestKept' /\ FreeForMe'
<1> DEFINE Goal == LockHeld /\ RequestKept /\ FreeForMe
<1> USE LinkAssumption
<1> USE DEF LinkTypeOK, LockInv, PlacesOK, LockHeld, RequestKept, FreeForMe,
            linkVars, wire, shared, handed, GoTo, Procs, Waits, OnLink, InCall
<1>1. ASSUME NEW c \in Callers, NEW o \in Ops, Enter(c, o) PROVE Goal'
  <2>1. bkl = None /\ bkl' = c /\ mixed' = mixed \ {c} /\ UNCHANGED <<tx, localbuf>>
    BY <1>1 DEF Enter
  <2>2. pc'[c] = "in" /\ \A d \in Procs : d # c => /\ pc'[d] = pc[d] /\ op'[d] = op[d]
                                                  /\ ticket'[d] = ticket[d]
    BY <1>1 DEF Enter
  <2>3. RequestKept'
    BY <2>1, <2>2, RequestUntouched
  <2> QED BY <2>1, <2>2, <2>3
<1>2. ASSUME NEW c \in Callers, Fault(c) PROVE Goal'
  <2>1. bkl = c /\ bkl' = None /\ UNCHANGED <<tx, localbuf, ticket, op, mixed>>
    BY <1>2 DEF Fault
  <2>2. /\ pc'[c] \in {"inAsleep", "outAsleep"}
        /\ \A d \in Procs : d # c => pc'[d] = pc[d]
    BY <1>2 DEF Fault
  <2>3. RequestKept'
    BY <2>1, <2>2, RequestUntouched
  <2> QED BY <2>1, <2>2, <2>3
<1>3. ASSUME NEW c \in Callers, CopyStep(c) PROVE Goal'
  <2>1. /\ \A d \in Callers : d # c => pc[d] \notin InCall
        /\ pc' = [pc EXCEPT ![c] = pc'[c]] /\ pc'[c] \in {"poll", "out", "idle", "halfAsleep"}
        /\ pc'[c] \in {"poll", "out"} => bkl' = c
        /\ UNCHANGED <<tx, op, ticket>> /\ Disturbed
    BY <1>3, CopyStepMoves
  <2>2. LockHeld'
    BY <2>1
  <2>3. FreeForMe'
    BY <2>1 DEF Unlocked
  <2>4. /\ mixed \subseteq mixed'
        /\ \A d \in Callers : pc[d] = "halfAsleep" /\ localbuf'.addr # ticket[d]
                               => d \in mixed'
    BY <2>1 DEF Disturbed
  <2>5. c \notin mixed' /\ pc'[c] # "idle" =>
          /\ localbuf'.addr = ticket[c]
          /\ op[c] = "write" /\ pc'[c] # "halfAsleep" => localbuf'.data = ticket[c]
    BY <1>3, CopyStepMoves
  <2>6. RequestKept'
    BY <2>1, <2>4, <2>5
  <2> QED BY <2>2, <2>3, <2>6
<1>4. ASSUME NEW c \in Callers, CopyAnswer(c) PROVE Goal'
  <2>1. /\ InKernel(c, "out", "outAsleep") /\ bkl' = None
        /\ UNCHANGED <<tx, localbuf, ticket, op, mixed>>
    BY <1>4 DEF CopyAnswer, CopyOut, CopyOutFails, Unserved
  <2>2. pc'[c] = "idle" /\ \A d \in Procs : d # c => pc'[d] = pc[d]
    BY <1>4 DEF CopyAnswer, CopyOut, CopyOutFails, Unserved
  <2>3. RequestKept'
    BY <2>1, <2>2, RequestUntouched
  <2>4. \A d \in Callers : d # c => pc[d] \notin InCall
    BY <2>1 DEF InKernel
  <2>5. LockHeld'
    BY <2>2, <2>4
  <2>6. FreeForMe'
    BY <2>1, <2>2 DEF Unlocked
  <2> QED BY <2>3, <2>5, <2>6
<1>5. ASSUME NEW c \in ProcReaders, ProcStart(c) \/ NextRegister(c) PROVE Goal'
  <2>1. UNCHANGED <<bkl, tx, localbuf, op, mixed>>
    BY <1>5 DEF ProcStart, NextRegister
  <2>2. pc'[c] = "poll" /\ \A d \in Procs : d # c => pc'[d] = pc[d] /\ ticket'[d] = ticket[d]
    BY <1>5 DEF ProcStart, NextRegister
  <2>3. RequestKept'
    BY <2>1, <2>2, RequestUntouched
  <2>4. LockHeld'
    BY <2>1, <2>2
  <2>5. FreeForMe'
    BY <2>1, <2>2 DEF Unlocked
  <2> QED BY <2>3, <2>4, <2>5
<1>7. ASSUME NEW c \in Procs, Poll(c) \/ PollAgain(c) \/ PollAnswer(c) \/ PollAnswerAgain(c)
      PROVE  Goal'
  <2>1. UNCHANGED <<bkl, tx, localbuf, op, ticket, mixed>>
    BY <1>7 DEF Poll, PollAgain, PollAnswer, PollAnswerAgain
  <2>2. /\ pc[c] \in OnLink /\ pc'[c] \in OnLink /\ (pc'[c] = "send" => tx = None)
        /\ \A d \in Procs : d # c => pc'[d] = pc[d]
    BY <1>7 DEF Poll, PollAgain, PollAnswer, PollAnswerAgain
  <2>3. RequestKept'
    BY <2>1, <2>2, RequestUntouched
  <2> QED BY <2>1, <2>2, <2>3
<1>8. ASSUME NEW c \in Procs, Fails(c), UNCHANGED <<wire, mixed>>, pc[c] \in OnLink
      PROVE  Goal'
  <2>1. CASE c \in Callers
    <3>1. bkl = c /\ UNCHANGED <<tx, localbuf, op, ticket>>
      BY <1>8, <2>1 DEF Fails
    <3>2. \/ pc'[c] = "idle" /\ bkl' = None
          \/ pc'[c] = "out" /\ bkl' = bkl
      BY <1>8, <2>1 DEF Fails, Unserved
    <3>3. \A d \in Procs : d # c => pc'[d] = pc[d]
      BY <1>8, <2>1 DEF Fails, Unserved
    <3>4. RequestKept'
      BY <1>8, <3>1, <3>2, <3>3, RequestUntouched
    <3> QED BY <3>1, <3>2, <3>3, <3>4
  <2>2. CASE c \in ProcReaders
    <3>1. Show(c, temp[c])
      BY <1>8, <2>2 DEF Fails
    <3>2. /\ pc' = [pc EXCEPT ![c] = pc'[c]] /\ pc'[c] \in {"idle", "shown"}
          /\ UNCHANGED <<bkl, tx, localbuf, op, ticket, mixed>>
      BY <1>8, <3>1, ShowMoves
    <3>3. RequestKept'
      BY <2>2, <3>2, RequestUntouched
    <3> QED BY <2>2, <3>2, <3>3
  <2> QED BY <2>1, <2>2
<1>9. ASSUME NEW c \in Procs, GiveUp(c) \/ GiveUpAnswer(c) PROVE Goal'
  BY <1>8, <1>9 DEF GiveUp, GiveUpAnswer
<1>10. ASSUME NEW c \in Procs, Send(c) PROVE Goal'
  <2>1. tx' = tx \/ tx'.from = c
    BY <1>10 DEF Send
  <2>2. pc' = [pc EXCEPT ![c] = IF op[c] = "read" THEN "rsd" ELSE "out"]
        /\ UNCHANGED <<op, ticket, shared>>
    BY <1>10 DEF Send
  <2>3. FreeForMe'
    <3> SUFFICES ASSUME NEW d \in Procs, pc'[d] = "send", tx' # None
                 PROVE  Unlocked(d, tx'.from)
      BY <2>2 DEF Unlocked
    <3>1. d # c /\ pc[d] = "send" /\ pc[c] = "send"
      BY <1>10, <2>2 DEF Send
    <3>2. CASE tx'.from = c
      BY <3>1, <3>2 DEF Unlocked
    <3> QED BY <2>1, <3>1, <3>2
  <2>4. UNCHANGED mixed /\ pc[c] = "send" /\ pc'[c] \in {"rsd", "out"}
    BY <1>10, <2>2 DEF Send
  <2>5. RequestKept'
    BY <2>2, <2>4, RequestUntouched
  <2> QED BY <2>2, <2>3, <2>4, <2>5
<1>11. ASSUME NEW c \in Procs, ReadData(c) PROVE Goal'
  <2>0. UNCHANGED <<tx, mixed>> /\ pc[c] = "data"
    BY <1>11 DEF ReadData
  <2>1. CASE c \in Callers
    <3>1. /\ localbuf' = [localbuf EXCEPT !.data = spimData]
          /\ pc' = [pc EXCEPT ![c] = "out"] /\ UNCHANGED <<bkl, op, ticket>>
      BY <1>11, <2>1 DEF ReadData, Take
    <3>2. /\ op[c] = "read" /\ localbuf'.addr = localbuf.addr
          /\ \A d \in Callers : d # c => pc[d] \notin InCall
      BY <2>0, <2>1, <3>1
    <3>3. LockHeld' /\ FreeForMe'
      BY <2>0, <2>1, <3>1 DEF Unlocked
    <3>4. RequestKept'
      BY <2>0, <2>1, <3>1, <3>2
    <3> QED BY <3>3, <3>4
  <2>2. CASE c \in ProcReaders
    <3>1. Show(c, spimData)
      BY <1>11, <2>2 DEF ReadData, Take
    <3>2. /\ pc' = [pc EXCEPT ![c] = pc'[c]] /\ pc'[c] \in {"idle", "shown"}
          /\ UNCHANGED <<bkl, localbuf, op, ticket>>
      BY <3>1, ShowMoves
    <3>3. RequestKept'
      BY <2>0, <2>2, <3>2, RequestUntouched
    <3> QED BY <2>0, <2>2, <3>2, <3>3 DEF Unlocked
  <2> QED BY <2>1, <2>2
<1>12. CASE Transmitted \/ Answer \/ UNCHANGED linkVars
  <2>1. UNCHANGED <<bkl, pc, localbuf, op, ticket, mixed>> /\ (tx' = tx \/ tx' = None)
    BY <1>12 DEF Transmitted, Answer
  <2>2. RequestKept'
    BY <2>1, RequestUntouched
  <2> QED BY <2>1, <2>2 DEF Unlocked
<1> QED
  BY <1>1, <1>2, <1>3, <1>4, <1>5, <1>7, <1>9, <1>10, <1>11, <1>12
     DEF LinkNext, Ioctl, ReadProc, LinkStep, CopyRequest, CopyStep

(* What holds when a process of the link moves holds always.               *)
LEMMA LockInvariant == LinkSafety => []LockInv
<1>1. LockInv /\ [LinkNext]_linkVars => LockInv'
  BY TypesStay, PlacesStay, LockStays DEF LockInv
<1> QED BY <1>1, LockInitially, PTL DEF LinkSafety

(* Types of the link, for every number of callers, readers and questions.  *)
THEOREM LinkTypesHold == LinkSafety => []LinkTypeOK
BY LockInvariant, PTL DEF LockInv

(* plx_ioctl.c:66 says that the big kernel lock protects the static buffer *)
(* of plx_drv_ioctl: a request stays there until the process may sleep.    *)
THEOREM RequestIsKept == LinkSafety => []RequestKept
BY LockInvariant, PTL DEF LockInv

-----------------------------------------------------------------------------
(* Commands.                                                               *)

(* Whoever sends crosses a command of somebody else or finds none.         *)
LEMMA SendsAlone ==
  ASSUME LockInv, NEW c \in Procs, Send(c), "crossed" \notin mess'
  PROVE  /\ tx = None /\ tx' # None /\ tx'.ticket = Asked(c) /\ tx'.from = c
         /\ c \notin mixed => Asked(c) = ticket[c]
         /\ op[c] = "read" => Asked(c) = Question(c)
         /\ tx'.read <=> op[c] = "read"
         /\ op[c] = "read" => \A d \in Procs : Awaiting(d) => ~Unlocked(c, d)
<1> USE DEF LockInv, LinkTypeOK, Procs
<1> DEFINE cmd == [ticket |-> Asked(c), from |-> c, read |-> op[c] = "read"]
<1>1. /\ ~(tx # None /\ Unlocked(c, tx.from))
      /\ op[c] = "read" => \A d \in Procs : Awaiting(d) => ~Unlocked(c, d)
  BY DEF Send
<1>2. tx = None
  BY <1>1 DEF Send, FreeForMe
<1>3. tx' = cmd
  BY <1>2 DEF Send
<1>4. /\ c \notin mixed => Asked(c) = ticket[c]
      /\ op[c] = "read" => Asked(c) = Question(c)
  BY DEF Send, RequestKept, Asked, Question
<1>5. cmd \in Command
  <2>1. (op[c] = "read") \in BOOLEAN
    OBVIOUS
  <2>2. Asked(c) \in Data
    BY DEF Asked, Data
  <2> QED BY <2>1, <2>2 DEF Command
<1>6. tx' # None
  BY <1>3, <1>5, NoneIsNoCommand
<1>7. cmd.read <=> op[c] = "read"
  BY Zenon
<1>8. tx'.read <=> op[c] = "read"
  BY <1>3, <1>7, Zenon
<1> QED BY <1>1, <1>2, <1>3, <1>4, <1>6, <1>8

LEMMA CommandsStay ==
  ASSUME LockInv, CommandsOnTheirWay, [LinkNext]_linkVars
  PROVE  CommandsOnTheirWay'
<1> SUFFICES ASSUME mess' \cap {"crossed", "skipped"} = {}
             PROVE  \A c \in Callers \ mixed' :
               pc'[c] \in Sent \/ (pc'[c] = "idle" /\ result'[c] = "ok") => OnItsWay(c)'
  BY DEF CommandsOnTheirWay
<1> DEFINE Goal(c) ==
      c \notin mixed /\ (pc[c] \in Sent \/ (pc[c] = "idle" /\ result[c] = "ok"))
        => OnItsWay(c)
<1> USE LinkAssumption
<1> USE DEF LinkTypeOK, LockInv, PlacesOK, linkVars, wire, shared, handed, GoTo, Procs,
            Sent, Waits
<1>0. \A c \in Callers : mess \cap {"crossed", "skipped"} = {} => Goal(c)
  BY DEF CommandsOnTheirWay
<1>w. ASSUME NEW d \in Callers, UNCHANGED <<tx, received>>, ticket'[d] = ticket[d]
      PROVE  OnItsWay(d)' <=> OnItsWay(d)
  BY <1>w DEF OnItsWay, Sending
<1>1. ASSUME NEW c \in Callers, NEW o \in Ops, Enter(c, o) PROVE \A e \in Callers : Goal(e)'
  <2>1. UNCHANGED <<tx, received, mess, result>> /\ mixed' = mixed \ {c}
    BY <1>1 DEF Enter
  <2>2. \A e \in Callers : e # c => pc'[e] = pc[e] /\ ticket'[e] = ticket[e]
    BY <1>1 DEF Enter
  <2>3. pc'[c] = "in"
    BY <1>1 DEF Enter
  <2> QED BY <1>0, <1>w, <2>1, <2>2, <2>3
<1>2. ASSUME NEW c \in Callers, Fault(c) PROVE \A e \in Callers : Goal(e)'
  <2>1. UNCHANGED <<tx, received, mess, mixed, result, ticket>>
    BY <1>2 DEF Fault
  <2>2. \A e \in Callers : /\ pc'[e] \in Sent => pc[e] \in Sent
                           /\ pc'[e] = "idle" => pc[e] = "idle"
    BY <1>2 DEF Fault
  <2> QED BY <1>0, <1>w, <2>1, <2>2
<1>3. ASSUME NEW c \in Callers, CopyStep(c) PROVE \A e \in Callers : Goal(e)'
  <2>1. /\ UNCHANGED <<tx, received, ticket>> /\ mess \subseteq mess' /\ mixed \subseteq mixed'
    BY <1>3, CopyStepMoves DEF Disturbed
  <2>2. /\ pc' = [pc EXCEPT ![c] = pc'[c]] /\ pc'[c] \in {"poll", "out", "idle", "halfAsleep"}
        /\ pc'[c] = "out" => c \in mixed
        /\ \/ result' = result /\ pc'[c] # "idle"
           \/ result' = [result EXCEPT ![c] = "failed"]
    BY <1>3, CopyStepMoves
  <2>3. \A e \in Callers : e # c => pc'[e] = pc[e] /\ result'[e] = result[e]
    BY <2>2
  <2>4. c \in mixed' \/ ~(pc'[c] \in Sent \/ (pc'[c] = "idle" /\ result'[c] = "ok"))
    BY <2>1, <2>2
  <2> QED BY <1>0, <1>w, <2>1, <2>3, <2>4
<1>4. ASSUME NEW c \in Callers, CopyAnswer(c) PROVE \A e \in Callers : Goal(e)'
  <2>1. UNCHANGED <<tx, received, mess, mixed, ticket>>
    BY <1>4 DEF CopyAnswer, CopyOut, CopyOutFails
  <2>2. \A e \in Callers : e # c => pc'[e] = pc[e] /\ result'[e] = result[e]
    BY <1>4 DEF CopyAnswer, CopyOut, CopyOutFails, Unserved
  <2>3. pc[c] \in Sent
    BY <1>4 DEF CopyAnswer, CopyOut, CopyOutFails, InKernel
  <2> QED BY <1>0, <1>w, <2>1, <2>2, <2>3
<1>5. ASSUME NEW c \in ProcReaders, ProcStart(c) \/ NextRegister(c)
      PROVE  \A e \in Callers : Goal(e)'
  <2>1. UNCHANGED <<tx, received, mess, mixed, result>>
    BY <1>5 DEF ProcStart, NextRegister
  <2>2. \A e \in Callers : pc'[e] = pc[e] /\ ticket'[e] = ticket[e]
    BY <1>5 DEF ProcStart, NextRegister
  <2> QED BY <1>0, <1>w, <2>1, <2>2
<1>6. ASSUME NEW c \in Procs, Poll(c) \/ PollAgain(c) \/ PollAnswer(c) \/ PollAnswerAgain(c)
      PROVE  \A e \in Callers : Goal(e)'
  <2>1. UNCHANGED <<tx, received, ticket, result, mess, mixed>>
    BY <1>6 DEF Poll, PollAgain, PollAnswer, PollAnswerAgain
  <2>2. \/ pc[c] \notin Sent \cup {"idle"} /\ pc'[c] \notin Sent \cup {"idle"}
        \/ pc[c] \in Sent /\ pc'[c] # "idle"
    BY <1>6 DEF Poll, PollAgain, PollAnswer, PollAnswerAgain
  <2>3. \A e \in Callers : e # c => pc'[e] = pc[e]
    BY <1>6 DEF Poll, PollAgain, PollAnswer, PollAnswerAgain
  <2>4. \A e \in Callers : /\ pc'[e] \in Sent => pc[e] \in Sent
                           /\ pc'[e] = "idle" => pc[e] = "idle"
    BY <2>2, <2>3
  <2> QED BY <1>0, <1>w, <2>1, <2>4
<1>7. ASSUME NEW c \in Procs, GiveUp(c) \/ GiveUpAnswer(c)
      PROVE  \A e \in Callers : Goal(e)'
  <2>1. /\ UNCHANGED <<wire, mixed>> /\ Fails(c) /\ mess \subseteq mess'
        /\ c \in Callers => op[c] # "sequence"
    BY <1>7 DEF GiveUp, GiveUpAnswer
  <2>2. CASE c \in Callers
    <3>1. /\ pc' = [pc EXCEPT ![c] = "idle"] /\ result' = [result EXCEPT ![c] = "failed"]
          /\ UNCHANGED ticket
      BY <2>1, <2>2 DEF Fails, Unserved
    <3> QED BY <1>0, <1>w, <2>1, <3>1
  <2>3. CASE c \in ProcReaders
    <3>1. Show(c, temp[c])
      BY <2>1, <2>3 DEF Fails
    <3>2. \A e \in Callers : pc'[e] = pc[e] /\ result'[e] = result[e]
      BY <2>3, <3>1 DEF Show
    <3>3. UNCHANGED ticket
      BY <3>1 DEF Show
    <3> QED BY <1>0, <1>w, <2>1, <3>2, <3>3
  <2> QED BY <2>2, <2>3
<1>8. ASSUME NEW c \in Procs, Send(c) PROVE \A e \in Callers : Goal(e)'
  <2>1. /\ tx = None /\ tx' # None /\ tx'.ticket = Asked(c) /\ tx'.from = c
        /\ c \notin mixed => Asked(c) = ticket[c]
    BY <1>8, SendsAlone
  <2>2. mess \subseteq mess' /\ UNCHANGED <<received, ticket, result, mixed>>
    BY <1>8 DEF Send
  <2>3. \A e \in Callers : e # c => pc'[e] = pc[e]
    BY <1>8 DEF Send
  <2>4. \A e \in Callers : OnItsWay(e) => OnItsWay(e)'
    BY <2>1, <2>2 DEF OnItsWay, Sending
  <2>5. c \notin mixed => OnItsWay(c)'
    BY <2>1, <2>2 DEF OnItsWay, Sending
  <2> QED BY <1>0, <2>2, <2>3, <2>4, <2>5
<1>9. ASSUME NEW c \in Procs, ReadData(c) PROVE \A e \in Callers : Goal(e)'
  <2>0. UNCHANGED <<tx, received, mess, mixed>>
    BY <1>9 DEF ReadData
  <2>1. CASE c \in Callers
    <3>1. /\ pc[c] = "data" /\ pc' = [pc EXCEPT ![c] = "out"]
          /\ UNCHANGED <<ticket, result>>
      BY <1>9, <2>1 DEF ReadData, Take
    <3> QED BY <1>0, <1>w, <2>0, <3>1
  <2>2. CASE c \in ProcReaders
    <3>1. Show(c, spimData)
      BY <1>9, <2>2 DEF ReadData, Take
    <3>2. \A e \in Callers : pc'[e] = pc[e] /\ result'[e] = result[e]
      BY <2>2, <3>1 DEF Show
    <3>3. UNCHANGED ticket
      BY <3>1 DEF Show
    <3> QED BY <1>0, <1>w, <2>0, <3>2, <3>3
  <2> QED BY <2>1, <2>2
<1>10. CASE Transmitted
  <2>1. received' = received \cup {tx} /\ UNCHANGED <<pc, ticket, result, mess, mixed>>
    BY <1>10 DEF Transmitted
  <2>2. \A e \in Callers : OnItsWay(e) => OnItsWay(e)'
    BY <2>1 DEF OnItsWay, Sending
  <2> QED BY <1>0, <2>1, <2>2
<1>11. CASE Answer \/ UNCHANGED linkVars
  <2>1. UNCHANGED <<tx, received, pc, ticket, result, mess, mixed>>
    BY <1>11 DEF Answer
  <2> QED BY <1>0, <1>w, <2>1
<1> QED
  BY <1>1, <1>2, <1>3, <1>4, <1>5, <1>6, <1>7, <1>8, <1>9, <1>10, <1>11
     DEF LinkNext, Ioctl, ReadProc, LinkStep, CopyRequest, CopyStep

(* A command that an ioctl reported as done is with the detector or being  *)
(* sent: plx_send_SPI loses none that a /proc reader does not destroy.     *)
THEOREM CommandsDoArrive == LinkSafety => []CommandsArrive
<1>1. LinkInit => CommandsOnTheirWay
  BY DEF LinkInit, CommandsOnTheirWay, Sent, Waits, Procs
<1>2. LockInv /\ CommandsOnTheirWay /\ [LinkNext]_linkVars => CommandsOnTheirWay'
  BY CommandsStay
<1>3. CommandsOnTheirWay => CommandsArrive
  BY DEF CommandsOnTheirWay, CommandsArrive, OnItsWay
<1> QED BY <1>1, <1>2, <1>3, LockInvariant, PTL DEF LinkSafety

-----------------------------------------------------------------------------
(* Questions and answers.                                                  *)

(* A step off the link leaves the exchange as it is.                       *)
LEMMA ExchangeUntouched ==
  ASSUME ExchangeOK, UNCHANGED <<tx, owed, rsd, spimData>>,
         \A d \in Procs : Awaiting(d)' <=> Awaiting(d),
         \A d \in Procs : Awaiting(d) => Question(d)' = Question(d),
         \A d \in Procs : pc'[d] = "data" => pc[d] = "data" \/ rsd
  PROVE  ExchangeOK'
<1>1. \A d \in Procs : QuestionOut(d) /\ Question(d)' = Question(d) => QuestionOut(d)'
  BY DEF QuestionOut, NotAsking
<1>2. Quiet => Quiet'
  BY DEF Quiet, NotAsking
<1>3. \A c, d \in Procs : Awaiting(c)' /\ Awaiting(d)' => c = d
  BY DEF ExchangeOK
<1>4. \A c \in Procs : Awaiting(c)' => QuestionOut(c)'
  BY <1>1 DEF ExchangeOK
<1>5. (\A c \in Procs : ~Awaiting(c)') => Quiet'
  BY <1>2 DEF ExchangeOK
<1>6. \A c \in Procs : pc'[c] = "data" => rsd'
  BY DEF ExchangeOK
<1> QED BY <1>3, <1>4, <1>5, <1>6 DEF ExchangeOK

(* Two processes that run and that the lock does not exclude: one of them  *)
(* reads /proc.                                                            *)
LEMMA LockedAreOne ==
  ASSUME LockInv, NEW c \in Procs, NEW d \in Procs, pc[c] \in InCall, pc[d] \in InCall,
         ~Unlocked(c, d)
  PROVE  c = d
BY DEF LockInv, LockHeld, Unlocked, Procs

(* The question is asked of a link at rest.                                *)
LEMMA SendKeepsExchange ==
  ASSUME LockInv, ExchangeOK, NEW c \in Procs, Send(c), mess' = {}
  PROVE  ExchangeOK'
<1> USE DEF LockInv, LinkTypeOK
<1>1. /\ tx = None /\ tx' # None /\ (op[c] = "read" => tx'.ticket = Question(c))
      /\ tx'.read <=> op[c] = "read"
      /\ op[c] = "read" => \A d \in Procs : Awaiting(d) => ~Unlocked(c, d)
  BY SendsAlone
<1>2. /\ pc[c] = "send" /\ UNCHANGED <<owed, rsd, spimData>>
      /\ \A d \in Procs : Question(d)' = Question(d)
      /\ \A d \in Procs : d # c => pc'[d] = pc[d]
  BY DEF Send, Question, shared
<1>3. ~Awaiting(c)
  BY <1>2 DEF Awaiting
<1>4. \A d \in Procs : d # c => (Awaiting(d)' <=> Awaiting(d))
  BY <1>2 DEF Awaiting
<1>5. CASE op[c] = "read"
  <2>1. \A d \in Procs : ~Awaiting(d)
    <3> SUFFICES ASSUME NEW d \in Procs, Awaiting(d) PROVE FALSE
      OBVIOUS
    <3>1. ~Unlocked(c, d)
      BY <1>1, <1>5
    <3>2. pc[c] \in InCall /\ pc[d] \in InCall
      BY <1>2 DEF Awaiting, InCall, OnLink, Waits
    <3>3. c = d
      BY <3>1, <3>2, LockedAreOne
    <3> QED BY <1>3, <3>3
  <2>2. Quiet
    BY <2>1 DEF ExchangeOK
  <2>3. pc'[c] = "rsd"
    BY <1>5 DEF Send
  <2>4. \A d \in Procs : Awaiting(d)' <=> d = c
    BY <1>4, <2>1, <2>3 DEF Awaiting
  <2>5. QuestionOut(c)'
    BY <1>1, <1>2, <1>5, <2>2 DEF QuestionOut, Quiet
  <2>6. \A d \in Procs : pc'[d] # "data"
    BY <1>2, <2>1, <2>3 DEF Awaiting
  <2> QED BY <2>4, <2>5, <2>6 DEF ExchangeOK
<1>6. CASE op[c] # "read"
  <2>1. pc'[c] = "out"
    BY <1>6 DEF Send
  <2>2. \A d \in Procs : Awaiting(d)' <=> Awaiting(d)
    BY <1>3, <1>4, <2>1 DEF Awaiting
  <2>3. NotAsking'
    BY <1>1, <1>6 DEF NotAsking
  <2>4. \A d \in Procs : QuestionOut(d) => QuestionOut(d)'
    BY <1>1, <1>2, <2>3 DEF QuestionOut
  <2>5. Quiet => Quiet'
    BY <1>2, <2>3 DEF Quiet
  <2>6. \A d \in Procs : pc'[d] = "data" => rsd'
    BY <1>2, <2>1 DEF ExchangeOK
  <2> QED BY <2>2, <2>4, <2>5, <2>6 DEF ExchangeOK
<1> QED BY <1>5, <1>6

(* The detector takes the question and gives the answer.                   *)
LEMMA DetectorKeepsExchange ==
  ASSUME LockInv, ExchangeOK, Transmitted \/ Answer
  PROVE  ExchangeOK'
<1> USE DEF LockInv, LinkTypeOK
<1>1. UNCHANGED pc /\ \A d \in Procs : Question(d)' = Question(d)
  BY DEF Transmitted, Answer, shared, Question
<1>2. \A d \in Procs : Awaiting(d)' <=> Awaiting(d)
  BY <1>1 DEF Awaiting
<1>3. ASSUME NEW d \in Procs, Awaiting(d) PROVE QuestionOut(d)'
  <2> DEFINE t == Question(d)
  <2>0. QuestionOut(d) /\ t' = t
    BY <1>1, <1>3 DEF ExchangeOK
  <2>1. CASE Transmitted
    <3>1. /\ tx' = None /\ UNCHANGED <<rsd, spimData>>
          /\ owed' = IF tx.read THEN Append(owed, tx.ticket) ELSE owed
      BY <2>1 DEF Transmitted
    <3>2. CASE tx.read
      <4>1. tx.ticket = t /\ owed = << >> /\ ~rsd
        BY <2>0, <2>1, <3>2 DEF QuestionOut, NotAsking, Transmitted
      <4>2. owed' = <<t>>
        BY <3>1, <3>2, <4>1
      <4> QED BY <2>0, <3>1, <4>1, <4>2 DEF QuestionOut, NotAsking
    <3>3. CASE ~tx.read
      <4>1. owed' = owed
        BY <3>1, <3>3
      <4> QED BY <2>0, <3>1, <3>3, <4>1 DEF QuestionOut, NotAsking
    <3> QED BY <3>2, <3>3
  <2>2. CASE Answer
    <3>1. NotAsking /\ owed = <<t>>
      BY <2>0, <2>2 DEF QuestionOut, Answer
    <3>2. spimData' = t /\ owed' = << >> /\ rsd' /\ UNCHANGED tx
      BY <2>2, <3>1 DEF Answer
    <3> QED BY <2>0, <3>1, <3>2 DEF QuestionOut, NotAsking
  <2> QED BY <2>1, <2>2
<1>4. Quiet => Quiet'
  BY DEF Quiet, NotAsking, Transmitted, Answer
<1>5. \A d \in Procs : pc'[d] = "data" => rsd'
  BY <1>1 DEF ExchangeOK, Transmitted, Answer
<1> QED BY <1>2, <1>3, <1>4, <1>5 DEF ExchangeOK

(* The answer taken is the one to the question asked, and leaves nothing.  *)
LEMMA ReadDataKeepsExchange ==
  ASSUME LockInv, ExchangeOK, NEW c \in Procs, ReadData(c)
  PROVE  spimData = Question(c) /\ ExchangeOK'
<1> USE DEF LockInv, LinkTypeOK
<1>1. Awaiting(c) /\ rsd
  BY DEF ReadData, ExchangeOK, Awaiting
<1>2. NotAsking /\ owed = << >> /\ spimData = Question(c)
  BY <1>1 DEF ExchangeOK, QuestionOut
<1>3. UNCHANGED <<tx, owed>> /\ ~rsd'
  BY DEF ReadData
<1>4. \A d \in Procs : d # c => pc'[d] = pc[d] /\ ~Awaiting(d)
  <2>1. \A d \in Procs : d # c => ~Awaiting(d)
    BY <1>1 DEF ExchangeOK
  <2>2. CASE c \in Callers
    BY <2>1, <2>2, LinkAssumption DEF ReadData, Take
  <2>3. CASE c \in ProcReaders
    <3>1. Show(c, spimData)
      BY <2>3, LinkAssumption DEF ReadData, Take
    <3> QED BY <2>1, <3>1, ShowMoves
  <2> QED BY <2>2, <2>3 DEF Procs
<1>5. pc'[c] \in {"out", "idle", "shown"}
  <2>1. CASE c \in Callers /\ pc' = [pc EXCEPT ![c] = "out"]
    BY <2>1
  <2>2. CASE Show(c, spimData)
    BY <2>2, ShowMoves
  <2> QED BY <2>1, <2>2 DEF ReadData, Take
<1>6. \A d \in Procs : ~Awaiting(d)' /\ pc'[d] # "data"
  BY <1>4, <1>5 DEF Awaiting
<1>7. Quiet'
  BY <1>2, <1>3 DEF Quiet, NotAsking
<1> QED BY <1>2, <1>6, <1>7 DEF ExchangeOK

LEMMA ExchangeStays ==
  ASSUME LockInv, ExchangeOK, [LinkNext]_linkVars, mess' = {}
  PROVE  ExchangeOK'
<1> USE LinkAssumption
<1> USE DEF LinkTypeOK, LockInv, linkVars, wire, GoTo, Procs, Awaiting
<1>q. ASSUME NEW d \in Procs, localbuf' = localbuf, ticket'[d] = ticket[d]
      PROVE  Question(d)' = Question(d)
  BY <1>q DEF Question
<1>1. ASSUME NEW c \in Callers, NEW o \in Ops, Enter(c, o) PROVE ExchangeOK'
  <2>1. /\ UNCHANGED <<wire, localbuf>> /\ pc[c] = "idle" /\ pc'[c] = "in"
        /\ \A d \in Procs : d # c => pc'[d] = pc[d] /\ ticket'[d] = ticket[d]
    BY <1>1 DEF Enter
  <2> QED BY <1>q, <2>1, ExchangeUntouched
<1>2. ASSUME NEW c \in Callers, Fault(c) PROVE ExchangeOK'
  <2>1. /\ UNCHANGED <<wire, localbuf, ticket>>
        /\ pc[c] \in {"in", "out"} /\ pc'[c] \in {"inAsleep", "outAsleep"}
        /\ \A d \in Procs : d # c => pc'[d] = pc[d]
    BY <1>2 DEF Fault
  <2> QED BY <1>q, <2>1, ExchangeUntouched
<1>3. ASSUME NEW c \in Callers, CopyStep(c) PROVE ExchangeOK'
  <2>1. /\ pc[c] \in {"in", "inAsleep", "halfAsleep"}
        /\ \A d \in Callers : d # c => pc[d] \notin InCall
        /\ pc' = [pc EXCEPT ![c] = pc'[c]]
        /\ pc'[c] \in {"poll", "out", "idle", "halfAsleep"}
        /\ UNCHANGED <<wire, ticket>>
    BY <1>3, CopyStepMoves
  <2>2. \A d \in Procs : Awaiting(d) => d \in ProcReaders
    BY <2>1 DEF InCall, OnLink, Waits
  <2>3. \A d \in Procs : Awaiting(d) => Question(d)' = Question(d)
    BY <2>1, <2>2 DEF Question
  <2>4. \A d \in Procs : pc'[d] = pc[d] \/ (d = c /\ ~Awaiting(c) /\ ~Awaiting(c)')
    BY <2>1
  <2>5. \A d \in Procs : (Awaiting(d)' <=> Awaiting(d)) /\ (pc'[d] = "data" => pc[d] = "data")
    BY <2>1, <2>4
  <2>6. UNCHANGED <<tx, owed, rsd, spimData>>
    BY <2>1
  <2> HIDE DEF Awaiting
  <2> QED BY <2>3, <2>5, <2>6, ExchangeUntouched
<1>a. ASSUME NEW c \in Callers, CopyAnswer(c) PROVE ExchangeOK'
  <2>1. /\ UNCHANGED <<wire, localbuf, ticket>> /\ pc[c] \in {"out", "outAsleep"}
    BY <1>a DEF CopyAnswer, CopyOut, CopyOutFails, InKernel
  <2>2. pc' = [pc EXCEPT ![c] = "idle"]
    BY <1>a DEF CopyAnswer, CopyOut, CopyOutFails, Unserved
  <2> QED BY <1>q, <2>1, <2>2, ExchangeUntouched
<1>4. ASSUME NEW c \in ProcReaders, ProcStart(c) \/ NextRegister(c) PROVE ExchangeOK'
  <2>1. /\ UNCHANGED <<wire, localbuf>> /\ pc[c] \in {"idle", "shown"} /\ pc'[c] = "poll"
        /\ \A d \in Procs : d # c => pc'[d] = pc[d] /\ ticket'[d] = ticket[d]
    BY <1>4 DEF ProcStart, NextRegister, shared
  <2> QED BY <1>q, <2>1, ExchangeUntouched
<1>5. ASSUME NEW c \in Procs, Poll(c) \/ PollAgain(c) \/ PollAnswer(c) \/ PollAnswerAgain(c)
      PROVE  ExchangeOK'
  <2>1. /\ UNCHANGED <<wire, localbuf, ticket>>
        /\ \A d \in Procs : d # c => pc'[d] = pc[d]
    BY <1>5 DEF Poll, PollAgain, PollAnswer, PollAnswerAgain, shared
  <2>2. /\ Awaiting(c)' <=> Awaiting(c)
        /\ pc'[c] = "data" => rsd
    BY <1>5 DEF Poll, PollAgain, PollAnswer, PollAnswerAgain
  <2> QED BY <1>q, <2>1, <2>2, ExchangeUntouched
<1>6. ASSUME NEW c \in Procs, GiveUp(c) PROVE ExchangeOK'
  <2>1. c \in Callers /\ op[c] # "sequence" /\ pc[c] = "wait" /\ UNCHANGED wire
    BY <1>6 DEF GiveUp
  <2>2. pc' = [pc EXCEPT ![c] = "idle"] /\ UNCHANGED <<ticket, localbuf>>
    BY <1>6, <2>1 DEF GiveUp, Fails, Unserved
  <2> QED BY <1>q, <2>1, <2>2, ExchangeUntouched
<1>7. ASSUME NEW c \in Procs, GiveUpAnswer(c) PROVE FALSE
  BY <1>7 DEF GiveUpAnswer
<1>8. CASE UNCHANGED linkVars
  <2>1. UNCHANGED <<wire, localbuf, ticket, pc>>
    BY <1>8 DEF shared
  <2> QED BY <1>q, <2>1, ExchangeUntouched
<1> QED
  BY <1>1, <1>2, <1>3, <1>a, <1>4, <1>5, <1>6, <1>7, <1>8, SendKeepsExchange,
     DetectorKeepsExchange, ReadDataKeepsExchange
     DEF LinkNext, Ioctl, ReadProc, LinkStep, CopyRequest, CopyStep

LEMMA AnswerStays ==
  ASSUME LockInv, ExchangeOK, AnswerKept, [LinkNext]_linkVars, mess = {}, mess' = {}
  PROVE  AnswerKept'
<1> USE LinkAssumption
<1> USE DEF LinkTypeOK, LockInv, LockHeld, PlacesOK, linkVars, wire, shared, handed, GoTo,
            Procs, AnswerKept, OnLink, InCall, Waits
<1>1. ASSUME NEW c \in Callers, NEW o \in Ops, Enter(c, o) PROVE AnswerKept'
  <2>1. /\ UNCHANGED localbuf /\ mixed' = mixed \ {c} /\ pc'[c] = "in"
        /\ \A d \in Callers : d # c => pc'[d] = pc[d] /\ ticket'[d] = ticket[d] /\ op'[d] = op[d]
    BY <1>1 DEF Enter
  <2>2. \A d \in Callers : pc'[d] \in OnLink \cup {"outAsleep"} =>
          d # c /\ pc'[d] = pc[d] /\ (d \in mixed => d \in mixed')
    BY <2>1
  <2>3. \A d, e \in Callers : pc'[d] = "outAsleep" => pc'[e] \notin OnLink
    BY <2>2
  <2> QED BY <2>1, <2>2, <2>3
<1>2. ASSUME NEW c \in Callers, Fault(c) PROVE AnswerKept'
  <2>1. bkl = c /\ UNCHANGED <<localbuf, op, ticket, mixed>>
    BY <1>2 DEF Fault
  <2>2. CASE pc' = [pc EXCEPT ![c] = "inAsleep"]
    BY <2>1, <2>2
  <2>3. CASE pc' = [pc EXCEPT ![c] = "outAsleep"] /\ pc[c] = "out"
    BY <2>1, <2>3
  <2> QED BY <1>2, <2>2, <2>3 DEF Fault
<1>3. ASSUME NEW c \in Callers, CopyStep(c) PROVE AnswerKept'
  <2>1. /\ \A d \in Callers : d # c => pc[d] \notin InCall
        /\ pc' = [pc EXCEPT ![c] = pc'[c]]
        /\ pc'[c] \in {"poll", "out", "idle", "halfAsleep"}
        /\ pc'[c] = "out" => op[c] = "sequence"
        /\ UNCHANGED <<op, ticket>> /\ Disturbed
    BY <1>3, CopyStepMoves
  <2>2. \A d \in Callers : pc[d] # "outAsleep"
    BY <2>1 DEF Disturbed
  <2>3. \A d \in Callers : /\ pc'[d] # "outAsleep"
                           /\ pc'[d] = "out" => op'[d] # "read"
    BY <2>1, <2>2
  <2> QED BY <2>3
<1>4. ASSUME NEW c \in Callers, CopyAnswer(c) PROVE AnswerKept'
  <2>1. /\ UNCHANGED <<localbuf, op, ticket, mixed>>
        /\ pc' = [pc EXCEPT ![c] = "idle"]
    BY <1>4 DEF CopyAnswer, CopyOut, CopyOutFails, Unserved
  <2> QED BY <2>1
<1>5. ASSUME NEW c \in ProcReaders, ProcStart(c) \/ NextRegister(c) PROVE AnswerKept'
  <2>1. UNCHANGED <<localbuf, op, mixed>>
    BY <1>5 DEF ProcStart, NextRegister
  <2>2. \A d \in Callers : pc'[d] = pc[d] /\ ticket'[d] = ticket[d]
    BY <1>5 DEF ProcStart, NextRegister
  <2> QED BY <2>1, <2>2
<1>6. ASSUME NEW c \in Procs, Poll(c) \/ PollAgain(c) \/ PollAnswer(c) \/ PollAnswerAgain(c)
      PROVE  AnswerKept'
  <2>1. /\ UNCHANGED <<localbuf, op, ticket, mixed>>
        /\ \A d \in Callers : d # c => pc'[d] = pc[d]
    BY <1>6 DEF Poll, PollAgain, PollAnswer, PollAnswerAgain
  <2>2. /\ pc'[c] \in OnLink \ {"out"} /\ pc[c] \in OnLink
    BY <1>6 DEF Poll, PollAgain, PollAnswer, PollAnswerAgain
  <2>3. \A d \in Callers : /\ pc'[d] \in {"out", "outAsleep"} => pc'[d] = pc[d]
                           /\ pc'[d] \in OnLink => pc[d] \in OnLink
    BY <2>1, <2>2
  <2> QED BY <2>1, <2>3
<1>7. ASSUME NEW c \in Procs, GiveUp(c) PROVE AnswerKept'
  <2>1. c \in Callers /\ op[c] # "sequence" /\ UNCHANGED mixed
    BY <1>7 DEF GiveUp
  <2>2. pc' = [pc EXCEPT ![c] = "idle"] /\ UNCHANGED <<localbuf, op, ticket>>
    BY <1>7, <2>1 DEF GiveUp, Fails, Unserved
  <2> QED BY <2>1, <2>2
<1>8. ASSUME NEW c \in Procs, GiveUpAnswer(c) PROVE FALSE
  BY <1>8 DEF GiveUpAnswer
<1>9. ASSUME NEW c \in Procs, Send(c) PROVE AnswerKept'
  <2>1. /\ UNCHANGED <<localbuf, op, ticket, mixed>> /\ pc[c] = "send"
        /\ \A d \in Procs : d # c => pc'[d] = pc[d]
    BY <1>9 DEF Send
  <2>2. pc'[c] \in {"rsd", "out"} /\ (pc'[c] = "out" => op[c] # "read")
    BY <1>9 DEF Send
  <2>3. \A d \in Callers : /\ pc'[d] \in {"out", "outAsleep"} => pc'[d] = pc[d] \/ op[d] # "read"
                           /\ pc'[d] = "outAsleep" => pc[d] = "outAsleep"
                           /\ pc'[d] \in OnLink => pc[d] \in OnLink
    BY <2>1, <2>2
  <2> QED BY <2>1, <2>3
<1>10. ASSUME NEW c \in Procs, ReadData(c) PROVE AnswerKept'
  <2>1. spimData = Question(c) /\ pc[c] = "data" /\ UNCHANGED mixed
    BY <1>10, ReadDataKeepsExchange DEF ReadData
  <2>2. CASE c \in Callers
    <3>1. /\ localbuf' = [localbuf EXCEPT !.data = spimData]
          /\ pc' = [pc EXCEPT ![c] = "out"] /\ UNCHANGED <<op, ticket>>
      BY <1>10, <2>2 DEF ReadData, Take
    <3>2. \A d \in Callers : d # c => pc[d] \notin {"out", "outAsleep"}
      BY <2>1, <2>2
    <3>3. c \notin mixed => localbuf'.data = ticket[c]
      BY <2>1, <2>2, <3>1 DEF Question, RequestKept
    <3>4. \A d \in Callers : /\ pc'[d] # "outAsleep"
                             /\ pc'[d] = "out" => d = c
      BY <2>2, <3>1, <3>2
    <3> QED BY <2>1, <2>2, <3>1, <3>3, <3>4
  <2>3. CASE c \in ProcReaders
    <3>1. Show(c, spimData)
      BY <1>10, <2>3 DEF ReadData, Take
    <3>2. /\ pc' = [pc EXCEPT ![c] = pc'[c]] /\ UNCHANGED <<localbuf, op, ticket>>
      BY <3>1, ShowMoves
    <3>3. \A d \in Callers : pc'[d] = pc[d]
      BY <2>3, <3>2
    <3> QED BY <2>1, <3>2, <3>3
  <2> QED BY <2>2, <2>3
<1>11. CASE Transmitted \/ Answer \/ UNCHANGED linkVars
  <2>1. UNCHANGED <<localbuf, op, ticket, pc, mixed>>
    BY <1>11 DEF Transmitted, Answer
  <2> QED BY <2>1
<1> QED
  BY <1>1, <1>2, <1>3, <1>4, <1>5, <1>6, <1>7, <1>8, <1>9, <1>10, <1>11
     DEF LinkNext, Ioctl, ReadProc, LinkStep, CopyRequest, CopyStep

(* Data handed out are data kept, and the question is still the same.      *)
LEMMA OwnAnswerStays ==
  ASSUME LockInv, ExchangeOK, AnswerKept, OwnAnswer, [LinkNext]_linkVars,
         mess = {}, mess' = {}
  PROVE  OwnAnswer'
<1> DEFINE Goal(c) == /\ c \notin mixed /\ op[c] = "read" /\ result[c] = "ok"
                      /\ pc[c] \in {"idle", "shown"}
                      => got[c] = ticket[c]
<1>0. \A e \in Procs : Goal(e)
  BY DEF OwnAnswer
<1> SUFFICES \A e \in Procs : Goal(e)'
  BY DEF OwnAnswer
<1> USE LinkAssumption
<1> USE DEF LinkTypeOK, LockInv, PlacesOK, linkVars, wire, shared, handed, GoTo, Procs, Waits
<1>1. ASSUME NEW c \in Callers, NEW o \in Ops, Enter(c, o) PROVE \A e \in Procs : Goal(e)'
  <2>1. /\ mixed' = mixed \ {c} /\ UNCHANGED <<result, got>> /\ pc'[c] = "in"
        /\ \A d \in Procs : d # c => pc'[d] = pc[d] /\ ticket'[d] = ticket[d] /\ op'[d] = op[d]
    BY <1>1 DEF Enter
  <2> QED BY <1>0, <2>1
<1>2. ASSUME NEW c \in Callers, Fault(c) PROVE \A e \in Procs : Goal(e)'
  <2>1. /\ UNCHANGED <<mixed, result, got, op, ticket>> /\ pc'[c] \in {"inAsleep", "outAsleep"}
        /\ \A d \in Procs : d # c => pc'[d] = pc[d]
    BY <1>2 DEF Fault
  <2> QED BY <1>0, <2>1
<1>a. ASSUME NEW c \in Callers, CopyStep(c) PROVE \A e \in Procs : Goal(e)'
  <2>1. /\ pc' = [pc EXCEPT ![c] = pc'[c]]
        /\ pc'[c] \in {"poll", "out", "idle", "halfAsleep"}
        /\ \/ result' = result /\ pc'[c] # "idle"
           \/ result' = [result EXCEPT ![c] = "failed"]
        /\ UNCHANGED <<op, ticket, got>> /\ mixed \subseteq mixed'
    BY <1>a, CopyStepMoves DEF Disturbed
  <2>2. \A d \in Procs : d # c => pc'[d] = pc[d] /\ result'[d] = result[d]
    BY <2>1
  <2>3. pc'[c] \notin {"idle", "shown"} \/ result'[c] = "failed"
    BY <2>1
  <2> QED BY <1>0, <2>1, <2>2, <2>3
<1>3. ASSUME NEW c \in Callers, CopyAnswer(c) PROVE \A e \in Procs : Goal(e)'
  <2>1. c \notin mixed /\ op[c] = "read" => localbuf.data = ticket[c]
    BY <1>3 DEF CopyAnswer, CopyOut, CopyOutFails, InKernel, AnswerKept
  <2>2. /\ UNCHANGED <<op, ticket, mixed>>
        /\ \A d \in Procs : d # c => pc'[d] = pc[d] /\ result'[d] = result[d] /\ got'[d] = got[d]
    BY <1>3 DEF CopyAnswer, CopyOut, CopyOutFails, Unserved
  <2>3. got'[c] = localbuf.data \/ result'[c] = "failed"
    BY <1>3 DEF CopyAnswer, CopyOut, CopyOutFails, Unserved
  <2> QED BY <1>0, <2>1, <2>2, <2>3
<1>4. ASSUME NEW c \in ProcReaders, ProcStart(c) \/ NextRegister(c)
      PROVE  \A e \in Procs : Goal(e)'
  <2>1. /\ UNCHANGED <<mixed, result, got, op>> /\ pc'[c] = "poll"
        /\ \A d \in Procs : d # c => pc'[d] = pc[d] /\ ticket'[d] = ticket[d]
    BY <1>4 DEF ProcStart, NextRegister
  <2> QED BY <1>0, <2>1
<1>5. ASSUME NEW c \in Procs, Poll(c) \/ PollAgain(c) \/ PollAnswer(c) \/ PollAnswerAgain(c)
      PROVE  \A e \in Procs : Goal(e)'
  <2>1. /\ UNCHANGED <<mixed, result, got, op, ticket>> /\ pc'[c] \notin {"idle", "shown"}
        /\ \A d \in Procs : d # c => pc'[d] = pc[d]
    BY <1>5 DEF Poll, PollAgain, PollAnswer, PollAnswerAgain
  <2> QED BY <1>0, <2>1
<1>6. ASSUME NEW c \in Procs, GiveUp(c) PROVE \A e \in Procs : Goal(e)'
  <2>1. c \in Callers /\ op[c] # "sequence" /\ UNCHANGED mixed
    BY <1>6 DEF GiveUp
  <2>2. /\ pc' = [pc EXCEPT ![c] = "idle"] /\ result' = [result EXCEPT ![c] = "failed"]
        /\ UNCHANGED <<op, ticket, got>>
    BY <1>6, <2>1 DEF GiveUp, Fails, Unserved
  <2> QED BY <1>0, <2>1, <2>2
<1>7. ASSUME NEW c \in Procs, GiveUpAnswer(c) PROVE FALSE
  BY <1>7 DEF GiveUpAnswer
<1>8. ASSUME NEW c \in Procs, Send(c) PROVE \A e \in Procs : Goal(e)'
  <2>1. /\ UNCHANGED <<mixed, result, got, op, ticket>> /\ pc'[c] \notin {"idle", "shown"}
        /\ \A d \in Procs : d # c => pc'[d] = pc[d]
    BY <1>8 DEF Send
  <2> QED BY <1>0, <2>1
<1>9. ASSUME NEW c \in Procs, ReadData(c) PROVE \A e \in Procs : Goal(e)'
  <2>1. spimData = Question(c) /\ UNCHANGED mixed
    BY <1>9, ReadDataKeepsExchange DEF ReadData
  <2>2. CASE c \in Callers
    <3>1. /\ pc' = [pc EXCEPT ![c] = "out"] /\ UNCHANGED <<op, ticket, got, result>>
      BY <1>9, <2>2 DEF ReadData, Take
    <3> QED BY <1>0, <2>1, <3>1
  <2>3. CASE c \in ProcReaders
    <3>1. Show(c, spimData) /\ spimData = ticket[c]
      BY <1>9, <2>1, <2>3 DEF ReadData, Take, Question
    <3>2. /\ got' = [got EXCEPT ![c] = ticket[c]] /\ result' = [result EXCEPT ![c] = "ok"]
          /\ UNCHANGED <<op, ticket>> /\ pc' = [pc EXCEPT ![c] = pc'[c]]
      BY <3>1, ShowMoves DEF Show
    <3> QED BY <1>0, <2>1, <3>2
  <2> QED BY <2>2, <2>3
<1>10. CASE Transmitted \/ Answer \/ UNCHANGED linkVars
  <2>1. UNCHANGED <<mixed, result, got, op, ticket, pc>>
    BY <1>10 DEF Transmitted, Answer
  <2> QED BY <1>0, <2>1
<1> QED
  BY <1>1, <1>2, <1>a, <1>3, <1>4, <1>5, <1>6, <1>7, <1>8, <1>9, <1>10
     DEF LinkNext, Ioctl, ReadProc, LinkStep, CopyRequest, CopyStep

(* A mess stays a mess.                                                    *)
LEMMA MessStays ==
  ASSUME [LinkNext]_linkVars
  PROVE  mess \subseteq mess'
BY DEF LinkNext, Ioctl, ReadProc, LinkStep, linkVars, Enter, Fault, CopyRequest, CopyAnswer,
       CopyIn, CopyHalf, CopyRest, CopyInFails, Disturbed, CopyOut, CopyOutFails, ProcStart,
       NextRegister, Poll, PollAgain, PollAnswer, PollAnswerAgain, GiveUp, GiveUpAnswer, Send,
       ReadData, Transmitted, Answer

LinkInv == LockInv /\ AnswerInv /\ OwnAnswer

LEMMA LinkInvariant == LinkSafety => []LinkInv
<1>1. LinkInit => AnswerInv /\ OwnAnswer
  BY DEF LinkInit, AnswerInv, ExchangeOK, AnswerKept, OwnAnswer, Awaiting, Quiet, NotAsking,
         Procs
<1>2. LockInv /\ AnswerInv /\ OwnAnswer /\ [LinkNext]_linkVars => AnswerInv' /\ OwnAnswer'
  <2> SUFFICES ASSUME LockInv, AnswerInv, OwnAnswer, [LinkNext]_linkVars
               PROVE  AnswerInv' /\ OwnAnswer'
    OBVIOUS
  <2>1. CASE mess' = {}
    <3>1. mess = {} /\ ExchangeOK /\ AnswerKept
      BY <2>1, MessStays DEF AnswerInv
    <3> QED BY <2>1, <3>1, ExchangeStays, AnswerStays, OwnAnswerStays DEF AnswerInv
  <2>2. CASE mess' # {}
    BY <2>2 DEF AnswerInv, OwnAnswer
  <2> QED BY <2>1, <2>2
<1> QED BY <1>1, <1>2, LockInvariant, PTL DEF LinkSafety, LinkInv

(* The link has no tags, and yet an ioctl or a read of /proc gets the      *)
(* answer to its own question, until one of the four things happens that   *)
(* the driver does nothing against.                                        *)
THEOREM AnswersAreOwn == LinkSafety => []OwnAnswer
BY LinkInvariant, PTL DEF LinkInv

(* Until then nothing is left over on the link that the next reader would  *)
(* take for its answer.                                                    *)
THEOREM NothingIsLeftOver == LinkSafety => []NothingLeftOver
<1>1. LinkInv => NothingLeftOver
  BY DEF LinkInv, AnswerInv, ExchangeOK, NothingLeftOver, Quiet, NotAsking
<1> QED BY <1>1, LinkInvariant, PTL

=============================================================================

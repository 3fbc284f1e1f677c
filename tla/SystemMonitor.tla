--------------------------- MODULE SystemMonitor ---------------------------
(***************************************************************************)
(* The system monitor (watchdog/system_monitor.c), built as it stands,     *)
(* with WITH_WATCH_DOG and TEST_APPL off.  It asks the data acquisition    *)
(* application for an echo, sends the next one when the reply has come and *)
(* TIMEOUT_APPL seconds have passed in silence, reconnects when no reply   *)
(* comes, and gives up for a reboot when it cannot connect.                *)
(*                                                                         *)
(* The application and the connection are the environment: replies may be  *)
(* late or something else, something else may carry data, and the          *)
(* application may hang or die between any two sends and be started again. *)
(***************************************************************************)
EXTENDS Integers, Sequences

CONSTANTS
  MAX_CONN_ATTEMPTS,  \* 5
  SENT_ECHOS,         \* 3
  MaxFaults           \* bound: times the application hangs, dies or starts

ASSUME MonitorAssumption ==
  MAX_CONN_ATTEMPTS \in Nat /\ SENT_ECHOS \in Nat /\ MaxFaults \in Nat

VARIABLES
  \* the monitor
  pc,         \* where main is
  attempts,   \* i of connect_2_appl
  gotit, wait_cntr,
  msg,        \* cmd of the static Cmd that receive_cmd fills
  long,       \* its length is above zero
  \* clientSocket and the application's end of the connection
  conn,       \* "none": clientSocket = -1; "up"; "eof": the application is gone
  echoes,     \* echoes the application has not answered
  toMonitor,  \* what the monitor has not received
  \* the application
  appl, faults,
  \* history, of the connection there is
  outstanding, answered, waited

monitorVars == <<pc, attempts, gotit, wait_cntr, msg, long>>
linkVars    == <<conn, echoes, toMonitor>>
applVars    == <<appl, faults>>
historyVars == <<outstanding, answered, waited>>
vars == <<monitorVars, linkVars, applVars, historyVars>>

Goto(from, to) == pc = from /\ pc' = to

-----------------------------------------------------------------------------
(* The application.                                                        *)

(* The marker goes out first, the rest of the reply in a send of its own.  *)
ReplyMarker ==
  /\ appl = "up" /\ conn = "up" /\ echoes > 0
  /\ echoes' = echoes - 1
  /\ appl' = "replying"
  /\ toMonitor' = Append(toMonitor, "marker")
  /\ UNCHANGED <<monitorVars, conn, faults, historyVars>>

(* An echo has no data, and so has its reply; "long" has some to follow.   *)
ReplyHeader ==
  /\ appl = "replying"
  /\ \E cmd \in {"echo", "other", "long"} :
       /\ toMonitor' = Append(toMonitor, cmd)
       /\ appl' = IF cmd = "long" THEN "sending" ELSE "up"
  /\ UNCHANGED <<monitorVars, conn, echoes, faults, historyVars>>

ReplyData ==
  /\ appl = "sending"
  /\ appl' = "up"
  /\ toMonitor' = Append(toMonitor, "data")
  /\ UNCHANGED <<monitorVars, conn, echoes, faults, historyVars>>

(* A hung application answers nothing more, but still accepts connections. *)
Hang ==
  /\ appl \in {"up", "replying", "sending"} /\ faults < MaxFaults
  /\ appl' = "hung" /\ faults' = faults + 1
  /\ UNCHANGED <<monitorVars, linkVars, historyVars>>

Die ==
  /\ appl # "down" /\ faults < MaxFaults
  /\ appl' = "down" /\ faults' = faults + 1
  /\ conn' = IF conn = "up" THEN "eof" ELSE conn
  /\ echoes' = 0
  /\ UNCHANGED <<monitorVars, toMonitor, historyVars>>

Start ==
  /\ appl = "down" /\ faults < MaxFaults
  /\ appl' = "up" /\ faults' = faults + 1
  /\ UNCHANGED <<monitorVars, linkVars, historyVars>>

Application == ReplyMarker \/ ReplyHeader \/ ReplyData \/ Hang \/ Die \/ Start

-----------------------------------------------------------------------------
(* close_connection, after which connect_2_appl starts counting anew.      *)
CloseConnection ==
  /\ conn' = "none" /\ echoes' = 0 /\ toMonitor' = <<>>
  /\ appl' = (IF appl \in {"replying", "sending"} THEN "up" ELSE appl)
  /\ pc' = "connect" /\ attempts' = 0

(* connect_2_appl: createConnection succeeds.                              *)
Connected ==
  /\ pc \in {"connect", "connect_first"} /\ appl # "down"
  /\ conn' = "up"
  /\ pc' = IF pc = "connect_first" THEN "send_first" ELSE "select"
  /\ outstanding' = 0 /\ answered' = FALSE /\ waited' = 0
  /\ UNCHANGED <<attempts, gotit, wait_cntr, msg, long, echoes, toMonitor, applVars>>

(* Mutant: no limit to the attempts.                                       *)
NotConnectedForever ==
  /\ pc \in {"connect", "connect_first"} /\ appl = "down"
  /\ attempts' = attempts + 1
  /\ UNCHANGED <<pc, gotit, wait_cntr, msg, long, linkVars, applVars, historyVars>>

(* It fails: sleep and try again, until wait_for_reboot.                   *)
NotConnected ==
  /\ pc \in {"connect", "connect_first"} /\ appl = "down"
  /\ attempts' = attempts + 1
  /\ pc' = IF MAX_CONN_ATTEMPTS < attempts THEN "reboot" ELSE pc
  /\ UNCHANGED <<gotit, wait_cntr, msg, long, linkVars, applVars, historyVars>>

(* send_another_command.                                                   *)
Send ==
  /\ Goto("send_first", "select") \/ Goto("send", "select")
  /\ echoes' = IF conn = "up" THEN echoes + 1 ELSE echoes
  /\ outstanding' = outstanding + 1 /\ answered' = FALSE
  /\ UNCHANGED <<attempts, gotit, wait_cntr, msg, long, conn, toMonitor, applVars, waited>>

(* It fails, because the application went away.  "Don't care about errors  *)
(* this time": nothing is closed when it is the first echo.                *)
FirstSendFails ==
  /\ Goto("send_first", "select") /\ conn = "eof"
  /\ UNCHANGED <<attempts, gotit, wait_cntr, msg, long, linkVars, applVars, historyVars>>

SendFails ==
  /\ pc = "send" /\ conn = "eof"
  /\ CloseConnection
  /\ UNCHANGED <<gotit, wait_cntr, msg, long, faults, historyVars>>

(* Nobody handles SIGPIPE; SIGINT is catch_int, which exits.               *)
Killed ==
  /\ pc # "gone"
  /\ pc' = "gone"
  /\ UNCHANGED <<attempts, gotit, wait_cntr, msg, long, linkVars, applVars, historyVars>>

-----------------------------------------------------------------------------
(* select reached its timeout: nothing to receive for TIMEOUT_APPL.        *)
TimedOut == pc = "select" /\ conn = "up" /\ toMonitor = <<>>

(* Mutant: the reply is not forgotten when the next echo goes out.         *)
TimeoutAnsweredKeeps ==
  /\ TimedOut /\ gotit
  /\ wait_cntr' = 0
  /\ pc' = "send"
  /\ waited' = waited + 1
  /\ UNCHANGED <<attempts, gotit, msg, long, linkVars, applVars, outstanding, answered>>

(* "We got a reply recently".                                              *)
TimeoutAnswered ==
  /\ TimedOut /\ gotit
  /\ gotit' = FALSE /\ wait_cntr' = 0
  /\ pc' = "send"
  /\ waited' = waited + 1
  /\ UNCHANGED <<attempts, msg, long, linkVars, applVars, outstanding, answered>>

(* Mutant: the timeouts are not counted.                                   *)
TimeoutSilentForgets ==
  /\ TimedOut /\ ~gotit /\ wait_cntr <= SENT_ECHOS
  /\ waited' = waited + 1
  /\ UNCHANGED <<monitorVars, linkVars, applVars, outstanding, answered>>

(* "No reply from application yet".                                        *)
TimeoutSilent ==
  /\ TimedOut /\ ~gotit /\ wait_cntr <= SENT_ECHOS
  /\ wait_cntr' = wait_cntr + 1
  /\ waited' = waited + 1
  /\ UNCHANGED <<pc, attempts, gotit, msg, long, linkVars, applVars, outstanding,
                 answered>>

(* "close connection and try again".                                       *)
TimeoutGivesUp ==
  /\ TimedOut /\ ~gotit /\ wait_cntr > SENT_ECHOS
  /\ wait_cntr' = 0
  /\ CloseConnection
  /\ waited' = waited + 1
  /\ UNCHANGED <<gotit, msg, long, faults, outstanding, answered>>

-----------------------------------------------------------------------------
(* receive_cmd.  It blocks until there is something or the end of file.    *)

(* The loop around recv goes on, without another select, until there is a  *)
(* marker.                                                                 *)
BeforeMarker == pc \in {"select", "marker"}

ReceiveMarker ==
  /\ BeforeMarker /\ toMonitor # <<>>
  /\ pc' = IF Head(toMonitor) = "marker" THEN "header" ELSE "marker"
  /\ toMonitor' = Tail(toMonitor)
  /\ UNCHANGED <<attempts, gotit, wait_cntr, msg, long, conn, echoes, applVars,
                 historyVars>>

(* Mutant: the socket is kept, and connect_2_appl returns at once.         *)
PeerClosedKeeps ==
  /\ BeforeMarker /\ toMonitor = <<>> /\ conn = "eof"
  /\ msg' = "closed"
  /\ UNCHANGED <<pc, attempts, gotit, wait_cntr, long, linkVars, applVars, historyVars>>

(* PEER_CLOSED; gotit and wait_cntr stay for the next connection.          *)
PeerClosed ==
  /\ BeforeMarker /\ toMonitor = <<>> /\ conn = "eof"
  /\ msg' = "closed"
  /\ CloseConnection
  /\ UNCHANGED <<gotit, wait_cntr, long, faults, historyVars>>

(* Mutant: the reply is not noted.                                         *)
ReceivedNothing(cmd) ==
  /\ pc' = "select"
  /\ UNCHANGED gotit

(* recv_another_command: anything but an echo is a failure, but then       *)
(* connect_2_appl finds the connection there and returns.                  *)
Received(cmd) ==
  /\ pc' = "select"
  /\ gotit' = (gotit \/ cmd = "echo")

(* The header is complete; data is received before anybody looks at it.    *)
HeaderReceived(cmd, data) ==
  IF data THEN pc' = "data" /\ UNCHANGED gotit ELSE Received(cmd)

ReceiveHeader ==
  /\ pc = "header" /\ toMonitor # <<>>
  /\ msg' = Head(toMonitor) /\ long' = (Head(toMonitor) = "long")
  /\ HeaderReceived(msg', long')
  /\ toMonitor' = Tail(toMonitor)
  /\ outstanding' = IF msg' = "echo" THEN outstanding - 1 ELSE outstanding
  /\ answered' = (msg' = "echo")
  /\ waited' = 0
  /\ UNCHANGED <<attempts, wait_cntr, conn, echoes, applVars>>

(* The application died after the marker: recv fills nothing in, and the   *)
(* command received before is taken for this one, its length included.     *)
ReceiveStaleHeader ==
  /\ pc = "header" /\ toMonitor = <<>> /\ conn = "eof"
  /\ HeaderReceived(msg, long)
  /\ UNCHANGED <<attempts, wait_cntr, msg, long, linkVars, applVars, historyVars>>

(* When the application died before its data, recv returns 0 for ever and  *)
(* the loop does not end: there is no step from here.                      *)
ReceiveData ==
  /\ pc = "data" /\ toMonitor # <<>>
  /\ Received(msg)
  /\ toMonitor' = Tail(toMonitor)
  /\ UNCHANGED <<attempts, wait_cntr, msg, long, conn, echoes, applVars, historyVars>>

-----------------------------------------------------------------------------
Init ==
  /\ pc = "connect_first" /\ attempts = 0
  /\ gotit = FALSE /\ wait_cntr = 0 /\ msg = "none" /\ long = FALSE
  /\ conn = "none" /\ echoes = 0 /\ toMonitor = <<>>
  /\ appl \in {"up", "down"} /\ faults = 0
  /\ outstanding = 0 /\ answered = FALSE /\ waited = 0

Monitor ==
  \/ Connected \/ NotConnected \/ Send \/ FirstSendFails \/ SendFails
  \/ TimeoutAnswered \/ TimeoutSilent \/ TimeoutGivesUp
  \/ ReceiveMarker \/ PeerClosed \/ ReceiveHeader \/ ReceiveStaleHeader \/ ReceiveData

Next == Monitor \/ Killed \/ Application

Spec == Init /\ [][Next]_vars

(* Time passes for select, the monitor runs when it does not wait, and an  *)
(* application that is up answers.  Nothing makes it hang, die or start.   *)
Fairness == WF_vars(Monitor) /\ WF_vars(ReplyMarker) /\ WF_vars(ReplyHeader) /\ WF_vars(ReplyData)

FairSpec == Spec /\ Fairness

-----------------------------------------------------------------------------
Commands == {"none", "echo", "other", "long", "closed"}

MonitorTypeOK ==
  /\ pc \in {"connect_first", "connect", "send_first", "send", "select", "marker",
             "header", "data", "reboot", "gone"}
  /\ attempts \in 0 .. MAX_CONN_ATTEMPTS + 2
  /\ gotit \in BOOLEAN /\ wait_cntr \in 0 .. SENT_ECHOS + 1
  /\ msg \in Commands /\ long \in BOOLEAN
  /\ conn \in {"none", "up", "eof"}
  /\ echoes \in Nat /\ toMonitor \in Seq({"marker", "data"} \cup Commands)
  /\ appl \in {"up", "replying", "sending", "hung", "down"} /\ faults \in 0 .. MaxFaults
  /\ outstanding \in Int /\ answered \in BOOLEAN /\ waited \in Nat

(* The monitor asks again only when it was answered: on no connection are  *)
(* there two echoes without a reply, whatever gotit brought along from the *)
(* connection before.                                                      *)
OneEchoAtATime == outstanding <= 1

(* An application that answered the last echo is not given up for silence. *)
AnsweredIsKept ==
  [][TimeoutGivesUp => ~answered]_vars

(* Silence on a connection lasts at most SENT_ECHOS + 3 timeouts, the one  *)
(* that closes it included, even if the connection began with a reply      *)
(* credited to the last one: one timeout sends the echo, SENT_ECHOS + 1    *)
(* are counted, and one more finds the count above SENT_ECHOS.  The comment*)
(* at system_monitor.c:537 speaks of SENT_ECHOS: see GivesUpAfterSentEchos.*)
SilenceIsBounded == waited <= SENT_ECHOS + 3

(* "We waited TIMEOUT_APPL * SEND_ECHOS, close connection": no more        *)
(* timeouts have passed on a connection when main closes it for silence.   *)
GivesUpAfterSentEchos ==
  [][TimeoutGivesUp => waited' <= SENT_ECHOS]_vars

(* An application that stays down is noticed, whatever the monitor was     *)
(* doing, unless it waits for data that does not come.                     *)
DeadApplicationNoticed ==
  <>[](appl = "down") => <>(pc \in {"reboot", "gone"}) \/ <>[](pc = "data")

(* "No reply from application yet": a connection is closed for silence only*)
(* when there is an echo to answer on it.                                  *)
GivesUpOnlyUnanswered ==
  [][TimeoutGivesUp => outstanding > 0]_vars

(* "The main task is to keep the application and system alive": when the   *)
(* application answers nothing for good the monitor goes for the reboot.   *)
HungApplicationNoticed ==
  <>[](appl = "hung") => <>(pc \in {"reboot", "gone"})

(* The same when it dies: receive_cmd takes the end of the connection for  *)
(* no data yet.                                                            *)
DeathInDataNoticed ==
  <>[](appl = "down") => <>(pc \in {"reboot", "gone"})

=============================================================================

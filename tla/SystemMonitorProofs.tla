------------------------ MODULE SystemMonitorProofs ------------------------
(***************************************************************************)
(* Proofs about SystemMonitor, for any limits and any number of faults of  *)
(* the application: one echo at a time, no end to an application that      *)
(* answers, a bound on the silence it bears with, and well-formed state.   *)
(***************************************************************************)
EXTENDS SystemMonitor, SequenceTheorems, TLAPS

(* gotit and wait_cntr outlive a connection; what keeps them harmless is   *)
(* that a reply is credited at the first timeout of a connection or never, *)
(* and that each further timeout of a connection moves wait_cntr.          *)
CreditInv ==
  /\ wait_cntr \in 0 .. SENT_ECHOS + 1
  /\ waited \in 0 .. SENT_ECHOS + 3
  /\ conn # "none" => waited <= wait_cntr + 1
  /\ outstanding \in Int /\ outstanding <= 1
  /\ gotit \in BOOLEAN /\ answered \in BOOLEAN
  /\ gotit /\ conn = "up" => waited = 0 /\ outstanding <= 0
  /\ pc \in {"send_first", "send"} => outstanding <= 0
  /\ pc \in {"connect_first", "send_first", "send"} => ~gotit
  /\ answered /\ conn = "up" => gotit \/ pc \in {"send", "gone"}
  /\ pc = "data" /\ conn = "up" => msg = "long"

LEMMA CreditInitially == Init => CreditInv
<1> SUFFICES ASSUME Init PROVE CreditInv
  OBVIOUS
<1>1. gotit \in BOOLEAN /\ answered \in BOOLEAN
  BY Zenon DEF Init
<1> QED BY <1>1, MonitorAssumption DEF Init, CreditInv

LEMMA CreditStays == CreditInv /\ [Next]_vars => CreditInv'
<1> SUFFICES ASSUME CreditInv, [Next]_vars PROVE CreditInv'
  OBVIOUS
<1> USE MonitorAssumption DEF CreditInv, linkVars, applVars, historyVars, monitorVars
<1>1. CASE Application
  BY <1>1 DEF Application, ReplyMarker, ReplyHeader, ReplyData, Hang, Die, Start
<1>2. CASE Killed
  BY <1>2 DEF Killed
<1>3. CASE Connected
  <2>1. answered' \in BOOLEAN
    BY <1>3, Zenon DEF Connected
  <2> QED BY <1>3, <2>1 DEF Connected
<1>4. CASE NotConnected
  BY <1>4 DEF NotConnected
<1>5. CASE Send
  <2>1. answered' \in BOOLEAN
    BY <1>5, Zenon DEF Send
  <2> QED BY <1>5, <2>1 DEF Send, Goto
<1>6. CASE FirstSendFails \/ SendFails
  BY <1>6 DEF FirstSendFails, SendFails, CloseConnection, Goto
<1>7. CASE TimeoutAnswered
  <2>1. gotit' \in BOOLEAN
    BY <1>7, Zenon DEF TimeoutAnswered
  <2> QED BY <1>7, <2>1 DEF TimeoutAnswered, TimedOut
<1>8. CASE TimeoutSilent
  BY <1>8 DEF TimeoutSilent, TimedOut
<1>9. CASE TimeoutGivesUp
  <2>1. wait_cntr' = 0 /\ conn' = "none" /\ pc' = "connect"
    BY <1>9 DEF TimeoutGivesUp, CloseConnection
  <2>2. waited' = waited + 1 /\ UNCHANGED <<gotit, outstanding, answered>>
    BY <1>9 DEF TimeoutGivesUp, CloseConnection
  <2>3. conn = "up" /\ ~gotit /\ wait_cntr > SENT_ECHOS
    BY <1>9 DEF TimeoutGivesUp, TimedOut
  <2> QED BY <2>1, <2>2, <2>3
<1>10. CASE ReceiveMarker
  BY <1>10 DEF ReceiveMarker, BeforeMarker
<1>11. CASE PeerClosed
  BY <1>11 DEF PeerClosed, CloseConnection
<1>12. CASE ReceiveHeader
  <2>1. pc = "header" /\ waited' = 0 /\ UNCHANGED <<wait_cntr, conn>>
    BY <1>12 DEF ReceiveHeader
  <2>2. CASE msg' = "echo"
    <3>1. answered' = TRUE /\ gotit' = TRUE /\ pc' = "select"
      BY <1>12, <2>2 DEF ReceiveHeader, HeaderReceived, Received
    <3>2. outstanding' = outstanding - 1
      BY <1>12, <2>2 DEF ReceiveHeader
    <3> QED BY <2>1, <3>1, <3>2
  <2>3. CASE msg' # "echo"
    <3>1. answered' = FALSE /\ (pc' = "select" \/ (pc' = "data" /\ msg' = "long"))
      BY <1>12, <2>3 DEF ReceiveHeader, HeaderReceived, Received
    <3>2. gotit' \in BOOLEAN /\ (gotit' => gotit)
      BY <1>12, <2>3, Zenon DEF ReceiveHeader, HeaderReceived, Received
    <3>3. outstanding' = outstanding
      BY <1>12, <2>3 DEF ReceiveHeader
    <3>4. answered' \in BOOLEAN /\ ~answered'
      BY <3>1, Zenon
    <3> QED BY <2>1, <3>1, <3>2, <3>3, <3>4
  <2> QED BY <2>2, <2>3
<1>13. CASE ReceiveStaleHeader
  <2>1. gotit' \in BOOLEAN
    BY <1>13, Zenon DEF ReceiveStaleHeader, HeaderReceived, Received
  <2>2. /\ pc' \in {"select", "data"} /\ conn' = "eof"
        /\ conn = "eof" /\ UNCHANGED <<wait_cntr, historyVars>>
    BY <1>13 DEF ReceiveStaleHeader, HeaderReceived, Received
  <2>3. answered' \in BOOLEAN
    BY <2>2, Zenon
  <2> QED BY <2>1, <2>2, <2>3
<1>14. CASE ReceiveData
  <2>1. gotit' \in BOOLEAN /\ answered' \in BOOLEAN
    BY <1>14, Zenon DEF ReceiveData, Received
  <2> QED BY <1>14, <2>1 DEF ReceiveData, Received
<1>15. CASE UNCHANGED vars
  BY <1>15 DEF vars
<1> QED BY <1>1, <1>2, <1>3, <1>4, <1>5, <1>6, <1>7, <1>8, <1>9, <1>10, <1>11,
           <1>12, <1>13, <1>14, <1>15 DEF Next, Monitor

THEOREM CreditHolds == Spec => []CreditInv
  BY CreditInitially, CreditStays, PTL DEF Spec

(* send_another_command never has two echoes waiting on one connection.    *)
THEOREM AsksOnceAtATime == Spec => []OneEchoAtATime
<1>1. CreditInv => OneEchoAtATime
  BY DEF CreditInv, OneEchoAtATime
<1> QED BY <1>1, CreditHolds, PTL

(* main closes a silent connection at its timeout SENT_ECHOS + 3, or before*)
(* when a connection began with the silence of the last one.               *)
THEOREM SilenceEnds == Spec => []SilenceIsBounded
<1>1. CreditInv => SilenceIsBounded
  BY MonitorAssumption DEF CreditInv, SilenceIsBounded
<1> QED BY <1>1, CreditHolds, PTL

(* main does not close a connection whose last echo was answered.          *)
THEOREM AnsweredStays == Spec => AnsweredIsKept
<1>1. CreditInv /\ [Next]_vars => [TimeoutGivesUp => ~answered]_vars
  BY DEF CreditInv, TimeoutGivesUp, TimedOut
<1> QED BY <1>1, CreditHolds, PTL DEF Spec, AnsweredIsKept

-----------------------------------------------------------------------------
(* What is on its way to the monitor keeps the order of a reply: marker,   *)
(* header, and data behind a header that announces some.                   *)
Answers == {"echo", "other", "long"}
Parts   == {"marker", "data"} \cup Answers

Follows(a, b) ==
  \/ a = "marker" /\ b \in Answers
  \/ a = "long" /\ b = "data"
  \/ a \in {"echo", "other", "data"} /\ b = "marker"

InOrder(s) == \A i \in 1 .. Len(s) - 1 : Follows(s[i], s[i + 1])

(* The monitor expects the first part of it, ...                           *)
Expected(where, part) ==
  /\ where = "header" => part \in Answers
  /\ where = "data" => part = "data"
  /\ where \notin {"header", "data", "gone"} => part = "marker"

(* ... and the application is where it has sent the last part.             *)
SentLast(by, part) ==
  /\ by = "replying" => part = "marker"
  /\ by = "sending" => part = "long"
  /\ by = "up" => part \in {"echo", "other", "data"}

ReceivedLast(by, where) ==
  /\ by = "replying" => where \in {"header", "gone"}
  /\ by = "sending" => where \in {"data", "gone"}
  /\ by = "up" => where \notin {"header", "data"}

RepliesInv ==
  /\ toMonitor \in Seq(Parts) /\ InOrder(toMonitor)
  /\ toMonitor # << >> => Expected(pc, Head(toMonitor))
  /\ conn = "up" => IF toMonitor = << >> THEN ReceivedLast(appl, pc)
                                         ELSE SentLast(appl, toMonitor[Len(toMonitor)])
  /\ appl \in {"replying", "sending"} => conn = "up"
  /\ conn = "up" => appl # "down"
  /\ conn = "none" => toMonitor = << >>
  /\ pc \in {"connect", "connect_first"} =>
       conn = "none" /\ attempts \in 0 .. MAX_CONN_ATTEMPTS + 1

LEMMA OrderGrows ==
  ASSUME NEW s \in Seq(Parts), InOrder(s), NEW e \in Parts,
         s # << >> => Follows(s[Len(s)], e)
  PROVE  LET t == Append(s, e)
         IN  /\ t \in Seq(Parts) /\ t # << >> /\ InOrder(t) /\ t[Len(t)] = e
             /\ Head(t) = IF s = << >> THEN e ELSE Head(s)
<1> DEFINE t == Append(s, e)
<1>1. /\ Len(s) \in Nat /\ t \in Seq(Parts) /\ Len(t) = Len(s) + 1 /\ t # << >>
      /\ t[Len(s) + 1] = e /\ \A i \in 1 .. Len(s) : t[i] = s[i]
  BY LenProperties, AppendProperties
<1>2. s = << >> <=> Len(s) = 0
  BY EmptySeq
<1>3. Head(t) = t[1] /\ (s # << >> => Head(s) = s[1])
  BY <1>1, HeadTailProperties
<1> HIDE DEF t
<1>4. Head(t) = IF s = << >> THEN e ELSE Head(s)
  BY <1>1, <1>2, <1>3
<1>5. ASSUME NEW i \in 1 .. Len(t) - 1 PROVE Follows(t[i], t[i + 1])
  <2>1. CASE i = Len(s)
    BY <1>1, <1>2, <2>1
  <2>2. CASE i # Len(s)
    <3>1. i \in 1 .. Len(s) - 1 /\ i \in 1 .. Len(s) /\ i + 1 \in 1 .. Len(s)
      BY <1>1, <2>2
    <3> QED BY <1>1, <3>1 DEF InOrder
  <2> QED BY <2>1, <2>2
<1> QED BY <1>1, <1>4, <1>5 DEF InOrder, t

LEMMA OrderShrinks ==
  ASSUME NEW s \in Seq(Parts), InOrder(s), s # << >>
  PROVE  LET t == Tail(s)
         IN  /\ Head(s) \in Parts /\ t \in Seq(Parts) /\ InOrder(t)
             /\ t # << >> => Follows(Head(s), Head(t)) /\ t[Len(t)] = s[Len(s)]
             /\ t = << >> => s[Len(s)] = Head(s)
<1> DEFINE t == Tail(s)
<1>1. /\ Len(s) \in Nat \ {0} /\ t \in Seq(Parts) /\ Len(t) = Len(s) - 1
      /\ Head(s) = s[1] /\ Head(s) \in Parts /\ \A i \in 1 .. Len(t) : t[i] = s[i + 1]
  BY LenProperties, HeadTailProperties, EmptySeq
<1>2. t = << >> <=> Len(t) = 0
  BY <1>1, EmptySeq
<1>3. t # << >> => Head(t) = t[1]
  BY <1>1, HeadTailProperties
<1> HIDE DEF t
<1>4. t # << >> => Follows(Head(s), Head(t)) /\ t[Len(t)] = s[Len(s)]
  <2> SUFFICES ASSUME t # << >> PROVE Follows(Head(s), Head(t)) /\ t[Len(t)] = s[Len(s)]
    OBVIOUS
  <2>1. 1 \in 1 .. Len(s) - 1 /\ 1 \in 1 .. Len(t) /\ Len(t) \in 1 .. Len(t)
        /\ Len(t) + 1 = Len(s)
    BY <1>1, <1>2
  <2>2. Follows(s[1], s[1 + 1]) /\ t[1] = s[1 + 1] /\ t[Len(t)] = s[Len(t) + 1]
    BY <1>1, <2>1 DEF InOrder
  <2> QED BY <1>1, <1>3, <2>1, <2>2
<1>5. ASSUME NEW i \in 1 .. Len(t) - 1 PROVE Follows(t[i], t[i + 1])
  <2>1. /\ i + 1 \in 1 .. Len(s) - 1 /\ i \in 1 .. Len(t) /\ i + 1 \in 1 .. Len(t)
    BY <1>1
  <2>2. t[i] = s[i + 1] /\ t[i + 1] = s[(i + 1) + 1]
    BY <1>1, <2>1
  <2> QED BY <2>1, <2>2 DEF InOrder
<1> QED BY <1>1, <1>2, <1>4, <1>5 DEF InOrder, t

LEMMA RepliesInitially == Init => RepliesInv
BY MonitorAssumption DEF Init, RepliesInv, InOrder

(* Nothing is sent and nothing received.                                   *)
LEMMA RepliesKept ==
  ASSUME RepliesInv, UNCHANGED <<toMonitor, conn, appl>>, pc' # "connect", pc' # "connect_first",
         \/ pc' = "gone"
         \/ pc' = pc
         \/ {pc, pc'} \cap {"header", "data", "gone"} = {}
  PROVE  RepliesInv'
BY DEF RepliesInv, Expected, ReceivedLast

LEMMA RepliesStay == RepliesInv /\ [Next]_vars => RepliesInv'
<1> SUFFICES ASSUME RepliesInv, [Next]_vars PROVE RepliesInv'
  OBVIOUS
<1> USE MonitorAssumption DEF linkVars, applVars, historyVars, monitorVars
<1>0. toMonitor \in Seq(Parts) /\ InOrder(toMonitor)
  BY DEF RepliesInv
(* The application sends a part.                                           *)
<1>1. ASSUME NEW part \in Parts, toMonitor' = Append(toMonitor, part),
             conn = "up", UNCHANGED <<conn, pc>>, SentLast(appl', part), appl' # "down",
             toMonitor = << >> => Expected(pc, part),
             toMonitor # << >> => Follows(toMonitor[Len(toMonitor)], part)
      PROVE  RepliesInv'
  <2>1. /\ toMonitor' \in Seq(Parts) /\ toMonitor' # << >> /\ InOrder(toMonitor')
        /\ toMonitor'[Len(toMonitor')] = part
        /\ Head(toMonitor') = IF toMonitor = << >> THEN part ELSE Head(toMonitor)
    BY <1>0, <1>1, OrderGrows
  <2> QED BY <1>1, <2>1 DEF RepliesInv
<1>2. CASE ReplyMarker
  <2>1. /\ "marker" \in Parts /\ toMonitor' = Append(toMonitor, "marker") /\ conn = "up"
        /\ UNCHANGED <<conn, pc>> /\ appl = "up" /\ appl' = "replying"
    BY <1>2 DEF ReplyMarker, Parts
  <2>2. SentLast(appl', "marker") /\ (toMonitor = << >> => Expected(pc, "marker"))
    BY <2>1 DEF RepliesInv, ReceivedLast, SentLast, Expected
  <2>3. toMonitor # << >> => Follows(toMonitor[Len(toMonitor)], "marker")
    BY <2>1 DEF RepliesInv, SentLast, Follows
  <2> QED BY <1>1, <2>1, <2>2, <2>3
<1>3. CASE ReplyHeader
  <2>1. PICK cmd \in Answers : /\ toMonitor' = Append(toMonitor, cmd)
                               /\ appl' = IF cmd = "long" THEN "sending" ELSE "up"
    BY <1>3 DEF ReplyHeader, Answers
  <2>2. cmd \in Parts /\ UNCHANGED <<conn, pc>> /\ appl = "replying" /\ conn = "up"
    BY <1>3, <2>1 DEF ReplyHeader, Parts, RepliesInv
  <2>3. SentLast(appl', cmd) /\ (toMonitor = << >> => Expected(pc, cmd))
    BY <2>1, <2>2 DEF RepliesInv, ReceivedLast, SentLast, Expected, Answers
  <2>4. toMonitor # << >> => Follows(toMonitor[Len(toMonitor)], cmd)
    BY <2>1, <2>2 DEF RepliesInv, SentLast, Follows
  <2> QED BY <1>1, <2>1, <2>2, <2>3, <2>4
<1>4. CASE ReplyData
  <2>1. /\ "data" \in Parts /\ toMonitor' = Append(toMonitor, "data") /\ conn = "up"
        /\ UNCHANGED <<conn, pc>> /\ appl = "sending" /\ appl' = "up"
    BY <1>4 DEF ReplyData, Parts, RepliesInv
  <2>2. SentLast(appl', "data") /\ (toMonitor = << >> => Expected(pc, "data"))
    BY <2>1 DEF RepliesInv, ReceivedLast, SentLast, Expected
  <2>3. toMonitor # << >> => Follows(toMonitor[Len(toMonitor)], "data")
    BY <2>1 DEF RepliesInv, SentLast, Follows
  <2> QED BY <1>1, <2>1, <2>2, <2>3
<1>5. CASE Hang \/ Die \/ Start
  BY <1>5 DEF Hang, Die, Start, RepliesInv, SentLast, ReceivedLast
<1>6. ASSUME CloseConnection PROVE RepliesInv'
  <2>1. /\ toMonitor' = << >> /\ conn' = "none" /\ appl' \notin {"replying", "sending"}
        /\ attempts' \in 0 .. MAX_CONN_ATTEMPTS + 1
    BY <1>6 DEF CloseConnection
  <2>2. << >> \in Seq(Parts) /\ InOrder(<< >>)
    BY DEF InOrder
  <2> QED BY <2>1, <2>2 DEF RepliesInv
<1>7. CASE SendFails \/ TimeoutGivesUp \/ PeerClosed
  BY <1>6, <1>7 DEF SendFails, TimeoutGivesUp, PeerClosed
<1>8. CASE Connected
  <2>1. /\ pc \in {"connect", "connect_first"} /\ pc' \in {"send_first", "select"}
        /\ conn' = "up" /\ UNCHANGED <<toMonitor, appl>> /\ appl # "down"
    BY <1>8 DEF Connected
  <2>2. toMonitor = << >> /\ appl \notin {"replying", "sending"}
    BY <2>1 DEF RepliesInv
  <2> QED BY <2>1, <2>2 DEF RepliesInv, ReceivedLast
<1>9. CASE NotConnected
  <2>1. /\ pc \in {"connect", "connect_first"} /\ UNCHANGED <<toMonitor, appl, conn>>
        /\ attempts' = attempts + 1
        /\ pc' = IF MAX_CONN_ATTEMPTS < attempts THEN "reboot" ELSE pc
    BY <1>9 DEF NotConnected
  <2>2. toMonitor = << >> /\ conn = "none" /\ attempts \in 0 .. MAX_CONN_ATTEMPTS + 1
    BY <2>1 DEF RepliesInv
  <2> QED BY <2>1, <2>2 DEF RepliesInv
<1>10. CASE Send \/ FirstSendFails \/ TimeoutAnswered \/ TimeoutSilent \/ Killed
  <2>1. UNCHANGED <<toMonitor, conn, appl>>
    BY <1>10 DEF Send, FirstSendFails, TimeoutAnswered, TimeoutSilent, Killed
  <2>2. \/ pc \in {"send_first", "send"} /\ pc' = "select"
        \/ pc = "select" /\ pc' \in {"select", "send"}
        \/ pc' = "gone"
    BY <1>10 DEF Send, FirstSendFails, TimeoutAnswered, TimeoutSilent, TimedOut, Killed, Goto
  <2>3. pc' # "connect" /\ pc' # "connect_first"
    BY <2>2
  <2>4. pc' = "gone" \/ pc' = pc \/ {pc, pc'} \cap {"header", "data", "gone"} = {}
    BY <2>2
  <2> QED BY <2>1, <2>3, <2>4, RepliesKept
(* The monitor receives one.                                               *)
<1>11. ASSUME toMonitor # << >>, toMonitor' = Tail(toMonitor), UNCHANGED <<conn, appl>>,
              pc' \in {"select", "header", "data"},
              \A part \in Parts : Follows(Head(toMonitor), part) => Expected(pc', part),
              \A by : SentLast(by, Head(toMonitor)) => ReceivedLast(by, pc')
       PROVE  RepliesInv'
  <2>1. /\ Head(toMonitor) \in Parts /\ toMonitor' \in Seq(Parts) /\ InOrder(toMonitor')
        /\ toMonitor' # << >> => /\ Follows(Head(toMonitor), Head(toMonitor'))
                                 /\ toMonitor'[Len(toMonitor')] = toMonitor[Len(toMonitor)]
        /\ toMonitor' = << >> => toMonitor[Len(toMonitor)] = Head(toMonitor)
    BY <1>0, <1>11, OrderShrinks
  <2>2. toMonitor' # << >> => Head(toMonitor') \in Parts
    BY <2>1, HeadTailProperties
  <2>3. toMonitor' # << >> => Expected(pc', Head(toMonitor'))
    BY <1>11, <2>1, <2>2
  <2>4. conn = "up" => SentLast(appl, toMonitor[Len(toMonitor)])
    BY <1>11 DEF RepliesInv
  <2>5. conn' = "up" => IF toMonitor' = << >> THEN ReceivedLast(appl', pc')
                        ELSE SentLast(appl', toMonitor'[Len(toMonitor')])
    BY <1>11, <2>1, <2>4
  <2> QED BY <1>11, <2>1, <2>3, <2>5 DEF RepliesInv
<1>12. CASE ReceiveMarker
  <2>1. /\ toMonitor # << >> /\ toMonitor' = Tail(toMonitor)
        /\ UNCHANGED <<conn, appl>> /\ Head(toMonitor) = "marker" /\ pc' = "header"
    BY <1>12 DEF ReceiveMarker, BeforeMarker, RepliesInv, Expected
  <2> QED BY <1>11, <2>1 DEF Follows, Expected, SentLast, ReceivedLast
<1>13. CASE ReceiveHeader
  <2>1. /\ pc = "header" /\ toMonitor # << >> /\ toMonitor' = Tail(toMonitor)
        /\ UNCHANGED <<conn, appl>> /\ Head(toMonitor) \in Answers
        /\ pc' = IF Head(toMonitor) = "long" THEN "data" ELSE "select"
    BY <1>13 DEF ReceiveHeader, HeaderReceived, Received, RepliesInv, Expected
  <2> QED BY <1>11, <2>1 DEF Follows, Expected, SentLast, ReceivedLast, Answers
<1>14. CASE ReceiveStaleHeader
  <2>1. /\ toMonitor = << >> /\ conn = "eof" /\ UNCHANGED <<toMonitor, conn, appl>>
        /\ pc' \in {"select", "data"}
    BY <1>14 DEF ReceiveStaleHeader, HeaderReceived, Received
  <2> QED BY <2>1 DEF RepliesInv
<1>15. CASE ReceiveData
  <2>1. /\ pc = "data" /\ toMonitor # << >> /\ toMonitor' = Tail(toMonitor)
        /\ UNCHANGED <<conn, appl>> /\ Head(toMonitor) = "data" /\ pc' = "select"
    BY <1>15 DEF ReceiveData, Received, RepliesInv, Expected
  <2> QED BY <1>11, <2>1 DEF Follows, Expected, SentLast, ReceivedLast
<1>16. CASE UNCHANGED vars
  BY <1>16 DEF vars, RepliesInv
<1> QED BY <1>2, <1>3, <1>4, <1>5, <1>7, <1>8, <1>9, <1>10, <1>12, <1>13, <1>14, <1>15, <1>16
     DEF Next, Monitor, Application

-----------------------------------------------------------------------------
MonitorInv == CreditInv /\ RepliesInv /\ MonitorTypeOK

LEMMA MonitorInitially == Init => MonitorInv
<1> SUFFICES ASSUME Init PROVE MonitorTypeOK
  BY CreditInitially, RepliesInitially DEF MonitorInv
<1>1. gotit \in BOOLEAN /\ answered \in BOOLEAN /\ long \in BOOLEAN
  BY Zenon DEF Init
<1> QED BY <1>1, MonitorAssumption DEF Init, MonitorTypeOK, Commands

(* Where the monitor and the application are, and how often they tried.    *)
LEMMA PlacesKeepTypes ==
  ASSUME MonitorInv, [Next]_vars
  PROVE  /\ pc' \in {"connect_first", "connect", "send_first", "send", "select", "marker",
                     "header", "data", "reboot", "gone"}
         /\ attempts' \in 0 .. MAX_CONN_ATTEMPTS + 2
         /\ conn' \in {"none", "up", "eof"} /\ echoes' \in Nat
         /\ appl' \in {"up", "replying", "sending", "hung", "down"} /\ faults' \in 0 .. MaxFaults
<1> USE MonitorAssumption DEF linkVars, applVars, historyVars, monitorVars
<1>0. MonitorTypeOK /\ (pc \in {"connect", "connect_first"} => attempts \in 0 .. MAX_CONN_ATTEMPTS + 1)
  BY DEF MonitorInv, RepliesInv
<1>1. CASE Application
  <2>1. UNCHANGED <<pc, attempts>>
    BY <1>1 DEF Application, ReplyMarker, ReplyHeader, ReplyData, Hang, Die, Start
  <2>2. /\ conn' \in {"none", "up", "eof"}
        /\ appl' \in {"up", "replying", "sending", "hung", "down"}
    BY <1>0, <1>1 DEF Application, ReplyMarker, ReplyHeader, ReplyData, Hang, Die, Start, MonitorTypeOK
  <2>3. echoes' \in Nat /\ faults' \in 0 .. MaxFaults
    BY <1>0, <1>1 DEF Application, ReplyMarker, ReplyHeader, ReplyData, Hang, Die, Start, MonitorTypeOK
  <2> QED BY <1>0, <2>1, <2>2, <2>3 DEF MonitorTypeOK
<1>2. CASE Connected \/ NotConnected
  BY <1>0, <1>2 DEF Connected, NotConnected, MonitorTypeOK
<1>3. CASE Send \/ FirstSendFails \/ Killed \/ TimeoutAnswered \/ TimeoutSilent
  BY <1>0, <1>3 DEF Send, FirstSendFails, Killed, TimeoutAnswered, TimeoutSilent, TimedOut, Goto, MonitorTypeOK
<1>4. CASE SendFails \/ TimeoutGivesUp \/ PeerClosed
  BY <1>0, <1>4 DEF SendFails, TimeoutGivesUp, PeerClosed, CloseConnection, MonitorTypeOK
<1>5. CASE ReceiveMarker \/ ReceiveHeader \/ ReceiveStaleHeader \/ ReceiveData
  <2>1. pc' \in {"select", "marker", "header", "data"}
        /\ UNCHANGED <<attempts, conn, echoes, appl, faults>>
    BY <1>5 DEF ReceiveMarker, ReceiveHeader, ReceiveStaleHeader, ReceiveData, HeaderReceived, Received
  <2> QED BY <1>0, <2>1 DEF MonitorTypeOK
<1>6. CASE UNCHANGED vars
  BY <1>0, <1>6 DEF vars, MonitorTypeOK
<1> QED BY <1>1, <1>2, <1>3, <1>4, <1>5, <1>6 DEF Next, Monitor

(* The command received last, and whether data belongs to it: the header   *)
(* is the part of a reply that names a command.                            *)
LEMMA CommandKeepsType ==
  ASSUME MonitorInv, [Next]_vars
  PROVE  msg' \in Commands /\ long' \in BOOLEAN
<1> USE DEF linkVars, applVars, historyVars, monitorVars
<1>0. msg \in Commands /\ long \in BOOLEAN
  BY DEF MonitorInv, MonitorTypeOK
<1>1. CASE ReceiveHeader
  <2>1. Head(toMonitor) \in Answers /\ msg' = Head(toMonitor)
    BY <1>1 DEF ReceiveHeader, MonitorInv, RepliesInv, Expected
  <2>2. long' \in BOOLEAN
    BY <1>1, Zenon DEF ReceiveHeader
  <2> QED BY <2>1, <2>2 DEF Answers, Commands
<1>2. CASE PeerClosed
  BY <1>0, <1>2 DEF PeerClosed, Commands
<1>3. CASE Application
  BY <1>0, <1>3 DEF Application, ReplyMarker, ReplyHeader, ReplyData, Hang, Die, Start
<1>4. CASE Connected \/ NotConnected \/ Send \/ FirstSendFails \/ Killed \/ SendFails
  BY <1>0, <1>4 DEF Connected, NotConnected, Send, FirstSendFails, Killed, SendFails
<1>5. CASE TimeoutAnswered \/ TimeoutSilent \/ TimeoutGivesUp
  BY <1>0, <1>5 DEF TimeoutAnswered, TimeoutSilent, TimeoutGivesUp
<1>6. CASE ReceiveMarker \/ ReceiveStaleHeader \/ ReceiveData
  BY <1>0, <1>6 DEF ReceiveMarker, ReceiveStaleHeader, ReceiveData
<1>7. CASE UNCHANGED vars
  BY <1>0, <1>7 DEF vars
<1> QED BY <1>1, <1>2, <1>3, <1>4, <1>5, <1>6, <1>7 DEF Next, Monitor

LEMMA MonitorStays == MonitorInv /\ [Next]_vars => MonitorInv'
<1> SUFFICES ASSUME MonitorInv, [Next]_vars PROVE MonitorInv'
  OBVIOUS
<1>1. CreditInv' /\ RepliesInv'
  BY CreditStays, RepliesStay DEF MonitorInv
<1>2. Parts \subseteq {"marker", "data"} \cup Commands
  BY DEF Parts, Answers, Commands
<1>3. /\ gotit' \in BOOLEAN /\ answered' \in BOOLEAN
      /\ wait_cntr' \in 0 .. SENT_ECHOS + 1 /\ outstanding' \in Int
    BY <1>1 DEF CreditInv
<1>4. waited' \in Nat
  BY <1>1, MonitorAssumption DEF CreditInv
<1>5. toMonitor' \in Seq({"marker", "data"} \cup Commands)
  BY <1>1, <1>2, SeqMonotonic DEF RepliesInv
<1>6. MonitorTypeOK'
  BY <1>3, <1>4, <1>5, PlacesKeepTypes, CommandKeepsType, Zenon DEF MonitorTypeOK
<1> QED BY <1>1, <1>6 DEF MonitorInv

(* The variables of main and of its connection keep their types: counters  *)
(* stay within their limits, and a command is one the application sends.   *)
THEOREM MonitorTypesHold == Spec => []MonitorTypeOK
<1>1. MonitorInv => MonitorTypeOK
  BY DEF MonitorInv
<1> QED BY <1>1, MonitorInitially, MonitorStays, PTL DEF Spec

=============================================================================

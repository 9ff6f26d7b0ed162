----------------------------- MODULE LinkProofs -----------------------------
(***************************************************************************)
(* For every timeout, width of the counters and number of events and       *)
(* procedures: what Link says of the reports on their way to the host.     *)
(***************************************************************************)
EXTENDS Link, TLAPS

-----------------------------------------------------------------------------
(* Counters modulo CountMod.                                               *)

LEMMA ModSmall ==
  ASSUME NEW x \in -CountMod .. CountMod - 1
  PROVE  x % CountMod = IF x < 0 THEN x + CountMod ELSE x
BY CountModAssumption

LEMMA IncIsNext ==
  ASSUME NEW x \in 0 .. CountMod - 1
  PROVE  /\ Inc(x) \in 0 .. CountMod - 1
         /\ Inc(x) = IF x = CountMod - 1 THEN 0 ELSE x + 1
BY CountModAssumption DEF Inc

-----------------------------------------------------------------------------
(* The parts of the inductive invariant.                                   *)

\* Nothing is sent before the first msg_init.
Sessions ==
  /\ session = 0 <=> pc = "wait_for_transport"
  /\ session = 0 => banks = <<>> /\ last = NoReport

\* An endpoint that is switched off holds nothing.
OffIsEmpty == tx_ep = "off" => banks = <<>>

\* A bank that was found free stays free until the report is written, unless
\* a bus reset switches the endpoint off.
RoomIsKept == pc = "write" => tx_ep = "off" \/ Len(banks) < Banks

\* What usb_rawhid_send is called with is the message as the counters stand.
ReportIsMessage == pc \in SendSteps \union {"sent"} => report = Message

\* Only messages wait in the endpoint.
BanksHoldMessages == \A i \in 1 .. Len(banks) : banks[i] # NoReport

\* Whether the message with the number cnt is not in the endpoint, and not
\* yet counted among the errors.
Pending == pc \in SendSteps \/ (pc = "sent" /\ status # RAWHID_TX_SIZE)

\* The last report of the chain, against the counters.
Precedes(z) ==
  /\ z.session <= session
  /\ z.session = session =>
       (cnt - z.cnt - (IF Pending THEN 1 ELSE 0)) % CountMod
         = (error_cnt - z.error_cnt) % CountMod

ChainIsCounted ==
  /\ LossIsCounted
  /\ Chain # <<>> => Precedes(Chain[Len(Chain)])

LinkInv ==
  /\ LinkTypeOK
  /\ OnlyTxEndpoint /\ LossIsNoticed /\ RoomIsKept
  /\ Sessions /\ OffIsEmpty /\ ReportIsMessage /\ BanksHoldMessages
  /\ ChainIsCounted

-----------------------------------------------------------------------------
LEMMA EmptyFifo ==
  /\ Len(<<>>) <= Banks
  /\ {} \in SUBSET Flags
BY DEF Banks

LEMMA InitInv == Init => LinkInv
<1> SUFFICES ASSUME Init PROVE LinkInv OBVIOUS
<1> USE DEF Init, UsbInit
<1>1. NoReport \in Reports
  BY CountModAssumption, MaxSessionsAssumption DEF NoReport, Reports
<1>2. LinkTypeOK
  <2>1. UsbTypeOK
    <3>1. Len(banks) <= Banks BY EmptyFifo
    <3>2. udint \in SUBSET Flags /\ intbits \in SUBSET Flags BY EmptyFifo
    <3>3. ep0 \in BOOLEAN /\ setup \in BOOLEAN OBVIOUS
    <3>4. tx_timeout_count \in 0 .. TxTimeout BY TxTimeoutAssumption
    <3> QED BY <3>1, <3>2, <3>3, <3>4 DEF UsbTypeOK
  <2>2. Message = NoReport BY DEF Message, NoReport
  <2> QED BY <1>1, <2>1, <2>2, MaxBusEventsAssumption DEF LinkTypeOK
<1>3. OnlyTxEndpoint /\ LossIsNoticed /\ RoomIsKept
  BY DEF OnlyTxEndpoint, LossIsNoticed, RoomIsKept
<1>4. Sessions /\ OffIsEmpty BY DEF Sessions, OffIsEmpty
<1>5. ReportIsMessage BY DEF ReportIsMessage, SendSteps
<1>6. Chain = <<>> BY DEF Chain
<1>7. ChainIsCounted BY <1>6 DEF ChainIsCounted, LossIsCounted
<1>8. BanksHoldMessages BY DEF BanksHoldMessages
<1> QED BY <1>2, <1>3, <1>4, <1>5, <1>7, <1>8 DEF LinkInv

-----------------------------------------------------------------------------
(* Types.                                                                  *)

LEMMA MessageType ==
  /\ Message \in Reports <=>
       /\ session \in 0 .. MaxSessions + 1
       /\ cnt \in 0 .. CountMod - 1 /\ error_cnt \in 0 .. CountMod - 1
  /\ Message' \in Reports <=>
       /\ session' \in 0 .. MaxSessions + 1
       /\ cnt' \in 0 .. CountMod - 1 /\ error_cnt' \in 0 .. CountMod - 1
  /\ NoReport \in Reports
BY CountModAssumption, MaxSessionsAssumption DEF Message, Reports, NoReport

\* The registers and variables of usb_rawhid.c.
LEMMA UsbTypes ==
  ASSUME LinkTypeOK, [Next]_vars PROVE UsbTypeOK'
<1> USE DEF LinkTypeOK, UsbTypeOK, controller, requests, interrupts, counters,
            thread
<1>1. CASE UNCHANGED vars BY <1>1 DEF vars, usbVars
<1>2. CASE TransportReady BY <1>2 DEF TransportReady
<1>3. CASE MsgInit BY <1>3 DEF MsgInit, usbVars
<1>4. CASE MsgSend BY <1>4 DEF MsgSend
<1>5. CASE MsgSent BY <1>5 DEF MsgSent
<1>6. CASE RawhidSend
  <2> USE DEF Return, Continue, RAWHID_TX_SIZE, RAWHID_TX_ENDPOINT
  <2>1. CASE SendCheck BY <2>1 DEF SendCheck
  <2>2. CASE SendEnter BY <2>2, TxTimeoutAssumption DEF SendEnter
  <2>3. CASE SendWait BY <2>3 DEF SendWait
  <2>4. CASE SendTimeout BY <2>4 DEF SendTimeout
  <2>5. CASE SendConf BY <2>5 DEF SendConf
  <2>6. CASE SendRetry BY <2>6 DEF SendRetry
  <2>7. CASE SendWrite
    <3>1. Len(banks') <= Banks
      BY <2>7 DEF SendWrite, HasRoom, Banks
    <3> QED BY <2>7, <3>1 DEF SendWrite
  <2> QED BY <1>6, <2>1, <2>2, <2>3, <2>4, <2>5, <2>6, <2>7 DEF RawhidSend
<1>7. CASE GenRead BY <1>7 DEF GenRead
<1>8. CASE GenClear
  <2>1. udint' \in SUBSET Flags /\ intbits' \in SUBSET Flags
    BY <1>8, EmptyFifo DEF GenClear
  <2>2. tx_timeout_count' \in 0 .. TxTimeout
    BY <1>8, TxTimeoutAssumption DEF GenClear
  <2> QED BY <1>8, <2>1, <2>2 DEF GenClear
<1>9. CASE Com
  <2> USE DEF SetConfiguration, SetHalt, ClearHalt, OtherRequest
  <2>1. Len(banks') <= Banks BY <1>9, EmptyFifo DEF Com
  <2>2. /\ tx_ep' \in {"off", "on", "halted"}
        /\ UENUM' \in {0, RAWHID_TX_ENDPOINT}
        /\ usb_configuration' \in {0, 1}
    BY <1>9 DEF Com
  <2> QED BY <1>9, <2>1, <2>2 DEF Com
<1>10. CASE Poll
  <2>1. Len(Tail(banks)) <= Banks BY <1>10 DEF Poll, Banks
  <2> QED BY <1>10, <2>1 DEF Poll
<1>11. CASE StartOfFrame BY <1>11 DEF StartOfFrame, Flags
<1>12. CASE BusReset BY <1>12, EmptyFifo DEF BusReset, Flags
<1>13. CASE ControlRequest BY <1>13 DEF ControlRequest
<1>14. CASE WatchdogReset
  <2>1. Len(banks') <= Banks BY <1>14, EmptyFifo DEF WatchdogReset
  <2>2. udint' \in SUBSET Flags /\ intbits' \in SUBSET Flags
    BY <1>14, EmptyFifo DEF WatchdogReset
  <2>3. ep0' \in BOOLEAN /\ setup' \in BOOLEAN BY <1>14 DEF WatchdogReset
  <2>4. tx_timeout_count' \in 0 .. TxTimeout
    BY <1>14, TxTimeoutAssumption DEF WatchdogReset
  <2> QED BY <1>14, <2>1, <2>2, <2>3, <2>4 DEF WatchdogReset
<1> QED
  BY <1>1, <1>2, <1>3, <1>4, <1>5, <1>6, <1>7, <1>8, <1>9, <1>10, <1>11,
     <1>12, <1>13, <1>14
  DEF Next, MainThread, Send, GenEnter, GenLeave, Control, Receive, Sof, Bus

\* The interrupts and the host leave the main thread where it is.
Environment ==
  GenEnter \/ GenLeave \/ Control \/ Receive \/ Sof \/ Bus \/ UNCHANGED vars

LEMMA EnvironmentFrame == Environment => UNCHANGED <<thread, linkVars>>
<1> USE DEF thread, linkVars
<1>1. GenEnter \/ GenLeave => UNCHANGED <<thread, linkVars>>
  BY DEF GenEnter, GenLeave, GenRead, GenClear
<1>2. Control => UNCHANGED <<thread, linkVars>> BY DEF Control, Com
<1>3. Receive \/ Sof => UNCHANGED <<thread, linkVars>>
  BY DEF Receive, Sof, Poll, StartOfFrame
<1>4. Bus => UNCHANGED <<thread, linkVars>>
  BY DEF Bus, BusReset, ControlRequest
<1>5. UNCHANGED vars => UNCHANGED <<thread, linkVars>> BY DEF vars, usbVars
<1> QED BY <1>1, <1>2, <1>3, <1>4, <1>5 DEF Environment

\* Every step is one of these.
LEMMA Steps ==
  ASSUME [Next]_vars
  PROVE  \/ TransportReady \/ MsgInit \/ MsgSend \/ MsgSent \/ Send
         \/ Environment \/ WatchdogReset
BY DEF Next, MainThread, Environment

LEMMA SendFrame ==
  ASSUME Send
  PROVE  /\ UNCHANGED <<linkVars, report, busEvents>>
         /\ pc \in SendSteps /\ pc' \in SendSteps \union {"sent"}
<1> USE DEF Return, Continue, SendSteps
<1>1. SendCheck \/ SendEnter \/ SendWait =>
        pc \in SendSteps /\ pc' \in SendSteps \union {"sent"} /\ UNCHANGED report
  BY DEF SendCheck, SendEnter, SendWait
<1>2. SendTimeout \/ SendConf \/ SendRetry \/ SendWrite =>
        pc \in SendSteps /\ pc' \in SendSteps \union {"sent"} /\ UNCHANGED report
  BY DEF SendTimeout, SendConf, SendRetry, SendWrite
<1> QED BY <1>1, <1>2 DEF Send, RawhidSend

\* What becomes of the FIFO: the report is appended, the oldest one fetched,
\* all are dropped, or nothing happens.
LEMMA FifoSteps ==
  ASSUME [Next]_vars
  PROVE  \/ SendWrite /\ HasRoom /\ banks' = Append(banks, report)
         \/ Receive
         \/ banks' = <<>>
         \/ banks' = banks
<1>1. TransportReady \/ MsgInit \/ MsgSend \/ MsgSent => banks' = banks
  BY DEF TransportReady, MsgInit, MsgSend, MsgSent, controller, usbVars
<1>2. CASE Send
  BY <1>2 DEF Send, RawhidSend, SendCheck, SendEnter, SendWait, SendTimeout,
              SendConf, SendRetry, SendWrite, controller
<1>3. GenEnter \/ GenLeave => banks' = banks
  BY DEF GenEnter, GenLeave, GenRead, GenClear, controller
<1>4. Control => banks' = banks \/ banks' = <<>>
  BY DEF Control, Com, SetConfiguration, SetHalt, ClearHalt, OtherRequest
<1>5. Sof => banks' = banks BY DEF Sof, StartOfFrame, controller
<1>6. Bus => banks' = banks \/ banks' = <<>>
  BY DEF Bus, BusReset, ControlRequest, controller
<1>7. WatchdogReset => banks' = <<>> BY DEF WatchdogReset
<1>8. UNCHANGED vars => banks' = banks BY DEF vars, usbVars, controller
<1> QED
  BY <1>1, <1>2, <1>3, <1>4, <1>5, <1>6, <1>7, <1>8, Steps DEF Environment

LEMMA FifoType == LinkTypeOK /\ [Next]_vars => banks' \in Seq(Reports)
<1> SUFFICES ASSUME LinkTypeOK, [Next]_vars PROVE banks' \in Seq(Reports)
  OBVIOUS
<1>1. banks \in Seq(Reports) /\ report \in Reports BY DEF LinkTypeOK
<1>2. CASE banks' = Append(banks, report) BY <1>1, <1>2
<1>3. CASE Receive
  <2>1. banks # <<>> /\ banks' = Tail(banks) BY <1>3 DEF Receive, Poll
  <2> QED BY <1>1, <2>1
<1>4. CASE banks' = <<>> BY <1>4
<1>5. CASE banks' = banks BY <1>1, <1>5
<1> QED BY <1>2, <1>3, <1>4, <1>5, FifoSteps

LEMMA LinkTypes ==
  ASSUME LinkTypeOK, [Next]_vars PROVE LinkTypeOK'
<1> USE DEF LinkTypeOK
<1>1. UsbTypeOK' BY UsbTypes
<1>2. /\ session \in 0 .. MaxSessions + 1
      /\ cnt \in 0 .. CountMod - 1 /\ error_cnt \in 0 .. CountMod - 1
      /\ NoReport \in Reports
  BY MessageType
<1>3. /\ 0 \in 0 .. CountMod - 1 /\ 0 \in 0 .. MaxSessions + 1
      /\ 1 \in 0 .. MaxSessions + 1
  BY CountModAssumption, MaxSessionsAssumption
<1>4. CASE TransportReady \/ MsgInit \/ MsgSent
  <2>1. Message' \in Reports
    <3>1. CASE TransportReady
      BY <1>3, <3>1, MessageType DEF TransportReady
    <3>2. CASE MsgInit
      BY <1>2, <1>3, <3>2, MessageType, MaxSessionsAssumption DEF MsgInit
    <3>3. CASE MsgSent
      BY <1>2, <3>3, MessageType, IncIsNext DEF MsgSent
    <3> QED BY <1>4, <3>1, <3>2, <3>3
  <2> USE DEF TransportReady, MsgInit, MsgSent, usbVars
  <2>2. report' \in Reports /\ last' \in Reports BY <1>2, <1>4 DEF thread
  <2>3. pc' = "idle" \/ pc' = pc BY <1>4 DEF thread
  <2>4. busEvents' \in 0 .. MaxBusEvents BY <1>4
  <2> QED BY <1>1, <2>1, <2>2, <2>3, <2>4, FifoType
<1>5. CASE MsgSend
  <2>1. Message' \in Reports
    BY <1>2, <1>5, IncIsNext, MessageType DEF MsgSend
  <2>2. report' = Message' BY <1>5 DEF MsgSend, Message
  <2> QED BY <1>1, <1>5, <2>1, <2>2 DEF MsgSend, SendSteps, controller
<1>6. CASE Send
  <2>1. Message' = Message /\ report' = report
    BY <1>6, SendFrame DEF linkVars, Message
  <2>2. banks' \in Seq(Reports) BY FifoType
  <2> QED BY <1>1, <1>2, <1>6, <2>1, <2>2, SendFrame DEF Send
<1>7. CASE Environment
  <2>1. Message' = Message /\ report' = report /\ pc' = pc
    BY <1>7, EnvironmentFrame DEF linkVars, thread, Message
  <2>2. banks' \in Seq(Reports) /\ last' \in Reports
    <3>1. CASE Receive
      <4>1. banks # <<>> /\ banks' = Tail(banks) /\ last' = Head(banks)
        BY <3>1 DEF Receive, Poll
      <4> QED BY <4>1, FifoType
    <3>2. CASE ~Receive
      <4>1. banks' \in Seq(Reports) BY FifoType
      <4>2. last' = last \/ last' = NoReport
        BY <1>7, <3>2 DEF Environment, GenEnter, GenLeave, Control, Sof, Bus,
                          LastAfterDrop, vars
      <4> QED BY <1>2, <4>1, <4>2
    <3> QED BY <3>1, <3>2
  <2>3. busEvents' \in 0 .. MaxBusEvents
    BY <1>7, MaxBusEventsAssumption
    DEF Environment, GenEnter, GenLeave, Control, Receive, Sof, Bus,
        CountBusEvent, vars
  <2> QED BY <1>1, <2>1, <2>2, <2>3
<1>8. CASE WatchdogReset
  <2>1. Message' \in Reports BY <1>3, <1>8, MessageType DEF WatchdogReset
  <2>2. busEvents' \in 0 .. MaxBusEvents
    BY <1>8, MaxBusEventsAssumption DEF WatchdogReset, CountBusEvent
  <2> QED BY <1>1, <1>2, <1>8, <2>1, <2>2 DEF WatchdogReset
<1> QED BY <1>4, <1>5, <1>6, <1>7, <1>8, Steps

-----------------------------------------------------------------------------
(* usb_rawhid_send against the interrupts and the bus.                     *)

LEMMA Undisturbed ==
  ASSUME LinkInv, [Next]_vars
  PROVE  OnlyTxEndpoint' /\ LossIsNoticed' /\ RoomIsKept'
<1> USE DEF OnlyTxEndpoint, LossIsNoticed, RoomIsKept
<1>1. OnlyTxEndpoint /\ LossIsNoticed /\ RoomIsKept /\ LinkTypeOK
  BY DEF LinkInv
<1>2. UNCHANGED usbVars => OnlyTxEndpoint' /\ LossIsNoticed' /\ RoomIsKept'
  BY <1>1 DEF usbVars, controller, requests, interrupts, thread
<1>3. CASE TransportReady BY <1>3 DEF TransportReady
<1>4. CASE MsgInit BY <1>2, <1>4 DEF MsgInit
<1>5. CASE MsgSend BY <1>5 DEF MsgSend
<1>6. CASE MsgSent BY <1>6 DEF MsgSent
<1>7. CASE Send
  <2> USE DEF Return, Continue
  <2>0. isr = "none" BY <1>7 DEF Send, RawhidSend
  <2>1. CASE SendCheck BY <2>1 DEF SendCheck
  <2>2. CASE SendEnter BY <2>0, <2>2 DEF SendEnter, interrupts
  <2>3. CASE SendWait
    <3>1. ie = 0 /\ UENUM = RAWHID_TX_ENDPOINT BY <1>1, <2>3 DEF SendWait
    <3>2. pc' = "write" => HasRoom
      <4>1. \A rwal \in RWAL : rwal => HasRoom BY <3>1 DEF RWAL
      <4>2. pc' = "write" => \E rwal \in RWAL : rwal BY <2>3 DEF SendWait
      <4> QED BY <4>1, <4>2
    <3>3. pc' = "write" => ie' = 0 BY <2>3, <3>1 DEF SendWait
    <3> QED
      BY <2>0, <2>3, <3>1, <3>2, <3>3
      DEF SendWait, HasRoom, controller, requests
  <2>4. CASE SendTimeout BY <2>4 DEF SendTimeout
  <2>5. CASE SendConf BY <2>5 DEF SendConf
  <2>6. CASE SendRetry BY <2>0, <2>6 DEF SendRetry
  <2>7. CASE SendWrite BY <2>7 DEF SendWrite
  <2> QED
    BY <1>7, <2>1, <2>2, <2>3, <2>4, <2>5, <2>6, <2>7 DEF Send, RawhidSend
<1>8. CASE Environment
  <2>1. pc' = pc BY <1>8, EnvironmentFrame DEF thread
  <2>2. CASE pc \notin {"wait", "write"} BY <2>1, <2>2
  <2>3. CASE pc \in {"wait", "write"}
    <3>1. ie = 0 /\ isr = "none" BY <1>1, <2>3
    <3>2. ~GenEnter /\ ~GenLeave /\ ~Control
      BY <3>1 DEF GenEnter, GenLeave, Control, GenRead, GenClear, Com
    <3>3. CASE Receive
      <4>1. banks # <<>> /\ banks' = Tail(banks) BY <3>3 DEF Receive, Poll
      <4>2. Len(banks') <= Len(banks) BY <1>1, <4>1 DEF LinkTypeOK
      <4>3. /\ UNCHANGED <<tx_ep, udint, ie, isr, UENUM>>
            /\ tx_ep = "on"
        BY <3>3 DEF Receive, Poll, requests, interrupts
      <4>4. Len(banks) \in Int /\ Len(banks') \in Int
        BY <1>1, FifoType DEF LinkTypeOK
      <4>5. RoomIsKept' BY <1>1, <2>1, <4>2, <4>3, <4>4 DEF Banks
      <4> QED BY <1>1, <2>1, <4>3, <4>5
    <3>4. CASE Sof
      BY <1>1, <2>1, <3>4 DEF Sof, StartOfFrame, controller, interrupts
    <3>5. CASE Bus
      <4>1. CASE BusReset
        BY <1>1, <2>1, <4>1 DEF BusReset, interrupts
      <4>2. CASE ControlRequest
        BY <1>1, <2>1, <4>2 DEF ControlRequest, controller, interrupts
      <4> QED BY <3>5, <4>1, <4>2 DEF Bus
    <3> QED
      BY <1>2, <1>8, <3>2, <3>3, <3>4, <3>5 DEF Environment, vars
  <2> QED BY <2>2, <2>3
<1>9. CASE WatchdogReset BY <1>9 DEF WatchdogReset
<1> QED BY <1>3, <1>4, <1>5, <1>6, <1>7, <1>8, <1>9, Steps

-----------------------------------------------------------------------------
(* What the chain rests on.                                                *)

LEMMA OffStaysEmpty == LinkInv /\ [Next]_vars => OffIsEmpty'
<1> SUFFICES ASSUME LinkInv, [Next]_vars PROVE OffIsEmpty' OBVIOUS
<1> USE DEF OffIsEmpty
<1>1. OffIsEmpty BY DEF LinkInv
<1>2. tx_ep' = tx_ep \/ banks' = <<>> \/ tx_ep' # "off"
  <2>1. TransportReady \/ MsgInit \/ MsgSend \/ MsgSent => tx_ep' = tx_ep
    BY DEF TransportReady, MsgInit, MsgSend, MsgSent, controller, usbVars
  <2>2. Send => tx_ep' = tx_ep
    BY DEF Send, RawhidSend, SendCheck, SendEnter, SendWait, SendTimeout,
           SendConf, SendRetry, SendWrite, controller
  <2>3. GenEnter \/ GenLeave \/ Receive \/ Sof => tx_ep' = tx_ep
    BY DEF GenEnter, GenLeave, Receive, Sof, GenRead, GenClear, Poll,
           StartOfFrame, controller
  <2>4. Control => tx_ep' = tx_ep \/ tx_ep' # "off"
    BY DEF Control, Com, SetConfiguration, SetHalt, ClearHalt, OtherRequest
  <2>5. Bus => tx_ep' = tx_ep \/ banks' = <<>>
    BY DEF Bus, BusReset, ControlRequest, controller
  <2>6. WatchdogReset => banks' = <<>> BY DEF WatchdogReset
  <2>7. UNCHANGED vars => tx_ep' = tx_ep BY DEF vars, usbVars, controller
  <2> QED BY <2>1, <2>2, <2>3, <2>4, <2>5, <2>6, <2>7, Steps DEF Environment
<1>3. CASE tx_ep' = "off" /\ tx_ep = "off"
  <2>1. banks = <<>> BY <1>1, <1>3
  <2>2. ~HasRoom /\ ~Receive BY <1>3 DEF HasRoom, Receive, Poll
  <2> QED BY <2>1, <2>2, FifoSteps
<1> QED BY <1>2, <1>3

LEMMA ReportStays == LinkInv /\ [Next]_vars => ReportIsMessage'
<1> SUFFICES ASSUME LinkInv, [Next]_vars PROVE ReportIsMessage' OBVIOUS
<1> USE DEF ReportIsMessage, SendSteps
<1>1. ReportIsMessage BY DEF LinkInv
<1>2. CASE TransportReady \/ MsgSent \/ WatchdogReset
  BY <1>2 DEF TransportReady, MsgSent, WatchdogReset
<1>3. CASE MsgInit BY <1>3 DEF MsgInit, usbVars, thread
<1>4. CASE MsgSend BY <1>4 DEF MsgSend, Message
<1>5. CASE Send BY <1>1, <1>5, SendFrame DEF linkVars, Message
<1>6. CASE Environment
  BY <1>1, <1>6, EnvironmentFrame DEF thread, linkVars, Message
<1> QED BY <1>2, <1>3, <1>4, <1>5, <1>6, Steps

LEMMA SessionsStay ==
  ASSUME LinkInv, [Next]_vars
  PROVE  Sessions' /\ BanksHoldMessages'
<1> USE DEF Sessions
<1>1. /\ Sessions /\ BanksHoldMessages
      /\ session \in Nat /\ banks \in Seq(Reports)
  BY MessageType, MaxSessionsAssumption DEF LinkInv, LinkTypeOK
<1>2. Sessions'
  <2>1. CASE TransportReady BY <2>1 DEF TransportReady
  <2>2. CASE MsgInit BY <1>1, <2>2 DEF MsgInit, usbVars, thread
  <2>3. CASE MsgSend \/ MsgSent BY <1>1, <2>3 DEF MsgSend, MsgSent
  <2>4. CASE Send BY <1>1, <2>4, SendFrame DEF linkVars, SendSteps
  <2>5. CASE Environment
    <3>1. pc' = pc /\ session' = session
      BY <2>5, EnvironmentFrame DEF thread, linkVars
    <3>2. CASE session # 0 BY <1>1, <3>1, <3>2
    <3>3. CASE session = 0
      <4>1. banks = <<>> /\ last = NoReport /\ pc = "wait_for_transport"
        BY <1>1, <3>3
      <4>2. ~Receive /\ ~SendWrite BY <4>1 DEF Receive, Poll, SendWrite
      <4>3. banks' = <<>> BY <4>1, <4>2, FifoSteps
      <4>4. last' = NoReport
        BY <2>5, <4>1, <4>2
        DEF Environment, GenEnter, GenLeave, Control, Sof, Bus, LastAfterDrop,
            vars
      <4> QED BY <3>1, <4>1, <4>3, <4>4, <3>3
    <3> QED BY <3>2, <3>3
  <2>6. CASE WatchdogReset BY <2>6 DEF WatchdogReset
  <2> QED BY <2>1, <2>2, <2>3, <2>4, <2>5, <2>6, Steps
<1>3. BanksHoldMessages'
  <2> USE DEF BanksHoldMessages
  <2>1. CASE SendWrite /\ banks' = Append(banks, report)
    <3>1. report = Message /\ session # 0
      BY <1>1, <2>1 DEF SendWrite, LinkInv, ReportIsMessage, SendSteps
    <3>2. report # NoReport BY <3>1 DEF Message, NoReport
    <3> QED BY <1>1, <2>1, <3>2
  <2>2. CASE Receive
    <3>1. banks # <<>> /\ banks' = Tail(banks) BY <2>2 DEF Receive, Poll
    <3> QED BY <1>1, <3>1
  <2>3. CASE banks' = <<>> BY <2>3
  <2>4. CASE banks' = banks BY <1>1, <2>4
  <2> QED BY <2>1, <2>2, <2>3, <2>4, FifoSteps
<1> QED BY <1>2, <1>3

-----------------------------------------------------------------------------
(* The chain and the counters.                                             *)

LEMMA ChainType ==
  ASSUME LinkTypeOK
  PROVE  /\ Chain \in Seq(Reports)
         /\ last # NoReport => Chain = <<last>> \o banks
         /\ last = NoReport => Chain = banks
BY DEF LinkTypeOK, Chain

\* A step appends the message to the chain, takes its first report away,
\* breaks it off, or leaves it.
LEMMA ChainSteps ==
  ASSUME LinkInv, [Next]_vars
  PROVE  \/ Send /\ SendWrite /\ Chain' = Append(Chain, Message)
         \/ Environment /\ Chain # <<>> /\ Chain' = Tail(Chain)
         \/ Chain' = <<>>
         \/ ~SendWrite /\ Chain' = Chain
<1>1. /\ LinkTypeOK /\ LinkTypeOK'
      /\ banks \in Seq(Reports) /\ last \in Reports /\ report \in Reports
  BY LinkTypes DEF LinkInv, LinkTypeOK
<1>2. UNCHANGED <<banks, last>> => Chain' = Chain BY DEF Chain
<1>3. CASE TransportReady \/ MsgInit \/ MsgSend \/ MsgSent
  <2>1. UNCHANGED <<banks, last>>
    BY <1>3 DEF TransportReady, MsgInit, MsgSend, MsgSent, controller, usbVars
  <2>2. pc # "write"
    BY <1>3 DEF TransportReady, MsgInit, MsgSend, MsgSent
  <2> QED BY <1>2, <2>1, <2>2 DEF SendWrite
<1>4. CASE Send /\ SendWrite
  <2>1. pc = "write" BY <1>4 DEF SendWrite
  <2>2. CASE tx_ep = "off"
    <3>1. banks' = <<>> /\ last' = NoReport
      BY <1>4, <2>1, <2>2 DEF Send, SendWrite, HasRoom, LinkInv, OffIsEmpty
    <3> QED BY <3>1 DEF Chain
  <2>3. CASE tx_ep # "off"
    <3>1. HasRoom BY <2>1, <2>3 DEF LinkInv, RoomIsKept, HasRoom
    <3>2. banks' = Append(banks, report) /\ last' = last
      BY <1>4, <2>3, <3>1 DEF Send, SendWrite
    <3>3. report = Message BY <2>1 DEF LinkInv, ReportIsMessage, SendSteps
    <3>4. Chain' = Append(Chain, Message)
      <4>1. CASE last = NoReport BY <3>2, <3>3, <4>1 DEF Chain
      <4>2. CASE last # NoReport
        <5>1. Chain = <<last>> \o banks BY <4>2 DEF Chain
        <5>2. Chain' = <<last>> \o Append(banks, Message)
          BY <3>2, <3>3, <4>2 DEF Chain
        <5> QED BY <1>1, <3>3, <5>1, <5>2
      <4> QED BY <4>1, <4>2
    <3> QED BY <1>4, <3>4
  <2> QED BY <2>2, <2>3
<1>5. CASE Send /\ ~SendWrite
  <2>1. UNCHANGED <<banks, last>>
    BY <1>5 DEF Send, RawhidSend, SendCheck, SendEnter, SendWait, SendTimeout,
                SendConf, SendRetry, controller
  <2> QED BY <1>2, <1>5, <2>1
<1>6. CASE Environment /\ Receive
  <2>1. /\ banks # <<>> /\ banks' = Tail(banks) /\ last' = Head(banks)
        /\ pc' = pc
    BY <1>6, EnvironmentFrame DEF Receive, Poll, thread
  <2>2. Head(banks) # NoReport
    BY <1>1, <2>1 DEF LinkInv, BanksHoldMessages
  <2>3. Chain' = banks
    <3>1. Chain' = <<Head(banks)>> \o Tail(banks) BY <2>1, <2>2 DEF Chain
    <3> QED BY <1>1, <2>1, <3>1
  <2>4. CASE last = NoReport
    <3>1. Chain' = Chain BY <2>3, <2>4 DEF Chain
    <3>2. CASE SendWrite
      <4>1. Len(banks') = Len(banks) + 1 \/ banks' = banks
        BY <1>1, <3>2 DEF SendWrite
      <4> QED BY <1>1, <2>1, <4>1
    <3> QED BY <3>1, <3>2
  <2>5. CASE last # NoReport
    <3>1. Chain = <<last>> \o banks BY <2>5 DEF Chain
    <3>2. Chain # <<>> /\ Tail(Chain) = banks BY <1>1, <3>1
    <3> QED BY <1>6, <2>3, <3>2
  <2> QED BY <2>4, <2>5
<1>7. CASE Environment /\ ~Receive
  <2>1. pc' = pc BY <1>7, EnvironmentFrame DEF thread
  <2>2. ~SendWrite BY <2>1 DEF SendWrite, Return
  <2>3. \/ UNCHANGED <<banks, last>>
        \/ banks' = <<>> /\ last' = LastAfterDrop
    <3>1. GenEnter \/ GenLeave \/ Sof => UNCHANGED <<banks, last>>
      BY DEF GenEnter, GenLeave, Sof, GenRead, GenClear, StartOfFrame,
             controller
    <3>2. Control => \/ UNCHANGED <<banks, last>>
                     \/ banks' = <<>> /\ last' = LastAfterDrop
      BY DEF Control, Com, SetConfiguration, SetHalt, ClearHalt, OtherRequest
    <3>3. Bus => \/ UNCHANGED <<banks, last>>
                 \/ banks' = <<>> /\ last' = LastAfterDrop
      BY DEF Bus, BusReset, ControlRequest, controller
    <3>4. UNCHANGED vars => UNCHANGED <<banks, last>>
      BY DEF vars, usbVars, controller
    <3> QED BY <1>7, <3>1, <3>2, <3>3, <3>4 DEF Environment
  <2>4. CASE UNCHANGED <<banks, last>> BY <1>2, <2>2, <2>4
  <2>5. CASE banks' = <<>> /\ last' = LastAfterDrop
    <3>1. CASE banks = <<>>
      BY <1>2, <2>2, <2>5, <3>1 DEF LastAfterDrop
    <3>2. CASE banks # <<>>
      <4>1. last' = NoReport BY <2>5, <3>2 DEF LastAfterDrop
      <4> QED BY <2>5, <4>1 DEF Chain
    <3> QED BY <3>1, <3>2
  <2> QED BY <2>3, <2>4, <2>5
<1>8. CASE WatchdogReset
  <2>1. banks' = <<>> /\ last' = NoReport BY <1>8 DEF WatchdogReset
  <2> QED BY <2>1 DEF Chain
<1> QED BY <1>3, <1>4, <1>5, <1>6, <1>7, <1>8, Steps

\* The counters move by one, and the report that precedes them follows suit.
LEMMA PrecedesStays ==
  ASSUME LinkInv, [Next]_vars, ~SendWrite, ~WatchdogReset,
         NEW z \in Reports, Precedes(z),
         session # 0
  PROVE  Precedes(z)'
<1>1. /\ cnt \in 0 .. CountMod - 1 /\ error_cnt \in 0 .. CountMod - 1
      /\ session \in Nat /\ z.session \in Nat
      /\ z.cnt \in 0 .. CountMod - 1 /\ z.error_cnt \in 0 .. CountMod - 1
      /\ CountMod \in Nat /\ CountMod > 1
  BY MessageType, CountModAssumption, MaxSessionsAssumption
  DEF LinkInv, LinkTypeOK, Reports
<1>2. /\ z.session <= session
      /\ z.session = session =>
           (cnt - z.cnt - (IF Pending THEN 1 ELSE 0)) % CountMod
             = (error_cnt - z.error_cnt) % CountMod
  BY DEF Precedes
<1>3. CASE TransportReady BY <1>3 DEF TransportReady, LinkInv, Sessions
<1>4. CASE MsgInit
  <2>1. session' = session + 1 BY <1>4 DEF MsgInit
  <2> QED BY <1>1, <1>2, <2>1 DEF Precedes
<1>5. CASE MsgSend
  <2>1. /\ cnt' = Inc(cnt) /\ session' = session /\ error_cnt' = error_cnt
        /\ ~Pending /\ Pending'
    BY <1>5 DEF MsgSend, Pending, SendSteps
  <2>2. cnt' = IF cnt = CountMod - 1 THEN 0 ELSE cnt + 1
    BY <1>1, <2>1, IncIsNext
  <2>3. (cnt' - z.cnt - 1) % CountMod = (cnt - z.cnt) % CountMod
    <3>1. /\ cnt' - z.cnt - 1 \in -CountMod .. CountMod - 1
          /\ cnt - z.cnt \in -CountMod .. CountMod - 1
      BY <1>1, <2>2
    <3> QED BY <1>1, <2>2, <3>1, ModSmall
  <2>4. cnt - z.cnt - 0 = cnt - z.cnt BY <1>1
  <2> QED BY <1>2, <2>1, <2>3, <2>4 DEF Precedes
<1>6. CASE MsgSent
  <2>1. cnt' = cnt /\ session' = session /\ pc = "sent" /\ ~Pending'
    BY <1>6 DEF MsgSent, Pending, SendSteps
  <2>2. cnt - z.cnt - 0 = cnt - z.cnt BY <1>1
  <2>3. CASE status = RAWHID_TX_SIZE
    <3>1. ~Pending /\ error_cnt' = error_cnt
      BY <1>6, <2>1, <2>3 DEF MsgSent, Pending, SendSteps
    <3> QED BY <1>2, <2>1, <3>1 DEF Precedes
  <2>4. CASE status # RAWHID_TX_SIZE
    <3>1. Pending /\ error_cnt' = Inc(error_cnt)
      BY <1>6, <2>1, <2>4 DEF MsgSent, Pending
    <3>2. error_cnt' = IF error_cnt = CountMod - 1 THEN 0 ELSE error_cnt + 1
      BY <1>1, <3>1, IncIsNext
    <3>3. CASE z.session = session
      <4>1. (cnt - z.cnt - 1) % CountMod = (error_cnt - z.error_cnt) % CountMod
        BY <1>2, <3>1, <3>3
      <4>2. /\ cnt - z.cnt - 1 \in -CountMod .. CountMod - 1
            /\ cnt - z.cnt \in -CountMod .. CountMod - 1
            /\ error_cnt - z.error_cnt \in -CountMod .. CountMod - 1
            /\ error_cnt' - z.error_cnt \in -CountMod .. CountMod - 1
        BY <1>1, <3>2
      <4>3. (cnt - z.cnt) % CountMod = (error_cnt' - z.error_cnt) % CountMod
        <5> DEFINE a == cnt - z.cnt
                   b == error_cnt - z.error_cnt
                   c == error_cnt' - z.error_cnt
                   M == CountMod
        <5>1. /\ (a - 1) % M = IF a - 1 < 0 THEN a - 1 + M ELSE a - 1
              /\ a % M = IF a < 0 THEN a + M ELSE a
              /\ b % M = IF b < 0 THEN b + M ELSE b
              /\ c % M = IF c < 0 THEN c + M ELSE c
          BY <4>2, ModSmall
        <5>2. c = b + 1 \/ c = b + 1 - M BY <1>1, <3>2
        <5>3. {a, b, c} \subseteq -(M - 1) .. M - 1
          BY <1>1, <3>2
        <5>4. (a - 1) % M = b % M BY <4>1
        <5> HIDE DEF a, b, c
        <5>5. a % M = c % M BY <5>1, <5>2, <5>3, <5>4, <1>1
        <5> QED BY <5>5 DEF a, c
      <4> QED BY <1>2, <2>1, <2>2, <4>3 DEF Precedes
    <3>4. CASE z.session # session BY <1>2, <2>1, <3>4 DEF Precedes
    <3> QED BY <3>3, <3>4
  <2> QED BY <2>3, <2>4
<1>7. CASE Send
  <2>1. UNCHANGED <<cnt, error_cnt, session>>
    BY <1>7, SendFrame DEF linkVars
  <2>2. Pending BY <1>7, SendFrame DEF Pending
  <2>3. Pending'
    BY <1>7 DEF Send, RawhidSend, SendCheck, SendEnter, SendWait, SendTimeout,
                SendConf, SendRetry, Return, Continue, Pending, SendSteps,
                RAWHID_TX_SIZE
  <2> QED BY <1>2, <2>1, <2>2, <2>3 DEF Precedes
<1>8. CASE Environment
  <2>1. UNCHANGED <<cnt, error_cnt, session, pc, status>>
    BY <1>8, EnvironmentFrame DEF linkVars, thread
  <2> QED BY <1>2, <2>1 DEF Precedes, Pending
<1> QED BY <1>3, <1>4, <1>5, <1>6, <1>7, <1>8, Steps

\* The same of the last report of the chain, where that stays.
LEMMA SameLast ==
  ASSUME LinkInv, [Next]_vars, ~SendWrite, ~WatchdogReset, session # 0,
         Chain[Len(Chain)] \in Reports, Precedes(Chain[Len(Chain)]),
         Chain'[Len(Chain')] = Chain[Len(Chain)]
  PROVE  Precedes(Chain[Len(Chain)])'
<1>1. PICK z \in Reports : z = Chain[Len(Chain)] OBVIOUS
<1>2. Precedes(z) BY <1>1
<1>3. Precedes(z)' BY <1>2, PrecedesStays
<1> QED BY <1>1, <1>3 DEF Precedes

LEMMA ChainStays == LinkInv /\ [Next]_vars => ChainIsCounted'
<1> SUFFICES ASSUME LinkInv, [Next]_vars PROVE ChainIsCounted' OBVIOUS
<1>1. Chain \in Seq(Reports) /\ Message \in Reports
  BY ChainType DEF LinkInv, LinkTypeOK
<1>2. /\ \A i \in 1 .. Len(Chain) - 1 : Follows(Chain[i], Chain[i + 1])
      /\ Chain # <<>> => Precedes(Chain[Len(Chain)])
  BY DEF LinkInv, ChainIsCounted, LossIsCounted
<1>3. Chain # <<>> => session # 0
  BY DEF LinkInv, Sessions, Chain
<1>4. CASE Chain' = <<>>
  BY <1>4 DEF ChainIsCounted, LossIsCounted
<1>5. CASE Send /\ SendWrite /\ Chain' = Append(Chain, Message)
  <2>1. /\ Message' = Message /\ UNCHANGED <<cnt, error_cnt, session>>
        /\ Pending /\ ~Pending'
    <3>1. UNCHANGED linkVars BY <1>5, SendFrame
    <3> QED
      BY <1>5, <3>1
      DEF linkVars, Message, Pending, SendWrite, Return, SendSteps,
          RAWHID_TX_SIZE
  <2>2. Chain # <<>> => Follows(Chain[Len(Chain)], Message)
    BY <1>2, <2>1 DEF Precedes, Follows, Message
  <2>3. /\ Len(Chain') = Len(Chain) + 1
        /\ \A i \in 1 .. Len(Chain) : Chain'[i] = Chain[i]
        /\ Chain'[Len(Chain) + 1] = Message
        /\ Len(Chain) \in Nat
        /\ Len(Chain) # 0 => Chain # <<>>
    BY <1>1, <1>5
  <2>4. LossIsCounted'
    <3> SUFFICES ASSUME NEW i \in 1 .. Len(Chain)
                 PROVE  Follows(Chain'[i], Chain'[i + 1])
      BY <2>3 DEF LossIsCounted, Follows
    <3>1. CASE i = Len(Chain) BY <2>2, <2>3, <3>1
    <3>2. CASE i # Len(Chain)
      <4>1. i \in 1 .. Len(Chain) - 1 /\ i + 1 \in 1 .. Len(Chain)
        BY <2>3, <3>2
      <4> QED BY <1>2, <2>3, <4>1
    <3> QED BY <3>1, <3>2
  <2>5. Precedes(Message)'
    <3>1. /\ cnt \in Int /\ error_cnt \in Int /\ session \in Int
      BY <1>1, MessageType, CountModAssumption, MaxSessionsAssumption
    <3>2. cnt - cnt - 0 = error_cnt - error_cnt BY <3>1
    <3> QED BY <2>1, <3>1, <3>2 DEF Precedes, Message
  <2>6. Precedes(Chain[Len(Chain)])'
    BY <2>1, <2>3, <2>5
  <2> QED BY <2>4, <2>6 DEF ChainIsCounted
<1>6. CASE Environment /\ Chain # <<>> /\ Chain' = Tail(Chain)
  <2>1. (~SendWrite /\ ~WatchdogReset) \/ Chain' = <<>>
    <3>1. WatchdogReset => Chain' = <<>> BY DEF WatchdogReset, Chain
    <3>2. ~SendWrite BY <1>6, EnvironmentFrame DEF SendWrite, Return, thread
    <3> QED BY <3>1, <3>2
  <2>2. /\ Len(Chain') = Len(Chain) - 1
        /\ \A i \in 1 .. Len(Chain) - 1 : Chain'[i] = Chain[i + 1]
        /\ Len(Chain) \in Nat /\ Len(Chain) # 0
        /\ Chain' # <<>> => Len(Chain) > 1
        /\ Chain[Len(Chain)] \in Reports
    BY <1>1, <1>6
  <2>3. LossIsCounted'
    <3> SUFFICES ASSUME NEW i \in 1 .. Len(Chain) - 2
                 PROVE  Follows(Chain'[i], Chain'[i + 1])
      BY <2>2 DEF LossIsCounted, Follows
    <3>1. i \in 1 .. Len(Chain) - 1 /\ i + 1 \in 1 .. Len(Chain) - 1
      BY <2>2
    <3> QED BY <1>2, <2>2, <3>1
  <2>4. Chain' # <<>> => Precedes(Chain[Len(Chain)])'
    <3> SUFFICES ASSUME Chain' # <<>> PROVE Precedes(Chain[Len(Chain)])'
      OBVIOUS
    <3>1. Chain'[Len(Chain')] = Chain[Len(Chain)] BY <2>2
    <3> QED BY <1>2, <1>3, <1>6, <2>1, <2>2, <3>1, SameLast
  <2> QED BY <2>3, <2>4 DEF ChainIsCounted
<1>7. CASE ~SendWrite /\ Chain' = Chain
  <2>1. LossIsCounted' BY <1>2, <1>7 DEF LossIsCounted, Follows
  <2>2. Chain' # <<>> => Precedes(Chain[Len(Chain)])'
    <3> SUFFICES ASSUME Chain' # <<>> PROVE Precedes(Chain[Len(Chain)])'
      OBVIOUS
    <3>1. ~WatchdogReset BY <1>7 DEF WatchdogReset, Chain
    <3>2. Chain[Len(Chain)] \in Reports BY <1>1, <1>7
    <3> QED BY <1>2, <1>3, <1>7, <3>1, <3>2, SameLast
  <2> QED BY <2>1, <2>2 DEF ChainIsCounted
<1> QED BY <1>4, <1>5, <1>6, <1>7, ChainSteps

-----------------------------------------------------------------------------
LEMMA LinkStep == LinkInv /\ [Next]_vars => LinkInv'
<1> SUFFICES ASSUME LinkInv, [Next]_vars PROVE LinkInv' OBVIOUS
<1>1. LinkTypeOK' BY LinkTypes DEF LinkInv
<1>2. OnlyTxEndpoint' /\ LossIsNoticed' /\ RoomIsKept' BY Undisturbed
<1>3. Sessions' /\ BanksHoldMessages' BY SessionsStay
<1>4. OffIsEmpty' BY OffStaysEmpty
<1>5. ReportIsMessage' BY ReportStays
<1>6. ChainIsCounted' BY ChainStays
<1> QED BY <1>1, <1>2, <1>3, <1>4, <1>5, <1>6 DEF LinkInv

LEMMA LinkInvariant == Spec => []LinkInv
BY InitInv, LinkStep, PTL DEF Spec

\* The endpoint never holds more than its two banks, and the timeout and the
\* counters keep their ranges (usb_rawhid.c:742-747, msg.c).
THEOREM LinkTypeCorrect == Spec => []LinkTypeOK
<1>1. LinkInv => LinkTypeOK BY DEF LinkInv
<1> QED BY <1>1, LinkInvariant, PTL

\* No interrupt selects another endpoint while a report is written
\* (usb_rawhid.c:489-518).
THEOREM AlwaysOnlyTxEndpoint == Spec => []OnlyTxEndpoint
<1>1. LinkInv => OnlyTxEndpoint BY DEF LinkInv
<1> QED BY <1>1, LinkInvariant, PTL

\* A report is written to an endpoint that is switched off only while the bus
\* reset that did so waits to be handled (usb_rawhid.c:489-518, 733-741).
THEOREM AlwaysLossIsNoticed == Spec => []LossIsNoticed
<1>1. LinkInv => LossIsNoticed BY DEF LinkInv
<1> QED BY <1>1, LinkInvariant, PTL

\* The reports come in order and once, and the counters account for every one
\* that is missing in between, for every width of the counters (msg.c).
THEOREM AlwaysLossIsCounted == Spec => []LossIsCounted
<1>1. LinkInv => LossIsCounted BY DEF LinkInv, ChainIsCounted
<1> QED BY <1>1, LinkInvariant, PTL

-----------------------------------------------------------------------------
(* How long a send tries.                                                  *)

\* In the send the main thread leaves the timeout alone, and looks at it in
\* each round.
LEMMA TryingStep ==
  ASSUME MainThread, Trying, Trying'
  PROVE  /\ tx_timeout_count' = tx_timeout_count
         /\ tx_timeout_count = 0 => LastSteps[pc'] < LastSteps[pc]
<1> USE DEF Trying, LastSteps, Continue, Return, counters
<1>1. RawhidSend
  BY DEF MainThread, TransportReady, MsgInit, MsgSend, MsgSent, Send
<1>2. CASE SendCheck BY <1>2 DEF SendCheck
<1>3. CASE SendEnter BY <1>3 DEF SendEnter
<1>4. CASE SendWait BY <1>4 DEF SendWait
<1>5. CASE SendTimeout BY <1>5 DEF SendTimeout
<1>6. CASE SendConf BY <1>6 DEF SendConf
<1>7. CASE SendRetry BY <1>7 DEF SendRetry
<1>8. CASE SendWrite BY <1>8 DEF SendWrite
<1> QED BY <1>1, <1>2, <1>3, <1>4, <1>5, <1>6, <1>7, <1>8 DEF RawhidSend

\* The interrupts and the bus leave the send where it is; only a start of frame
\* changes its timeout, and counts it down.
LEMMA TryingElsewhere ==
  ASSUME LinkTypeOK, [Next]_vars, ~MainThread, Trying, Trying'
  PROVE  /\ pc' = pc
         /\ tx_timeout_count' <= tx_timeout_count
         /\ GenLeave /\ "SOFI" \in intbits /\ usb_configuration' # 0 =>
              tx_timeout_count' < tx_timeout_count \/ tx_timeout_count = 0
<1> USE DEF counters, thread
<1>1. tx_timeout_count \in Nat
  BY TxTimeoutAssumption DEF LinkTypeOK, UsbTypeOK
<1>2. CASE GenLeave
  <2>1. /\ pc' = pc
        /\ tx_timeout_count' =
             IF "SOFI" \in intbits /\ usb_configuration' # 0 /\ tx_timeout_count > 0
             THEN tx_timeout_count - 1 ELSE tx_timeout_count
    BY <1>2 DEF GenLeave, GenClear
  <2> QED BY <1>1, <2>1
<1>3. CASE GenEnter BY <1>1, <1>3 DEF GenEnter, GenRead, GenLeave, GenClear
<1>4. CASE Control BY <1>1, <1>4 DEF Control, Com, interrupts, GenLeave, GenClear
<1>5. CASE Receive BY <1>1, <1>5 DEF Receive, Poll, interrupts, GenLeave, GenClear
<1>6. CASE Sof BY <1>1, <1>6 DEF Sof, StartOfFrame, interrupts, GenLeave, GenClear
<1>7. CASE Bus
  BY <1>1, <1>7 DEF Bus, BusReset, ControlRequest, interrupts, GenLeave, GenClear
<1>8. CASE WatchdogReset
  BY <1>8 DEF WatchdogReset, Trying, LastSteps
<1>9. CASE UNCHANGED vars
  BY <1>1, <1>9 DEF vars, usbVars, interrupts, GenLeave, GenClear
<1> QED
  BY <1>2, <1>3, <1>4, <1>5, <1>6, <1>7, <1>8, <1>9 DEF Next

\* A send ends with its timeout, for every length of it.
THEOREM SendAlwaysWindsDown == Spec => SendWindsDown
<1>1. ASSUME LinkTypeOK, [Next]_vars PROVE WindingDown
  <2>1. SUFFICES ASSUME Trying, Trying' PROVE WindingDown BY DEF WindingDown
  <2>2. tx_timeout_count \in Nat
    BY <1>1, TxTimeoutAssumption DEF LinkTypeOK, UsbTypeOK
  <2>3. LastSteps[pc] \in Nat /\ LastSteps[pc'] \in Nat
    BY <2>1 DEF Trying, LastSteps
  <2>4. CASE MainThread
    <3>1. /\ tx_timeout_count' = tx_timeout_count
          /\ tx_timeout_count = 0 => LastSteps[pc'] < LastSteps[pc]
      BY <2>1, <2>4, TryingStep
    <3>2. GenLeave => UNCHANGED pc /\ isr = "gen"
      BY DEF GenLeave, GenClear, thread
    <3>3. isr = "none" BY <2>4 DEF MainThread
    <3> QED BY <2>2, <2>3, <3>1, <3>2, <3>3 DEF WindingDown
  <2>5. CASE ~MainThread
    <3>1. /\ pc' = pc
          /\ tx_timeout_count' <= tx_timeout_count
          /\ GenLeave /\ "SOFI" \in intbits /\ usb_configuration' # 0 =>
               tx_timeout_count' < tx_timeout_count \/ tx_timeout_count = 0
      BY <1>1, <2>1, <2>5, TryingElsewhere
    <3> QED BY <2>3, <2>5, <3>1 DEF WindingDown
  <2> QED BY <2>4, <2>5
<1>2. LinkInv => LinkTypeOK BY DEF LinkInv
<1> QED BY <1>1, <1>2, LinkInvariant, PTL DEF Spec, SendWindsDown
=============================================================================

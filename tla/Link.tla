-------------------------------- MODULE Link --------------------------------
(***************************************************************************)
(* The messages on their way to the host: msg.c, which numbers them and    *)
(* counts the failures, over transport.c and usb_rawhid.c, down to the     *)
(* program that reads them.                                                *)
(*                                                                         *)
(* The main thread is reduced to its calls: it waits for the transport,    *)
(* then sends messages (msg_send) and starts procedures (msg_init) in any  *)
(* order.  Of a message only the two counters are kept; session is         *)
(* history, it tells the messages of one procedure from those of the next. *)
(***************************************************************************)
EXTENDS Usb

CONSTANTS
  CountMod,      \* values of a uint16_t counter: 65536
  MaxBusEvents,  \* bound: bus resets, control requests and watchdog resets
                 \* while the main thread is past wait_for_transport
  MaxSessions    \* bound: procedures started after boot

ASSUME CountModAssumption == CountMod \in Nat /\ CountMod > 1
ASSUME MaxBusEventsAssumption == MaxBusEvents \in Nat
ASSUME MaxSessionsAssumption == MaxSessions \in Nat

VARIABLES
  cnt, error_cnt,  \* fields of tx_msg
  session,         \* history: which msg_init the counters go back to
  last,            \* history: the report the host got before those in banks
  busEvents        \* how much of the bound is used up

linkVars == <<cnt, error_cnt, session>>
vars == <<usbVars, linkVars, last, busEvents>>

-----------------------------------------------------------------------------
Message == [session |-> session, cnt |-> cnt, error_cnt |-> error_cnt]
NoReport == [session |-> 0, cnt |-> 0, error_cnt |-> 0]

Inc(counter) == (counter + 1) % CountMod

\* The history after the reports in the FIFO are dropped: what the host gets
\* next no longer follows what it got last.
LastAfterDrop == IF banks = <<>> THEN last ELSE NoReport

-----------------------------------------------------------------------------
\* main, up to transport_init.
Init ==
  /\ UsbInit(NoReport)
  /\ pc = "wait_for_transport"
  /\ cnt = 0 /\ error_cnt = 0 /\ session = 0
  /\ last = NoReport
  /\ busEvents = 0

\* wait_for_transport sees the device configured; msg_init(0, &tx_msg).
TransportReady ==
  /\ pc = "wait_for_transport"
  /\ usb_configuration # 0
  /\ pc' = "idle"
  /\ cnt' = 0 /\ error_cnt' = 0 /\ session' = 1
  /\ UNCHANGED <<controller, requests, interrupts, counters, report, status>>
  /\ UNCHANGED <<last, busEvents>>

\* msg_init(msg->error_cnt, msg), at the start of a procedure.
MsgInit ==
  /\ pc = "idle" /\ session <= MaxSessions
  /\ cnt' = 0
  /\ session' = session + 1
  /\ UNCHANGED <<usbVars, error_cnt, last, busEvents>>

\* msg_send, up to the call of usb_rawhid_send.
MsgSend ==
  /\ pc = "idle"
  /\ cnt' = Inc(cnt)
  /\ report' = [Message EXCEPT !.cnt = cnt']
  /\ pc' = "check"
  /\ UNCHANGED <<controller, requests, interrupts, counters, status>>
  /\ UNCHANGED <<error_cnt, session, last, busEvents>>

\* MUTANT of MsgSent: only a negative result is an error.
MsgSentNegative ==
  /\ pc = "sent"
  /\ pc' = "idle"
  /\ error_cnt' = IF status < 0 THEN Inc(error_cnt) ELSE error_cnt
  /\ report' = NoReport /\ status' = 0
  /\ UNCHANGED <<controller, requests, interrupts, counters>>
  /\ UNCHANGED <<cnt, session, last, busEvents>>

\* The rest of transport_send and msg_send; their locals are gone.
MsgSent ==
  /\ pc = "sent"
  /\ pc' = "idle"
  /\ error_cnt' = IF status = RAWHID_TX_SIZE THEN error_cnt ELSE Inc(error_cnt)
  /\ report' = NoReport /\ status' = 0
  /\ UNCHANGED <<controller, requests, interrupts, counters>>
  /\ UNCHANGED <<cnt, session, last, busEvents>>

\* A step of usb_rawhid_send.  A report written to an endpoint that a bus
\* reset has switched off is dropped.
Send ==
  /\ RawhidSend
  /\ last' = IF pc = "write" /\ tx_ep = "off" THEN NoReport ELSE last
  /\ UNCHANGED <<linkVars, busEvents>>

\* The interrupts; a control request may reset the FIFO.
GenEnter == GenRead /\ UNCHANGED <<linkVars, last, busEvents>>
GenLeave == GenClear /\ UNCHANGED <<linkVars, last, busEvents>>

Control ==
  /\ Com
  /\ last' = IF banks' = banks THEN last ELSE LastAfterDrop
  /\ UNCHANGED <<linkVars, busEvents>>

-----------------------------------------------------------------------------
(* The other end.                                                          *)

\* The debug reader gets a report.
Receive ==
  /\ Poll
  /\ last' = Head(banks)
  /\ UNCHANGED <<linkVars, busEvents>>

Sof == StartOfFrame /\ UNCHANGED <<linkVars, last, busEvents>>

\* Until the main thread leaves wait_for_transport, events are not bounded.
CountBusEvent ==
  IF session = 0
  THEN UNCHANGED busEvents
  ELSE busEvents < MaxBusEvents /\ busEvents' = busEvents + 1

Bus ==
  /\ CountBusEvent
  /\ \/ BusReset /\ last' = LastAfterDrop
     \/ ControlRequest /\ UNCHANGED last
  /\ UNCHANGED linkVars

\* The watchdog resets the processor with its USB controller.
WatchdogReset ==
  /\ CountBusEvent
  /\ ep0' = FALSE /\ tx_ep' = "off" /\ banks' = <<>> /\ UENUM' = 0
  /\ udint' = {} /\ setup' = FALSE
  /\ ie' = 1 /\ isr' = "none" /\ intbits' = {}
  /\ usb_configuration' = 0 /\ tx_timeout_count' = 0
  /\ pc' = "wait_for_transport" /\ report' = NoReport /\ status' = 0
  /\ cnt' = 0 /\ error_cnt' = 0 /\ session' = 0
  /\ last' = NoReport

-----------------------------------------------------------------------------
MainThread ==
  /\ isr = "none"
  /\ TransportReady \/ MsgInit \/ MsgSend \/ MsgSent \/ Send

Next == \/ MainThread \/ GenEnter \/ GenLeave \/ Control
        \/ Receive \/ Sof \/ Bus \/ WatchdogReset

Spec == Init /\ [][Next]_vars

\* The processor runs: an interrupt routine ends, a pending interrupt comes
\* once interrupts keep being enabled, and the main thread advances between
\* two interrupts (after reti an AVR executes one instruction of it first).
Running == /\ SF_vars(MainThread)
           /\ WF_vars(GenLeave) /\ SF_vars(GenEnter)
           /\ SF_vars(Control)

\* With a host that leaves the bus awake, and without.
FairSpec == Spec /\ Running /\ WF_vars(Sof)
SuspendedSpec == Spec /\ Running

-----------------------------------------------------------------------------
Reports == [session : 0 .. MaxSessions + 1,
            cnt : 0 .. CountMod - 1, error_cnt : 0 .. CountMod - 1]

LinkTypeOK ==
  /\ UsbTypeOK
  /\ pc \in SendSteps \union {"wait_for_transport", "idle", "sent"}
  /\ report \in Reports /\ Message \in Reports /\ last \in Reports
  /\ banks \in Seq(Reports)
  /\ busEvents \in 0 .. MaxBusEvents

\* What the host has received last, followed by what it will receive, unless
\* a report was dropped after last.
Chain == IF last = NoReport THEN banks ELSE <<last>> \o banks

\* b comes after a and, in the same procedure, counts as many new errors as
\* there are numbers missing in between.
Follows(a, b) ==
  /\ a.session <= b.session
  /\ a.session = b.session =>
       (b.cnt - a.cnt - 1) % CountMod = (b.error_cnt - a.error_cnt) % CountMod

\* Messages are received in order and once, and the counters account for
\* those in between, also when a counter wraps.  Only reports dropped by a
\* reset go uncounted, and those start a new chain (msg.c, transport.c,
\* usb_rawhid.c:489-518).
LossIsCounted ==
  \A i \in 1 .. Len(Chain) - 1 : Follows(Chain[i], Chain[i + 1])

\* usb_rawhid_send behind its first look at the endpoint, and how many steps
\* are left of it when the timeout has expired.
LastSteps == [conf |-> 4, retry |-> 3, wait |-> 2, timeout |-> 1, write |-> 1]
Trying == pc \in DOMAIN LastSteps

WindingDown ==
  Trying /\ Trying' =>
    /\ tx_timeout_count' <= tx_timeout_count
    /\ GenLeave /\ "SOFI" \in intbits /\ usb_configuration' # 0 =>
         tx_timeout_count' < tx_timeout_count \/ tx_timeout_count = 0
    /\ tx_timeout_count = 0 =>
         /\ LastSteps[pc'] <= LastSteps[pc]
         /\ MainThread => LastSteps[pc'] < LastSteps[pc]

\* While a send tries, no retry and no interrupt starts its timeout again, each
\* frame that is handled counts it down, and once it has expired the send has
\* four steps left at the most, whatever the host does: TxTimeout frames bound
\* it (usb_rawhid.c:492-507, 742-747).
SendWindsDown == [][WindingDown]_vars

\* msg_send comes back while the host keeps the bus awake, whether it fetches
\* the reports or not: the timeout counts down with every start of frame.
SendReturns == pc \in SendSteps ~> pc \notin SendSteps
=============================================================================

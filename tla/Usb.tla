-------------------------------- MODULE Usb --------------------------------
(***************************************************************************)
(* firmware/src/usb_rawhid.c: usb_rawhid_send in the main thread, the two  *)
(* USB interrupts that change the registers under it, and the host at the  *)
(* other end of the bus.                                                   *)
(*                                                                         *)
(* Of the endpoints only the transmit endpoint has a state of its own: its *)
(* two banks hold the reports that wait for the host.  A control request   *)
(* is one step of its interrupt; the descriptors it answers with are left  *)
(* out.  usb_rawhid_recv is never called, so the receive endpoint and      *)
(* rx_timeout_count are left out too.                                      *)
(*                                                                         *)
(* The operations are used by Link.                                        *)
(***************************************************************************)
EXTENDS Integers, Sequences

CONSTANT TxTimeout   \* TRANSPORT_TX_TIMEOUT: 100

ASSUME TxTimeoutAssumption == TxTimeout \in Nat /\ TxTimeout > 0

VARIABLES
  \* the USB controller
  ep0,        \* whether the control endpoint is configured
  tx_ep,      \* the transmit endpoint: "off", "on" or "halted"
  banks,      \* its FIFO: the reports written and not yet fetched
  UENUM,      \* the endpoint that UEINTX and UEDATX belong to; 0 stands for
              \* every one but the transmit endpoint
  udint,      \* the event flags of UDINT
  setup,      \* a control request waits in endpoint 0
  \* the processor
  ie,         \* bit I of SREG
  isr,        \* "gen" between the two accesses of USB_GEN_vect to UDINT
  intbits,    \* local of USB_GEN_vect
  usb_configuration,
  tx_timeout_count,
  pc,         \* next step of the main thread
  report,     \* argument of usb_rawhid_send
  status      \* its last result

controller == <<ep0, tx_ep, banks, UENUM>>
requests == <<udint, setup>>
interrupts == <<ie, isr, intbits>>
counters == <<usb_configuration, tx_timeout_count>>
thread == <<pc, report, status>>
usbVars == <<controller, requests, interrupts, counters, thread>>

-----------------------------------------------------------------------------
RAWHID_TX_SIZE == 64
RAWHID_TX_ENDPOINT == 1
Banks == 2            \* EP_DOUBLE_BUFFER

Flags == {"EORSTI", "SOFI"}

\* Steps of usb_rawhid_send.
SendSteps == {"check", "enter", "wait", "write", "timeout", "conf", "retry"}

\* usb_init, after a reset of the processor.  The host has not yet seen us.
UsbInit(report0) ==
  /\ ep0 = FALSE /\ tx_ep = "off" /\ banks = <<>> /\ UENUM = 0
  /\ udint = {} /\ setup = FALSE
  /\ ie = 1 /\ isr = "none" /\ intbits = {}
  /\ usb_configuration = 0 /\ tx_timeout_count = 0
  /\ report = report0 /\ status = 0

-----------------------------------------------------------------------------
(* usb_rawhid_send.  Each step is atomic for the interrupts, which may come *)
(* in between two of them while ie is 1.                                   *)

Return(result) == pc' = "sent" /\ status' = result /\ UNCHANGED report

Continue(step) == pc' = step /\ UNCHANGED <<report, status>>

SendCheck ==
  /\ pc = "check"
  /\ IF usb_configuration = 0 THEN Return(-1) ELSE Continue("enter")
  /\ UNCHANGED <<controller, requests, interrupts, counters>>

\* MUTANT of SendEnter: forgets to disable the interrupts.
SendEnterOpen ==
  /\ pc = "enter"
  /\ tx_timeout_count' = TxTimeout
  /\ UENUM' = RAWHID_TX_ENDPOINT
  /\ Continue("wait")
  /\ UNCHANGED <<ep0, tx_ep, banks, requests, interrupts, usb_configuration>>

SendEnter ==
  /\ pc = "enter"
  /\ ie' = 0
  /\ tx_timeout_count' = TxTimeout
  /\ UENUM' = RAWHID_TX_ENDPOINT
  /\ Continue("wait")
  /\ UNCHANGED <<ep0, tx_ep, banks, requests, isr, intbits, usb_configuration>>

\* What RWAL may show.  Of the transmit endpoint: a bank is free; the controller
\* need not set it while the endpoint is halted.  Of another endpoint it says
\* nothing about the banks.
HasRoom == tx_ep # "off" /\ Len(banks) < Banks
RWAL == IF UENUM # RAWHID_TX_ENDPOINT THEN {TRUE, FALSE}
        ELSE IF tx_ep = "halted" THEN {HasRoom, FALSE}
        ELSE {HasRoom}

\* MUTANT of SendWait: takes an enabled endpoint for a free bank.
SendWaitEnabled ==
  /\ pc = "wait"
  /\ IF tx_ep # "off"
     THEN Continue("write") /\ UNCHANGED ie
     ELSE Continue("timeout") /\ ie' = 1
  /\ UNCHANGED <<controller, requests, isr, intbits, counters>>

SendWait ==
  /\ pc = "wait"
  /\ \E rwal \in RWAL :
       IF rwal
       THEN Continue("write") /\ UNCHANGED ie
       ELSE Continue("timeout") /\ ie' = 1
  /\ UNCHANGED <<controller, requests, isr, intbits, counters>>

SendTimeout ==
  /\ pc = "timeout"
  /\ IF tx_timeout_count = 0 THEN Return(0) ELSE Continue("conf")
  /\ UNCHANGED <<controller, requests, interrupts, counters>>

SendConf ==
  /\ pc = "conf"
  /\ IF usb_configuration = 0 THEN Return(-1) ELSE Continue("retry")
  /\ UNCHANGED <<controller, requests, interrupts, counters>>

\* MUTANT of SendRetry: trusts the interrupts to leave UENUM alone.
SendRetryTrusting ==
  /\ pc = "retry"
  /\ ie' = 0
  /\ Continue("wait")
  /\ UNCHANGED <<controller, requests, isr, intbits, counters>>

\* MUTANT of SendRetry: starts the timeout again with every attempt.
SendRetryRearm ==
  /\ pc = "retry"
  /\ ie' = 0
  /\ tx_timeout_count' = TxTimeout
  /\ UENUM' = RAWHID_TX_ENDPOINT
  /\ Continue("wait")
  /\ UNCHANGED <<ep0, tx_ep, banks, requests, isr, intbits, usb_configuration>>

SendRetry ==
  /\ pc = "retry"
  /\ ie' = 0
  /\ UENUM' = RAWHID_TX_ENDPOINT
  /\ Continue("wait")
  /\ UNCHANGED <<ep0, tx_ep, banks, requests, isr, intbits, counters>>

\* The 64 writes to UEDATX and the release of the bank.  The controller
\* ignores them when a bus reset has switched the endpoint off.
SendWrite ==
  /\ pc = "write"
  /\ banks' = IF HasRoom THEN Append(banks, report) ELSE banks
  /\ ie' = 1
  /\ Return(RAWHID_TX_SIZE)
  /\ UNCHANGED <<ep0, tx_ep, UENUM, requests, isr, intbits, counters>>

\* The main thread stands still while an interrupt routine runs.
RawhidSend ==
  /\ isr = "none"
  /\ \/ SendCheck \/ SendEnter \/ SendWait \/ SendTimeout
     \/ SendConf \/ SendRetry \/ SendWrite

-----------------------------------------------------------------------------
(* The interrupts.  USB_GEN_vect comes before USB_COM_vect.                *)

\* USB_GEN_vect, as far as intbits = UDINT.
GenRead ==
  /\ ie = 1 /\ isr = "none" /\ udint # {}
  /\ isr' = "gen" /\ intbits' = udint
  /\ UNCHANGED <<controller, requests, ie, counters, thread>>

\* MUTANT of GenClear: counts down without looking whether it has expired.
GenClearUnguarded ==
  /\ isr = "gen"
  /\ isr' = "none" /\ intbits' = {}
  /\ udint' = {}
  /\ IF "EORSTI" \in intbits
     THEN ep0' = TRUE /\ UENUM' = 0 /\ usb_configuration' = 0
     ELSE UNCHANGED <<ep0, UENUM, usb_configuration>>
  /\ tx_timeout_count' =
       IF "SOFI" \in intbits /\ usb_configuration' # 0
       THEN tx_timeout_count - 1
       ELSE tx_timeout_count
  /\ UNCHANGED <<tx_ep, banks, setup, ie, thread>>

\* The rest of USB_GEN_vect.  UDINT = 0 clears every flag, whether it was set
\* when intbits was read or not.
GenClear ==
  /\ isr = "gen"
  /\ isr' = "none" /\ intbits' = {}
  /\ udint' = {}
  /\ IF "EORSTI" \in intbits
     THEN ep0' = TRUE /\ UENUM' = 0 /\ usb_configuration' = 0
     ELSE UNCHANGED <<ep0, UENUM, usb_configuration>>
  /\ tx_timeout_count' =
       IF "SOFI" \in intbits /\ usb_configuration' # 0 /\ tx_timeout_count > 0
       THEN tx_timeout_count - 1
       ELSE tx_timeout_count
  /\ UNCHANGED <<tx_ep, banks, setup, ie, thread>>

\* SET_CONFIGURATION: endpoints 1 and 2 are configured, 3 and 4 are off, all
\* FIFOs are reset and endpoint 4 stays selected.  Configuration 0 is no
\* exception.
SetConfiguration(value) ==
  /\ usb_configuration' = value
  /\ tx_ep' = "on" /\ banks' = <<>> /\ UENUM' = 0

\* SET_FEATURE and CLEAR_FEATURE of the halt of the transmit endpoint.
SetHalt == /\ tx_ep' = "halted" /\ UENUM' = RAWHID_TX_ENDPOINT
           /\ UNCHANGED <<banks, usb_configuration>>
ClearHalt == /\ tx_ep' = "on" /\ banks' = <<>> /\ UENUM' = RAWHID_TX_ENDPOINT
             /\ UNCHANGED usb_configuration

\* Every other request is answered, or stalled, on endpoint 0, or halts or
\* releases another endpoint.
OtherRequest == UENUM' = 0 /\ UNCHANGED <<tx_ep, banks, usb_configuration>>

\* USB_COM_vect: which request it is, is first looked at here.  The host
\* changes the halt of an endpoint only after it has configured it.
Com ==
  /\ ie = 1 /\ isr = "none" /\ udint = {} /\ setup
  /\ setup' = FALSE
  /\ \/ \E value \in {0, 1} : SetConfiguration(value)
     \/ tx_ep # "off" /\ (SetHalt \/ ClearHalt)
     \/ OtherRequest
  /\ UNCHANGED <<ep0, udint, interrupts, tx_timeout_count, thread>>

-----------------------------------------------------------------------------
(* The host and the bus (external).                                        *)

\* A bus reset: the controller itself switches the endpoints off, except the
\* control endpoint.
BusReset ==
  /\ tx_ep' = "off" /\ banks' = <<>>
  /\ udint' = udint \union {"EORSTI"}
  /\ setup' = FALSE
  /\ UNCHANGED <<ep0, UENUM, interrupts, counters, thread>>

\* The host sends a start of frame every millisecond, unless it has
\* suspended the bus.
StartOfFrame ==
  /\ udint' = udint \union {"SOFI"}
  /\ UNCHANGED <<controller, setup, interrupts, counters, thread>>

\* A request waits until the control endpoint takes it.
ControlRequest ==
  /\ ep0 /\ ~setup
  /\ setup' = TRUE
  /\ UNCHANGED <<controller, udint, interrupts, counters, thread>>

\* The host polls the transmit endpoint and gets the oldest report.
Poll ==
  /\ tx_ep = "on" /\ banks # <<>>
  /\ banks' = Tail(banks)
  /\ UNCHANGED <<ep0, tx_ep, UENUM, requests, interrupts, counters, thread>>

-----------------------------------------------------------------------------
UsbTypeOK ==
  /\ ep0 \in BOOLEAN
  /\ tx_ep \in {"off", "on", "halted"}
  /\ Len(banks) <= Banks
  /\ UENUM \in {0, RAWHID_TX_ENDPOINT}
  /\ udint \in SUBSET Flags /\ intbits \in SUBSET Flags
  /\ setup \in BOOLEAN
  /\ ie \in {0, 1} /\ isr \in {"none", "gen"}
  /\ usb_configuration \in {0, 1}
  /\ tx_timeout_count \in 0 .. TxTimeout
  /\ status \in {-1, 0, RAWHID_TX_SIZE}

\* Between the selection of the endpoint and the release of the bank no
\* interrupt can select another one: no byte of a report ever goes into the
\* FIFO of a control transfer.
OnlyTxEndpoint ==
  pc \in {"wait", "write"} => ie = 0 /\ isr = "none" /\ UENUM = RAWHID_TX_ENDPOINT

\* usb_rawhid_send may report a success for a report that a bus reset has
\* swallowed, but not twice: the reset is already flagged, so it is handled,
\* and the configuration cleared, before the next send looks.
LossIsNoticed ==
  pc = "write" /\ tx_ep = "off" => "EORSTI" \in udint

\* The comment on usb_configuration (usb_rawhid.c:229): zero when we are not
\* configured.  An endpoint that a bus reset has switched off goes with
\* configuration 0, or with a reset that USB_GEN_vect has yet to handle.
ZeroWhenNotConfigured ==
  tx_ep = "off" =>
    usb_configuration = 0 \/ "EORSTI" \in udint \/ "EORSTI" \in intbits
=============================================================================

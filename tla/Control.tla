------------------------------ MODULE Control ------------------------------
(***************************************************************************)
(* firmware/src/usb_rawhid.c: the data and status stages of the control    *)
(* requests that USB_COM_vect answers inside one interrupt, against a host *)
(* that goes on with its transfer or ends it early.  What the requests do  *)
(* to the other endpoints is in Usb.                                       *)
(*                                                                         *)
(* A packet is a part of the data: where it begins and how long it is.     *)
(* The handler looks at UEINTX and acts on it in one step, which is short  *)
(* against a transaction on the bus.                                       *)
(***************************************************************************)
EXTENDS Integers

CONSTANTS
  ENDPOINT0_SIZE,   \* 32
  Descriptors,      \* lengths of the descriptors in descriptor_list
  WLengths          \* the lengths a host asks for

ASSUME ControlAssumption ==
  /\ ENDPOINT0_SIZE \in Nat \ {0}
  /\ Descriptors \subseteq 0..255
  /\ WLengths \subseteq Nat

VARIABLES
  \* endpoint 0
  RXSTPI, RXOUTI, TXINI,  \* bits of UEINTX
  fifo,                   \* packets written and not yet fetched: one at most
  STALLRQ,
  UDADDR,
  \* the handler
  hpc,
  request,                \* what was read from the SETUP packet
  len, desc_addr,         \* bytes left, and where they begin
  \* the host
  stage,                  \* of its transfer
  address,                \* where it takes the device to be
  setup,                  \* the request of its transfer
  got                     \* bytes received, or sent, so far; -1 when garbled

ueintx == <<RXSTPI, RXOUTI, TXINI>>
device == <<STALLRQ, UDADDR>>
data == <<len, desc_addr>>
host == <<stage, address, setup, got>>
controlVars == <<ueintx, fifo, device, hpc, request, data, host>>

-----------------------------------------------------------------------------
RAWHID_TX_SIZE == 64
RAWHID_RX_SIZE == 64
Addresses == {0, 1, 2}

\* size is the length of the descriptor, or of the answer.  The HID driver of
\* a host asks for reports of the length that the report descriptor states, 64,
\* and this is assumed here: the handler does not look at the wLength of a report
\* (usb_rawhid.c:906, 925).  After a HID_SET_REPORT of 32 bytes or fewer it would
\* wait for a second packet that no host sends (928), and a HID_GET_REPORT of
\* less than 64 would be given more than it asked for.
Requests ==
  [kind : {"GET_DESCRIPTOR"}, wLength : WLengths, size : Descriptors, wValue : {0}] \union
  [kind : {"SET_ADDRESS"}, wLength : {0}, size : {0}, wValue : Addresses] \union
  [kind : {"SET_CONFIGURATION", "SET_FEATURE", "CLEAR_FEATURE"},
   wLength : {0}, size : {0}, wValue : {0}] \union
  [kind : {"GET_CONFIGURATION"}, wLength : {1}, size : {1}, wValue : {0}] \union
  [kind : {"GET_STATUS"}, wLength : {2}, size : {2}, wValue : {0}] \union
  [kind : {"HID_GET_REPORT"}, wLength : {RAWHID_TX_SIZE}, size : {RAWHID_TX_SIZE}, wValue : {0}] \union
  [kind : {"HID_SET_REPORT"}, wLength : {RAWHID_RX_SIZE}, size : {RAWHID_RX_SIZE}, wValue : {0}] \union
  [kind : {"unknown"}, wLength : {0}, size : {0}, wValue : {0}]

Smaller(a, b) == IF a < b THEN a ELSE b

\* A host has an answer to its request, or all that it asked for.
Wanted(r) == Smaller(r.wLength, r.size)

ControlInit ==
  /\ RXSTPI = FALSE /\ RXOUTI = FALSE /\ TXINI = TRUE
  /\ fifo = {} /\ STALLRQ = FALSE /\ UDADDR = 0
  /\ hpc = "idle" /\ len = 0 /\ desc_addr = 0
  /\ request \in {r \in Requests : r.kind = "unknown"}
  /\ stage = "idle" /\ address = 0 /\ setup = request /\ got = 0

-----------------------------------------------------------------------------
(* USB_COM_vect                                                            *)

\* usb_send_in, after size bytes were written to UEDATX.
SendIn(from, size) ==
  /\ fifo' = {[from |-> from, size |-> size]}
  /\ TXINI' = FALSE

\* UEINTX = ~(RXSTPI | RXOUTI | TXINI).  The bank of the SETUP packet is free
\* then, so that the controller sets TXINI.
AckSetup == RXSTPI' = FALSE /\ RXOUTI' = FALSE /\ TXINI' = TRUE

\* MUTANT of Length: forgets the length of the descriptor.
LengthAsked(r) == IF r.wLength < 256 THEN r.wLength ELSE 255

Length(r) ==
  IF r.kind = "GET_DESCRIPTOR"
  THEN Smaller(IF r.wLength < 256 THEN r.wLength ELSE 255, r.size)
  ELSE r.size

\* The SETUP packet is read, acknowledged and told apart.
Setup ==
  /\ hpc = "idle" /\ RXSTPI
  /\ request' = setup
  /\ AckSetup
  /\ len' = Length(setup) /\ desc_addr' = 0
  /\ hpc' = CASE setup.kind \in {"GET_DESCRIPTOR", "HID_GET_REPORT"} -> "data"
             [] setup.kind = "SET_ADDRESS" -> "send status"
             [] setup.kind \in {"SET_CONFIGURATION", "SET_FEATURE", "CLEAR_FEATURE"} -> "send status"
             [] setup.kind \in {"GET_CONFIGURATION", "GET_STATUS"} -> "answer"
             [] setup.kind = "HID_SET_REPORT" -> "receive"
             [] OTHER -> "stall"
  /\ UNCHANGED <<fifo, device, host>>

HandlerGoto(step) ==
  /\ hpc' = step
  /\ UNCHANGED <<RXSTPI, request, host>>

PacketSize(left) == Smaller(left, ENDPOINT0_SIZE)

\* MUTANT of More: does not end a transfer of full packets with an empty one.
MoreBytes(left, n) == left # 0

\* while (len || n == ENDPOINT0_SIZE)
More(left, n) == left # 0 \/ n = ENDPOINT0_SIZE

\* A pass of the loop that sends the data.
Data ==
  /\ hpc = "data" /\ (TXINI \/ RXOUTI)
  /\ IF RXOUTI
     THEN HandlerGoto("idle") /\ UNCHANGED <<TXINI, fifo, data>>
     ELSE LET n == PacketSize(len) IN
          /\ SendIn(desc_addr, n)
          /\ desc_addr' = desc_addr + n /\ len' = len - n
          /\ HandlerGoto(IF More(len - n, n) THEN "data" ELSE "idle")
  /\ UNCHANGED <<RXOUTI, device>>

\* usb_send_in without waiting: the status stage of a request without data.
SendStatus ==
  /\ hpc = "send status"
  /\ SendIn(0, 0)
  /\ HandlerGoto(IF request.kind = "SET_ADDRESS" THEN "address" ELSE "idle")
  /\ UNCHANGED <<RXOUTI, device, data>>

\* MUTANT of SetAddress: does not wait for the host to fetch the status.
SetAddressAtOnce ==
  /\ hpc = "address"
  /\ UDADDR' = request.wValue
  /\ HandlerGoto("idle")
  /\ UNCHANGED <<RXOUTI, TXINI, fifo, STALLRQ, data>>

SetAddress ==
  /\ hpc = "address" /\ TXINI
  /\ UDADDR' = request.wValue
  /\ HandlerGoto("idle")
  /\ UNCHANGED <<RXOUTI, TXINI, fifo, STALLRQ, data>>

\* GET_CONFIGURATION and GET_STATUS
Answer ==
  /\ hpc = "answer" /\ TXINI
  /\ SendIn(0, len)
  /\ HandlerGoto("idle")
  /\ UNCHANGED <<RXOUTI, device, data>>

\* The bytes of HID_SET_REPORT are received and ignored.
Receive ==
  /\ hpc = "receive" /\ RXOUTI
  /\ RXOUTI' = FALSE
  /\ len' = len - PacketSize(len)
  /\ HandlerGoto(IF len' # 0 THEN "receive" ELSE "received")
  /\ UNCHANGED <<TXINI, fifo, device, desc_addr>>

Received ==
  /\ hpc = "received" /\ TXINI
  /\ SendIn(0, 0)
  /\ HandlerGoto("idle")
  /\ UNCHANGED <<RXOUTI, device, data>>

Stall ==
  /\ hpc = "stall"
  /\ STALLRQ' = TRUE
  /\ HandlerGoto("idle")
  /\ UNCHANGED <<RXOUTI, TXINI, fifo, UDADDR, data>>

Handler ==
  \/ Setup \/ Data \/ SendStatus \/ SetAddress \/ Answer
  \/ Receive \/ Received \/ Stall

-----------------------------------------------------------------------------
(* The host (external).  It reaches the device at the address that it has  *)
(* given it, and before the status of SET_ADDRESS at the one before.  A    *)
(* SETUP packet is always taken: it empties the FIFO and ends a stall.     *)
(* The host leaves the handler the time to come to its end between two     *)
(* transfers: microseconds, and two milliseconds after SET_ADDRESS.        *)

handler == <<hpc, request, data>>

Reached == UDADDR = address

SendSetup ==
  /\ Reached /\ stage = "idle" /\ ~RXSTPI /\ hpc = "idle"
  /\ \E r \in Requests :
       /\ setup' = r
       /\ stage' = IF r.kind = "HID_SET_REPORT" THEN "out"
                   ELSE IF r.wLength = 0 THEN "status in" ELSE "in"
  /\ RXSTPI' = TRUE /\ fifo' = {} /\ STALLRQ' = FALSE /\ got' = 0
  /\ UNCHANGED <<RXOUTI, TXINI, UDADDR, handler, address>>

\* The host fetches a packet.  Too many bytes, or not the next ones, are garbage.
Fetched(p) ==
  IF p.from = got /\ got + p.size <= setup.wLength THEN got + p.size ELSE -1

In ==
  /\ Reached /\ stage = "in" /\ ~RXSTPI
  /\ \E p \in fifo :
       /\ got' = Fetched(p)
       /\ stage' = IF p.size < ENDPOINT0_SIZE \/ got' \in {-1, setup.wLength}
                   THEN "status out" ELSE "in"
  /\ fifo' = {} /\ TXINI' = TRUE
  /\ UNCHANGED <<RXSTPI, RXOUTI, device, handler, address, setup>>

\* The empty packet that ends a transfer from the device.  A host may also
\* end it before it has all.
StatusOut ==
  /\ Reached /\ stage \in {"in", "status out"} /\ ~RXSTPI /\ ~RXOUTI
  /\ RXOUTI' = TRUE
  /\ stage' = "idle"
  /\ UNCHANGED <<RXSTPI, TXINI, fifo, device, handler, address, setup, got>>

Out ==
  /\ Reached /\ stage = "out" /\ ~RXSTPI /\ ~RXOUTI
  /\ RXOUTI' = TRUE
  /\ got' = Smaller(got + ENDPOINT0_SIZE, setup.wLength)
  /\ stage' = IF got' = setup.wLength THEN "status in" ELSE "out"
  /\ UNCHANGED <<RXSTPI, TXINI, fifo, device, handler, address, setup>>

StatusIn ==
  /\ Reached /\ stage = "status in" /\ ~RXSTPI /\ fifo # {}
  /\ fifo' = {} /\ TXINI' = TRUE
  /\ stage' = "idle"
  /\ address' = IF setup.kind = "SET_ADDRESS" THEN setup.wValue ELSE address
  /\ UNCHANGED <<RXSTPI, RXOUTI, device, handler, setup, got>>

Stalled ==
  /\ Reached /\ stage # "idle" /\ STALLRQ
  /\ stage' = "idle"
  /\ UNCHANGED <<ueintx, fifo, device, handler, address, setup, got>>

Continue == In \/ Out \/ StatusIn \/ Stalled \/ (stage = "status out" /\ StatusOut)

ControlNext == Handler \/ SendSetup \/ In \/ StatusOut \/ Out \/ StatusIn \/ Stalled

ControlSpec == ControlInit /\ [][ControlNext]_controlVars

-----------------------------------------------------------------------------
\* A host that has been sent a short packet, or all it asked for, has the
\* descriptor or report from its beginning to its end or to wLength, whatever
\* transfers it ended early before (usb_rawhid.c:827-842, 905-922).
DataIsExact == stage = "status out" => got = Wanted(setup)

\* The handler has its next step, or waits for a flag.
HandlerGoesOn ==
  \/ hpc = "idle" /\ RXSTPI
  \/ hpc = "data" /\ (TXINI \/ RXOUTI)
  \/ hpc = "receive" /\ RXOUTI
  \/ hpc \in {"address", "answer", "received"} /\ TXINI
  \/ hpc \in {"send status", "stall"}

\* The host has its next step in the transfer, other than giving it up.
HostGoesOn ==
  /\ Reached /\ ~RXSTPI
  /\ \/ stage \in {"in", "status in"} /\ fifo # {}
     \/ stage \in {"out", "status out"} /\ ~RXOUTI
     \/ stage # "idle" /\ STALLRQ

\* The handler, with all interrupts off, and the host never wait for each other:
\* until both are done with a request, one of them goes on (usb_rawhid.c:831,
\* 911, 928, 847), whatever the length of a descriptor and what is asked of it.
\* Reports are asked for with 64 bytes (Requests).
NeverBothWait == hpc # "idle" \/ stage # "idle" => HandlerGoesOn \/ HostGoesOn

\* No request leaves the handler in its loops, with all interrupts off, if the
\* host goes on: each transfer ends, and so does the interrupt, also the one in
\* which the device changes its address (usb_rawhid.c:831, 911, 928, 847).
\* Reports are asked for with 64 bytes (Requests).
HandlerReturns == []<>(hpc = "idle") /\ (stage # "idle" ~> stage = "idle")

=============================================================================

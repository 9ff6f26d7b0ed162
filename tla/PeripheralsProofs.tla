-------------------------- MODULE PeripheralsProofs --------------------------
(***************************************************************************)
(* For every width of the counter, every set of periods and every set of   *)
(* compare values: what Timer3 says of the pin and of the callback, at     *)
(* whatever step of pwm.c the counter and the interrupts come.  For every  *)
(* size of endpoint 0, every set of descriptors of up to 255 bytes and     *)
(* every length a host may ask of one, with reports of 64 bytes: the data  *)
(* of a control transfer is exact, and handler and host never wait for     *)
(* each other (Control).  For every sample time and whatever a conversion  *)
(* too early gives: each pot gets its own value; and the report of the     *)
(* buttons does not flicker if the operator leaves them alone for long     *)
(* enough (Input).                                                         *)
(***************************************************************************)
EXTENDS Timer3, Control, Input, TLAPS

-----------------------------------------------------------------------------
(* Timer3: the parts of the inductive invariant.                           *)

PwmEnableSteps == {"period", "com", "duty", "resume"}
CallbackSteps == {"low", "high", "sei"}

\* The timer stands before pwm_init and while pwm_enable changes it, and is
\* in the buffered mode ever after.
ModeIsBuffered ==
  /\ pc = "boot" => clk = 0 /\ ~settled /\ oc = 0
  /\ pc # "boot" => wgm = 1
  /\ pc \in PwmEnableSteps => clk = 0 /\ ~settled

\* While the pin is high, the counter is below the compare value, or stands on
\* it and leaves downwards.
HighIsBelow ==
  oc = 1 => /\ compare # 0 /\ cnt <= compare
            /\ cnt = compare => ~up

\* The two bytes of the pointer differ at one step only, and no interrupt
\* comes there.
PointerIsGuarded ==
  /\ pc # "high" => cb \in {NULL, LedCallback}
  /\ pc \in CallbackSteps => ie = 0
  /\ CallbackIsWhole

Timer3Inv ==
  /\ Timer3TypeOK
  /\ ModeIsBuffered
  /\ SettledIsRegular
  /\ HighIsBelow
  /\ PointerIsGuarded

-----------------------------------------------------------------------------
LEMMA Timer3InitInv == Timer3Init => Timer3Inv
<1> SUFFICES ASSUME Timer3Init PROVE Timer3Inv OBVIOUS
<1>1. Timer3TypeOK
  <2>1. <<0, 0>> \in {0, 1} \X {0, 1} OBVIOUS
  <2>2. up \in BOOLEAN /\ settled \in BOOLEAN BY DEF Timer3Init
  <2> QED BY <2>1, <2>2, MaxAssumption DEF Timer3Init, Timer3TypeOK, NULL
<1>2. ModeIsBuffered BY DEF Timer3Init, ModeIsBuffered, PwmEnableSteps
<1>3. SettledIsRegular BY DEF Timer3Init, SettledIsRegular
<1>4. HighIsBelow BY DEF Timer3Init, HighIsBelow
<1>5. PointerIsGuarded
  BY DEF Timer3Init, PointerIsGuarded, CallbackIsWhole, CallbackSteps, NULL
<1> QED BY <1>1, <1>2, <1>3, <1>4, <1>5 DEF Timer3Inv

-----------------------------------------------------------------------------
(* The counter takes a step.                                               *)

\* Where the counter goes, in the buffered mode and below a TOP of at least 1.
LEMMA CounterStep ==
  ASSUME Timer3Inv, clk # 0
  PROVE  /\ Next_cnt \in 0 .. MAX
         /\ cnt <= icr => Next_cnt <= icr
         /\ Direction => cnt # icr /\ (Next_cnt = cnt + 1 \/ Next_cnt = 0)
         /\ ~Direction => cnt # 0 /\ Next_cnt = cnt - 1
         /\ ~up /\ cnt # 0 => ~Direction
         /\ Direction \in BOOLEAN
<1>1. pc # "boot" /\ wgm = 1 BY DEF Timer3Inv, ModeIsBuffered
<1>2. icr \in 1 .. MAX
  BY <1>1, TopsAssumption DEF Timer3Inv, Timer3TypeOK
<1>3. cnt \in 0 .. MAX /\ up \in BOOLEAN BY DEF Timer3Inv, Timer3TypeOK
<1>4. Direction <=> cnt = 0 \/ (cnt # icr /\ up)
  <2>1. CASE cnt = 0 BY <1>2, <2>1 DEF Direction
  <2>2. CASE cnt # 0 /\ cnt = icr BY <1>1, <2>2 DEF Direction
  <2>3. CASE cnt # 0 /\ cnt # icr BY <1>1, <2>3 DEF Direction
  <2> QED BY <2>1, <2>2, <2>3
<1>5. Direction \in BOOLEAN BY <1>3 DEF Direction
<1>6. CASE Direction
  <2>1. cnt # icr BY <1>2, <1>4, <1>6
  <2>2. Next_cnt = IF cnt = MAX THEN 0 ELSE cnt + 1 BY <1>6 DEF Next_cnt
  <2> QED BY <1>2, <1>3, <1>4, <1>5, <1>6, <2>1, <2>2, MaxAssumption
<1>7. CASE ~Direction
  <2>1. cnt # 0 BY <1>4, <1>7
  <2>2. Next_cnt = cnt - 1 BY <1>7 DEF Next_cnt
  <2> QED BY <1>2, <1>3, <1>4, <1>5, <1>7, <2>1, <2>2, MaxAssumption
<1> QED BY <1>6, <1>7

LEMMA CountInv == Timer3Inv /\ Count => Timer3Inv'
<1> SUFFICES ASSUME Timer3Inv, Count PROVE Timer3Inv' OBVIOUS
<1>1. /\ cnt' = Next_cnt /\ up' = Direction
      /\ compare' = IF cnt' = 0 THEN ocr ELSE compare
      /\ oc' = Latch(cnt', compare', Direction)
      /\ settled' = (settled \/ cnt' = 0)
      /\ UNCHANGED <<wgm, clk, com, icr, ocr, timsk, ie, cb, pc, called>>
  BY DEF Count, registers, masks
<1>2. /\ Next_cnt \in 0 .. MAX
      /\ cnt <= icr => Next_cnt <= icr
      /\ Direction => cnt # icr /\ (Next_cnt = cnt + 1 \/ Next_cnt = 0)
      /\ ~Direction => cnt # 0 /\ Next_cnt = cnt - 1
      /\ ~up /\ cnt # 0 => ~Direction
      /\ Direction \in BOOLEAN
  BY CounterStep DEF Count
<1>3. /\ pc # "boot" /\ wgm = 1 /\ clk # 0
      /\ pc \notin PwmEnableSteps
  BY DEF Timer3Inv, ModeIsBuffered, Count
<1>4. icr \in 1 .. MAX BY <1>3, TopsAssumption DEF Timer3Inv, Timer3TypeOK
<1>5. cnt \in 0 .. MAX /\ compare \in Nat /\ ocr \in Nat
  BY ComparesAssumption DEF Timer3Inv, Timer3TypeOK
<1>6. Timer3TypeOK'
  <2>1. oc' \in {0, 1}
    BY <1>1 DEF Latch, Timer3Inv, Timer3TypeOK
  <2>2. compare' \in Compares \union {0}
    BY <1>1 DEF Timer3Inv, Timer3TypeOK
  <2> QED BY <1>1, <1>2, <2>1, <2>2 DEF Timer3Inv, Timer3TypeOK
<1>7. ModeIsBuffered' BY <1>1, <1>3 DEF ModeIsBuffered
<1>8. SettledIsRegular'
  <2>1. CASE cnt' = 0 BY <2>1, <1>1, <1>4 DEF SettledIsRegular
  <2>2. CASE cnt' # 0
    BY <2>2, <1>1, <1>2 DEF SettledIsRegular, Timer3Inv
  <2> QED BY <2>1, <2>2
<1>9. HighIsBelow'
  <2> SUFFICES ASSUME oc' = 1
      PROVE  compare' # 0 /\ cnt' <= compare' /\ (cnt' = compare' => ~up')
    BY DEF HighIsBelow
  <2>1. compare' # 0 BY <1>1 DEF Latch
  <2>2. CASE cnt' = compare'
    <3>1. ~Direction BY <2>1, <2>2, <1>1 DEF Latch
    <3> QED BY <2>1, <2>2, <3>1, <1>1, <1>2, <1>5
  <2>3. CASE cnt' # compare'
    <3>1. oc = 1 BY <2>1, <2>3, <1>1 DEF Latch
    <3>2. /\ compare # 0 /\ cnt <= compare
          /\ cnt = compare => ~up
      BY <3>1 DEF HighIsBelow, Timer3Inv
    <3>3. CASE cnt' = 0 BY <2>1, <2>3, <3>3, <1>1, <1>5
    <3>4. CASE cnt' # 0
      <4>1. compare' = compare BY <3>4, <1>1
      <4>2. CASE Direction
        <5>1. cnt # compare BY <4>2, <1>2, <3>2
        <5> QED BY <2>1, <2>3, <3>2, <3>4, <4>1, <4>2, <5>1, <1>1, <1>2, <1>5
      <4>3. CASE ~Direction
        BY <2>1, <2>3, <3>2, <4>1, <4>3, <1>1, <1>2, <1>5
      <4> QED BY <4>2, <4>3
    <3> QED BY <3>3, <3>4
  <2> QED BY <2>2, <2>3
<1>10. PointerIsGuarded'
  BY <1>1 DEF Timer3Inv, PointerIsGuarded, CallbackIsWhole
<1> QED BY <1>6, <1>7, <1>8, <1>9, <1>10 DEF Timer3Inv

-----------------------------------------------------------------------------
(* The steps of the main thread and the interrupts.                        *)

\* What pwm_init, pwm_enable and pwm_disable write.
LEMMA RegisterInv ==
  ASSUME Timer3Inv,
         \/ PwmInit
         \/ EnableStop \/ EnablePeriod \/ EnableCom \/ EnableDuty \/ EnableResume
         \/ DisableCom \/ DisableStop \/ DisableMask
  PROVE  Timer3Inv'
<1> USE DEF registers, masks, counter, Goto, Stop, Resume
<1>1. CASE PwmInit
  <2> USE <1>1 DEF PwmInit, Timer3Inv
  <2>1. Timer3TypeOK' BY DEF Timer3TypeOK, NULL
  <2>2. ModeIsBuffered' BY DEF ModeIsBuffered, PwmEnableSteps
  <2>3. SettledIsRegular' BY DEF SettledIsRegular, ModeIsBuffered
  <2>4. HighIsBelow' BY DEF HighIsBelow, ModeIsBuffered
  <2>5. PointerIsGuarded'
    BY DEF PointerIsGuarded, CallbackIsWhole, CallbackSteps
  <2> QED BY <2>1, <2>2, <2>3, <2>4, <2>5
<1>2. CASE \/ EnableStop \/ EnablePeriod \/ EnableCom \/ EnableResume
           \/ DisableCom \/ DisableStop \/ DisableMask
  <2>1. Timer3TypeOK'
    <3> USE DEF Timer3Inv, Timer3TypeOK
    <3>1. CASE EnableStop BY <3>1 DEF EnableStop
    <3>2. CASE EnablePeriod BY <3>2 DEF EnablePeriod
    <3>3. CASE EnableCom \/ EnableResume BY <3>3 DEF EnableCom, EnableResume
    <3>4. CASE DisableCom \/ DisableStop BY <3>4 DEF DisableCom, DisableStop
    <3>5. CASE DisableMask BY <3>5 DEF DisableMask
    <3> QED BY <1>2, <3>1, <3>2, <3>3, <3>4, <3>5
  <2> USE <1>2 DEF EnableStop, EnablePeriod, EnableCom, EnableResume,
                   DisableCom, DisableStop, DisableMask, Timer3Inv
  <2>2. ModeIsBuffered' BY DEF ModeIsBuffered, PwmEnableSteps
  <2>3. SettledIsRegular'
    BY DEF SettledIsRegular, ModeIsBuffered, PwmEnableSteps
  <2>4. HighIsBelow' BY DEF HighIsBelow
  <2>5. PointerIsGuarded'
    BY DEF PointerIsGuarded, CallbackIsWhole, CallbackSteps
  <2> QED BY <2>1, <2>2, <2>3, <2>4, <2>5
<1>3. CASE EnableDuty
  <2> USE <1>3 DEF EnableDuty, Timer3Inv
  <2>1. compare' = compare BY DEF ModeIsBuffered
  <2>2. Timer3TypeOK' BY <2>1 DEF Timer3TypeOK
  <2>3. ModeIsBuffered' BY DEF ModeIsBuffered, PwmEnableSteps
  <2>4. SettledIsRegular'
    BY DEF SettledIsRegular, ModeIsBuffered, PwmEnableSteps
  <2>5. HighIsBelow' BY <2>1 DEF HighIsBelow
  <2>6. PointerIsGuarded'
    BY DEF PointerIsGuarded, CallbackIsWhole, CallbackSteps
  <2> QED BY <2>2, <2>3, <2>4, <2>5, <2>6
<1> QED BY <1>1, <1>2, <1>3

\* pwm_set_interrupt_callback and the handlers: registers and counter stay.
LEMMA CallbackInv ==
  ASSUME Timer3Inv,
         \/ CallbackMask \/ CallbackLow \/ CallbackHigh \/ CallbackUnmask
         \/ Interrupt
  PROVE  Timer3Inv'
<1> USE DEF registers, masks, counter, Goto, CallbackMask, CallbackLow,
            CallbackHigh, CallbackUnmask, Interrupt
<1>1. UNCHANGED <<wgm, clk, com, icr, ocr, cnt, up, compare, oc, settled>>
  OBVIOUS
<1>2. Timer3TypeOK'
  BY DEF Timer3Inv, Timer3TypeOK, NULL, LedCallback
<1>3. ModeIsBuffered'
  BY <1>1 DEF Timer3Inv, ModeIsBuffered, PwmEnableSteps
<1>4. SettledIsRegular' BY <1>1 DEF Timer3Inv, SettledIsRegular
<1>5. HighIsBelow' BY <1>1 DEF Timer3Inv, HighIsBelow
<1>6. PointerIsGuarded'
  <2> USE DEF PointerIsGuarded, CallbackIsWhole, CallbackSteps, Timer3Inv
  <2>1. CASE CallbackMask BY <2>1
  <2>2. CASE CallbackLow BY <2>2
  <2>3. CASE CallbackHigh
    <3>1. cb \in {0, 1} \X {0, 1} BY DEF Timer3TypeOK
    <3> QED BY <2>3, <3>1 DEF NULL, LedCallback
  <2>4. CASE CallbackUnmask BY <2>4
  <2>5. CASE Interrupt
    <3>1. pc \notin CallbackSteps BY <2>5 DEF Timer3TypeOK
    <3> QED BY <2>5, <3>1
  <2> QED BY <2>1, <2>2, <2>3, <2>4, <2>5
<1> QED BY <1>2, <1>3, <1>4, <1>5, <1>6 DEF Timer3Inv

LEMMA Timer3Step == Timer3Inv /\ [Timer3Next]_timer3Vars => Timer3Inv'
<1> SUFFICES ASSUME Timer3Inv, [Timer3Next]_timer3Vars PROVE Timer3Inv'
  OBVIOUS
<1>1. CASE PwmCalls BY <1>1, RegisterInv, CallbackInv DEF PwmCalls
<1>2. CASE Count BY <1>2, CountInv
<1>3. CASE Interrupt BY <1>3, CallbackInv
<1>4. CASE UNCHANGED timer3Vars
  BY <1>4 DEF timer3Vars, registers, masks, counter, Timer3Inv, Timer3TypeOK,
              ModeIsBuffered, SettledIsRegular, HighIsBelow, PointerIsGuarded,
              CallbackIsWhole
<1> QED BY <1>1, <1>2, <1>3, <1>4 DEF Timer3Next

-----------------------------------------------------------------------------
LEMMA Timer3Invariant == Timer3Spec => []Timer3Inv
BY Timer3InitInv, Timer3Step, PTL DEF Timer3Spec

\* The registers and the counter keep their ranges: the counter never leaves
\* 0 .. MAX, and a period once set is one of those asked for (pwm.c:98, 123).
THEOREM Timer3IsTyped == Timer3Spec => []Timer3TypeOK
<1>1. Timer3Inv => Timer3TypeOK BY DEF Timer3Inv
<1> QED BY <1>1, Timer3Invariant, PTL

\* Once the counter has passed BOTTOM after pwm_enable, it stays below TOP and
\* the pulse is the one asked for (pwm.c:121-129).
THEOREM AlwaysRegular == Timer3Spec => []SettledIsRegular
<1>1. Timer3Inv => SettledIsRegular BY DEF Timer3Inv
<1> QED BY <1>1, Timer3Invariant, PTL

\* A counter beyond the compare value finds the pin low, also when it missed a
\* TOP that pwm_enable set below it (pwm.c:98).
THEOREM AlwaysLowInOverrun == Timer3Spec => []OverrunIsLow
<1>1. Timer3Inv => OverrunIsLow BY DEF Timer3Inv, HighIsBelow, OverrunIsLow
<1> QED BY <1>1, Timer3Invariant, PTL

\* No interrupt calls a half-written pointer (pwm.c:148-169).
THEOREM AlwaysWholeCallback == Timer3Spec => []CallbackIsWhole
<1>1. Timer3Inv => CallbackIsWhole BY DEF Timer3Inv, PointerIsGuarded
<1> QED BY <1>1, Timer3Invariant, PTL

-----------------------------------------------------------------------------
(* Control: the parts of the inductive invariant.                          *)

\* The requests whose data goes to the host.
InKinds == {"GET_DESCRIPTOR", "HID_GET_REPORT", "GET_CONFIGURATION", "GET_STATUS"}

\* A SETUP packet finds the handler at rest and empties the FIFO, and a bank
\* that is free is empty.
FifoIsMarked ==
  /\ setup \in Requests
  /\ RXSTPI => hpc = "idle" /\ fifo = {}
  /\ TXINI => fifo = {}

\* The loop has sent all up to desc_addr, in full packets.
LoopIsAhead ==
  /\ hpc = "data"
  /\ desc_addr \in Nat /\ len \in Nat /\ desc_addr + len = Wanted(setup)
  /\ fifo = {} => got = desc_addr
  /\ \A p \in fifo :
       p.from = got /\ p.size = ENDPOINT0_SIZE /\ got + p.size = desc_addr

AnswerIsDue ==
  hpc = "answer" /\ fifo = {} /\ got = 0 /\ len = Wanted(setup)
    /\ len = setup.wLength

\* The last packet waits for the host.
LastIsSent ==
  /\ hpc = "idle" /\ fifo # {}
  /\ \A p \in fifo :
       /\ p.from = got /\ p.size \in Nat /\ got + p.size = Wanted(setup)
       /\ p.size < ENDPOINT0_SIZE \/ Wanted(setup) = setup.wLength

\* A transfer to the host, from its SETUP packet to its last packet.
InTransfer ==
  stage = "in" =>
    /\ setup.kind \in InKinds /\ got \in Nat
    /\ RXSTPI => got = 0
    /\ ~RXSTPI => ~RXOUTI /\ (LoopIsAhead \/ AnswerIsDue \/ LastIsSent)

ControlInv == FifoIsMarked /\ InTransfer /\ DataIsExact

-----------------------------------------------------------------------------
LEMMA RequestFields ==
  ASSUME NEW r \in Requests
  PROVE  /\ r.wLength \in Nat /\ r.size \in Nat
         /\ Wanted(r) \in Nat /\ Wanted(r) <= r.wLength
         /\ r.kind \in InKinds => Length(r) = Wanted(r)
         /\ r.kind \in {"GET_CONFIGURATION", "GET_STATUS"} =>
              Wanted(r) = r.wLength
         /\ r.wLength # 0 /\ r.kind # "HID_SET_REPORT" => r.kind \in InKinds
<1> USE ControlAssumption DEF Requests, RAWHID_TX_SIZE, RAWHID_RX_SIZE
<1>1. /\ r.wLength \in Nat /\ r.size \in Nat
      /\ r.kind = "GET_DESCRIPTOR" => r.size <= 255
  <2>1. CASE r.kind = "GET_DESCRIPTOR"
    <3>1. r.wLength \in WLengths /\ r.size \in Descriptors BY <2>1
    <3>2. r.wLength \in Nat /\ r.size \in 0 .. 255 BY <3>1
    <3> QED BY <3>2
  <2>2. CASE r.kind # "GET_DESCRIPTOR" BY <2>2
  <2> QED BY <2>1, <2>2
<1>2. r.kind \in {"GET_CONFIGURATION", "GET_STATUS", "HID_GET_REPORT"} =>
        r.size = r.wLength
  OBVIOUS
<1>3. r.wLength # 0 /\ r.kind # "HID_SET_REPORT" => r.kind \in InKinds
  BY DEF InKinds
<1> QED BY <1>1, <1>2, <1>3 DEF Wanted, Smaller, Length, InKinds

LEMMA ControlInitInv == ControlInit => ControlInv
BY DEF ControlInit, ControlInv, FifoIsMarked, InTransfer, DataIsExact

-----------------------------------------------------------------------------
(* The handler.                                                            *)

LEMMA SetupInv == ControlInv /\ Setup => ControlInv'
<1> SUFFICES ASSUME ControlInv, Setup PROVE ControlInv' OBVIOUS
<1>1. /\ hpc = "idle" /\ RXSTPI /\ fifo = {} /\ setup \in Requests
      /\ ~RXSTPI' /\ ~RXOUTI'
      /\ len' = Length(setup) /\ desc_addr' = 0
      /\ UNCHANGED <<fifo, stage, setup, got>>
  BY DEF Setup, AckSetup, host, ControlInv, FifoIsMarked
<1>2. FifoIsMarked' BY <1>1 DEF FifoIsMarked
<1>3. DataIsExact' BY <1>1 DEF ControlInv, DataIsExact
<1>4. InTransfer'
  <2> SUFFICES ASSUME stage = "in"
               PROVE  /\ setup.kind \in InKinds /\ got \in Nat
                      /\ LoopIsAhead' \/ AnswerIsDue' \/ LastIsSent'
    BY <1>1 DEF InTransfer
  <2>1. setup.kind \in InKinds /\ got = 0
    BY <1>1 DEF ControlInv, InTransfer
  <2>2. len' = Wanted(setup) /\ len' \in Nat
    BY <1>1, <2>1, RequestFields
  <2>3. CASE setup.kind \in {"GET_DESCRIPTOR", "HID_GET_REPORT"}
    <3>1. hpc' = "data" BY <2>3 DEF Setup
    <3>2. LoopIsAhead'
      BY <1>1, <2>1, <2>2, <3>1 DEF LoopIsAhead, Wanted
    <3> QED BY <2>1, <3>2
  <2>4. CASE setup.kind \in {"GET_CONFIGURATION", "GET_STATUS"}
    <3>1. hpc' = "answer" BY <2>4 DEF Setup
    <3>2. Wanted(setup) = setup.wLength BY <1>1, <2>4, RequestFields
    <3>3. AnswerIsDue'
      BY <1>1, <2>1, <2>2, <3>1, <3>2 DEF AnswerIsDue, Wanted
    <3> QED BY <2>1, <3>3
  <2> QED BY <2>1, <2>3, <2>4 DEF InKinds
<1> QED BY <1>2, <1>3, <1>4 DEF ControlInv

LEMMA DataInv == ControlInv /\ Data => ControlInv'
<1> SUFFICES ASSUME ControlInv, Data PROVE ControlInv' OBVIOUS
<1>1. /\ hpc = "data" /\ (TXINI \/ RXOUTI)
      /\ UNCHANGED <<RXSTPI, RXOUTI, stage, setup, got>>
  BY DEF Data, HandlerGoto, host
<1>2. ~RXSTPI /\ setup \in Requests BY <1>1 DEF ControlInv, FifoIsMarked
<1>3. FifoIsMarked'
  BY <1>1, <1>2 DEF Data, SendIn, ControlInv, FifoIsMarked
<1>4. DataIsExact' BY <1>1 DEF ControlInv, DataIsExact
<1>5. InTransfer'
  <2> SUFFICES ASSUME stage = "in"
               PROVE  /\ setup.kind \in InKinds /\ got \in Nat /\ ~RXOUTI
                      /\ LoopIsAhead' \/ LastIsSent'
    BY <1>1, <1>2 DEF InTransfer
  <2>1. /\ setup.kind \in InKinds /\ got \in Nat /\ ~RXOUTI
        /\ LoopIsAhead
    BY <1>1, <1>2 DEF ControlInv, InTransfer, AnswerIsDue, LastIsSent
  <2>2. fifo = {} BY <1>1, <2>1 DEF ControlInv, FifoIsMarked
  <2> DEFINE n == PacketSize(len)
  <2>3. /\ fifo' = {[from |-> desc_addr, size |-> n]}
        /\ desc_addr' = desc_addr + n /\ len' = len - n
        /\ hpc' = IF More(len - n, n) THEN "data" ELSE "idle"
    BY <2>1 DEF Data, SendIn, HandlerGoto
  <2>4. /\ desc_addr \in Nat /\ len \in Nat /\ desc_addr + len = Wanted(setup)
        /\ got = desc_addr
    BY <2>1, <2>2 DEF LoopIsAhead
  <2>5. n \in Nat /\ n <= len /\ n <= ENDPOINT0_SIZE
        /\ (n = len \/ n = ENDPOINT0_SIZE)
    BY <2>4, ControlAssumption DEF PacketSize, Smaller
  <2> HIDE DEF n
  <2>6. \A p \in fifo' : p.from = got /\ p.size = n BY <2>3, <2>4
  <2>7. Wanted(setup)' = Wanted(setup) BY <1>1 DEF Wanted
  <2>8. CASE More(len - n, n)
    <3>1. n = ENDPOINT0_SIZE BY <2>4, <2>5, <2>8 DEF More
    <3>2. /\ desc_addr' \in Nat /\ len' \in Nat
          /\ desc_addr' + len' = Wanted(setup)
          /\ got + n = desc_addr'
      BY <2>3, <2>4, <2>5
    <3>3. fifo' # {} BY <2>3
    <3>4. LoopIsAhead'
      BY <1>1, <2>3, <2>6, <2>7, <2>8, <3>1, <3>2, <3>3 DEF LoopIsAhead
    <3> QED BY <2>1, <3>4
  <2>9. CASE ~More(len - n, n)
    <3>1. n = len /\ n < ENDPOINT0_SIZE
      BY <2>4, <2>5, <2>9, ControlAssumption DEF More
    <3>2. LastIsSent'
      BY <1>1, <2>3, <2>4, <2>5, <2>6, <2>7, <2>9, <3>1 DEF LastIsSent
    <3> QED BY <2>1, <3>2
  <2> QED BY <2>8, <2>9
<1> QED BY <1>3, <1>4, <1>5 DEF ControlInv

LEMMA AnswerInv == ControlInv /\ Answer => ControlInv'
<1> SUFFICES ASSUME ControlInv, Answer PROVE ControlInv' OBVIOUS
<1>1. /\ hpc = "answer" /\ hpc' = "idle"
      /\ fifo' = {[from |-> 0, size |-> len]} /\ ~TXINI'
      /\ UNCHANGED <<RXSTPI, RXOUTI, stage, setup, got>>
  BY DEF Answer, SendIn, HandlerGoto, host
<1>2. ~RXSTPI /\ setup \in Requests BY <1>1 DEF ControlInv, FifoIsMarked
<1>3. FifoIsMarked' BY <1>1, <1>2 DEF FifoIsMarked
<1>4. DataIsExact' BY <1>1 DEF ControlInv, DataIsExact
<1>5. InTransfer'
  <2> SUFFICES ASSUME stage = "in"
               PROVE  /\ setup.kind \in InKinds /\ got \in Nat /\ ~RXOUTI
                      /\ LastIsSent'
    BY <1>1, <1>2 DEF InTransfer
  <2>1. /\ setup.kind \in InKinds /\ got \in Nat /\ ~RXOUTI
        /\ AnswerIsDue
    BY <1>1, <1>2 DEF ControlInv, InTransfer, LoopIsAhead, LastIsSent
  <2>2. Wanted(setup)' = Wanted(setup) /\ Wanted(setup) \in Nat
    BY <1>1, <1>2, RequestFields DEF Wanted
  <2>3. LastIsSent'
    <3>1. got = 0 /\ len = Wanted(setup) /\ len = setup.wLength
      BY <2>1 DEF AnswerIsDue
    <3> QED BY <1>1, <2>2, <3>1 DEF LastIsSent
  <2> QED BY <2>1, <2>3
<1> QED BY <1>3, <1>4, <1>5 DEF ControlInv

\* The other steps of the handler belong to transfers without data for the
\* host.
LEMMA OtherStagesInv ==
  ASSUME ControlInv,
         \/ SendStatus \/ SetAddress \/ Receive \/ Received \/ Stall
  PROVE  ControlInv'
<1>1. /\ hpc \notin {"idle", "data", "answer"}
      /\ UNCHANGED <<RXSTPI, stage, setup, got>>
  BY DEF SendStatus, SetAddress, Receive, Received, Stall, HandlerGoto, host
<1>2. ~RXSTPI /\ setup \in Requests BY <1>1 DEF ControlInv, FifoIsMarked
<1>3. stage # "in"
  BY <1>1, <1>2 DEF ControlInv, InTransfer, LoopIsAhead, AnswerIsDue, LastIsSent
<1>4. TXINI' => fifo' = {}
  BY DEF ControlInv, FifoIsMarked, SendStatus, SetAddress, Receive, Received,
         Stall, SendIn
<1> QED
  BY <1>1, <1>2, <1>3, <1>4
  DEF ControlInv, FifoIsMarked, InTransfer, DataIsExact, Wanted

-----------------------------------------------------------------------------
(* The host.                                                               *)

LEMMA SendSetupInv == ControlInv /\ SendSetup => ControlInv'
<1> SUFFICES ASSUME ControlInv, SendSetup PROVE ControlInv' OBVIOUS
<1>1. PICK r \in Requests :
        /\ setup' = r
        /\ stage' = IF r.kind = "HID_SET_REPORT" THEN "out"
                    ELSE IF r.wLength = 0 THEN "status in" ELSE "in"
  BY DEF SendSetup
<1>2. hpc' = "idle" /\ RXSTPI' /\ fifo' = {} /\ got' = 0
  BY DEF SendSetup, handler
<1>3. stage' = "in" => r.kind \in InKinds BY <1>1, RequestFields
<1> QED
  BY <1>1, <1>2, <1>3 DEF ControlInv, FifoIsMarked, InTransfer, DataIsExact

LEMMA InInv == ControlInv /\ In => ControlInv'
<1> SUFFICES ASSUME ControlInv, In PROVE ControlInv' OBVIOUS
<1>1. PICK p \in fifo :
        /\ got' = Fetched(p)
        /\ stage' = IF p.size < ENDPOINT0_SIZE \/ got' \in {-1, setup.wLength}
                    THEN "status out" ELSE "in"
  BY DEF In
<1>2. /\ stage = "in" /\ ~RXSTPI /\ fifo' = {}
      /\ UNCHANGED <<RXSTPI, RXOUTI, hpc, len, desc_addr, setup>>
  BY DEF In, handler, data
<1>3. /\ setup \in Requests /\ setup.kind \in InKinds /\ got \in Nat
      /\ ~RXOUTI /\ (LoopIsAhead \/ LastIsSent)
  BY <1>1, <1>2 DEF ControlInv, FifoIsMarked, InTransfer, AnswerIsDue
<1>4. /\ Wanted(setup) \in Nat /\ Wanted(setup) <= setup.wLength
      /\ setup.wLength \in Nat
  BY <1>3, RequestFields
<1>5. Wanted(setup)' = Wanted(setup) BY <1>2 DEF Wanted
<1>6. FifoIsMarked' BY <1>2, <1>3 DEF FifoIsMarked
<1>7. CASE LoopIsAhead
  <2>1. /\ p.from = got /\ p.size = ENDPOINT0_SIZE /\ got + p.size = desc_addr
        /\ desc_addr \in Nat /\ len \in Nat /\ desc_addr + len = Wanted(setup)
        /\ hpc = "data"
    BY <1>1, <1>7 DEF LoopIsAhead
  <2>2. got' = desc_addr
    <3>1. got + p.size <= setup.wLength BY <1>4, <2>1
    <3> QED BY <1>1, <2>1, <3>1 DEF Fetched
  <2>3. stage' = IF desc_addr = setup.wLength THEN "status out" ELSE "in"
    <3>1. ~(p.size < ENDPOINT0_SIZE) BY <2>1, ControlAssumption
    <3>2. got' # -1 BY <2>1, <2>2
    <3> QED BY <1>1, <2>2, <3>1, <3>2
  <2>4. LoopIsAhead' BY <1>2, <1>5, <2>1, <2>2 DEF LoopIsAhead
  <2>5. InTransfer' BY <1>2, <1>3, <2>1, <2>2, <2>4 DEF InTransfer
  <2>6. DataIsExact'
    <3>1. desc_addr = setup.wLength => desc_addr = Wanted(setup)
      BY <1>4, <2>1
    <3> QED BY <1>5, <2>2, <2>3, <3>1 DEF DataIsExact
  <2> QED BY <1>6, <2>5, <2>6 DEF ControlInv
<1>8. CASE LastIsSent
  <2>1. /\ p.from = got /\ p.size \in Nat /\ got + p.size = Wanted(setup)
        /\ p.size < ENDPOINT0_SIZE \/ Wanted(setup) = setup.wLength
    BY <1>1, <1>8 DEF LastIsSent
  <2>2. got' = Wanted(setup) BY <1>1, <1>4, <2>1 DEF Fetched
  <2>3. stage' = "status out" BY <1>1, <2>1, <2>2
  <2> QED
    BY <1>2, <1>5, <1>6, <2>2, <2>3
    DEF ControlInv, InTransfer, DataIsExact
<1> QED BY <1>3, <1>7, <1>8

\* The other steps of the host do not begin or go on with such a transfer.
LEMMA HostInv ==
  ASSUME ControlInv, StatusOut \/ Out \/ StatusIn \/ Stalled
  PROVE  ControlInv'
<1>1. /\ stage' \in {"idle", "out", "status in"}
      /\ UNCHANGED <<RXSTPI, hpc, setup>>
      /\ fifo' = {} \/ (fifo' = fifo /\ (TXINI' => TXINI))
  <2> USE DEF handler, ueintx
  <2>1. CASE StatusOut BY <2>1 DEF StatusOut
  <2>2. CASE Out BY <2>2 DEF Out
  <2>3. CASE StatusIn BY <2>3 DEF StatusIn
  <2>4. CASE Stalled BY <2>4 DEF Stalled
  <2> QED BY <2>1, <2>2, <2>3, <2>4
<1> QED BY <1>1 DEF ControlInv, FifoIsMarked, InTransfer, DataIsExact

LEMMA ControlStep == ControlInv /\ [ControlNext]_controlVars => ControlInv'
<1> SUFFICES ASSUME ControlInv, [ControlNext]_controlVars PROVE ControlInv'
  OBVIOUS
<1>1. CASE Handler
  BY <1>1, SetupInv, DataInv, AnswerInv, OtherStagesInv DEF Handler
<1>2. CASE SendSetup BY <1>2, SendSetupInv
<1>3. CASE In BY <1>3, InInv
<1>4. CASE StatusOut \/ Out \/ StatusIn \/ Stalled BY <1>4, HostInv
<1>5. CASE UNCHANGED controlVars
  BY <1>5 DEF controlVars, ueintx, device, data, host, ControlInv,
              FifoIsMarked, InTransfer, LoopIsAhead, AnswerIsDue, LastIsSent,
              DataIsExact, Wanted
<1> QED BY <1>1, <1>2, <1>3, <1>4, <1>5 DEF ControlNext

-----------------------------------------------------------------------------
\* A host that has been sent a short packet, or all it asked for, has the whole
\* descriptor, or the part of it that it asked for, or the report of 64 bytes
\* (usb_rawhid.c:827-842, 905-922).
THEOREM DataIsAlwaysExact == ControlSpec => []DataIsExact
<1>1. ControlInv => DataIsExact BY DEF ControlInv
<1> QED BY <1>1, ControlInitInv, ControlStep, PTL DEF ControlSpec

-----------------------------------------------------------------------------
(* Control: who has the next step, at each stage of the host's transfer.   *)

\* The handler has yet to read the SETUP packet.
IsAsked ==
  /\ Reached /\ hpc = "idle" /\ fifo = {} /\ ~STALLRQ /\ got = 0
  /\ stage = IF setup.kind = "HID_SET_REPORT" THEN "out"
             ELSE IF setup.wLength = 0 THEN "status in" ELSE "in"

\* The host is through with the transfer, or has given it up, and the handler
\* comes to its end without it.
IsDone ==
  \/ hpc = "idle" /\ Reached
  \/ hpc = "data" /\ RXOUTI /\ Reached
  \/ hpc = "answer" /\ fifo = {} /\ Reached
  \/ hpc = "address" /\ fifo = {} /\ address = setup.wValue

\* The bytes that the handler of HID_SET_REPORT expects after the packet that
\* waits for it.
Rest == IF RXOUTI THEN len - PacketSize(len) ELSE len

IsTaking ==
  /\ setup.kind = "HID_SET_REPORT" /\ hpc = "receive" /\ fifo = {}
  /\ len \in Nat \ {0} /\ got \in Nat
  /\ setup.wLength = got + Rest
  /\ stage = "out" <=> Rest # 0

\* The status stage of a request without data for the host.
IsEnding ==
  \/ hpc = "send status" /\ fifo = {}
  \/ hpc = "address" /\ fifo # {} /\ setup.kind = "SET_ADDRESS"
  \/ /\ setup.kind # "SET_ADDRESS"
     /\ \/ hpc \in {"stall", "received"} /\ fifo = {}
        \/ hpc = "data" /\ len = 0 /\ fifo = {} /\ ~RXOUTI
        \/ hpc = "idle" /\ (fifo # {} \/ STALLRQ)

SomeoneGoesOn ==
  /\ stage \in {"idle", "in", "status out", "out", "status in"}
  /\ hpc # "idle" => request = setup
  /\ STALLRQ => hpc = "idle"
  /\ stage # "idle" => Reached
  /\ IF RXSTPI THEN IsAsked
     ELSE /\ fifo = {} => TXINI
          /\ stage = "idle" => IsDone
          /\ stage = "status out" => hpc \in {"data", "idle"} /\ ~RXOUTI
          /\ stage = "out" => IsTaking
          /\ stage = "status in" => IsTaking \/ IsEnding

WaitInv == ControlInv /\ SomeoneGoesOn

-----------------------------------------------------------------------------
LEMMA LengthOfStatus ==
  ASSUME NEW r \in Requests, r.kind # "HID_SET_REPORT", r.wLength = 0
  PROVE  /\ r.kind \notin {"HID_GET_REPORT", "GET_CONFIGURATION", "GET_STATUS"}
         /\ r.kind = "GET_DESCRIPTOR" => Length(r) = 0
<1>1. r.kind \notin {"HID_GET_REPORT", "GET_CONFIGURATION", "GET_STATUS"}
  BY DEF Requests, RAWHID_TX_SIZE
<1>2. r.kind = "GET_DESCRIPTOR" => Length(r) = Wanted(r) /\ Wanted(r) = 0
  BY RequestFields DEF InKinds, Wanted, Smaller
<1> QED BY <1>1, <1>2

LEMMA LengthOfReport ==
  ASSUME NEW r \in Requests, r.kind = "HID_SET_REPORT"
  PROVE  Length(r) = 64 /\ r.wLength = 64
BY DEF Requests, RAWHID_RX_SIZE, Length

LEMMA PacketBounds ==
  ASSUME NEW n \in Nat
  PROVE  /\ ENDPOINT0_SIZE \in Nat /\ ENDPOINT0_SIZE # 0
         /\ PacketSize(n) \in Nat /\ PacketSize(n) <= n
         /\ IF n < ENDPOINT0_SIZE THEN PacketSize(n) = n
            ELSE PacketSize(n) = ENDPOINT0_SIZE
BY ControlAssumption DEF PacketSize, Smaller

LEMMA EmptyPacket == ~More(0 - PacketSize(0), PacketSize(0))
<1>1. PacketSize(0) = 0 BY ControlAssumption DEF PacketSize, Smaller
<1> QED BY <1>1, ControlAssumption DEF More

LEMMA SomeoneInit == ControlInit => SomeoneGoesOn
BY DEF ControlInit, SomeoneGoesOn, IsDone, Reached

LEMMA SetupGoesOn == WaitInv /\ Setup => SomeoneGoesOn'
<1> SUFFICES ASSUME WaitInv, Setup PROVE SomeoneGoesOn' OBVIOUS
<1>1. /\ RXSTPI /\ IsAsked /\ setup \in Requests
      /\ ~RXSTPI' /\ ~RXOUTI' /\ TXINI'
      /\ request' = setup /\ len' = Length(setup)
      /\ UNCHANGED <<fifo, STALLRQ, UDADDR, stage, address, setup, got>>
  BY DEF Setup, AckSetup, host, device, WaitInv, ControlInv, FifoIsMarked,
         SomeoneGoesOn
<1>2. /\ Reached' /\ fifo' = {} /\ ~STALLRQ' /\ got' = 0
      /\ stage' \notin {"idle", "status out"}
      /\ stage' \in {"in", "out", "status in"}
  BY <1>1 DEF IsAsked, Reached
<1>3. CASE setup.kind = "HID_SET_REPORT"
  <2>1. stage = "out" /\ hpc' = "receive" /\ len' = 64 /\ setup.wLength = 64
    BY <1>1, <1>3, LengthOfReport DEF IsAsked, Setup
  <2>2. IsTaking' BY <1>1, <1>2, <1>3, <2>1 DEF IsTaking, Rest
  <2> QED BY <1>1, <1>2, <2>1, <2>2 DEF SomeoneGoesOn
<1>4. CASE setup.kind # "HID_SET_REPORT" /\ setup.wLength = 0
  <2>1. stage = "status in" BY <1>1, <1>4 DEF IsAsked
  <2>2. /\ hpc' \in {"send status", "stall"} \/ (hpc' = "data" /\ len' = 0)
        /\ hpc' # "send status" => setup.kind # "SET_ADDRESS"
    BY <1>1, <1>4, LengthOfStatus DEF Setup
  <2>3. IsEnding' BY <1>1, <1>2, <2>2 DEF IsEnding
  <2> QED BY <1>1, <1>2, <2>1, <2>3 DEF SomeoneGoesOn
<1>5. CASE setup.kind # "HID_SET_REPORT" /\ setup.wLength # 0
  <2>1. stage = "in" BY <1>1, <1>5 DEF IsAsked
  <2> QED BY <1>1, <1>2, <2>1 DEF SomeoneGoesOn
<1> QED BY <1>3, <1>4, <1>5

\* The handler and the host at each step after the SETUP packet.
LEMMA AtWork ==
  ASSUME WaitInv, ~RXSTPI
  PROVE  /\ setup \in Requests
         /\ TXINI <=> fifo = {}
         /\ stage = "in" =>
              ~RXOUTI /\ (LoopIsAhead \/ AnswerIsDue \/ LastIsSent)
         /\ stage = "idle" => IsDone
         /\ stage = "status out" => hpc \in {"data", "idle"} /\ ~RXOUTI
         /\ stage = "out" => IsTaking
         /\ stage = "status in" => IsTaking \/ IsEnding
         /\ stage \in {"idle", "in", "status out", "out", "status in"}
         /\ stage # "idle" => Reached
         /\ hpc # "idle" => request = setup
         /\ STALLRQ => hpc = "idle"
BY DEF WaitInv, ControlInv, FifoIsMarked, InTransfer, SomeoneGoesOn

LEMMA DataGoesOn == WaitInv /\ Data => SomeoneGoesOn'
<1> SUFFICES ASSUME WaitInv, Data PROVE SomeoneGoesOn' OBVIOUS
<1>1. /\ hpc = "data" /\ hpc' \in {"data", "idle"}
      /\ UNCHANGED <<RXSTPI, RXOUTI, request, STALLRQ, UDADDR, stage, address,
                     setup, got>>
  BY DEF Data, HandlerGoto, host, device
<1>2. ~RXSTPI BY <1>1 DEF WaitInv, ControlInv, FifoIsMarked
<1>3. /\ fifo' = {} => TXINI'
      /\ Reached' <=> Reached
  BY <1>1, <1>2, AtWork DEF Data, SendIn, Reached
<1>4. ~STALLRQ' BY <1>1, <1>2, AtWork
<1>5. stage = "idle" => hpc' = "idle" /\ Reached
  BY <1>1, <1>2, AtWork DEF IsDone, Data, HandlerGoto
<1>6. stage # "out" BY <1>1, <1>2, AtWork DEF IsTaking
<1>7. stage = "status in" => IsEnding'
  <2> SUFFICES ASSUME stage = "status in" PROVE IsEnding' OBVIOUS
  <2>1. len = 0 /\ ~RXOUTI /\ setup.kind # "SET_ADDRESS"
    BY <1>1, <1>2, AtWork DEF IsTaking, IsEnding
  <2>2. ~More(len - PacketSize(len), PacketSize(len)) BY <2>1, EmptyPacket
  <2>3. hpc' = "idle" /\ fifo' # {}
    BY <2>1, <2>2 DEF Data, SendIn, HandlerGoto
  <2> QED BY <1>1, <2>1, <2>3 DEF IsEnding
<1> QED
  BY <1>1, <1>2, <1>3, <1>4, <1>5, <1>6, <1>7, AtWork
  DEF SomeoneGoesOn, IsDone

LEMMA StatusGoesOn ==
  ASSUME WaitInv, SendStatus \/ Answer \/ Received \/ Stall
  PROVE  SomeoneGoesOn'
<1>1. /\ hpc \in {"send status", "answer", "received", "stall"}
      /\ hpc' = IF hpc = "send status" /\ request.kind = "SET_ADDRESS"
                THEN "address" ELSE "idle"
      /\ hpc # "stall" => fifo' # {} /\ UNCHANGED STALLRQ
      /\ hpc = "stall" => STALLRQ' /\ UNCHANGED <<fifo, TXINI>>
      /\ UNCHANGED <<RXSTPI, RXOUTI, request, UDADDR, stage, address, setup, got>>
  <2> USE DEF HandlerGoto, host, device, SendIn
  <2>1. CASE SendStatus BY <2>1 DEF SendStatus
  <2>2. CASE Answer BY <2>2 DEF Answer
  <2>3. CASE Received BY <2>3 DEF Received
  <2>4. CASE Stall BY <2>4 DEF Stall
  <2> QED BY <2>1, <2>2, <2>3, <2>4
<1>2. ~RXSTPI BY <1>1 DEF WaitInv, ControlInv, FifoIsMarked
<1>3. /\ Reached' <=> Reached
      /\ request' = setup
  BY <1>1, <1>2, AtWork DEF Reached
<1>4. fifo' = {} => TXINI'
  <2>1. CASE hpc = "stall"
    <3>1. fifo' = fifo /\ TXINI' = TXINI BY <1>1, <2>1
    <3>2. fifo = {} => TXINI BY <1>2, AtWork
    <3> QED BY <3>1, <3>2
  <2>2. CASE hpc # "stall" BY <1>1, <2>2
  <2> QED BY <2>1, <2>2
<1>5. STALLRQ' => hpc' = "idle"
  <2>1. CASE hpc = "stall" BY <1>1, <2>1
  <2>2. CASE hpc # "stall" BY <1>1, <1>2, <2>2, AtWork
  <2> QED BY <2>1, <2>2
<1>6. stage = "idle" => hpc' = "idle" /\ Reached
  BY <1>1, <1>2, AtWork DEF IsDone
<1>7. stage \notin {"out", "status out"}
  BY <1>1, <1>2, AtWork DEF IsTaking
<1>8. stage = "status in" => IsEnding'
  BY <1>1, <1>2, <1>3, AtWork DEF IsTaking, IsEnding
<1> QED
  BY <1>1, <1>2, <1>3, <1>4, <1>5, <1>6, <1>7, <1>8, AtWork DEF SomeoneGoesOn, IsDone

LEMMA SetAddressGoesOn == WaitInv /\ SetAddress => SomeoneGoesOn'
<1> SUFFICES ASSUME WaitInv, SetAddress PROVE SomeoneGoesOn' OBVIOUS
<1>1. /\ hpc = "address" /\ hpc' = "idle" /\ TXINI /\ UDADDR' = request.wValue
      /\ UNCHANGED <<RXSTPI, RXOUTI, TXINI, fifo, STALLRQ, stage, address, setup>>
  BY DEF SetAddress, HandlerGoto, host
<1>2. ~RXSTPI BY <1>1 DEF WaitInv, ControlInv, FifoIsMarked
<1>3. stage = "idle" /\ address = request.wValue
  BY <1>1, <1>2, AtWork
  DEF IsDone, IsTaking, IsEnding, LoopIsAhead, AnswerIsDue, LastIsSent
<1>4. IsDone' BY <1>1, <1>3 DEF IsDone, Reached
<1> QED BY <1>1, <1>2, <1>3, <1>4 DEF SomeoneGoesOn

LEMMA ReceiveGoesOn == WaitInv /\ Receive => SomeoneGoesOn'
<1> SUFFICES ASSUME WaitInv, Receive PROVE SomeoneGoesOn' OBVIOUS
<1>1. /\ hpc = "receive" /\ RXOUTI /\ ~RXOUTI' /\ len' = len - PacketSize(len)
      /\ hpc' = IF len' # 0 THEN "receive" ELSE "received"
      /\ UNCHANGED <<RXSTPI, TXINI, fifo, request, STALLRQ, UDADDR, stage,
                     address, setup, got>>
  BY DEF Receive, HandlerGoto, host, device
<1>2. ~RXSTPI BY <1>1 DEF WaitInv, ControlInv, FifoIsMarked
<1>3. stage \in {"out", "status in"} /\ IsTaking
  BY <1>1, <1>2, AtWork
  DEF IsDone, IsEnding, LoopIsAhead, AnswerIsDue, LastIsSent
<1>4. /\ len \in Nat \ {0} /\ got \in Nat /\ fifo = {}
      /\ setup.kind = "HID_SET_REPORT" /\ setup.wLength = got + len'
      /\ stage = "out" <=> len' # 0
  BY <1>1, <1>3 DEF IsTaking, Rest
<1>5. len' \in Nat BY <1>1, <1>4, PacketBounds
<1>6. Reached' <=> Reached BY <1>1 DEF Reached
<1>7. CASE len' # 0
  <2>1. IsTaking' BY <1>1, <1>4, <1>5, <1>7 DEF IsTaking, Rest
  <2> QED
    BY <1>1, <1>2, <1>3, <1>4, <1>6, <1>7, <2>1, AtWork DEF SomeoneGoesOn
<1>8. CASE len' = 0
  <2>1. IsEnding' BY <1>1, <1>4, <1>8 DEF IsEnding
  <2> QED
    BY <1>1, <1>2, <1>3, <1>4, <1>6, <1>8, <2>1, AtWork DEF SomeoneGoesOn
<1> QED BY <1>7, <1>8

LEMMA SendSetupGoesOn == WaitInv /\ SendSetup => SomeoneGoesOn'
BY DEF SendSetup, SomeoneGoesOn, IsAsked, Reached, handler

LEMMA InGoesOn == WaitInv /\ In => SomeoneGoesOn'
<1> SUFFICES ASSUME WaitInv, In PROVE SomeoneGoesOn' OBVIOUS
<1>1. /\ stage = "in" /\ ~RXSTPI /\ fifo # {} /\ fifo' = {} /\ TXINI'
      /\ stage' \in {"in", "status out"}
      /\ UNCHANGED <<RXSTPI, RXOUTI, hpc, request, STALLRQ, UDADDR, address,
                     setup>>
  BY DEF In, handler, device
<1>2. ~RXOUTI /\ hpc \in {"data", "idle"} /\ Reached
  BY <1>1, AtWork DEF LoopIsAhead, AnswerIsDue, LastIsSent
<1> QED BY <1>1, <1>2, AtWork DEF SomeoneGoesOn, Reached

LEMMA StatusOutGoesOn == WaitInv /\ StatusOut => SomeoneGoesOn'
<1> SUFFICES ASSUME WaitInv, StatusOut PROVE SomeoneGoesOn' OBVIOUS
<1>1. /\ stage \in {"in", "status out"} /\ stage' = "idle" /\ Reached
      /\ ~RXSTPI /\ RXOUTI'
      /\ UNCHANGED <<RXSTPI, TXINI, fifo, hpc, request, STALLRQ, UDADDR,
                     address, setup>>
  BY DEF StatusOut, handler, device
<1>2. hpc \in {"data", "idle"} \/ (hpc = "answer" /\ fifo = {})
  BY <1>1, AtWork DEF LoopIsAhead, AnswerIsDue, LastIsSent
<1>3. IsDone' BY <1>1, <1>2 DEF IsDone, Reached
<1> QED BY <1>1, <1>3, AtWork DEF SomeoneGoesOn

LEMMA OutGoesOn == WaitInv /\ Out => SomeoneGoesOn'
<1> SUFFICES ASSUME WaitInv, Out PROVE SomeoneGoesOn' OBVIOUS
<1>1. /\ stage = "out" /\ ~RXSTPI /\ ~RXOUTI /\ RXOUTI'
      /\ got' = Smaller(got + ENDPOINT0_SIZE, setup.wLength)
      /\ stage' = IF got' = setup.wLength THEN "status in" ELSE "out"
      /\ UNCHANGED <<RXSTPI, TXINI, fifo, hpc, request, len, STALLRQ, UDADDR,
                     address, setup>>
  BY DEF Out, handler, device, data
<1>2. /\ setup.kind = "HID_SET_REPORT" /\ hpc = "receive" /\ fifo = {}
      /\ len \in Nat \ {0} /\ got \in Nat /\ setup.wLength = got + len
  BY <1>1, AtWork DEF IsTaking, Rest
<1>3. got' = got + PacketSize(len)
  <2>1. /\ len \in Nat /\ got \in Nat /\ ENDPOINT0_SIZE \in Nat
        /\ IF len < ENDPOINT0_SIZE THEN PacketSize(len) = len
           ELSE PacketSize(len) = ENDPOINT0_SIZE
    BY <1>2, PacketBounds
  <2>2. Smaller(got + ENDPOINT0_SIZE, got + len) = got + PacketSize(len)
    BY <2>1 DEF Smaller
  <2> QED BY <1>1, <1>2, <2>2
<1>4. IsTaking'
  <2>1. Rest' = len - PacketSize(len) BY <1>1 DEF Rest, PacketSize
  <2>2. /\ got' \in Nat /\ setup.wLength = got' + Rest'
        /\ got' = setup.wLength <=> Rest' = 0
    BY <1>2, <1>3, <2>1, PacketBounds
  <2> QED BY <1>1, <1>2, <2>2 DEF IsTaking
<1> QED BY <1>1, <1>2, <1>4, AtWork DEF SomeoneGoesOn, Reached

LEMMA StatusInGoesOn == WaitInv /\ StatusIn => SomeoneGoesOn'
<1> SUFFICES ASSUME WaitInv, StatusIn PROVE SomeoneGoesOn' OBVIOUS
<1>1. /\ stage = "status in" /\ stage' = "idle" /\ Reached
      /\ ~RXSTPI /\ fifo # {} /\ fifo' = {} /\ TXINI'
      /\ address' = IF setup.kind = "SET_ADDRESS" THEN setup.wValue ELSE address
      /\ UNCHANGED <<RXSTPI, RXOUTI, hpc, request, STALLRQ, UDADDR, setup>>
  BY DEF StatusIn, handler, device
\* An empty packet waits for the host: the handler has sent its last one.
<1>2. IF setup.kind = "SET_ADDRESS" THEN hpc = "address" ELSE hpc = "idle"
  BY <1>1, AtWork DEF IsTaking, IsEnding
<1>3. IsDone' BY <1>1, <1>2 DEF IsDone, Reached
<1> QED BY <1>1, <1>3, AtWork DEF SomeoneGoesOn

LEMMA StalledGoesOn == WaitInv /\ Stalled => SomeoneGoesOn'
<1> SUFFICES ASSUME WaitInv, Stalled PROVE SomeoneGoesOn' OBVIOUS
<1>1. /\ stage # "idle" /\ stage' = "idle" /\ Reached /\ STALLRQ
      /\ UNCHANGED <<RXSTPI, TXINI, fifo, hpc, request, STALLRQ, UDADDR, address>>
  BY DEF Stalled, handler, device, ueintx
<1>2. ~RXSTPI /\ hpc = "idle" BY <1>1 DEF WaitInv, SomeoneGoesOn, IsAsked
<1>3. IsDone' BY <1>1, <1>2 DEF IsDone, Reached
<1> QED BY <1>1, <1>2, <1>3, AtWork DEF SomeoneGoesOn

LEMMA WaitStep == WaitInv /\ [ControlNext]_controlVars => WaitInv'
<1> SUFFICES ASSUME WaitInv, [ControlNext]_controlVars PROVE WaitInv'
  OBVIOUS
<1>1. ControlInv' BY ControlStep DEF WaitInv
<1>2. CASE Handler
  BY <1>1, <1>2, SetupGoesOn, DataGoesOn, StatusGoesOn, SetAddressGoesOn,
     ReceiveGoesOn
  DEF Handler, WaitInv
<1>3. CASE SendSetup BY <1>1, <1>3, SendSetupGoesOn DEF WaitInv
<1>4. CASE In \/ StatusOut \/ Out
  BY <1>1, <1>4, InGoesOn, StatusOutGoesOn, OutGoesOn DEF WaitInv
<1>5. CASE StatusIn \/ Stalled
  BY <1>1, <1>5, StatusInGoesOn, StalledGoesOn DEF WaitInv
<1>6. CASE UNCHANGED controlVars
  BY <1>1, <1>6
  DEF controlVars, ueintx, device, data, host, WaitInv, SomeoneGoesOn, IsAsked,
      IsDone, IsTaking, IsEnding, Rest, PacketSize, Reached
<1> QED BY <1>2, <1>3, <1>4, <1>5, <1>6 DEF ControlNext

\* The handler of the control requests, which runs with all interrupts off, and
\* the host are never both waiting, also if the host gives up its transfer
\* (usb_rawhid.c:831, 847, 911, 928), where reports have 64 bytes (Requests).
THEOREM AlwaysSomeoneGoesOn == ControlSpec => []NeverBothWait
<1>1. ControlInit => WaitInv
  BY ControlInitInv, SomeoneInit DEF WaitInv
<1>2. WaitInv => NeverBothWait
  <2> SUFFICES ASSUME WaitInv, hpc # "idle" \/ stage # "idle", ~HandlerGoesOn
               PROVE  HostGoesOn
    BY DEF NeverBothWait
  <2>1. ~RXSTPI BY DEF WaitInv, SomeoneGoesOn, IsAsked, HandlerGoesOn
  <2>2. stage # "idle" /\ Reached
    BY <2>1, AtWork DEF IsDone, HandlerGoesOn
  <2>3. CASE stage \in {"in", "status out"}
    BY <2>1, <2>2, <2>3, AtWork
    DEF LoopIsAhead, AnswerIsDue, LastIsSent, HandlerGoesOn, HostGoesOn
  <2>4. CASE stage = "out"
    BY <2>1, <2>2, <2>4, AtWork DEF IsTaking, HandlerGoesOn, HostGoesOn
  <2>5. CASE stage = "status in"
    \* The handler of HID_SET_REPORT has a packet to receive.
    <3>1. CASE IsTaking
      BY <2>5, <3>1, ControlAssumption
      DEF IsTaking, Rest, HandlerGoesOn
    <3>2. CASE IsEnding
      BY <2>1, <2>2, <2>5, <3>2, AtWork
      DEF IsEnding, HandlerGoesOn, HostGoesOn
    <3> QED BY <2>1, <2>5, <3>1, <3>2, AtWork
  <2> QED BY <2>1, <2>2, <2>3, <2>4, <2>5, AtWork
<1> QED BY <1>1, <1>2, WaitStep, PTL DEF ControlSpec

-----------------------------------------------------------------------------
(* Input: what is known between the conversions of a call.                 *)

PotSteps == {"pt0", "pt0_again", "pt1", "pt1_again"}

\* The sampling capacitor is charged when the delay is over.
ChannelSettles ==
  /\ stable \in 0 .. SampleMs /\ wait \in Nat
  /\ ipc = "pt0_again" => ADMUX = 0 /\ stable + wait >= SampleMs
  /\ ipc = "pt1_again" => ADMUX = 1 /\ stable + wait >= SampleMs

\* The pots that the call has read.
PotsRead ==
  /\ DOMAIN input = {"contacts", "pt"}
  /\ input.pt \in [Pots -> AdcValues \union {0}]
  /\ ipc \in {"pt1", "pt1_again"} => input.pt[0] = Position[0]
  /\ PotsAreTheirOwn

InputInv == ChannelSettles /\ PotsRead

LEMMA InputInitInv == InputInit => InputInv
BY InputAssumption
DEF InputInit, InputInv, ChannelSettles, PotsRead, PotsAreTheirOwn, Pots

\* A conversion: its channel is settled if it was selected long enough ago.
LEMMA Conversion ==
  ASSUME InputInv, NEW i \in Pots, AdcRead(i)
  PROVE  /\ ADMUX' = i /\ stable' \in 0 .. SampleMs
         /\ DOMAIN input' = {"contacts", "pt"}
         /\ input'.pt \in [Pots -> AdcValues \union {0}]
         /\ \A j \in Pots \ {i} : input'.pt[j] = input.pt[j]
         /\ ADMUX = i /\ stable = SampleMs => input'.pt[i] = Position[i]
<1>1. /\ DOMAIN input = {"contacts", "pt"}
      /\ input.pt \in [Pots -> AdcValues \union {0}]
      /\ stable \in 0 .. SampleMs /\ SampleMs \in Nat
      /\ Position[i] \in AdcValues
  BY InputAssumption DEF InputInv, PotsRead, ChannelSettles, Pots
<1>2. PICK v \in IF stable' = SampleMs THEN {Position[i]} ELSE AdcValues :
        input' = [input EXCEPT !.pt[i] = v]
  BY DEF AdcRead
<1>3. v \in AdcValues BY <1>1, <1>2
<1>4. /\ input'.pt = [input.pt EXCEPT ![i] = v]
      /\ DOMAIN input' = {"contacts", "pt"}
  BY <1>1, <1>2
<1>5. ADMUX' = i /\ stable' = IF ADMUX = i THEN stable ELSE 0
  BY DEF AdcRead
<1> QED BY <1>1, <1>2, <1>3, <1>4, <1>5

\* The steps of input_update before the pots leave the ADC alone.
LEMMA ContactStep ==
  ASSUME InputInv, ReadButtons \/ ReadSwitches
  PROVE  /\ ipc' \in {"buttons2", "switches", "switches2", "pt0"}
         /\ wait' \in Nat /\ UNCHANGED <<ADMUX, stable, flags>>
         /\ DOMAIN input' = {"contacts", "pt"} /\ input'.pt = input.pt
<1>1. DOMAIN input = {"contacts", "pt"} /\ wait \in Nat /\ DebounceMs \in Nat
  BY InputAssumption DEF InputInv, PotsRead, ChannelSettles
<1>2. ASSUME NEW group, NEW set, Report(group, set)
      PROVE  DOMAIN input' = {"contacts", "pt"} /\ input'.pt = input.pt
  BY <1>1, <1>2 DEF Report
<1>3. CASE FirstSample("button", Buttons, "buttons", "buttons2", "switches")
  BY <1>1, <1>2, <1>3 DEF FirstSample, InputGoto, adc
<1>4. CASE FirstSample("switch", Switches, "switches", "switches2", "pt0")
  BY <1>1, <1>2, <1>4 DEF FirstSample, InputGoto, adc
<1>5. CASE SecondSample(Buttons, "buttons2", "switches")
  BY <1>1, <1>2, <1>5 DEF SecondSample, InputGoto, adc
<1>6. CASE SecondSample(Switches, "switches2", "pt0")
  BY <1>1, <1>2, <1>6 DEF SecondSample, InputGoto, adc
<1>7. CASE Skip("switch", "switches", "pt0")
  BY <1>1, <1>7 DEF Skip, InputGoto, adc
<1> QED BY <1>3, <1>4, <1>5, <1>6, <1>7 DEF ReadButtons, ReadSwitches

LEMMA SettledSum ==
  \A s \in Nat : \A t \in 0 .. s : t + s >= s
OBVIOUS

\* The two conversions of a pot.
LEMMA PotStep ==
  ASSUME InputInv, ReadPots PROVE InputInv'
<1>1. /\ stable \in 0 .. SampleMs /\ wait \in Nat /\ SampleMs \in Nat
      /\ PollMs \in Nat
      /\ input.pt \in [Pots -> AdcValues \union {0}]
      /\ Position \in [Pots -> AdcValues]
      /\ 0 \in Pots /\ 1 \in Pots
  BY InputAssumption DEF InputInv, PotsRead, ChannelSettles, Pots
<1>2. CASE "pot" \notin flags /\ Leave("pt0") /\ UNCHANGED <<operator, adc, flags, input>>
  <2>1. /\ ipc' = "idle" /\ wait' \in Nat
        /\ UNCHANGED <<stable, ADMUX, flags, input>>
    BY <1>1, <1>2 DEF Leave, InputGoto, adc
  <2> QED
    BY <1>1, <1>2, <2>1
    DEF InputInv, PotsRead, ChannelSettles, PotsAreTheirOwn
<1>3. CASE ReadPot(0, "pt0", "pt0_again", "pt1")
  <2>1. /\ ADMUX' = 0 /\ stable' \in 0 .. SampleMs
        /\ DOMAIN input' = {"contacts", "pt"}
        /\ input'.pt \in [Pots -> AdcValues \union {0}]
        /\ ADMUX = 0 /\ stable = SampleMs => input'.pt[0] = Position[0]
    BY <1>1, <1>3, Conversion DEF ReadPot
  <2>2. CASE InputGoto("pt0", "pt0_again") /\ wait' = SampleMs
    <3>0. ipc' = "pt0_again" /\ wait' = SampleMs BY <2>2 DEF InputGoto
    <3>1. wait' \in Nat /\ stable' + wait' >= SampleMs
      BY <1>1, <2>1, <3>0, SettledSum
    <3>2. ChannelSettles' BY <1>1, <2>1, <3>0, <3>1 DEF ChannelSettles
    <3>3. PotsRead' BY <2>1, <3>0 DEF PotsRead, PotsAreTheirOwn
    <3> QED BY <3>2, <3>3 DEF InputInv
  <2>3. CASE InputGoto("pt0_again", "pt1") /\ UNCHANGED wait
    <3>1. ADMUX = 0 /\ stable = SampleMs
      BY <1>1, <2>3 DEF InputGoto, InputInv, ChannelSettles
    <3> QED
      BY <1>1, <2>1, <2>3, <3>1
      DEF InputGoto, InputInv, PotsRead, ChannelSettles, PotsAreTheirOwn
  <2> QED BY <1>3, <2>2, <2>3 DEF ReadPot
<1>4. CASE ReadPot(1, "pt1", "pt1_again", "idle")
  <2>1. /\ ADMUX' = 1 /\ stable' \in 0 .. SampleMs
        /\ DOMAIN input' = {"contacts", "pt"}
        /\ input'.pt \in [Pots -> AdcValues \union {0}]
        /\ \A j \in Pots \ {1} : input'.pt[j] = input.pt[j]
        /\ ADMUX = 1 /\ stable = SampleMs => input'.pt[1] = Position[1]
    BY <1>1, <1>4, Conversion DEF ReadPot
  <2>2. input'.pt[0] = input.pt[0] BY <2>1 DEF Pots
  <2>3. CASE InputGoto("pt1", "pt1_again") /\ wait' = SampleMs
    <3>1. ipc = "pt1" /\ ipc' = "pt1_again"
      BY <2>3 DEF InputGoto
    <3>2. wait' \in Nat /\ stable' + wait' >= SampleMs
      BY <1>1, <2>1, <2>3, SettledSum
    <3>3. ChannelSettles' BY <1>1, <2>1, <3>1, <3>2 DEF ChannelSettles
    <3>4. input'.pt[0] = Position[0]
      BY <2>2, <3>1 DEF InputInv, PotsRead
    <3>5. PotsRead' BY <2>1, <3>1, <3>4 DEF PotsRead, PotsAreTheirOwn
    <3> QED BY <3>3, <3>5 DEF InputInv
  <2>4. CASE Leave("pt1_again")
    <3>1. ADMUX = 1 /\ stable = SampleMs /\ ipc' = "idle" /\ wait' \in Nat
      BY <1>1, <2>4 DEF Leave, InputGoto, InputInv, ChannelSettles
    <3>2. input'.pt[0] = Position[0] /\ input'.pt[1] = Position[1]
      BY <2>1, <2>2, <2>4, <3>1 DEF Leave, InputGoto, InputInv, PotsRead
    <3>3. input'.pt = Position BY <1>1, <2>1, <3>2 DEF Pots
    <3> QED
      BY <1>1, <2>1, <3>1, <3>3
      DEF InputInv, PotsRead, ChannelSettles, PotsAreTheirOwn
  <2> QED BY <1>4, <2>3, <2>4 DEF ReadPot
<1> QED BY <1>2, <1>3, <1>4 DEF ReadPots

LEMMA InputStep == InputInv /\ [InputNext]_inputVars => InputInv'
<1> SUFFICES ASSUME InputInv, [InputNext]_inputVars PROVE InputInv' OBVIOUS
<1> USE DEF InputInv, PotsRead, ChannelSettles, PotsAreTheirOwn
<1>1. CASE Update BY <1>1 DEF Update, InputGoto, adc
<1>2. CASE ReadButtons \/ ReadSwitches BY <1>2, ContactStep
<1>3. CASE ReadPots BY <1>3, PotStep
<1>4. CASE Move BY <1>4 DEF Move, adc
<1>5. CASE Tick
  <2>1. /\ wait > 0 /\ wait' = wait - 1 /\ stable' = Up(stable, SampleMs)
        /\ UNCHANGED <<ADMUX, ipc, flags, input>>
    BY <1>5 DEF Tick
  <2>2. /\ wait' \in Nat /\ stable' \in 0 .. SampleMs
        /\ stable + wait >= SampleMs => stable' + wait' >= SampleMs
    BY <2>1, InputAssumption DEF Up
  <2> QED BY <2>1, <2>2
<1>6. CASE UNCHANGED inputVars BY <1>6 DEF inputVars, adc
<1> QED BY <1>1, <1>2, <1>3, <1>4, <1>5, <1>6 DEF InputNext, InputUpdate

\* A call that reads the pots leaves each with its own value, for every time
\* that the ADC needs and whatever its first conversions give
\* (input.c:100-118, adc.c).
THEOREM PotsAreAlwaysTheirOwn == InputSpec => []PotsAreTheirOwn
<1>1. InputInv => PotsAreTheirOwn BY DEF InputInv, PotsRead
<1> QED BY <1>1, InputInitInv, InputStep, PTL DEF InputSpec

-----------------------------------------------------------------------------
(* Input: one press of a button is one press.                              *)

\* Contacts bounce, no longer than the debounce time, and the operator leaves
\* them alone for as long as a call takes from one report of the buttons to the
\* next, with the time between the calls and the bounce.
LongHold ==
  /\ BounceMs \in 1 .. DebounceMs
  /\ 2 * DebounceMs + 2 * SampleMs + PollMs + BounceMs <= HoldMs

\* The steps: how long ago the buttons were reported last, at most, when the
\* delay of the step is over, and how long that delay is.
Reach ==
  [ idle |-> DebounceMs + 2 * SampleMs + PollMs,
    buttons |-> DebounceMs + 2 * SampleMs + PollMs,
    buttons2 |-> 2 * DebounceMs + 2 * SampleMs + PollMs,
    switches |-> 0,
    switches2 |-> DebounceMs,
    pt0 |-> DebounceMs,
    pt0_again |-> DebounceMs + SampleMs,
    pt1 |-> DebounceMs + SampleMs,
    pt1_again |-> DebounceMs + 2 * SampleMs ]

Delay ==
  [ idle |-> PollMs, buttons |-> 0, buttons2 |-> DebounceMs,
    switches |-> 0, switches2 |-> DebounceMs,
    pt0 |-> 0, pt0_again |-> SampleMs, pt1 |-> 0, pt1_again |-> SampleMs ]

Reported == input.contacts \intersect Buttons
Held == held \intersect Buttons
Before == before \intersect Buttons

DelaysAreBounded ==
  /\ age \in 0 .. HoldMs
  /\ ipc \in DOMAIN Delay /\ wait \in 0 .. Delay[ipc]
  /\ DOMAIN input = {"contacts", "pt"}

\* What was reported last is what is held, or what was held before a change
\* that is not much older than the report.
ReportIsRecent ==
  Reported = Held \/ (Reported = Before /\ age < Reach[ipc] - wait + BounceMs)

\* A contact that was reported in its bounce was not the first one.
FirstIsSettled ==
  Reported = Held /\ Reported # Before /\ age < BounceMs =>
    Reported = {} \/ Before # {}

\* In the delay before the second sample: the change that is not in the first
\* sample is younger than the delay, and a button was active before it.
SecondIsLater ==
  ipc = "buttons2" =>
    /\ Reported = Held /\ Reported # Before => age >= DebounceMs - wait
    /\ age >= DebounceMs - wait \/ Before # {}
    /\ Held # {} \/ (Before # {} /\ age < DebounceMs - wait + BounceMs)

ContactsInv ==
  DelaysAreBounded /\ ReportIsRecent /\ FirstIsSettled /\ SecondIsLater

-----------------------------------------------------------------------------
LEMMA Milliseconds ==
  ASSUME LongHold
  PROVE  /\ {DebounceMs, SampleMs, BounceMs, HoldMs, PollMs} \subseteq Nat
         /\ PollMs >= 1 /\ BounceMs <= DebounceMs /\ BounceMs >= 1
         /\ HoldMs >= DebounceMs + BounceMs + 1
         /\ \A s \in DOMAIN Delay : /\ Delay[s] \in Nat /\ Reach[s] \in Nat
                                    /\ Reach[s] + BounceMs <= HoldMs
         /\ DOMAIN Reach = DOMAIN Delay
<1>1. /\ {DebounceMs, SampleMs, BounceMs, HoldMs, PollMs} \subseteq Nat
      /\ PollMs >= 1 /\ BounceMs <= DebounceMs /\ BounceMs >= 1
      /\ HoldMs >= DebounceMs + BounceMs + 1
      /\ 2 * DebounceMs + 2 * SampleMs + PollMs + BounceMs <= HoldMs
  BY InputAssumption DEF LongHold
<1>2. \A s \in DOMAIN Delay : /\ Delay[s] \in Nat /\ Reach[s] \in Nat
                              /\ Reach[s] + BounceMs <= HoldMs
  BY <1>1 DEF Delay, Reach
<1>3. DOMAIN Reach = DOMAIN Delay BY DEF Delay, Reach
<1> QED BY <1>1, <1>2, <1>3

LEMMA ContactsInitInv == LongHold /\ InputInit => ContactsInv
<1> SUFFICES ASSUME LongHold, InputInit PROVE ContactsInv OBVIOUS
<1>1. /\ HoldMs \in Nat /\ BounceMs <= HoldMs /\ PollMs \in Nat
  BY Milliseconds
<1>2. /\ input = [contacts |-> {}, pt |-> [i \in Pots |-> 0]]
      /\ held = {} /\ before = {} /\ age = HoldMs
      /\ ipc = "idle" /\ wait = 0
  BY DEF InputInit
<1>3. Reported = {} /\ Held = {} /\ Before = {}
  BY <1>2 DEF Reported, Held, Before
<1>4. DelaysAreBounded BY <1>1, <1>2 DEF DelaysAreBounded, Delay
<1> QED BY <1>2, <1>3, <1>4
        DEF ContactsInv, ReportIsRecent, FirstIsSettled, SecondIsLater

\* The pins of the buttons, and what a report of them or of the switches sets.
LEMMA ButtonPins ==
  Pins(Buttons) = {Held} \union IF age < BounceMs THEN {Before} ELSE {}
BY DEF Pins, Held, Before

LEMMA ReportOfButtons ==
  ASSUME DOMAIN input = {"contacts", "pt"}, NEW set, set \subseteq Buttons,
         Report(Buttons, set)
  PROVE  DOMAIN input' = {"contacts", "pt"} /\ Reported' = set
<1>1. /\ DOMAIN input' = {"contacts", "pt"}
      /\ input'.contacts = (input.contacts \ Buttons) \union set
  BY DEF Report
<1> QED BY <1>1 DEF Reported

LEMMA ReportOfSwitches ==
  ASSUME DOMAIN input = {"contacts", "pt"}, NEW set, set \subseteq Switches,
         Report(Switches, set)
  PROVE  DOMAIN input' = {"contacts", "pt"} /\ Reported' = Reported
<1>1. /\ DOMAIN input' = {"contacts", "pt"}
      /\ input'.contacts = (input.contacts \ Switches) \union set
  BY DEF Report
<1> QED BY <1>1, InputAssumption DEF Reported

\* A step that reports no buttons and is as far from the last report as the
\* one before.
LEMMA OtherStep ==
  ASSUME ContactsInv, LongHold,
         UNCHANGED <<held, before, age>>, Reported' = Reported,
         DOMAIN input' = {"contacts", "pt"},
         ipc' \in DOMAIN Delay \ {"buttons2"}, wait' \in 0 .. Delay[ipc'],
         Reach[ipc'] - wait' >= Reach[ipc] - wait
  PROVE  ContactsInv'
<1>1. Held' = Held /\ Before' = Before BY DEF Held, Before
<1>2. DelaysAreBounded' BY DEF ContactsInv, DelaysAreBounded, Delay
<1>3. /\ age \in Nat /\ BounceMs \in Nat /\ wait \in Int /\ wait' \in Int
      /\ Reach[ipc] \in Int /\ Reach[ipc'] \in Int
  BY Milliseconds DEF ContactsInv, DelaysAreBounded
<1>4. age < Reach[ipc] - wait + BounceMs => age < (Reach[ipc] - wait)' + BounceMs
  <2> DEFINE a == Reach[ipc] - wait
             b == Reach[ipc'] - wait'
  <2>1. a \in Int /\ b \in Int /\ b >= a BY <1>3
  <2> HIDE DEF a, b
  <2>2. age < a + BounceMs => age < b + BounceMs BY <1>3, <2>1
  <2>3. Reach' = Reach BY DEF Reach
  <2> QED BY <2>2, <2>3 DEF a, b
<1>5. ReportIsRecent' BY <1>1, <1>4 DEF ContactsInv, ReportIsRecent
<1>6. FirstIsSettled' BY <1>1 DEF ContactsInv, FirstIsSettled
<1>7. SecondIsLater' BY DEF SecondIsLater
<1> QED BY <1>2, <1>5, <1>6, <1>7 DEF ContactsInv

-----------------------------------------------------------------------------
(* The steps.                                                              *)

LEMMA SwitchStep ==
  ASSUME LongHold, ContactsInv, ReadSwitches
  PROVE  ContactsInv' /\ Reported' = Reported
<1> DEFINE more == ipc' \in {"switches2", "pt0"} /\ wait' \in 0 .. Delay[ipc']
                     /\ Reach[ipc'] - wait' >= Reach[ipc] - wait
<1>1. DOMAIN input = {"contacts", "pt"} /\ DebounceMs \in Nat
  BY Milliseconds DEF ContactsInv, DelaysAreBounded
<1>2. /\ UNCHANGED <<held, before, age>> /\ Reported' = Reported
      /\ DOMAIN input' = {"contacts", "pt"} /\ more
  <2>1. CASE Skip("switch", "switches", "pt0")
    BY <1>1, <2>1
    DEF Skip, InputGoto, operator, Reported, Delay, Reach
  <2>2. ASSUME NEW set \in Pins(Switches)
        PROVE  set \subseteq Switches
    BY <2>2 DEF Pins
  <2>3. CASE FirstSample("switch", Switches, "switches", "switches2", "pt0")
    <3>1. UNCHANGED <<held, before, age>> BY <2>3 DEF FirstSample, operator
    <3>2. PICK set \in Pins(Switches) :
            IF set # {}
            THEN /\ InputGoto("switches", "switches2") /\ wait' = DebounceMs
                 /\ UNCHANGED input
            ELSE /\ InputGoto("switches", "pt0") /\ Report(Switches, {})
                 /\ UNCHANGED wait
      BY <2>3 DEF FirstSample
    <3>3. CASE set # {}
      BY <1>1, <3>1, <3>2, <3>3 DEF InputGoto, Reported, Delay, Reach
    <3>4. CASE set = {}
      <4>1. /\ InputGoto("switches", "pt0") /\ Report(Switches, {})
            /\ UNCHANGED wait
        BY <3>2, <3>4
      <4>2. DOMAIN input' = {"contacts", "pt"} /\ Reported' = Reported
        BY <1>1, <4>1, ReportOfSwitches
      <4>3. more BY <1>1, <4>1 DEF InputGoto, Delay, Reach
      <4> QED BY <3>1, <4>2, <4>3
    <3> QED BY <3>3, <3>4
  <2>4. CASE SecondSample(Switches, "switches2", "pt0")
    <3>1. /\ UNCHANGED <<held, before, age>> /\ UNCHANGED wait
          /\ InputGoto("switches2", "pt0")
      BY <2>4 DEF SecondSample, operator
    <3>2. PICK set \in Pins(Switches) : Report(Switches, set)
      BY <2>4 DEF SecondSample
    <3>3. DOMAIN input' = {"contacts", "pt"} /\ Reported' = Reported
      BY <1>1, <2>2, <3>2, ReportOfSwitches
    <3>4. more BY <1>1, <3>1 DEF InputGoto, Delay, Reach
    <3> QED BY <3>1, <3>3, <3>4
  <2> QED BY <2>1, <2>3, <2>4 DEF ReadSwitches
<1>3. ipc' \in DOMAIN Delay \ {"buttons2"} BY <1>2 DEF Delay
<1> QED BY <1>2, <1>3, OtherStep

LEMMA PotsStep ==
  ASSUME LongHold, ContactsInv, ReadPots
  PROVE  ContactsInv' /\ Reported' = Reported
<1> DEFINE more == /\ ipc' \in {"pt0_again", "pt1", "pt1_again", "idle"}
                   /\ wait' \in 0 .. Delay[ipc']
                   /\ Reach[ipc'] - wait' >= Reach[ipc] - wait
<1>1. /\ DOMAIN input = {"contacts", "pt"}
      /\ DebounceMs \in Nat /\ SampleMs \in Nat /\ PollMs \in Nat
  BY Milliseconds DEF ContactsInv, DelaysAreBounded
<1>2. ASSUME NEW i \in Pots, AdcRead(i)
      PROVE  DOMAIN input' = {"contacts", "pt"} /\ Reported' = Reported
  <2>1. PICK v : input' = [input EXCEPT !.pt[i] = v] BY <1>2 DEF AdcRead
  <2>2. input'.contacts = input.contacts /\ DOMAIN input' = DOMAIN input
    BY <1>1, <2>1
  <2> QED BY <1>1, <2>2 DEF Reported
<1>3. ASSUME NEW from \in {"pt0", "pt1_again"}, Leave(from) PROVE more
  BY <1>1, <1>3 DEF Leave, InputGoto, Delay, Reach
<1>4. CASE "pot" \notin flags /\ Leave("pt0") /\ UNCHANGED <<operator, adc, flags, input>>
  <2>1. UNCHANGED <<held, before, age>> /\ UNCHANGED input BY <1>4 DEF operator
  <2>2. more BY <1>3, <1>4
  <2>3. ipc' \in DOMAIN Delay \ {"buttons2"} BY <2>2 DEF Delay
  <2>4. Reported' = Reported BY <2>1 DEF Reported
  <2> QED BY <1>1, <2>1, <2>2, <2>3, <2>4, OtherStep
<1>5. CASE ReadPot(0, "pt0", "pt0_again", "pt1")
  <2>1. UNCHANGED <<held, before, age>> /\ AdcRead(0)
    BY <1>5 DEF ReadPot, operator
  <2>2. more BY <1>1, <1>5 DEF ReadPot, InputGoto, Delay, Reach
  <2>3. ipc' \in DOMAIN Delay \ {"buttons2"} BY <2>2 DEF Delay
  <2>4. DOMAIN input' = {"contacts", "pt"} /\ Reported' = Reported
    BY <1>2, <2>1 DEF Pots
  <2> QED BY <2>1, <2>2, <2>3, <2>4, OtherStep
<1>6. CASE ReadPot(1, "pt1", "pt1_again", "idle")
  <2>1. UNCHANGED <<held, before, age>> /\ AdcRead(1)
    BY <1>6 DEF ReadPot, operator
  <2>2. \/ InputGoto("pt1", "pt1_again") /\ wait' = SampleMs
        \/ Leave("pt1_again")
    BY <1>6 DEF ReadPot
  <2>3. ASSUME InputGoto("pt1", "pt1_again") /\ wait' = SampleMs PROVE more
    BY <1>1, <2>3 DEF InputGoto, Delay, Reach
  <2>4. more BY <1>3, <2>2, <2>3
  <2>5. ipc' \in DOMAIN Delay \ {"buttons2"} BY <2>4 DEF Delay
  <2>6. DOMAIN input' = {"contacts", "pt"} /\ Reported' = Reported
    BY <1>2, <2>1 DEF Pots
  <2> QED BY <2>1, <2>4, <2>5, <2>6, OtherStep
<1> QED BY <1>4, <1>5, <1>6 DEF ReadPots

LEMMA UpdateStep ==
  ASSUME LongHold, ContactsInv, Update
  PROVE  ContactsInv' /\ Reported' = Reported
<1>1. /\ UNCHANGED <<held, before, age>> /\ UNCHANGED wait /\ UNCHANGED input
      /\ ipc = "idle" /\ ipc' = "buttons" /\ wait = 0
      /\ DOMAIN input = {"contacts", "pt"}
  BY DEF Update, InputGoto, operator, ContactsInv, DelaysAreBounded
<1>2. Reported' = Reported BY <1>1 DEF Reported
<1>3. ipc' \in DOMAIN Delay \ {"buttons2"} /\ wait' \in 0 .. Delay[ipc']
      /\ Reach[ipc'] - wait' >= Reach[ipc] - wait
  BY <1>1, Milliseconds DEF Delay, Reach
<1> QED BY <1>1, <1>2, <1>3, OtherStep

\* After a long hold the report is right.
LEMMA MoveStep ==
  ASSUME LongHold, ContactsInv, Move PROVE ContactsInv'
<1>1. /\ age = HoldMs /\ before' = held /\ age' = 0
      /\ UNCHANGED <<ipc, wait, input>>
  BY DEF Move
<1>2. /\ ipc \in DOMAIN Delay /\ wait \in 0 .. Delay[ipc]
      /\ DOMAIN input = {"contacts", "pt"}
      /\ Delay[ipc] \in Nat /\ Reach[ipc] \in Nat /\ HoldMs \in Nat
      /\ Reach[ipc] + BounceMs <= HoldMs /\ BounceMs \in Nat /\ BounceMs >= 1
  BY Milliseconds DEF ContactsInv, DelaysAreBounded
<1>3. Reported' = Reported /\ Before' = Held
  BY <1>1 DEF Reported, Before, Held
<1>4. ~(age < Reach[ipc] - wait + BounceMs) BY <1>1, <1>2
<1>5. Reported = Held BY <1>4 DEF ContactsInv, ReportIsRecent
<1>6. DelaysAreBounded' BY <1>1, <1>2 DEF DelaysAreBounded, Delay
<1>7. Reach[ipc] - wait >= 0
  BY <1>2, Milliseconds DEF Delay, Reach
<1>8. ReportIsRecent'
  <2>1. age' < Reach[ipc] - wait + BounceMs BY <1>1, <1>2, <1>7
  <2>2. (Reach[ipc] - wait)' = Reach[ipc] - wait BY <1>1 DEF Reach
  <2> QED BY <1>3, <1>5, <2>1, <2>2 DEF ReportIsRecent
<1>9. FirstIsSettled' BY <1>3, <1>5 DEF FirstIsSettled
<1>10. SecondIsLater'
  <2> SUFFICES ASSUME ipc = "buttons2"
               PROVE  /\ Before' # {} /\ age' < DebounceMs - wait + BounceMs
                      /\ Reported' = Before'
    BY <1>1 DEF SecondIsLater
  <2>1. wait \in 0 .. DebounceMs /\ DebounceMs \in Nat
    BY <1>2, Milliseconds DEF Delay
  <2>2. HoldMs >= DebounceMs + BounceMs + 1 BY Milliseconds
  <2>3. ~(age < DebounceMs - wait + BounceMs) BY <1>1, <1>2, <2>1, <2>2
  <2>4. Held # {} BY <2>3 DEF ContactsInv, SecondIsLater
  <2>5. age' < DebounceMs - wait + BounceMs BY <1>1, <1>2, <2>1
  <2> QED BY <1>3, <1>5, <2>4, <2>5
<1> QED BY <1>6, <1>8, <1>9, <1>10 DEF ContactsInv

LEMMA TickStep ==
  ASSUME LongHold, ContactsInv, Tick PROVE ContactsInv'
<1>1. /\ wait > 0 /\ wait' = wait - 1 /\ age' = Up(age, HoldMs)
      /\ UNCHANGED <<held, before, ipc, input>>
  BY DEF Tick
<1>2. /\ ipc \in DOMAIN Delay /\ wait \in 0 .. Delay[ipc]
      /\ DOMAIN input = {"contacts", "pt"} /\ age \in 0 .. HoldMs
      /\ Delay[ipc] \in Nat /\ Reach[ipc] \in Nat /\ HoldMs \in Nat
      /\ Reach[ipc] + BounceMs <= HoldMs /\ BounceMs \in Nat
      /\ DebounceMs \in Nat /\ HoldMs >= DebounceMs + BounceMs + 1
  BY Milliseconds DEF ContactsInv, DelaysAreBounded
<1>3. Reported' = Reported /\ Before' = Before /\ Held' = Held
  BY <1>1 DEF Reported, Before, Held
<1>4. age' \in 0 .. HoldMs /\ age' >= age /\ wait' \in 0 .. Delay[ipc]
      /\ (age' = age + 1 \/ age = HoldMs)
  BY <1>1, <1>2 DEF Up
<1>5. DelaysAreBounded' BY <1>1, <1>2, <1>4 DEF DelaysAreBounded, Delay
<1>6. ReportIsRecent'
  <2>1. age < Reach[ipc] - wait + BounceMs => age' < Reach[ipc] - wait' + BounceMs
    BY <1>1, <1>2, <1>4
  <2>2. (Reach[ipc] - wait)' = Reach[ipc] - wait' BY <1>1 DEF Reach
  <2> QED BY <1>3, <2>1, <2>2 DEF ContactsInv, ReportIsRecent
<1>7. FirstIsSettled' 
  <2>1. age' < BounceMs => age < BounceMs BY <1>2, <1>4
  <2> QED BY <1>3, <2>1 DEF ContactsInv, FirstIsSettled
<1>8. SecondIsLater'
  <2> SUFFICES ASSUME ipc = "buttons2"
               PROVE  /\ Reported = Held /\ Reported # Before =>
                           age' >= DebounceMs - wait'
                      /\ age' >= DebounceMs - wait' \/ Before # {}
                      /\ \/ Held # {}
                         \/ /\ Before # {}
                            /\ age' < DebounceMs - wait' + BounceMs
    BY <1>1, <1>3 DEF SecondIsLater
  <2>1. wait \in 0 .. DebounceMs BY <1>2 DEF Delay
  <2>2. age >= DebounceMs - wait => age' >= DebounceMs - wait'
    BY <1>1, <1>2, <1>4, <2>1
  <2>3. age < DebounceMs - wait + BounceMs =>
          age' < DebounceMs - wait' + BounceMs
    BY <1>1, <1>2, <1>4, <2>1
  <2> QED BY <2>2, <2>3 DEF ContactsInv, SecondIsLater
<1> QED BY <1>5, <1>6, <1>7, <1>8 DEF ContactsInv

\* The samples of the buttons: the first is not wrong when it is empty, and the
\* second comes when the contact no longer bounces.
LEMMA ButtonStep ==
  ASSUME LongHold, ContactsInv, ReadButtons
  PROVE  /\ ContactsInv' /\ UNCHANGED held
         /\ Reported = Held => Reported' = Held
<1>1. /\ UNCHANGED <<held, before, age>> /\ wait = 0
      /\ ipc \in {"buttons", "buttons2"}
  BY DEF ReadButtons, FirstSample, SecondSample, InputGoto, operator
<1>2. Held' = Held /\ Before' = Before BY <1>1 DEF Held, Before
<1>3. /\ DOMAIN input = {"contacts", "pt"} /\ age \in 0 .. HoldMs
      /\ HoldMs \in Nat /\ DebounceMs \in Nat /\ BounceMs \in Nat
      /\ BounceMs <= DebounceMs
  BY Milliseconds DEF ContactsInv, DelaysAreBounded
<1>4. ASSUME NEW set \in Pins(Buttons)
      PROVE  /\ set \subseteq Buttons
             /\ set = Held \/ (set = Before /\ age < BounceMs)
  BY <1>4, ButtonPins DEF Held, Before
\* The report of a sample.
<1>5. ASSUME NEW set \in Pins(Buttons), Report(Buttons, set),
             ipc' = "switches", wait' = 0,
             Reported' = Held /\ Held # Before /\ age < BounceMs =>
               Reported' = {} \/ Before # {}
      PROVE  ContactsInv' /\ Reported' = set
  <2>1. DOMAIN input' = {"contacts", "pt"} /\ Reported' = set
    BY <1>3, <1>4, <1>5, ReportOfButtons
  <2>2. DelaysAreBounded' BY <1>1, <1>3, <1>5, <2>1 DEF DelaysAreBounded, Delay
  <2>3. (Reach[ipc] - wait + BounceMs)' = BounceMs BY <1>3, <1>5 DEF Reach
  <2>4. ReportIsRecent' BY <1>1, <1>2, <1>4, <2>1, <2>3 DEF ReportIsRecent
  <2>5. FirstIsSettled' BY <1>1, <1>2, <1>5, <2>1 DEF FirstIsSettled
  <2>6. SecondIsLater' BY <1>5 DEF SecondIsLater
  <2> QED BY <2>1, <2>2, <2>4, <2>5, <2>6 DEF ContactsInv
<1>6. CASE FirstSample("button", Buttons, "buttons", "buttons2", "switches")
  <2>1. PICK set \in Pins(Buttons) :
          IF set # {}
          THEN /\ InputGoto("buttons", "buttons2") /\ wait' = DebounceMs
               /\ UNCHANGED input
          ELSE /\ InputGoto("buttons", "switches") /\ Report(Buttons, {})
               /\ UNCHANGED wait
    BY <1>6 DEF FirstSample
  <2>2. CASE set # {}
    <3>1. /\ ipc = "buttons" /\ ipc' = "buttons2" /\ wait' = DebounceMs
          /\ UNCHANGED input
      BY <2>1, <2>2 DEF InputGoto
    <3>2. Reported' = Reported BY <3>1 DEF Reported
    <3>3. DelaysAreBounded' BY <1>1, <1>3, <3>1 DEF DelaysAreBounded, Delay
    <3>4. (Reach[ipc] - wait + BounceMs)' = Reach[ipc] - wait + BounceMs
      BY <1>1, <1>3, <3>1, Milliseconds DEF Reach
    <3>5. ReportIsRecent'
      BY <1>1, <1>2, <3>2, <3>4 DEF ContactsInv, ReportIsRecent
    <3>6. FirstIsSettled' BY <1>1, <1>2, <3>2 DEF ContactsInv, FirstIsSettled
    <3>7. /\ age >= DebounceMs - wait'
          /\ age < BounceMs => age < DebounceMs - wait' + BounceMs
      BY <1>3, <3>1
    <3>8. Held # {} \/ (Before # {} /\ age < BounceMs) BY <1>4, <2>2
    <3>9. SecondIsLater' BY <1>1, <1>2, <3>7, <3>8 DEF SecondIsLater
    <3> QED BY <1>1, <3>2, <3>3, <3>5, <3>6, <3>9 DEF ContactsInv
  <2>3. CASE set = {}
    <3>1. /\ Report(Buttons, set) /\ ipc' = "switches" /\ wait' = 0
          /\ Reported' = {}
      BY <1>1, <1>3, <2>1, <2>3, ReportOfButtons DEF InputGoto
    <3>2. ContactsInv' BY <1>5, <3>1
    <3>3. Reported = Held => Held = {}
      <4>1. Held = {} \/ (Before = {} /\ age < BounceMs) BY <1>4, <2>3
      <4> QED BY <4>1 DEF ContactsInv, FirstIsSettled
    <3> QED BY <1>1, <3>1, <3>2, <3>3
  <2> QED BY <2>2, <2>3
<1>7. CASE SecondSample(Buttons, "buttons2", "switches")
  <2>1. ipc = "buttons2" /\ ipc' = "switches" /\ wait' = 0
    BY <1>1, <1>7 DEF SecondSample, InputGoto
  <2>2. PICK set \in Pins(Buttons) : Report(Buttons, set)
    BY <1>7 DEF SecondSample
  <2>3. age < BounceMs => ~(age >= DebounceMs - wait) BY <1>1, <1>3
  <2>4. /\ age < BounceMs /\ Reported = Held => Held = Before
        /\ age < BounceMs => Before # {}
    BY <2>1, <2>3 DEF ContactsInv, SecondIsLater
  <2>5. ContactsInv' /\ Reported' = set BY <1>5, <2>1, <2>2, <2>4
  <2>6. Reported = Held => set = Held BY <1>4, <2>4
  <2> QED BY <1>1, <2>5, <2>6
<1> QED BY <1>6, <1>7 DEF ReadButtons

LEMMA ContactsStep ==
  ASSUME LongHold, ContactsInv, [InputNext]_inputVars
  PROVE  /\ ContactsInv'
         /\ Reported = Held /\ UNCHANGED held => Reported' = Held'
<1>1. CASE ReadButtons
  BY <1>1, ButtonStep DEF Held
<1>2. CASE ReadSwitches \/ ReadPots \/ Update
  BY <1>2, SwitchStep, PotsStep, UpdateStep DEF Held
<1>3. CASE Move BY <1>3, MoveStep DEF Move, Reported, Held
<1>4. CASE Tick BY <1>4, TickStep DEF Tick, Reported, Held
<1>5. CASE UNCHANGED inputVars
  BY <1>5
  DEF inputVars, operator, ContactsInv, DelaysAreBounded, ReportIsRecent,
      FirstIsSettled, SecondIsLater, Reported, Held, Before, Reach, Delay
<1> QED BY <1>1, <1>2, <1>3, <1>4, <1>5 DEF InputNext, InputUpdate

\* As soon as the buttons are reported as they are held they stay so, although
\* a contact still bounces and only an active first sample is repeated: the
\* delay is as long as a bounce, and a first sample in a bounce that is not
\* repeated says what the second one of the call before said
\* (input.c:44-62, 91-103).
THEOREM PressesDoNotFlicker == ASSUME LongHold PROVE InputSpec => NoFlicker
<1>1. InputInit => ContactsInv BY ContactsInitInv
<1>2. ContactsInv /\ [InputNext]_inputVars => ContactsInv' BY ContactsStep
<1>3. ContactsInv /\ [InputNext]_inputVars =>
        [input.contacts \intersect Buttons = held \intersect Buttons
           /\ UNCHANGED held =>
         input'.contacts \intersect Buttons = held \intersect Buttons]_inputVars
  BY ContactsStep DEF Reported, Held
<1> QED BY <1>1, <1>2, <1>3, PTL DEF InputSpec, NoFlicker
=============================================================================

---------------------------- MODULE ReaderProofs ----------------------------
(***************************************************************************)
(* For every length of a tick above the event period, of the watchdog and  *)
(* of the timeout: the watchdog bounds a run of the motor, and a timeout   *)
(* longer than the watchdog by a report and two ticks is never reached     *)
(* (Reader).  For every number of devices, interfaces and handles: what is *)
(* claimed and what is open is what the list says (Hid).  For every set of *)
(* items, every number of them and every length received: the parser finds *)
(* what they say and reads nothing behind them (HidParser).                *)
(***************************************************************************)
EXTENDS Reader, Hid, HidParser, Recursion

\* The longest wait of one report, and so the time between the periodic report
\* and the next wdt_reset.
ReportTicks == (ReportMs + MsPerTick - 1) \div MsPerTick

\* A timeout of the reader that outlasts the watchdog.
LongTimeout == WatchdogMs + ReportMs + 2 * MsPerTick <= RecvTimeoutMs

-----------------------------------------------------------------------------
(* Ticks.                                                                  *)

LEMMA Division ==
  ASSUME NEW a \in Nat
  PROVE  /\ a \div MsPerTick \in Nat
         /\ MsPerTick * (a \div MsPerTick) <= a
         /\ a < MsPerTick * (a \div MsPerTick) + MsPerTick
BY BoardAssumption DEF TIME_EVENT_PERIOD_MS

LEMMA SpansAreTicks ==
  /\ \A a, b \in Nat : Spans(a, b) \subseteq Nat
  /\ \A n \in Spans(0, ReportMs) : n <= ReportTicks
  /\ ReportTicks \in Nat
<1>1. ReportTicks \in Nat
  <2>1. ReportMs + MsPerTick - 1 \in Nat BY BoardAssumption DEF ReportMs, StateMs, SendMs,
    ADC_DEFAULT_SAMPLE_TIME_MS
  <2> QED BY <2>1, Division DEF ReportTicks
<1>2. ASSUME NEW a \in Nat, NEW b \in Nat PROVE Spans(a, b) \subseteq Nat
  <2>1. b + MsPerTick - 1 \in Nat BY BoardAssumption DEF TIME_EVENT_PERIOD_MS
  <2> QED BY <2>1, Division DEF Spans
<1> QED BY <1>1, <1>2 DEF Spans, ReportTicks

LEMMA TimeoutIsLater ==
  ASSUME LongTimeout PROVE WatchdogTicks + ReportTicks < RecvTicks
<1>1. /\ MsPerTick \in Nat /\ MsPerTick > 0
      /\ WatchdogMs \in Nat /\ RecvTimeoutMs \in Nat /\ ReportMs \in Nat
      /\ ReportMs + MsPerTick - 1 \in Nat
  BY BoardAssumption, ReaderAssumption DEF ReportMs, StateMs, SendMs,
     ADC_DEFAULT_SAMPLE_TIME_MS, TIME_EVENT_PERIOD_MS
<1>2. /\ WatchdogTicks \in Nat /\ ReportTicks \in Nat /\ RecvTicks \in Nat
      /\ MsPerTick * WatchdogTicks <= WatchdogMs
      /\ MsPerTick * ReportTicks <= ReportMs + MsPerTick - 1
      /\ RecvTimeoutMs < MsPerTick * RecvTicks + MsPerTick
  BY <1>1, Division DEF WatchdogTicks, ReportTicks, RecvTicks
<1>3. SUFFICES ASSUME RecvTicks <= WatchdogTicks + ReportTicks PROVE FALSE
  BY <1>2
<1>4. PICK k \in Nat : WatchdogTicks + ReportTicks = RecvTicks + k
  BY <1>2, <1>3, SMT
<1>5. MsPerTick * WatchdogTicks + MsPerTick * ReportTicks
        = MsPerTick * RecvTicks + MsPerTick * k
  BY <1>1, <1>2, <1>4
<1>6. MsPerTick * k >= 0 BY <1>1
<1> QED BY <1>1, <1>2, <1>5, <1>6 DEF LongTimeout

-----------------------------------------------------------------------------
(* The parts of the inductive invariant.                                   *)

TicksOK ==
  /\ left \in Nat /\ wdt \in 0 .. WatchdogTicks /\ bank \in Nat
  /\ waited \in Nat

\* Until the end of its first delay in main the board has sent nothing.
Booting == pc = "poll" \/ (pc = "main" /\ left > ReportTicks)

HasReport ==
  heard \/ rpc = "print" \/ (rpc = "test" /\ bytes_read = PROTO_MSG_SIZE)

BootIsQuiet == Booting => bank = 0 /\ (stale \/ ~HasReport)

\* An open handle is that of a configured device, or stale.
Connected ==
  /\ rpc \in {"open", "failed to open"} => ~HasReport
  /\ rpc \notin {"open", "failed to open"} => stale \/ usb

\* The reader waits for a board that it has heard before.
Listening == rpc = "recv" /\ ~stale /\ heard /\ bank = 0

\* It has waited hardly longer than the watchdog.
GapIsShort ==
  Listening => /\ waited <= wdt + ReportTicks
               /\ pc = "main" /\ ~hung => waited + left <= ReportTicks
               /\ ~event => waited = 0

ResultIsReport ==
  rpc = "test" /\ heard => bytes_read = -1 \/ bytes_read = PROTO_MSG_SIZE

ReaderInv ==
  /\ TicksOK
  /\ BootIsQuiet /\ Connected /\ GapIsShort
  /\ ResultIsReport /\ BoardIsHeardInTime

-----------------------------------------------------------------------------
LEMMA InitInv == ReaderInit => ReaderInv
<1> SUFFICES ASSUME ReaderInit PROVE ReaderInv OBVIOUS
<1> USE DEF ReaderInit, BoardInit
<1>1. TicksOK
  <2>1. WatchdogTicks \in Nat BY Division, BoardAssumption DEF WatchdogTicks
  <2>2. left \in Nat
    <3>1. left \in Spans(1000, 1000) OBVIOUS
    <3> QED BY <3>1, SpansAreTicks
  <2> QED BY <2>1, <2>2 DEF TicksOK
<1>2. BootIsQuiet /\ Connected /\ ResultIsReport
  BY DEF BootIsQuiet, Connected, ResultIsReport, HasReport
<1>3. GapIsShort /\ BoardIsHeardInTime
  BY DEF GapIsShort, Listening, BoardIsHeardInTime
<1> QED BY <1>1, <1>2, <1>3 DEF ReaderInv

-----------------------------------------------------------------------------
(* The main thread of the board: it leaves the reader alone.               *)

LEMMA WorkStep ==
  ASSUME NEW from, NEW steps, NEW least \in Nat, NEW most \in Nat,
         NEW n \in Nat, Work(from, steps, least, most, n), TicksOK
  PROVE  /\ pc = from /\ pc' \in steps
         /\ left' \in Nat /\ bank' \in Nat
         /\ UNCHANGED <<usb, event, hung>>
         /\ usb => bank' > 0 \/ bank' = bank
<1>1. /\ pc = from /\ pc' \in steps /\ left' \in Spans(least, most)
      /\ UNCHANGED <<usb, event, hung>>
      /\ bank' = IF ~usb THEN bank
                 ELSE IF bank + n <= Banks THEN bank + n ELSE Banks
  BY DEF Work, Goto, Send
<1>2. left' \in Nat BY <1>1, SpansAreTicks
<1> QED BY <1>1, <1>2 DEF TicksOK, Banks

ProcedureSteps ==
  {"read0", "wait0", "start0", "run0", "stop0", "read1", "run1", "stop1",
   "read2", "run2", "stop2", "end", "tail"}

\* A step of a procedure sends reports to a configured host, or is one of the
\* two that do not.
LEMMA ProcedureStep ==
  ASSUME TicksOK, Procedures
  PROVE  /\ pc' \in ProcedureSteps
         /\ left' \in Nat /\ bank' \in Nat
         /\ UNCHANGED <<usb, event, wdt, hung>>
         /\ usb => bank' > 0 \/ bank' = bank
<1> USE DEF ProcedureSteps, InputMs, ReportMs, StateMs, SendMs, IntervalMs,
            INPUT_DEBOUNCE_TIME_MS, ADC_DEFAULT_SAMPLE_TIME_MS
<1>1. CASE Read0 \/ Wait0 BY <1>1, WorkStep DEF Read0, Wait0
<1>2. CASE Start0 BY <1>2, WorkStep DEF Start0
<1>3. CASE Run0 BY <1>3, WorkStep DEF Run0
<1>4. CASE Stop0 BY <1>4, WorkStep DEF Stop0
<1>5. CASE Read1 BY <1>5, WorkStep DEF Read1
<1>6. CASE Run1 \/ Stop1 BY <1>6, WorkStep DEF Run1, Stop1
<1>7. CASE Read2 BY <1>7, WorkStep DEF Read2
<1>8. CASE Run2 \/ Stop2 BY <1>8, WorkStep, BoardAssumption DEF Run2, Stop2
<1>9. CASE End BY <1>9, WorkStep DEF End
<1> QED
  BY <1>1, <1>2, <1>3, <1>4, <1>5, <1>6, <1>7, <1>8, <1>9 DEF Procedures

LEMMA MainThreadInv ==
  ReaderInv /\ MainThread /\ UNCHANGED readerVars => ReaderInv'
<1> SUFFICES ASSUME ReaderInv, MainThread /\ UNCHANGED readerVars
             PROVE  ReaderInv'
  OBVIOUS
<1>0. /\ TicksOK /\ BootIsQuiet /\ Connected /\ GapIsShort
      /\ ResultIsReport /\ BoardIsHeardInTime
  BY DEF ReaderInv
<1>1. /\ UNCHANGED <<rpc, waited, stale, bytes_read, heard>>
      /\ HasReport' <=> HasReport
  BY DEF HasReport, readerVars
<1>2. ResultIsReport' /\ BoardIsHeardInTime'
  BY <1>0, <1>1 DEF ResultIsReport, BoardIsHeardInTime
<1>3. ReportTicks \in Nat /\ WatchdogTicks \in Nat
  BY SpansAreTicks, Division, BoardAssumption DEF WatchdogTicks
<1>4. Connected'
  <2>1. usb' = usb
    <3>1. Poll \/ MainTop \/ MainTail => usb' = usb
      BY DEF Poll, MainTop, MainTail, Send, transport
    <3> QED BY <1>0, <3>1, ProcedureStep DEF MainThread
  <2> QED BY <1>0, <1>1, <2>1 DEF Connected
<1>5. CASE Poll
  <2>1. /\ pc = "poll" /\ pc' \in {"poll", "main"} /\ left' \in Nat
        /\ UNCHANGED <<bank, event, wdt>>
    BY <1>5, SpansAreTicks DEF Poll, Goto, transport
  <2>2. bank = 0 /\ (stale \/ ~HasReport) BY <1>0, <2>1 DEF BootIsQuiet, Booting
  <2>3. TicksOK' BY <1>0, <1>1, <2>1 DEF TicksOK
  <2>4. BootIsQuiet' BY <1>1, <2>1, <2>2 DEF BootIsQuiet
  <2>5. GapIsShort' BY <1>1, <2>2 DEF GapIsShort, Listening, HasReport
  <2> QED BY <1>2, <1>4, <2>3, <2>4, <2>5 DEF ReaderInv
<1>6. CASE MainTop
  <2>1. /\ pc = "main" /\ left = 0 /\ ~hung
        /\ pc' \in {"read0", "read1", "read2", "tail"} /\ left' \in Nat
        /\ wdt' = 0
        /\ UNCHANGED <<bank, event>>
    BY <1>6, SpansAreTicks DEF MainTop, Goto, transport, Running, InputMs,
                                INPUT_DEBOUNCE_TIME_MS, ADC_DEFAULT_SAMPLE_TIME_MS
  <2>2. TicksOK' BY <1>0, <1>1, <1>3, <2>1 DEF TicksOK
  <2>3. BootIsQuiet' BY <2>1 DEF BootIsQuiet, Booting
  <2>4. GapIsShort'
    <3>1. Listening' <=> Listening BY <1>1, <2>1 DEF Listening
    <3>2. Listening => waited + left <= ReportTicks /\ (~event => waited = 0)
      BY <1>0, <2>1 DEF GapIsShort
    <3>3. waited \in Nat BY <1>0 DEF TicksOK
    <3>4. Listening => waited <= wdt' + ReportTicks
      BY <1>3, <2>1, <3>2, <3>3
    <3> QED BY <1>1, <2>1, <3>1, <3>2, <3>4 DEF GapIsShort
  <2> QED BY <1>2, <1>4, <2>2, <2>3, <2>4 DEF ReaderInv
<1>7. CASE MainTail
  <2>1. /\ pc' = "main" /\ left' \in Nat /\ left' <= ReportTicks
        /\ UNCHANGED <<wdt, hung>>
        /\ ~event'
    BY <1>7, SpansAreTicks DEF MainTail, Goto, ReportMs, StateMs, SendMs,
                                ADC_DEFAULT_SAMPLE_TIME_MS
  <2>2. /\ bank' \in Nat
        /\ event /\ usb => bank' # 0
        /\ ~event => bank' = bank
    BY <1>0, <1>7 DEF MainTail, Send, transport, Banks, TicksOK
  <2>3. TicksOK' BY <1>0, <1>1, <2>1, <2>2 DEF TicksOK
  <2>4. BootIsQuiet' BY <1>3, <2>1 DEF BootIsQuiet, Booting
  <2>5. GapIsShort'
    <3>1. wdt \in Nat /\ waited' = waited /\ wdt' = wdt
      BY <1>0, <1>1, <1>3, <2>1 DEF TicksOK
    <3>2. left' \in Nat /\ left' <= ReportTicks BY <2>1
    <3>3. /\ 0 <= wdt + ReportTicks
          /\ \A n \in Nat : 0 + n = n
      BY <1>3, <3>1
    <3> SUFFICES ASSUME Listening' PROVE waited = 0
      BY <2>1, <3>1, <3>2, <3>3 DEF GapIsShort
    <3>4. rpc = "recv" /\ ~stale /\ heard /\ bank' = 0
      BY <1>1 DEF Listening
    <3>5. usb BY <1>0, <3>4 DEF Connected
    <3>6. ~event /\ bank = 0 BY <2>2, <3>4, <3>5
    <3> QED BY <1>0, <3>4, <3>6 DEF GapIsShort, Listening
  <2> QED BY <1>2, <1>4, <2>3, <2>4, <2>5 DEF ReaderInv
<1>8. CASE Procedures
  <2>1. /\ pc' \in ProcedureSteps /\ left' \in Nat
        /\ UNCHANGED <<event, wdt, hung>>
        /\ usb => bank' > 0 \/ bank' = bank
        /\ bank' \in Nat
    BY <1>0, <1>8, ProcedureStep
  <2>2. TicksOK' BY <1>0, <1>1, <2>1 DEF TicksOK
  <2>3. BootIsQuiet' BY <2>1 DEF BootIsQuiet, Booting, ProcedureSteps
  <2>4. GapIsShort'
    <3> SUFFICES ASSUME Listening'
        PROVE  waited <= wdt + ReportTicks /\ (~event => waited = 0)
      BY <1>1, <2>1 DEF GapIsShort, ProcedureSteps
    <3>1. rpc = "recv" /\ ~stale /\ heard /\ bank' = 0
      BY <1>1 DEF Listening
    <3>2. usb BY <1>0, <3>1 DEF Connected
    <3>3. bank = 0 BY <2>1, <3>1, <3>2
    <3> QED BY <1>0, <3>1, <3>3 DEF GapIsShort, Listening
  <2> QED BY <1>2, <1>4, <2>2, <2>3, <2>4 DEF ReaderInv
<1> QED BY <1>5, <1>6, <1>7, <1>8 DEF MainThread

-----------------------------------------------------------------------------
(* Around the board, and the reader.                                       *)

LEMMA TickInv == ReaderInv /\ Time => ReaderInv'
<1> SUFFICES ASSUME ReaderInv, Time PROVE ReaderInv' OBVIOUS
<1>0. /\ TicksOK /\ BootIsQuiet /\ Connected /\ GapIsShort
      /\ ResultIsReport /\ BoardIsHeardInTime
  BY DEF ReaderInv
<1>1. /\ UNCHANGED <<rpc, stale, bytes_read, heard, pc, hung, usb, bank>>
      /\ left' = IF left > 0 THEN left - 1 ELSE 0
      /\ left > 0 \/ hung
      /\ wdt' = wdt + 1 /\ wdt < WatchdogTicks
      /\ event'
      /\ waited' = IF rpc = "recv" THEN waited + 1 ELSE waited
  BY DEF Time, Tick, transport
<1>2. /\ left \in Nat /\ wdt \in Nat /\ waited \in Nat
      /\ ReportTicks \in Nat /\ WatchdogTicks \in Nat
  BY <1>0, SpansAreTicks, Division, BoardAssumption DEF TicksOK, WatchdogTicks
<1>3. TicksOK' BY <1>0, <1>1, <1>2 DEF TicksOK
<1>4. (HasReport' <=> HasReport) /\ (Listening' <=> Listening)
  BY <1>1 DEF HasReport, Listening
<1>5. Booting' => Booting BY <1>1, <1>2 DEF Booting
<1>6. BootIsQuiet' /\ Connected' /\ ResultIsReport' /\ BoardIsHeardInTime'
  BY <1>0, <1>1, <1>4, <1>5
  DEF BootIsQuiet, Connected, ResultIsReport, BoardIsHeardInTime
<1>7. GapIsShort'
  <2> SUFFICES ASSUME Listening
      PROVE  /\ waited' <= wdt' + ReportTicks
             /\ pc = "main" /\ ~hung => waited' + left' <= ReportTicks
    BY <1>1, <1>4 DEF GapIsShort
  <2>1. /\ waited <= wdt + ReportTicks
        /\ pc = "main" /\ ~hung => waited + left <= ReportTicks
    BY <1>0 DEF GapIsShort
  <2>2. waited' = waited + 1 BY <1>1 DEF Listening
  <2> QED BY <1>1, <1>2, <2>1, <2>2
<1> QED BY <1>3, <1>6, <1>7 DEF ReaderInv

LEMMA BusInv ==
  ASSUME ReaderInv,
         ((Configure \/ Hang) /\ UNCHANGED readerVars) \/ Lost
  PROVE  ReaderInv'
<1>0. /\ TicksOK /\ BootIsQuiet /\ Connected /\ GapIsShort
      /\ ResultIsReport /\ BoardIsHeardInTime
  BY DEF ReaderInv
<1>1. UNCHANGED <<rpc, waited, bytes_read, heard>> /\ (HasReport' <=> HasReport)
  BY DEF Lost, readerVars, HasReport
<1>2. ResultIsReport' /\ BoardIsHeardInTime'
  BY <1>0, <1>1 DEF ResultIsReport, BoardIsHeardInTime
<1>3. CASE (Configure \/ Hang) /\ UNCHANGED readerVars
  <2>1. /\ UNCHANGED <<pc, left, bank, event, wdt, stale>>
        /\ (usb => usb') /\ (hung => hung')
    BY <1>3 DEF Configure, Hang, processor, transport, readerVars
  <2>2. TicksOK' BY <1>0, <1>1, <2>1 DEF TicksOK
  <2>3. BootIsQuiet' BY <1>0, <1>1, <2>1 DEF BootIsQuiet, Booting
  <2>4. Connected' BY <1>0, <1>1, <2>1 DEF Connected
  <2>5. GapIsShort' BY <1>0, <1>1, <2>1 DEF GapIsShort, Listening
  <2> QED BY <1>2, <2>2, <2>3, <2>4, <2>5 DEF ReaderInv
<1>4. CASE Lost
  <2>0. /\ GiveUp \/ WatchdogReset
        /\ stale' <=> stale \/ usb
    BY <1>4 DEF Lost
  <2>1. bank' = 0 /\ ~usb'
    <3>1. CASE GiveUp BY <3>1 DEF GiveUp
    <3>2. CASE WatchdogReset BY <3>2 DEF WatchdogReset
    <3> QED BY <2>0, <3>1, <3>2
  <2>2. TicksOK'
    <3>1. WatchdogTicks \in Nat BY Division, BoardAssumption DEF WatchdogTicks
    <3>2. CASE GiveUp BY <1>0, <1>1, <3>2 DEF GiveUp, processor, TicksOK
    <3>3. CASE WatchdogReset
      <4>1. left' \in Spans(1000, 1000) /\ wdt' = 0
        BY <3>3 DEF WatchdogReset
      <4> QED BY <1>0, <1>1, <2>1, <3>1, <4>1, SpansAreTicks DEF TicksOK
    <3> QED BY <2>0, <3>2, <3>3
  <2>3. stale' \/ (~usb /\ ~stale /\ ~HasReport)
    BY <1>0, <2>0 DEF Connected
  <2>4. BootIsQuiet' BY <1>1, <2>0, <2>1, <2>3 DEF BootIsQuiet
  <2>5. Connected' BY <1>0, <1>1, <2>0, <2>1, <2>3 DEF Connected
  <2>6. GapIsShort'
    BY <1>1, <2>1, <2>3 DEF GapIsShort, Listening, HasReport
  <2> QED BY <1>2, <2>2, <2>4, <2>5, <2>6 DEF ReaderInv
<1> QED BY <1>3, <1>4

LEMMA ReadInv ==
  ASSUME ReaderInv, LongTimeout,
         Open \/ RecvReport \/ RecvError \/ RecvTimeout \/ Test \/ PrintMessage
  PROVE  ReaderInv'
<1>0. /\ TicksOK /\ BootIsQuiet /\ Connected /\ GapIsShort
      /\ ResultIsReport /\ BoardIsHeardInTime
  BY DEF ReaderInv
<1>1. /\ UNCHANGED <<pc, left, hung, usb, event, wdt>>
      /\ bank' = bank \/ (bank > 0 /\ bank' = bank - 1)
      /\ waited' = waited \/ waited' = 0
  <2> USE DEF boardVars, processor, transport, RecvReturn
  <2>1. CASE RecvReport BY <1>0, <2>1 DEF RecvReport, TicksOK
  <2>2. CASE Open \/ RecvError \/ RecvTimeout \/ Test \/ PrintMessage
    BY <2>2 DEF Open, RecvError, RecvTimeout, Test, PrintMessage
  <2> QED BY <2>1, <2>2
<1>2. TicksOK' BY <1>0, <1>1 DEF TicksOK
<1>3. Booting' <=> Booting BY <1>1 DEF Booting
<1>4. CASE Open
  <2>1. /\ rpc = "open" /\ rpc' = IF usb THEN "recv" ELSE "failed to open"
        /\ ~stale' /\ UNCHANGED <<bank, heard>>
    BY <1>4 DEF Open, boardVars, transport
  <2>2. ~HasReport /\ ~HasReport' BY <1>0, <2>1 DEF Connected, HasReport
  <2>3. BootIsQuiet' BY <1>0, <1>3, <2>1, <2>2 DEF BootIsQuiet
  <2>4. Connected' BY <1>1, <2>1, <2>2 DEF Connected
  <2>5. GapIsShort' BY <2>2 DEF GapIsShort, Listening, HasReport
  <2>6. ResultIsReport' /\ BoardIsHeardInTime'
    BY <2>1 DEF ResultIsReport, BoardIsHeardInTime
  <2> QED BY <1>2, <2>3, <2>4, <2>5, <2>6 DEF ReaderInv
<1>5. CASE RecvReport \/ RecvError \/ RecvTimeout
  <2>1. /\ rpc = "recv" /\ rpc' = "test" /\ UNCHANGED <<stale, heard>>
    BY <1>5 DEF RecvReport, RecvError, RecvTimeout, RecvReturn
  <2>2. BootIsQuiet'
    <3> SUFFICES ASSUME Booting PROVE bank' = 0 /\ (stale \/ ~HasReport')
      BY <1>3, <2>1 DEF BootIsQuiet
    <3>1. bank = 0 /\ (stale \/ ~heard) BY <1>0 DEF BootIsQuiet, HasReport
    <3>2. RecvError \/ RecvTimeout BY <1>5, <3>1 DEF RecvReport
    <3>3. bank' = 0 /\ bytes_read' # PROTO_MSG_SIZE
      BY <3>1, <3>2 DEF RecvError, RecvTimeout, RecvReturn, boardVars,
                        transport, PROTO_MSG_SIZE
    <3> QED BY <2>1, <3>1, <3>3 DEF HasReport
  <2>3. Connected' BY <1>0, <1>1, <2>1 DEF Connected
  <2>4. GapIsShort' /\ BoardIsHeardInTime'
    BY <2>1 DEF GapIsShort, Listening, BoardIsHeardInTime
  <2>5. ResultIsReport'
    <3> SUFFICES ASSUME heard, RecvTimeout PROVE FALSE
      BY <1>5, <2>1 DEF ResultIsReport, RecvReport, RecvError, RecvReturn
    <3>1. Listening /\ waited = RecvTicks BY DEF RecvTimeout, Listening
    <3>2. waited <= wdt + ReportTicks BY <1>0, <3>1 DEF GapIsShort
    <3>3. wdt <= WatchdogTicks /\ wdt \in Nat /\ waited \in Nat
      BY <1>0 DEF TicksOK
    <3>4. WatchdogTicks \in Nat /\ ReportTicks \in Nat
      BY SpansAreTicks, Division, BoardAssumption DEF WatchdogTicks
    <3> QED BY <3>1, <3>2, <3>3, <3>4, TimeoutIsLater
  <2> QED BY <1>2, <2>2, <2>3, <2>4, <2>5 DEF ReaderInv
<1>6. CASE Test
  <2>1. /\ rpc = "test" /\ UNCHANGED <<bank, stale, heard, bytes_read>>
        /\ rpc' = IF bytes_read < 0 THEN "failed to read"
                  ELSE IF bytes_read = PROTO_MSG_SIZE THEN "print"
                  ELSE "invalid bytes read"
    BY <1>6 DEF Test, boardVars, transport
  <2>2. HasReport' => HasReport BY <2>1 DEF HasReport
  <2>3. BootIsQuiet' BY <1>0, <1>3, <2>1, <2>2 DEF BootIsQuiet
  <2>4. Connected' BY <1>0, <1>1, <2>1 DEF Connected
  <2>5. GapIsShort' /\ ResultIsReport'
    BY <2>1 DEF GapIsShort, Listening, ResultIsReport
  <2>6. BoardIsHeardInTime'
    <3> SUFFICES ASSUME heard PROVE rpc' # "invalid bytes read"
      BY <2>1 DEF BoardIsHeardInTime
    <3>1. CASE bytes_read = -1
      <4>1. bytes_read < 0 BY <3>1
      <4> QED BY <2>1, <4>1
    <3>2. CASE bytes_read = PROTO_MSG_SIZE
      BY <2>1, <3>2 DEF PROTO_MSG_SIZE
    <3> QED BY <1>0, <2>1, <3>1, <3>2 DEF ResultIsReport
  <2> QED BY <1>2, <2>3, <2>4, <2>5, <2>6 DEF ReaderInv
<1>7. CASE PrintMessage
  <2>1. /\ rpc = "print" /\ rpc' = "recv" /\ waited' = 0 /\ heard'
        /\ UNCHANGED <<bank, stale>>
    BY <1>7 DEF PrintMessage, boardVars, transport
  <2>2. HasReport BY <2>1 DEF HasReport
  <2>3. BootIsQuiet' BY <1>0, <1>3, <2>1, <2>2 DEF BootIsQuiet
  <2>4. Connected' BY <1>0, <1>1, <2>1 DEF Connected
  <2>5. GapIsShort'
    <3> SUFFICES ASSUME ~stale
        PROVE  0 <= wdt + ReportTicks /\ (pc = "main" => 0 + left <= ReportTicks)
      BY <1>1, <2>1 DEF GapIsShort, Listening
    <3>1. ~Booting BY <1>0, <2>2 DEF BootIsQuiet
    <3> QED BY <1>0, <3>1, SpansAreTicks DEF Booting, TicksOK
  <2>6. ResultIsReport' /\ BoardIsHeardInTime'
    BY <2>1 DEF ResultIsReport, BoardIsHeardInTime
  <2> QED BY <1>2, <2>3, <2>4, <2>5, <2>6 DEF ReaderInv
<1> QED BY <1>4, <1>5, <1>6, <1>7

LEMMA ReaderStep ==
  ASSUME LongTimeout PROVE ReaderInv /\ [ReaderNext]_vars => ReaderInv'
<1> SUFFICES ASSUME ReaderInv, [ReaderNext]_vars PROVE ReaderInv' OBVIOUS
<1>1. CASE ReaderNext
  BY <1>1, ReadInv, MainThreadInv, BusInv, TickInv DEF ReaderNext
<1>2. CASE UNCHANGED vars
  BY <1>2 DEF vars, boardVars, processor, transport, readerVars, ReaderInv,
              TicksOK, BootIsQuiet, Booting, HasReport, Connected, GapIsShort,
              Listening, ResultIsReport, BoardIsHeardInTime
<1> QED BY <1>1, <1>2

-----------------------------------------------------------------------------
\* The reader never takes its timeout for a malformed report once it has heard
\* the board, if the timeout outlasts the watchdog by a report and two ticks, in
\* the shortest ticks by 607 ms (main.c:139-142 of the reader, main.c:56-99 of the
\* firmware).
THEOREM BoardIsAlwaysHeard ==
  ASSUME LongTimeout PROVE ReaderSpec => []BoardIsHeardInTime
<1>1. ReaderInv /\ [ReaderNext]_vars => ReaderInv' BY ReaderStep
<1>2. ReaderInv => BoardIsHeardInTime BY DEF ReaderInv
<1> QED BY <1>1, <1>2, InitInv, PTL DEF ReaderSpec

\* The time of the watchdog only ever grows while the motor is on
\* (procedure_0.c:66-82, procedure_1.c:81-91, procedure_2.c:83-93).
THEOREM MotorRunIsAlwaysBounded == ReaderSpec => MotorRunIsBounded
<1> DEFINE Feeds == MotorOn /\ MotorOn' => wdt' >= wdt
           Typed == wdt \in Nat
<1>1. ReaderInit => Typed BY DEF ReaderInit, BoardInit
<1>2. ASSUME Typed, [ReaderNext]_vars PROVE Typed' /\ [Feeds]_boardVars
  <2>1. CASE wdt' = wdt BY <1>2, <2>1
  <2>2. CASE MainTop
    <3>1. ~MotorOn /\ wdt' = 0 BY <2>2 DEF MainTop, MotorOn
    <3> QED BY <3>1
  <2>3. CASE Tick
    <3>1. wdt' = wdt + 1 BY <2>3 DEF Tick
    <3> QED BY <1>2, <3>1
  <2>4. CASE WatchdogReset
    <3>1. ~MotorOn' /\ wdt' = 0 BY <2>4 DEF WatchdogReset, MotorOn
    <3> QED BY <3>1
  <2>5. MainThread => MainTop \/ wdt' = wdt
    BY DEF MainThread, Poll, MainTail, Procedures, Read0, Wait0, Start0, Run0,
           Stop0, Read1, Run1, Stop1, Read2, Run2, Stop2, End
  <2>6. UNCHANGED boardVars \/ Configure \/ Hang \/ GiveUp \/ RecvReport
          => wdt' = wdt
    BY DEF boardVars, Configure, Hang, GiveUp, RecvReport
  <2>7. Open \/ RecvError \/ RecvTimeout \/ Test \/ PrintMessage
          => UNCHANGED boardVars
    BY DEF Open, RecvError, RecvTimeout, Test, PrintMessage
  <2> QED
    BY <1>2, <2>1, <2>2, <2>3, <2>4, <2>5, <2>6, <2>7
    DEF ReaderNext, Lost, Time, vars
<1>3. ReaderSpec => [][Feeds]_boardVars BY <1>1, <1>2, PTL DEF ReaderSpec
<1> QED BY <1>3 DEF MotorRunIsBounded

-----------------------------------------------------------------------------
(* Hid: the parts of the inductive invariant.                              *)

Scanning == hpc \in {"interface", "claimed"}

Entry == [usb : Nat, iface : Nat, open : {1}]

\* Handles are numbered as usb_open gives them out.
HandlesAreNumbered ==
  /\ hids \in Seq(Entry)
  /\ \A k \in DOMAIN hids :
       hids[k].usb \in 0 .. opens /\ hids[k].iface \in Nat /\ hids[k].open = 1
  /\ opens \in Nat /\ handles \subseteq 1 .. opens
  /\ u \in 0 .. opens /\ iface \in Nat /\ claimed \in Nat /\ count \in Nat

\* No two devices of the list are the same interface.
ListIsASet ==
  \A j, k \in DOMAIN hids :
    hids[j].usb = hids[k].usb /\ hids[j].iface = hids[k].iface
      => j = k \/ hids[j].usb = NULL

\* rawhid_open looks at the interfaces of a handle in their order, and counts
\* those that it keeps.
ScanIsInOrder ==
  /\ Scanning /\ u # NULL =>
       /\ u \in handles
       /\ \A k \in DOMAIN hids :
            hids[k].usb = u => hids[k].iface < iface /\ claimed > 0
  /\ Scanning /\ u = NULL => claimed = 0 /\ hpc = "interface"

\* What free_all_hid has closed.
FreedUpToCount ==
  hpc = "free" =>
    count >= 1 /\ \A k \in DOMAIN hids : k < count => hids[k].usb = NULL

\* A handle that is kept is used, but for the one of the device looked at.
KeptIsUsed ==
  /\ handles \subseteq (IF Scanning THEN used \union {u} ELSE used)
  /\ Scanning /\ claimed > 0 => u \in used

ListedIsOpen == \A k \in DOMAIN hids : hids[k].usb = NULL \/ hids[k].usb \in handles

ClaimsMatch ==
  claims = {<<hids[k].usb, hids[k].iface>> :
              k \in {k \in DOMAIN hids : hids[k].usb # NULL}}
           \union (IF hpc = "claimed" THEN {<<u, iface>>} ELSE {})

HidInv ==
  /\ HandlesAreNumbered /\ ListIsASet /\ ScanIsInOrder /\ FreedUpToCount
  /\ KeptIsUsed /\ ListedIsOpen /\ ClaimsMatch

LEMMA HidInitInv == HidInit => HidInv
BY DEF HidInit, HidInv, HandlesAreNumbered, ListIsASet, ScanIsInOrder,
       FreedUpToCount, KeptIsUsed, ListedIsOpen, ClaimsMatch, Scanning, NULL

\* The device that is closed counts itself, so the handle stays open.
LEMMA CloseInv ==
  ASSUME HidInv, NEW k \in DOMAIN hids, hids[k].usb # NULL, hpc # "claimed",
         HidClose(k)
  PROVE  /\ hids' \in Seq(Entry)
         /\ DOMAIN hids' = DOMAIN hids /\ hids'[k].usb = NULL
         /\ \A j \in DOMAIN hids : hids'[j].iface = hids[j].iface
         /\ \A j \in DOMAIN hids \ {k} : hids'[j] = hids[j]
         /\ handles' = handles
         /\ claims' = {<<hids'[j].usb, hids'[j].iface>> :
                         j \in {j \in DOMAIN hids' : hids'[j].usb # NULL}}
<1>1. hids \in Seq(Entry) /\ hids[k].open = 1 /\ hids[k] \in Entry
  BY DEF HidInv, HandlesAreNumbered
<1>2. handles' = handles BY <1>1 DEF HidClose
<1>3. hids' = [hids EXCEPT ![k] = [hids[k] EXCEPT !.usb = NULL]]
  BY DEF HidClose
<1> DEFINE e == [hids[k] EXCEPT !.usb = NULL]
<1>4. e \in Entry /\ e.usb = NULL /\ e.iface = hids[k].iface
  BY <1>1 DEF Entry, NULL
<1> HIDE DEF e
<1>9. /\ hids' \in Seq(Entry) /\ DOMAIN hids' = DOMAIN hids /\ hids'[k] = e
      /\ \A j \in DOMAIN hids \ {k} : hids'[j] = hids[j]
  BY <1>1, <1>3, <1>4, ExceptSeq DEF e
<1>5. claims' = claims \ {<<hids[k].usb, hids[k].iface>>} BY DEF HidClose
<1>6. claims = {<<hids[j].usb, hids[j].iface>> :
                  j \in {j \in DOMAIN hids : hids[j].usb # NULL}}
  BY DEF HidInv, ClaimsMatch
<1>7. \A j \in DOMAIN hids \ {k} : hids[j].usb # NULL =>
        <<hids[j].usb, hids[j].iface>> # <<hids[k].usb, hids[k].iface>>
  BY DEF HidInv, ListIsASet
<1>8. claims' = {<<hids[j].usb, hids[j].iface>> :
                  j \in {j \in DOMAIN hids \ {k} : hids[j].usb # NULL}}
  BY <1>5, <1>6, <1>7
<1>10. {j \in DOMAIN hids' : hids'[j].usb # NULL}
         = {j \in DOMAIN hids \ {k} : hids[j].usb # NULL}
  BY <1>4, <1>9
<1>11. claims' = {<<hids'[j].usb, hids'[j].iface>> :
                    j \in {j \in DOMAIN hids' : hids'[j].usb # NULL}}
  BY <1>8, <1>9, <1>10
<1> QED BY <1>2, <1>4, <1>9, <1>11

\* A device that is closed leaves the rest of the list as it was.
LEMMA ClosedInv ==
  ASSUME HidInv, NEW k \in DOMAIN hids, hids[k].usb # NULL, HidClose(k),
         ~Scanning, hpc' = hpc, UNCHANGED <<opens, scan, used>>, count' \in Nat,
         hpc = "free" => count' = count + 1 /\ k = count
  PROVE  HidInv'
<1> USE DEF HidInv, Scanning, scan
<1>1. /\ hids' \in Seq(Entry)
      /\ DOMAIN hids' = DOMAIN hids /\ hids'[k].usb = NULL
      /\ \A j \in DOMAIN hids : hids'[j].iface = hids[j].iface
      /\ \A j \in DOMAIN hids \ {k} : hids'[j] = hids[j]
      /\ handles' = handles
      /\ claims' = {<<hids'[j].usb, hids'[j].iface>> :
                      j \in {j \in DOMAIN hids' : hids'[j].usb # NULL}}
  BY CloseInv
<1>2. HandlesAreNumbered'
  <2>1. \A j \in DOMAIN hids' : hids'[j].usb \in 0 .. opens
          /\ hids'[j].iface \in Nat /\ hids'[j].open = 1
    <3>1. ASSUME NEW j \in DOMAIN hids', j # k
          PROVE  hids'[j].usb \in 0 .. opens /\ hids'[j].iface \in Nat
                 /\ hids'[j].open = 1
      BY <1>1, <3>1 DEF HandlesAreNumbered
    <3>2. hids'[k].usb \in 0 .. opens /\ hids'[k].iface \in Nat
      BY <1>1 DEF HandlesAreNumbered, NULL
    <3>3. hids'[k] \in Entry BY <1>1
    <3>4. hids'[k].open = 1 BY <3>3 DEF Entry
    <3> QED BY <1>1, <3>1, <3>2, <3>4
  <2> QED BY <1>1, <2>1 DEF HandlesAreNumbered
<1>3. ListIsASet'
  <2>1. ASSUME NEW i \in DOMAIN hids, NEW j \in DOMAIN hids,
               hids'[i].usb = hids'[j].usb, hids'[i].iface = hids'[j].iface
        PROVE  i = j \/ hids'[i].usb = NULL
    BY <1>1, <2>1 DEF ListIsASet
  <2> QED BY <1>1, <2>1 DEF ListIsASet
<1>4. ScanIsInOrder' /\ KeptIsUsed' BY <1>1 DEF ScanIsInOrder, KeptIsUsed
<1>5. FreedUpToCount'
  <2>1. ASSUME hpc = "free" PROVE count \in Nat /\ count >= 1 /\ count' = count + 1
                                  /\ DOMAIN hids \subseteq Nat /\ k = count
    BY <2>1 DEF FreedUpToCount, HandlesAreNumbered
  <2>2. ASSUME hpc = "free", NEW j \in DOMAIN hids, j < count + 1
        PROVE  hids'[j].usb = NULL
    BY <1>1, <2>1, <2>2 DEF FreedUpToCount
  <2> QED BY <1>1, <2>1, <2>2 DEF FreedUpToCount
<1>6. ListedIsOpen' BY <1>1 DEF ListedIsOpen
<1>7. ClaimsMatch' BY <1>1 DEF ClaimsMatch
<1> QED BY <1>2, <1>3, <1>4, <1>5, <1>6, <1>7

\* The device that add_hid appends has another interface than those before.
LEMMA AddInv == ASSUME HidInv, AddHid PROVE HidInv'
<1>1. /\ hids' = Append(hids, Device(u, iface)) /\ hpc = "claimed"
      /\ used' = used \union {u}
      /\ claimed' = claimed + 1 /\ count' = count + 1 /\ iface' = iface + 1
      /\ hpc' \in {"idle", "interface"}
      /\ UNCHANGED <<opens, handles, claims, u>>
  BY DEF AddHid, Return
<1>2. /\ hids \in Seq(Entry)
      /\ opens \in Nat /\ handles \subseteq 1 .. opens
      /\ \A k \in DOMAIN hids :
           hids[k].usb \in 0 .. opens /\ hids[k].iface \in Nat /\ hids[k].open = 1
      /\ u \in 0 .. opens /\ iface \in Nat /\ claimed \in Nat /\ count \in Nat
      /\ u # NULL /\ u \in handles
      /\ \A k \in DOMAIN hids : hids[k].usb = u => hids[k].iface < iface
  BY <1>1 DEF HidInv, HandlesAreNumbered, ScanIsInOrder, Scanning
<1>3. Device(u, iface) \in Entry
  BY <1>2 DEF Device, Entry
<1> DEFINE n == Len(hids) + 1
           d == Device(u, iface)
<1>4. d.usb = u /\ d.iface = iface /\ d.open = 1 BY DEF Device
<1> HIDE DEF d
<1>11. /\ hids' \in Seq(Entry) /\ hids'[n] = d
       /\ DOMAIN hids' = DOMAIN hids \union {n} /\ n \notin DOMAIN hids
       /\ \A k \in DOMAIN hids : hids'[k] = hids[k]
  <2>0. d \in Entry BY <1>3 DEF d
  <2>1. hids \in Seq(Entry) /\ hids' = Append(hids, d)
    BY <1>1, <1>2 DEF d
  <2>2. /\ hids' \in Seq(Entry) /\ Len(hids') = n /\ hids'[n] = d
        /\ \A k \in 1 .. Len(hids) : hids'[k] = hids[k]
    BY <2>0, <2>1, AppendProperties
  <2>3. DOMAIN hids = 1 .. Len(hids) /\ Len(hids) \in Nat /\ DOMAIN hids' = 1 .. n
    BY <2>1, <2>2
  <2>4. 1 .. n = (1 .. Len(hids)) \union {n} /\ n \notin 1 .. Len(hids)
    BY <2>3
  <2> QED BY <2>2, <2>3, <2>4
<1> HIDE DEF n
<1>5. HandlesAreNumbered' BY <1>1, <1>2, <1>4, <1>11 DEF HandlesAreNumbered
<1>6. ListIsASet'
  <2>1. \A j, k \in DOMAIN hids : hids'[j].usb = hids'[k].usb
          /\ hids'[j].iface = hids'[k].iface => j = k \/ hids'[j].usb = NULL
    BY <1>11 DEF HidInv, ListIsASet
  <2>2. \A k \in DOMAIN hids :
          ~(hids'[k].usb = hids'[n].usb /\ hids'[k].iface = hids'[n].iface)
    BY <1>2, <1>4, <1>11
  <2> QED BY <1>11, <2>1, <2>2 DEF ListIsASet
<1>7. ScanIsInOrder'
  <2>1. ASSUME NEW k \in DOMAIN hids, hids[k].usb = u
        PROVE  hids[k].iface < iface + 1
    BY <1>2, <2>1
  <2>2. iface < iface + 1 /\ claimed + 1 > 0 BY <1>2
  <2> QED BY <1>1, <1>2, <1>4, <1>11, <2>1, <2>2 DEF ScanIsInOrder, Scanning
<1>8. FreedUpToCount' /\ KeptIsUsed'
  BY <1>1, <1>2 DEF FreedUpToCount, HidInv, KeptIsUsed, Scanning
<1>9. ListedIsOpen' BY <1>1, <1>2, <1>4, <1>11 DEF HidInv, ListedIsOpen
<1>10. ClaimsMatch'
  <2>1. claims = {<<hids[k].usb, hids[k].iface>> :
                    k \in {k \in DOMAIN hids : hids[k].usb # NULL}}
                 \union {<<u, iface>>}
    BY <1>1 DEF HidInv, ClaimsMatch
  <2>2. {<<hids'[k].usb, hids'[k].iface>> :
          k \in {k \in DOMAIN hids' : hids'[k].usb # NULL}} = claims
    BY <1>2, <1>4, <1>11, <2>1
  <2> QED BY <1>1, <2>2 DEF ClaimsMatch
<1> QED BY <1>5, <1>6, <1>7, <1>8, <1>9, <1>10 DEF HidInv

\* An interface is claimed, or given back.
LEMMA ClaimInv ==
  ASSUME HidInv, ClaimInterface \/ NotWanted PROVE HidInv'
<1> USE DEF HidInv, Scanning, scan
<1>1. CASE ClaimInterface
  <2>1. HandlesAreNumbered' /\ ListIsASet' /\ FreedUpToCount' /\ ListedIsOpen'
    BY <1>1 DEF ClaimInterface, Looking, HandlesAreNumbered, ListIsASet,
                FreedUpToCount, ListedIsOpen
  <2>2. ScanIsInOrder' /\ KeptIsUsed' /\ ClaimsMatch'
    BY <1>1 DEF ClaimInterface, Looking, ScanIsInOrder, KeptIsUsed, ClaimsMatch
  <2> QED BY <2>1, <2>2
<1>2. CASE NotWanted
  <2>1. HandlesAreNumbered' /\ ListIsASet' /\ FreedUpToCount' /\ ListedIsOpen'
    BY <1>2 DEF NotWanted, HandlesAreNumbered, ListIsASet, FreedUpToCount,
                ListedIsOpen
  <2>2. KeptIsUsed' BY <1>2 DEF NotWanted, KeptIsUsed
  <2>5. ScanIsInOrder'
    <3>1. iface \in Nat /\ iface' = iface + 1 /\ u # NULL /\ u \in handles
      BY <1>2 DEF NotWanted, ScanIsInOrder, HandlesAreNumbered
    <3>2. ASSUME NEW k \in DOMAIN hids, hids[k].usb = u
          PROVE  hids[k].iface < iface + 1 /\ claimed > 0
      BY <1>2, <3>1, <3>2 DEF NotWanted, ScanIsInOrder, HandlesAreNumbered
    <3> QED BY <1>2, <3>1, <3>2 DEF NotWanted, ScanIsInOrder
  <2>3. \A k \in DOMAIN hids : <<hids[k].usb, hids[k].iface>> # <<u, iface>>
    BY <1>2 DEF NotWanted, ScanIsInOrder, HandlesAreNumbered
  <2>4. ClaimsMatch' BY <1>2, <2>3 DEF NotWanted, ClaimsMatch
  <2> QED BY <2>1, <2>2, <2>4, <2>5
<1> QED BY <1>1, <1>2

\* The next device and its interfaces, with no change of the list.
LEMMA ScanInv ==
  ASSUME HidInv,
         \/ NextDevice \/ SkipInterface \/ OpenHandle \/ ClaimFails \/ DeviceDone
  PROVE  HidInv'
<1> USE DEF HidInv, Scanning
<1>1. CASE NextDevice
  BY <1>1 DEF NextDevice, Return, HandlesAreNumbered, ListIsASet, ScanIsInOrder,
              FreedUpToCount, KeptIsUsed, ListedIsOpen, ClaimsMatch, NULL
<1>2. CASE SkipInterface \/ ClaimFails
  <2>1. /\ Looking /\ iface' = iface + 1 /\ iface \in Nat
        /\ UNCHANGED <<hids, opens, handles, claims, hpc, count, u, claimed, used>>
    BY <1>2 DEF SkipInterface, ClaimFails, HandlesAreNumbered
  <2>2. HandlesAreNumbered' /\ ListIsASet' BY <2>1 DEF HandlesAreNumbered, ListIsASet
  <2>3. FreedUpToCount' /\ KeptIsUsed' /\ ListedIsOpen' /\ ClaimsMatch'
    BY <2>1 DEF Looking, FreedUpToCount, KeptIsUsed, ListedIsOpen, ClaimsMatch
  <2>4. ASSUME NEW k \in DOMAIN hids, hids[k].usb = u, u # NULL
        PROVE  hids[k].iface < iface + 1 /\ claimed > 0
    BY <2>1, <2>4 DEF Looking, ScanIsInOrder, HandlesAreNumbered
  <2>5. ScanIsInOrder' BY <2>1, <2>4 DEF Looking, ScanIsInOrder
  <2> QED BY <2>2, <2>3, <2>5
<1>3. CASE OpenHandle
  <2>1. /\ Looking /\ u = NULL
        /\ UNCHANGED <<hids, claims, hpc, count, claimed, used>>
    BY <1>3 DEF OpenHandle
  <2>2. CASE iface' = Interfaces /\ UNCHANGED <<opens, u, handles>>
    BY <2>1, <2>2, HidAssumption
    DEF Looking, HandlesAreNumbered, ListIsASet, ScanIsInOrder, FreedUpToCount,
        KeptIsUsed, ListedIsOpen, ClaimsMatch
  <2>3. CASE /\ opens' = opens + 1 /\ u' = opens'
             /\ handles' = handles \union {u'} /\ UNCHANGED iface
    <3>1. /\ opens \in Nat /\ u' \in Nat /\ u' # NULL
          /\ \A k \in DOMAIN hids : hids[k].usb # u'
      BY <2>3 DEF HandlesAreNumbered, NULL
    <3>2. HandlesAreNumbered' /\ ListIsASet'
      BY <2>1, <2>3 DEF HandlesAreNumbered, ListIsASet
    <3>3. FreedUpToCount' /\ ListedIsOpen' /\ ClaimsMatch'
      BY <2>1, <2>3 DEF Looking, FreedUpToCount, ListedIsOpen, ClaimsMatch
    <3>4. ScanIsInOrder' BY <2>1, <2>3, <3>1 DEF Looking, ScanIsInOrder
    <3>5. NULL \notin handles BY DEF HandlesAreNumbered, NULL
    <3>6. claimed > 0 => u' \in used'
      BY <2>1, <2>3
      DEF Looking, ScanIsInOrder
    <3>7. KeptIsUsed' BY <2>1, <2>3, <3>5, <3>6 DEF Looking, KeptIsUsed
    <3> QED BY <3>2, <3>3, <3>4, <3>7
  <2> QED BY <1>3, <2>2, <2>3 DEF OpenHandle
<1>4. CASE DeviceDone
  <2>1. /\ hpc = "interface" /\ hpc' = "device"
        /\ handles' = IF u # NULL /\ claimed = 0 THEN handles \ {u} ELSE handles
        /\ UNCHANGED <<hids, opens, claims, count, iface, u, claimed, used>>
    BY <1>4 DEF DeviceDone, scan
  <2>2. HandlesAreNumbered' /\ ListIsASet'
    BY <2>1 DEF HandlesAreNumbered, ListIsASet
  <2>3. FreedUpToCount' /\ ScanIsInOrder' /\ ClaimsMatch'
    BY <2>1 DEF FreedUpToCount, ScanIsInOrder, ClaimsMatch
  <2>4. ListedIsOpen'
    <3>1. u # NULL /\ claimed = 0 => \A k \in DOMAIN hids : hids[k].usb # u
      BY <2>1 DEF ScanIsInOrder
    <3> QED BY <2>1, <3>1 DEF ListedIsOpen
  <2>5. KeptIsUsed'
    <3>1. NULL \notin handles /\ claimed \in Nat BY DEF HandlesAreNumbered, NULL
    <3> QED BY <2>1, <3>1 DEF KeptIsUsed
  <2> QED BY <2>2, <2>3, <2>4, <2>5
<1> QED BY <1>1, <1>2, <1>3, <1>4

\* A call that changes nothing of the list.
LEMMA ListStays ==
  ASSUME HidInv, hpc \in {"idle", "free"}, hpc' \in {"idle", "crashed"},
         UNCHANGED <<hids, opens, handles, claims, count, iface, u, claimed, used>>
  PROVE  HidInv'
<1>1. HandlesAreNumbered' /\ ListIsASet'
  BY DEF HidInv, HandlesAreNumbered, ListIsASet
<1>2. ScanIsInOrder' /\ FreedUpToCount' /\ KeptIsUsed' /\ ListedIsOpen' /\ ClaimsMatch'
  BY DEF HidInv, ScanIsInOrder, Scanning, FreedUpToCount, KeptIsUsed, ListedIsOpen,
         ClaimsMatch
<1> QED BY <1>1, <1>2 DEF HidInv

LEMMA HidStep == HidInv /\ [HidNext]_hidVars => HidInv'
<1> SUFFICES ASSUME HidInv, [HidNext]_hidVars PROVE HidInv' OBVIOUS
<1> USE DEF HidInv, Scanning, scan
<1>1. CASE OpenCall \/ Enumerate
  <2>1. /\ ~Scanning /\ hpc' \in {"free", "enumerate", "idle", "device"}
        /\ count' \in {0, 1} /\ (hpc' = "free" => count' = 1)
        /\ UNCHANGED <<hids, opens, handles, claims, iface, u, claimed, used>>
    BY <1>1 DEF OpenCall, Enumerate, Return
  <2>2. HandlesAreNumbered' /\ ListIsASet'
    BY <2>1 DEF HandlesAreNumbered, ListIsASet
  <2>3. FreedUpToCount' BY <2>1 DEF FreedUpToCount, HandlesAreNumbered
  <2>4. ScanIsInOrder' /\ KeptIsUsed' /\ ListedIsOpen' /\ ClaimsMatch'
    BY <2>1 DEF ScanIsInOrder, KeptIsUsed, ListedIsOpen, ClaimsMatch
  <2> QED BY <2>2, <2>3, <2>4
<1>2. CASE FreeClose
  <2>1. count \in DOMAIN hids /\ count' \in Nat
    BY <1>2 DEF FreeClose, HandlesAreNumbered, FreedUpToCount
  <2>2. CASE hids[count].usb = NULL
    <3>1. hpc = "free" /\ hpc' = "crashed"
          /\ UNCHANGED <<hids, opens, handles, claims, count, iface, u, claimed, used>>
      BY <1>2, <2>2 DEF FreeClose, Crash
    <3> QED BY <3>1, ListStays
  <2>3. CASE hids[count].usb # NULL
    BY <1>2, <2>1, <2>3, ClosedInv DEF FreeClose
  <2> QED BY <2>2, <2>3
<1>3. CASE FreeAll
  <2>1. claims = {}
    BY <1>3 DEF FreeAll, FreedUpToCount, ClaimsMatch, HandlesAreNumbered
  <2> QED
    BY <1>3, <2>1
    DEF FreeAll, HandlesAreNumbered, ListIsASet, ScanIsInOrder, FreedUpToCount,
        KeptIsUsed, ListedIsOpen, ClaimsMatch
<1>4. CASE \/ NextDevice \/ SkipInterface \/ OpenHandle \/ ClaimFails
           \/ DeviceDone
  BY <1>4, ScanInv
<1>5. CASE ClaimInterface \/ NotWanted BY <1>5, ClaimInv
<1>6. CASE AddHid BY <1>6, AddInv
<1>7. ASSUME NEW k \in 1 .. Devices * Interfaces + 1, RawhidRecv(k) \/ RawhidSend(k)
      PROVE  HidInv'
  BY <1>7
  DEF RawhidRecv, RawhidSend, Return, Crash, HandlesAreNumbered, ListIsASet,
      ScanIsInOrder, FreedUpToCount, KeptIsUsed, ListedIsOpen, ClaimsMatch
<1>8. ASSUME NEW k \in 1 .. Devices * Interfaces + 1, RawhidClose(k)
      PROVE  HidInv'
  <2>1. CASE OpenInList(k) /\ hids[k].usb # NULL
    BY <1>8, <2>1, ClosedInv DEF RawhidClose, OpenInList, HandlesAreNumbered
  <2>2. CASE ~(OpenInList(k) /\ hids[k].usb # NULL)
    <3>1. hpc = "idle" /\ hpc' \in {"idle", "crashed"}
          /\ UNCHANGED <<hids, opens, handles, claims, count, iface, u, claimed, used>>
      BY <1>8, <2>2 DEF RawhidClose, Crash
    <3> QED BY <3>1, ListStays
  <2> QED BY <2>1, <2>2
<1>9. CASE Exit
  BY <1>9 DEF Exit, HandlesAreNumbered, ListIsASet, ScanIsInOrder,
              FreedUpToCount, KeptIsUsed, ListedIsOpen, ClaimsMatch, NULL
<1>10. CASE UNCHANGED hidVars
  BY <1>10 DEF hidVars, HandlesAreNumbered, ListIsASet, ScanIsInOrder,
               FreedUpToCount, KeptIsUsed, ListedIsOpen, ClaimsMatch
<1> QED
  BY <1>1, <1>2, <1>3, <1>4, <1>5, <1>6, <1>7, <1>8, <1>9, <1>10
  DEF HidNext, RawhidOpen

\* Whatever the bus holds and whichever calls fail, the claimed interfaces are
\* those of the list (hid.c:88-232, 250-296, 365-383).
THEOREM ClaimsAlwaysMatchList == HidSpec => []ClaimsMatchList
<1>1. HidInv => ClaimsMatchList
  BY DEF HidInv, ClaimsMatch, ClaimsMatchList, Listed
<1> QED BY <1>1, HidInitInv, HidStep, PTL DEF HidSpec

\* A device of the list has an open handle until it is closed itself, and
\* rawhid_open leaves no handle open that it does not use (hid.c:225-227,
\* 365-383).
THEOREM HandlesAlwaysMatchList == HidSpec => []HandlesMatchList
<1>1. HidInv => HandlesMatchList
  BY DEF HidInv, ListedIsOpen, KeptIsUsed, Scanning, HandlesMatchList, Listed
<1> QED BY <1>1, HidInitInv, HidStep, PTL DEF HidSpec

-----------------------------------------------------------------------------
(* HidParser: the items in the buffer.                                     *)

\* Where the item behind the first n starts.
Start(n) == Len(FlattenSeq(SubSeq(items, 1, n)))

ShortOnly == \A k \in DOMAIN items : ~IsLong(items[k])

\* Items are sequences of bytes of the right lengths.
LEMMA ItemBytes ==
  ASSUME items \in Seq(Items)
  PROVE  /\ items \in Seq(Seq(0 .. 255)) /\ Len(items) \in Nat
         /\ \A k \in 1 .. Len(items) :
              /\ items[k] \in Seq(0 .. 255) /\ Len(items[k]) \in Nat \ {0}
              /\ items[k][1] \in 0 .. 255
              /\ ~IsLong(items[k]) => Len(items[k]) = ShortLen(items[k][1]) + 1
<1>1. Items \subseteq Seq(0 .. 255) BY ItemsAssumption
<1>2. Len(items) \in Nat /\ \A k \in 1 .. Len(items) : items[k] \in Items
  OBVIOUS
<1>3. items \in Seq(Seq(0 .. 255))
  BY <1>1, <1>2, SeqDef
<1>4. ASSUME NEW item \in Items
      PROVE  /\ item \in Seq(0 .. 255) /\ Len(item) \in Nat \ {0}
             /\ item[1] \in 0 .. 255
             /\ ~IsLong(item) => Len(item) = ShortLen(item[1]) + 1
  <2>1. item \in Seq(0 .. 255) /\ Len(item) \in Nat \ {0} BY ItemsAssumption
  <2>2. item[1] \in 0 .. 255
    <3>1. 1 \in 1 .. Len(item) BY <2>1
    <3> DEFINE B == 0 .. 255
    <3>2. item \in Seq(B) BY <2>1
    <3> HIDE DEF B
    <3>3. item[1] \in B BY <3>1, <3>2, ElementOfSeq
    <3> QED BY <3>3 DEF B
  <2> QED BY <2>1, <2>2, ItemsAssumption DEF IsLong
<1> QED BY <1>2, <1>3, <1>4

\* Each item lies in the buffer from its start to the start of the next.
LEMMA Places ==
  ASSUME items \in Seq(Items)
  PROVE  /\ buf \in Seq(0 .. 255) /\ Start(Len(items)) = Len(buf)
         /\ Start(0) = 0
         /\ \A n \in 0 .. Len(items) : Start(n) \in Nat
         /\ \A n \in 1 .. Len(items) :
              /\ Start(n) = Start(n - 1) + Len(items[n])
              /\ \A j \in 1 .. Len(items[n]) : buf[Start(n - 1) + j] = items[n][j]
         /\ \A m, n \in 0 .. Len(items) : m < n => Start(m) < Start(n)
<1>1. /\ items \in Seq(Seq(0 .. 255)) /\ Len(items) \in Nat
      /\ \A k \in 1 .. Len(items) :
           items[k] \in Seq(0 .. 255) /\ Len(items[k]) \in Nat \ {0}
  BY ItemBytes
<1>2. PICK f \in [0 .. Len(items) -> Seq(0 .. 255)] :
        /\ f[0] = <<>>
        /\ \A i \in 1 .. Len(items) : f[i] = f[i - 1] \o items[i]
        /\ \A n \in 0 .. Len(items) : FlattenSeq(SubSeq(items, 1, n)) = f[n]
  <2>1. Joins(0 .. 255, items) # {} BY <1>1, FlattenPrefixes
  <2> QED BY <2>1 DEF Joins
<1>3. \A n \in 0 .. Len(items) :
        Start(n) = Len(f[n]) /\ f[n] \in Seq(0 .. 255) /\ Start(n) \in Nat
  <2>1. \A n \in 0 .. Len(items) : Start(n) = Len(f[n]) BY <1>2 DEF Start
  <2>2. \A n \in 0 .. Len(items) : f[n] \in Seq(0 .. 255) OBVIOUS
  <2>3. \A n \in 0 .. Len(items) : Len(f[n]) \in Nat BY <2>2
  <2> QED BY <2>1, <2>2, <2>3
<1>4. buf = f[Len(items)]
  <2>1. SubSeq(items, 1, Len(items)) = items BY <1>1
  <2>2. Len(items) \in 0 .. Len(items) BY <1>1
  <2>3. FlattenSeq(SubSeq(items, 1, Len(items))) = f[Len(items)]
    BY <1>2, <2>2
  <2> QED BY <2>1, <2>3 DEF buf
<1>5. Start(0) = 0 BY <1>1, <1>2, <1>3
<1>6. ASSUME NEW n \in 1 .. Len(items)
      PROVE  /\ n - 1 \in 0 .. Len(items) /\ n \in 0 .. Len(items)
             /\ Start(n) = Start(n - 1) + Len(items[n])
             /\ \A j \in 1 .. Start(n - 1) : f[n][j] = f[n - 1][j]
             /\ \A j \in 1 .. Len(items[n]) :
                  f[n][Start(n - 1) + j] = items[n][j]
  <2>1. n - 1 \in 0 .. Len(items) /\ n \in 0 .. Len(items) BY <1>1
  <2> DEFINE g == f[n - 1]
             h == items[n]
  <2>2. g \in Seq(0 .. 255) /\ h \in Seq(0 .. 255) /\ f[n] = g \o h
        /\ Start(n) = Len(f[n]) /\ Start(n - 1) = Len(g)
    BY <1>1, <1>2, <1>3, <2>1
  <2> HIDE DEF g, h
  <2>3. /\ Len(g \o h) = Len(g) + Len(h)
        /\ \A j \in 1 .. Len(g) : (g \o h)[j] = g[j]
        /\ \A j \in 1 .. Len(h) : (g \o h)[Len(g) + j] = h[j]
    BY <2>2
  <2> QED BY <2>1, <2>2, <2>3 DEF g, h
<1>7. ASSUME NEW n \in 1 .. Len(items), NEW j \in 1 .. Len(items[n])
      PROVE  buf[Start(n - 1) + j] = items[n][j]
  <2> DEFINE i == Start(n - 1) + j
             Same == {d \in Nat : n + d <= Len(items) =>
                        f[n + d][i] = items[n][j] /\ i \in 1 .. Start(n + d)}
  <2>1. Start(n - 1) \in Nat /\ n \in Nat /\ n <= Len(items) /\ j \in Nat /\ j >= 1
        /\ Len(items[n]) \in Nat /\ j <= Len(items[n])
    BY <1>1, <1>3, <1>6
  <2>2. 0 \in Same
    <3>1. n + 0 = n BY <2>1
    <3>2. f[n][i] = items[n][j] BY <1>6
    <3>3. i \in 1 .. Start(n) BY <1>6, <2>1
    <3> QED BY <3>1, <3>2, <3>3
  <2>3. ASSUME NEW d \in Nat, d \in Same PROVE d + 1 \in Same
    <3> SUFFICES ASSUME n + (d + 1) <= Len(items)
                 PROVE  /\ f[n + (d + 1)][i] = items[n][j]
                        /\ i \in 1 .. Start(n + (d + 1))
      OBVIOUS
    <3> DEFINE m == n + (d + 1)
    <3>1. m \in 1 .. Len(items) /\ m - 1 = n + d /\ n + d <= Len(items)
      BY <1>1, <2>1
    <3>2. f[n + d][i] = items[n][j] /\ i \in 1 .. Start(n + d) BY <2>3, <3>1
    <3> HIDE DEF m, i
    <3>3. f[m][i] = f[m - 1][i] BY <1>6, <3>1, <3>2
    <3>4. Start(m) = Start(m - 1) + Len(items[m]) BY <1>6, <3>1
    <3>5. Start(m - 1) \in Nat /\ Len(items[m]) \in Nat
      <4>1. m - 1 \in 0 .. Len(items) BY <1>6, <3>1
      <4> QED BY <1>1, <1>3, <3>1, <4>1
    <3>6. i \in 1 .. Start(m) BY <3>1, <3>2, <3>4, <3>5
    <3> QED BY <3>1, <3>2, <3>3, <3>6 DEF m
  <2>4. Nat \subseteq Same
    <3> HIDE DEF Same
    <3> QED BY <2>2, <2>3, SetInduction
  <2>5. Len(items) - n \in Nat /\ n + (Len(items) - n) = Len(items)
    BY <1>1, <2>1
  <2>6. Len(items) - n \in Same BY <2>4, <2>5
  <2>7. f[Len(items)][i] = items[n][j]
    <3> HIDE DEF i
    <3> QED BY <1>1, <2>5, <2>6
  <2> QED BY <1>4, <2>7
<1>8. ASSUME NEW m \in 0 .. Len(items), NEW n \in 0 .. Len(items), m < n
      PROVE  Start(m) < Start(n)
  <2> DEFINE Good == {d \in Nat : m + (d + 1) <= Len(items) =>
                        Start(m) < Start(m + (d + 1))}
  <2>1. ASSUME NEW k \in 1 .. Len(items)
        PROVE  Start(k - 1) < Start(k) /\ Start(k - 1) \in Nat /\ Start(k) \in Nat
    <3>1. /\ k - 1 \in 0 .. Len(items) /\ k \in 0 .. Len(items)
          /\ Start(k) = Start(k - 1) + Len(items[k])
      BY <1>6
    <3>2. Start(k - 1) \in Nat /\ Start(k) \in Nat BY <1>3, <3>1
    <3>3. Len(items[k]) \in Nat \ {0} BY <1>1
    <3> QED BY <3>1, <3>2, <3>3
  <2>2. 0 \in Good
    <3>1. m + (0 + 1) = m + 1 /\ (m + 1) - 1 = m BY <1>1
    <3>2. m + 1 <= Len(items) => m + 1 \in 1 .. Len(items) BY <1>1
    <3> QED BY <2>1, <3>1, <3>2
  <2>3. ASSUME NEW d \in Nat, d \in Good PROVE d + 1 \in Good
    <3> SUFFICES ASSUME m + ((d + 1) + 1) <= Len(items)
                 PROVE  Start(m) < Start(m + ((d + 1) + 1))
      OBVIOUS
    <3> DEFINE k == m + ((d + 1) + 1)
    <3>1. k \in 1 .. Len(items) /\ k - 1 = m + (d + 1) /\ m + (d + 1) <= Len(items)
      BY <1>1
    <3>2. Start(m) < Start(k - 1) BY <2>3, <3>1
    <3>3. Start(m) \in Nat BY <1>3
    <3> HIDE DEF k
    <3>4. Start(m) < Start(k) BY <2>1, <3>1, <3>2, <3>3
    <3> QED BY <3>4 DEF k
  <2>4. Nat \subseteq Good
    <3> HIDE DEF Good
    <3> QED BY <2>2, <2>3, SetInduction
  <2>5. n - m - 1 \in Nat /\ m + ((n - m - 1) + 1) = n /\ n <= Len(items)
    BY <1>1, <1>8
  <2>6. n - m - 1 \in Good BY <2>4, <2>5
  <2> QED BY <2>5, <2>6
<1>9. buf \in Seq(0 .. 255) /\ Start(Len(items)) = Len(buf)
  <2>1. Len(items) \in 0 .. Len(items) BY <1>1
  <2> QED BY <1>3, <1>4, <2>1
<1>10. \A n \in 0 .. Len(items) : Start(n) \in Nat BY <1>3
<1> QED BY <1>5, <1>6, <1>7, <1>8, <1>9, <1>10

\* An item more says something else, or nothing.
LEMMA SaidStep ==
  ASSUME items \in Seq(Items), NEW n \in 1 .. Len(items), NEW P
  PROVE  Said(P, n) = IF items[n][1] \in P
                      THEN ValueAt(Start(n - 1), Len(items[n]) - 1)
                      ELSE Said(P, n - 1)
<1>1. Len(items) \in Nat /\ n \in Nat /\ 1 .. n = (1 .. n - 1) \union {n}
  BY ItemBytes
<1>2. CASE items[n][1] \in P
  <2> DEFINE saying == {k \in 1 .. n : items[k][1] \in P}
             last == CHOOSE k \in saying : \A j \in saying : j <= k
  <2>1. n \in saying /\ \A j \in saying : j <= n BY <1>1, <1>2
  <2>2. \A k \in saying : (\A j \in saying : j <= k) => k = n
    BY <1>1, <2>1
  <2> HIDE DEF saying
  <2>3. last = n BY <2>1, <2>2
  <2>4. Said(P, n) = ValueAt(Len(FlattenSeq(SubSeq(items, 1, last - 1))),
                             Len(items[last]) - 1)
    BY <2>1 DEF Said, saying
  <2> HIDE DEF last
  <2> QED BY <1>2, <2>3, <2>4 DEF Start
<1>3. CASE items[n][1] \notin P
  <2> DEFINE
    S(m) == {k \in 1 .. m : items[k][1] \in P}
    V(saying) ==
      IF saying = {} THEN 0
      ELSE LET k == CHOOSE k \in saying : \A j \in saying : j <= k
           IN  ValueAt(Len(FlattenSeq(SubSeq(items, 1, k - 1))), Len(items[k]) - 1)
  <2>1. S(n) = S(n - 1) BY <1>1, <1>3
  <2>2. Said(P, n) = V(S(n)) /\ Said(P, n - 1) = V(S(n - 1)) BY DEF Said
  <2> HIDE DEF S, V
  <2> QED BY <1>3, <2>1, <2>2
<1> QED BY <1>2, <1>3

-----------------------------------------------------------------------------
(* The parts of the inductive invariant.                                   *)

ParserTypes ==
  /\ items \in Seq(Items) /\ end \in Nat /\ p \in Nat /\ reach \in Nat
  /\ ppc \in {"idle", "parse", "stop"}
  /\ ppc # "idle" => 2 <= end /\ end <= Len(buf)
  /\ ppc = "idle" => p = 0 /\ page = 0 /\ usage = 0 /\ reach = 0

\* Nothing behind the bytes received has been read.
ReachIsReceived == ppc # "idle" => reach <= end

\* The loop stands behind the first n items, which are received whole and do
\* not say enough.
IsBehind(n) ==
  /\ n \in Whole /\ p = Start(n)
  /\ page = Said(4 .. 7, n) /\ usage = Said(8 .. 11, n)
  /\ \A m \in Enough : n < m

ParserInv ==
  /\ ParserTypes /\ ReachIsReceived
  /\ ppc = "parse" /\ ShortOnly => \E n \in Whole : IsBehind(n)
  /\ ppc = "stop" /\ ShortOnly => Found

\* What the descriptor says does not depend on the loop.
LEMMA DescriptorStays ==
  ASSUME UNCHANGED <<items, end>>
  PROVE  /\ buf' = buf /\ (ShortOnly' <=> ShortOnly)
         /\ Whole' = Whole /\ Enough' = Enough
         /\ \A n : Start(n)' = Start(n)
         /\ \A n : Said(4 .. 7, n)' = Said(4 .. 7, n)
                   /\ Said(8 .. 11, n)' = Said(8 .. 11, n)
<1>1. buf' = buf /\ Whole' = Whole BY DEF buf, Whole
<1>2. ShortOnly' <=> ShortOnly BY DEF ShortOnly, IsLong
<1>3. \A n : Start(n)' = Start(n) BY DEF Start
<1>4. ASSUME NEW P, NEW n PROVE Said(P, n)' = Said(P, n)
  BY DEF Said, ValueAt, At, buf
<1>5. \A n : Said(4 .. 7, n)' = Said(4 .. 7, n)
             /\ Said(8 .. 11, n)' = Said(8 .. 11, n)
  BY <1>4
<1>6. Enough' = Enough BY <1>1, <1>5 DEF Enough
<1> QED BY <1>1, <1>2, <1>3, <1>5, <1>6

\* The item at p, while something is left to parse.
LEMMA NextItem ==
  ASSUME items \in Seq(Items), end <= Len(buf), NEW n \in Whole,
         p = Start(n), p < end, end \in Nat
  PROVE  /\ n + 1 \in 1 .. Len(items) /\ At(p) = items[n + 1][1]
         /\ Start(n + 1) = p + Len(items[n + 1])
         /\ n + 1 \in Whole <=> Start(n + 1) < end
         /\ Start(n + 1) >= end => \A m \in Whole : m <= n
<1>1. n \in 0 .. Len(items) /\ Len(items) \in Nat BY ItemBytes DEF Whole
<1>2. n # Len(items)
  <2>1. Start(Len(items)) = Len(buf) /\ Len(buf) \in Nat BY Places
  <2> QED BY <2>1
<1>3. n + 1 \in 1 .. Len(items) /\ (n + 1) - 1 = n /\ n + 1 \in 0 .. Len(items)
  BY <1>1, <1>2
<1>4. /\ Start(n + 1) = Start(n) + Len(items[n + 1])
      /\ \A j \in 1 .. Len(items[n + 1]) : buf[Start(n) + j] = items[n + 1][j]
  BY <1>3, Places
<1>5. 1 \in 1 .. Len(items[n + 1]) BY <1>3, ItemBytes
<1>6. At(p) = items[n + 1][1] BY <1>4, <1>5 DEF At
<1>7. n + 1 # 0 BY <1>1
<1>8. n + 1 \in Whole <=> Start(n + 1) < end BY <1>3, <1>7 DEF Whole, Start
<1>9. ASSUME Start(n + 1) >= end, NEW m \in Whole, m > n PROVE FALSE
  <2>1. m \in 0 .. Len(items) /\ m # 0 BY <1>1, <1>9 DEF Whole
  <2>2. Start(m) < end BY <2>1 DEF Whole, Start
  <2>3. m = n + 1 \/ n + 1 < m BY <1>1, <1>9, <2>1
  <2>4. n + 1 < m => Start(n + 1) < Start(m) BY <1>3, <2>1, Places
  <2>5. Start(m) \in Nat /\ Start(n + 1) \in Nat BY <1>3, <2>1, Places
  <2> QED BY <1>9, <2>2, <2>3, <2>4, <2>5
<1>10. \A m \in Whole : m \in Nat BY DEF Whole
<1> QED BY <1>1, <1>3, <1>4, <1>6, <1>8, <1>9, <1>10

LEMMA ParserInitInv == ParserInit => ParserInv
BY DEF ParserInit, ParserInv, ParserTypes, ReachIsReceived

LEMMA GetDescriptorInv ==
  ASSUME ParserInv, GetDescriptor PROVE ParserInv'
<1>1. /\ ppc = "idle" /\ ppc' = "parse" /\ items' \in SeqOf(Items, MaxItems)
      /\ end' \in 2 .. Len(FlattenSeq(items'))
      /\ UNCHANGED <<p, page, usage, reach>>
      /\ p = 0 /\ page = 0 /\ usage = 0 /\ reach = 0
  BY DEF GetDescriptor, ParserInv, ParserTypes
<1>2. items' \in Seq(Items)
  BY <1>1, MaxItemsAssumption DEF SeqOf
<1>3. items' \in Seq(Seq(0 .. 255))
  <2>1. Items \subseteq Seq(0 .. 255) BY ItemsAssumption
  <2> QED BY <1>2, <2>1, SeqDef
<1>4. /\ buf' \in Seq(0 .. 255)
      /\ FlattenSeq(SubSeq(items', 1, 0)) = <<>>
  BY <1>3, FlattenIsSeq DEF buf
<1>5. end' \in Nat /\ 2 <= end' /\ end' <= Len(buf')
  <2>1. Len(buf') \in Nat BY <1>4
  <2>2. end' \in 2 .. Len(buf') BY <1>1 DEF buf
  <2> QED BY <2>1, <2>2
<1>6. ParserTypes'
  BY <1>1, <1>2, <1>5 DEF ParserTypes
<1>7. ReachIsReceived' BY <1>1, <1>5 DEF ReachIsReceived
<1>8. 0 \in Whole' /\ Start(0)' = 0 /\ Len(items') \in Nat
  <2>1. Len(items') \in Nat BY <1>2
  <2>2. 0 \in Whole' BY <2>1 DEF Whole
  <2> QED BY <1>4, <2>1, <2>2 DEF Start
<1>9. Said(4 .. 7, 0)' = 0 /\ Said(8 .. 11, 0)' = 0
  <2>1. ASSUME NEW P PROVE Said(P, 0)' = 0 BY DEF Said
  <2> QED BY <2>1
<1>10. \A m \in Enough' : 0 < m
  BY <1>8, <1>9 DEF Enough, Whole
<1>11. IsBehind(0)' BY <1>1, <1>8, <1>9, <1>10 DEF IsBehind
<1> QED BY <1>1, <1>6, <1>7, <1>8, <1>11 DEF ParserInv

\* The tags that the loop compares with are those of Said, one for each length.
LEMMA Tags ==
  \A prefix \in 0 .. 255 :
    /\ ShortTag(prefix) = UsagePage <=> prefix \in 4 .. 7
    /\ ShortTag(prefix) = Usage <=> prefix \in 8 .. 11
    /\ ShortLen(prefix) \in Nat
BY DEF ShortTag, UsagePage, Usage, ShortLen

LEMMA BytesRead ==
  ASSUME items \in Seq(Items), NEW k \in Nat, k < Len(buf)
  PROVE  At(k) \in 0 .. 255
<1> DEFINE B == 0 .. 255
<1>1. buf \in Seq(B) BY Places
<1>2. k + 1 \in 1 .. Len(buf) BY <1>1
<1> HIDE DEF B
<1>3. buf[k + 1] \in B BY <1>1, <1>2, ElementOfSeq
<1> QED BY <1>3 DEF At, B

\* The item is consumed and has said what Said takes it to say, or is not whole.
LEMMA ShortItemInv ==
  ASSUME ParserInv, ShortItem PROVE ParserInv'
<1> DEFINE len == ShortLen(At(p))
<1>1. /\ ppc = "parse" /\ p < end /\ At(p) # 254 /\ UNCHANGED <<items, end>>
      /\ items \in Seq(Items) /\ end \in Nat /\ p \in Nat /\ reach \in Nat
      /\ 2 <= end /\ end <= Len(buf) /\ reach <= end
  BY DEF ShortItem, ParserInv, ParserTypes, ReachIsReceived
<1>2. At(p) \in 0 .. 255
  <2>1. Len(buf) \in Nat BY <1>1, Places
  <2>2. p < Len(buf) BY <1>1, <2>1
  <2> QED BY <1>1, <2>2, BytesRead
<1>3. len \in Nat BY <1>2, Tags
<1> HIDE DEF len
<1>4. \/ /\ p + len + 1 >= end /\ Read(p + 1) /\ Stop
      \/ /\ p + len + 1 < end /\ Read(p + len + 1)
         /\ Consume(ShortTag(At(p)), ValueAt(p, len), len + 1)
  BY <1>1, <1>3 DEF ShortItem, len
<1>5. /\ buf' = buf /\ (ShortOnly' <=> ShortOnly)
      /\ Whole' = Whole /\ Enough' = Enough
      /\ \A n : Start(n)' = Start(n)
      /\ \A n : Said(4 .. 7, n)' = Said(4 .. 7, n)
                /\ Said(8 .. 11, n)' = Said(8 .. 11, n)
  BY <1>1, DescriptorStays
<1>6. ParserTypes' /\ ReachIsReceived'
  <2>1. CASE Read(p + 1) /\ Stop
    BY <1>1, <1>5, <2>1 DEF Read, Stop, ParserTypes, ReachIsReceived
  <2>2. CASE /\ p + len + 1 < end /\ Read(p + len + 1)
             /\ Consume(ShortTag(At(p)), ValueAt(p, len), len + 1)
    <3>1. p' = p + (len + 1) /\ ppc' \in {"parse", "stop"}
      BY <2>2 DEF Consume
    <3> QED BY <1>1, <1>3, <1>5, <2>2, <3>1 DEF Read, ParserTypes, ReachIsReceived
  <2> QED BY <1>4, <2>1, <2>2
<1>7. ASSUME ShortOnly
      PROVE  /\ ppc' = "parse" => \E n \in Whole' : IsBehind(n)'
             /\ ppc' = "stop" => Found'
  <2>1. PICK n \in Whole : IsBehind(n) BY <1>1, <1>7 DEF ParserInv
  <2>2. p = Start(n) /\ page = Said(4 .. 7, n) /\ usage = Said(8 .. 11, n)
        /\ \A m \in Enough : n < m
    BY <2>1 DEF IsBehind
  <2>3. /\ n + 1 \in 1 .. Len(items) /\ At(p) = items[n + 1][1]
        /\ Start(n + 1) = p + Len(items[n + 1])
        /\ n + 1 \in Whole <=> Start(n + 1) < end
        /\ Start(n + 1) >= end => \A m \in Whole : m <= n
    BY <1>1, <2>2, NextItem
  <2>4. Len(items[n + 1]) = len + 1
    <3>1. ~IsLong(items[n + 1]) BY <1>1, <1>7, <2>3 DEF ShortOnly
    <3>2. Len(items[n + 1]) = ShortLen(items[n + 1][1]) + 1
      BY <1>1, <2>3, <3>1, ItemBytes
    <3> QED BY <2>3, <3>2 DEF len
  <2>5. n \in Nat /\ Whole \subseteq Nat /\ Enough \subseteq Whole
    BY DEF Whole, Enough
  <2>6. CASE p + len + 1 >= end /\ Stop
    <3>1. \A m \in Whole : m <= n BY <1>1, <1>3, <2>3, <2>4, <2>6
    <3>2. Enough = {} BY <2>2, <2>5, <3>1
    <3>3. (CHOOSE k \in Whole : \A m \in Whole : k >= m) = n
      <4>1. \A m \in Whole : n >= m BY <2>5, <3>1
      <4> QED BY <2>5, <4>1, Extremes
    <3>4. Found' BY <1>5, <2>2, <2>6, <3>2, <3>3 DEF Found, Stop
    <3> QED BY <2>6, <3>4 DEF Stop
  <2>7. CASE /\ p + len + 1 < end
             /\ Consume(ShortTag(At(p)), ValueAt(p, len), len + 1)
    <3>1. n + 1 \in Whole /\ p' = Start(n + 1)
      BY <1>1, <1>3, <2>3, <2>4, <2>7 DEF Consume
    <3>2. (n + 1) - 1 = n /\ Len(items[n + 1]) - 1 = len
      BY <1>3, <2>4, <2>5
    <3>3. ASSUME NEW P
          PROVE  Said(P, n + 1) = IF At(p) \in P THEN ValueAt(p, len) ELSE Said(P, n)
      BY <1>1, <2>2, <2>3, <3>2, SaidStep
    <3>4. /\ page' = Said(4 .. 7, n + 1)
          /\ usage' = Said(8 .. 11, n + 1)
      <4>1. /\ page' = IF At(p) \in 4 .. 7 THEN ValueAt(p, len) ELSE page
            /\ usage' = IF At(p) \in 8 .. 11 THEN ValueAt(p, len) ELSE usage
        BY <1>2, <2>7, Tags DEF Consume
      <4>2. /\ Said(4 .. 7, n + 1) =
                 IF At(p) \in 4 .. 7 THEN ValueAt(p, len) ELSE Said(4 .. 7, n)
            /\ Said(8 .. 11, n + 1) =
                 IF At(p) \in 8 .. 11 THEN ValueAt(p, len) ELSE Said(8 .. 11, n)
        BY <3>3
      <4> QED BY <2>2, <4>1, <4>2
    <3>5. \A m \in Enough : m # n + 1 => n + 1 < m BY <2>2, <2>5
    <3>6. n + 1 \in Enough <=> page' # 0 /\ usage' # 0
      BY <3>1, <3>4 DEF Enough
    <3>7. CASE n + 1 \in Enough
      <4>1. ppc' = "stop" BY <2>7, <3>6, <3>7 DEF Consume
      <4>2. (CHOOSE k \in Enough : \A m \in Enough : k <= m) = n + 1
        <5>1. /\ \A m \in Enough : n + 1 <= m
              /\ Enough \subseteq Nat
          BY <2>5, <3>5
        <5> QED BY <3>7, <5>1, Extremes
      <4>3. Found' BY <1>5, <3>4, <3>7, <4>2 DEF Found
      <4> QED BY <4>1, <4>3
    <3>8. CASE n + 1 \notin Enough
      <4>1. ppc' = "parse" BY <2>7, <3>6, <3>8 DEF Consume
      <4>2. IsBehind(n + 1)'
        BY <1>5, <3>1, <3>4, <3>5, <3>8 DEF IsBehind
      <4> QED BY <1>5, <3>1, <4>1, <4>2
    <3> QED BY <3>7, <3>8
  <2> QED BY <1>4, <2>6, <2>7
<1> QED BY <1>5, <1>6, <1>7 DEF ParserInv

\* The three reads of a long item are within the buffer.
LEMMA LongItemInv ==
  ASSUME ParserInv, LongItem PROVE ParserInv'
<1>1. /\ ppc = "parse" /\ p < end /\ At(p) = 254 /\ UNCHANGED <<items, end>>
      /\ items \in Seq(Items) /\ end \in Nat /\ p \in Nat /\ reach \in Nat
      /\ 2 <= end /\ end <= Len(buf) /\ reach <= end /\ Len(buf) \in Nat
  BY Places DEF LongItem, ParserInv, ParserTypes, ReachIsReceived
<1>2. \/ Read(p + 1) /\ Stop
      \/ p + 5 < end /\ Read(p + 2) /\ Stop
      \/ p + 5 < end /\ Read(p + 3) /\ Consume(At(p + 2), 0, At(p + 1) + 6)
  BY <1>1 DEF LongItem
<1>3. buf' = buf /\ (ShortOnly' <=> ShortOnly) BY <1>1, DescriptorStays
<1>4. ParserTypes' /\ ReachIsReceived'
  <2>1. CASE Read(p + 1) /\ Stop
    BY <1>1, <1>3, <2>1 DEF Read, Stop, ParserTypes, ReachIsReceived
  <2>2. CASE p + 5 < end /\ Read(p + 2) /\ Stop
    BY <1>1, <1>3, <2>2 DEF Read, Stop, ParserTypes, ReachIsReceived
  <2>3. CASE p + 5 < end /\ Read(p + 3) /\ Consume(At(p + 2), 0, At(p + 1) + 6)
    <3>1. At(p + 1) \in Nat
      <4>1. p + 1 \in Nat /\ p + 1 < Len(buf) BY <1>1, <2>3
      <4>2. At(p + 1) \in 0 .. 255 BY <1>1, <4>1, BytesRead
      <4> QED BY <4>2
    <3>2. p' = p + (At(p + 1) + 6) /\ ppc' \in {"parse", "stop"}
      BY <2>3 DEF Consume
    <3>3. p' \in Nat BY <1>1, <3>1, <3>2
    <3>4. reach' \in Nat /\ reach' <= end BY <1>1, <2>3 DEF Read
    <3> QED BY <1>1, <1>3, <3>2, <3>3, <3>4 DEF ParserTypes, ReachIsReceived
  <2> QED BY <1>2, <2>1, <2>2, <2>3
<1>5. ~ShortOnly
  <2> SUFFICES ASSUME ShortOnly PROVE FALSE OBVIOUS
  <2>1. PICK n \in Whole : IsBehind(n) BY <1>1 DEF ParserInv
  <2>2. n + 1 \in 1 .. Len(items) /\ At(p) = items[n + 1][1]
    BY <1>1, <2>1, NextItem DEF IsBehind
  <2>3. ~IsLong(items[n + 1]) BY <1>1, <2>2 DEF ShortOnly
  <2> QED BY <1>1, <2>2, <2>3 DEF IsLong
<1> QED BY <1>3, <1>4, <1>5 DEF ParserInv

\* An item that is whole leaves something to parse.
LEMMA NoItemInv ==
  ASSUME ParserInv, NoItem PROVE ParserInv'
<1>1. /\ ppc = "parse" /\ ppc' = "stop" /\ p >= end
      /\ UNCHANGED <<items, end, reach, p, page, usage>>
      /\ items \in Seq(Items) /\ end \in Nat /\ p \in Nat /\ reach \in Nat
      /\ 2 <= end /\ end <= Len(buf) /\ reach <= end
  BY DEF NoItem, Stop, ParserInv, ParserTypes, ReachIsReceived
<1>2. buf' = buf /\ (ShortOnly' <=> ShortOnly) BY <1>1, DescriptorStays
<1>3. ParserTypes' /\ ReachIsReceived'
  BY <1>1, <1>2 DEF ParserTypes, ReachIsReceived
<1>4. ~ShortOnly
  <2> SUFFICES ASSUME ShortOnly PROVE FALSE OBVIOUS
  <2>1. PICK n \in Whole : IsBehind(n) BY <1>1 DEF ParserInv
  <2>2. p = Start(n) /\ (n = 0 \/ Start(n) < end)
    BY <2>1 DEF IsBehind, Whole, Start
  <2>3. n # 0
    <3>1. Start(0) = 0 BY <1>1, Places
    <3> QED BY <1>1, <2>2, <3>1
  <2> QED BY <1>1, <2>2, <2>3
<1> QED BY <1>1, <1>2, <1>3, <1>4 DEF ParserInv

LEMMA NextInterfaceInv ==
  ASSUME ParserInv, NextInterface PROVE ParserInv'
<1>1. /\ items' = <<>> /\ end' = 0 /\ ppc' = "idle" /\ reach' = 0
      /\ p' = 0 /\ page' = 0 /\ usage' = 0
  BY DEF NextInterface
<1>2. <<>> \in Seq(Items) OBVIOUS
<1> QED BY <1>1, <1>2 DEF ParserInv, ParserTypes, ReachIsReceived

LEMMA ParserStep == ParserInv /\ [ParserNext]_parserVars => ParserInv'
<1> SUFFICES ASSUME ParserInv, [ParserNext]_parserVars PROVE ParserInv'
  OBVIOUS
<1>1. CASE UNCHANGED parserVars
  <2>1. UNCHANGED <<items, end>> /\ UNCHANGED <<p, page, usage, ppc, reach>>
    BY <1>1 DEF parserVars
  <2>2. /\ buf' = buf /\ (ShortOnly' <=> ShortOnly)
        /\ Whole' = Whole /\ Enough' = Enough
        /\ \A n : Start(n)' = Start(n)
        /\ \A n : Said(4 .. 7, n)' = Said(4 .. 7, n)
                  /\ Said(8 .. 11, n)' = Said(8 .. 11, n)
    BY <2>1, DescriptorStays
  <2>3. Found' <=> Found BY <2>1, <2>2 DEF Found
  <2>4. ParserTypes' /\ ReachIsReceived'
    BY <2>1, <2>2 DEF ParserInv, ParserTypes, ReachIsReceived
  <2>5. ASSUME NEW n PROVE IsBehind(n)' <=> IsBehind(n)
    BY <2>1, <2>2 DEF IsBehind
  <2> QED BY <2>1, <2>2, <2>3, <2>4, <2>5 DEF ParserInv
<1> QED
  BY <1>1, GetDescriptorInv, ShortItemInv, LongItemInv, NoItemInv,
     NextInterfaceInv
  DEF ParserNext

\* rawhid_open compares the usage page and the usage that the short items of a
\* descriptor state first, wherever the transfer was cut off, and takes nothing
\* behind the bytes received for an item (hid.c:233-251, 297-324).
THEOREM UsageIsAlwaysFound == ParserSpec => []UsageIsFound
<1>1. ParserInv => UsageIsFound
  BY DEF ParserInv, ReachIsReceived, UsageIsFound, ShortOnly
<1> QED BY <1>1, ParserInitInv, ParserStep, PTL DEF ParserSpec
=============================================================================

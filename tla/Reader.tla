------------------------------ MODULE Reader ------------------------------
(***************************************************************************)
(* tools/debug-reader/src/main.c next to the board: it opens the device    *)
(* once, and receives and prints reports until it meets something else.    *)
(*                                                                         *)
(* Opening and receiving are those of hid.c: a report that waits is        *)
(* delivered at once, a device that went away gives a negative result.     *)
(* Printing may take any time.                                             *)
(***************************************************************************)
EXTENDS Board

CONSTANT RecvTimeoutMs   \* of rawhid_recv: 10 * 1000

ASSUME ReaderAssumption == RecvTimeoutMs \in Nat \ {0}

VARIABLES
  rpc,            \* next step of the reader
  waited,         \* ticks since rawhid_recv was called
  stale,          \* the device of the open handle went away
  bytes_read,
  heard           \* local_msg_cnt > 0

readerVars == <<rpc, waited, stale, bytes_read, heard>>
vars == <<boardVars, readerVars>>

-----------------------------------------------------------------------------
PROTO_MSG_SIZE == 64
RecvTicks == RecvTimeoutMs \div MsPerTick

ReaderInit ==
  /\ BoardInit
  /\ rpc = "open" /\ waited = 0 /\ stale = FALSE
  /\ bytes_read = 0 /\ heard = FALSE

\* rawhid_open finds the board when it is configured.
Open ==
  /\ rpc = "open" /\ ~hung
  /\ rpc' = IF usb THEN "recv" ELSE "failed to open"
  /\ waited' = 0 /\ stale' = FALSE
  /\ UNCHANGED <<boardVars, bytes_read, heard>>

RecvReturn(result) ==
  /\ bytes_read' = result
  /\ rpc' = "test"
  /\ UNCHANGED <<waited, stale, heard>>

\* The three ways in which rawhid_recv returns.
RecvReport ==
  /\ rpc = "recv" /\ ~stale /\ bank > 0
  /\ bank' = bank - 1
  /\ RecvReturn(PROTO_MSG_SIZE)
  /\ UNCHANGED <<processor, usb, event, wdt>>

RecvError == rpc = "recv" /\ stale /\ RecvReturn(-1) /\ UNCHANGED boardVars

RecvTimeout ==
  /\ rpc = "recv" /\ ~stale /\ bank = 0 /\ waited = RecvTicks
  /\ RecvReturn(0)
  /\ UNCHANGED boardVars

\* What the reader makes of the result.
Test ==
  /\ rpc = "test"
  /\ rpc' = IF bytes_read < 0 THEN "failed to read"
            ELSE IF bytes_read = PROTO_MSG_SIZE THEN "print"
            ELSE "invalid bytes read"
  /\ UNCHANGED <<boardVars, waited, stale, bytes_read, heard>>

\* The message is counted and printed.
PrintMessage ==
  /\ rpc = "print"
  /\ heard' = TRUE
  /\ rpc' = "recv" /\ waited' = 0
  /\ UNCHANGED <<boardVars, stale, bytes_read>>

\* The device goes away from under an open handle.
Lost ==
  /\ GiveUp \/ WatchdogReset
  /\ stale' = (stale \/ usb)
  /\ UNCHANGED <<rpc, waited, bytes_read, heard>>

Time ==
  /\ Tick
  /\ rpc = "recv" => waited < RecvTicks /\ bank = 0 /\ ~stale
  /\ waited' = IF rpc = "recv" THEN waited + 1 ELSE waited
  /\ UNCHANGED <<rpc, stale, bytes_read, heard>>

ReaderNext ==
  \/ Open \/ RecvReport \/ RecvError \/ RecvTimeout \/ Test \/ PrintMessage
  \/ (MainThread \/ Configure \/ Hang) /\ UNCHANGED readerVars
  \/ Lost \/ Time

ReaderSpec == ReaderInit /\ [][ReaderNext]_vars

-----------------------------------------------------------------------------
\* Once it has had a report, the reader never runs into the timeout of
\* rawhid_recv, which it takes for a malformed report (main.c:139-142): whatever
\* the board does, even if it waits for ever, it sends a report or is reset, and
\* so leaves the bus, before the ten seconds are over (main.c:55-59 of the
\* reader; main.c:56, 79 and 99 of the firmware).
BoardIsHeardInTime == rpc = "invalid bytes read" => ~heard
=============================================================================

----------------------------- MODULE HidParser -----------------------------
(***************************************************************************)
(* The report descriptor of an interface as rawhid_open of                 *)
(* tools/debug-reader/src/hid.c reads it: one call of hid_parse_item for   *)
(* each item, until it has a usage page and a usage.                       *)
(*                                                                         *)
(* A descriptor is a sequence of items, of which usb_control_msg may have  *)
(* returned the first bytes only; behind them the buffer holds what was    *)
(* there before.                                                           *)
(***************************************************************************)
EXTENDS Integers, SequencesExt

CONSTANTS
  Items,      \* the items that a descriptor may have, as sequences of bytes
  MaxItems    \* bound: how many of them

ASSUME MaxItemsAssumption == MaxItems \in Nat

VARIABLES
  items,    \* history: the items of the descriptor
  end,      \* end - buf, the number of bytes received
  p,        \* p - buf, the place of the next item
  page,     \* parsed_usage_page
  usage,    \* parsed_usage
  ppc,      \* "idle" between two interfaces, "parse" or "stop"
  reach     \* history: one more than the largest place that was read

parserVars == <<items, end, p, page, usage, ppc, reach>>

-----------------------------------------------------------------------------
buf == FlattenSeq(items)
At(k) == buf[k + 1]

\* The tags that the loop looks for, a global and a local item.
UsagePage == 4
Usage == 8

\* The value of a short item with len data bytes at place k, low byte first.
ValueAt(k, len) ==
  LET byte(i) == IF i <= len THEN At(k + i) * 256^(i - 1) ELSE 0
  IN  byte(1) + byte(2) + byte(3) + byte(4)

\* The number of data bytes of a short item.
ShortLen(prefix) == <<0, 1, 2, 4>>[(prefix % 4) + 1]

\* A long item says its own length, the prefix of a short one does.
ASSUME ItemsAssumption ==
  \A item \in Items :
    /\ item \in Seq(0 .. 255) /\ Len(item) > 0
    /\ item[1] # 254 => Len(item) = ShortLen(item[1]) + 1

\* MUTANT of ShortTag: keeps the tag without the type of the item.
ShortTagOnly(prefix) == 16 * (prefix \div 16)

ShortTag(prefix) == prefix - (prefix % 4)

ParserInit ==
  /\ items = <<>> /\ end = 0
  /\ p = 0 /\ page = 0 /\ usage = 0 /\ ppc = "idle" /\ reach = 0

\* usb_control_msg returns at least two bytes of a descriptor.
GetDescriptor ==
  /\ ppc = "idle"
  /\ items' \in SeqOf(Items, MaxItems)
  /\ end' \in 2 .. Len(FlattenSeq(items'))
  /\ ppc' = "parse"
  /\ UNCHANGED <<p, page, usage, reach>>

Stop == ppc' = "stop" /\ UNCHANGED <<p, page, usage>>

\* The item is consumed; the loop ends when it has both.
Consume(tag, val, size) ==
  /\ p' = p + size
  /\ page' = IF tag = UsagePage THEN val ELSE page
  /\ usage' = IF tag = Usage THEN val ELSE usage
  /\ ppc' = IF page' # 0 /\ usage' # 0 THEN "stop" ELSE "parse"

Read(n) == reach' = IF n > reach THEN n ELSE reach

\* Long item, HID 1.11, 6.2.2.3.
LongItem ==
  /\ ppc = "parse" /\ p < end /\ At(p) = 254
  /\ IF p + 5 >= end
     THEN Read(p + 1) /\ Stop
     ELSE IF p + At(p + 1) >= end
     THEN Read(p + 2) /\ Stop
     ELSE Read(p + 3) /\ Consume(At(p + 2), 0, At(p + 1) + 6)
  /\ UNCHANGED <<items, end>>

\* Short item, HID 1.11, 6.2.2.2.
ShortItem ==
  /\ ppc = "parse" /\ p < end /\ At(p) # 254
  /\ LET len == ShortLen(At(p))
     IN  IF p + len + 1 >= end
         THEN Read(p + 1) /\ Stop
         ELSE /\ Read(p + len + 1)
              /\ Consume(ShortTag(At(p)), ValueAt(p, len), len + 1)
  /\ UNCHANGED <<items, end>>

NoItem ==
  /\ ppc = "parse" /\ p >= end
  /\ Stop
  /\ UNCHANGED <<items, end, reach>>

\* The result is compared with what the caller wants; the next interface.
NextInterface ==
  /\ ppc = "stop"
  /\ items' = <<>> /\ end' = 0
  /\ p' = 0 /\ page' = 0 /\ usage' = 0 /\ ppc' = "idle" /\ reach' = 0

ParserNext == GetDescriptor \/ LongItem \/ ShortItem \/ NoItem \/ NextInterface

ParserSpec == ParserInit /\ [][ParserNext]_parserVars

-----------------------------------------------------------------------------
IsLong(item) == item[1] = 254

\* What the first n items say of a usage page (the global items with tag 0) or
\* a usage (the local ones); the last one counts.
Said(prefixes, n) ==
  LET saying == {k \in 1 .. n : items[k][1] \in prefixes}
  IN  IF saying = {} THEN 0
      ELSE LET k == CHOOSE k \in saying : \A j \in saying : j <= k
           IN  ValueAt(Len(FlattenSeq(SubSeq(items, 1, k - 1))), Len(items[k]) - 1)

\* The items in front of the last byte that was received.
Whole == {n \in 0 .. Len(items) : n = 0 \/ Len(FlattenSeq(SubSeq(items, 1, n))) < end}
Enough == {n \in Whole : Said(4 .. 7, n) # 0 /\ Said(8 .. 11, n) # 0}

Found ==
  LET n == IF Enough # {} THEN CHOOSE n \in Enough : \A m \in Enough : n <= m
                          ELSE CHOOSE n \in Whole : \A m \in Whole : n >= m
  IN  page = Said(4 .. 7, n) /\ usage = Said(8 .. 11, n)

\* The loop gets the first usage page with a usage that the short items state,
\* of those received whole, wherever the descriptor was cut off, and takes no
\* byte behind those received for a part of it.
UsageIsFound ==
  ppc = "stop" =>
    /\ reach <= end
    /\ (\A k \in DOMAIN items : ~IsLong(items[k])) => Found
=============================================================================

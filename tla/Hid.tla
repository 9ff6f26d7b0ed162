-------------------------------- MODULE Hid --------------------------------
(***************************************************************************)
(* tools/debug-reader/src/hid.c: the list of opened devices, called by a   *)
(* client in any order.  (The debug reader itself opens once and only      *)
(* receives.)                                                              *)
(*                                                                         *)
(* libusb is external: what the bus holds, which calls fail and what a     *)
(* transfer returns is arbitrary.  A call with a null handle is undefined  *)
(* in libusb 0.1, it is taken to end the process.  The linked list is a    *)
(* sequence, get_hid(num) is its element num + 1.                          *)
(***************************************************************************)
EXTENDS Integers, Sequences, FiniteSets

CONSTANTS
  Devices,     \* number of devices on the bus
  Interfaces,  \* bNumInterfaces of each of them
  MaxOpens     \* bound: handles that usb_open gives out to a process

ASSUME HidAssumption ==
  Devices \in Nat /\ Interfaces \in Nat /\ MaxOpens \in Nat

VARIABLES
  hids,        \* the list from first_hid to last_hid
  \* libusb
  opens,       \* how many handles usb_open has given out
  handles,     \* those that are open
  claims,      \* the interfaces that are claimed, as <<handle, interface>>
  \* locals of the call in progress
  hpc, max, count, dev, iface, u, claimed,
  result,      \* of the last call
  used         \* history: the handles that have been in the list

scan == <<dev, iface, u, claimed>>
hidVars == <<hids, opens, handles, claims, hpc, max, count, scan, result, used>>

-----------------------------------------------------------------------------
NULL == 0

\* An interface of a device as hid_struct keeps it.
Device(usb, i) == [usb |-> usb, iface |-> i, open |-> 1]

HidInit ==
  /\ hids = <<>>
  /\ opens = 0 /\ handles = {} /\ claims = {}
  /\ hpc = "idle" /\ max = 0 /\ count = 0
  /\ dev = 0 /\ iface = 0 /\ u = NULL /\ claimed = 0
  /\ result = 0 /\ used = {}

Return(r) == hpc' = "idle" /\ result' = r

\* The call passes a null handle to libusb.
Crash == hpc' = "crashed"

\* MUTANT of HidClose: closes the handle whoever else uses it.
HidCloseAlways(k) ==
  LET h == hids[k]
  IN  /\ claims' = claims \ {<<h.usb, h.iface>>}
      /\ handles' = handles \ {h.usb}
      /\ hids' = [hids EXCEPT ![k].usb = NULL]

\* hid_close.  The device counts itself among the others.
HidClose(k) ==
  LET h == hids[k]
      others == {p \in DOMAIN hids : hids[p].open = 1 /\ hids[p].usb = h.usb}
  IN  /\ claims' = claims \ {<<h.usb, h.iface>>}
      /\ handles' = IF others = {} THEN handles \ {h.usb} ELSE handles
      /\ hids' = [hids EXCEPT ![k].usb = NULL]

-----------------------------------------------------------------------------
(* rawhid_open.                                                            *)

\* The call, with the arguments vid to usage in what the interfaces answer.
OpenCall ==
  /\ hpc = "idle"
  /\ max' \in 0 .. Devices * Interfaces
  /\ hpc' = IF hids # <<>> THEN "free" ELSE "enumerate"
  /\ count' = 1
  /\ UNCHANGED <<hids, opens, handles, claims, scan, result, used>>

\* free_all_hid: count is the place in the list.
FreeClose ==
  /\ hpc = "free" /\ count <= Len(hids)
  /\ IF hids[count].usb = NULL
     THEN Crash /\ UNCHANGED <<hids, handles, claims, count>>
     ELSE HidClose(count) /\ count' = count + 1 /\ UNCHANGED hpc
  /\ UNCHANGED <<opens, max, scan, result, used>>

FreeAll ==
  /\ hpc = "free" /\ count > Len(hids)
  /\ hids' = <<>>
  /\ hpc' = "enumerate"
  /\ UNCHANGED <<opens, handles, claims, max, count, scan, result, used>>

Enumerate ==
  /\ hpc = "enumerate"
  /\ count' = 0 /\ dev' = 0
  /\ IF max < 1 THEN Return(0) ELSE hpc' = "device" /\ UNCHANGED result
  /\ UNCHANGED <<hids, opens, handles, claims, max, iface, u, claimed, used>>

\* The next device of a bus, if it is one the caller asks for.
NextDevice ==
  /\ hpc = "device"
  /\ dev' = dev + 1
  /\ IF dev = Devices
     THEN Return(count) /\ UNCHANGED <<iface, u, claimed>>
     ELSE \/ UNCHANGED <<hpc, result, iface, u, claimed>>
          \/ /\ hpc' = "interface" /\ iface' = 0 /\ u' = NULL /\ claimed' = 0
             /\ UNCHANGED result
  /\ UNCHANGED <<hids, opens, handles, claims, max, count, used>>

Looking == hpc = "interface" /\ iface < Interfaces

\* Not a generic HID interface with an IN endpoint.
SkipInterface ==
  /\ Looking
  /\ iface' = iface + 1
  /\ UNCHANGED <<hids, opens, handles, claims, hpc, max, count, dev, u, claimed,
                 result, used>>

\* usb_open, for the first interface of a device that needs it.
OpenHandle ==
  /\ Looking /\ u = NULL
  /\ \/ /\ opens < MaxOpens
        /\ opens' = opens + 1 /\ u' = opens' /\ handles' = handles \union {u'}
        /\ UNCHANGED iface
     \/ iface' = Interfaces /\ UNCHANGED <<opens, u, handles>>
  /\ UNCHANGED <<hids, claims, hpc, max, count, dev, claimed, result, used>>

\* The kernel keeps its driver, or the interface cannot be claimed.
ClaimFails ==
  /\ Looking /\ u # NULL
  /\ iface' = iface + 1
  /\ UNCHANGED <<hids, opens, handles, claims, hpc, max, count, dev, u, claimed,
                 result, used>>

ClaimInterface ==
  /\ Looking /\ u # NULL
  /\ claims' = claims \union {<<u, iface>>}
  /\ hpc' = "claimed"
  /\ UNCHANGED <<hids, opens, handles, max, count, scan, result, used>>

\* MUTANT of NotWanted: keeps the interface.
NotWantedKept ==
  /\ hpc = "claimed"
  /\ hpc' = "interface" /\ iface' = iface + 1
  /\ UNCHANGED <<hids, opens, handles, claims, max, count, dev, u, claimed,
                 result, used>>

\* No descriptor, another usage, or no memory.
NotWanted ==
  /\ hpc = "claimed"
  /\ claims' = claims \ {<<u, iface>>}
  /\ hpc' = "interface" /\ iface' = iface + 1
  /\ UNCHANGED <<hids, opens, handles, max, count, dev, u, claimed, result, used>>

\* add_hid, and the return when there are enough.
AddHid ==
  /\ hpc = "claimed"
  /\ hids' = Append(hids, Device(u, iface))
  /\ used' = used \union {u}
  /\ claimed' = claimed + 1 /\ count' = count + 1 /\ iface' = iface + 1
  /\ IF count' >= max THEN Return(count') ELSE hpc' = "interface" /\ UNCHANGED result
  /\ UNCHANGED <<opens, handles, claims, max, dev, u>>

DeviceDone ==
  /\ hpc = "interface" /\ iface = Interfaces
  /\ hpc' = "device"
  /\ handles' = IF u # NULL /\ claimed = 0 THEN handles \ {u} ELSE handles
  /\ UNCHANGED <<hids, opens, claims, max, count, scan, result, used>>

RawhidOpen ==
  \/ OpenCall \/ FreeClose \/ FreeAll \/ Enumerate \/ NextDevice
  \/ SkipInterface \/ OpenHandle \/ ClaimFails \/ ClaimInterface
  \/ NotWanted \/ AddHid \/ DeviceDone

-----------------------------------------------------------------------------
(* The calls for one device; num + 1 is its place in the list.             *)

\* What usb_interrupt_read and usb_interrupt_write return: a number of bytes,
\* that of a timeout (-ETIMEDOUT) or of another error (here -ENODEV).
TransferResults == {0, 64, -110, -19}

OpenInList(k) == k \in DOMAIN hids /\ hids[k].open = 1

RawhidRecv(k) ==
  /\ hpc = "idle"
  /\ IF ~OpenInList(k) THEN Return(-1)
     ELSE IF hids[k].usb = NULL THEN Crash /\ UNCHANGED result
     ELSE \E r \in TransferResults :
            Return(IF r >= 0 THEN r ELSE IF r = -110 THEN 0 ELSE -1)
  /\ UNCHANGED <<hids, opens, handles, claims, max, count, scan, used>>

RawhidSend(k) ==
  /\ hpc = "idle"
  /\ IF ~OpenInList(k) THEN Return(-1)
     ELSE IF hids[k].usb = NULL THEN Crash /\ UNCHANGED result
     ELSE \E r \in TransferResults : Return(r)
  /\ UNCHANGED <<hids, opens, handles, claims, max, count, scan, used>>

RawhidClose(k) ==
  /\ hpc = "idle"
  /\ IF ~OpenInList(k)
     THEN UNCHANGED <<hpc, hids, handles, claims>>
     ELSE IF hids[k].usb = NULL
     THEN Crash /\ UNCHANGED <<hids, handles, claims>>
     ELSE HidClose(k) /\ UNCHANGED hpc
  /\ UNCHANGED <<opens, max, count, scan, result, used>>

\* The process ends, by itself or by a crash: the kernel closes its handles.
Exit ==
  /\ hpc \in {"idle", "crashed"}
  /\ hids' = <<>>
  /\ opens' = 0 /\ handles' = {} /\ claims' = {}
  /\ hpc' = "idle" /\ max' = 0 /\ count' = 0
  /\ dev' = 0 /\ iface' = 0 /\ u' = NULL /\ claimed' = 0
  /\ result' = 0 /\ used' = {}

HidNext ==
  \/ RawhidOpen
  \/ \E k \in 1 .. Devices * Interfaces + 1 :
       RawhidRecv(k) \/ RawhidSend(k) \/ RawhidClose(k)
  \/ Exit

HidSpec == HidInit /\ [][HidNext]_hidVars

-----------------------------------------------------------------------------
Listed == {hids[k] : k \in DOMAIN hids}

\* Whatever fails on the way, an interface is claimed exactly while a device of
\* the list stands for it, but for the one that rawhid_open is looking at.
ClaimsMatchList ==
  claims = {<<h.usb, h.iface>> : h \in {h \in Listed : h.usb # NULL}}
           \union (IF hpc = "claimed" THEN {<<u, iface>>} ELSE {})

\* A device of the list has an open handle until it is closed itself, also when
\* other devices that share the handle are closed before it; and no handle that
\* rawhid_open has opened in vain stays open when it returns.
HandlesMatchList ==
  /\ \A h \in Listed : h.usb = NULL \/ h.usb \in handles
  /\ hpc = "idle" => handles \subseteq used
=============================================================================

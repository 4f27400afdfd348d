------------------------------- MODULE Inquiry -------------------------------
(***************************************************************************)
(* How the robot is found: BluetoothProto::bluetoothInquire() and, around  *)
(* it, the search of getSpheroBtAddr() in BTUT/SpheroCommandTest.cpp.      *)
(* The lookup of Windows is external: it may fail to begin, it reports     *)
(* devices in any order, each in the same query set, and it may stop at    *)
(* any time, with an error or at its end.                                  *)
(***************************************************************************)
EXTENDS Naturals, SequencesExt

CONSTANTS
  Devices,         \* what a lookup can report: records of name and address
  Nothing,         \* a null name or address
  Sphero,          \* a name that contains "Sphero"
  INQ_MAX_RETRIES,
  MaxReported      \* bound: devices one lookup reports

VARIABLES
  step,      \* inquire, next, search, found or given up
  tries,     \* the loop variable of the search
  vOut,      \* btItems
  querySet,  \* whether the query set is allocated
  handle,    \* whether the lookup is open
  reported,  \* what this inquiry's lookup has reported
  found      \* the pointer that is returned, as an index into btItems

vars == <<step, tries, vOut, querySet, handle, reported, found>>

Init ==
  /\ step = "inquire" /\ tries = 0
  /\ vOut = <<>> /\ querySet = FALSE /\ handle = FALSE
  /\ reported = <<>> /\ found = 0

(* The inquiry, from here to End.                                          *)
Begin ==
  /\ step = "inquire"
  /\ step' = "next"
  /\ vOut' = <<>> /\ reported' = <<>>
  /\ querySet' = TRUE /\ handle' = TRUE
  /\ UNCHANGED <<tries, found>>

BeginFails ==
  /\ step = "inquire"
  /\ step' = "search"
  /\ vOut' = <<>> /\ reported' = <<>>
  /\ UNCHANGED <<tries, querySet, handle, found>>

Complete(device) == device.name # Nothing /\ device.address # Nothing

Bug_Add(device) == Append([i \in DOMAIN vOut |-> [vOut[i] EXCEPT !.address = device.address]], device)

(* BluetoothInqItem copies name and address out of the query set.          *)
Add(device) == Append(vOut, device)

Report(device) ==
  /\ step = "next"
  /\ device \notin ToSet(reported) /\ Len(reported) < MaxReported
  /\ reported' = Append(reported, device)
  /\ vOut' = IF Complete(device) THEN Add(device) ELSE vOut
  /\ UNCHANGED <<step, tries, querySet, handle, found>>

Bug_End ==
  /\ step = "next"
  /\ step' = "search"
  /\ handle' = FALSE
  /\ UNCHANGED <<tries, vOut, querySet, reported, found>>

End ==
  /\ step = "next"
  /\ step' = "search"
  /\ handle' = FALSE /\ querySet' = FALSE
  /\ UNCHANGED <<tries, vOut, reported, found>>

-----------------------------------------------------------------------------
(* The search.                                                             *)

Named == {i \in DOMAIN vOut : vOut[i].name = Sphero}

Find ==
  /\ step = "search" /\ Named # {}
  /\ found' = CHOOSE i \in Named : \A j \in Named : i <= j
  /\ step' = "found"
  /\ UNCHANGED <<tries, vOut, querySet, handle, reported>>

Bug_Again ==
  /\ step = "search" /\ Named = {}
  /\ step' = "inquire"
  /\ UNCHANGED <<tries, vOut, querySet, handle, reported, found>>

Again ==
  /\ step = "search" /\ Named = {}
  /\ tries' = tries + 1
  /\ step' = IF tries' < INQ_MAX_RETRIES THEN "inquire" ELSE "given up"
  /\ UNCHANGED <<vOut, querySet, handle, reported, found>>

Next ==
  \/ Begin \/ BeginFails \/ End \/ Find \/ Again
  \/ \E device \in Devices : Report(device)

Over == step \in {"found", "given up"}

-----------------------------------------------------------------------------
TypeOK ==
  /\ step \in {"inquire", "next", "search", "found", "given up"}
  /\ tries \in 0 .. INQ_MAX_RETRIES
  /\ vOut \in Seq(Devices) /\ reported \in Seq(Devices)
  /\ querySet = (step = "next") /\ handle = (step = "next")
  /\ found \in 0 .. Len(vOut)

Robots == {i \in DOMAIN reported : Complete(reported[i]) /\ reported[i].name = Sphero}

(* The address that is returned is that of the first robot the last        *)
(* inquiry reported, untouched by what was reported after it, and there    *)
(* is none only if that inquiry reported no robot                          *)
(* (BluetoothInqItem, getSpheroBtAddr).                                    *)
AddressOfSphero ==
  Over =>
    IF step = "found"
    THEN \E i \in Robots : (\A j \in Robots : i <= j) /\ vOut[found] = reported[i]
    ELSE Robots = {} /\ found = 0
=============================================================================

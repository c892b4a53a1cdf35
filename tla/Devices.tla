------------------------------ MODULE Devices -------------------------------
(***************************************************************************)
(* The device file system of xtkernel/devfs.c: the list of devices, which  *)
(* drivers running on several threads extend.  The list is locked for each *)
(* search and each insertion, not from one to the other.                   *)
(***************************************************************************)
EXTENDS Lists, FiniteSets, FiniteSetsExt

CONSTANTS
    Drivers,        \* threads that register devices
    DeviceNames,
    MaxDevices      \* bound on the length of the list

ASSUME DevicesAssumption == MaxDevices \in Nat

VARIABLES
    devices,        \* the list; `seen': how long it was when the name was looked for
    registering,    \* the name a driver is registering, after the search, or NoName
    seen,           \* history: the length of the list at that search
    damaged         \* a list node was freed and is still linked: the model ends

devVars == <<devices, registering, seen, damaged>>

NoName == ""

DevTypeOK ==
    /\ devices \in Seq([name : DeviceNames, seen : 0..MaxDevices])
    /\ Len(devices) <= MaxDevices
    /\ registering \in [Drivers -> DeviceNames \cup {NoName}]
    /\ seen \in [Drivers -> 0..MaxDevices]
    /\ damaged \in BOOLEAN

DevInit ==
    /\ devices = <<>>
    /\ registering = [d \in Drivers |-> NoName]
    /\ seen = [d \in Drivers |-> 0]
    /\ damaged = FALSE

FindBehindHead(name) == \E i \in 2..Len(devices) : devices[i].name = name
xtFindDevice(name) == \E i \in DOMAIN devices : devices[i].name = name

(* xtRegisterDevice up to the result of the search. *)
xtRegisterDevice(d, name) ==
    /\ ~damaged
    /\ registering[d] = NoName
    /\ ~xtFindDevice(name)                  \* else XT_FILE_ALREADY_EXISTS
    /\ registering' = [registering EXCEPT ![d] = name]
    /\ seen' = [seen EXCEPT ![d] = Len(devices)]
    /\ UNCHANGED <<devices, damaged>>

(* One of its four allocations fails; the last one is reported as success. *)
RegisterFails(d) ==
    /\ ~damaged
    /\ registering[d] # NoName
    /\ registering' = [registering EXCEPT ![d] = NoName]
    /\ UNCHANGED <<devices, seen, damaged>>

xtAppendList(d) ==
    /\ ~damaged
    /\ registering[d] # NoName
    /\ Len(devices) < MaxDevices
    /\ devices' = Append(devices, [name |-> registering[d], seen |-> seen[d]])
    /\ registering' = [registering EXCEPT ![d] = NoName]
    /\ UNCHANGED <<seen, damaged>>

(* xtUnregisterDevice; the result of xtRemoveFromList is not looked at. *)
xtUnregisterDevice(name) ==
    /\ ~damaged
    /\ xtFindDevice(name)                   \* else XT_NOT_FOUND
    /\ LET i == Min({j \in DOMAIN devices : devices[j].name = name}) IN
       /\ devices' = xtRemoveFromList(devices, i)
       /\ damaged' = Dangles(devices, i)
    /\ UNCHANGED <<registering, seen>>

DevNext ==
    \/ \E d \in Drivers : \E name \in DeviceNames : xtRegisterDevice(d, name)
    \/ \E d \in Drivers : RegisterFails(d) \/ xtAppendList(d)
    \/ \E name \in DeviceNames : xtUnregisterDevice(name)

-----------------------------------------------------------------------------
(***************************************************************************)
(* Two devices have one name only when the second driver had looked for    *)
(* the name before the first one was in the list: registrations that do    *)
(* not overlap are kept apart (devfs.c:34-37, 62-69).                      *)
(***************************************************************************)
DuplicateOnlyByRace == ~damaged => \A i, j \in DOMAIN devices :
    i < j /\ devices[i].name = devices[j].name => devices[j].seen < i

(* The search of a driver has covered the first `seen' devices, and none of *)
(* them has the name it is registering: nothing undamaged is ever removed.  *)
SearchStillHolds == ~damaged => \A d \in Drivers :
    /\ seen[d] <= Len(devices)
    /\ registering[d] # NoName =>
          \A i \in 1..seen[d] : devices[i].name # registering[d]

(* The device list and the registrations under way (devfs.c:34-69): the     *)
(* types, and the two facts above, which are inductive together.            *)
DevInv == DevTypeOK /\ DuplicateOnlyByRace /\ SearchStillHolds
=============================================================================

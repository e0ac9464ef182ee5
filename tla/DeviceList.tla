----------------------------- MODULE DeviceList -----------------------------
(***************************************************************************)
(* The list of devices that libusb0.dll keeps for a program.               *)
(* usb_find_devices looks at every device name the driver may have given,  *)
(* drops the devices that are gone from the list, reads the descriptors of *)
(* the new ones and puts those on the list whose descriptors have come.    *)
(* Meanwhile devices are plugged in and out, and refuse requests.          *)
(***************************************************************************)
EXTENDS Descriptors

CONSTANTS
    NumSlots,   \* LIBUSB_MAX_DEVICES - 1: names that are looked at, from 1
    Products,   \* what may be plugged in
    Env         \* which disturbances may happen

Disturbances ==
    { "Stalls",     \* a device refuses requests
      "Replug" }    \* a name is given to another device while the old one is looked at

Slots == 1 .. NumSlots
(* model: the ids of vendor and product; configs: what the device sends    *)
(* for each configuration, its descriptor first; means: what that is if    *)
(* all numbers in it are right, and otherwise empty.                       *)
Product == [model : STRING, configs : Seq(Seq(Descriptor)), means : Seq(ConfigDescriptor)]
ASSUME ProductsAssumption ==
    \A p \in Products :
        /\ p \in Product
        /\ \A k \in DOMAIN p.configs : p.configs[k] # <<>> /\ Head(p.configs[k]).type = "config"
        /\ p.means # <<>> => DOMAIN p.means = DOMAIN p.configs
        /\ \A k \in DOMAIN p.means : /\ IsConfiguration(Head(p.configs[k]), p.means[k])
                                     /\ Flat(p.means[k]) = Tail(p.configs[k])
ASSUME EnvAssumption == NumSlots \in Nat /\ Env \subseteq Disturbances

USB_MAXCONFIG == 8
Nothing == [model |-> "none", configs |-> <<>>, means |-> <<>>]

VARIABLES
    port,       \* by name, the product that has it
    busses,     \* _usb_busses: the one virtual bus is known
    devices,    \* bus->devices
    children,   \* root_dev->children
    call        \* usb_find_devices under way: the new devices, and where it is

vars == <<port, busses, devices, children, call>>

(* i: the name, or the configuration, looked at; found: the new list.      *)
(* History: changed: names that devices came to or went from during the    *)
(* call; refused: names of devices that have refused a request in it.      *)
NoCall == [pc |-> "idle", i |-> 1, found |-> <<>>, changed |-> {}, refused |-> {}]

(* struct usb_device.  filename is the name with the ids.  History: from,  *)
(* the product whose device descriptor was read.                           *)
NewDevice(slot) ==
    [filename |-> <<slot, port[slot].model>>, configs |-> <<>>, from |-> port[slot]]
\* Mutant: devices are compared by the name without the ids.
SameSlot(d, e) == d.filename[1] = e.filename[1]
SameFile(d, e) == d.filename = e.filename
Slot(d) == d.filename[1]

Init ==
    /\ port = [s \in Slots |-> Nothing]
    /\ busses = FALSE
    /\ devices = <<>>
    /\ children = <<>>
    /\ call = NoCall

Answers == IF "Stalls" \in Env THEN BOOLEAN ELSE {TRUE}

(***************************************************************************)
(* The library.                                                            *)
(***************************************************************************)
(* The virtual bus is new the first time, and a duplicate from then on.    *)
usb_find_busses ==
    /\ call.pc = "idle"
    /\ busses' = TRUE
    /\ UNCHANGED <<port, devices, children, call>>

usb_find_devices ==
    /\ call.pc = "idle" /\ busses
    /\ call' = [NoCall EXCEPT !.pc = "names"]
    /\ UNCHANGED <<port, busses, devices, children>>

(* usb_os_find_devices: one name after the other.                          *)
usb_os_find_devices ==
    /\ call.pc = "names" /\ call.i \in Slots
    /\ \E answers \in Answers :
         LET there == port[call.i] # Nothing IN
         call' = [call EXCEPT
            !.i = @ + 1,
            !.found = IF there /\ answers THEN <<NewDevice(call.i)>> \o @ ELSE @,
            !.refused = IF there /\ ~answers THEN @ \cup {call.i} ELSE @]
    /\ UNCHANGED <<port, busses, devices, children>>

(* The known devices are compared with the new list.                       *)
IsIn(d, list) == \E k \in DOMAIN list : SameFile(d, list[k])
Sift(list, other, known) ==
    LET upto[n \in 0 .. Len(list)] ==
            IF n = 0 THEN <<>>
            ELSE IF IsIn(list[n], other) = known THEN Append(upto[n - 1], list[n])
            ELSE upto[n - 1]
    IN upto[Len(list)]
Compare ==
    /\ call.pc = "names" /\ call.i \notin Slots
    /\ devices' = Sift(devices, call.found, TRUE)
    /\ call' = [call EXCEPT !.pc = "open", !.i = 1, !.found = Sift(@, devices, FALSE)]
    /\ UNCHANGED <<port, busses, children>>

(* usb_fetch_and_parse_descriptors for the first of the new devices.       *)
New == Head(call.found)
Configurations == Len(New.from.configs)
NextNew(c) == [c EXCEPT !.pc = "open", !.found = Tail(@), !.i = 1]
At(pc) == call.pc = pc /\ call.found # <<>>

(* The device cannot be opened, or offers too few or too many.             *)
NotFetched ==
    /\ At("open")
    /\ Configurations \notin 1 .. USB_MAXCONFIG \/ port[Slot(New)] = Nothing
    /\ call' = NextNew(call)
    /\ UNCHANGED <<port, busses, devices, children>>

Opened ==
    /\ At("open")
    /\ Configurations \in 1 .. USB_MAXCONFIG /\ port[Slot(New)] # Nothing
    /\ call' = [call EXCEPT !.pc = "header"]
    /\ UNCHANGED <<port, busses, devices, children>>

Sends(slot, i) == i <= Len(port[slot].configs)

(* First the head of each configuration, for the length of the whole.      *)
HeaderFetched ==
    /\ At("header") /\ call.i <= Configurations
    /\ Sends(Slot(New), call.i)
    /\ call' = [call EXCEPT !.pc = "whole"]
    /\ UNCHANGED <<port, busses, devices, children>>

(* Whether the parser fails does not matter to the caller.                 *)
WholeFetched ==
    /\ At("whole")
    /\ Sends(Slot(New), call.i)
    /\ \E beyond \in BOOLEAN :
         call' = [call EXCEPT !.pc = "header", !.i = @ + 1,
            !.found[1].configs = Append(@,
                usb_parse_configuration(port[Slot(New)].configs[call.i], beyond))]
    /\ UNCHANGED <<port, busses, devices, children>>

(* A request fails: the device is forgotten.                               *)
FetchFails ==
    /\ At("header") \/ At("whole")
    /\ call.i <= Configurations
    /\ ~Sends(Slot(New), call.i) \/ FALSE \in Answers
    /\ call' = [NextNew(call) EXCEPT !.refused =
            IF Sends(Slot(New), call.i) THEN @ \cup {Slot(New)} ELSE @]
    /\ UNCHANGED <<port, busses, devices, children>>

Added ==
    /\ At("header") /\ call.i > Configurations
    /\ devices' = <<New>> \o devices
    /\ call' = NextNew(call)
    /\ UNCHANGED <<port, busses, children>>

(* The virtual hub has all devices of the list as its children.            *)
usb_os_determine_children ==
    /\ call.pc = "open" /\ call.found = <<>>
    /\ children' = devices
    /\ call' = [call EXCEPT !.pc = "return"]
    /\ UNCHANGED <<port, busses, devices>>

Return ==
    /\ call.pc = "return"
    /\ call' = NoCall
    /\ UNCHANGED <<port, busses, devices, children>>

(***************************************************************************)
(* The system.                                                             *)
(***************************************************************************)
Changed(slot) == call' = [call EXCEPT !.changed = IF call.pc = "idle" THEN {} ELSE @ \cup {slot}]

Plug(slot, product) ==
    /\ port[slot] = Nothing
    /\ "Replug" \notin Env => slot \notin call.changed
    /\ port' = [port EXCEPT ![slot] = product]
    /\ Changed(slot)
    /\ UNCHANGED <<busses, devices, children>>

Unplug(slot) ==
    /\ port[slot] # Nothing
    /\ "Replug" \notin Env => slot \notin call.changed
    /\ port' = [port EXCEPT ![slot] = Nothing]
    /\ Changed(slot)
    /\ UNCHANGED <<busses, devices, children>>

Find ==
    \/ usb_find_busses \/ usb_find_devices \/ usb_os_find_devices \/ Compare
    \/ NotFetched \/ Opened \/ HeaderFetched \/ WholeFetched \/ FetchFails \/ Added
    \/ usb_os_determine_children \/ Return

Next ==
    \/ Find
    \/ \E slot \in Slots : Unplug(slot) \/ \E product \in Products : Plug(slot, product)

Spec == Init /\ [][Next]_vars

(***************************************************************************)
(* Properties.                                                             *)
(***************************************************************************)
(* What a program reads of a device is what the device has sent: a         *)
(* configuration in which all numbers are right is parsed as it is, and    *)
(* from any other nothing that is kept was taken twice, out of order or    *)
(* from elsewhere (descriptors.c: the loops find the ends of interfaces,   *)
(* settings and endpoints by type and number, without the structure).  Of  *)
(* an unset pointer to endpoints, which only a wrong configuration leaves, *)
(* it says nothing.                                                        *)
IsSubsequenceOf(s, t) ==
    LET taken[n \in 0 .. Len(t)] ==
            IF n = 0 THEN 0
            ELSE LET before == taken[n - 1] IN
                 IF before < Len(s) /\ s[before + 1] = t[n] THEN before + 1 ELSE before
    IN taken[Len(t)] = Len(s)
ConfigsAreOfDevice ==
    \A k \in DOMAIN devices :
        LET sent == devices[k].from.configs IN
        /\ Len(devices[k].configs) = Len(sent)
        /\ \A i \in DOMAIN sent :
             LET c == devices[k].configs[i] IN
             /\ c.ok => IsSubsequenceOf(Flat(c.value), Tail(sent[i]))
             /\ devices[k].from.means # <<>> => c = Parsed(devices[k].from.means[i], <<>>)

(* When usb_find_devices returns, each device that was there all the time, *)
(* has answered and has a configuration is on the list, once, under its    *)
(* name; nothing is on the list that was not there; and the hub has those  *)
(* on the list as its children, and none that was freed.                   *)
ListIsCurrent ==
    call.pc = "return" => children = devices /\
        \A s \in Slots \ (call.changed \cup call.refused) :
            LET listed == {k \in DOMAIN devices : Slot(devices[k]) = s} IN
            IF Len(port[s].configs) \in 1 .. USB_MAXCONFIG
            THEN \E k \in listed : listed = {k} /\ devices[k].filename = <<s, port[s].model>>
            ELSE listed = {}

=============================================================================

---------------------------- MODULE DeviceConfig ----------------------------
(***************************************************************************)
(* What libusb0.sys remembers of the configuration of one device: the      *)
(* cached descriptor, the pipes of every interface and the file object     *)
(* that has claimed it.  Requests of several programs change it; one that  *)
(* talks to the device blocks its thread in call_usbd, and the others go   *)
(* on.  Nothing but the remove lock (UsbDriver) guards the data.           *)
(***************************************************************************)
EXTENDS Integers, Sequences, FiniteSets

CONSTANTS
    Threads,        \* threads with a request that blocks
    Files, NoFile,  \* file objects, and none
    Configs,        \* what the device offers: a sequence of configurations
    NumInterfaces,  \* LIBUSB_MAX_NUMBER_OF_INTERFACES
    NumEndpoints,   \* LIBUSB_MAX_NUMBER_OF_ENDPOINTS
    MaxSelects,     \* Bound: how often the device is given new pipes
    Env             \* "Concurrent": two requests change the configuration at once

Interfaces == 0 .. NumInterfaces - 1

(* An endpoint: bEndpointAddress, 128 and more for input, and its type.    *)
(* Configs[i].interfaces[n] is the sequence of alternate settings of        *)
(* interface n, each one the sequence of its endpoints; order is the       *)
(* sequence in which the descriptor has the interfaces.                    *)
Endpoint == [address : 1 .. 255, type : {"bulk", "iso"}]
ASSUME ConfigsAssumption ==
    /\ Len(Configs) \in Nat
    /\ \A i \in 1 .. Len(Configs) :
        /\ Configs[i].value \in Nat \ {0}
        /\ \A j \in 1 .. Len(Configs) : Configs[j].value = Configs[i].value => j = i
        /\ DOMAIN Configs[i].interfaces \subseteq Interfaces
        /\ {Configs[i].order[k] : k \in DOMAIN Configs[i].order} = DOMAIN Configs[i].interfaces
        /\ \A n \in DOMAIN Configs[i].interfaces :
             Configs[i].interfaces[n] \in Seq(Seq(Endpoint))
ASSUME FilesAssumption == NoFile \notin Files
ASSUME SizesAssumption == NumInterfaces \in Nat /\ NumEndpoints \in Nat

VARIABLES
    config,     \* dev->config but for the interfaces: value, index, descriptor
    interfaces, \* dev->config.interfaces
    known,      \* dev->device_descriptor is cached
    req,        \* the blocked requests
    open,       \* the open file objects
    chip,       \* the device: its configuration, by interface the alternate
                \* setting and the handle of its pipes
    selects     \* how often it has been given new pipes; the last handle

vars == <<config, interfaces, known, req, open, chip, selects>>

ActiveConfig == -258
NoHandle == 0
NoDescriptor == 0
Request(op, pc, arg, alt, to, handle) ==
    [op |-> op, pc |-> pc, arg |-> arg, alt |-> alt, to |-> to, handle |-> handle]
Idle == Request("none", "idle", 0, 0, 0, NoHandle)
Reconfigures == {"set_configuration", "set_interface", "reset_device"}

(* libusb_endpoint_t; zeroed memory reads as a control pipe.               *)
Slot(address, handle, type) == [address |-> address, handle |-> handle, type |-> type]
EmptySlot == Slot(0, NoHandle, "control")
NoInterface == [valid |-> FALSE, owner |-> NoFile,
                slots |-> [j \in 1 .. NumEndpoints |-> EmptySlot]]

(* UpdateContextConfigDescriptor. *)
Context(value, index, descriptor) ==
    [value |-> value, index |-> index, descriptor |-> descriptor]

Unselected == [config |-> 0, alt |-> [n \in Interfaces |-> 0],
               handle |-> [n \in Interfaces |-> NoHandle]]

Init ==
    /\ config = Context(0, -1, NoDescriptor)
    /\ interfaces = [n \in Interfaces |-> NoInterface]
    /\ known = FALSE
    /\ req = [t \in Threads |-> Idle]
    /\ open = {}
    /\ chip = Unselected
    /\ selects = 0

(***************************************************************************)
(* Tables.                                                                 *)
(***************************************************************************)
clear_pipe_info == [n \in Interfaces |-> NoInterface]

\* Mutant: the slots beyond the pipes of the interface are left as they were.
update_first_slots(interface, endpoints, handle) ==
    [valid |-> TRUE, owner |-> interface.owner,
     slots |-> [j \in 1 .. NumEndpoints |->
        IF j <= Len(endpoints) THEN Slot(endpoints[j].address, handle, endpoints[j].type)
        ELSE interface.slots[j]]]
(* All slots lose address and handle, then the first ones are filled in;   *)
(* the slots beyond keep the other fields of the pipe they had.            *)
update_pipe_info(interface, endpoints, handle) ==
    [valid |-> TRUE, owner |-> interface.owner,
     slots |-> [j \in 1 .. NumEndpoints |->
        IF j <= Len(endpoints) THEN Slot(endpoints[j].address, handle, endpoints[j].type)
        ELSE Slot(0, NoHandle, interface.slots[j].type)]]

(* The slots a look-up by address sees, in the order it sees them.         *)
Found(address) ==
    {p \in Interfaces \X (1 .. NumEndpoints) :
        interfaces[p[1]].valid /\ interfaces[p[1]].slots[p[2]].address = address}
FirstSlot(address) ==
    LET first == CHOOSE p \in Found(address) : \A q \in Found(address) :
                    p[1] < q[1] \/ (p[1] = q[1] /\ p[2] <= q[2])
    IN interfaces[first[1]].slots[first[2]]

(* The pipe a request is sent to, if any: for reads dispatch_ioctl looks   *)
(* at the type and the direction of the slot, for writes at its type, and  *)
(* for isochronous ones at the direction; at the handle for none of them.  *)
IsIn(address) == address >= 128
get_pipe_info(address) == {FirstSlot(a) : a \in {b \in {address} : Found(b) # {}}}
BulkRead(address) == {s \in get_pipe_info(address) : s.type = "bulk" /\ IsIn(address)}
BulkWrite(address) == {s \in get_pipe_info(address) : s.type = "bulk"}
IsochronousRead(address) == {s \in get_pipe_info(address) : s.type = "iso" /\ IsIn(address)}
IsochronousWrite(address) == {s \in get_pipe_info(address) : s.type = "iso" /\ ~IsIn(address)}

(* Requests about an endpoint look at the configuration too.               *)
get_pipe_handle(address) == {s \in get_pipe_info(address) : s.handle # NoHandle}
reset_endpoint(address) == {s \in get_pipe_handle(address) : config.value # 0}
abort_endpoint(address) == {s \in get_pipe_handle(address) : config.value # 0}

find_interface_desc(i, n, alt) ==
    n \in DOMAIN Configs[i].interfaces /\ alt < Len(Configs[i].interfaces[n])

(* The libusbK requests name an interface by its index or its number, or   *)
(* take the first one.                                                     *)
Wanted == [by : {"index", "number"}, n : Interfaces] \cup {[by |-> "any", n |-> 0]}
find_interface_desc_ex(i, w) ==
    IF i = NoDescriptor THEN {}
    ELSE {Configs[i].order[k] : k \in {j \in DOMAIN Configs[i].order :
            CASE w.by = "index" -> j = w.n + 1
              [] w.by = "number" -> Configs[i].order[j] = w.n
              [] w.by = "any" -> j = 1}}

(* get_config_descriptor: by value, or by index when the value is negative. *)
Selected(c) == {i \in 1 .. Len(Configs) : (c > 0 /\ Configs[i].value = c) \/ (c < 0 /\ -i = c)}

(***************************************************************************)
(* Requests that block.                                                    *)
(***************************************************************************)
Begin(t, op, pc, arg, alt, to) ==
    /\ req[t] = Idle
    /\ req' = [req EXCEPT ![t] = Request(op, pc, arg, alt, to, NoHandle)]
Goes(t, pc, to, handle) ==
    req' = [req EXCEPT ![t] = Request(@.op, pc, @.arg, @.alt, to, handle)]

Quiet(t) == "Concurrent" \notin Env =>
                \A u \in Threads \ {t} : req[u].op \notin Reconfigures
End(t) == req' = [req EXCEPT ![t] = Idle]
At(t, op, pc) == req[t].op = op /\ req[t].pc = pc

(* Nothing is done when the value or the index is the active one.          *)
SetConfiguration(t, c) ==
    /\ Quiet(t)
    /\ ~(c > 0 /\ config.value = c)
    /\ ~(c < 0 /\ config.value # 0 /\ config.index = -c - 1)
    /\ Begin(t, "set_configuration", IF c = 0 THEN "unselect" ELSE "fetch",
             IF c <= ActiveConfig THEN -1 ELSE c, 0, 0)
    /\ UNCHANGED <<config, interfaces, known, open, chip, selects>>

(* Configuration 0: the descriptor stays, the interfaces go.               *)
Unconfigured(t) ==
    /\ At(t, "set_configuration", "unselect")
    /\ chip' = Unselected
    /\ config' = [config EXCEPT !.value = 0]
    /\ interfaces' = clear_pipe_info
    /\ End(t)
    /\ UNCHANGED <<known, open, selects>>

\* Mutant: a descriptor that is read replaces the cached one but not the active value.
CacheKeepingValue(i) == [config EXCEPT !.index = i - 1, !.descriptor = i]
(* The whole descriptor is asked for, and the first one ever is cached.    *)
Cache(i) == IF config.descriptor = NoDescriptor THEN Context(0, i - 1, i) ELSE config

(* get_config_descriptor, the last of its calls: the device descriptor,    *)
(* the header of each configuration in turn and the whole of the chosen    *)
(* one.  The first call caches what GetDeviceDescriptor may cache at any   *)
(* time, the headers cache nothing, and the requests that may come between *)
(* do not change the value it compares; so one step stands for them.       *)
(* A configuration the device already has only renews the cache.           *)
Fetched(t) ==
    /\ At(t, "set_configuration", "fetch")
    /\ known' = TRUE
    /\ \E i \in Selected(req[t].arg) :
         LET cached == Cache(i) IN
         IF cached.value = Configs[i].value
         THEN config' = Context(Configs[i].value, i - 1, i) /\ End(t)
         ELSE /\ config' = cached
              /\ Goes(t, "select", i, NoHandle)
    /\ UNCHANGED <<interfaces, open, chip, selects>>

(* One of the calls fails, no configuration is the one asked for, or there *)
(* is no memory.  A URB that failed in a call that did not is taken for a  *)
(* failed call: get_descriptor then returns success and no bytes, and the  *)
(* code goes on with what the buffer had in it.                            *)
FetchFails(t) ==
    /\ At(t, "set_configuration", "fetch")
    /\ known' \in {known, TRUE}
    /\ Selected(req[t].arg) = {} => known'
    /\ End(t)
    /\ UNCHANGED <<config, interfaces, open, chip, selects>>

(* The device takes the configuration; every pipe gets a new handle.       *)
Selects(t) ==
    /\ At(t, "set_configuration", "select") /\ selects < MaxSelects
    /\ selects' = selects + 1
    /\ chip' = [config |-> req[t].to, alt |-> [n \in Interfaces |-> 0],
                handle |-> [n \in Interfaces |->
                    IF find_interface_desc(req[t].to, n, 0) THEN selects' ELSE NoHandle]]
    /\ Goes(t, "record", req[t].to, selects')
    /\ UNCHANGED <<config, interfaces, known, open>>

(* The thread is back from call_usbd and fills in the tables.              *)
RecordConfiguration(t) ==
    /\ At(t, "set_configuration", "record")
    /\ LET i == req[t].to IN
       /\ interfaces' = [n \in Interfaces |->
            IF find_interface_desc(i, n, 0)
            THEN update_pipe_info(NoInterface, Configs[i].interfaces[n][1], req[t].handle)
            ELSE NoInterface]
       /\ config' = Context(Configs[i].value, i - 1, i)
    /\ End(t)
    /\ UNCHANGED <<known, open, chip, selects>>

(* The call fails, or times out and is cancelled; the device stays as it is. *)
CallFails(t) ==
    /\ req[t].pc \in {"unselect", "select"}
    /\ End(t)
    /\ UNCHANGED <<config, interfaces, known, open, chip, selects>>

SetInterface(t, n, alt) ==
    /\ Quiet(t)
    /\ config.value # 0 /\ config.descriptor # NoDescriptor
    /\ find_interface_desc(config.descriptor, n, alt)
    /\ Begin(t, "set_interface", "select", n, alt, config.descriptor)
    /\ UNCHANGED <<config, interfaces, known, open, chip, selects>>

SelectsInterface(t) ==
    /\ At(t, "set_interface", "select") /\ selects < MaxSelects
    /\ selects' = selects + 1
    /\ chip' = [chip EXCEPT !.handle[req[t].arg] = selects', !.alt[req[t].arg] = req[t].alt]
    /\ Goes(t, "record", req[t].to, selects')
    /\ UNCHANGED <<config, interfaces, known, open>>

RecordInterface(t) ==
    /\ At(t, "set_interface", "record")
    /\ LET n == req[t].arg
           endpoints == Configs[req[t].to].interfaces[n][req[t].alt + 1]
       IN interfaces' = [interfaces EXCEPT ![n] = update_pipe_info(@, endpoints, req[t].handle)]
    /\ End(t)
    /\ UNCHANGED <<config, known, open, chip, selects>>

SetInterfaceEx(t, w, alt) ==
    \E n \in find_interface_desc_ex(config.descriptor, w) : SetInterface(t, n, alt)

(* The alternate setting is asked for; the request holds on to the         *)
(* descriptor that it has found the interface in.                          *)
GetInterfaceEx(t, w) ==
    /\ config.value # 0 /\ config.descriptor # NoDescriptor
    /\ \E n \in find_interface_desc_ex(config.descriptor, w) :
         Begin(t, "get_interface", "ask", n, 0, config.descriptor)
    /\ UNCHANGED <<config, interfaces, known, open, chip, selects>>

AltSettingComes(t) ==
    /\ At(t, "get_interface", "ask")
    /\ End(t)
    /\ UNCHANGED <<config, interfaces, known, open, chip, selects>>

ResetDevice(t) ==
    /\ Quiet(t)
    /\ Begin(t, "reset_device", "reset", 0, 0, 0)
    /\ UNCHANGED <<config, interfaces, known, open, chip, selects>>

(* The port driver gives the device its configuration, alternate settings  *)
(* and pipes back; whatever the outcome, the driver forgets the descriptor *)
(* but not the interfaces.                                                 *)
DeviceIsReset(t) ==
    /\ At(t, "reset_device", "reset")
    /\ config' = Context(0, -1, NoDescriptor)
    /\ End(t)
    /\ UNCHANGED <<interfaces, known, open, chip, selects>>

(* A configuration descriptor that is not the cached one is asked for.     *)
GetDescriptor(t, index) ==
    /\ known => index < Len(Configs)
    /\ config.descriptor = NoDescriptor \/ config.index # index
    /\ Begin(t, "get_descriptor", "fetch", index, 0, 0)
    /\ UNCHANGED <<config, interfaces, known, open, chip, selects>>

(* The first one ever is cached if it is there as a whole, and the device  *)
(* then counts as not configured.                                          *)
DescriptorComes(t) ==
    /\ At(t, "get_descriptor", "fetch")
    /\ config' \in {config} \cup {Cache(i) : i \in {req[t].arg + 1} \cap (1 .. Len(Configs))}
    /\ End(t)
    /\ UNCHANGED <<interfaces, known, open, chip, selects>>

GetDeviceDescriptor ==
    /\ ~known
    /\ known' = TRUE
    /\ UNCHANGED <<config, interfaces, req, open, chip, selects>>

(***************************************************************************)
(* Requests that do not block, and the life of a file object.              *)
(***************************************************************************)
Create(f) ==
    /\ f \notin open
    /\ open' = open \cup {f}
    /\ UNCHANGED <<config, interfaces, known, req, chip, selects>>

ReleaseAll(f) ==
    [n \in Interfaces |->
        IF interfaces[n].owner = f THEN [interfaces[n] EXCEPT !.owner = NoFile] ELSE interfaces[n]]

\* Mutant: only the first claimed interface is given back.
CloseReleasesFirst(f) ==
    /\ f \in open
    /\ open' = open \ {f}
    /\ interfaces' = [n \in Interfaces |-> IF n = 0 THEN ReleaseAll(f)[n] ELSE interfaces[n]]
    /\ UNCHANGED <<config, known, req, chip, selects>>
Close(f) ==
    /\ f \in open
    /\ open' = open \ {f}
    /\ interfaces' = ReleaseAll(f)
    /\ UNCHANGED <<config, known, req, chip, selects>>

Claim(f, n) ==
    /\ f \in open
    /\ config.value # 0
    /\ interfaces[n].valid
    /\ interfaces[n].owner = NoFile
    /\ interfaces' = [interfaces EXCEPT ![n].owner = f]
    /\ UNCHANGED <<config, known, req, open, chip, selects>>

ReleaseInterface(f, n) ==
    /\ f \in open
    /\ config.value # 0
    /\ interfaces[n].valid
    /\ interfaces[n].owner = f
    /\ interfaces' = [interfaces EXCEPT ![n].owner = NoFile]
    /\ UNCHANGED <<config, known, req, open, chip, selects>>

ClaimEx(f, w) ==
    \E n \in find_interface_desc_ex(config.descriptor, w) : Claim(f, n)
ReleaseEx(f, w) ==
    \E n \in find_interface_desc_ex(config.descriptor, w) : ReleaseInterface(f, n)

Next ==
    \/ GetDeviceDescriptor
    \/ \E t \in Threads :
         \/ \E c \in {0, ActiveConfig} \cup {-i : i \in 1 .. Len(Configs)}
                     \cup {Configs[i].value : i \in 1 .. Len(Configs)} : SetConfiguration(t, c)
         \/ \E n \in Interfaces, alt \in 0 .. 1 : SetInterface(t, n, alt)
         \/ \E w \in Wanted : GetInterfaceEx(t, w) \/ \E alt \in 0 .. 1 : SetInterfaceEx(t, w, alt)
         \/ AltSettingComes(t) \/ ResetDevice(t)
         \/ \E index \in 0 .. Len(Configs) : GetDescriptor(t, index)
         \/ Unconfigured(t) \/ Fetched(t) \/ FetchFails(t) \/ Selects(t)
         \/ RecordConfiguration(t) \/ CallFails(t) \/ SelectsInterface(t)
         \/ RecordInterface(t) \/ DeviceIsReset(t) \/ DescriptorComes(t)
    \/ \E f \in Files :
         \/ Create(f) \/ Close(f)
         \/ \E n \in Interfaces : Claim(f, n) \/ ReleaseInterface(f, n)
         \/ \E w \in Wanted : ClaimEx(f, w) \/ ReleaseEx(f, w)

Spec == Init /\ [][Next]_vars

(***************************************************************************)
(* Properties.                                                             *)
(***************************************************************************)
TypeOK ==
    /\ config \in [value : Nat, index : -1 .. Len(Configs) - 1, descriptor : 0 .. Len(Configs)]
    /\ \A n \in Interfaces :
         /\ interfaces[n].valid \in BOOLEAN /\ interfaces[n].owner \in Files \cup {NoFile}
         /\ interfaces[n].slots \in
              [1 .. NumEndpoints -> [address : 0 .. 255, handle : 0 .. selects,
                                     type : {"control", "bulk", "iso"}]]
    /\ known \in BOOLEAN /\ open \subseteq Files /\ selects \in 0 .. MaxSelects
    /\ chip.config \in 0 .. Len(Configs)
    /\ chip.handle \in [Interfaces -> 0 .. selects] /\ chip.alt \in [Interfaces -> Nat]

NoReconfiguration == \A t \in Threads : req[t].op \notin Reconfigures

(* The pipe a request is sent to is one the device has, with that address, *)
(* and the active configuration is that of the device, whatever has failed *)
(* before (ioctl.c: "check if the pipe exists and get the pipe             *)
(* information").  While a request changes the configuration this need not *)
(* be so, nor for address 0, which the unused slots have.                  *)
Pipes(address) ==
    BulkRead(address) \cup BulkWrite(address) \cup IsochronousRead(address)
        \cup IsochronousWrite(address) \cup reset_endpoint(address) \cup abort_endpoint(address)
PipesOfDevice(n) ==
    IF chip.config = 0 THEN {}
    ELSE IF ~find_interface_desc(chip.config, n, chip.alt[n]) THEN {}
    ELSE LET endpoints == Configs[chip.config].interfaces[n][chip.alt[n] + 1]
         IN {<<endpoints[j].address, chip.handle[n]>> : j \in DOMAIN endpoints}
Addresses == {interfaces[n].slots[j].address : n \in Interfaces, j \in 1 .. NumEndpoints} \ {0}
PipesReachDevice ==
    NoReconfiguration =>
        /\ \A address \in Addresses : \A s \in Pipes(address) :
             \E n \in Interfaces : <<address, s.handle>> \in PipesOfDevice(n)
        /\ config.value # 0 => chip.config = config.descriptor

(* The cached descriptor is the one of the cached index, and of the active *)
(* value if there is one.                                                  *)
CacheIsCoherent ==
    /\ config.descriptor # NoDescriptor => config.index = config.descriptor - 1
    /\ config.value # 0 => /\ config.descriptor # NoDescriptor
                           /\ config.value = Configs[config.descriptor].value

(* An interface is claimed by an open file only: closing gives back all a   *)
(* file has, also what it could not release after a reset.                 *)
ClaimsAreOfOpenFiles ==
    \A n \in Interfaces : interfaces[n].owner \in open \cup {NoFile}
=============================================================================

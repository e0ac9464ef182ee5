----------------------------- MODULE UsbHandle -----------------------------
(***************************************************************************)
(* What a program sees of a device through libusb0.dll: a handle remembers *)
(* the configuration, the claimed interface and its alternate setting, and *)
(* libusb0.sys keeps its own record of the same, which other programs      *)
(* change too.  Here a call of a program is one step; that the driver's    *)
(* requests overlap is modelled by DeviceConfig.                           *)
(*                                                                         *)
(* The second half is the way of a control message: usb_control_msg turns  *)
(* it into an ioctl, dispatch_ioctl checks its buffers, and the handler    *)
(* makes a packet for the device of it.                                    *)
(***************************************************************************)
EXTENDS Integers, FiniteSets

CONSTANTS
    Programs, NoProgram,
    Configs,        \* by configuration value, by interface: how many alternate settings
    Messages,       \* the control messages a program may send
    RequestSize,    \* sizeof(libusb_request)
    MaxReadWrite    \* LIBUSB_MAX_READ_WRITE

Interfaces == UNION {DOMAIN Configs[c] : c \in DOMAIN Configs}

(* The numbers in descriptors are bytes.                                   *)
ASSUME ConfigsAssumption ==
    /\ DOMAIN Configs \subseteq 1 .. 255
    /\ \A c \in DOMAIN Configs : /\ DOMAIN Configs[c] \subseteq 0 .. 255
                                 /\ \A n \in DOMAIN Configs[c] : Configs[c][n] \in 1 .. 256
ASSUME ProgramsAssumption == NoProgram \notin Programs
(* The arguments of usb_control_msg, value and index as wide as an int;    *)
(* what a request is called does not matter.                               *)
ASSUME MessagesAssumption ==
    /\ RequestSize \in Nat /\ MaxReadWrite \in Nat
    /\ Messages \subseteq [type : {"standard", "class", "vendor", "reserved"}, in : BOOLEAN,
                           recipient : Nat, request : STRING, value : Nat, index : Nat,
                           length : Nat]

VARIABLES
    handle,     \* usb_dev_handle of each program
    drv,        \* dev->config of the driver
    chip,       \* the device: its configuration and alternate settings
    disturbed   \* History: handles whose device was configured behind their back

vars == <<handle, drv, chip, disturbed>>

Closed == [open |-> FALSE, config |-> 0, interface |-> -1, altsetting |-> -1]
Handle(config, interface, altsetting) ==
    [open |-> TRUE, config |-> config, interface |-> interface, altsetting |-> altsetting]
Unclaimed == [n \in Interfaces |-> NoProgram]
ZeroSettings == [n \in Interfaces |-> 0]

(* The driver has selected the first configuration at the start.           *)
Init ==
    /\ handle = [p \in Programs |-> Closed]
    /\ \E c \in DOMAIN Configs :
         /\ drv = [value |-> c, valid |-> DOMAIN Configs[c], owner |-> Unclaimed]
         /\ chip = [config |-> c, alt |-> ZeroSettings]
    /\ disturbed = {}

(***************************************************************************)
(* The driver's requests, when they succeed.  One that fails changes       *)
(* nothing of this, and the library then changes nothing either.           *)
(***************************************************************************)
set_configuration(c) ==
    IF c = drv.value /\ c > 0 THEN UNCHANGED <<drv, chip>>
    ELSE /\ c \in DOMAIN Configs \cup {0}
         /\ drv' = [value |-> c, valid |-> IF c = 0 THEN {} ELSE DOMAIN Configs[c],
                    owner |-> Unclaimed]
         /\ chip' = [config |-> c, alt |-> ZeroSettings]

\* Mutant: an interface of another program may be claimed.
claim_any_interface(p, n) ==
    /\ drv.value # 0 /\ n \in drv.valid
    /\ drv' = [drv EXCEPT !.owner[n] = p]
claim_interface(p, n) ==
    /\ drv.value # 0 /\ n \in drv.valid /\ drv.owner[n] \in {p, NoProgram}
    /\ drv' = [drv EXCEPT !.owner[n] = p]

release_interface(p, n) ==
    /\ drv.value # 0 /\ n \in drv.valid /\ drv.owner[n] = p
    /\ drv' = [drv EXCEPT !.owner[n] = NoProgram]

\* Mutant: only the interface the handle remembers is given back.
release_last_interface(p) ==
    drv' = [drv EXCEPT !.owner = [n \in Interfaces |->
        IF n = handle[p].interface THEN NoProgram ELSE @[n]]]
release_all_interfaces(p) ==
    drv' = [drv EXCEPT !.owner = [n \in Interfaces |-> IF @[n] = p THEN NoProgram ELSE @[n]]]

set_interface(n, alt) ==
    /\ drv.value # 0
    /\ n \in DOMAIN Configs[drv.value] /\ alt < Configs[drv.value][n]
    /\ chip' = [chip EXCEPT !.alt[n] = alt]
    /\ UNCHANGED drv

reset_device ==
    /\ drv' = [drv EXCEPT !.value = 0]
    /\ chip' = [chip EXCEPT !.alt = ZeroSettings]

(***************************************************************************)
(* The calls of the library.                                               *)
(***************************************************************************)
(* The handle takes over the configuration the driver has cached.          *)
usb_open(p) ==
    /\ ~handle[p].open
    /\ handle' = [handle EXCEPT ![p] = Handle(drv.value, -1, -1)]
    /\ disturbed' = disturbed \ {p}
    /\ UNCHANGED <<drv, chip>>

usb_close(p) ==
    /\ handle[p].open
    /\ handle' = [handle EXCEPT ![p] = Closed]
    /\ release_all_interfaces(p)
    /\ UNCHANGED <<chip, disturbed>>

(* Nothing is sent if the handle already has that configuration.           *)
usb_set_configuration(p, c) ==
    /\ handle[p].open
    /\ handle[p].config # c
    /\ handle[p].interface < 0
    /\ set_configuration(c)
    /\ handle' = [handle EXCEPT ![p] = Handle(c, -1, -1)]
    /\ disturbed' = IF drv' = drv THEN disturbed ELSE disturbed \cup (Programs \ {p})

(* A second interface may be claimed; the handle remembers the last one.   *)
usb_claim_interface(p, n) ==
    /\ handle[p].open
    /\ handle[p].config # 0
    /\ handle[p].interface # n
    /\ claim_interface(p, n)
    /\ handle' = [handle EXCEPT ![p] = Handle(@.config, n, 0)]
    /\ UNCHANGED <<chip, disturbed>>

usb_release_interface(p, n) ==
    /\ handle[p].open
    /\ handle[p].config # 0
    /\ release_interface(p, n)
    /\ handle' = [handle EXCEPT ![p] = Handle(@.config, -1, -1)]
    /\ UNCHANGED <<chip, disturbed>>

usb_set_altinterface(p, alt) ==
    /\ handle[p].open
    /\ handle[p].config > 0 /\ handle[p].interface >= 0
    /\ set_interface(handle[p].interface, alt)
    /\ handle' = [handle EXCEPT ![p] = Handle(@.config, @.interface, alt)]
    /\ UNCHANGED disturbed

usb_reset(p) ==
    /\ handle[p].open
    /\ reset_device
    /\ disturbed' = Programs
    /\ UNCHANGED handle

(* The same requests as control messages, which the handle does not see.   *)
ControlSetConfiguration(p, c) ==
    /\ handle[p].open
    /\ set_configuration(c)
    /\ disturbed' = IF drv' = drv THEN disturbed ELSE Programs
    /\ UNCHANGED handle

ControlSetInterface(p, n, alt) ==
    /\ handle[p].open
    /\ set_interface(n, alt)
    /\ UNCHANGED <<handle, disturbed>>

Next == \E p \in Programs :
    \/ usb_open(p) \/ usb_close(p) \/ usb_reset(p)
    \/ \E c \in DOMAIN Configs \cup {0} :
         usb_set_configuration(p, c) \/ ControlSetConfiguration(p, c)
    \/ \E n \in Interfaces :
         \/ usb_claim_interface(p, n) \/ usb_release_interface(p, n)
         \/ \E alt \in 0 .. 1 : ControlSetInterface(p, n, alt)
    \/ \E alt \in 0 .. 1 : usb_set_altinterface(p, alt)

Spec == Init /\ [][Next]_vars

(***************************************************************************)
(* A control message: [type, in, recipient, request, value, index, length].  *)
(***************************************************************************)
StandardRequests ==
    { "GET_STATUS", "CLEAR_FEATURE", "SET_FEATURE", "GET_DESCRIPTOR", "SET_DESCRIPTOR",
      "GET_CONFIGURATION", "SET_CONFIGURATION", "GET_INTERFACE", "SET_INTERFACE" }

(* USB_TYPE_RESERVED and unknown standard requests are refused at once.    *)
IsSupported(m) ==
    m.type \in {"class", "vendor"} \/ (m.type = "standard" /\ m.request \in StandardRequests)

(* The fields of a setup packet are narrower than an int.                  *)
UCHAR(n) == n % 256
USHORT(n) == n % 65536

\* Mutant: value and index are passed in each other's place.
usb_control_msg_swapped(m) ==
    [code |-> IF m.type = "standard" THEN m.request
              ELSE IF m.in THEN "VENDOR_READ" ELSE "VENDOR_WRITE",
     recipient |-> m.recipient,
     type |-> IF m.type = "standard" THEN UCHAR(m.value \div 256) ELSE m.type,
     request |-> m.request, feature |-> m.index, descriptor |-> UCHAR(m.value),
     configuration |-> m.value, altsetting |-> m.value, value |-> m.value,
     index |-> m.value,
     inLength |-> IF m.in THEN RequestSize ELSE RequestSize + m.length,
     outLength |-> IF m.in THEN m.length ELSE 0]
(* usb_control_msg: the ioctl, the fields of its libusb_request, and the   *)
(* lengths of its buffers.                                                 *)
usb_control_msg(m) ==
    [code |-> IF m.type = "standard" THEN m.request
              ELSE IF m.in THEN "VENDOR_READ" ELSE "VENDOR_WRITE",
     recipient |-> m.recipient,
     type |-> IF m.type = "standard" THEN UCHAR(m.value \div 256) ELSE m.type,
     request |-> m.request,
     feature |-> m.value,
     descriptor |-> UCHAR(m.value),
     configuration |-> m.value,
     altsetting |-> m.value,
     value |-> m.value,
     index |-> m.index,
     inLength |-> IF m.in THEN RequestSize ELSE RequestSize + m.length,
     outLength |-> IF m.in THEN m.length ELSE 0]

(* dispatch_ioctl: how long the buffers of a METHOD_BUFFERED request are   *)
(* at least.                                                               *)
MinIn(code) == IF code = "SET_DESCRIPTOR" THEN RequestSize + 1 ELSE RequestSize
MinOut(code) ==
    CASE code \in {"GET_CONFIGURATION", "GET_INTERFACE", "GET_DESCRIPTOR"} -> 1
      [] code = "GET_STATUS" -> 2
      [] code \notin {"GET_CONFIGURATION", "GET_INTERFACE", "GET_DESCRIPTOR", "GET_STATUS"} -> 0
dispatch_ioctl(r) ==
    /\ r.inLength \in MinIn(r.code) .. MaxReadWrite
    /\ r.outLength \in MinOut(r.code) .. MaxReadWrite

(* The handlers: the packet one makes for the device, if it makes one.  A  *)
(* recipient is the device, an interface, an endpoint, other, or reserved. *)
Packet(type, in, recipient, request, value, index, length) ==
    [type |-> type, in |-> in, recipient |-> recipient, request |-> request,
     value |-> value, index |-> index, length |-> length]
Standard(in, recipient, request, value, index, length) ==
    Packet("standard", in, recipient, request, value, index, length)
If(condition, urb) == {u \in {urb} : condition}

get_status(r) ==
    If(r.recipient \in 0 .. 3, Standard(TRUE, r.recipient, "GET_STATUS", 0, USHORT(r.index), 2))
set_feature(r) ==
    If(r.recipient \in 0 .. 3,
       Standard(FALSE, r.recipient, "SET_FEATURE", USHORT(r.feature), USHORT(r.index), 0))
clear_feature(r) ==
    If(r.recipient \in 0 .. 3,
       Standard(FALSE, r.recipient, "CLEAR_FEATURE", USHORT(r.feature), USHORT(r.index), 0))

(* What is not cached (DeviceConfig).                                      *)
get_descriptor(r) ==
    If(r.recipient \in 0 .. 2,
       Standard(TRUE, r.recipient, "GET_DESCRIPTOR", r.type * 256 + r.descriptor,
                USHORT(r.index), r.outLength))
PayloadSize(r) == r.inLength - RequestSize
set_descriptor(r) ==
    If(r.recipient \in 0 .. 2,
       Standard(FALSE, r.recipient, "SET_DESCRIPTOR", r.type * 256 + r.descriptor,
                USHORT(r.index), PayloadSize(r)))
get_configuration(r) == {Standard(TRUE, 0, "GET_CONFIGURATION", 0, 0, 1)}
(* Nothing is sent for the configuration the driver has selected already;  *)
(* what set_configuration reads of the device first is DeviceConfig's.     *)
SetConfigurationUrb(r) ==
    If(/\ r.configuration \in DOMAIN Configs \cup {0}
       /\ ~(r.configuration = drv.value /\ r.configuration > 0),
       Standard(FALSE, 0, "SET_CONFIGURATION", r.configuration, 0, 0))
get_interface(r) == If(drv.value # 0, Standard(TRUE, 1, "GET_INTERFACE", 0, USHORT(r.index), 1))
(* Without a configuration there is no descriptor to find it in.           *)
SetInterfaceUrb(r) ==
    IF drv.value \notin DOMAIN Configs THEN {}
    ELSE If(r.index \in DOMAIN Configs[drv.value] /\ r.altsetting < Configs[drv.value][r.index],
            Standard(FALSE, 1, "SET_INTERFACE", r.altsetting, r.index, 0))
vendor_class_request(r, in, size) ==
    If(r.type = "class" => r.recipient \in 0 .. 3,
       Packet(r.type, in, r.recipient, r.request, USHORT(r.value), USHORT(r.index), size))

Urbs(r) ==
    CASE r.code = "GET_STATUS"        -> get_status(r)
      [] r.code = "SET_FEATURE"       -> set_feature(r)
      [] r.code = "CLEAR_FEATURE"     -> clear_feature(r)
      [] r.code = "GET_DESCRIPTOR"    -> get_descriptor(r)
      [] r.code = "SET_DESCRIPTOR"    -> set_descriptor(r)
      [] r.code = "GET_CONFIGURATION" -> get_configuration(r)
      [] r.code = "SET_CONFIGURATION" -> SetConfigurationUrb(r)
      [] r.code = "GET_INTERFACE"     -> get_interface(r)
      [] r.code = "SET_INTERFACE"     -> SetInterfaceUrb(r)
      [] r.code = "VENDOR_READ"       -> vendor_class_request(r, TRUE, r.outLength)
      [] r.code = "VENDOR_WRITE"      -> vendor_class_request(r, FALSE, PayloadSize(r))

(* The packets a control message is turned into.                           *)
Sent(m) ==
    LET r == usb_control_msg(m) IN IF IsSupported(m) /\ dispatch_ioctl(r) THEN Urbs(r) ELSE {}

(***************************************************************************)
(* Properties.                                                             *)
(***************************************************************************)
TypeOK ==
    /\ handle \in [Programs -> [open : BOOLEAN, config : DOMAIN Configs \cup {0},
                                interface : Interfaces \cup {-1}, altsetting : -1 .. 1]]
    /\ drv \in [value : DOMAIN Configs \cup {0}, valid : SUBSET Interfaces,
                owner : [Interfaces -> Programs \cup {NoProgram}]]
    /\ chip \in [config : DOMAIN Configs \cup {0}, alt : [Interfaces -> 0 .. 1]]
    /\ disturbed \subseteq Programs

(* A handle that nobody has disturbed knows the configuration that driver  *)
(* and device are in, and holds the interface it believes it holds.        *)
HandleIsCurrent ==
    \A p \in Programs \ disturbed : handle[p].open =>
        /\ handle[p].config = drv.value
        /\ handle[p].config # 0 => chip.config = handle[p].config
        /\ handle[p].interface >= 0 => drv.owner[handle[p].interface] = p

(* A program that has closed the device holds nothing, also when it had    *)
(* claimed several interfaces, or could not release one after a reset.     *)
ClosedHoldsNothing ==
    \A n \in Interfaces : drv.owner[n] # NoProgram => handle[drv.owner[n]].open

(* A control message in the direction of its request comes to the device   *)
(* as it was meant, or it is refused; of value and index it has the lower  *)
(* halves, and the length may be that of the request instead of that of    *)
(* the buffer.                                                             *)
IsMeaningful(m) ==
    /\ m.type = "standard" => m.in = (m.request \in
          {"GET_STATUS", "GET_DESCRIPTOR", "GET_CONFIGURATION", "GET_INTERFACE"})
    /\ m.type = "standard" /\ m.request \in {"GET_CONFIGURATION", "SET_CONFIGURATION"} =>
          m.recipient = 0 /\ m.index = 0
    /\ m.type = "standard" /\ m.request \in {"GET_INTERFACE", "SET_INTERFACE"} => m.recipient = 1
    /\ m.type = "standard" /\ m.request \in {"GET_STATUS", "GET_CONFIGURATION", "GET_INTERFACE"} =>
          m.value = 0

MessagesAreTransparent ==
    \A m \in Messages : IsMeaningful(m) => \A urb \in Sent(m) :
        /\ urb.type = m.type /\ urb.in = m.in
        /\ urb.recipient = m.recipient /\ urb.request = m.request
        /\ urb.value = USHORT(m.value) /\ urb.index = USHORT(m.index)
        /\ urb.length <= m.length
=============================================================================

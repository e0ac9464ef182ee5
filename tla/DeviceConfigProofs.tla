------------------------- MODULE DeviceConfigProofs -------------------------
(***************************************************************************)
(* The driver's record of a device's configuration, for every device and   *)
(* any number of threads and file objects.                                 *)
(*                                                                         *)
(* The cache and the claims are right whatever requests overlap: a request *)
(* that is about to change the configuration names what the descriptor has *)
(* (Sound), and nothing else is needed of it when its call returns.        *)
(***************************************************************************)
EXTENDS DeviceConfig, FiniteSetTheorems, TLAPS

(***************************************************************************)
(* Types.                                                                  *)
(***************************************************************************)
Numbers == 1 .. Len(Configs)
Slots == 1 .. NumEndpoints

Types == {"control", "bulk", "iso"}
Ops == Reconfigures \cup {"none", "get_interface", "get_descriptor"}
Pcs == {"idle", "unselect", "fetch", "select", "record", "ask", "reset"}

ConfigType == [value : Nat, index : Int, descriptor : Nat]
SlotType == [address : Nat, handle : Nat, type : Types]
InterfaceType == [valid : BOOLEAN, owner : Files \cup {NoFile}, slots : [Slots -> SlotType]]
RequestType ==
    [op : Ops, pc : Pcs, arg : Int, alt : Nat, to : Nat, handle : Nat]
ChipType ==
    [config : 0 .. Len(Configs), alt : [Interfaces -> Nat], handle : [Interfaces -> Nat]]

WellFormed ==
    /\ config \in ConfigType
    /\ interfaces \in [Interfaces -> InterfaceType]
    /\ req \in [Threads -> RequestType]
    /\ open \subseteq Files
    /\ chip \in ChipType
    /\ selects \in Nat

LEMMA ContextIsTyped ==
    ASSUME NEW value \in Nat, NEW index \in Int, NEW descriptor \in Nat
    PROVE  /\ Context(value, index, descriptor) \in ConfigType
           /\ Context(value, index, descriptor).value = value
           /\ Context(value, index, descriptor).index = index
           /\ Context(value, index, descriptor).descriptor = descriptor
BY DEF Context, ConfigType

LEMMA RequestIsTyped ==
    ASSUME NEW op \in Ops, NEW pc \in Pcs, NEW arg \in Int, NEW alt \in Nat,
           NEW to \in Nat, NEW handle \in Nat
    PROVE  LET r == Request(op, pc, arg, alt, to, handle)
           IN /\ r \in RequestType
              /\ r.op = op /\ r.pc = pc /\ r.arg = arg /\ r.alt = alt
              /\ r.to = to /\ r.handle = handle
BY DEF Request, RequestType

LEMMA IdleIsTyped ==
    Idle \in RequestType /\ Idle.op = "none" /\ Idle.pc = "idle"
BY RequestIsTyped DEF Idle, NoHandle, Ops, Pcs

LEMMA SlotIsTyped ==
    ASSUME NEW address \in Nat, NEW handle \in Nat, NEW type \in Types
    PROVE  /\ Slot(address, handle, type) \in SlotType
           /\ Slot(address, handle, type).address = address
           /\ Slot(address, handle, type).handle = handle
BY DEF Slot, SlotType

LEMMA NoInterfaceIsTyped ==
    NoInterface \in InterfaceType /\ ~NoInterface.valid /\ NoInterface.owner = NoFile
<1>1. EmptySlot \in SlotType
  BY SlotIsTyped DEF EmptySlot, NoHandle, Types
<1> QED
  BY <1>1 DEF NoInterface, InterfaceType, Slots

\* The endpoints of an alternate setting of an interface that there is.
LEMMA EndpointsAreTyped ==
    ASSUME NEW i \in Numbers, NEW n, NEW alt \in Nat, find_interface_desc(i, n, alt)
    PROVE  n \in Interfaces /\ Configs[i].interfaces[n][alt + 1] \in Seq(Endpoint)
<1>1. n \in Interfaces /\ Configs[i].interfaces[n] \in Seq(Seq(Endpoint))
  BY ConfigsAssumption DEF Numbers, find_interface_desc
<1>2. alt + 1 \in 1 .. Len(Configs[i].interfaces[n])
  BY <1>1 DEF find_interface_desc
<1> QED
  BY <1>1, <1>2

\* A slot with an address is that of an endpoint, with the handle of its pipe.
IsPipe(slot, j, endpoints, handle) ==
    slot.address # 0 =>
        j \in DOMAIN endpoints /\ slot.address = endpoints[j].address /\ slot.handle = handle

LEMMA InterfaceIsTyped ==
    ASSUME NEW valid \in BOOLEAN, NEW owner \in Files \cup {NoFile},
           NEW slots \in [Slots -> SlotType]
    PROVE  [valid |-> valid, owner |-> owner, slots |-> slots] \in InterfaceType
BY DEF InterfaceType

LEMMA EndpointIsTyped ==
    ASSUME NEW e \in Endpoint
    PROVE  e.address \in Nat /\ e.type \in Types
BY DEF Endpoint, Types

\* What update_pipe_info makes of an interface; its owner stays.
LEMMA PipesAreUpdated ==
    ASSUME NEW interface \in InterfaceType, NEW endpoints \in Seq(Endpoint), NEW handle \in Nat
    PROVE  /\ update_pipe_info(interface, endpoints, handle) \in InterfaceType
           /\ update_pipe_info(interface, endpoints, handle).owner = interface.owner
           /\ \A j \in Slots :
                IsPipe(update_pipe_info(interface, endpoints, handle).slots[j], j, endpoints, handle)
<1> DEFINE slot(j) ==
               IF j <= Len(endpoints) THEN Slot(endpoints[j].address, handle, endpoints[j].type)
               ELSE Slot(0, NoHandle, interface.slots[j].type)
           new == [j \in Slots |-> slot(j)]
<1>1. ASSUME NEW j \in Slots, j <= Len(endpoints)
      PROVE  /\ slot(j) \in SlotType /\ j \in DOMAIN endpoints
             /\ slot(j).address = endpoints[j].address /\ slot(j).handle = handle
  <2>1. j \in DOMAIN endpoints /\ endpoints[j] \in Endpoint
    BY <1>1, SizesAssumption DEF Slots
  <2>2. endpoints[j].address \in Nat /\ endpoints[j].type \in Types
    BY <2>1, EndpointIsTyped
  <2>3. slot(j) = Slot(endpoints[j].address, handle, endpoints[j].type)
    BY <1>1
  <2>4. /\ Slot(endpoints[j].address, handle, endpoints[j].type) \in SlotType
        /\ Slot(endpoints[j].address, handle, endpoints[j].type).address = endpoints[j].address
        /\ Slot(endpoints[j].address, handle, endpoints[j].type).handle = handle
    BY <2>2, SlotIsTyped
  <2> HIDE DEF slot
  <2> QED
    BY <2>1, <2>3, <2>4
<1>2. ASSUME NEW j \in Slots, ~(j <= Len(endpoints))
      PROVE  slot(j) \in SlotType /\ slot(j).address = 0
  <2>1. interface.slots[j].type \in Types
    BY DEF InterfaceType, SlotType
  <2>2. slot(j) = Slot(0, NoHandle, interface.slots[j].type)
    BY <1>2
  <2> QED
    BY <2>1, <2>2, SlotIsTyped DEF NoHandle
<1>3. update_pipe_info(interface, endpoints, handle)
        = [valid |-> TRUE, owner |-> interface.owner, slots |-> new]
  BY DEF update_pipe_info, Slots
<1> HIDE DEF slot
<1>4. new \in [Slots -> SlotType] /\ interface.owner \in Files \cup {NoFile}
  BY <1>1, <1>2 DEF InterfaceType
<1>5. \A j \in Slots : IsPipe(new[j], j, endpoints, handle)
  BY <1>1, <1>2 DEF IsPipe
<1>6. /\ update_pipe_info(interface, endpoints, handle) \in InterfaceType
      /\ update_pipe_info(interface, endpoints, handle).owner = interface.owner
      /\ update_pipe_info(interface, endpoints, handle).slots = new
  <2>1. [valid |-> TRUE, owner |-> interface.owner, slots |-> new] \in InterfaceType
    BY <1>4, InterfaceIsTyped
  <2> HIDE DEF new
  <2> QED
    BY <1>3, <2>1
<1> QED
  BY <1>5, <1>6

(***************************************************************************)
(* What holds however many requests overlap.                               *)
(***************************************************************************)
\* A request that is about to change the configuration names what there is.
IsSound(r) ==
    r.pc \in {"select", "record"} =>
        /\ r.op \in {"set_configuration", "set_interface"}
        /\ r.to \in Numbers
        /\ r.op = "set_interface" => find_interface_desc(r.to, r.arg, r.alt)

Sound == \A t \in Threads : IsSound(req[t])
Cached == config.descriptor \in 0 .. Len(Configs) /\ CacheIsCoherent

Inv == WellFormed /\ Sound /\ Cached /\ ClaimsAreOfOpenFiles

LEMMA RequestsChange ==
    ASSUME WellFormed, Sound, NEW t \in Threads, NEW r \in RequestType, IsSound(r),
           req' = [req EXCEPT ![t] = r]
    PROVE  /\ req' \in [Threads -> RequestType] /\ Sound'
           /\ req'[t] = r /\ \A u \in Threads \ {t} : req'[u] = req[u]
<1>1. /\ req' \in [Threads -> RequestType]
      /\ req'[t] = r /\ \A u \in Threads \ {t} : req'[u] = req[u]
  BY DEF WellFormed
<1> QED
  BY <1>1 DEF Sound

LEMMA BeginIsSound ==
    ASSUME WellFormed, Sound, NEW t \in Threads, NEW op \in Ops, NEW pc \in Pcs, NEW arg \in Int,
           NEW alt \in Nat, NEW to \in Nat,
           IsSound(Request(op, pc, arg, alt, to, NoHandle)),
           Begin(t, op, pc, arg, alt, to)
    PROVE  req' \in [Threads -> RequestType] /\ Sound'
<1>1. Request(op, pc, arg, alt, to, NoHandle) \in RequestType
  BY RequestIsTyped DEF NoHandle
<1> QED
  BY <1>1, RequestsChange DEF Begin

LEMMA EndIsSound ==
    ASSUME WellFormed, Sound, NEW t \in Threads, End(t)
    PROVE  /\ req' \in [Threads -> RequestType] /\ Sound'
           /\ req'[t] = Idle /\ \A u \in Threads \ {t} : req'[u] = req[u]
<1>1. Idle \in RequestType /\ IsSound(Idle)
  BY IdleIsTyped DEF IsSound
<1> QED
  BY <1>1, RequestsChange DEF End

LEMMA SetConfigurationKeepsInv ==
    ASSUME Inv, NEW t \in Threads, NEW c \in Int, SetConfiguration(t, c)
    PROVE  Inv'
<1> DEFINE pc == IF c = 0 THEN "unselect" ELSE "fetch"
           arg == IF c <= ActiveConfig THEN -1 ELSE c
<1>1. /\ Begin(t, "set_configuration", pc, arg, 0, 0)
      /\ UNCHANGED <<config, interfaces, known, open, chip, selects>>
  BY DEF SetConfiguration
<1>2. pc \in Pcs /\ arg \in Int /\ "set_configuration" \in Ops /\ pc \notin {"select", "record"}
  BY DEF Pcs, Ops, Reconfigures
<1> HIDE DEF pc, arg
<1>3. IsSound(Request("set_configuration", pc, arg, 0, 0, NoHandle))
  BY <1>2, RequestIsTyped DEF IsSound, NoHandle
<1>4. req' \in [Threads -> RequestType] /\ Sound'
  BY <1>1, <1>2, <1>3, BeginIsSound DEF Inv
<1> QED
  BY <1>1, <1>4 DEF Inv, WellFormed, Cached, CacheIsCoherent, ClaimsAreOfOpenFiles

LEMMA SetInterfaceKeepsInv ==
    ASSUME Inv, NEW t \in Threads, NEW n, NEW alt \in 0 .. 1, SetInterface(t, n, alt)
    PROVE  Inv'
<1>1. /\ config.value # 0 /\ config.descriptor # NoDescriptor
      /\ find_interface_desc(config.descriptor, n, alt)
      /\ Begin(t, "set_interface", "select", n, alt, config.descriptor)
      /\ UNCHANGED <<config, interfaces, known, open, chip, selects>>
  BY DEF SetInterface
<1>2. config.descriptor \in Numbers /\ config.descriptor \in Nat
  BY <1>1, ConfigsAssumption DEF Inv, Cached, NoDescriptor, Numbers
<1>3. n \in Int /\ alt \in Nat
  BY <1>1, <1>2, EndpointsAreTyped, SizesAssumption DEF Interfaces
<1>4. "set_interface" \in Ops /\ "select" \in Pcs
  BY DEF Ops, Pcs, Reconfigures
<1>5. IsSound(Request("set_interface", "select", n, alt, config.descriptor, NoHandle))
  BY <1>1, <1>2, <1>3, <1>4, RequestIsTyped DEF IsSound, NoHandle
<1>6. req' \in [Threads -> RequestType] /\ Sound'
  BY <1>1, <1>2, <1>3, <1>4, <1>5, BeginIsSound DEF Inv
<1> QED
  BY <1>1, <1>6 DEF Inv, WellFormed, Cached, CacheIsCoherent, ClaimsAreOfOpenFiles

\* The interface that the libusbK requests find is one of the device.
LEMMA InterfaceIsFound ==
    ASSUME Inv, NEW w \in Wanted, NEW n \in find_interface_desc_ex(config.descriptor, w)
    PROVE  n \in Interfaces /\ config.descriptor \in Numbers
<1>0. config.descriptor # NoDescriptor
  <2>1. config.descriptor = NoDescriptor => find_interface_desc_ex(config.descriptor, w) = {}
    BY DEF find_interface_desc_ex
  <2> QED
    BY <2>1
<1>1. config.descriptor \in Numbers
  BY <1>0, ConfigsAssumption DEF Inv, Cached, NoDescriptor, Numbers
<1>2. n \in {Configs[config.descriptor].order[k] : k \in DOMAIN Configs[config.descriptor].order}
  BY <1>1 DEF find_interface_desc_ex
<1> QED
  BY <1>1, <1>2, ConfigsAssumption DEF Numbers

LEMMA OtherBeginKeepsInv ==
    ASSUME Inv, NEW t \in Threads,
           \/ \E w \in Wanted : GetInterfaceEx(t, w)
           \/ ResetDevice(t)
           \/ \E index \in 0 .. Len(Configs) : GetDescriptor(t, index)
    PROVE  Inv'
<1>1. UNCHANGED <<config, interfaces, known, open, chip, selects>>
  BY DEF GetInterfaceEx, ResetDevice, GetDescriptor
<1>2. req' \in [Threads -> RequestType] /\ Sound'
  <2>1. ASSUME NEW op \in Ops, NEW pc \in Pcs, NEW arg \in Int, NEW to \in Nat,
               pc \notin {"select", "record"}, Begin(t, op, pc, arg, 0, to)
        PROVE  req' \in [Threads -> RequestType] /\ Sound'
    <3>1. IsSound(Request(op, pc, arg, 0, to, NoHandle))
      BY <2>1, RequestIsTyped DEF IsSound, NoHandle
    <3> QED
      BY <2>1, <3>1, BeginIsSound DEF Inv
  <2>2. CASE \E w \in Wanted : GetInterfaceEx(t, w)
    <3>0. PICK w \in Wanted : GetInterfaceEx(t, w)
      BY <2>2
    <3>1. PICK n \in find_interface_desc_ex(config.descriptor, w) :
            Begin(t, "get_interface", "ask", n, 0, config.descriptor)
      BY <3>0 DEF GetInterfaceEx
    <3>2. n \in Int /\ config.descriptor \in Nat
      BY <3>1, InterfaceIsFound, SizesAssumption, ConfigsAssumption DEF Interfaces, Numbers
    <3> QED
      BY <2>1, <3>1, <3>2 DEF Ops, Pcs
  <2>3. CASE ResetDevice(t)
    <3>1. "reset_device" \in Ops /\ "reset" \in Pcs \ {"select", "record"}
      BY DEF Ops, Pcs, Reconfigures
    <3>2. Begin(t, "reset_device", "reset", 0, 0, 0)
      BY <2>3 DEF ResetDevice
    <3> QED
      BY <2>1, <3>1, <3>2
  <2>4. CASE \E index \in 0 .. Len(Configs) : GetDescriptor(t, index)
    <3>1. PICK index \in 0 .. Len(Configs) :
            Begin(t, "get_descriptor", "fetch", index, 0, 0)
      BY <2>4 DEF GetDescriptor
    <3>2. /\ "get_descriptor" \in Ops /\ "fetch" \in Pcs \ {"select", "record"}
          /\ index \in Int
      BY ConfigsAssumption DEF Ops, Pcs
    <3> QED
      BY <2>1, <3>1, <3>2
  <2> QED
    BY <2>2, <2>3, <2>4
<1> QED
  BY <1>1, <1>2 DEF Inv, WellFormed, Cached, CacheIsCoherent, ClaimsAreOfOpenFiles

LEMMA FruitlessEndKeepsInv ==
    ASSUME Inv, NEW t \in Threads, AltSettingComes(t) \/ FetchFails(t) \/ CallFails(t)
    PROVE  Inv'
<1>1. End(t) /\ UNCHANGED <<config, interfaces, open, chip, selects>>
  BY DEF AltSettingComes, FetchFails, CallFails
<1>2. req' \in [Threads -> RequestType] /\ Sound'
  BY <1>1, EndIsSound DEF Inv
<1> QED
  BY <1>1, <1>2 DEF Inv, WellFormed, Cached, CacheIsCoherent, ClaimsAreOfOpenFiles

\* What the first descriptor that is ever read makes of the cache.
LEMMA CacheIsCached ==
    ASSUME Inv, NEW i \in Numbers
    PROVE  /\ Cache(i) \in ConfigType /\ Cache(i).descriptor \in Numbers
           /\ Cache(i).index = Cache(i).descriptor - 1
           /\ Cache(i).value # 0 => Cache(i).value = Configs[Cache(i).descriptor].value
           /\ config.descriptor # NoDescriptor => Cache(i) = config
           /\ config.descriptor = NoDescriptor => Cache(i).value = 0
<1>1. i \in Nat /\ i - 1 \in Int
  BY ConfigsAssumption DEF Numbers
<1>2. CASE config.descriptor = NoDescriptor
  <2>1. Cache(i) = Context(0, i - 1, i)
    BY <1>2 DEF Cache
  <2>2. /\ Cache(i) \in ConfigType /\ Cache(i).value = 0
        /\ Cache(i).index = i - 1 /\ Cache(i).descriptor = i
    BY <1>1, <2>1 DEF Context, ConfigType
  <2> QED
    BY <1>2, <2>2
<1>3. CASE config.descriptor # NoDescriptor
  <2>1. Cache(i) = config
    BY <1>3 DEF Cache
  <2>2. config.descriptor \in Numbers
    BY <1>3, ConfigsAssumption DEF Inv, Cached, NoDescriptor, Numbers
  <2> QED
    BY <1>3, <2>1, <2>2 DEF Inv, WellFormed, Cached, CacheIsCoherent
<1> QED
  BY <1>2, <1>3

\* The cache describes configuration i, which is active.
LEMMA ContextIsCached ==
    ASSUME NEW i \in Numbers, config' = Context(Configs[i].value, i - 1, i)
    PROVE  config' \in ConfigType /\ Cached' /\ config'.descriptor = i
<1>1. i \in Nat /\ i - 1 \in Int /\ i # NoDescriptor /\ Configs[i].value \in Nat
  BY ConfigsAssumption DEF Numbers, NoDescriptor
<1>2. /\ config' \in ConfigType /\ config'.value = Configs[i].value
      /\ config'.index = i - 1 /\ config'.descriptor = i
  BY <1>1 DEF Context, ConfigType
<1> QED
  BY <1>1, <1>2, ConfigsAssumption DEF Cached, CacheIsCoherent, Numbers

LEMMA UnconfiguredKeepsInv ==
    ASSUME Inv, NEW t \in Threads, Unconfigured(t)
    PROVE  Inv'
<1>1. /\ config' = [config EXCEPT !.value = 0] /\ chip' = Unselected
      /\ interfaces' = clear_pipe_info /\ End(t)
      /\ UNCHANGED <<known, open, selects>>
  BY DEF Unconfigured
<1>2. config' \in ConfigType /\ Cached'
  BY <1>1 DEF Inv, WellFormed, ConfigType, Cached, CacheIsCoherent
<1>3. chip' \in ChipType
  BY <1>1, ConfigsAssumption DEF Unselected, ChipType, NoHandle
<1>4. interfaces' \in [Interfaces -> InterfaceType] /\ ClaimsAreOfOpenFiles'
  BY <1>1, NoInterfaceIsTyped DEF clear_pipe_info, ClaimsAreOfOpenFiles
<1>5. req' \in [Threads -> RequestType] /\ Sound'
  BY <1>1, EndIsSound DEF Inv
<1> QED
  BY <1>1, <1>2, <1>3, <1>4, <1>5 DEF Inv, WellFormed

LEMMA GoesIsSound ==
    ASSUME Inv, NEW t \in Threads, NEW pc \in {"select", "record"}, NEW to \in Numbers,
           NEW handle \in Nat,
           req[t].op \in {"set_configuration", "set_interface"},
           req[t].op = "set_interface" => find_interface_desc(to, req[t].arg, req[t].alt),
           Goes(t, pc, to, handle)
    PROVE  /\ req' \in [Threads -> RequestType] /\ Sound'
           /\ \A u \in Threads \ {t} : req'[u] = req[u]
           /\ req'[t].op = req[t].op /\ req'[t].pc = pc /\ req'[t].to = to
           /\ req'[t].arg = req[t].arg /\ req'[t].alt = req[t].alt /\ req'[t].handle = handle
<1> DEFINE r == Request(req[t].op, pc, req[t].arg, req[t].alt, to, handle)
<1>1. req' = [req EXCEPT ![t] = r]
  BY DEF Goes
<1>2. req[t].op \in Ops /\ req[t].arg \in Int /\ req[t].alt \in Nat /\ pc \in Pcs /\ to \in Nat
  BY ConfigsAssumption DEF Inv, WellFormed, RequestType, Pcs, Numbers
<1>3. /\ r \in RequestType
      /\ r.op = req[t].op /\ r.pc = pc /\ r.to = to /\ r.arg = req[t].arg /\ r.alt = req[t].alt
      /\ r.handle = handle
  BY <1>2 DEF Request, RequestType
<1> HIDE DEF r
<1>4. IsSound(r)
  BY <1>3 DEF IsSound
<1> QED
  BY <1>1, <1>3, <1>4, RequestsChange DEF Inv

LEMMA FetchedKeepsInv ==
    ASSUME Inv, NEW t \in Threads, Fetched(t)
    PROVE  Inv'
<1>1. req[t].op = "set_configuration" /\ UNCHANGED <<interfaces, open, chip, selects>>
  BY DEF Fetched, At
<1>2. PICK i \in Selected(req[t].arg) :
        IF Cache(i).value = Configs[i].value
        THEN config' = Context(Configs[i].value, i - 1, i) /\ End(t)
        ELSE config' = Cache(i) /\ Goes(t, "select", i, NoHandle)
  BY DEF Fetched
<1>3. i \in Numbers
  BY DEF Selected, Numbers
<1>4. config' \in ConfigType /\ Cached'
  <2>1. CASE Cache(i).value = Configs[i].value
    BY <1>2, <1>3, <2>1, ContextIsCached
  <2>2. CASE Cache(i).value # Configs[i].value
    BY <1>2, <1>3, <2>2, CacheIsCached, ConfigsAssumption
       DEF Cached, CacheIsCoherent, Numbers, NoDescriptor
  <2> QED
    BY <2>1, <2>2
<1>5. req' \in [Threads -> RequestType] /\ Sound'
  <2>1. CASE End(t)
    BY <2>1, EndIsSound DEF Inv
  <2>2. CASE Goes(t, "select", i, NoHandle)
    BY <1>1, <1>3, <2>2, GoesIsSound DEF NoHandle
  <2> QED
    BY <1>2, <2>1, <2>2
<1> QED
  BY <1>1, <1>4, <1>5 DEF Inv, WellFormed, ClaimsAreOfOpenFiles

LEMMA SelectsKeepsInv ==
    ASSUME Inv, NEW t \in Threads, Selects(t)
    PROVE  Inv'
<1>1. /\ req[t].op = "set_configuration" /\ req[t].pc = "select"
      /\ selects' = selects + 1 /\ Goes(t, "record", req[t].to, selects')
      /\ chip' = [config |-> req[t].to, alt |-> [n \in Interfaces |-> 0],
                  handle |-> [n \in Interfaces |->
                    IF find_interface_desc(req[t].to, n, 0) THEN selects' ELSE NoHandle]]
      /\ UNCHANGED <<config, interfaces, open>>
  BY DEF Selects, At
<1>2. req[t].to \in Numbers /\ selects' \in Nat
  BY <1>1 DEF Inv, WellFormed, Sound, IsSound
<1>3. req' \in [Threads -> RequestType] /\ Sound'
  BY <1>1, <1>2, GoesIsSound
<1>4. chip' \in ChipType
  BY <1>1, <1>2, ConfigsAssumption DEF ChipType, NoHandle, Numbers
<1> QED
  BY <1>1, <1>2, <1>3, <1>4
     DEF Inv, WellFormed, Cached, CacheIsCoherent, ClaimsAreOfOpenFiles

LEMMA SelectsInterfaceKeepsInv ==
    ASSUME Inv, NEW t \in Threads, SelectsInterface(t)
    PROVE  Inv'
<1>1. /\ req[t].op = "set_interface" /\ req[t].pc = "select"
      /\ selects' = selects + 1 /\ Goes(t, "record", req[t].to, selects')
      /\ chip' = [chip EXCEPT !.handle[req[t].arg] = selects', !.alt[req[t].arg] = req[t].alt]
      /\ UNCHANGED <<config, interfaces, open>>
  BY DEF SelectsInterface, At
<1>2. /\ req[t].to \in Numbers /\ selects' \in Nat
      /\ find_interface_desc(req[t].to, req[t].arg, req[t].alt)
  BY <1>1 DEF Inv, WellFormed, Sound, IsSound
<1>3. req[t].alt \in Nat
  BY DEF Inv, WellFormed, RequestType
<1>4. req' \in [Threads -> RequestType] /\ Sound'
  BY <1>1, <1>2, GoesIsSound
<1>5. chip' \in ChipType
  BY <1>1, <1>2, <1>3 DEF Inv, WellFormed, ChipType
<1> QED
  BY <1>1, <1>2, <1>4, <1>5
     DEF Inv, WellFormed, Cached, CacheIsCoherent, ClaimsAreOfOpenFiles

LEMMA InterfaceIsFilled ==
    ASSUME Inv, NEW t \in Threads, NEW n \in Interfaces, NEW alt \in Nat,
           NEW interface \in InterfaceType, req[t].to \in Numbers,
           find_interface_desc(req[t].to, n, alt)
    PROVE  LET endpoints == Configs[req[t].to].interfaces[n][alt + 1]
               new == update_pipe_info(interface, endpoints, req[t].handle)
           IN /\ new \in InterfaceType /\ new.owner = interface.owner
              /\ \A j \in Slots : IsPipe(new.slots[j], j, endpoints, req[t].handle)
<1>1. Configs[req[t].to].interfaces[n][alt + 1] \in Seq(Endpoint) /\ req[t].handle \in Nat
  BY EndpointsAreTyped DEF Inv, WellFormed, RequestType
<1> QED
  BY <1>1, PipesAreUpdated

LEMMA RecordConfigurationKeepsInv ==
    ASSUME Inv, NEW t \in Threads, RecordConfiguration(t)
    PROVE  Inv'
<1> DEFINE i == req[t].to
           new(n) == update_pipe_info(NoInterface, Configs[i].interfaces[n][1], req[t].handle)
<1>1. /\ req[t].op = "set_configuration" /\ req[t].pc = "record"
      /\ interfaces' = [n \in Interfaces |->
            IF find_interface_desc(i, n, 0) THEN new(n) ELSE NoInterface]
      /\ config' = Context(Configs[i].value, i - 1, i)
      /\ End(t) /\ UNCHANGED <<known, open, chip, selects>>
  BY DEF RecordConfiguration, At
<1>2. i \in Numbers
  BY <1>1 DEF Inv, WellFormed, Sound, IsSound
<1>3. config' \in ConfigType /\ Cached'
  BY <1>1, <1>2, ContextIsCached
<1>4. ASSUME NEW n \in Interfaces
      PROVE  interfaces'[n] \in InterfaceType /\ interfaces'[n].owner = NoFile
  <2>1. CASE find_interface_desc(i, n, 0)
    <3>1. new(n) \in InterfaceType /\ new(n).owner = NoFile
      BY <1>2, <2>1, InterfaceIsFilled, NoInterfaceIsTyped
    <3> HIDE DEF new, i
    <3> QED
      BY <1>1, <2>1, <3>1
  <2>2. CASE ~find_interface_desc(i, n, 0)
    BY <1>1, <2>2, NoInterfaceIsTyped
  <2> QED
    BY <2>1, <2>2
<1>5. interfaces' \in [Interfaces -> InterfaceType] /\ ClaimsAreOfOpenFiles'
  BY <1>1, <1>4 DEF ClaimsAreOfOpenFiles
<1>6. req' \in [Threads -> RequestType] /\ Sound'
  BY <1>1, EndIsSound DEF Inv
<1> QED
  BY <1>1, <1>3, <1>5, <1>6 DEF Inv, WellFormed

LEMMA RecordInterfaceKeepsInv ==
    ASSUME Inv, NEW t \in Threads, RecordInterface(t)
    PROVE  Inv'
<1> DEFINE n == req[t].arg
           new == update_pipe_info(interfaces[n],
                    Configs[req[t].to].interfaces[n][req[t].alt + 1], req[t].handle)
<1>1. /\ req[t].op = "set_interface" /\ req[t].pc = "record"
      /\ interfaces' = [interfaces EXCEPT ![n] = new]
      /\ End(t) /\ UNCHANGED <<config, known, open, chip, selects>>
  BY DEF RecordInterface, At
<1>2. /\ req[t].to \in Numbers /\ req[t].alt \in Nat
      /\ find_interface_desc(req[t].to, n, req[t].alt)
  BY <1>1 DEF Inv, WellFormed, RequestType, Sound, IsSound
<1>3. n \in Interfaces
  BY <1>2, EndpointsAreTyped
<1>4. new \in InterfaceType /\ new.owner = interfaces[n].owner
  <2>1. interfaces[n] \in InterfaceType
    BY <1>3 DEF Inv, WellFormed
  <2> QED
    BY <1>2, <1>3, <2>1, InterfaceIsFilled
<1> HIDE DEF new, n
<1>5. interfaces' \in [Interfaces -> InterfaceType] /\ ClaimsAreOfOpenFiles'
  BY <1>1, <1>3, <1>4 DEF Inv, WellFormed, ClaimsAreOfOpenFiles
<1>6. req' \in [Threads -> RequestType] /\ Sound'
  BY <1>1, EndIsSound DEF Inv
<1> QED
  BY <1>1, <1>5, <1>6 DEF Inv, WellFormed, Cached, CacheIsCoherent

LEMMA DeviceIsResetKeepsInv ==
    ASSUME Inv, NEW t \in Threads, DeviceIsReset(t)
    PROVE  Inv'
<1>1. /\ config' = Context(0, -1, NoDescriptor) /\ End(t)
      /\ UNCHANGED <<interfaces, known, open, chip, selects>>
  BY DEF DeviceIsReset
<1>2. config' \in ConfigType /\ Cached'
  BY <1>1, ConfigsAssumption DEF Context, ConfigType, Cached, CacheIsCoherent, NoDescriptor
<1>3. req' \in [Threads -> RequestType] /\ Sound'
  BY <1>1, EndIsSound DEF Inv
<1> QED
  BY <1>1, <1>2, <1>3 DEF Inv, WellFormed, ClaimsAreOfOpenFiles

LEMMA DescriptorComesKeepsInv ==
    ASSUME Inv, NEW t \in Threads, DescriptorComes(t)
    PROVE  Inv'
<1>1. /\ config' = config \/ \E i \in Numbers : config' = Cache(i)
      /\ End(t) /\ UNCHANGED <<interfaces, known, open, chip, selects>>
  BY DEF DescriptorComes, Numbers
<1>2. config' \in ConfigType /\ Cached'
  <2>1. CASE config' = config
    BY <2>1 DEF Inv, WellFormed, Cached, CacheIsCoherent
  <2>2. CASE \E i \in Numbers : config' = Cache(i)
    BY <2>2, CacheIsCached, ConfigsAssumption DEF Cached, CacheIsCoherent, Numbers, NoDescriptor
  <2> QED
    BY <1>1, <2>1, <2>2
<1>3. req' \in [Threads -> RequestType] /\ Sound'
  BY <1>1, EndIsSound DEF Inv
<1> QED
  BY <1>1, <1>2, <1>3 DEF Inv, WellFormed, ClaimsAreOfOpenFiles

LEMMA OwnerChanges ==
    ASSUME NEW interface \in InterfaceType, NEW f \in Files \cup {NoFile}
    PROVE  /\ [interface EXCEPT !.owner = f] \in InterfaceType
           /\ [interface EXCEPT !.owner = f].owner = f
           /\ [interface EXCEPT !.owner = f].valid = interface.valid
           /\ [interface EXCEPT !.owner = f].slots = interface.slots
BY DEF InterfaceType

LEMMA CloseKeepsInv ==
    ASSUME Inv, NEW f \in Files, Close(f)
    PROVE  Inv'
<1>1. /\ open' = open \ {f} /\ interfaces' = ReleaseAll(f)
      /\ UNCHANGED <<config, known, req, chip, selects>>
  BY DEF Close
<1>2. ASSUME NEW n \in Interfaces
      PROVE  interfaces'[n] \in InterfaceType /\ interfaces'[n].owner \in open' \cup {NoFile}
  <2>1. interfaces[n] \in InterfaceType /\ interfaces[n].owner \in open \cup {NoFile}
    BY DEF Inv, WellFormed, ClaimsAreOfOpenFiles
  <2>2. CASE interfaces[n].owner = f
    BY <1>1, <2>1, <2>2, OwnerChanges DEF ReleaseAll
  <2>3. CASE interfaces[n].owner # f
    BY <1>1, <2>1, <2>3 DEF ReleaseAll
  <2> QED
    BY <2>2, <2>3
<1>3. interfaces' \in [Interfaces -> InterfaceType] /\ ClaimsAreOfOpenFiles'
  BY <1>1, <1>2 DEF ReleaseAll, ClaimsAreOfOpenFiles
<1> QED
  BY <1>1, <1>3 DEF Inv, WellFormed, Sound, Cached, CacheIsCoherent

LEMMA ClaimChangesKeepInv ==
    ASSUME Inv, NEW n \in Interfaces, NEW f \in open \cup {NoFile},
           interfaces' = [interfaces EXCEPT ![n].owner = f],
           UNCHANGED <<config, known, req, open, chip, selects>>
    PROVE  Inv'
<1>1. f \in Files \cup {NoFile} /\ interfaces[n] \in InterfaceType
  BY DEF Inv, WellFormed
<1>2. /\ interfaces' = [interfaces EXCEPT ![n] = [interfaces[n] EXCEPT !.owner = f]]
  OBVIOUS
<1>3. /\ [interfaces[n] EXCEPT !.owner = f] \in InterfaceType
      /\ [interfaces[n] EXCEPT !.owner = f].owner = f
  BY <1>1, OwnerChanges
<1>4. interfaces' \in [Interfaces -> InterfaceType] /\ ClaimsAreOfOpenFiles'
  BY <1>2, <1>3 DEF Inv, WellFormed, ClaimsAreOfOpenFiles
<1> QED
  BY <1>4 DEF Inv, WellFormed, Sound, Cached, CacheIsCoherent

LEMMA ClaimKeepsInv ==
    ASSUME Inv, NEW f \in Files, NEW n \in Interfaces, Claim(f, n) \/ ReleaseInterface(f, n)
    PROVE  Inv'
BY ClaimChangesKeepInv DEF Claim, ReleaseInterface

LEMMA ClaimExKeepsInv ==
    ASSUME Inv, NEW f \in Files, NEW w \in Wanted, ClaimEx(f, w) \/ ReleaseEx(f, w)
    PROVE  Inv'
BY ClaimKeepsInv, InterfaceIsFound DEF ClaimEx, ReleaseEx

LEMMA OpeningKeepsInv ==
    ASSUME Inv, GetDeviceDescriptor \/ \E f \in Files : Create(f)
    PROVE  Inv'
BY DEF GetDeviceDescriptor, Create, Inv, WellFormed, Sound, Cached, CacheIsCoherent,
       ClaimsAreOfOpenFiles

LEMMA InitHolds == Init => Inv
<1> SUFFICES ASSUME Init PROVE Inv
  OBVIOUS
<1>1. config \in ConfigType /\ Cached
  BY ConfigsAssumption
     DEF Init, Context, ConfigType, Cached, CacheIsCoherent, NoDescriptor
<1>2. interfaces \in [Interfaces -> InterfaceType] /\ ClaimsAreOfOpenFiles
  BY NoInterfaceIsTyped DEF Init, ClaimsAreOfOpenFiles
<1>3. req \in [Threads -> RequestType] /\ Sound
  BY IdleIsTyped DEF Init, Sound, IsSound
<1>4. chip \in ChipType
  BY ConfigsAssumption DEF Init, Unselected, ChipType, NoHandle
<1> QED
  BY <1>1, <1>2, <1>3, <1>4 DEF Init, Inv, WellFormed

\* The steps of a thread.
ThreadStep(t) ==
    \/ \E c \in {0, ActiveConfig} \cup {-i : i \in 1 .. Len(Configs)}
                \cup {Configs[i].value : i \in 1 .. Len(Configs)} : SetConfiguration(t, c)
    \/ \E n \in Interfaces, alt \in 0 .. 1 : SetInterface(t, n, alt)
    \/ \E w \in Wanted : GetInterfaceEx(t, w) \/ \E alt \in 0 .. 1 : SetInterfaceEx(t, w, alt)
    \/ AltSettingComes(t) \/ ResetDevice(t)
    \/ \E index \in 0 .. Len(Configs) : GetDescriptor(t, index)
    \/ Unconfigured(t) \/ Fetched(t) \/ FetchFails(t) \/ Selects(t)
    \/ RecordConfiguration(t) \/ CallFails(t) \/ SelectsInterface(t)
    \/ RecordInterface(t) \/ DeviceIsReset(t) \/ DescriptorComes(t)

LEMMA ConfigurationsAreNumbers ==
    {0, ActiveConfig} \cup {-i : i \in 1 .. Len(Configs)}
        \cup {Configs[i].value : i \in 1 .. Len(Configs)} \subseteq Int
BY ConfigsAssumption DEF ActiveConfig

LEMMA ThreadKeepsInv ==
    ASSUME Inv, NEW t \in Threads, ThreadStep(t)
    PROVE  Inv'
<1>1. CASE \E c \in Int : SetConfiguration(t, c)
  BY <1>1, SetConfigurationKeepsInv
<1>2. CASE \E n \in Interfaces, alt \in 0 .. 1 : SetInterface(t, n, alt)
  BY <1>2, SetInterfaceKeepsInv
<1>3. CASE \E w \in Wanted, alt \in 0 .. 1 : SetInterfaceEx(t, w, alt)
  BY <1>3, SetInterfaceKeepsInv DEF SetInterfaceEx
<1> QED
  BY <1>1, <1>2, <1>3, ConfigurationsAreNumbers, OtherBeginKeepsInv, FruitlessEndKeepsInv,
     UnconfiguredKeepsInv, FetchedKeepsInv, SelectsKeepsInv, RecordConfigurationKeepsInv,
     SelectsInterfaceKeepsInv, RecordInterfaceKeepsInv, DeviceIsResetKeepsInv,
     DescriptorComesKeepsInv
     DEF ThreadStep

LEMMA StepKeepsInv == Inv /\ [Next]_vars => Inv'
<1> SUFFICES ASSUME Inv, [Next]_vars PROVE Inv'
  OBVIOUS
<1>1. CASE UNCHANGED vars
  BY <1>1 DEF vars, Inv, WellFormed, Sound, Cached, CacheIsCoherent, ClaimsAreOfOpenFiles
<1>2. CASE \E t \in Threads : ThreadStep(t)
  BY <1>2, ThreadKeepsInv
<1>3. CASE Next
  BY <1>2, <1>3, OpeningKeepsInv, CloseKeepsInv, ClaimKeepsInv, ClaimExKeepsInv
     DEF Next, ThreadStep
<1> QED
  BY <1>1, <1>3

(***************************************************************************)
(* Whatever is read, selected, reset or refused, and in whatever order the *)
(* answers come: the cached descriptor is the one of the cached index and  *)
(* of the active value (set_configuration.c, get_descriptor.c,             *)
(* reset_device.c all write it).                                           *)
(***************************************************************************)
THEOREM CacheStaysCoherent == Spec => []CacheIsCoherent
<1>1. Inv => CacheIsCoherent
  BY DEF Inv, Cached
<1> QED
  BY <1>1, InitHolds, StepKeepsInv, PTL DEF Spec

(***************************************************************************)
(* An interface is claimed by a file object that is open, or by none, even *)
(* if it is claimed between a reset and the next configuration, when it    *)
(* cannot be released (claim_interface.c, release_interface.c).            *)
(***************************************************************************)
THEOREM ClosedFilesClaimNothing == Spec => []ClaimsAreOfOpenFiles
<1>1. Inv => ClaimsAreOfOpenFiles
  BY DEF Inv
<1> QED
  BY <1>1, InitHolds, StepKeepsInv, PTL DEF Spec

(***************************************************************************)
(* Pipes.  A request that names an endpoint goes to a pipe the device has, *)
(* if no two requests change the configuration at once.  Between the call  *)
(* that gives the device its pipes and the return of the thread that fills *)
(* in the tables, these are stale; what the thread has found before it     *)
(* blocks is still so when it returns (InFlight), and the rest of the      *)
(* tables is right meanwhile (Tables).                                     *)
(***************************************************************************)

(***************************************************************************)
(* A nonempty set of naturals has a least element, and so a look-up in the *)
(* tables that finds a pipe finds a first one.                             *)
(***************************************************************************)
LEMMA Minimum ==
    ASSUME NEW S, S \subseteq Nat, S # {}
    PROVE  \E x \in S : \A y \in S : x <= y
<1>1. PICK k \in S : TRUE
  OBVIOUS
<1> DEFINE R == 0 .. k
           T == {0 .. x : x \in S \cap R}
<1>2. IsFiniteSet(R)
  BY <1>1, FS_Interval
<1>3. \A x \in S \cap R : 0 .. x \subseteq R
  BY <1>1
<1>4. T \subseteq FiniteSubsetsOf(R)
  BY <1>2, <1>3, FS_Subset DEF FiniteSubsetsOf
<1>5. T # {}
  BY <1>1
<1>6. IsWellFoundedOn(StrictSubsetOrdering(R), FiniteSubsetsOf(R))
  BY <1>2, FS_StrictSubsetOrderingWellFounded
<1>7. PICK t \in T : \A u \in T : ~(<<u, t>> \in StrictSubsetOrdering(R))
  BY <1>4, <1>5, <1>6, WFMin
<1>8. PICK x \in S \cap R : t = 0 .. x
  BY <1>7
<1>9. ASSUME NEW y \in S, y < x PROVE FALSE
  <2>1. y \in S \cap R /\ 0 .. y \subseteq 0 .. x /\ x \notin 0 .. y /\ x \in 0 .. x
    BY <1>1, <1>8, <1>9
  <2>2. (0 .. y) \in T /\ 0 .. y # t
    BY <1>8, <2>1
  <2>3. <<0 .. y, t>> \in StrictSubsetOrdering(R)
    BY <1>3, <1>8, <2>1, <2>2 DEF StrictSubsetOrdering
  <2> QED
    BY <1>7, <2>2, <2>3
<1> QED
  BY <1>8, <1>9

LEMMA FirstIsFound ==
    ASSUME NEW address, Found(address) # {}
    PROVE  \E n \in Interfaces, j \in Slots :
             /\ FirstSlot(address) = interfaces[n].slots[j]
             /\ interfaces[n].valid /\ interfaces[n].slots[j].address = address
<1> DEFINE F == Found(address)
           First(p) == \A q \in F : p[1] < q[1] \/ (p[1] = q[1] /\ p[2] <= q[2])
<1>1. F \subseteq Interfaces \X Slots
  BY DEF Found, Slots
<1>2. \A p \in F : p = <<p[1], p[2]>> /\ p[1] \in Nat /\ p[2] \in Nat
  BY <1>1, SizesAssumption DEF Interfaces, Slots
<1>3. \E p \in F : First(p)
  <2> DEFINE N == {p[1] : p \in F}
  <2>1. N \subseteq Nat /\ N # {}
    BY <1>2
  <2>2. PICK n \in N : \A m \in N : n <= m
    BY <2>1, Minimum
  <2> DEFINE J == {p[2] : p \in {q \in F : q[1] = n}}
  <2>3. J \subseteq Nat /\ J # {}
    BY <1>2, <2>2
  <2>4. PICK j \in J : \A k \in J : j <= k
    BY <2>3, Minimum
  <2>5. PICK p \in F : p[1] = n /\ p[2] = j
    BY <2>4
  <2>6. ASSUME NEW q \in F PROVE p[1] < q[1] \/ (p[1] = q[1] /\ p[2] <= q[2])
    <3>1. n <= q[1] /\ n \in Nat /\ q[1] \in Nat
      BY <1>2, <2>1, <2>2
    <3>2. q[1] = n => j <= q[2]
      BY <2>4
    <3> QED
      BY <2>5, <3>1, <3>2
  <2> QED
    BY <2>5, <2>6
<1>4. PICK p \in F : FirstSlot(address) = interfaces[p[1]].slots[p[2]]
  <2>1. (CHOOSE p \in F : First(p)) \in F
    BY <1>3
  <2> QED
    BY <2>1 DEF FirstSlot
<1>5. interfaces[p[1]].valid /\ interfaces[p[1]].slots[p[2]].address = address
  BY DEF Found
<1> QED
  BY <1>1, <1>4, <1>5

(***************************************************************************)
(* The invariant.                                                          *)
(***************************************************************************)
Alone ==
    \A t, u \in Threads : req[t].op \in Reconfigures /\ req[u].op \in Reconfigures => t = u

\* The thread has got its pipes and has still to fill in the tables: of all
\* interfaces, or of the one whose alternate setting it selects.
Recording(t) == req[t].pc = "record"
Stale(n) == \E t \in Threads :
    Recording(t) /\ (req[t].op = "set_interface" => req[t].arg = n)

Endpoints(n) == Configs[chip.config].interfaces[n][chip.alt[n] + 1]
Filled(n) ==
    interfaces[n].valid =>
        /\ chip.config \in Numbers
        /\ find_interface_desc(chip.config, n, chip.alt[n])
        /\ \A j \in Slots : IsPipe(interfaces[n].slots[j], j, Endpoints(n), chip.handle[n])
Tables == \A n \in Interfaces : Stale(n) \/ Filled(n)

InFlight(t) ==
    /\ req[t].op = "set_interface" =>
         /\ req[t].to = chip.config
         /\ Recording(t) => /\ chip.alt[req[t].arg] = req[t].alt
                            /\ chip.handle[req[t].arg] = req[t].handle
    /\ req[t].op = "set_configuration" /\ Recording(t) =>
         /\ chip.config = req[t].to
         /\ \A n \in Interfaces :
              /\ chip.alt[n] = 0
              /\ find_interface_desc(req[t].to, n, 0) => chip.handle[n] = req[t].handle

Selecting == \E t \in Threads : req[t].op = "set_configuration" /\ Recording(t)
Agreed == config.value # 0 => chip.config = config.descriptor \/ Selecting

PipeInv == Alone /\ (\A t \in Threads : InFlight(t)) /\ Tables /\ Agreed

LEMMA RecordersReconfigure ==
    ASSUME Inv, NEW t \in Threads, Recording(t)
    PROVE  req[t].op \in {"set_configuration", "set_interface"} /\ req[t].op \in Reconfigures
BY DEF Inv, Sound, IsSound, Recording, Reconfigures

LEMMA InitHasPipes == Init => PipeInv
<1> SUFFICES ASSUME Init PROVE PipeInv
  OBVIOUS
<1>1. \A t \in Threads : req[t].op = "none" /\ req[t].pc = "idle"
  BY IdleIsTyped DEF Init
<1>2. Alone /\ \A t \in Threads : InFlight(t)
  BY <1>1 DEF Alone, InFlight, Reconfigures
<1>3. Tables
  BY NoInterfaceIsTyped DEF Init, Tables, Filled
<1>4. Agreed
  BY DEF Init, Context, Agreed
<1> QED
  BY <1>2, <1>3, <1>4 DEF PipeInv

(***************************************************************************)
(* Steps that leave the device and the tables alone.                       *)
(***************************************************************************)
\* The cache still agrees with the device.
StillAgreed == config' = config \/ (config'.value # 0 => chip.config = config'.descriptor)

LEMMA QuietStepKeepsPipes ==
    ASSUME PipeInv, NEW t \in Threads, ~Recording(t), ~Recording(t)',
           \A u \in Threads \ {t} : req'[u] = req[u],
           Alone', InFlight(t)', StillAgreed, UNCHANGED <<interfaces, chip>>
    PROVE  PipeInv'
<1>1. ASSUME NEW u \in Threads PROVE InFlight(u)'
  BY DEF PipeInv, InFlight, Recording
<1>2. ASSUME NEW n \in Interfaces PROVE (Stale(n) \/ Filled(n))'
  <2>1. CASE Filled(n)
    BY <2>1 DEF Filled, Endpoints
  <2>2. CASE Stale(n)
    BY <2>2 DEF Stale, Recording
  <2> QED
    BY <2>1, <2>2 DEF PipeInv, Tables
<1>3. Agreed'
  <2>1. Selecting => Selecting'
    BY DEF Selecting, Recording
  <2> QED
    BY <2>1 DEF StillAgreed, PipeInv, Agreed
<1> QED
  BY <1>1, <1>2, <1>3 DEF PipeInv, Tables

LEMMA AloneWithout ==
    ASSUME Alone, NEW t \in Threads, \A u \in Threads \ {t} : req'[u] = req[u],
           req'[t].op \in Reconfigures => req[t].op \in Reconfigures
    PROVE  Alone'
BY DEF Alone

LEMMA EndKeepsPipes ==
    ASSUME Inv, PipeInv, NEW t \in Threads, ~Recording(t), End(t), StillAgreed,
           UNCHANGED <<interfaces, chip>>
    PROVE  PipeInv'
<1>1. req'[t] = Idle /\ \A u \in Threads \ {t} : req'[u] = req[u]
  BY EndIsSound DEF Inv
<1>2. req'[t].op = "none" /\ req'[t].pc = "idle"
  BY <1>1, IdleIsTyped
<1>3. Alone'
  BY <1>1, <1>2, AloneWithout DEF PipeInv, Reconfigures
<1> QED
  BY <1>1, <1>2, <1>3, QuietStepKeepsPipes DEF InFlight, Recording

LEMMA BeginKeepsPipes ==
    ASSUME Inv, PipeInv, NEW t \in Threads, NEW op \in Ops, NEW pc \in Pcs, NEW arg \in Int,
           NEW alt \in Nat, NEW to \in Nat,
           pc # "record", op \in Reconfigures => Quiet(t), "Concurrent" \notin Env,
           op = "set_interface" => to = chip.config,
           Begin(t, op, pc, arg, alt, to),
           UNCHANGED <<config, interfaces, chip>>
    PROVE  PipeInv'
<1> DEFINE r == Request(op, pc, arg, alt, to, NoHandle)
<1>1. r \in RequestType /\ r.op = op /\ r.pc = pc /\ r.to = to
  BY DEF Request, RequestType, NoHandle
<1> HIDE DEF r
<1>2. req[t] = Idle /\ req'[t] = r /\ \A u \in Threads \ {t} : req'[u] = req[u]
  BY DEF Begin, Inv, WellFormed, r
<1>3. ~Recording(t) /\ ~Recording(t)'
  BY <1>1, <1>2, IdleIsTyped DEF Recording
<1>4. Alone'
  BY <1>1, <1>2 DEF PipeInv, Alone, Quiet
<1>5. InFlight(t)'
  BY <1>1, <1>2, <1>3 DEF InFlight
<1> QED
  BY <1>2, <1>3, <1>4, <1>5, QuietStepKeepsPipes DEF StillAgreed

LEMMA FruitlessEndKeepsPipes ==
    ASSUME Inv, PipeInv, NEW t \in Threads,
           \/ AltSettingComes(t) \/ FetchFails(t) \/ CallFails(t)
           \/ DeviceIsReset(t) \/ DescriptorComes(t)
    PROVE  PipeInv'
<1>1. ~Recording(t) /\ End(t) /\ UNCHANGED <<interfaces, chip>>
  BY DEF AltSettingComes, FetchFails, CallFails, DeviceIsReset, DescriptorComes, At, Recording
<1>2. StillAgreed
  <2>1. CASE DeviceIsReset(t)
    BY <2>1 DEF DeviceIsReset, Context, StillAgreed
  <2>2. CASE DescriptorComes(t)
    <3>1. config' = config \/ \E i \in Numbers : config' = Cache(i)
      BY <2>2 DEF DescriptorComes, Numbers
    <3> QED
      BY <3>1, CacheIsCached DEF StillAgreed
  <2> QED
    BY <2>1, <2>2 DEF AltSettingComes, FetchFails, CallFails, StillAgreed
<1> QED
  BY <1>1, <1>2, EndKeepsPipes

LEMMA FetchedKeepsPipes ==
    ASSUME Inv, PipeInv, NEW t \in Threads, Fetched(t)
    PROVE  PipeInv'
<1>1. /\ req[t].op = "set_configuration" /\ ~Recording(t)
      /\ UNCHANGED <<interfaces, open, chip, selects>>
  BY DEF Fetched, At, Recording
<1>2. PICK i \in Selected(req[t].arg) :
        IF Cache(i).value = Configs[i].value
        THEN config' = Context(Configs[i].value, i - 1, i) /\ End(t)
        ELSE config' = Cache(i) /\ Goes(t, "select", i, NoHandle)
  BY DEF Fetched
<1>3. i \in Numbers /\ Configs[i].value # 0
  BY ConfigsAssumption DEF Selected, Numbers
<1>4. CASE Cache(i).value = Configs[i].value
  <2>1. config.descriptor # NoDescriptor /\ Cache(i) = config
    BY <1>3, <1>4, CacheIsCached
  <2>2. config.value = Configs[i].value /\ config.value = Configs[config.descriptor].value
    BY <1>3, <1>4, <2>1, CacheIsCached
  <2>3. config.descriptor = i
    BY <1>3, <2>1, <2>2, CacheIsCached, ConfigsAssumption DEF Numbers
  <2>4. chip.config = i
    <3>1. ~Selecting
      BY <1>1, RecordersReconfigure DEF PipeInv, Alone, Selecting, Reconfigures
    <3> QED
      BY <1>3, <2>2, <2>3, <3>1 DEF PipeInv, Agreed
  <2>5. config'.descriptor = i /\ End(t)
    BY <1>2, <1>3, <1>4, ContextIsCached
  <2> QED
    BY <1>1, <2>4, <2>5, EndKeepsPipes DEF StillAgreed
<1>5. CASE Cache(i).value # Configs[i].value
  <2>1. /\ req'[t].op = "set_configuration" /\ req'[t].pc = "select"
        /\ \A u \in Threads \ {t} : req'[u] = req[u]
    BY <1>1, <1>2, <1>3, <1>5, GoesIsSound DEF NoHandle
  <2>2. StillAgreed
    BY <1>2, <1>3, <1>5, CacheIsCached DEF StillAgreed
  <2>3. Alone'
    BY <1>1, <2>1, AloneWithout DEF PipeInv, Reconfigures
  <2> QED
    BY <1>1, <2>1, <2>2, <2>3, QuietStepKeepsPipes DEF InFlight, Recording
<1> QED
  BY <1>4, <1>5

LEMMA BeginningKeepsPipes ==
    ASSUME Inv, PipeInv, "Concurrent" \notin Env, NEW t \in Threads,
           \/ \E c \in Int : SetConfiguration(t, c)
           \/ \E n \in Interfaces, alt \in 0 .. 1 : SetInterface(t, n, alt)
           \/ \E w \in Wanted : GetInterfaceEx(t, w)
           \/ ResetDevice(t)
           \/ \E index \in 0 .. Len(Configs) : GetDescriptor(t, index)
    PROVE  PipeInv'
<1>1. UNCHANGED <<config, interfaces, chip>>
  BY DEF SetConfiguration, SetInterface, GetInterfaceEx, ResetDevice, GetDescriptor
<1>2. CASE \E c \in Int : SetConfiguration(t, c)
  <2>1. PICK pc \in {"unselect", "fetch"}, arg \in Int :
          Quiet(t) /\ Begin(t, "set_configuration", pc, arg, 0, 0)
    BY <1>2 DEF SetConfiguration
  <2>2. pc \in Pcs /\ pc # "record" /\ "set_configuration" \in Ops
    BY DEF Pcs, Ops, Reconfigures
  <2> QED
    BY <1>1, <2>1, <2>2, BeginKeepsPipes
<1>3. CASE \E n \in Interfaces, alt \in 0 .. 1 : SetInterface(t, n, alt)
  <2>1. PICK n \in Interfaces, alt \in 0 .. 1 : SetInterface(t, n, alt)
    BY <1>3
  <2>2. /\ config.value # 0 /\ Quiet(t) /\ req[t] = Idle
        /\ Begin(t, "set_interface", "select", n, alt, config.descriptor)
    BY <2>1 DEF SetInterface, Begin
  <2>3. ~Selecting
    BY <2>2, IdleIsTyped DEF Quiet, Selecting, Reconfigures
  <2>4. chip.config = config.descriptor
    BY <2>2, <2>3 DEF PipeInv, Agreed
  <2>5. n \in Int /\ config.descriptor \in Nat
    BY SizesAssumption DEF Interfaces, Inv, WellFormed, ConfigType
  <2>6. "set_interface" \in Ops /\ "select" \in Pcs
    BY DEF Ops, Pcs, Reconfigures
  <2> QED
    BY <1>1, <2>2, <2>4, <2>5, <2>6, BeginKeepsPipes
<1>4. CASE \E w \in Wanted : GetInterfaceEx(t, w)
  <2>1. PICK w \in Wanted : GetInterfaceEx(t, w)
    BY <1>4
  <2>2. PICK n \in find_interface_desc_ex(config.descriptor, w) :
          Begin(t, "get_interface", "ask", n, 0, config.descriptor)
    BY <2>1 DEF GetInterfaceEx
  <2>3. n \in Int /\ config.descriptor \in Nat
    BY <2>2, InterfaceIsFound, SizesAssumption DEF Interfaces, Inv, WellFormed, ConfigType
  <2>4. "get_interface" \in Ops \ Reconfigures /\ "ask" \in Pcs
    BY DEF Ops, Pcs, Reconfigures
  <2> QED
    BY <1>1, <2>2, <2>3, <2>4, BeginKeepsPipes
<1>5. CASE ResetDevice(t)
  <2>1. Quiet(t) /\ Begin(t, "reset_device", "reset", 0, 0, 0)
    BY <1>5 DEF ResetDevice
  <2>2. "reset_device" \in Ops /\ "reset" \in Pcs
    BY DEF Ops, Pcs, Reconfigures
  <2> QED
    BY <1>1, <2>1, <2>2, BeginKeepsPipes
<1>6. CASE \E index \in 0 .. Len(Configs) : GetDescriptor(t, index)
  <2>1. PICK index \in 0 .. Len(Configs) : Begin(t, "get_descriptor", "fetch", index, 0, 0)
    BY <1>6 DEF GetDescriptor
  <2>2. index \in Int /\ "get_descriptor" \in Ops \ Reconfigures /\ "fetch" \in Pcs
    BY ConfigsAssumption DEF Ops, Pcs, Reconfigures
  <2> QED
    BY <1>1, <2>1, <2>2, BeginKeepsPipes
<1> QED
  BY <1>2, <1>3, <1>4, <1>5, <1>6

(***************************************************************************)
(* The device is given its pipes.                                          *)
(***************************************************************************)
\* No other request reconfigures the device.
LEMMA OthersAreQuiet ==
    ASSUME PipeInv, NEW t \in Threads, req[t].op \in Reconfigures, NEW u \in Threads \ {t}
    PROVE  req[u].op \notin Reconfigures
BY DEF PipeInv, Alone

LEMMA SelectsKeepsPipes ==
    ASSUME Inv, PipeInv, NEW t \in Threads, Selects(t)
    PROVE  PipeInv'
<1>1. /\ req[t].op = "set_configuration" /\ req[t].pc = "select"
      /\ selects' = selects + 1 /\ Goes(t, "record", req[t].to, selects')
      /\ chip' = [config |-> req[t].to, alt |-> [n \in Interfaces |-> 0],
                  handle |-> [n \in Interfaces |->
                    IF find_interface_desc(req[t].to, n, 0) THEN selects' ELSE NoHandle]]
  BY DEF Selects, At
<1>2. req[t].to \in Numbers /\ selects' \in Nat /\ req[t].op \in Reconfigures
  BY <1>1 DEF Inv, WellFormed, Sound, IsSound, Reconfigures
<1>3. /\ req'[t].op = "set_configuration" /\ req'[t].pc = "record"
      /\ req'[t].to = req[t].to /\ req'[t].handle = selects'
      /\ \A u \in Threads \ {t} : req'[u] = req[u]
  BY <1>1, <1>2, GoesIsSound
<1>4. Alone'
  BY <1>2, <1>3, AloneWithout DEF PipeInv
<1>5. InFlight(t)'
  BY <1>1, <1>3 DEF InFlight
<1>6. ASSUME NEW u \in Threads \ {t} PROVE InFlight(u)'
  BY <1>2, <1>3, OthersAreQuiet DEF InFlight, Reconfigures
<1>7. Tables' /\ Agreed'
  BY <1>3 DEF Tables, Stale, Agreed, Selecting, Recording
<1> QED
  BY <1>4, <1>5, <1>6, <1>7 DEF PipeInv

LEMMA SelectsInterfaceKeepsPipes ==
    ASSUME Inv, PipeInv, NEW t \in Threads, SelectsInterface(t)
    PROVE  PipeInv'
<1>1. /\ req[t].op = "set_interface" /\ req[t].pc = "select"
      /\ selects' = selects + 1 /\ Goes(t, "record", req[t].to, selects')
      /\ chip' = [chip EXCEPT !.handle[req[t].arg] = selects', !.alt[req[t].arg] = req[t].alt]
      /\ UNCHANGED <<config, interfaces>>
  BY DEF SelectsInterface, At
<1>2. /\ req[t].to \in Numbers /\ selects' \in Nat /\ req[t].op \in Reconfigures
      /\ find_interface_desc(req[t].to, req[t].arg, req[t].alt)
  BY <1>1 DEF Inv, WellFormed, Sound, IsSound, Reconfigures
<1>3. req[t].arg \in Interfaces
  <2>1. req[t].alt \in Nat
    BY DEF Inv, WellFormed, RequestType
  <2> QED
    BY <1>2, <2>1, EndpointsAreTyped
<1>4. /\ req'[t].op = "set_interface" /\ req'[t].pc = "record" /\ req'[t].to = req[t].to
      /\ req'[t].arg = req[t].arg /\ req'[t].alt = req[t].alt /\ req'[t].handle = selects'
      /\ \A u \in Threads \ {t} : req'[u] = req[u]
  BY <1>1, <1>2, GoesIsSound
<1>5. /\ chip'.config = chip.config
      /\ chip'.alt[req[t].arg] = req[t].alt /\ chip'.handle[req[t].arg] = selects'
      /\ \A n \in Interfaces \ {req[t].arg} :
           chip'.alt[n] = chip.alt[n] /\ chip'.handle[n] = chip.handle[n]
  BY <1>1, <1>3 DEF Inv, WellFormed, ChipType
<1>6. Alone'
  BY <1>2, <1>4, AloneWithout DEF PipeInv
<1>7. InFlight(t)'
  BY <1>1, <1>4, <1>5 DEF PipeInv, InFlight
<1>8. ASSUME NEW u \in Threads \ {t} PROVE InFlight(u)'
  BY <1>2, <1>4, OthersAreQuiet DEF InFlight, Reconfigures
<1>9. ASSUME NEW n \in Interfaces PROVE (Stale(n) \/ Filled(n))'
  <2>1. CASE n = req[t].arg
    BY <1>4, <2>1 DEF Stale, Recording
  <2>2. CASE n # req[t].arg
    <3>1. ~Stale(n)
      BY <1>1, <1>2, OthersAreQuiet, RecordersReconfigure DEF Stale, Recording
    <3>2. Filled(n)
      BY <3>1 DEF PipeInv, Tables
    <3> QED
      BY <1>1, <1>5, <2>2, <3>2 DEF Filled, Endpoints
  <2> QED
    BY <2>1, <2>2
<1>10. Agreed'
  <2>1. ~Selecting
    BY <1>1, <1>2, OthersAreQuiet DEF Selecting, Reconfigures
  <2> QED
    BY <1>1, <1>5, <2>1 DEF PipeInv, Agreed
<1> QED
  BY <1>6, <1>7, <1>8, <1>9, <1>10 DEF PipeInv, Tables

LEMMA UnconfiguredKeepsPipes ==
    ASSUME Inv, PipeInv, NEW t \in Threads, Unconfigured(t)
    PROVE  PipeInv'
<1>1. /\ req[t].op \in Reconfigures /\ config' = [config EXCEPT !.value = 0]
      /\ interfaces' = clear_pipe_info /\ End(t)
  BY DEF Unconfigured, At, Reconfigures
<1>2. req'[t] = Idle /\ \A u \in Threads \ {t} : req'[u] = req[u]
  BY <1>1, EndIsSound DEF Inv
<1>3. req'[t].op = "none" /\ req'[t].pc = "idle"
  BY <1>2, IdleIsTyped
<1>4. Alone'
  BY <1>2, <1>3, AloneWithout DEF PipeInv, Reconfigures
<1>5. ASSUME NEW u \in Threads PROVE InFlight(u)'
  BY <1>1, <1>2, <1>3, OthersAreQuiet DEF InFlight, Reconfigures
<1>6. Tables'
  BY <1>1, NoInterfaceIsTyped DEF clear_pipe_info, Tables, Filled
<1>7. Agreed'
  BY <1>1 DEF Agreed, Inv, WellFormed, ConfigType
<1> QED
  BY <1>4, <1>5, <1>6, <1>7 DEF PipeInv

(***************************************************************************)
(* The thread returns and fills in the tables.                             *)
(***************************************************************************)
\* It is the only one that was recording, and nobody is any more.
LEMMA RecordingEnds ==
    ASSUME Inv, PipeInv, NEW t \in Threads, Recording(t), End(t)
    PROVE  /\ Alone' /\ \A u \in Threads : InFlight(u)' /\ ~Recording(u)'
           /\ \A n \in Interfaces :
                Stale(n) => (req[t].op = "set_interface" => req[t].arg = n)
<1>1. req[t].op \in Reconfigures
  BY RecordersReconfigure
<1>2. req'[t] = Idle /\ \A u \in Threads \ {t} : req'[u] = req[u]
  BY EndIsSound DEF Inv
<1>3. req'[t].op = "none" /\ req'[t].pc = "idle"
  BY <1>2, IdleIsTyped
<1>4. Alone'
  BY <1>2, <1>3, AloneWithout DEF PipeInv, Reconfigures
<1>5. ASSUME NEW u \in Threads PROVE InFlight(u)' /\ ~Recording(u)'
  <2>1. CASE u = t
    BY <1>3, <2>1 DEF InFlight, Recording
  <2>2. CASE u # t
    <3>1. req[u].op \notin Reconfigures
      BY <1>1, <2>2, OthersAreQuiet
    <3>2. ~Recording(u)
      BY <3>1, RecordersReconfigure
    <3> QED
      BY <1>2, <2>2, <3>1, <3>2 DEF InFlight, Recording, Reconfigures
  <2> QED
    BY <2>1, <2>2
<1>6. \A n \in Interfaces : Stale(n) => (req[t].op = "set_interface" => req[t].arg = n)
  <2>1. \A u \in Threads : Recording(u) => u = t
    BY <1>1, OthersAreQuiet, RecordersReconfigure
  <2> QED
    BY <2>1 DEF Stale
<1> QED
  BY <1>4, <1>5, <1>6

LEMMA RecordConfigurationKeepsPipes ==
    ASSUME Inv, PipeInv, NEW t \in Threads, RecordConfiguration(t)
    PROVE  PipeInv'
<1> DEFINE i == req[t].to
           new(n) == update_pipe_info(NoInterface, Configs[i].interfaces[n][1], req[t].handle)
<1>1. /\ req[t].op = "set_configuration" /\ Recording(t)
      /\ interfaces' = [n \in Interfaces |->
            IF find_interface_desc(i, n, 0) THEN new(n) ELSE NoInterface]
      /\ config' = Context(Configs[i].value, i - 1, i)
      /\ End(t) /\ UNCHANGED chip
  BY DEF RecordConfiguration, At, Recording
<1>2. /\ i \in Numbers /\ chip.config = i
      /\ \A n \in Interfaces :
           chip.alt[n] = 0 /\ (find_interface_desc(i, n, 0) => chip.handle[n] = req[t].handle)
  BY <1>1 DEF Inv, Sound, IsSound, PipeInv, InFlight, Recording
<1>3. ASSUME NEW n \in Interfaces PROVE Filled(n)'
  <2>1. CASE find_interface_desc(i, n, 0)
    <3>1. \A j \in Slots : IsPipe(new(n).slots[j], j, Configs[i].interfaces[n][1], req[t].handle)
      BY <1>2, <2>1, InterfaceIsFilled, NoInterfaceIsTyped
    <3>2. interfaces'[n] = new(n)
      BY <1>1, <2>1
    <3>3. Endpoints(n)' = Configs[i].interfaces[n][1]
      BY <1>1, <1>2 DEF Endpoints
    <3> HIDE DEF new, i
    <3> QED
      BY <1>1, <1>2, <2>1, <3>1, <3>2, <3>3 DEF Filled
  <2>2. CASE ~find_interface_desc(i, n, 0)
    BY <1>1, <2>2, NoInterfaceIsTyped DEF Filled
  <2> QED
    BY <2>1, <2>2
<1>4. Agreed'
  BY <1>1, <1>2, ContextIsCached DEF Agreed
<1> QED
  BY <1>1, <1>3, <1>4, RecordingEnds DEF PipeInv, Tables

LEMMA RecordInterfaceKeepsPipes ==
    ASSUME Inv, PipeInv, NEW t \in Threads, RecordInterface(t)
    PROVE  PipeInv'
<1>1. /\ req[t].op = "set_interface" /\ Recording(t)
      /\ End(t) /\ UNCHANGED <<config, chip>>
  BY DEF RecordInterface, At, Recording
<1>2. /\ req[t].to \in Numbers /\ req[t].alt \in Nat
      /\ find_interface_desc(req[t].to, req[t].arg, req[t].alt)
      /\ chip.config = req[t].to /\ chip.alt[req[t].arg] = req[t].alt
      /\ chip.handle[req[t].arg] = req[t].handle
  BY <1>1 DEF Inv, WellFormed, RequestType, Sound, IsSound, PipeInv, InFlight, Recording
<1>3. PICK n \in Interfaces : n = req[t].arg
  BY <1>2, EndpointsAreTyped
<1>4. interfaces[n] \in InterfaceType
  BY DEF Inv, WellFormed
<1> DEFINE new == update_pipe_info(interfaces[n],
                    Configs[req[t].to].interfaces[n][req[t].alt + 1], req[t].handle)
<1>5. /\ interfaces'[n] = new
      /\ \A m \in Interfaces \ {n} : interfaces'[m] = interfaces[m]
  BY <1>3 DEF RecordInterface, Inv, WellFormed
<1>6. Filled(n)'
  <2>1. \A j \in Slots :
          IsPipe(new.slots[j], j, Configs[req[t].to].interfaces[n][req[t].alt + 1], req[t].handle)
    BY <1>2, <1>3, <1>4, InterfaceIsFilled
  <2> HIDE DEF new
  <2>2. Endpoints(n)' = Configs[req[t].to].interfaces[n][req[t].alt + 1]
    BY <1>1, <1>2, <1>3 DEF Endpoints
  <2>3. /\ chip'.config \in Numbers /\ chip'.handle[n] = req[t].handle
        /\ find_interface_desc(chip'.config, n, chip'.alt[n])
    BY <1>1, <1>2, <1>3
  <2> QED
    BY <1>5, <2>1, <2>2, <2>3 DEF Filled
<1>7. ASSUME NEW m \in Interfaces \ {n} PROVE Filled(m)'
  <2>1. Filled(m)
    BY <1>1, <1>3, RecordingEnds DEF PipeInv, Tables
  <2> QED
    BY <1>1, <1>5, <2>1 DEF Filled, Endpoints
<1>8. Agreed'
  <2>1. ~Selecting
    BY <1>1, OthersAreQuiet, RecordersReconfigure DEF Selecting
  <2> QED
    BY <1>1, <2>1 DEF PipeInv, Agreed
<1>9. Tables'
  BY <1>6, <1>7 DEF Tables
<1> QED
  BY <1>1, <1>8, <1>9, RecordingEnds DEF PipeInv

(***************************************************************************)
(* Claims concern no pipe.                                                 *)
(***************************************************************************)
LEMMA OwnersKeepPipes ==
    ASSUME PipeInv, UNCHANGED <<config, req, chip>>,
           \A n \in Interfaces : /\ interfaces'[n].valid = interfaces[n].valid
                                 /\ interfaces'[n].slots = interfaces[n].slots
    PROVE  PipeInv'
<1>1. \A n \in Interfaces : (Filled(n) => Filled(n)') /\ (Stale(n) => Stale(n)')
  BY DEF Filled, Endpoints, Stale, Recording
<1> QED
  BY <1>1 DEF PipeInv, Alone, InFlight, Recording, Tables, Agreed, Selecting

LEMMA CloseKeepsPipes ==
    ASSUME Inv, PipeInv, NEW f \in Files, Close(f)
    PROVE  PipeInv'
<1>1. \A n \in Interfaces : interfaces[n] \in InterfaceType
  BY DEF Inv, WellFormed
<1>2. \A n \in Interfaces :
        interfaces'[n] \in {interfaces[n], [interfaces[n] EXCEPT !.owner = NoFile]}
  BY DEF Close, ReleaseAll
<1>3. \A n \in Interfaces : /\ interfaces'[n].valid = interfaces[n].valid
                            /\ interfaces'[n].slots = interfaces[n].slots
  <2> TAKE n \in Interfaces
  <2>1. /\ [interfaces[n] EXCEPT !.owner = NoFile].valid = interfaces[n].valid
        /\ [interfaces[n] EXCEPT !.owner = NoFile].slots = interfaces[n].slots
    BY <1>1, OwnerChanges
  <2> QED
    BY <1>2, <2>1
<1> QED
  BY <1>3, OwnersKeepPipes DEF Close

LEMMA ClaimKeepsPipes ==
    ASSUME Inv, PipeInv, NEW f \in Files, NEW n \in Interfaces,
           Claim(f, n) \/ ReleaseInterface(f, n)
    PROVE  PipeInv'
<1>1. PICK o \in Files \cup {NoFile} : interfaces' = [interfaces EXCEPT ![n].owner = o]
  BY DEF Claim, ReleaseInterface
<1>2. /\ interfaces'[n] = [interfaces[n] EXCEPT !.owner = o]
      /\ interfaces[n] \in InterfaceType
      /\ \A m \in Interfaces \ {n} : interfaces'[m] = interfaces[m]
  BY <1>1 DEF Inv, WellFormed
<1>3. interfaces'[n].valid = interfaces[n].valid /\ interfaces'[n].slots = interfaces[n].slots
  BY <1>2, OwnerChanges
<1> QED
  BY <1>2, <1>3, OwnersKeepPipes DEF Claim, ReleaseInterface

LEMMA OpeningKeepsPipes ==
    ASSUME PipeInv, GetDeviceDescriptor \/ \E f \in Files : Create(f)
    PROVE  PipeInv'
BY OwnersKeepPipes DEF GetDeviceDescriptor, Create

LEMMA ThreadKeepsPipes ==
    ASSUME Inv, PipeInv, "Concurrent" \notin Env, NEW t \in Threads, ThreadStep(t)
    PROVE  PipeInv'
<1>1. CASE \E w \in Wanted, alt \in 0 .. 1 : SetInterfaceEx(t, w, alt)
  BY <1>1, InterfaceIsFound, BeginningKeepsPipes DEF SetInterfaceEx
<1> QED
  BY <1>1, ConfigurationsAreNumbers, BeginningKeepsPipes, FruitlessEndKeepsPipes,
     UnconfiguredKeepsPipes, FetchedKeepsPipes, SelectsKeepsPipes,
     RecordConfigurationKeepsPipes, SelectsInterfaceKeepsPipes, RecordInterfaceKeepsPipes
     DEF ThreadStep

LEMMA StepKeepsPipes ==
    ASSUME "Concurrent" \notin Env
    PROVE  Inv /\ PipeInv /\ [Next]_vars => PipeInv'
<1> SUFFICES ASSUME Inv, PipeInv, [Next]_vars PROVE PipeInv'
  OBVIOUS
<1>1. CASE UNCHANGED vars
  BY <1>1, OwnersKeepPipes DEF vars
<1>2. CASE \E t \in Threads : ThreadStep(t)
  BY <1>2, ThreadKeepsPipes
<1>3. CASE \E f \in Files, w \in Wanted : ClaimEx(f, w) \/ ReleaseEx(f, w)
  BY <1>3, ClaimKeepsPipes, InterfaceIsFound DEF ClaimEx, ReleaseEx
<1>4. CASE Next
  BY <1>2, <1>3, <1>4, OpeningKeepsPipes, CloseKeepsPipes, ClaimKeepsPipes
     DEF Next, ThreadStep
<1> QED
  BY <1>1, <1>4

(***************************************************************************)
(* What the invariant says of a look-up.                                   *)
(***************************************************************************)
LEMMA PipesAreOfDevice ==
    ASSUME Inv, PipeInv, NoReconfiguration
    PROVE  PipesReachDevice
<1>1. \A t \in Threads : ~Recording(t)
  BY RecordersReconfigure DEF NoReconfiguration
<1>2. config.value # 0 => chip.config = config.descriptor
  BY <1>1 DEF PipeInv, Agreed, Selecting
<1>3. ASSUME NEW address \in Addresses, NEW s \in Pipes(address)
      PROVE  \E n \in Interfaces : <<address, s.handle>> \in PipesOfDevice(n)
  <2>1. s \in get_pipe_info(address)
    BY DEF Pipes, BulkRead, BulkWrite, IsochronousRead, IsochronousWrite, reset_endpoint,
           abort_endpoint, get_pipe_handle
  <2>2. Found(address) # {} /\ s = FirstSlot(address) /\ address # 0
    BY <2>1 DEF get_pipe_info, Addresses
  <2>3. PICK n \in Interfaces, j \in Slots :
          /\ s = interfaces[n].slots[j]
          /\ interfaces[n].valid /\ interfaces[n].slots[j].address = address
    BY <2>2, FirstIsFound
  <2>4. Filled(n)
    BY <1>1 DEF PipeInv, Tables, Stale
  <2>5. /\ chip.config \in Numbers /\ find_interface_desc(chip.config, n, chip.alt[n])
        /\ j \in DOMAIN Endpoints(n)
        /\ address = Endpoints(n)[j].address /\ s.handle = chip.handle[n]
    BY <2>2, <2>3, <2>4 DEF Filled, IsPipe
  <2>6. PipesOfDevice(n)
          = {<<Endpoints(n)[k].address, chip.handle[n]>> : k \in DOMAIN Endpoints(n)}
    <3>1. chip.config # 0
      BY <2>5, ConfigsAssumption DEF Numbers
    <3> QED
      BY <2>5, <3>1 DEF PipesOfDevice, Endpoints
  <2> QED
    BY <2>5, <2>6
<1> QED
  BY <1>2, <1>3 DEF PipesReachDevice

(***************************************************************************)
(* For every device, and any number of threads: unless two requests change *)
(* the configuration at once, a request that names an endpoint, and is     *)
(* sent to a pipe, is sent to one the device has at that address, and the  *)
(* cached configuration is that of the device, whatever calls have failed  *)
(* in between (get_pipe_info, update_pipe_info, set_configuration,         *)
(* set_interface, reset_device).                                           *)
(***************************************************************************)
THEOREM PipesAlwaysReachDevice ==
    ASSUME "Concurrent" \notin Env
    PROVE  Spec => []PipesReachDevice
<1>1. Inv /\ PipeInv => PipesReachDevice
  BY PipesAreOfDevice DEF PipesReachDevice
<1>2. Inv /\ PipeInv /\ [Next]_vars => PipeInv'
  BY StepKeepsPipes
<1> QED
  BY <1>1, <1>2, InitHolds, InitHasPipes, StepKeepsInv, PTL DEF Spec
=============================================================================

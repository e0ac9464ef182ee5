---------------------------- MODULE FilterInstall ----------------------------
(***************************************************************************)
(* The installer of libusb-win32 (install.c, registry.c): it enters the    *)
(* filter driver libusb0 in the registry, for classes of devices or for    *)
(* single ones, and takes it out again.  A command is a long sequence of   *)
(* changes that all outlive the program: it stops the devices of libusb0,  *)
(* creates the kernel service, starts them, changes the filter lists and   *)
(* restarts what uses them.  It may be killed after any change.            *)
(*                                                                         *)
(* A filter list is a sequence of drivers.  loaded is what Windows has put *)
(* into the driver stack of a device when it started it last.              *)
(***************************************************************************)
EXTENDS Integers, Sequences, SequencesExt

CONSTANTS
    NumClasses, NumDevices,
    ClassOf,        \* the class of each device
    Hwid,           \* its hardware id: vid, pid, mi, rev (-1: none)
    DefaultClasses, \* default_class_keys_nt
    ForeignUppers,  \* the filters of others: in the list of each class,
    ForeignFilters, \* and in the upper list of each device
    Commands,       \* the command lines
    MaxEntries,     \* how many filters fit into a buffer of MAX_PATH
    Env             \* which disturbances may happen

Disturbances ==
    { "WriteFails",     \* a value cannot be written
      "ServiceFails",   \* the service cannot be opened or changed
      "CreateFails",    \* the service cannot be created, which goes unnoticed
      "StateFails",     \* a device cannot be stopped, started or restarted,
                        \* which goes unnoticed
      "InfFails",       \* an inf file cannot be used, or a driver not updated
      "Replug",         \* devices come and go while a command runs
      "OldHangs" }      \* the service of an old version does not stop

libusb0 == "libusb0"
Classes == 1 .. NumClasses
Devices == 1 .. NumDevices
Drivers == {libusb0, "other", "none"}

(* A command: mode, the classes (-c), patterns for devices (-d, -di), and  *)
(* the switches -ac, -dc and -ad; inf is the set of devices its inf file   *)
(* names.  A pattern is an instance or, if that is 0, parts of an id.      *)
HwidParts == [vid : Int, pid : Int, mi : Int, rev : Int]
CommandType ==
    [mode : {"install", "remove"}, classes : SUBSET Classes,
     patterns : SUBSET [id : Devices \cup {0}, hwid : HwidParts],
     allClasses : BOOLEAN, deviceClasses : BOOLEAN, allDevices : BOOLEAN,
     inf : SUBSET Devices]

ASSUME SizesAssumption ==
    /\ NumClasses \in Nat /\ NumDevices \in Nat /\ MaxEntries \in Nat
    /\ ClassOf \in [Devices -> Classes]
    /\ DefaultClasses \subseteq Classes
    /\ Hwid \in [Devices -> HwidParts]
ASSUME ForeignAssumption ==
    /\ ForeignUppers \in [Classes -> Seq(STRING \ {libusb0})]
    /\ ForeignFilters \in [Devices -> Seq(STRING \ {libusb0})]
ASSUME CommandsAssumption == Commands \subseteq CommandType
ASSUME EnvAssumption == Env \subseteq Disturbances

VARIABLES
    uppers,     \* UpperFilters of each class
    dev,        \* the registry keys of each device, and its state; missed is
                \* a history: a command has left it as it was (State, Plug)
    service,    \* the kernel service libusb0 exists
    old,        \* the service of an old version: running, stopped or absent
    cmd,        \* the command under way
    hurt        \* History: a command was killed or has failed since the last boot

vars == <<uppers, dev, service, old, cmd, hurt>>

EmptyLine == [mode |-> "remove", classes |-> {}, patterns |-> {}, allClasses |-> FALSE,
              deviceClasses |-> FALSE, allDevices |-> FALSE, inf |-> {}]
NoCommand == [pc |-> "idle", c |-> EmptyLine, i |-> 0, keys |-> {}, modified |-> FALSE,
              ret |-> 0, stage |-> "service", listed |-> {}]

(***************************************************************************)
(* Filter lists (the functions on "mz" strings).                           *)
(***************************************************************************)
mz_find(list) == Contains(list, libusb0)
mz_insert(list) == Append(list, libusb0)
\* Mutant: the last driver of the list is taken out.
mz_cut(list) == SubSeq(list, 1, Len(list) - 1)
(* Every libusb0 is taken out.                                             *)
mz_remove(list) ==
    LET upto[n \in 0 .. Len(list)] ==
            IF n = 0 THEN <<>>
            ELSE IF list[n] = libusb0 THEN upto[n - 1] ELSE Append(upto[n - 1], list[n])
    IN  upto[Len(list)]

(* A list that is too long for the buffer cannot be read, and the buffer   *)
(* is then empty.                                                          *)
IsRead(list) == Len(list) <= MaxEntries
Buffer(list) == IF IsRead(list) THEN list ELSE <<>>

Inserted(list) == IF mz_find(Buffer(list)) THEN list ELSE mz_insert(Buffer(list))
Removed(list) == IF mz_find(Buffer(list)) THEN mz_remove(list) ELSE list

(***************************************************************************)
(* Devices.                                                                *)
(***************************************************************************)
(* Where libusb0 is in the stack of a device that starts now.              *)
InEffect(d, r) ==
    {w \in {"service", "upper", "lower", "class"} :
        \/ w = "service" /\ r.service = libusb0
        \/ w = "upper" /\ mz_find(r.upper)
        \/ w = "lower" /\ mz_find(r.lower)
        \/ w = "class" /\ mz_find(uppers[ClassOf[d]])}

(* DICS_PROPCHANGE, DICS_DISABLE, DICS_ENABLE.  A device that is enabled   *)
(* is not started again.                                                   *)
Restarted(d, r) ==
    IF r.present /\ r.enabled THEN [r EXCEPT !.loaded = InEffect(d, r), !.missed = FALSE] ELSE r
Stopped(r) == [r EXCEPT !.enabled = FALSE, !.loaded = {}, !.missed = FALSE]
Started(d, r) == IF r.enabled THEN r ELSE Restarted(d, [r EXCEPT !.enabled = TRUE])

(* usb_registry_set_device_state takes r to new or fails; no caller looks. *)
(* (When the devices cannot even be listed, it is as if each had failed.)  *)
State(ok, r, new) == IF ok THEN new ELSE IF r.present THEN [r EXCEPT !.missed = TRUE] ELSE r
StateMaySucceed == IF "StateFails" \in Env THEN BOOLEAN ELSE {TRUE}
\* The devices that miss a restart of all.
MayMiss == IF "StateFails" \in Env THEN SUBSET Devices ELSE {{}}

is_service_libusb(d) == dev[d].service = libusb0
get_device_filter_type(d) ==
    {w \in {"upper", "lower"} : IsRead(dev[d][w]) /\ mz_find(dev[d][w])}
is_service_or_filter_libusb(d) == is_service_libusb(d) \/ get_device_filter_type(d) # {}
HasService(d) == dev[d].service # "none"

(* usb_registry_match_filter_device.                                       *)
Matches(p, d) ==
    /\ Hwid[d].vid # -1 /\ Hwid[d].pid # -1
    /\ IF p.id # 0 THEN p.id = d
       ELSE /\ p.hwid.vid # -1 /\ p.hwid.vid = Hwid[d].vid
            /\ p.hwid.pid # -1 /\ p.hwid.pid = Hwid[d].pid
            /\ p.hwid.mi \in {-1, Hwid[d].mi}
            /\ p.hwid.rev \in {-1, Hwid[d].rev}
match_filter_device(d) == \E p \in cmd.c.patterns : Matches(p, d)

(* What cannot start without the service.                                  *)
UsesService ==
    \/ \E k \in Classes : mz_find(uppers[k])
    \/ \E d \in Devices : InEffect(d, dev[d]) # {}

Init ==
    /\ \E before, behind \in SUBSET Classes :
         /\ before \cap behind = {}
         /\ uppers = [k \in Classes |->
              IF k \in before THEN <<libusb0>> \o ForeignUppers[k]
              ELSE IF k \in behind THEN mz_insert(ForeignUppers[k]) ELSE ForeignUppers[k]]
    /\ \E s \in [Devices -> Drivers], low \in BOOLEAN :
         dev = [d \in Devices |->
             [service |-> s[d], upper |-> ForeignFilters[d],
              lower |-> IF low /\ s[d] # libusb0 THEN <<libusb0>> ELSE <<>>,
              present |-> FALSE, enabled |-> TRUE, reinstall |-> FALSE, loaded |-> {},
              missed |-> FALSE]]
    /\ service \in (IF UsesService THEN {TRUE} ELSE BOOLEAN)
    /\ old \in {"running", "absent"}
    /\ cmd = NoCommand
    /\ hurt = FALSE

(***************************************************************************)
(* A command begins: usb_install_npW and usb_install_console.  A semaphore *)
(* keeps a second one out.                                                 *)
(***************************************************************************)
IsDefault(c) ==
    /\ c.classes = {} /\ c.patterns = {} /\ c.inf = {}
    /\ ~c.allClasses /\ ~c.deviceClasses /\ ~c.allDevices
Switches(c) == c.allClasses \/ c.deviceClasses

(* The class keys: those named, unless there is a switch; the default ones *)
(* if there is nothing else to do; the classes of the devices that libusb0 *)
(* does not handle yet; for a removal every class there is.                *)
named_class_keys(c) == IF Switches(c) THEN {} ELSE c.classes
get_usb_class_keys(c) ==
    (IF IsDefault(c) THEN DefaultClasses ELSE {}) \cup
    (IF c.mode = "install" /\ Switches(c)
     THEN {ClassOf[d] : d \in {x \in Devices : HasService(x) /\ ~is_service_or_filter_libusb(x)}}
     ELSE {})
get_all_class_keys(c) == IF c.mode = "remove" /\ Switches(c) THEN Classes ELSE {}

ClassKeys(c) == named_class_keys(c) \cup get_usb_class_keys(c) \cup get_all_class_keys(c)

(* An installation without filters begins with the inf file.               *)
InstallsFilters(c) ==
    Switches(c) \/ IsDefault(c) \/ c.classes # {} \/ c.patterns # {}

FirstPart(c) ==
    IF c.mode = "remove" THEN "old" ELSE IF InstallsFilters(c) THEN "stop" ELSE "inf"

(* To stop and to start, the devices present are listed once, at the       *)
(* beginning (DIGCF_PRESENT).                                              *)
ListedFor(pc) == IF pc \in {"stop", "start"} THEN {d \in Devices : dev[d].present} ELSE {}

Begin(c) ==
    /\ cmd.pc = "idle"
    /\ cmd' = [NoCommand EXCEPT
         !.c = c, !.keys = ClassKeys(c), !.pc = FirstPart(c), !.listed = ListedFor(FirstPart(c))]
    /\ UNCHANGED <<uppers, dev, service, old, hurt>>

(* The loops: at item i of n; then on to the next part.                    *)
At(pc, n) == cmd.pc = pc /\ cmd.i < n
Item == cmd.i + 1
Step == cmd' = [cmd EXCEPT !.i = @ + 1]
Goto(pc) == cmd' = [cmd EXCEPT !.pc = pc, !.i = 0, !.listed = ListedFor(pc)]
EndOf(pc, n) == cmd.pc = pc /\ cmd.i = n

WriteMaySucceed == IF "WriteFails" \in Env THEN BOOLEAN ELSE {TRUE}

(***************************************************************************)
(* Installation: usb_install_service.                                      *)
(***************************************************************************)
stop_libusb_devices ==
    /\ At("stop", NumDevices)
    /\ \E ok \in StateMaySucceed :
         dev' = [dev EXCEPT ![Item] =
            IF Item \in cmd.listed /\ @.service = libusb0 THEN State(ok, @, Stopped(@)) ELSE @]
    /\ Step
    /\ UNCHANGED <<uppers, service, old, hurt>>

\* Mutant: the devices are started and filtered before there is a service.
DevicesStoppedOnly ==
    /\ EndOf("stop", NumDevices)
    /\ Goto("start")
    /\ UNCHANGED <<uppers, dev, service, old, hurt>>
DevicesStopped ==
    /\ EndOf("stop", NumDevices)
    /\ Goto(IF cmd.stage = "service" THEN "service" ELSE "start")
    /\ UNCHANGED <<uppers, dev, service, old, hurt>>

service_create ==
    /\ cmd.pc = "service"
    /\ service' \in (IF "CreateFails" \in Env THEN {service, TRUE} ELSE {TRUE})
    /\ Goto("start")
    /\ UNCHANGED <<uppers, dev, old, hurt>>

(* The command gives up; the devices stay as they are.                     *)
service_fails ==
    /\ "ServiceFails" \in Env /\ cmd.pc = "service"
    /\ cmd' = [cmd EXCEPT !.pc = "done", !.ret = -1]
    /\ UNCHANGED <<uppers, dev, service, old, hurt>>

\* Mutant: only devices that are enabled are started.
start_enabled_devices ==
    /\ At("start", NumDevices)
    /\ \E ok \in StateMaySucceed :
         dev' = [dev EXCEPT ![Item] =
            IF Item \in cmd.listed /\ @.enabled /\ @.service = libusb0
            THEN State(ok, @, Started(Item, @)) ELSE @]
    /\ Step
    /\ UNCHANGED <<uppers, service, old, hurt>>
start_libusb_devices ==
    /\ At("start", NumDevices)
    /\ \E ok \in StateMaySucceed :
         dev' = [dev EXCEPT ![Item] =
            IF Item \in cmd.listed /\ @.service = libusb0
            THEN State(ok, @, Started(Item, @)) ELSE @]
    /\ Step
    /\ UNCHANGED <<uppers, service, old, hurt>>

DevicesStarted ==
    /\ EndOf("start", NumDevices)
    /\ Goto(IF cmd.stage = "service" THEN "insert_devices" ELSE "done")
    /\ UNCHANGED <<uppers, dev, service, old, hurt>>

(* A device is restarted at once only if no class is to be changed.        *)
RestartedAlone(ok, d, r) == IF cmd.keys = {} THEN State(ok, r, Restarted(d, r)) ELSE r

insert_device_filters ==
    /\ At("insert_devices", NumDevices)
    /\ \E ok \in WriteMaySucceed, done \in StateMaySucceed :
         LET r == dev[Item]
             r1 == [r EXCEPT !.upper = Inserted(@)]
         IN dev' = [dev EXCEPT ![Item] =
                IF ok /\ HasService(Item) /\ ~is_service_or_filter_libusb(Item)
                      /\ match_filter_device(Item)
                THEN RestartedAlone(done, Item, r1) ELSE r]
    /\ Step
    /\ UNCHANGED <<uppers, service, old, hurt>>

DeviceFiltersInserted ==
    /\ EndOf("insert_devices", NumDevices)
    /\ Goto("insert_classes")
    /\ UNCHANGED <<uppers, dev, service, old, hurt>>

insert_class_filter ==
    /\ At("insert_classes", NumClasses)
    /\ \E ok \in WriteMaySucceed :
         LET changes == /\ Item \in cmd.keys /\ ok
                        /\ ~mz_find(Buffer(uppers[Item]))
         IN /\ uppers' = IF changes THEN [uppers EXCEPT ![Item] = Inserted(@)] ELSE uppers
            /\ cmd' = [cmd EXCEPT !.i = @ + 1, !.modified = @ \/ changes]
    /\ UNCHANGED <<dev, service, old, hurt>>

(***************************************************************************)
(* Removal: usb_uninstall_service.                                         *)
(***************************************************************************)
(* usb_service_stop asks once and then looks until the service has stopped, *)
(* for the time it has waited is reset each time; usb_service_delete.      *)
old_service_removed ==
    /\ cmd.pc = "old" /\ old # "running"
    /\ old' \in {old, "absent"}
    /\ Goto("remove_devices")
    /\ UNCHANGED <<uppers, dev, service, hurt>>

OldServiceStops ==
    /\ cmd.pc = "old" /\ old = "running" /\ "OldHangs" \notin Env
    /\ old' = "stopped"
    /\ UNCHANGED <<uppers, dev, service, cmd, hurt>>

(* The upper and then the lower filter, each with a restart.               *)
UpperRemoved(ok, done, d, r) ==
    IF mz_find(Buffer(r.upper))
    THEN RestartedAlone(done, d, IF ok THEN [r EXCEPT !.upper = Removed(@)] ELSE r) ELSE r
LowerRemoved(ok, done, d, r) ==
    IF mz_find(Buffer(r.lower))
    THEN RestartedAlone(done, d, IF ok THEN [r EXCEPT !.lower = Removed(@)] ELSE r) ELSE r

remove_device_filter ==
    /\ At("remove_devices", NumDevices)
    /\ \E ok1, ok2 \in WriteMaySucceed, done1, done2 \in StateMaySucceed :
         dev' = [dev EXCEPT ![Item] =
            IF cmd.c.allDevices \/ match_filter_device(Item)
            THEN LowerRemoved(ok2, done2, Item, UpperRemoved(ok1, done1, Item, @)) ELSE @]
    /\ Step
    /\ UNCHANGED <<uppers, service, old, hurt>>

DeviceFiltersRemoved ==
    /\ EndOf("remove_devices", NumDevices)
    /\ Goto("remove_classes")
    /\ UNCHANGED <<uppers, dev, service, old, hurt>>

\* Mutant: that a class is modified is not noted.
remove_class_quietly ==
    /\ At("remove_classes", NumClasses)
    /\ \E ok \in WriteMaySucceed :
         LET found == Item \in cmd.keys /\ mz_find(Buffer(uppers[Item]))
         IN uppers' = IF found /\ ok THEN [uppers EXCEPT ![Item] = Removed(@)] ELSE uppers
    /\ Step
    /\ UNCHANGED <<dev, service, old, hurt>>
(* The modification is noted before it is made.                            *)
remove_class_filter ==
    /\ At("remove_classes", NumClasses)
    /\ \E ok \in WriteMaySucceed :
         LET found == Item \in cmd.keys /\ mz_find(Buffer(uppers[Item])) IN
         /\ uppers' = IF found /\ ok THEN [uppers EXCEPT ![Item] = Removed(@)] ELSE uppers
         /\ cmd' = [cmd EXCEPT !.i = @ + 1, !.modified = @ \/ found]
    /\ UNCHANGED <<dev, service, old, hurt>>

(* After either: the root hubs, and with them all devices, are restarted   *)
(* if a class has changed.                                                 *)
AllRestarted ==
    \E missing \in MayMiss :
        dev' = [d \in Devices |->
            IF cmd.modified THEN State(d \notin missing, dev[d], Restarted(d, dev[d])) ELSE dev[d]]

restart_all_devices ==
    /\ EndOf("insert_classes", NumClasses) \/ EndOf("remove_classes", NumClasses)
    /\ AllRestarted
    /\ cmd' = [cmd EXCEPT !.pc = IF cmd.c.inf # {} THEN "inf" ELSE "done", !.i = 0,
                          !.modified = FALSE]
    /\ UNCHANGED <<uppers, service, old, hurt>>

(***************************************************************************)
(* usb_install_inf_np: devices that are there get the driver, and the      *)
(* others are marked for the next time; then all of libusb0 restart.       *)
(* Windows creates the service that an inf file names with the driver.     *)
(* Whether the driver was updated, or the device has to wait for the next  *)
(* boot, is not looked at.                                                 *)
(***************************************************************************)
InfMaySucceed == IF "InfFails" \in Env THEN BOOLEAN ELSE {TRUE}
Driven(done, d, s, r) ==
    LET new == [r EXCEPT !.service = s] IN State(done, new, Restarted(d, new))
Updated(done, d, r) ==
    IF r.present THEN Driven(done, d, libusb0, r) ELSE [r EXCEPT !.reinstall = TRUE]

install_inf ==
    /\ At("inf", NumDevices) /\ cmd.c.mode = "install"
    /\ \E ok \in InfMaySucceed, done \in StateMaySucceed :
         /\ dev' = [dev EXCEPT ![Item] =
                IF ok /\ Item \in cmd.c.inf THEN Updated(done, Item, @) ELSE @]
         /\ service' = (service \/ (ok /\ Item \in cmd.c.inf /\ dev[Item].present))
    /\ Step
    /\ UNCHANGED <<uppers, old, hurt>>

(* For a removal a device goes back to the driver before, or it is          *)
(* uninstalled, with its filters, and gets what driver Windows finds.       *)
RolledBack(done, d, r) == Driven(done, d, "other", r)
UninstalledAs(s, r) == [r EXCEPT !.service = s, !.upper = <<>>, !.lower = <<>>,
                                 !.enabled = TRUE, !.reinstall = FALSE, !.loaded = {}]

remove_inf ==
    /\ At("inf", NumDevices) /\ cmd.c.mode = "remove"
    /\ \/ \E done \in StateMaySucceed :
             dev' \in {dev, [dev EXCEPT ![Item] =
                 IF Item \in cmd.c.inf THEN RolledBack(done, Item, @) ELSE @]}
          /\ Step
       \/ \E s \in IF service THEN Drivers ELSE Drivers \ {libusb0} :
             /\ Item \in cmd.c.inf
             /\ dev' = [dev EXCEPT ![Item] = UninstalledAs(s, @)]
             /\ cmd' = [cmd EXCEPT !.i = @ + 1, !.modified = TRUE]
    /\ UNCHANGED <<uppers, service, old, hurt>>

(* usb_reset_required: Windows finds what was uninstalled again.            *)
InfRemoved ==
    /\ EndOf("inf", NumDevices) /\ cmd.c.mode = "remove"
    /\ AllRestarted
    /\ Goto("done")
    /\ UNCHANGED <<uppers, service, old, hurt>>

InfInstalled ==
    /\ EndOf("inf", NumDevices) /\ cmd.c.mode = "install"
    /\ cmd' = [cmd EXCEPT !.pc = "stop", !.i = 0, !.stage = "inf", !.listed = ListedFor("stop")]
    /\ UNCHANGED <<uppers, dev, service, old, hurt>>

(* The early returns: what is done so far stays, and nothing is restarted. *)
inf_fails ==
    /\ "InfFails" \in Env /\ cmd.pc = "inf"
    /\ cmd' = [cmd EXCEPT !.pc = "done", !.ret = -1]
    /\ UNCHANGED <<uppers, dev, service, old, hurt>>

(***************************************************************************)
(* The end of a command, and what happens between commands.                *)
(***************************************************************************)
Done ==
    /\ cmd.pc = "done"
    /\ cmd' = NoCommand
    /\ hurt' = (hurt \/ cmd.ret # 0)
    /\ UNCHANGED <<uppers, dev, service, old>>

Killed ==
    /\ cmd.pc \notin {"idle", "done"}
    /\ cmd' = NoCommand
    /\ hurt' = TRUE
    /\ UNCHANGED <<uppers, dev, service, old>>

(* A device that is disabled is not started when it comes, and the command *)
(* under way may no longer see it.                                         *)
Plug(d) ==
    /\ cmd.pc = "idle" \/ "Replug" \in Env
    /\ ~dev[d].present
    /\ LET r == dev[d]
           driver == IF r.reinstall THEN libusb0 ELSE r.service
       IN dev' = [dev EXCEPT ![d] = Restarted(d,
              [r EXCEPT !.present = TRUE, !.reinstall = FALSE, !.service = driver,
                        !.missed = cmd.pc # "idle"])]
    /\ service' = (service \/ dev[d].reinstall)
    /\ UNCHANGED <<uppers, old, cmd, hurt>>

Unplug(d) ==
    /\ cmd.pc = "idle" \/ "Replug" \in Env
    /\ dev[d].present
    /\ dev' = [dev EXCEPT ![d].present = FALSE, ![d].loaded = {}, ![d].missed = FALSE]
    /\ UNCHANGED <<uppers, service, old, cmd, hurt>>

Reboot ==
    /\ cmd.pc = "idle"
    /\ dev' = [d \in Devices |-> Restarted(d, dev[d])]
    /\ hurt' = FALSE
    /\ UNCHANGED <<uppers, service, old, cmd>>

Install ==
    \/ stop_libusb_devices \/ DevicesStopped \/ service_create \/ service_fails
    \/ start_libusb_devices \/ DevicesStarted
    \/ insert_device_filters \/ DeviceFiltersInserted \/ insert_class_filter
    \/ install_inf \/ InfInstalled
Uninstall ==
    \/ OldServiceStops \/ old_service_removed
    \/ remove_device_filter \/ DeviceFiltersRemoved \/ remove_class_filter
    \/ remove_inf \/ InfRemoved \/ inf_fails

Next ==
    \/ \E c \in Commands : Begin(c)
    \/ Install \/ Uninstall \/ restart_all_devices \/ Done \/ Killed
    \/ \E d \in Devices : Plug(d) \/ Unplug(d)
    \/ Reboot

Spec == Init /\ [][Next]_vars

-----------------------------------------------------------------------------
TypeOK ==
    /\ uppers \in [Classes -> Seq(STRING)]
    /\ \A d \in Devices :
         /\ dev[d].service \in Drivers
         /\ dev[d].loaded \subseteq {"service", "upper", "lower", "class"}
         /\ dev[d].present \in BOOLEAN /\ dev[d].enabled \in BOOLEAN
         /\ dev[d].missed \in BOOLEAN
    /\ service \in BOOLEAN /\ hurt \in BOOLEAN
    /\ old \in {"running", "stopped", "absent"}
    /\ cmd.c \in CommandType /\ cmd.i \in 0 .. (NumClasses + NumDevices)

(* Whatever is installed and removed, and wherever a command is killed,    *)
(* the filters of others stay in each list in their order, and libusb0 is  *)
(* in it once at most (registry.c: the lists are read, changed and written *)
(* back as one value).  Only a device without such filters is uninstalled. *)
With(list) == {list} \cup {InsertAt(list, n, libusb0) : n \in 1 .. Len(list) + 1}
ForeignFiltersSurvive ==
    /\ \A k \in Classes : uppers[k] \in With(ForeignUppers[k])
    /\ \A d \in Devices :
         dev[d].upper \in With(ForeignFilters[d]) /\ dev[d].lower \in With(<<>>)

(* No device or class depends on libusb0 before its service exists: a      *)
(* device with a filter that cannot be loaded does not start, and with a   *)
(* class that is every device of the class (usb_install_service creates    *)
(* the service first).                                                     *)
FilterHasService == UsesService => service

(* When no command is under way and none was killed or failed since the    *)
(* system started, what runs in the stack of a device is what the registry *)
(* says, unless a change of its state has failed, which no return value    *)
(* tells: every change was followed by the restart it needs                *)
(* (class_filters_modified, usb_registry_restart_device).                  *)
LoadedMatchesRegistry ==
    (cmd.pc = "idle" /\ ~hurt) =>
        \A d \in Devices :
            (dev[d].present /\ dev[d].enabled /\ ~dev[d].missed) =>
                dev[d].loaded = InEffect(d, dev[d])

(* Devices that a killed or failed command has left stopped are started by *)
(* the next installation that returns 0 (stop and start look at all        *)
(* devices of libusb0, not at those they stopped), unless Windows did not  *)
(* start them, or they were away when the devices were listed.             *)
InstallRepairs ==
    (cmd.pc = "done" /\ cmd.c.mode = "install" /\ cmd.ret = 0) =>
        \A d \in Devices :
            (dev[d].present /\ is_service_libusb(d) /\ ~dev[d].missed) =>
                dev[d].enabled /\ "service" \in dev[d].loaded
=============================================================================

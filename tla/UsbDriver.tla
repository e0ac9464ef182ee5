----------------------------- MODULE UsbDriver -----------------------------
(***************************************************************************)
(* The life of one device in libusb0.sys: the driver attaches to it, the   *)
(* plug and play manager starts, stops and removes it, the power manager   *)
(* sets its state, and programs open it and send it requests, all of them  *)
(* on different threads.  A remove lock, a counter of the requests in the  *)
(* driver, keeps the device from being deleted below a request.            *)
(*                                                                         *)
(* One member of Irps is one request packet; it is taken from the pool,    *)
(* dispatched, and returns to the pool when it is completed.  pc is where  *)
(* its thread is.  Every access to the lock is a step of its own.          *)
(***************************************************************************)
EXTENDS Integers, FiniteSets, Sequences

CONSTANTS
    Irps,       \* the request packets, as many as can be in the driver at once
    NoIrp,      \* no request packet
    Devices,    \* the devices the system may find
    Env         \* which disturbances may happen

Disturbances ==
    { "LateIoctl",      \* removal begins between the check of is_started and the lock
      "PowerFails",     \* the lower driver fails a power request
      "ConfigFails",    \* the initial configuration cannot be selected
      "Reconfigures",   \* programs select configurations and take them back
      "RemoveStopped" } \* a device that is stopped is removed without another start

ASSUME IrpsAssumption == IsFiniteSet(Irps) /\ NoIrp \notin Irps
(* usb, hub: what the ids say; skipped, wdf: which drivers are attached to  *)
(* it already; key, surprise: its registry key can be opened, and has the  *)
(* value SurpriseRemovalOK, which the inf files of libusb-win32 write;      *)
(* initial: InitialConfigValue is not 0, that is, it asks for one.         *)
Device == [usb : BOOLEAN, hub : BOOLEAN, skipped : BOOLEAN, wdf : BOOLEAN,
           key : BOOLEAN, surprise : BOOLEAN, initial : BOOLEAN]
ASSUME DevicesAssumption == Devices \subseteq Device
ASSUME EnvAssumption == Env \subseteq Disturbances

VARIABLES
    dev,        \* the device extension: is_started, is_filter, power_state, ...
    stage,      \* what the plug and play manager has made of the device
    usage,      \* remove_lock.usage_count
    pending,    \* remove_lock.remove_pending
    event,      \* remove_lock.event is signalled
    irp,        \* the request packets
    posted,     \* device power requests the driver has asked the manager for
    reported,   \* the device state the power manager was told last
    late,       \* History: ioctls that have released a lock they did not have
    misled,     \* History: the last power request that went through, up or down,
                \* was followed by one to power down that failed
    excused     \* History: the configuration could not be selected, or a program
                \* has taken it back, and none has been selected since

lockVars == <<usage, pending, event, late>>
powerVars == <<posted, reported, misled>>
vars == <<dev, stage, lockVars, irp, powerVars, excused>>

(* DEVICE_POWER_STATE: a smaller number is more power. *)
Unspecified == 0
D0 == 1
D3 == 4
DeviceStates == {Unspecified, D0, D3}
(* SYSTEM_POWER_STATE. *)
Working == 1
Sleeping == 4
SystemStates == {Working, Sleeping}
Stages == {"absent", "added", "started", "stopped", "surprised"}

PnpKinds == {"start", "stop", "surprise", "capabilities", "remove"}
PowerKinds == {"device", "system"}
Kinds == {"none", "ioctl", "create"} \cup PnpKinds \cup PowerKinds

(* acquire, test: in remove_lock_acquire.  failed: an ioctl whose acquire  *)
(* failed.  in: in the handler.  below: in the lower driver.  finish: in   *)
(* the second half of the handler.  power: in power_set_device_state.      *)
(* mark, drop, dropped, wait: in remove_lock_release_and_wait.             *)
Holding == {"in", "below", "finish"}
Pcs == {"idle", "acquire", "test", "failed", "power", "mark", "drop", "dropped", "wait"}
         \cup Holding

Idle == [kind |-> "none", pc |-> "idle", to |-> D0, by |-> NoIrp]

(* The requests that hold the remove lock. *)
Holders == {r \in Irps : irp[r].pc \in Holding}
Busy(kinds) == \E r \in Irps : irp[r].kind \in kinds

(* device_power_states[s], which QUERY_CAPABILITIES fills in. *)
DevicePowerState(s) ==
    IF ~dev.capabilities THEN Unspecified
    ELSE IF s = Working THEN D0 ELSE D3

(* The driver is a filter unless it was installed for the device; either   *)
(* way it has an interface of its own if the key can be opened.            *)
IsFilter(d) == ~(d.key /\ d.surprise)
reg_get_properties(d) == [filter |-> IsFilter(d), interface |-> d.key]

(* filter: is_filter, disallow: disallow_power_control, interface:         *)
(* device_interface_in_use; enabled is the state of that interface.        *)
(* initial: initial_config_value, which is the active configuration if the *)
(* key cannot be opened; configured: config.value is not 0.                *)
NewDevice(d) ==
    [started |-> FALSE, configured |-> FALSE,
     filter |-> reg_get_properties(d).filter, disallow |-> d.wdf,
     interface |-> reg_get_properties(d).interface, initial |-> d.initial \/ ~d.key,
     enabled |-> FALSE, capabilities |-> FALSE,
     device |-> D0, system |-> Working]
Nothing == [usb |-> FALSE, hub |-> FALSE, skipped |-> FALSE, wdf |-> FALSE,
            key |-> FALSE, surprise |-> FALSE, initial |-> FALSE]

Init ==
    /\ dev = NewDevice(Nothing)
    /\ stage = "absent"
    /\ usage = 0 /\ pending = FALSE /\ event = FALSE
    /\ irp = [r \in Irps |-> Idle]
    /\ posted = <<>>
    /\ reported = D0
    /\ late = 0 /\ misled = FALSE /\ excused = FALSE

(***************************************************************************)
(* The remove lock.                                                        *)
(***************************************************************************)
Goto(r, pc) == irp' = [irp EXCEPT ![r].pc = pc]

\* Mutant: the thread that waits for a power request is not woken.
CompleteAlone(r) == irp' = [irp EXCEPT ![r] = Idle]
(* A packet is completed.  If it is the power request a thread waits for in *)
(* power_set_device_state, that thread goes on and completes its own.      *)
Complete(r) ==
    irp' = [q \in Irps |-> IF q \in {r, irp[r].by} THEN Idle ELSE irp[q]]

(* InterlockedDecrement, and the event at zero.                            *)
remove_lock_release ==
    /\ usage' = usage - 1
    /\ event' = (event \/ usage = 1)
    /\ UNCHANGED pending

Release == remove_lock_release /\ UNCHANGED late

(* remove_lock_acquire: the count is raised before the flag is looked at.  *)
AcquireIncrements(r) ==
    /\ irp[r].pc = "acquire"
    /\ usage' = usage + 1
    /\ Goto(r, "test")
    /\ UNCHANGED <<dev, excused, stage, pending, event, late, powerVars>>

AcquireSucceeds(r) ==
    /\ irp[r].pc = "test" /\ ~pending
    /\ Goto(r, "in")
    /\ UNCHANGED <<dev, excused, stage, lockVars, powerVars>>

(* A request that comes too late is completed with STATUS_DELETE_PENDING.  *)
AcquireFails(r) ==
    /\ irp[r].pc = "test" /\ pending
    /\ Release
    /\ IF irp[r].kind = "ioctl" THEN Goto(r, "failed") ELSE Complete(r)
    /\ UNCHANGED <<dev, excused, stage, powerVars>>

(* dispatch_ioctl then releases the lock it has not acquired.              *)
FailedIoctlReleases(r) ==
    /\ irp[r].pc = "failed"
    /\ remove_lock_release
    /\ late' = late + 1
    /\ Complete(r)
    /\ UNCHANGED <<dev, excused, stage, powerVars>>

(***************************************************************************)
(* Attaching, and requests of programs.                                    *)
(***************************************************************************)
(* Hubs are left alone, and devices with a driver on the skip list.        *)
IsAttached(d) == d.usb /\ ~d.hub /\ ~d.skipped

(* The extension is new; add_device holds the lock while it attaches, and   *)
(* no request reaches the device before it has released it.                *)
AddDevice(d) ==
    /\ stage = "absent"
    /\ IsAttached(d)
    /\ \A r \in Irps : irp[r] = Idle
    /\ dev' = NewDevice(d)
    /\ stage' = "added"
    /\ usage' = 1 /\ pending' = FALSE /\ event' = FALSE
    /\ reported' = D0 /\ late' = 0 /\ misled' = FALSE /\ excused' = FALSE
    /\ UNCHANGED <<irp, posted>>

Dispatch(r, kind, pc) ==
    /\ irp[r].pc = "idle"
    /\ irp' = [irp EXCEPT ![r] = [Idle EXCEPT !.kind = kind, !.pc = pc]]

(* IRP_MJ_DEVICE_CONTROL: is_started is checked first, then the lock taken. *)
IoctlArrives(r) ==
    /\ stage # "absent" /\ dev.started
    /\ "LateIoctl" \notin Env => ~Busy({"remove"})
    /\ Dispatch(r, "ioctl", "acquire")
    /\ UNCHANGED <<dev, excused, stage, lockVars, powerVars>>

(* A program selects a configuration, or takes it back: it sets            *)
(* configuration 0 or resets the device.  Of a filter, and of a device that *)
(* asks for no configuration, nothing looks at configured.                 *)
IoctlConfigures(r) ==
    /\ "Reconfigures" \in Env /\ ~dev.filter /\ dev.initial
    /\ irp[r].kind = "ioctl" /\ irp[r].pc = "in"
    /\ \E selected \in BOOLEAN :
         /\ dev' = [dev EXCEPT !.configured = selected]
         /\ excused' = ~selected
    /\ UNCHANGED <<stage, irp, lockVars, powerVars>>

(* Completed at IOCTL_Done, or by the completion routine of a transfer.     *)
IoctlEnds(r) ==
    /\ irp[r].kind = "ioctl" /\ irp[r].pc = "in"
    /\ Release
    /\ Complete(r)
    /\ UNCHANGED <<dev, excused, stage, powerVars>>

(* IRP_MJ_CREATE powers the device up and waits, without the lock.  If the  *)
(* power is on, the request is completed at once and nothing changes.      *)
(* Bound: one such thread at a time.                                       *)
CreateArrives(r) ==
    /\ stage # "absent" /\ dev.started
    /\ ~Busy({"create"})
    /\ dev.device # D0 /\ ~dev.disallow
    /\ Dispatch(r, "create", "power")
    /\ posted' = Append(posted, [to |-> D0, by |-> r])
    /\ UNCHANGED <<dev, excused, stage, lockVars, reported, misled>>

(***************************************************************************)
(* Plug and play.  The manager sends one request at a time, in the order   *)
(* of its own states (stage); the requests that change nothing are left    *)
(* out.                                                                    *)
(***************************************************************************)
Sends(kind) ==
    CASE kind = "capabilities" -> stage = "added"
      [] kind = "start"    -> stage \in {"added", "stopped"} /\ dev.capabilities
      [] kind = "stop"     -> stage = "started"
      [] kind = "surprise" -> stage \in {"started", "stopped"}
      [] kind = "remove"   -> /\ stage \in {"added", "started", "stopped", "surprised"}
                              /\ stage = "stopped" => "RemoveStopped" \in Env

(* The device is not started while its power state changes.                *)
PnpArrives(r, kind) ==
    /\ ~Busy(PnpKinds) /\ Sends(kind)
    /\ kind = "start" => ~Busy(PowerKinds)
    /\ Dispatch(r, kind, "acquire")
    /\ UNCHANGED <<dev, excused, stage, lockVars, powerVars>>

CapabilitiesPassDown(r) ==
    /\ irp[r].kind = "capabilities" /\ irp[r].pc = "in"
    /\ Goto(r, "below")
    /\ UNCHANGED <<dev, excused, stage, lockVars, powerVars>>

on_query_capabilities_complete(r) ==
    /\ irp[r].kind = "capabilities" /\ irp[r].pc = "below"
    /\ dev' = [dev EXCEPT !.capabilities = TRUE]
    /\ Release
    /\ Complete(r)
    /\ UNCHANGED <<excused, stage, powerVars>>

StartPassesDown(r) ==
    /\ irp[r].kind = "start" /\ irp[r].pc = "in"
    /\ reported' = dev.device
    /\ dev' = [dev EXCEPT !.enabled = @ \/ dev.interface]
    /\ Goto(r, "below")
    /\ misled' = FALSE
    /\ UNCHANGED <<excused, stage, lockVars, posted>>

(* on_start_complete: a driver that is not a filter selects the initial    *)
(* configuration, if one is asked for, and only then are requests let in.   *)
Wanted == ~dev.filter /\ ~dev.started /\ dev.initial

StartConfigures(r) ==
    /\ irp[r].kind = "start" /\ irp[r].pc = "below"
    /\ dev' = [dev EXCEPT !.configured = @ \/ Wanted]
    /\ excused' = (excused /\ ~Wanted)
    /\ Goto(r, "finish")
    /\ UNCHANGED <<stage, lockVars, powerVars>>

(* The result of set_configuration is logged and forgotten.                *)
StartConfigFails(r) ==
    /\ "ConfigFails" \in Env
    /\ irp[r].kind = "start" /\ irp[r].pc = "below" /\ Wanted
    /\ excused' = ~dev.configured
    /\ Goto(r, "finish")
    /\ UNCHANGED <<dev, stage, lockVars, powerVars>>

StartFinishes(r) ==
    /\ irp[r].kind = "start" /\ irp[r].pc = "finish"
    /\ dev' = [dev EXCEPT !.started = TRUE]
    /\ stage' = "started"
    /\ Release
    /\ Complete(r)
    /\ UNCHANGED <<excused, powerVars>>

Stop(r) ==
    /\ irp[r].kind = "stop" /\ irp[r].pc = "in"
    /\ dev' = [dev EXCEPT !.started = FALSE]
    /\ stage' = "stopped"
    /\ Release
    /\ Complete(r)
    /\ UNCHANGED <<excused, powerVars>>

\* Mutant: requests are still let in after a surprise removal.
SurpriseGoesOn(r) ==
    /\ irp[r].kind = "surprise" /\ irp[r].pc = "in"
    /\ Goto(r, "finish")
    /\ UNCHANGED <<dev, excused, stage, lockVars, powerVars>>
SurpriseStops(r) ==
    /\ irp[r].kind = "surprise" /\ irp[r].pc = "in"
    /\ dev' = [dev EXCEPT !.started = FALSE]
    /\ Goto(r, "finish")
    /\ UNCHANGED <<excused, stage, lockVars, powerVars>>

SurpriseFinishes(r) ==
    /\ irp[r].kind = "surprise" /\ irp[r].pc = "finish"
    /\ dev' = [dev EXCEPT !.enabled = @ /\ ~dev.interface, !.interface = FALSE,
                          !.configured = FALSE]
    /\ stage' = "surprised"
    /\ Release
    /\ Complete(r)
    /\ excused' = FALSE
    /\ UNCHANGED powerVars

(* Without LateIoctl no thread is between the check of is_started and the  *)
(* lock when is_started is reset.                                          *)
RemoveStops(r) ==
    /\ irp[r].kind = "remove" /\ irp[r].pc = "in"
    /\ "LateIoctl" \notin Env => \A q \in Irps : irp[q].kind = "ioctl" => irp[q].pc = "in"
    /\ dev' = [dev EXCEPT !.started = FALSE,
                          !.enabled = @ /\ ~(dev.interface /\ dev.started)]
    /\ Goto(r, "mark")
    /\ UNCHANGED <<excused, stage, lockVars, powerVars>>

\* Mutant: the removal waits without keeping later requests out.
RemoveDoesNotMark(r) ==
    /\ irp[r].pc = "mark"
    /\ Goto(r, "drop")
    /\ UNCHANGED <<dev, excused, stage, lockVars, powerVars>>
(* remove_lock_release_and_wait: gives up its own lock and the initial one. *)
RemoveMarks(r) ==
    /\ irp[r].pc = "mark"
    /\ pending' = TRUE
    /\ Goto(r, "drop")
    /\ UNCHANGED <<dev, excused, stage, usage, event, late, powerVars>>

\* Mutant: the removal gives up its own lock but not the initial one.
RemoveDropsOnce(r) ==
    /\ irp[r].pc \in {"drop", "dropped"}
    /\ Release
    /\ Goto(r, "wait")
    /\ UNCHANGED <<dev, excused, stage, powerVars>>
RemoveDrops(r) ==
    /\ irp[r].pc \in {"drop", "dropped"}
    /\ Release
    /\ Goto(r, IF irp[r].pc = "drop" THEN "dropped" ELSE "wait")
    /\ UNCHANGED <<dev, excused, stage, powerVars>>

(* The event has come: the device is deleted.                              *)
RemoveDeletes(r) ==
    /\ irp[r].pc = "wait" /\ event
    /\ dev' = [dev EXCEPT !.configured = FALSE]
    /\ stage' = "absent"
    /\ Complete(r)
    /\ UNCHANGED <<excused, lockVars, powerVars>>

(***************************************************************************)
(* Power.  One device and one system request are under way at a time.      *)
(* Device requests come from the driver itself (posted) or, when it is a   *)
(* filter, from the function driver.                                       *)
(***************************************************************************)
PowerArrives(r, kind, to, by) ==
    /\ stage # "absent" /\ ~Busy({kind, "start"})
    /\ irp[r].pc = "idle"
    /\ irp' = [irp EXCEPT ![r] = [kind |-> kind, pc |-> "acquire", to |-> to, by |-> by]]
    /\ UNCHANGED <<dev, excused, stage, lockVars, reported, misled>>

PostedPowerArrives(r) ==
    /\ posted # <<>>
    /\ PowerArrives(r, "device", Head(posted).to, Head(posted).by)
    /\ posted' = Tail(posted)

(* The system goes on to another state when the devices are in theirs.     *)
SystemPowerArrives(r, to) ==
    /\ posted = <<>> /\ ~Busy({"device"})
    /\ to # dev.system
    /\ PowerArrives(r, "system", to, NoIrp)
    /\ UNCHANGED posted

FunctionDriverPowers(r, to) ==
    /\ dev.filter /\ to # dev.device
    /\ PowerArrives(r, "device", to, NoIrp)
    /\ UNCHANGED posted

(* A request for a device that is gone does not reach the driver.          *)
PostedPowerIsLost ==
    /\ stage = "absent" /\ posted # <<>>
    /\ posted' = Tail(posted)
    /\ irp' = [q \in Irps |-> IF q = Head(posted).by THEN Idle ELSE irp[q]]
    /\ UNCHANGED <<dev, excused, stage, lockVars, reported, misled>>

\* Mutant: the manager learns of any new power state before the request goes down.
AnyPowerPassesDown(r) ==
    /\ irp[r].kind \in PowerKinds /\ irp[r].pc = "in"
    /\ reported' = IF irp[r].kind = "device" THEN irp[r].to ELSE reported
    /\ Goto(r, "below")
    /\ UNCHANGED <<dev, excused, stage, lockVars, posted, misled>>
(* The manager learns of less power before the request goes down.          *)
SetPowerPassesDown(r) ==
    /\ irp[r].kind \in PowerKinds /\ irp[r].pc = "in"
    /\ reported' = IF irp[r].kind = "device" /\ irp[r].to > dev.device
                   THEN irp[r].to ELSE reported
    /\ Goto(r, "below")
    /\ UNCHANGED <<dev, excused, stage, lockVars, posted, misled>>

(* ... and of as much or more after it has come back.                      *)
DevicePowerIsSet(r) ==
    /\ irp[r].kind = "device" /\ irp[r].pc = "below"
    /\ reported' = IF irp[r].to <= dev.device THEN irp[r].to ELSE reported
    /\ dev' = [dev EXCEPT !.device = irp[r].to]
    /\ Release
    /\ Complete(r)
    /\ misled' = FALSE
    /\ UNCHANGED <<excused, stage, posted>>

(* The policy owner then sets the device state that goes with it.          *)
SystemPowerIsSet(r) ==
    /\ irp[r].kind = "system" /\ irp[r].pc = "below"
    /\ dev' = [dev EXCEPT !.system = irp[r].to]
    /\ posted' = IF dev.filter \/ dev.disallow THEN posted
                 ELSE Append(posted, [to |-> DevicePowerState(irp[r].to), by |-> NoIrp])
    /\ Release
    /\ Complete(r)
    /\ UNCHANGED <<excused, stage, reported, misled>>

(* A failed request changes nothing, but of less power the manager has been *)
(* told already.                                                           *)
PowerFails(r) ==
    /\ "PowerFails" \in Env
    /\ irp[r].kind \in PowerKinds /\ irp[r].pc = "below"
    /\ misled' = (misled \/ (irp[r].kind = "device" /\ irp[r].to > dev.device))
    /\ Release
    /\ Complete(r)
    /\ UNCHANGED <<dev, excused, stage, posted, reported>>

(***************************************************************************)
(* The specification.                                                      *)
(***************************************************************************)
Lock(r) == AcquireIncrements(r) \/ AcquireSucceeds(r) \/ AcquireFails(r) \/ FailedIoctlReleases(r)

Pnp(r) ==
    \/ CapabilitiesPassDown(r) \/ on_query_capabilities_complete(r)
    \/ StartPassesDown(r) \/ StartConfigures(r) \/ StartConfigFails(r) \/ StartFinishes(r)
    \/ Stop(r) \/ SurpriseStops(r) \/ SurpriseFinishes(r)
    \/ RemoveStops(r) \/ RemoveMarks(r) \/ RemoveDrops(r) \/ RemoveDeletes(r)

Power(r) ==
    SetPowerPassesDown(r) \/ DevicePowerIsSet(r) \/ SystemPowerIsSet(r) \/ PowerFails(r)

Arrival(r) ==
    \/ IoctlArrives(r) \/ CreateArrives(r)
    \/ \E kind \in PnpKinds : PnpArrives(r, kind)
    \/ \E to \in SystemStates : SystemPowerArrives(r, to)
    \/ \E to \in {D0, D3} : FunctionDriverPowers(r, to)

Attach == \E d \in Devices : AddDevice(d)

Next ==
    \/ Attach
    \/ PostedPowerIsLost
    \/ \E r \in Irps : Arrival(r) \/ PostedPowerArrives(r) \/ Lock(r) \/ IoctlConfigures(r)
                      \/ IoctlEnds(r) \/ Pnp(r) \/ Power(r)

Spec == Init /\ [][Next]_vars

(* Threads run, the lower driver completes what it was sent, and the power *)
(* manager delivers what it was asked for; it has packets of its own, which *)
(* the bound on Irps must not take from it, hence strong fairness.         *)
FairSpec ==
    /\ Spec
    /\ \A r \in Irps : WF_vars(Lock(r) \/ IoctlEnds(r) \/ Pnp(r) \/ Power(r))
    /\ WF_vars(PostedPowerIsLost)
    /\ SF_vars(\E r \in Irps : PostedPowerArrives(r))

(***************************************************************************)
(* Properties.                                                             *)
(***************************************************************************)
TypeOK ==
    /\ dev \in [started : BOOLEAN, configured : BOOLEAN, filter : BOOLEAN,
                disallow : BOOLEAN, interface : BOOLEAN, initial : BOOLEAN, enabled : BOOLEAN,
                capabilities : BOOLEAN, device : DeviceStates, system : SystemStates]
    /\ stage \in Stages
    /\ usage \in Int /\ pending \in BOOLEAN /\ event \in BOOLEAN
    /\ irp \in [Irps -> [kind : Kinds, pc : Pcs, to : DeviceStates \cup SystemStates,
                         by : Irps \cup {NoIrp}]]
    /\ posted \in Seq([to : DeviceStates, by : Irps \cup {NoIrp}])
    /\ reported \in DeviceStates
    /\ late \in Nat /\ misled \in BOOLEAN /\ excused \in BOOLEAN

(* "wait until all outstanding requests are finished" (pnp.c, REMOVE): a   *)
(* request that got the lock is not in the driver any more once the device *)
(* may be deleted.                                                         *)
RemoveWaits ==
    (stage = "absent" \/ \E r \in Irps : irp[r].pc = "wait" /\ event) => Holders = {}

(* Each ioctl that releases a lock it does not have lets the removal begin *)
(* below one request, and nothing else does.                               *)
RemoveWaitsBarLate ==
    (stage = "absent" \/ \E r \in Irps : irp[r].pc = "wait" /\ event)
        => Cardinality(Holders) <= late

(* The power manager never takes the device for one with more power than   *)
(* the driver has saved, and knows that state whenever no device power     *)
(* request is at the lower driver.  Only a request to power down that has  *)
(* failed misleads it, since it is reported before it goes down, and only  *)
(* until the next one that goes through, or the next start.                *)
PowerReported ==
    stage # "absent" =>
        /\ reported >= dev.device
        /\ ~misled /\ (\A r \in Irps : ~(irp[r].kind = "device" /\ irp[r].pc = "below"))
             => reported = dev.device

(* Requests are let into a device that is not a filter and asks for a      *)
(* configuration only while one is selected, unless selecting it has       *)
(* failed or a program has taken it back: start selects first and then     *)
(* lets requests in, removal keeps them out first and then drops it.       *)
StartedIsConfigured ==
    dev.started /\ ~dev.filter /\ dev.initial /\ ~excused => dev.configured

(* A removal that has begun deletes the device: the count does come to     *)
(* zero and nothing that holds the lock waits for the removal.             *)
RemoveCompletes == Busy({"remove"}) ~> stage = "absent"

(* Opening a device that is powered down returns, also when the device is  *)
(* removed meanwhile.                                                      *)
CreateReturns == Busy({"create"}) ~> ~Busy({"create"})
=============================================================================

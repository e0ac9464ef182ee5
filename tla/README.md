# MacroRail in TLA+

MacroRail drives a macro rail for focus stacking: a Pololu TIC stepper
controller moves a Nikon camera step by step, and the camera takes one frame
per step. The program is a WinForms application (C#). The repository also holds
the USB stack it was built with, libusb-win32 (C): a kernel driver
`libusb0.sys`, a library `libusb0.dll`, an installer and a benchmark. This
directory holds TLA+ modules that model the core of both, TLC configurations
that check them, and proofs checked by TLAPS.

Check a run with `tlc -workers 2 -config <run>.cfg <module>` (the module of each
run is in the table below), the proofs of a module with `tlapm <module>.tla`.

## Inventory

Paths of libusb-win32 are below `src/libusb/libusb-win32-master/libusb/`.

| Component | State | Operations | Modelled by |
|---|---|---|---|
| Shoot sequence (`Main.cs`, `Shoot.cs`) | `shoot.sequence_status`, `pause_previous_state`, `current_shot`, `current_position`, `delay_counter`, `timerProject`, the three buttons, the log | `timerProject_Tick`, Start, Pause, Stop | `ShootSequence` |
| Camera callbacks (`Main.cs`) | `_devices`, `downloaded_*` flags, image files | DeviceAdded, DeviceRemoved, ImageReady, CaptureComplete, `ImageCapture` | `ShootSequence` |
| TIC protocol (`TicDotNet.cs`) | `vars`, `status_vars`, the device | USB control transfers, the two waits | `TicDevice` (what a shoot uses) |
| TIC panel (`Main.cs`) | `tic_connected`, `moving`, `homing`, whether Start, Stop and Pause are enabled | connect, resume, de-energize, jog, go to start, set start, `timerTIC_Tick` | the poll only, in `TicDevice` |
| Project files, start dialog, camera settings and live view, rail settings, depth of field, NEF reader, about box, designer code | controls, text fields, camera capabilities | | not modelled |
| Driver: life of a device (`src/driver/` `libusb_driver.c`, `dispatch.c`, `pnp.c`, `power.c`, `ioctl.c`) | the device extension, the remove lock, requests in the driver | attach, plug and play, power, open, ioctl | `UsbDriver` |
| Driver: configuration and pipes (`src/driver/`, one file per request) | `dev->config`: cached descriptor, pipes and claims of interfaces | set and get configuration and interface, claim, release, reset | `DeviceConfig` |
| Driver: transfers (`src/driver/transfer.c`) | the main request, its stages, their list and reference counts | split, send, complete, cancel | `LargeTransfer` |
| Driver: control requests (`src/driver/`, `ioctl.c` and one file per request) | none | check buffers, build the packet for the device | `UsbHandle` |
| Library: device handles (`src/windows.c`) | `usb_dev_handle`: configuration, claimed interface, alternate setting | open, close, claim, set, reset, control message | `UsbHandle` |
| Library: asynchronous transfers (`src/windows.c`) | contexts | set up, submit, reap, cancel, free | `Benchmark` |
| Library: device list and descriptors (`src/usb.c`, `src/descriptors.c`, `src/windows.c`) | `_usb_busses`, `bus->devices`, children of the hub | `usb_find_busses`, `usb_find_devices`, the parsers | `DeviceList`, `Descriptors` |
| Benchmark (`examples/benchmark.c`) | the test, its threads, their rings | thread and main loops | `Benchmark` |
| Installer (`src/install.c`, `src/registry.c`) | registry keys of classes and devices, the kernel service | install and remove filters and inf files | `FilterInstall` |
| Installer dialogs, errors and dynamic loading, test programs, libwdi | | | not modelled |

**How they interact.** In MacroRail everything runs on one user interface
thread. Two timers of 100 ms (`timerProject`, `timerTIC`), the buttons and the
camera's callbacks are dispatched by its message loop. A handler gives up the
thread only in a modal box or in the `DoEvents` loop of `buttonPause_Click`;
then other handlers run *inside* it. In a `Thread.Sleep` loop (the two waits of
`TicDotNet.cs`) nothing else runs but the hardware. A control transfer to the
controller passes through LibUsbDotNet, which is not in the repository, to the
driver of libusb-win32.

In libusb-win32 a program calls the library, and the library sends ioctls to the
driver, where they run on the threads of the programs. The plug and play manager
and the power manager send it their requests on threads of their own, and the
host controller's driver calls its completion routines. Only a transfer's list of
stages is guarded by a spin lock; the rest of the driver's data by nothing but
the remove lock, which counts requests. The installer runs alone, but
everything it changes outlives it.

**What is hard.** In MacroRail: handlers nested in boxes and in the pause loop, in
an order no test has; the status read before and used after such a nesting; the
timer switched on and off by eight handlers; images and capture-complete that
arrive late or not at all; transfers that are lost without anybody looking at the
result; a controller that stops with an error in the middle of a move. In
libusb-win32: removal and power changes below running requests; a cache and
tables that a blocked thread fills in after others have gone on; memory shared by
completion and cancellation; handles and lists that describe a device as it was;
an installer killed in the middle. `PROJECT.json` lists these as hazards, each at
its line, with the properties that would catch it.

**What makes each component correct.**
- Sequence: frames are neither skipped nor repeated, each one is exposed at its
  place, after the delay; a pause holds; a shoot ends, at home, and says so; the
  tick is never re-entered.
- Camera: a shot counts as downloaded when its files are on the disk.
- Controller: the rail is not sent outside the stack; no wait blocks for ever.
- Life of a device: it is not deleted below a request; removal and opening end;
  the power manager never takes the device for one with more power than it has, and
  errs otherwise only after a power-down that has failed; an installed device that
  asks for a configuration has it when requests are let in, unless it could not be
  selected or a program has taken it back.
- Configuration: a request that names an endpoint goes to a pipe the device has;
  the cached descriptor is that of the active configuration; no claim outlives
  its file.
- Transfers: every stage is freed once and after its last use, the main request is
  completed once and last; nothing is lost but what came with a stage that failed or
  could not be mapped, and the rest is in order; a cancellation ends it.
- Handles and messages: what a handle believes of configuration and claims is what
  the driver has; a control message reaches the device as the program gave it, with
  the lower halves of its value and index.
- Device list: it holds what is there, and descriptors are parsed as the device
  means them.
- Benchmark: nothing is freed that the driver still owns; results come in order;
  a test ends, and only for a reason.
- Installer: filters of other drivers survive; no device needs a service that does
  not exist; what runs is what the registry says, and an installation repairs what an
  earlier one left behind, but for devices whose state Windows did not change.

## Modules

### MacroRail

`TicDevice` is the controller as the host sees it: the motor (`rail`), its
`target`, the operation state `op`, the latched error bits and the host's last
copy of them (`polled`). The firmware is not in the repository; `RailStep`,
`TicFails` and `TicStartsUp` are what `TicDotNet.cs` relies on. The host's calls
are operators: `SetTarget`, `ClearErrors` (`clear_driver_error` and
`exit_safe_start`), `GetVariables`, and the conditions at which the two waits
return. `Transfer` loses a transfer under `UsbError`: an OUT transfer has no
effect and its result is dropped (of the two in `ClearErrors` either may be lost
alone), an IN transfer leaves a zeroed buffer, which reads as state `RESET`,
position 0, target 0 and no error, or throws, leaves no buffer at all and ends
its handler (`WaitThrows`, `PollThrows` of `ShootSequence`). Connecting clears no
bits of old errors, so `TicInit` allows any, read by the host or not. Under
`TicError` the controller may also report the input states that end a wait for a
move (`MayHalt`).

`ShootSequence` extends it with the user interface thread. One action is one
handler, or the part of it up to the next place where it gives up the thread:
- `wait` names the blocking wait the thread is in (`startMove`, `moveReady`,
  ...). No handler runs then; `StartMoveDone`, `MoveReady`, `MoveDone`,
  `EndReady` and `EndMoveDone` are the continuations.
- `stack` holds the suspended handlers, innermost first: boxes (`trigger`,
  `completed`, `startDialog`, ...) and `pause`, the `DoEvents` loop. Only the top
  one can return. Below a modal box the form is disabled (`FormActive`), below
  `pause` it is not, so a second click on Pause nests.
- Each case of the switch in `timerProject_Tick` is an action `Tick...`. The
  cases Shooting, Moving and Paused do nothing and have none.
- `camera` is the camera with the exposure in flight: the images still to come
  and whether capture-complete is outstanding. `photos`, `files` and `settled` are
  history: what has been exposed, where and how long after the last
  movement, and what has been written.

`Env` selects which disturbances may happen (listed in `TicDevice`), so that each
run says exactly under which assumptions its properties hold.

`FocusStack` is the abstract promise: frames one after the other, the k-th one
k - 1 steps behind the start, then home. `ShootIsFocusStack` is the refinement:
`place` is the motor's position, `stackOf` the places of the exposures, `phase` is
computed from the status (the one to resume, while paused) and the wait.

`MCShootSequence` gives the start positions for TLC. `ShootSequenceProofs` holds
the theorems: first those about the handlers, the pauses and the presses of the Pause
button, which allow nearly every disturbance, then those about the frames of a
shoot and the refinement, which do not.

Decisions a reader should know:
- A failed capture: `NikonException` is caught and reported, so `ExposesNothing`
  leaves the status at Shooting, as the code does.
- `Restart` is the second press of Start; without it Start is pressed only while
  the project timer is off.
- Image arrival: without `LateImages` all images of an exposure come before its
  capture-complete; the camera library orders them, the program does not.
- An unhandled exception in a handler is shown by WinForms in a box (`exception`,
  and `fault` where a transfer threw), after which the message loop goes on. Quit
  in that box ends the program and is not modelled.
- `SaveError` also stands for a directory that cannot be created: the callback then
  throws before it saves anything (`NoDirectory`).
- The position is exact: `TravelAssumption` says the whole travel fits 32 bits.

### The driver and the library of libusb-win32

`UsbDriver` is the life of one device in the driver. A member of `Irps` is a
request packet with the kind of its request and where its thread is (`pc`); every
access to the remove lock is a step of its own (`AcquireIncrements`,
`AcquireSucceeds`, `AcquireFails`, `RemoveMarks`, `RemoveDrops`, `RemoveDeletes`).
`dev` is the device extension, `stage` what the plug and play manager has made of
the device, `posted` and `reported` the power manager's queue and knowledge.
The manager sends one plug and play request at a time, in the order of its own
states; one device and one system power request are under way at once.
`late` counts the ioctls that have released a lock they did not hold.
Three steps are failures the code passes over, or recovers from too late:
`StartConfigFails` (the result of `set_configuration` in `on_start_complete` is
logged, and the device is started all the same), `PowerFails` (a device or system
power request, up or down, fails below) and `IoctlConfigures` with configuration 0
(a program takes the configuration back). The histories `excused` and `misled` say that
a device is without a configuration for one of these reasons, and that the manager
has been told of a power-down that has failed since.

`DeviceConfig` is what the driver remembers of one device's configuration. A
request that talks to the device has two or more steps, `SetConfiguration`,
`Fetched`, `Selects`, `RecordConfiguration` for example; between them the thread is
blocked in `call_usbd` and others go on. `chip` is the device itself: its
configuration, alternate settings and the handle of its present pipes.
`BulkRead(address)` and its neighbours are the look-ups by which the requests
that name an endpoint find their pipe; they are sets, empty where the code
returns an error. `Fetched` stands for all the calls by which a descriptor is
read: between them the request touches nothing that is shared.

`LargeTransfer` is one transfer. `main` is the main request with its thread
(`Build`, `SetCancelRoutine`, `Send`) and its cancellation, `stages` the split
requests, `list` `mainRequestContext->SubRequestList`. What a completion routine
does under the cancel spin lock is one step (`large_transfer_complete`), what it
does after it is several (`ShortWalks`, `ShortCancels`, `DropReference`, `Finish`).
The data is counted in units; `buffer` says which unit of the device ended up where.
A stage that fails or is cancelled may have brought data, which its completion
routine does not look at (`StageFails`), and units that must be moved are dropped
when the buffer cannot be mapped (`MappingFails`); the main request is completed
with success all the same. `lost` counts what is lost in these two ways.

`UsbHandle` has a program's handle (`handle`) on one side and the driver's record
(`drv`) on the other; a call of the library is one step. `disturbed` remembers the
handles whose device another program, a reset or a control message has
configured behind their back. Its second half is pure: `usb_control_msg` turns
a message into an ioctl, `dispatch_ioctl` checks the buffers, the handler makes a
packet of it, and `Sent` is the composition; values and indices are cut to the
width of the fields they pass through (`UCHAR`, `USHORT`). The descriptors that
`set_configuration` fetches from the device are `DeviceConfig`'s.

`Benchmark` is the benchmark with the asynchronous transfers of the library below
it: `th` is where each thread is, `ring` its transfers, `wire` those in the driver.
`Reap`, `ReapTimesOut` and `ReapFails` are the outcomes of
`usb_reap_async_nocancel`; `CancelSlot`, `SlotDrained` and `FreeSlot` the loop at
the end of a thread. A transfer that is aborted counts as a timeout and not as an
error, as `errno` has it. `ResetRunningStatus` is the R key: the main thread zeroes the
count of timeouts, also between the increment and the comparison in the other
thread (`TimeoutCounted`); the history `cleared` says that it did so to a thread that
had run out of retries.

`Descriptors` is the parser of configurations as operators: a buffer is a sequence
of descriptors, and a loop of the parser is a function that gives the state after
each of its rounds. `Flat` is the reference, the buffer a device sends for a
configuration. An alternate setting that meets a descriptor of a device or a
configuration before its endpoints is left with a pointer to them that was never
set (`wild`), although their number is not 0; what a program finds there is not
modelled. `DeviceList` is `usb_find_devices`, name by name and request by
request, while devices are plugged in and out.

`FilterInstall` is the installer: one action per item a command works on (a class,
a device), so that `Killed` may come after any change. `uppers` and `dev` are the
registry and the state of the devices, `loaded` what Windows has put into the
stack of a device. `usb_registry_set_device_state` may fail and no caller looks at
its result (`State`); a command works on the devices that were there when it listed
them (`listed`), while others come and go (`Plug`, `Unplug`). The history `missed` says
that a device has kept an old state for one of these reasons. An inf file that
cannot be used ends a command with an error (`inf_fails`), a driver that cannot be
updated goes unnoticed (`Updated`). The restart of the root hubs, which takes
with it everything below them, is the restart of all devices (`AllRestarted`).

`MCUsbDriver`, `MCDeviceConfig`, `MCUsbHandle`, `MCBenchmark`, `MCDeviceList` and
`MCFilterInstall` give the constants for TLC; `LargeTransfer` needs none.
`UsbDriverProofs`, `DeviceConfigProofs`, `LargeTransferProofs`, `UsbHandleProofs`,
`BenchmarkProofs`, `DeviceListProofs` and `FilterInstallProofs` hold the theorems.

What lies outside the repository is assumed as follows:
- The plug and play manager orders its requests as `Sends` says, and asks for
  capabilities before the first start. Whether it starts a stopped device again
  before it removes it does not matter (`RemoveStopped`).
- The host controller's driver runs the completion routines of one transfer one
  after the other (`Parallel` drops that), completes the stages of a pipe in their
  order, and gives a device its configuration back after a port reset.
- The configuration values of a device are distinct, and a descriptor's length is
  the true one or less than two.
- A power request that fails has changed nothing in the device, and a call of the
  bus driver that fails has not configured it.
- The installer uninstalls only devices that have no filters of other drivers, and
  no command names both classes and devices.

## Runs

| Run | Module | Disturbances | States | Properties |
|---|---|---|---|---|
| `auto_camera` | `MCShootSequence` | pause, failing capture, save, directory and log, late images, camera unplugged, bits of old errors | 2204900 | `TypeOK` `PhotosInOrder` `PhotosAtPosition` `PhotosSettled` `TravelBounded` `PauseHolds` |
| `auto_pause` | `MCShootSequence` | pause, bits of old errors | 6155 | `DownloadedIsSaved` `CompletedIsComplete` `ShootIsFocusStack` `ShootCompletes` `PauseTakesEffect` |
| `dry_run` | `MCShootSequence` | pause, stop, lost and throwing transfers | 1425567 | `PausePauses` `Responsive` |
| `manual` | `MCShootSequence` | pause, second Start, controller errors and halts, lost and throwing transfers | 1545119 | `TickNotReentered` |
| `driver` | `MCUsbDriver` | power requests and the initial configuration fail, programs select configurations and take them back, ioctls come too late, a stopped device is removed | 1183237 | `RemoveWaitsBarLate` `PowerReported` `StartedIsConfigured` `RemoveCompletes` `CreateReturns` |
| `driver_config` | `MCDeviceConfig` | failing calls | 170050 | `PipesReachDevice` `CacheIsCoherent` `ClaimsAreOfOpenFiles` |
| `transfer` | `LargeTransfer` | short, failing and cancelled stages with and without data, failing mappings | 1515571 | `FreedOnceAfterUse` `MainOutlivesStages` `InOrderIfEven` `NothingElseIsLost` `CancelEnds` |
| `handle` | `MCUsbHandle` | another program, resets, control messages | 2740 | `HandleIsCurrent` `ClosedHoldsNothing` `MessagesAreTransparent` |
| `benchmark` | `MCBenchmark` | failing, aborted, short and missing transfers, counters zeroed, an early quit | 462713 | `FreedIsIdle` `RingInOrder` `CancelledForReason` `TestEnds` |
| `filters` | `MCFilterInstall` | killed commands, failing writes, service calls and inf files, devices that do not change their state, devices that come and go during a command | 7461442 | `ForeignFiltersSurvive` `FilterHasService` `LoadedMatchesRegistry` `InstallRepairs` |
| `devices` | `MCDeviceList` | devices come, go and refuse requests | 2002914 | `ConfigsAreOfDevice` `ListIsCurrent` |
| `v_short_read` | `LargeTransfer` | as `transfer` | | `InOrder`, violated |

What they show:
- `auto_camera`: no frame is skipped, repeated, misplaced or taken before the rail
  has settled, and a paused shoot goes on only by Resume, or as a
  new one.
- `auto_pause`: files are complete when a shot counts as downloaded, and the rail is
  home when the shoot says it is done; the shoot is a focus stack; it completes
  unless paused; every pause takes effect.
- `dry_run`: a press of Pause pauses, also in the next shoot, and no wait hangs.
- `manual`: the tick is never entered below one of its own boxes.
- `driver`: removal waits for the requests it must wait for, up to the ioctls that
  came too late; the manager is misled about power only by a power-down that has
  failed, and only towards less power, until the next request that goes through;
  requests are let into a device that asks for a configuration only with one
  selected, unless selecting it has failed or a program has taken it back; removal
  and opening end.
- `driver_config`: requests that name an endpoint reach a pipe the device has; cache
  and claims are right.
- `transfer`: every stage is freed once and after its last use, the main request
  outlives all of them; all that has come is reported, but for what came with a
  stage that failed or could not be mapped, and if the stages are of one size it is
  in order; a cancellation ends the transfer even if the device is mute.
- `handle`: a handle nobody has disturbed is right, a closed one holds nothing, and a
  control message reaches the device as it was given, with the lower halves of its
  value and index, or not at all.
- `benchmark`: no transfer is freed in the driver, the ring is a queue after
  timeouts and errors too, a test ends only because a thread has run out of retries
  or the user says so, and its end ends every thread.
- `filters`: filters of others survive, no device needs a service that is not there,
  every change is followed by the restart it needs, and an installation starts
  what an earlier one left stopped; the last two leave out the devices that Windows
  did not stop, start or restart, or that were away when they were listed.
- `devices`: the list is right for every device that was there all the time and
  answered, and a sound configuration is parsed as the device means it, with every
  pointer to endpoints set.
- `v_short_read`: in a read of five units in stages of two, the first of which is
  short, the last stage is moved from the wrong place, since its `startOffset`
  was advanced by the size of the next stage (`transfer.c` 764). The comment at
  line 1070 says the data is moved to its correct location.

Deadlock is checked except in two runs. In `manual`, when the controller has failed
and the command that clears the error is lost, `wait_for_device_ready` never
returns and the program really hangs. In `benchmark` the program ends.

### Bounds

*Shoot sequence.* Three start positions (behind, at and in front of the start).
Two shots have a first and a last frame and a move between them; three also have
a frame with a move before and after it. Two steps per move make a rail in the
middle of a move visible; `manual`, which does not look at the rail, has one. The
delay is one second, ten ticks, except in `manual`, where there is none.
`MaxPending` bounds only how many handlers may be suspended when a *button* is
pressed; boxes opened by ticks and callbacks are bounded by the shoot itself.
With one, a pause loop is nested in nothing; with two, a second click nests in
the first; the third adds no new kind of nesting and is run where it is cheap.

*Driver.* Three request packets: two that interfere and a third that is removed,
powered or refused meanwhile. The devices are one the driver was installed for,
one that it filters, and a hub, to which it does not attach; a device without an
initial configuration and one whose power the driver leaves to the framework do
less than these, and are left to the proofs, which hold for every device. One
thread at a time waits in an opening.

*Configuration.* Two threads, two files; two configurations with two interfaces,
one of them with two alternate settings, and two endpoints; `MaxSelects` is the
number of times the device is given new pipes. Three let one request replace
what another one has replaced before.

*Transfer.* Stages of two units: lengths 2 (one packet, no stages), 5 (three
stages, the last shorter), 6 (three even stages) and 7 (four stages). A stage that
fails brings nothing, a part, or all of its two units.

*Handle.* Two programs, two configurations, and messages with every length at
a limit of a check in the code (0, 1, 2, the largest payload and the largest
length), with the true `sizeof(libusb_request)` and `LIBUSB_MAX_READ_WRITE`.

*Benchmark.* A ring of three with one thread, two threads with a ring of one, two
synchronous threads; one retry; two submissions per synchronous transfer.

*Filters.* Two classes with a device each, one with a filter of another driver in
the class, the other one with one at the device; seven command lines, one for
each way through an installation and a removal, in any order and number; lists of
at most two.

*Devices.* Two names; three sound products (one with extra descriptors, alternate
settings and two interfaces, one with two configurations, one with none) and five
with wrong numbers.

### Fairness

`FairSpec` of `ShootSequence` assumes weak fairness of the message loop (ticks,
continuations, callbacks), of the motor and the controller's start-up, and of a
user who answers boxes; nobody is made to press a button. The timers are
periodic and the Win32 queue is served in order, which justifies it. The return
of the pause loop is strongly fair: boxes opened inside a call of `DoEvents`
disable it for a while, but a call handles only what is queued, and then the loop
looks at its condition. Under `UsbError` the wait for a move ends because a lost
status read ends it or because the motor arrives; the wait for readiness ends
because it reads the status again and again and not every read is lost.

In `UsbDriver` every thread in the driver runs on and the lower driver completes
what it is sent, with success or without (weak fairness of each packet's steps;
no ioctl need arrive). The power manager sends
the requests the driver has asked it for; it has packets of its own, which the
bound on `Irps` must not take from it, hence strong fairness there.

In `LargeTransfer` the thread and the completion routines run on, and the lower
driver completes what is cancelled. Nothing makes it complete anything else: a
device may never answer.

In `Benchmark` threads run and their waits time out, what is aborted ends, and the
main thread looks again and again. No transfer need end by itself and the
user need not press a key, nor is kept from pressing R for ever.

### Where the properties end

What the code does not guard against is left out of a run's `Env`. Added to the
`Env` of the run that checks the property, these disturbances break it.

MacroRail:
- Late images (`LateImages`): a shot counts as downloaded with files missing
  (`DownloadedIsSaved`), since `device_CaptureComplete` joins three comparisons
  by `^` (`Main.cs` 895) and one agreement counts as all.
- `SaveError`: the same, since the result of `SaveImageDirectory` is ignored
  (`Main.cs` 739).
- `Restart`: `CompletedIsComplete` fails, since the capture-complete of the old
  exposure advances the new shoot.
- `TicError`: a controller error ends the wait for a move and the next frame is
  exposed at the wrong place (`PhotosAtPosition`).
- `PausePauses` fails for a shoot that exposes by itself: a pause loop that waits for
  an exposure can return after the end of the shoot and leave Resume on the
  button, so that the first press in the next shoot resumes what is over. With
  `Stop` and `Unplug` it fails in a dry run as well, by the pause for the camera.
- Cancel in the trigger box ends a manual shoot with state End and the timer off: no
  return to the start, no box. With `LogError`, "Cancelling shoot" leaves the
  state Start without a timer. A shoot without a log after one with a log flushes
  the closed writer at its end, and the exception replaces the completion box.
- A camera that is removed during a pause makes Paused the state to resume: Resume then
  leads nowhere. `PauseHolds` says who ends a pause and holds of this one too.
- A lost status read ends the wait for a move, and a transfer that throws ends its
  handler, with the shoot left in Moving (`UsbError`). `Responsive` says that no wait hangs;
  where the rail is then, no property says.
- The rail moves StepCount - 1 times, while `src/README.md` line 106 speaks of
  StepCount steps.

libusb-win32:
- `LateIoctl`: `RemoveWaits`, the promise of the remove lock without the allowance for
  late ioctls, fails: an ioctl whose acquire fails releases the lock as well.
- A power-down that fails below has been reported before (`power.c` 74), and the manager
  believes it until the next request that goes through. `PowerReported` allows this and
  no other error.
- A device whose initial configuration could not be selected is started without one
  (`pnp.c` 227-245). `StartedIsConfigured` excuses this, and a program that selects
  configuration 0 or resets the device.
- The bytes of a stage that failed or was cancelled, and of one whose buffer could not
  be mapped, are dropped, and the main request reports success with the rest
  (`transfer.c` 999-1017, 1054-1061). `NothingElseIsLost` and `InOrderIfEven` are
  about the rest.
- `Concurrent`: two overlapping changes of the configuration leave the tables with
  handles the device does not have (`PipesReachDevice`).
- `LateCancel`: a cancellation between the check of `Cancel` and the setting of the
  routine is lost (`CancelEnds`).
- `Parallel`: with completion routines on two processors the main request can be
  completed before a stage is done (`MainOutlivesStages`).
- `AbortFails`: context and buffer are freed below the driver (`FreedIsIdle`).
- `SlowStart`: a thread that starts late is taken for one that has ended
  (`CancelledForReason`).
- After the R key a test can be cancelled for a thread whose count of timeouts reads 0
  (`benchmark.c` 1152); `CancelledForReason` allows it if the thread had run out before.
- `CreateFails`, `OldHangs`: a failed creation of the service goes unnoticed; the wait
  for the old service to stop resets its own time-out. Lists longer than the
  buffer read as empty and lose the filters of others.
- A device that Windows did not stop, start or restart, or that is plugged in again,
  disabled, after the installer has listed those that are there, stays as it was although
  the command returns 0 (`registry.c` 652, 785). `LoadedMatchesRegistry` and
  `InstallRepairs` leave these out (`missed`).
- `Replug`: a device replaced by another one under the same name during
  `usb_find_devices` gets a mixture of both (`ConfigsAreOfDevice`).
- A device that replaces another one of the same ids between two calls keeps the
  entry of the other (`SameFile` compares names and ids), also when it offers no
  configuration of its own (`ListIsCurrent`).

## Proofs

The theorems hold for every value of the constants, under the named `ASSUME`s of
the modules (the constants are of their types, the travel fits the controller's
position, the configuration values of a device differ) and the assumption on
`Env` given here. Each one rests on an inductive invariant; the property itself is
seldom inductive.

`ShootSequenceProofs` proves for every value of the constants, that is for every
number of shots and steps, every delay, every set of disturbances and every depth
of suspended handlers:

- `TypeCorrect`: `Spec => []TypeOK`, by itself inductive, one step per action.
- `ShotStaysInRange`: `Spec => []ShotInRange`. Only `TickDownloaded` and
  `StartMoveDone` change the counter.
- `TickIsNotReentered`: `Spec => []TickNotReentered`. It is not inductive: the tick
  can only open its box when no other one is up, and that needs to be known of
  every place that starts the timer. `BoxInv` adds that no box of the tick is up
  while the timer runs *or* the thread is in a wait; that below a handler that
  began with a click on the form there are only pause loops, because a box of
  Start starts a wait when it is answered; and that the wait at whose end the
  completion box opens has stopped the timer. `PushKeepsOrder`,
  `ReturnKeepsOrder` and `SwapBoxes` say what a handler that is suspended,
  returns or goes on in another box does to the order of the handlers, and
  `HasPushed` and `HasReturned` which kinds of them are suspended then.
- `PausesHold`: `Spec => PauseHolds`, without manual shooting. `PauseInv` says that
  the status at which a wait was begun is kept while the thread is in it, and that
  no box of a frame by hand is up. With such a box the property would be false: the
  camera is removed, which pauses the shoot, and the answer to the box goes on with
  it.

- `PausesPause`: `Spec => PausePauses`, in a dry run and in a shoot by hand with a delay
  (`NoRelease`), with `Unplug` not in `Env` and every other disturbance allowed. In
  these modes no exposure is waited for, so that a press acts at once and no pause
  loop is ever suspended. `PressInv` says so, and that a button with Resume on it
  belongs to a shoot that is paused or was stopped while it was: Start is off then,
  so that no new shoot begins below a Resume of the old one. Start and Pause are
  never enabled together. The hypotheses are needed, see "Where the properties end".

The theorems about frames assume `Calm`: of the disturbances only pauses, failing
captures, saves and logs, and late images. The user neither stops a shoot nor starts
one on top of another, and the controller, the cable and the camera work. Then, for
every number of shots and steps, every delay, all four combinations of the two modes
and every set of formats:

- `FramesAreInOrder`, `FramesAreInPlace`: the i-th exposure is shot i, taken with
  the rail i - 1 steps from the start.
- `RailStaysInTheStack`: no move goes in front of the start or past the last
  frame.

None of them is inductive. `FramesInv` adds what carries them from step to step:
`OnTrack`, at every stage of a shoot (the one to resume, while it is paused) how many
frames have been taken and where the rail is; `Sound`, the controller stays in normal
operation, so that the rail is at its target outside of the three waits for a move,
and the wait for the reset in the middle of case Move, which the bits of old errors
may well cause, is at its end back in case Move; `Driven`, an active stage is driven
by exactly what can go on with it (the timer, the wait for the move, the trigger box),
so that Start, whose box needs the timer off, never finds a shoot in the middle, and a
button that still says Resume cannot bring an old stage back; `Awaited`, the only
exposure that can still complete is the one the sequence waits for. There is one lemma
per group of actions (`TickInFrame`, `WaitingInFrame`, ...); `Quiet` disposes of the
steps that touch none of it, `NextFrame` and `PlaceNext` are the arithmetic. Without
`Calm` the theorem about places is false: after a controller error a frame is exposed
at the wrong one.

- `FramesAreSettled`: `PhotosSettled`. `RestInv` says that the program's count of
  ticks, which a pause keeps, is never ahead of the ticks the rail has really stood
  still, and that the whole delay has passed when a frame is due.
- `ShootsAreFocusStacks`: `Spec => ShootIsFocusStack`, the refinement. Every step is
  shown to be one of the abstract stack's: a start at the end of its move begins a
  stack, an exposure takes a frame, the tick at End finishes, the end of the move
  home is home, a Resume that leads out of the shoot abandons it, and everything
  else leaves phase and frames alone while the rail travels.
- `CompletionIsTrue`: `CompletedIsComplete`. Both rest on `FocusInv`: Start is enabled
  only while no shoot goes on and Pause is not (`Startable`), a button that says
  Resume without a pause leads out of the shoot (`Resumable`), and all frames are
  taken when the timer runs at End, during the move home and below the completion
  box (`Ended`).
- `DownloadsAreSaved`: `DownloadedIsSaved`, under `Orderly`: `Calm` without late images
  and failing saves. `SaveInv` says that the images still to come are of the exposure
  that is awaited and the others of its shot are files. With late images the
  property is false: the test in `device_CaptureComplete`, an exclusive or of
  exclusive ors, also passes when two formats are wanted and neither has come.

`UsbDriverProofs` (no assumption on `Env`, any number of packets, every device):
- `RemovalWaits`: `RemoveWaitsBarLate`. `Counting` is the invariant of the remove
  lock: its count is the number of packets that have raised it and not lowered
  it, plus one for the device itself until the removal has given that up, less the
  releases of ioctls that held nothing. It needs to know which requests can be
  in the driver together (`Packets`), for two removals would give up twice.
- `PowerIsReported`: `PowerReported`. `Powering`: a single device request is under
  way, and while it is below, what is reported is the one of the two states with less
  power; after a power-down that has failed only that it is not more power than the
  driver's.
- `StartedMeansConfigured`: `StartedIsConfigured`. `Configuring` says that a start which is
  about to set the flag has left the device `Fit`, configured or excused, and that a
  removal that is about to drop the configuration has reset the flag.

`DeviceConfigProofs` (any threads, files and configurations):
- `CacheStaysCoherent`: `CacheIsCoherent`, by `Sound`: a request that is about to
  change the configuration names what the descriptor has, and this is all it
  needs when its call returns, whatever went on meanwhile.
- `ClosedFilesClaimNothing`: `ClaimsAreOfOpenFiles`. Both under any `Env`.
- `PipesAlwaysReachDevice`: `PipesReachDevice`, with `Concurrent` not in `Env`.
  Between the call that gives the device its pipes and the return of its thread the
  tables are stale; `InFlight` says that what the thread has found before is still so,
  `Tables` that the rest is right. The look-ups take the first slot, which exists by
  the lemma `Minimum`.

`LargeTransferProofs`:
- `StagesAreFreedOnce`: `FreedOnceAfterUse`, under any `Env`. `Inv` counts the references
  of a stage: one of its own completion, one for each list of stages to cancel
  it is on. That a short stage's list is not overwritten follows from `Walking`:
  only the completion that takes the cancel routine away walks the list.
- `MainIsCompletedLast`: `MainOutlivesStages`, with `Parallel` not in `Env`. `Alone`
  says that one stage at a time is in its completion routine before it is off the
  list, so that only one can find itself the last.
- `AllIsReported`: `NothingElseIsLost`, and `EvenDataIsInOrder`: `InOrderIfEven`, with
  `Parallel` not in `Env`. `Data` says that stages lie one behind the other and are
  sent in this order (`Laid`, `SentInOrder`), that what the device has sent is added
  up or counted as lost but for the one stage that has just returned, and belongs
  before every stage that has not (`Summed`), and, of a read with even stages, that
  what is added up is in order, with no more left out than is lost, and the rest lies
  where its stage begins (`Stored`). With a shorter last stage the last part is false
  (`v_short_read`).

`UsbHandleProofs`:
- `HandlesAreCurrent`: `HandleIsCurrent`, and `ClosedHandlesHoldNothing`:
  `ClosedHoldsNothing`. `Agreement` says that a configured driver and its device
  agree and that every claim, also one its handle has forgotten, is of a
  program that has the device open; `Current` is the property for one program. Of the
  alternate setting a handle believes in, neither says anything.
- `MessagesComeThrough`: `MessagesAreTransparent`, for every set of messages and all
  sizes of buffers and of `libusb_request`: type, recipient and request as they were sent,
  and the lower halves of value and index. It needs no invariant, for the way of
  a message depends on the state only by what is refused. `IoctlFits` says that what
  `dispatch_ioctl` lets pass has room for what its handler asks for,
  `PacketCarriesMessage` goes through the handlers one after the other, and
  `HalvesMakeWhole` puts type and index of a descriptor together again.

`BenchmarkProofs`:
- `FreedTransfersAreIdle`: `FreedIsIdle`, with `AbortFails` not in `Env`. `Held` says who
  waits for a transfer in the driver: in a ring it is in use and the thread that
  stops has not come to it yet, otherwise the thread is in the transfer.
- `TestsEndForReason`: `CancelledForReason`, with neither `AbortFails` nor `SlowStart`
  in `Env`. `Reasoned` and `Watched` say why a thread has stopped and what the main
  thread has seen of it; a thread that has run out of timeouts shows it by its count or,
  once R was pressed, by `cleared`.
- `RingIsAQueue`: `RingInOrder`, under any `Env` and for every number of buffers.
  `RingOf` relates the slots of a ring with the queue in the driver as long as the
  thread has not begun to stop: the driver has only slots that are in use, and in the
  order of their age. `SubmitRing`, `ReapRing` and `EndsRing` are the arithmetic of an index
  that rolls over, said once for each way in which the ring changes.

`DeviceListProofs` (any number of device names, any products, descriptors of any size):
- `ConfigurationReads`: for every buffer of descriptors whose lengths are true or
  below 2, whatever their types and numbers are, what `usb_parse_configuration`
  returns is a subsequence of the buffer: nothing is taken twice, out of order or from
  elsewhere; an endpoint pointer that was never set counts as no endpoints.
  `ConfigurationBack`: the buffer of a configuration in which all numbers are right is
  parsed as that configuration, with every pointer set, and nothing is left. Both go
  through the parser bottom up, `Skip`, an endpoint, the endpoints, a setting, the
  settings, the interfaces, and carry what the loops hand to each other: where a loop
  stops, the buffer is `Settled`, it is empty or begins with a descriptor of a proper
  type. The loops are functions over their rounds. That such a function has a value
  after every round (`LoopRuns`) and what it has then is shown by induction over a set
  of round numbers (`NumbersByInduction`), which follows from `LeastNumber`: a set of
  natural numbers that is not empty has a least element.
- `TypesHold`: the entries of the list are made from products, under any `Env`.
- `ConfigsFromDevice`: `ConfigsAreOfDevice`, with `Replug` not in `Env`. `ConfigsInv` says
  which configurations of the device looked at have been fetched, that each is
  parsed from what this device has sent, and that a device that has gone during
  the call leaves its name empty until the call ends. Then it is the two theorems
  about the parser.
- `ListCurrent`: `ListIsCurrent`, under any `Env`, if devices with the same ids are
  alike (`LikeDevices`: both offer one to eight configurations or neither does).
  `NamesInv` accounts for the names already looked at, `FetchInv` for every steady
  device being on the list or on that of the new ones, never on both; `Sifted` is
  what the comparison of the two lists keeps.

`FilterInstallProofs` (any classes, devices, foreign filters, and any order of
commands, each of which may be killed between any two changes):
- `LoadedIsRegistered`: `LoadedMatchesRegistry`, if no command names classes and devices
  together (`SeparateCommands`). `Loaded` says that every device has its filters, has
  missed its last change of state, or that the restart of everything is still to come
  in the command. A command with both does break it: with a class
  in the command a device is not restarted at once, and not later either if the
  class does not change.
- `InstallationRepairs`: `InstallRepairs`, without a hypothesis. `Repairs` says which
  devices have been started at each place of an installation, and that those that were
  not have missed it, or came while the command ran.
- `ServiceComesFirst`: `FilterHasService`, with `CreateFails` not in `Env`.
- `ForeignersSurvive`: `ForeignFiltersSurvive`, under `ListsFit` (each list of others
  leaves room for one entry more in the buffer it is read into; a list that cannot be
  read counts as empty and is overwritten) and `UninstallsItsOwn` (what is
  uninstalled has no filters of others, for its lists are deleted with it). The
  lemmas before it say what inserting into a list, appending to it and removing
  from it leave of its other entries.

Only model-checked: the liveness properties (`ShootCompletes`, `PauseTakesEffect`,
`Responsive`, `RemoveCompletes`, `CreateReturns`, `CancelEnds`, `TestEnds`), which are
out of the prover's reach. The type invariants of the
libusb-win32 modules (`TypeOK`; that of `DeviceList` is `TypeInv` in its proofs) are in no
`.cfg`; they hold in the instances of the runs, and the invariants of the
proofs contain their unbounded form.

## Not modelled

- MacroRail's project files, dialogs, camera settings, live view, rail settings,
  depth of field, NEF reader and generated designer code: they copy fields,
  compute in floating point or read a file in one call, and keep no state that a
  shoot depends on.
- The buttons of the controller's panel. The jog buttons, Go to start and Set start
  move the rail or its origin, and nothing prevents it during a shoot, so that no
  statement about the frames would survive them. Connect, Resume and De-energize send
  commands to the controller, and they also change which of Start, Stop and Pause are
  enabled: Connect and Resume enable Start and disable the other two, De-energize and
  a disconnection disable all three. So Start can be pressed during a shoot; the ways
  there that are modelled are a camera that is plugged in again (`Unplug`) and a
  second press before the first tick (`Restart`). That the controller is disconnected
  in the middle of a wait is modelled (`WaitThrows`), Quit in the box that comes up is
  not.
- Raw control transfers and pipe policies of libusbK, stages of isochronous
  transfers with their packet tables, names in the registry and symbolic links of
  the driver, verification and statistics of the benchmark, command lines and
  version checks of the installer.
- The installer's dialogs, which call the functions that are modelled; the tables of
  messages and functions; the test programs; libwdi, a vendored project.
- The firmware of the controller, the camera library, LibUsbDotNet and Windows appear
  only through the calls and callbacks of the code above.

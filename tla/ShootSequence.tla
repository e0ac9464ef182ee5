--------------------------- MODULE ShootSequence ---------------------------
(***************************************************************************)
(* The automatic shoot of MacroRail: the state machine timerProject_Tick   *)
(* steps through (Main.cs, Shoot.cs), the Start, Pause and Stop buttons,   *)
(* the camera's callbacks and the stepper controller (TicDevice).          *)
(*                                                                         *)
(* Everything in the program runs on one user interface thread.  A handler *)
(* is one action, cut where the thread lets something else happen:         *)
(*   - `wait` is the loop over Thread.Sleep the thread is in, if any; only *)
(*     the controller moves on meanwhile, no message is dispatched;        *)
(*   - `stack` holds the handlers suspended in a modal box or in the       *)
(*     DoEvents loop of buttonPause_Click, innermost first.  Timers and    *)
(*     camera callbacks are dispatched on top of them, and only the        *)
(*     innermost one can return.                                           *)
(***************************************************************************)
EXTENDS TicDevice, Sequences, FiniteSets

CONSTANTS
    StepCount,      \* project.sequence.StepCount
    Steps,          \* (int)(rail.steps_mm * project.sequence.StepDistance)
    Delay,          \* project.sequence.DelayBeforeShooting, in seconds
    NoShooting,     \* project.sequence.NoShooting
    ManualShooting, \* project.sequence.ManualShooting
    Compression,    \* The formats project.camera.Compression names.
    MaxPending      \* Bound: handlers suspended when a button is pressed.

Formats == {"jpeg", "nef", "tiff"}

ASSUME StepCountAssumption == StepCount \in Nat
\* The whole travel fits the 32-bit position of the controller and the host.
ASSUME TravelAssumption == Steps \in Nat /\ StepCount * Steps <= 2147483647
ASSUME DelayAssumption == Delay \in Nat
ASSUME ModeAssumption == NoShooting \in BOOLEAN /\ ManualShooting \in BOOLEAN
ASSUME CompressionAssumption == Compression \subseteq Formats
ASSUME MaxPendingAssumption == MaxPending \in Nat

VARIABLES
    status,     \* shoot.sequence_status
    prev,       \* shoot.pause_previous_state
    text,       \* buttonPause.Text
    shot,       \* shoot.current_shot
    pos,        \* shoot.current_position
    ticks,      \* shoot.delay_counter
    timer,      \* timerProject.Enabled
    enabled,    \* Which of the Start, Pause and Stop buttons are enabled.
    log,        \* shoot.log: no writer yet, an open one or a closed one.
    wait,       \* The blocking loop the thread is in.
    stack,      \* The suspended handlers, innermost first.
    got,        \* The formats whose shoot.downloaded_ flag is set.
    camera,     \* The camera: presence and the exposure in flight.
    photos,     \* History: the exposures of this shoot, in order.
    files,      \* History: the image files this shoot has written.
    settled     \* History: delay ticks since the rail moved or a photo.

seqVars  == <<status, prev, text, shot, pos, ticks>>
uiVars   == <<timer, enabled, wait, stack>>
camVars  == <<got, camera>>
histVars == <<photos, files, settled>>
vars == <<ticVars, seqVars, uiVars, camVars, histVars, log>>

Statuses == {"Idle", "Start", "Move", "Moving", "Delay", "Delaying", "Shoot",
             "Shooting", "ManualShoot", "Downloaded", "Paused", "End"}
Waits == {"none", "startReady", "startMove", "moveReady", "moveMove",
          "endReady", "endMove"}
Frames == {"pause", "startDialog", "logContinue", "logCancel", "trigger",
           "cancelled", "saveImage", "completed", "exception", "fault"}

\* timerProject ticks every 100 ms and Delaying counts its ticks.
DelayTicks == Delay * 10

TypeOK ==
    /\ TicTypeOK
    /\ status \in Statuses
    /\ prev \in Statuses
    /\ text \in {"Pause", "Resume"}
    /\ shot \in Nat
    /\ pos \in Int
    /\ ticks \in Nat
    /\ timer \in BOOLEAN
    /\ enabled \subseteq {"Start", "Pause", "Stop"}
    /\ log \in {"null", "open", "closed"}
    /\ wait \in Waits
    /\ stack \in Seq(Frames)
    /\ got \subseteq Formats
    /\ camera \in [present : BOOLEAN, shot : Nat, images : SUBSET Formats,
                   completing : BOOLEAN]
    /\ photos \in Seq([shot : Nat, at : Int, settled : BOOLEAN])
    /\ files \subseteq [name : Nat, fmt : Formats, of : Nat]
    /\ settled \in Nat

\* The rail and the camera are connected, no shoot has run yet.
Init ==
    /\ TicInit
    /\ status = "Idle" /\ prev = "Idle" /\ text = "Pause"
    /\ shot = 0 /\ pos = 0 /\ ticks = 0
    /\ timer = FALSE /\ enabled = {"Start"}
    /\ log = "null"
    /\ wait = "none" /\ stack = <<>>
    /\ got = {}
    /\ camera = [present |-> TRUE, shot |-> 0, images |-> {},
                 completing |-> FALSE]
    /\ photos = <<>> /\ files = {} /\ settled = 0

-----------------------------------------------------------------------------
(* The message loop.                                                       *)

Pumping == wait = "none"
Top(f) == stack # <<>> /\ Head(stack) = f
Push(f) == stack' = <<f>> \o stack
Return == stack' = Tail(stack)
Swap(f) == stack' = <<f>> \o Tail(stack)

\* A modal box disables the buttons of the form, a DoEvents loop does not.
FormActive ==
    /\ Pumping
    /\ Len(stack) < MaxPending
    /\ \A i \in 1..Len(stack) : stack[i] = "pause"

Ticking(s) == Pumping /\ timer /\ status = s

-----------------------------------------------------------------------------
(* The controller.                                                         *)

RailMoves ==
    /\ RailStep
    /\ settled' = 0
    /\ UNCHANGED <<seqVars, uiVars, camVars, photos, files, log>>

TicFault == TicFails /\ UNCHANGED <<seqVars, uiVars, camVars, histVars, log>>

TicRecovers ==
    TicStartsUp /\ UNCHANGED <<seqVars, uiVars, camVars, histVars, log>>

\* timerTIC_Tick: the periodic poll, also below modal boxes and DoEvents.
PollTic ==
    /\ Pumping
    /\ GetVariables
    /\ UNCHANGED <<rail, target, op, latched>>
    /\ UNCHANGED <<seqVars, uiVars, camVars, histVars, log>>

\* An IN transfer throws, in the poll or in a blocking loop.  No handler catches
\* it: the rest of the handler is not run, and the box for unhandled exceptions
\* comes up, below which the timers tick on.
Throws ==
    /\ "UsbError" \in Env
    /\ Len(stack) < MaxPending
    /\ Push("fault")
    /\ UNCHANGED <<ticVars, seqVars, timer, enabled, camVars, histVars, log>>

PollThrows == Pumping /\ Throws /\ UNCHANGED wait
WaitThrows == wait # "none" /\ Throws /\ wait' = "none"

FaultOk ==
    /\ Pumping
    /\ Top("fault")
    /\ Return
    /\ UNCHANGED <<ticVars, seqVars, timer, enabled, wait, camVars, histVars,
                   log>>

-----------------------------------------------------------------------------
(* buttonStart_Click.                                                      *)

\* Start stays enabled until the first tick, and a camera that is plugged in
\* enables it again: it can be pressed while the timer runs.
StartClick ==
    /\ FormActive
    /\ "Start" \in enabled
    /\ timer => "Restart" \in Env
    /\ Push("startDialog")
    /\ UNCHANGED <<ticVars, seqVars, timer, enabled, wait, camVars, histVars,
                   log>>

StartDialogCancel ==
    /\ Pumping
    /\ Top("startDialog")
    /\ Return
    /\ UNCHANGED <<ticVars, seqVars, timer, enabled, wait, camVars, histVars,
                   log>>

\* Clear the download flags and the controller's errors, then wait for it.
PrepareShoot ==
    /\ Return
    /\ got' = {}
    /\ ClearErrors
    /\ wait' = "startReady"

CreateLog == log' = "open"

StartDialogOk ==
    /\ Pumping
    /\ Top("startDialog")
    /\ status' = "Start"
    /\ CreateLog
    /\ PrepareShoot
    /\ UNCHANGED <<rail, target, latched, polled, prev, text, shot, pos, ticks,
                   timer, enabled, camera, histVars>>

\* The log cannot be created: the user is asked whether to go on, or, for a
\* path that is too long or not found, only told that the shoot is cancelled.
StartWithoutLog ==
    /\ "LogError" \in Env
    /\ Pumping
    /\ Top("startDialog")
    /\ status' = "Start"
    /\ Swap("logContinue") \/ Swap("logCancel")
    /\ UNCHANGED <<ticVars, prev, text, shot, pos, ticks, timer, enabled, wait,
                   camVars, histVars, log>>

LogContinueOk ==
    /\ Pumping
    /\ Top("logContinue")
    /\ PrepareShoot
    /\ UNCHANGED <<rail, target, latched, polled, seqVars, timer, enabled,
                   camera, histVars, log>>

LogGiveUp ==
    /\ Pumping
    /\ Top("logContinue") \/ Top("logCancel")
    /\ Return
    /\ UNCHANGED <<ticVars, seqVars, timer, enabled, wait, camVars, histVars,
                   log>>

StartReady ==
    /\ wait = "startReady"
    /\ IsReady
    /\ wait' = "none"
    /\ timer' = TRUE
    /\ UNCHANGED <<rail, target, op, latched, seqVars, enabled, stack, camVars,
                   histVars, log>>

-----------------------------------------------------------------------------
(* timerProject_Tick, one action per case of its switch; the cases for     *)
(* Shooting, Moving and Paused do nothing.                                 *)

TickStart ==
    /\ Ticking("Start")
    /\ timer' = FALSE
    /\ enabled' = (enabled \ {"Start"}) \cup {"Pause", "Stop"}
    /\ pos' = 0
    /\ SetTarget(0)
    /\ wait' = "startMove"
    /\ UNCHANGED <<rail, op, latched, polled, status, prev, text, shot, ticks,
                   stack, camVars, histVars, log>>

StartMoveDone ==
    /\ wait = "startMove"
    /\ MoveEnds
    /\ wait' = "none"
    /\ pos' = 0 /\ shot' = 1 /\ ticks' = 0
    /\ status' = "Delay"
    /\ timer' = TRUE
    /\ photos' = <<>> /\ files' = {}
    /\ UNCHANGED <<rail, target, op, latched, prev, text, enabled, stack,
                   camVars, settled, log>>

\* Mutants: the counter is not reset, or starts one tick too low.
StartDelayAnywhere == status' = "Delaying" /\ UNCHANGED ticks
StartDelayTooLow == status' = "Delaying" /\ ticks' = -1
StartDelay == status' = "Delaying" /\ ticks' = 0

\* The two cases order their branches differently: with ManualShooting and
\* without NoShooting the camera shoots at once, but by hand after a delay.
AfterNoDelay ==
    IF ~NoShooting THEN "Shoot"
    ELSE IF ManualShooting THEN "ManualShoot" ELSE "Downloaded"
AfterDelay ==
    IF ManualShooting THEN "ManualShoot"
    ELSE IF NoShooting THEN "Downloaded" ELSE "Shoot"

TickDelay ==
    /\ Ticking("Delay")
    /\ IF Delay > 0
         THEN StartDelay
         ELSE status' = AfterNoDelay /\ UNCHANGED ticks
    /\ UNCHANGED <<ticVars, prev, text, shot, pos, uiVars, camVars, histVars,
                   log>>

TickDelaying ==
    /\ Ticking("Delaying")
    /\ ticks' = ticks + 1
    /\ settled' = IF settled < DelayTicks THEN settled + 1 ELSE settled
    /\ status' = IF ticks' >= DelayTicks THEN AfterDelay ELSE status
    /\ UNCHANGED <<ticVars, prev, text, shot, pos, uiVars, camVars, photos,
                   files, log>>

Photo == [shot |-> shot, at |-> rail, settled |-> settled >= DelayTicks]
TakePhoto == photos' = Append(photos, Photo) /\ settled' = 0

Busy == camera.images # {} \/ camera.completing

\* ImageCapture starts an exposure.  Without a camera it does nothing; a
\* NikonException (a busy camera, or any other cause) is only reported.
Exposes ==
    /\ camera.present /\ ~Busy
    /\ camera' = [present |-> TRUE, shot |-> shot, images |-> Compression,
                   completing |-> TRUE]
    /\ TakePhoto
    /\ UNCHANGED files

ExposesNothing ==
    /\ ~camera.present \/ Busy \/ "CaptureError" \in Env
    /\ UNCHANGED <<camera, histVars>>

TickShoot ==
    /\ Ticking("Shoot")
    /\ status' = "Shooting"
    /\ Exposes \/ ExposesNothing
    /\ UNCHANGED <<ticVars, prev, text, shot, pos, ticks, uiVars, got, log>>

\* Mutant: the timer runs on below the box.
AskForTriggerTicking == Push("trigger") /\ UNCHANGED timer
AskForTrigger == timer' = FALSE /\ Push("trigger")

TickManualShoot ==
    /\ Ticking("ManualShoot")
    /\ AskForTrigger
    /\ UNCHANGED <<ticVars, seqVars, enabled, wait, camVars, histVars, log>>

\* OK: the photographer has released the shutter by hand.
TriggerOk ==
    /\ Pumping
    /\ Top("trigger")
    /\ Return
    /\ status' = "Downloaded"
    /\ timer' = TRUE
    /\ TakePhoto
    /\ UNCHANGED <<ticVars, prev, text, shot, pos, ticks, enabled, wait,
                   camVars, files, log>>

TriggerCancel ==
    /\ Pumping
    /\ Top("trigger")
    /\ Swap("cancelled")
    /\ UNCHANGED <<ticVars, seqVars, timer, enabled, wait, camVars, histVars,
                   log>>

CancelledOk ==
    /\ Pumping
    /\ Top("cancelled")
    /\ Return
    /\ status' = "End"
    /\ UNCHANGED <<ticVars, prev, text, shot, pos, ticks, timer, enabled, wait,
                   camVars, histVars, log>>

\* Mutant: one shot too many.
ShotsTooMany == shot <= StepCount
ShotsLeft == shot < StepCount

TickDownloaded ==
    /\ Ticking("Downloaded")
    /\ IF ShotsLeft
         THEN shot' = shot + 1 /\ status' = "Move"
         ELSE status' = "End" /\ UNCHANGED shot
    /\ UNCHANGED <<ticVars, prev, text, pos, ticks, uiVars, camVars, histVars,
                   log>>

\* The second part of case Move, once the controller is ready.
BeginMove ==
    /\ pos' = pos - Steps
    /\ status' = "Moving"
    /\ timer' = FALSE
    /\ SetTarget(pos')
    /\ wait' = "moveMove"

\* Mutant: the position is already decremented before the reset.
ResetThenMoveTwice ==
    /\ ClearErrors
    /\ wait' = "moveReady"
    /\ pos' = pos - Steps
    /\ UNCHANGED <<target, status, timer>>
ResetThenMove ==
    /\ ClearErrors
    /\ wait' = "moveReady"
    /\ UNCHANGED <<target, pos, status, timer>>

TickMove ==
    /\ Ticking("Move")
    /\ IF polled THEN ResetThenMove ELSE BeginMove /\ UNCHANGED op
    /\ UNCHANGED <<rail, latched, polled, prev, text, shot, ticks, enabled,
                   stack, camVars, histVars, log>>

MoveReady ==
    /\ wait = "moveReady"
    /\ IsReady
    /\ BeginMove
    /\ UNCHANGED <<rail, op, latched, prev, text, shot, ticks, enabled, stack,
                   camVars, histVars, log>>

\* Mutant: the wait compares the motor with the host's own position.
ArrivedAtOwnPosition == rail = pos /\ UNCHANGED polled
Arrived == MoveEnds

\* Mutant: the timer is not started again.
GoOnWithoutTimer == status' = "Delay" /\ UNCHANGED timer
GoOn == timer' = TRUE /\ status' = "Delay"

MoveDone ==
    /\ wait = "moveMove"
    /\ Arrived
    /\ wait' = "none"
    /\ GoOn
    /\ UNCHANGED <<rail, target, op, latched, prev, text, shot, pos, ticks,
                   enabled, stack, camVars, histVars, log>>

\* Mutant: the target is the position the rail is at.
BeginHomingNowhere == SetTarget(pos) /\ wait' = "endMove"

\* Case End: drive home.
BeginHoming == SetTarget(0) /\ wait' = "endMove"

TickEnd ==
    /\ Ticking("End")
    /\ status' = "Idle"
    /\ timer' = FALSE
    /\ IF polled
         THEN ClearErrors /\ wait' = "endReady" /\ UNCHANGED target
         ELSE BeginHoming /\ UNCHANGED op
    /\ UNCHANGED <<rail, latched, polled, prev, text, shot, pos, ticks,
                   enabled, stack, camVars, histVars, log>>

EndReady ==
    /\ wait = "endReady"
    /\ IsReady
    /\ BeginHoming
    /\ UNCHANGED <<rail, op, latched, seqVars, timer, enabled, stack, camVars,
                   histVars, log>>

\* Mutant: the log is only flushed.
FlushLog == UNCHANGED log
CloseLog == log' = IF log = "open" THEN "closed" ELSE log

\* Flushing the closed writer of an earlier shoot throws, and the handler is
\* left before its "Project Completed" box.
EndMoveDone ==
    /\ wait = "endMove"
    /\ MoveEnds
    /\ wait' = "none"
    /\ enabled' = (enabled \cup {"Start"}) \ {"Stop", "Pause"}
    /\ CloseLog
    /\ Push(IF log = "closed" THEN "exception" ELSE "completed")
    /\ UNCHANGED <<rail, target, op, latched, seqVars, timer, camVars,
                   histVars>>

EndBoxOk ==
    /\ Pumping
    /\ Top("completed") \/ Top("exception")
    /\ Return
    /\ UNCHANGED <<ticVars, seqVars, timer, enabled, wait, camVars, histVars,
                   log>>

TickIdle ==
    /\ Ticking("Idle")
    /\ timer' = FALSE
    /\ UNCHANGED <<ticVars, seqVars, enabled, wait, stack, camVars, histVars,
                   log>>

-----------------------------------------------------------------------------
(* buttonPause_Click and buttonStop_Click.                                 *)

Pause == text' = "Resume" /\ prev' = status /\ status' = "Paused"
\* Mutants: a shoot always resumes with a fresh delay; the button keeps its
\* text.
ResumeAtDelay == text' = "Pause" /\ status' = "Delay" /\ UNCHANGED prev
ResumeKeepsText == status' = prev /\ UNCHANGED <<text, prev>>

Resume == text' = "Pause" /\ status' = prev /\ UNCHANGED prev
PauseOrResume == IF text = "Resume" THEN Resume ELSE Pause

\* A click while Shooting enters the DoEvents loop, any other acts at once.
PauseClick ==
    /\ "Pause" \in Env
    /\ FormActive
    /\ "Pause" \in enabled
    /\ status # "Idle"
    /\ IF status = "Shooting"
         THEN Push("pause") /\ UNCHANGED <<status, prev, text>>
         ELSE PauseOrResume /\ UNCHANGED stack
    /\ UNCHANGED <<ticVars, shot, pos, ticks, timer, enabled, wait, camVars,
                   histVars, log>>

\* Mutant: the loop waits for the one status that follows Shooting.
PauseLoopEndsOnDownload == status = "Downloaded"
PauseLoopEnds == status # "Shooting"

PauseReturns ==
    /\ Pumping
    /\ Top("pause")
    /\ PauseLoopEnds
    /\ Return
    /\ PauseOrResume
    /\ UNCHANGED <<ticVars, shot, pos, ticks, timer, enabled, wait, camVars,
                   histVars, log>>

StopShoot == timer' = FALSE /\ enabled' = {} /\ status' = "Idle"

StopClick ==
    /\ "Stop" \in Env
    /\ FormActive
    /\ "Stop" \in enabled
    /\ status # "Idle"
    /\ StopShoot
    /\ UNCHANGED <<ticVars, prev, text, shot, pos, ticks, wait, stack, camVars,
                   histVars, log>>

-----------------------------------------------------------------------------
(* The camera's callbacks, dispatched by the message loop.                 *)

\* manager_DeviceRemoved pauses a shoot, whatever its status.
DeviceRemoved ==
    /\ "Unplug" \in Env
    /\ Pumping
    /\ camera.present
    /\ camera' = [present |-> FALSE, shot |-> camera.shot, images |-> {},
                   completing |-> FALSE]
    /\ IF status # "Idle" THEN Pause ELSE UNCHANGED <<status, prev, text>>
    /\ UNCHANGED <<ticVars, shot, pos, ticks, uiVars, got, histVars, log>>

\* manager_DeviceAdded enables Start, whether or not a shoot is running.
DeviceAdded ==
    /\ Pumping
    /\ ~camera.present
    /\ camera' = [camera EXCEPT !.present = TRUE]
    /\ enabled' = enabled \cup {"Start"}
    /\ UNCHANGED <<ticVars, seqVars, timer, wait, stack, got, histVars, log>>

\* Mutant: the file name lacks the extension of the format.
SaveImageUnderOneName(fmt) ==
    files' = {f \in files : f.name # shot}
               \cup {[name |-> shot, fmt |-> fmt, of |-> camera.shot]}

\* SaveImageDirectory creates or overwrites the file named by the current
\* shot; the flag is set even if it failed.
SaveImage(fmt) ==
    \/ files' = {f \in files : <<f.name, f.fmt>> # <<shot, fmt>>}
                  \cup {[name |-> shot, fmt |-> fmt, of |-> camera.shot]}
    \/ "SaveError" \in Env /\ UNCHANGED files

\* The directory cannot be created: an exception nobody catches.
NoDirectory ==
    "SaveError" \in Env /\ Push("fault") /\ UNCHANGED <<files, got>>

ImageReady ==
    /\ Pumping
    /\ \E fmt \in camera.images :
         /\ camera' = [camera EXCEPT !.images = @ \ {fmt}]
         /\ IF status = "Shooting"
              THEN \/ SaveImage(fmt) /\ got' = got \cup {fmt}
                                     /\ UNCHANGED stack
                   \/ NoDirectory
              ELSE Push("saveImage") /\ UNCHANGED <<files, got>>
    /\ UNCHANGED <<ticVars, seqVars, timer, enabled, wait, photos, settled,
                   log>>

SaveImageAnswer ==
    /\ Pumping
    /\ Top("saveImage")
    /\ Return
    /\ UNCHANGED <<ticVars, seqVars, timer, enabled, wait, camVars, histVars,
                   log>>

\* !(wanted ^ downloaded), the three of them combined by ^ again: true when
\* one or all three of the formats agree.
FormatAgrees(fmt) == (fmt \in Compression) = (fmt \in got)
AllDownloaded ==
    Cardinality({fmt \in Formats : FormatAgrees(fmt)}) \in {1, 3}

ShotComplete == status = "Shooting" /\ AllDownloaded

CaptureComplete ==
    /\ Pumping
    /\ camera.completing
    /\ camera.images = {} \/ "LateImages" \in Env
    /\ camera' = [camera EXCEPT !.completing = FALSE]
    /\ status' = IF ShotComplete THEN "Downloaded" ELSE status
    /\ UNCHANGED <<ticVars, prev, text, shot, pos, ticks, uiVars, got,
                   histVars, log>>

-----------------------------------------------------------------------------
Controller == RailMoves \/ TicFault \/ TicRecovers \/ PollTic
Faults == PollThrows \/ WaitThrows \/ FaultOk
StartButton ==
    \/ StartClick \/ StartDialogCancel \/ StartDialogOk \/ StartWithoutLog
    \/ LogContinueOk \/ LogGiveUp \/ StartReady
Tick ==
    \/ TickStart \/ TickDelay \/ TickDelaying \/ TickShoot \/ TickManualShoot
    \/ TickDownloaded \/ TickMove \/ TickEnd \/ TickIdle
Waiting == StartMoveDone \/ MoveReady \/ MoveDone \/ EndReady \/ EndMoveDone
Boxes ==
    TriggerOk \/ TriggerCancel \/ CancelledOk \/ EndBoxOk \/ SaveImageAnswer
Buttons == PauseClick \/ PauseReturns \/ StopClick
Callbacks == DeviceRemoved \/ DeviceAdded \/ ImageReady \/ CaptureComplete

Next == Controller \/ Faults \/ StartButton \/ Tick \/ Waiting \/ Boxes
          \/ Buttons \/ Callbacks

Spec == Init /\ [][Next]_vars

(***************************************************************************)
(* The timers and the message loop run on while the thread is free, the    *)
(* controller moves the motor, the camera delivers what it exposed, and    *)
(* the user answers the boxes.  Nothing makes the user press a button.     *)
(* The pause loop is strongly fair: a call of DoEvents handles only the    *)
(* messages that are queued, so that boxes it opens, which have to be      *)
(* answered first, cannot keep it from looking at its condition for ever.  *)
(***************************************************************************)
Fairness ==
    /\ WF_vars(RailMoves) /\ WF_vars(TicRecovers)
    /\ WF_vars(StartReady) /\ WF_vars(Waiting)
    /\ WF_vars(Tick)
    /\ WF_vars(ImageReady) /\ WF_vars(CaptureComplete)
    /\ SF_vars(PauseReturns)
    /\ WF_vars(StartDialogOk) /\ WF_vars(LogContinueOk) /\ WF_vars(LogGiveUp)
    /\ WF_vars(Boxes) /\ WF_vars(FaultOk)

FairSpec == Spec /\ Fairness

-----------------------------------------------------------------------------
(* Safety.                                                                 *)

\* The camera, and not the user or nobody, takes the pictures.
Automatic == ~NoShooting /\ ~ManualShooting
\* The program takes at least one picture, even for a step count of zero.
Shots == IF StepCount = 0 THEN 1 ELSE StepCount
FrameCount == IF NoShooting /\ ~ManualShooting THEN 0 ELSE Shots

\* No frame of the stack is skipped, repeated or taken out of order, however
\* the user pauses and resumes: the i-th exposure of a shoot is shot i.
PhotosInOrder == \A i \in 1..Len(photos) : photos[i].shot = i

\* Every exposure of shot k is taken with the rail k - 1 steps from the start.
PhotosAtPosition ==
    \A i \in 1..Len(photos) : photos[i].at = -((photos[i].shot - 1) * Steps)

\* Before every exposure the rail has stood still, and the flashes have
\* recharged, for the whole delay, counted in ticks of the project timer.
PhotosSettled == \A i \in 1..Len(photos) : photos[i].settled

\* An automatic shoot goes on to its next shot only when every format of the
\* current one is on the disk, in a file of its own that holds this very
\* exposure (device_ImageReady and device_CaptureComplete together).
DownloadedIsSaved ==
    status = "Downloaded" /\ Automatic =>
        \A fmt \in Compression :
            [name |-> shot, fmt |-> fmt, of |-> shot] \in files

\* When "Project Completed" comes up, all frames of the stack have been taken,
\* the rail is back at the start and the log is closed.
CompletedIsComplete ==
    Top("completed") =>
        /\ Len(photos) = FrameCount
        /\ rail = 0
        /\ log # "open"

\* The rail is never sent in front of the start or beyond the last frame.
TravelBounded ==
    wait \in {"startMove", "moveMove", "endMove"} =>
        -((Shots - 1) * Steps) <= pos /\ pos <= 0

\* The shot counter never passes the step count, even when a resumed shoot
\* repeats or skips a state.
ShotInRange == shot <= Shots

\* timerProject_Tick is never entered again while one of its own boxes is up:
\* the timer is off below them, and there is only one of them.
TickBoxes == {"trigger", "cancelled", "completed", "exception"}
TickNotReentered ==
    \A i \in 1..Len(stack) : stack[i] \in TickBoxes =>
        /\ ~timer
        /\ \A j \in 1..Len(stack) : stack[j] \in TickBoxes => j = i

\* A paused shoot goes on only when the user resumes it, and it goes on
\* with the state it was paused in; otherwise it is stopped or started anew.
PauseHolds ==
    [][status = "Paused" /\ status' # "Paused" =>
         \/ text = "Resume" /\ text' = "Pause" /\ status' = prev
         \/ status' \in {"Idle", "Start"}]_vars

\* A press of the Pause button on a shoot that is not paused pauses it.
PausePauses ==
    [][PauseClick /\ status # "Paused" /\ stack' = stack
         => status' = "Paused"]_vars

-----------------------------------------------------------------------------
(* Liveness.                                                               *)

\* A shoot whose timer runs completes, unless it is paused.
ShootCompletes ==
    status = "Start" /\ timer /\ text = "Pause"
        ~> Top("completed") \/ status = "Paused"

\* The user interface never hangs: every blocking wait ends.
Responsive == wait # "none" ~> wait = "none"

\* A pause that is pressed while the camera is shooting takes effect: the
\* loop over DoEvents ends.
PauseTakesEffect == Top("pause") /\ text = "Pause" ~> status = "Paused"

-----------------------------------------------------------------------------
(* A shoot is a focus stack.                                               *)

\* The state a paused shoot will go on with.
Stage == IF status = "Paused" THEN prev ELSE status

\* The state of the focus stack that a state of the shoot stands for.
Outside == {"Idle", "Start"}
Homing == {"endReady", "endMove"}
Phase ==
    IF wait \in Homing THEN "homing"
    ELSE IF Stage \in Outside THEN "idle" ELSE "shooting"
Places == [i \in 1..Len(photos) |-> photos[i].at]

Stack == INSTANCE FocusStack WITH
    Step <- Steps,
    phase <- Phase,
    place <- rail,
    stackOf <- Places

ShootIsFocusStack == Stack!Spec
=============================================================================

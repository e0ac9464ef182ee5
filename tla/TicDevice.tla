----------------------------- MODULE TicDevice -----------------------------
(***************************************************************************)
(* The Pololu TIC stepper controller, as far as MacroRail depends on it:   *)
(* the rail it moves, its operation state, its latched error bits and the  *)
(* host's copy of them (Tic.status_vars in TicDotNet.cs).                  *)
(*                                                                         *)
(* The controller's firmware is not part of the repository; its behaviour  *)
(* is the one TicDotNet.cs and Main.cs rely on.  The host's operations are *)
(* operators, used by the modules that model the user interface thread.    *)
(***************************************************************************)
EXTENDS Integers

CONSTANTS
    Env,            \* The disturbances the environment may cause.
    StartPositions  \* Where the rail may stand when a shoot is prepared.

(***************************************************************************)
(* Every disturbance the models know.  A run picks a subset:               *)
(*   Pause, Stop    the user presses these buttons during a shoot          *)
(*   Restart        the user presses Start while a shoot is under way      *)
(*   Unplug         the camera is unplugged and plugged in again           *)
(*   CaptureError   NikonDevice.Capture throws                             *)
(*   SaveError      an image or its directory cannot be written            *)
(*   LogError       the log file cannot be created                         *)
(*   LateImages     CaptureComplete may arrive before the shot's images    *)
(*   TicError       the controller stops with an error, or halts           *)
(*   UsbError       a control transfer fails or throws                     *)
(***************************************************************************)
Disturbances == {"Pause", "Stop", "Restart", "Unplug", "CaptureError",
                 "SaveError", "LogError", "LateImages", "TicError", "UsbError"}

ASSUME EnvAssumption == Env \subseteq Disturbances
ASSUME StartPositionsAssumption ==
    StartPositions \subseteq Int /\ StartPositions # {}

VARIABLES
    rail,       \* The motor's position, in microsteps.
    target,     \* The controller's target position.
    op,         \* OPERATION_STATE, the ones a connected controller shows.
    latched,    \* An error bit is set in "errors occurred".
    polled      \* status_vars.error_occurred # 0, as last read by the host.

ticVars == <<rail, target, op, latched, polled>>

OpStates == {"NORMAL", "SOFT_ERROR", "STARTING_UP"}

TicTypeOK ==
    /\ rail \in Int
    /\ target \in Int
    /\ op \in OpStates
    /\ latched \in BOOLEAN
    /\ polled \in BOOLEAN

\* A connected, energised controller that stands still.  Connecting clears
\* its errors, but not the bits of those that have occurred: some may be set,
\* and the host may have read them.
TicInit ==
    /\ rail \in StartPositions
    /\ target = rail
    /\ op = "NORMAL"
    /\ latched \in BOOLEAN
    /\ polled \in {FALSE, latched}

-----------------------------------------------------------------------------
(* The controller's own steps.                                             *)

\* One microstep towards the target.
RailStep ==
    /\ op = "NORMAL"
    /\ rail # target
    /\ rail' = IF rail < target THEN rail + 1 ELSE rail - 1
    /\ UNCHANGED <<target, op, latched, polled>>

\* A limit switch, a motor driver error or a command timeout stops the motor.
TicFails ==
    /\ "TicError" \in Env
    /\ op = "NORMAL"
    /\ op' = "SOFT_ERROR"
    /\ latched' = TRUE
    /\ UNCHANGED <<rail, target, polled>>

\* The controller returns to normal operation after the error was cleared.
TicStartsUp ==
    /\ op = "STARTING_UP"
    /\ op' = "NORMAL"
    /\ UNCHANGED <<rail, target, latched, polled>>

-----------------------------------------------------------------------------
(* The host's operations.                                                  *)

\* transfer(): a failed OUT transfer is reported by a result nobody reads.  An
\* IN transfer that throws leaves no buffer, and reading it throws again: see
\* WaitThrows and PollThrows of ShootSequence.
Transfer(sent, lost) == sent \/ ("UsbError" \in Env /\ lost)

\* set_target_position(p)
SetTarget(p) == Transfer(target' = p, target' = target)

\* clear_driver_error(); exit_safe_start(): either may be lost, and an error is
\* left behind if it needed the lost one.
Clearing == {"clear_driver_error", "exit_safe_start"}
ClearErrors ==
    \E sent \in SUBSET Clearing, needed \in (SUBSET Clearing) \ {{}} :
        /\ Transfer(sent = Clearing, TRUE)
        /\ op' = IF op = "SOFT_ERROR" /\ needed \subseteq sent
                   THEN "STARTING_UP" ELSE op

\* get_variables(): a failed IN transfer leaves a zeroed buffer, so that the
\* host sees operation state RESET (0), position 0 and no error.
GetVariables == Transfer(polled' = latched, polled' = FALSE)

\* wait_for_device_ready() returns: the last get_variables saw NORMAL.
IsReady == op = "NORMAL" /\ polled' = latched

\* Mutant: the wait returns at once.
MoveEndsAtOnce == polled' = latched

\* The controller reports input_state HALT or INVALID: it may do so as soon as
\* it can fail, in whatever operation state.
MayHalt == "TicError" \in Env

\* wait_for_move_complete() returns: in position, halted, or not in NORMAL
\* state any more, or a failed transfer made it look that way.
MoveEnds ==
    Transfer((op # "NORMAL" \/ rail = target \/ MayHalt) /\ polled' = latched,
             polled' = FALSE)
=============================================================================

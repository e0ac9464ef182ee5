----------------------------- MODULE FocusStack -----------------------------
(***************************************************************************)
(* What an automatic shoot promises, without how it gets there: the frames *)
(* of a focus stack are taken one after the other, the k-th one with the   *)
(* rail exactly k - 1 steps behind the start, and the shoot is over when   *)
(* all of them are taken and the rail is back at the start (README of      *)
(* MacroRail, "Shooting").  Between two frames the rail may be anywhere.   *)
(***************************************************************************)
EXTENDS Integers, Sequences

CONSTANTS
    FrameCount,  \* Frames in a stack, a natural number.
    Step         \* Distance between two frames, in microsteps.

VARIABLES
    phase,   \* "idle", "shooting" or "homing"
    place,   \* Where the rail is.
    stackOf  \* The places of the frames taken so far.

stackVars == <<phase, place, stackOf>>

Init ==
    /\ phase = "idle"
    /\ place \in Int
    /\ stackOf = <<>>

\* The rail travels.
Travel ==
    /\ place' \in Int
    /\ UNCHANGED <<phase, stackOf>>

\* A new stack begins at the start of the rail.
Begin ==
    /\ phase = "idle"
    /\ place = 0
    /\ phase' = "shooting"
    /\ stackOf' = <<>>
    /\ UNCHANGED place

Take ==
    /\ phase = "shooting"
    /\ Len(stackOf) < FrameCount
    /\ place = -(Len(stackOf) * Step)
    /\ stackOf' = Append(stackOf, place)
    /\ UNCHANGED <<phase, place>>

Finish ==
    /\ phase = "shooting"
    /\ Len(stackOf) = FrameCount
    /\ phase' = "homing"
    /\ UNCHANGED <<place, stackOf>>

\* The user stops the shoot or starts it anew.
Abandon ==
    /\ phase = "shooting"
    /\ phase' = "idle"
    /\ UNCHANGED <<place, stackOf>>

Home ==
    /\ phase = "homing"
    /\ place = 0
    /\ phase' = "idle"
    /\ UNCHANGED <<place, stackOf>>

Next == Travel \/ Begin \/ Take \/ Finish \/ Abandon \/ Home

Spec == Init /\ [][Next]_stackVars
=============================================================================

------------------------ MODULE ShootSequenceProofs ------------------------
(***************************************************************************)
(* Theorems about ShootSequence, for every value of its constants.         *)
(***************************************************************************)
EXTENDS ShootSequence, SequenceTheorems, TLAPS

-----------------------------------------------------------------------------
(* The stack of suspended handlers.                                        *)

\* A handler that is suspended leaves those below it one place further down.
LEMMA PushedFrames ==
    ASSUME NEW s \in Seq(Frames), NEW f \in Frames
    PROVE  /\ <<f>> \o s \in Seq(Frames)
           /\ Len(<<f>> \o s) = Len(s) + 1
           /\ (<<f>> \o s)[1] = f
           /\ \A i \in 1..Len(s) : (<<f>> \o s)[i + 1] = s[i]
<1>1. <<f>> \in Seq(Frames) /\ Len(<<f>>) = 1 /\ <<f>>[1] = f
  OBVIOUS
<1>2. <<f>> \o s \in Seq(Frames) /\ Len(<<f>> \o s) = Len(s) + 1
  BY <1>1, ConcatProperties
<1>3. ASSUME NEW i \in 1..Len(s) + 1
      PROVE  (<<f>> \o s)[i] = IF i = 1 THEN f ELSE s[i - 1]
  BY <1>1, ConcatProperties
<1> QED
  BY <1>2, <1>3

\* A handler that returns leaves those below it one place further up.
LEMMA ReturnedFrames ==
    ASSUME NEW s \in Seq(Frames), s # <<>>
    PROVE  /\ Tail(s) \in Seq(Frames)
           /\ Len(Tail(s)) = Len(s) - 1
           /\ \A i \in 1..Len(Tail(s)) : Tail(s)[i] = s[i + 1]
BY HeadTailProperties

\* The same for the operators of the message loop.
LEMMA FramesTyped ==
    ASSUME TypeOK
    PROVE  /\ \A f \in Frames : Push(f) => stack' \in Seq(Frames)
           /\ stack # <<>> /\ Return => stack' \in Seq(Frames)
           /\ \A f \in Frames :
                stack # <<>> /\ Swap(f) => stack' \in Seq(Frames)
<1>1. stack \in Seq(Frames)
  BY DEF TypeOK
<1>2. \A f \in Frames : Push(f) => stack' \in Seq(Frames)
  BY <1>1, PushedFrames DEF Push
<1>3. stack # <<>> /\ Return => stack' \in Seq(Frames)
  BY <1>1, ReturnedFrames DEF Return
<1>4. ASSUME NEW f \in Frames, stack # <<>>, Swap(f)
      PROVE  stack' \in Seq(Frames)
  BY <1>1, <1>4, ReturnedFrames, PushedFrames DEF Swap
<1> QED
  BY <1>2, <1>3, <1>4

-----------------------------------------------------------------------------
(* Type correctness.                                                       *)

LEMMA InitTyped == Init => TypeOK
<1> SUFFICES ASSUME Init PROVE TypeOK
  OBVIOUS
<1>1. TicTypeOK
  BY StartPositionsAssumption DEF Init, TicInit, TicTypeOK, OpStates
<1>2. stack \in Seq(Frames) /\ photos \in Seq([shot : Nat, at : Int,
                                               settled : BOOLEAN])
  BY DEF Init
<1>3. camera \in [present : BOOLEAN, shot : Nat, images : SUBSET Formats,
                  completing : BOOLEAN]
  BY DEF Init
<1>4. status \in Statuses /\ prev \in Statuses /\ wait \in Waits
  BY DEF Init, Statuses, Waits
<1>5. /\ text \in {"Pause", "Resume"} /\ log \in {"null", "open", "closed"}
      /\ enabled \subseteq {"Start", "Pause", "Stop"}
      /\ got \subseteq Formats
      /\ files \subseteq [name : Nat, fmt : Formats, of : Nat]
  BY DEF Init
<1>6. shot \in Nat /\ pos \in Int /\ ticks \in Nat /\ settled \in Nat
  BY DEF Init
<1>7. timer \in BOOLEAN
  BY Zenon DEF Init
<1> QED
  BY <1>1, <1>2, <1>3, <1>4, <1>5, <1>6, <1>7 DEF TypeOK

\* The host's operations on the controller, whether or not they get through.
LEMMA SetTargetTyped ==
    ASSUME NEW p \in Int, target \in Int, SetTarget(p)
    PROVE  target' \in Int
BY DEF SetTarget, Transfer

LEMMA ClearErrorsTyped ==
    ASSUME op \in OpStates, ClearErrors
    PROVE  op' \in OpStates
BY DEF ClearErrors, Transfer, OpStates

LEMMA BeginMoveTyped ==
    ASSUME TypeOK, BeginMove
    PROVE  /\ pos' \in Int /\ target' \in Int
           /\ status' \in Statuses /\ timer' \in BOOLEAN /\ wait' \in Waits
<1>1. pos' \in Int
  BY TravelAssumption DEF BeginMove, TypeOK
<1>2. target' \in Int
  BY <1>1, SetTargetTyped DEF BeginMove, TypeOK, TicTypeOK
<1> QED
  BY <1>1, <1>2 DEF BeginMove, Statuses, Waits

LEMMA BeginHomingTyped ==
    ASSUME TypeOK, BeginHoming
    PROVE  target' \in Int /\ wait' \in Waits
BY SetTargetTyped DEF BeginHoming, TypeOK, TicTypeOK, Waits

USE DEF ticVars, seqVars, uiVars, camVars, histVars, vars

LEMMA ControllerTyped == TypeOK /\ Controller => TypeOK'
<1> SUFFICES ASSUME TypeOK, Controller PROVE TypeOK'
  OBVIOUS
<1>1. CASE RailMoves
  BY <1>1 DEF RailMoves, RailStep, TypeOK, TicTypeOK
<1>2. CASE TicFault
  BY <1>2 DEF TicFault, TicFails, TypeOK, TicTypeOK, OpStates
<1>3. CASE TicRecovers
  BY <1>3 DEF TicRecovers, TicStartsUp, TypeOK, TicTypeOK, OpStates
<1>4. CASE PollTic
  BY <1>4 DEF PollTic, GetVariables, Transfer, TypeOK, TicTypeOK
<1> QED
  BY <1>1, <1>2, <1>3, <1>4 DEF Controller

LEMMA FaultsTyped == TypeOK /\ Faults => TypeOK'
<1> SUFFICES ASSUME TypeOK, Faults PROVE TypeOK'
  OBVIOUS
<1> USE FramesTyped DEF Throws, TypeOK, TicTypeOK, Frames, Waits, Top
<1>1. CASE PollThrows
  BY <1>1 DEF PollThrows
<1>2. CASE WaitThrows
  BY <1>2 DEF WaitThrows
<1>3. CASE FaultOk
  BY <1>3 DEF FaultOk
<1> QED
  BY <1>1, <1>2, <1>3 DEF Faults

LEMMA StartButtonTyped == TypeOK /\ StartButton => TypeOK'
<1> SUFFICES ASSUME TypeOK, StartButton PROVE TypeOK'
  OBVIOUS
<1> USE FramesTyped DEF TypeOK, TicTypeOK, OpStates, Statuses, Frames, Top
<1>1. CASE StartClick
  BY <1>1 DEF StartClick
<1>2. CASE StartDialogCancel
  BY <1>2 DEF StartDialogCancel
<1>3. CASE StartDialogOk
  BY <1>3, ClearErrorsTyped
     DEF StartDialogOk, CreateLog, PrepareShoot, Waits
<1>4. CASE StartWithoutLog
  BY <1>4 DEF StartWithoutLog
<1>5. CASE LogContinueOk
  BY <1>5, ClearErrorsTyped DEF LogContinueOk, PrepareShoot, Waits
<1>6. CASE LogGiveUp
  BY <1>6 DEF LogGiveUp
<1>7. CASE StartReady
  BY <1>7 DEF StartReady, IsReady, Waits
<1> QED
  BY <1>1, <1>2, <1>3, <1>4, <1>5, <1>6, <1>7 DEF StartButton

LEMMA PhotoTyped ==
    ASSUME TypeOK, TakePhoto
    PROVE  /\ photos' \in Seq([shot : Nat, at : Int, settled : BOOLEAN])
           /\ settled' \in Nat
BY DEF TypeOK, TicTypeOK, TakePhoto, Photo

LEMMA TickTyped == TypeOK /\ Tick => TypeOK'
<1> SUFFICES ASSUME TypeOK, Tick PROVE TypeOK'
  OBVIOUS
<1> USE DEF TypeOK, TicTypeOK
<1>1. CASE TickStart
  <2>1. target' \in Int
    BY <1>1, SetTargetTyped DEF TickStart
  <2>2. enabled' \subseteq {"Start", "Pause", "Stop"} /\ wait' \in Waits
    BY <1>1 DEF TickStart, Waits
  <2>3. timer' \in BOOLEAN
    BY <1>1, Zenon DEF TickStart
  <2>4. pos' \in Int
    BY <1>1 DEF TickStart
  <2> QED
    BY <1>1, <2>1, <2>2, <2>3, <2>4 DEF TickStart
<1>2. CASE TickDelay
  BY <1>2 DEF TickDelay, StartDelay, AfterNoDelay, Statuses
<1>3. CASE TickDelaying
  BY <1>3, DelayAssumption DEF TickDelaying, DelayTicks, AfterDelay, Statuses
<1>4. CASE TickShoot
  <2>1. CASE Exposes
    <3>1. camera' \in [present : BOOLEAN, shot : Nat, images : SUBSET Formats,
                       completing : BOOLEAN]
      BY <2>1, CompressionAssumption DEF Exposes
    <3>2. /\ photos' \in Seq([shot : Nat, at : Int, settled : BOOLEAN])
          /\ settled' \in Nat /\ UNCHANGED files
      BY <2>1, PhotoTyped DEF Exposes
    <3>3. status' \in Statuses
      BY <1>4 DEF TickShoot, Statuses
    <3> QED
      BY <1>4, <2>1, <3>1, <3>2, <3>3 DEF TickShoot
  <2>2. CASE ExposesNothing
    BY <1>4, <2>2 DEF TickShoot, ExposesNothing, Statuses
  <2> QED
    BY <1>4, <2>1, <2>2 DEF TickShoot
<1>5. CASE TickManualShoot
  BY <1>5, FramesTyped DEF TickManualShoot, AskForTrigger, Frames
<1>6. CASE TickDownloaded
  BY <1>6 DEF TickDownloaded, Statuses
<1>7. CASE TickMove
  <2>1. CASE polled
    BY <1>7, <2>1, ClearErrorsTyped DEF TickMove, ResetThenMove, Waits
  <2>2. CASE ~polled
    BY <1>7, <2>2, BeginMoveTyped DEF TickMove
  <2> QED
    BY <2>1, <2>2
<1>8. CASE TickEnd
  <2>1. CASE polled
    BY <1>8, <2>1, ClearErrorsTyped DEF TickEnd, Statuses, Waits
  <2>2. CASE ~polled
    BY <1>8, <2>2, BeginHomingTyped DEF TickEnd, Statuses
  <2> QED
    BY <2>1, <2>2
<1>9. CASE TickIdle
  BY <1>9 DEF TickIdle
<1> QED
  BY <1>1, <1>2, <1>3, <1>4, <1>5, <1>6, <1>7, <1>8, <1>9 DEF Tick

LEMMA WaitingTyped == TypeOK /\ Waiting => TypeOK'
<1> SUFFICES ASSUME TypeOK, Waiting PROVE TypeOK'
  OBVIOUS
<1>1. CASE StartMoveDone
  <2>1. photos' = <<>> /\ files' = {} /\ polled' \in BOOLEAN
    BY <1>1 DEF StartMoveDone, MoveEnds, Transfer, TypeOK, TicTypeOK
  <2> QED
    BY <1>1, <2>1 DEF StartMoveDone, TypeOK, TicTypeOK, Statuses, Waits
<1>2. CASE MoveReady
  BY <1>2, BeginMoveTyped DEF MoveReady, IsReady, TypeOK, TicTypeOK
<1>3. CASE MoveDone
  BY <1>3 DEF MoveDone, Arrived, MoveEnds, Transfer, GoOn, TypeOK, TicTypeOK,
              Statuses, Waits
<1>4. CASE EndReady
  BY <1>4, BeginHomingTyped DEF EndReady, IsReady, TypeOK, TicTypeOK
<1>5. CASE EndMoveDone
  BY <1>5, FramesTyped
     DEF EndMoveDone, MoveEnds, Transfer, CloseLog, TypeOK, TicTypeOK, Waits,
         Frames
<1> QED
  BY <1>1, <1>2, <1>3, <1>4, <1>5 DEF Waiting

LEMMA BoxesTyped == TypeOK /\ Boxes => TypeOK'
<1> SUFFICES ASSUME TypeOK, Boxes PROVE TypeOK'
  OBVIOUS
<1> USE FramesTyped DEF TypeOK, TicTypeOK, Statuses, Frames, Top
<1>1. CASE TriggerOk
  BY <1>1, PhotoTyped DEF TriggerOk
<1>2. CASE TriggerCancel
  BY <1>2 DEF TriggerCancel
<1>3. CASE CancelledOk
  BY <1>3 DEF CancelledOk
<1>4. CASE EndBoxOk
  BY <1>4 DEF EndBoxOk
<1>5. CASE SaveImageAnswer
  BY <1>5 DEF SaveImageAnswer
<1> QED
  BY <1>1, <1>2, <1>3, <1>4, <1>5 DEF Boxes

LEMMA ButtonsTyped == TypeOK /\ Buttons => TypeOK'
<1> SUFFICES ASSUME TypeOK, Buttons PROVE TypeOK'
  OBVIOUS
<1> USE FramesTyped
    DEF TypeOK, TicTypeOK, Statuses, Frames, PauseOrResume, Pause, Resume
<1>1. CASE PauseClick
  BY <1>1 DEF PauseClick
<1>2. CASE PauseReturns
  BY <1>2 DEF PauseReturns, Top
<1>3. CASE StopClick
  BY <1>3 DEF StopClick, StopShoot
<1> QED
  BY <1>1, <1>2, <1>3 DEF Buttons

LEMMA CallbacksTyped == TypeOK /\ Callbacks => TypeOK'
<1> SUFFICES ASSUME TypeOK, Callbacks PROVE TypeOK'
  OBVIOUS
<1> USE DEF TypeOK, TicTypeOK
<1>1. CASE DeviceRemoved
  BY <1>1 DEF DeviceRemoved, Pause, Statuses
<1>2. CASE DeviceAdded
  BY <1>2 DEF DeviceAdded
<1>3. CASE ImageReady
  <2>1. PICK fmt \in camera.images :
          /\ camera' = [camera EXCEPT !.images = @ \ {fmt}]
          /\ IF status = "Shooting"
               THEN \/ SaveImage(fmt) /\ got' = got \cup {fmt}
                                      /\ UNCHANGED stack
                    \/ NoDirectory
               ELSE Push("saveImage") /\ UNCHANGED <<files, got>>
    BY <1>3 DEF ImageReady
  <2>2. fmt \in Formats
    OBVIOUS
  <2>3. camera' \in [present : BOOLEAN, shot : Nat, images : SUBSET Formats,
                     completing : BOOLEAN]
    BY <2>1
  <2>4. SaveImage(fmt) => files' \subseteq [name : Nat, fmt : Formats, of : Nat]
    BY <2>2 DEF SaveImage
  <2>5. stack' \in Seq(Frames)
    BY <2>1, FramesTyped DEF NoDirectory, Frames
  <2> QED
    BY <1>3, <2>1, <2>2, <2>3, <2>4, <2>5 DEF NoDirectory, ImageReady
<1>4. CASE CaptureComplete
  BY <1>4 DEF CaptureComplete, ShotComplete, Statuses
<1> QED
  BY <1>1, <1>2, <1>3, <1>4 DEF Callbacks

\* No step of the program, the camera or the controller leaves the types.
LEMMA NextTyped == TypeOK /\ [Next]_vars => TypeOK'
<1>1. ASSUME TypeOK, UNCHANGED vars PROVE TypeOK'
  BY <1>1 DEF TypeOK, TicTypeOK
<1> QED
  BY <1>1, ControllerTyped, FaultsTyped, StartButtonTyped, TickTyped,
     WaitingTyped, BoxesTyped, ButtonsTyped, CallbacksTyped DEF Next

\* The program's state stays well formed, whatever the disturbances, the
\* length of the stack, the formats and the depth of suspended handlers: no
\* counter goes negative and no handler returns that was not suspended.
THEOREM TypeCorrect == Spec => []TypeOK
BY InitTyped, NextTyped, PTL DEF Spec

-----------------------------------------------------------------------------
(* The shot counter.                                                       *)

\* The shot counter never passes the step count, in whatever order ticks,
\* buttons, boxes, callbacks and disturbances come.
THEOREM ShotStaysInRange == Spec => []ShotInRange
<1>1. Init => ShotInRange
  BY StepCountAssumption DEF Init, ShotInRange, Shots
<1>2. ASSUME TypeOK, ShotInRange, [Next]_vars PROVE ShotInRange'
  <2>1. CASE TickDownloaded
    BY <1>2, <2>1, StepCountAssumption
       DEF TypeOK, ShotInRange, Shots, TickDownloaded, ShotsLeft
  <2>2. CASE StartMoveDone
    BY <2>2, StepCountAssumption DEF ShotInRange, Shots, StartMoveDone
  <2>3. CASE UNCHANGED shot
    BY <1>2, <2>3 DEF ShotInRange, Shots
  <2>4. TickDownloaded \/ StartMoveDone \/ UNCHANGED shot
    <3>1. Controller => UNCHANGED shot
      BY DEF Controller, RailMoves, TicFault, TicRecovers, PollTic
    <3>8. Faults => UNCHANGED shot
      BY DEF Faults, PollThrows, WaitThrows, Throws, FaultOk
    <3>2. StartButton => UNCHANGED shot
      BY DEF StartButton, StartClick, StartDialogCancel, StartDialogOk,
             StartWithoutLog, LogContinueOk, LogGiveUp, StartReady
    <3>3. Tick => TickDownloaded \/ UNCHANGED shot
      BY DEF Tick, TickStart, TickDelay, TickDelaying, TickShoot,
             TickManualShoot, TickMove, TickEnd, TickIdle
    <3>4. Waiting => StartMoveDone \/ UNCHANGED shot
      BY DEF Waiting, MoveReady, MoveDone, EndReady, EndMoveDone
    <3>5. Boxes => UNCHANGED shot
      BY DEF Boxes, TriggerOk, TriggerCancel, CancelledOk, EndBoxOk,
             SaveImageAnswer
    <3>6. Buttons => UNCHANGED shot
      BY DEF Buttons, PauseClick, PauseReturns, StopClick
    <3>7. Callbacks => UNCHANGED shot
      BY DEF Callbacks, DeviceRemoved, DeviceAdded, ImageReady,
             CaptureComplete
    <3> QED
      BY <1>2, <3>1, <3>2, <3>3, <3>4, <3>5, <3>6, <3>7, <3>8 DEF Next
  <2> QED
    BY <2>1, <2>2, <2>3, <2>4
<1> QED
  BY <1>1, <1>2, TypeCorrect, PTL DEF Spec

-----------------------------------------------------------------------------
(* The boxes of timerProject_Tick.                                         *)

\* A handler of one of these kinds is suspended.
Has(F, s) == \E i \in 1..Len(s) : s[i] \in F

StartBoxes == {"startDialog", "logContinue", "logCancel"}
\* The handlers that begin with a click on the form.
FormFrames == StartBoxes \cup {"pause"}
OtherFrames == Frames \ {"pause"}

\* At most one box of the tick is up, and below a handler that began with a
\* click there are only pause loops: the form was enabled.
BoxesOrdered(s) ==
    /\ \A i, j \in 1..Len(s) : s[i] \in TickBoxes /\ s[j] \in TickBoxes => i = j
    /\ \A i, j \in 1..Len(s) : s[i] \in FormFrames /\ i < j => s[j] = "pause"

\* The strengthening of TickNotReentered that every step preserves: while the
\* timer runs or the thread is in a blocking wait no box of the tick is up,
\* and the wait at whose end the tick opens a box has stopped the timer.
BoxInv ==
    /\ BoxesOrdered(stack)
    /\ timer \/ wait # "none" => ~Has(TickBoxes, stack)
    /\ wait \in {"endReady", "endMove"} => ~timer

LEMMA PushedIndex ==
    ASSUME NEW s \in Seq(Frames), NEW f \in Frames,
           NEW i \in 1..Len(<<f>> \o s), i # 1
    PROVE  i - 1 \in 1..Len(s) /\ (<<f>> \o s)[i] = s[i - 1]
<1>1. i - 1 \in 1..Len(s) /\ (i - 1) + 1 = i
  BY PushedFrames
<1> QED
  BY <1>1, PushedFrames

\* What is suspended after a push and after a return.
LEMMA HasPushed ==
    ASSUME NEW s \in Seq(Frames), NEW f \in Frames, NEW F
    PROVE  Has(F, <<f>> \o s) <=> f \in F \/ Has(F, s)
<1> DEFINE t == <<f>> \o s
<1>1. t[1] = f /\ Len(t) = Len(s) + 1 /\ Len(s) \in Nat
  BY PushedFrames
<1>2. \A i \in 1..Len(s) : t[i + 1] = s[i] /\ i + 1 \in 1..Len(t)
  BY <1>1, PushedFrames
<1>3. \A i \in 1..Len(t) : i # 1 => i - 1 \in 1..Len(s) /\ t[i] = s[i - 1]
  BY PushedIndex
<1> HIDE DEF t
<1>4. ASSUME Has(F, t) PROVE f \in F \/ Has(F, s)
  BY <1>1, <1>3, <1>4 DEF Has
<1>5. ASSUME f \in F PROVE Has(F, t)
  <2>1. 1 \in 1..Len(t)
    BY <1>1
  <2> QED
    BY <1>1, <1>5, <2>1 DEF Has
<1>6. ASSUME Has(F, s) PROVE Has(F, t)
  BY <1>2, <1>6 DEF Has
<1> QED
  BY <1>4, <1>5, <1>6 DEF t

LEMMA HasReturned ==
    ASSUME NEW s \in Seq(Frames), s # <<>>, NEW F
    PROVE  Has(F, s) <=> Head(s) \in F \/ Has(F, Tail(s))
<1> DEFINE t == Tail(s)
<1>1. Len(t) = Len(s) - 1 /\ Len(s) \in Nat \ {0} /\ Head(s) = s[1]
  BY ReturnedFrames
<1>2. \A i \in 1..Len(t) : t[i] = s[i + 1] /\ i + 1 \in 1..Len(s)
  BY <1>1, ReturnedFrames
<1> HIDE DEF t
<1>3. ASSUME NEW i \in 1..Len(s), i # 1
      PROVE  i - 1 \in 1..Len(t) /\ t[i - 1] = s[i]
  <2>1. i - 1 \in 1..Len(t) /\ (i - 1) + 1 = i
    BY <1>1, <1>3
  <2> QED
    BY <2>1, <1>2
<1>4. ASSUME Has(F, s) PROVE Head(s) \in F \/ Has(F, t)
  BY <1>1, <1>3, <1>4 DEF Has
<1>5. ASSUME Head(s) \in F PROVE Has(F, s)
  <2>1. 1 \in 1..Len(s)
    BY <1>1
  <2> QED
    BY <1>1, <1>5, <2>1 DEF Has
<1>6. ASSUME Has(F, t) PROVE Has(F, s)
  BY <1>2, <1>6 DEF Has
<1> QED
  BY <1>4, <1>5, <1>6 DEF t

\* What the handlers do that puts no handler of the kinds in F on the stack.
LEMMA NoneAbove ==
    ASSUME TypeOK, NEW F, ~Has(F, stack),
           \/ stack' = stack
           \/ stack # <<>> /\ Return
           \/ \E f \in Frames \ F : Push(f) \/ (stack # <<>> /\ Swap(f))
    PROVE  ~Has(F, stack')
<1>1. CASE stack' = stack
  BY <1>1
<1>2. CASE stack # <<>> /\ Return
  BY <1>2, HasReturned DEF TypeOK, Return
<1>3. ASSUME NEW f \in Frames \ F, Push(f) PROVE ~Has(F, stack')
  BY <1>3, HasPushed DEF TypeOK, Push
<1>4. ASSUME NEW f \in Frames \ F, stack # <<>>, Swap(f)
      PROVE  ~Has(F, stack')
  <2>1. Tail(stack) \in Seq(Frames) /\ ~Has(F, Tail(stack))
    BY <1>4, ReturnedFrames, HasReturned DEF TypeOK
  <2> QED
    BY <1>4, <2>1, HasPushed DEF Swap
<1> QED
  BY <1>1, <1>2, <1>3, <1>4

\* A new handler on top keeps the order if it begins with a click on an
\* enabled form, is a box of the tick above none, or is neither.
LEMMA PushKeepsOrder ==
    ASSUME NEW s \in Seq(Frames), NEW f \in Frames, BoxesOrdered(s),
           f \in FormFrames => ~Has(OtherFrames, s),
           f \in TickBoxes => ~Has(TickBoxes, s)
    PROVE  BoxesOrdered(<<f>> \o s)
<1> DEFINE t == <<f>> \o s
<1>1. t[1] = f /\ t \in Seq(Frames)
  BY PushedFrames
<1>2. \A i \in 1..Len(t) : i # 1 => i - 1 \in 1..Len(s) /\ t[i] = s[i - 1]
  BY PushedIndex
<1> HIDE DEF t
<1>3. ASSUME NEW i \in 1..Len(t), NEW j \in 1..Len(t),
             t[i] \in TickBoxes, t[j] \in TickBoxes, i # 1, j # 1
      PROVE  i = j
  <2>1. /\ i - 1 \in 1..Len(s) /\ s[i - 1] \in TickBoxes
        /\ j - 1 \in 1..Len(s) /\ s[j - 1] \in TickBoxes
    BY <1>2, <1>3
  <2>2. i - 1 = j - 1
    BY <2>1 DEF BoxesOrdered
  <2> QED
    BY <2>2
<1>4. ASSUME NEW i \in 1..Len(t), t[i] \in TickBoxes, f \in TickBoxes
      PROVE  i = 1
  BY <1>2, <1>4 DEF Has
<1>5. ASSUME NEW i \in 1..Len(t), NEW j \in 1..Len(t),
             t[i] \in FormFrames, i < j
      PROVE  t[j] = "pause"
  <2>1. j # 1
    BY <1>5
  <2>2. CASE i = 1
    <3>1. t[j] \in Frames /\ t[j] \notin OtherFrames
      BY <1>1, <1>2, <1>5, <2>1, <2>2 DEF Has
    <3> QED
      BY <3>1 DEF OtherFrames
  <2>3. CASE i # 1
    <3>1. i - 1 < j - 1
      BY <1>5
    <3> QED
      BY <1>2, <1>5, <2>1, <2>3, <3>1 DEF BoxesOrdered
  <2> QED
    BY <2>2, <2>3
<1> QED
  BY <1>1, <1>3, <1>4, <1>5 DEF BoxesOrdered, t

\* The handlers below one that returns.
LEMMA ReturnKeepsOrder ==
    ASSUME NEW s \in Seq(Frames), s # <<>>, BoxesOrdered(s)
    PROVE  /\ BoxesOrdered(Tail(s))
           /\ Head(s) \in TickBoxes => ~Has(TickBoxes, Tail(s))
           /\ Head(s) \in FormFrames => ~Has(OtherFrames, Tail(s))
<1> DEFINE t == Tail(s)
<1>1. Len(t) = Len(s) - 1 /\ Len(s) \in Nat \ {0} /\ Head(s) = s[1]
  BY ReturnedFrames
<1>2. \A i \in 1..Len(t) : /\ t[i] = s[i + 1] /\ i + 1 \in 1..Len(s)
                           /\ 1 \in 1..Len(s) /\ 1 < i + 1 /\ 1 # i + 1
  BY <1>1, ReturnedFrames
<1> HIDE DEF t
<1>3. BoxesOrdered(t)
  <2>1. ASSUME NEW i \in 1..Len(t), NEW j \in 1..Len(t), t[i] \in TickBoxes, t[j] \in TickBoxes
        PROVE  i = j
    <3>1. i + 1 = j + 1
      BY <1>2, <2>1 DEF BoxesOrdered
    <3> QED
      BY <3>1
  <2>2. ASSUME NEW i \in 1..Len(t), NEW j \in 1..Len(t), t[i] \in FormFrames, i < j
        PROVE  t[j] = "pause"
    <3>1. i + 1 < j + 1
      BY <2>2
    <3> QED
      BY <1>2, <2>2, <3>1 DEF BoxesOrdered
  <2> QED
    BY <2>1, <2>2 DEF BoxesOrdered
<1>4. Head(s) \in TickBoxes => ~Has(TickBoxes, t)
  BY <1>1, <1>2 DEF BoxesOrdered, Has
<1>5. Head(s) \in FormFrames => ~Has(OtherFrames, t)
  BY <1>1, <1>2 DEF BoxesOrdered, Has, OtherFrames
<1> QED
  BY <1>3, <1>4, <1>5 DEF t

\* Below pause loops only there is neither a box of the tick nor one of Start.
LEMMA OnlyPauses ==
    ASSUME NEW s, ~Has(OtherFrames, s)
    PROVE  ~Has(TickBoxes, s) /\ ~Has(StartBoxes, s)
<1>1. TickBoxes \subseteq OtherFrames /\ StartBoxes \subseteq OtherFrames
  BY DEF TickBoxes, StartBoxes, OtherFrames, Frames
<1> QED
  BY <1>1 DEF Has

\* Buttons of the form are pressed above pause loops only.
LEMMA FormEnabled == FormActive => ~Has(OtherFrames, stack)
BY DEF FormActive, Has, OtherFrames

\* Steps that leave the handlers alone, and the wait and timer too or, where
\* no box of the tick is up, in the right combination.
LEMMA BoxesUntouched ==
    ASSUME BoxInv, UNCHANGED stack,
           \/ UNCHANGED <<timer, wait>>
           \/ /\ ~Has(TickBoxes, stack)
              /\ wait' \in {"endReady", "endMove"} => ~timer'
    PROVE  BoxInv'
BY DEF BoxInv

\* A handler that returns.
LEMMA ReturnBoxes ==
    ASSUME TypeOK, BoxesOrdered(stack), stack # <<>>, Return
    PROVE  /\ BoxesOrdered(stack')
           /\ ~Has(TickBoxes, stack) => ~Has(TickBoxes, stack')
           /\ Head(stack) \in TickBoxes => ~Has(TickBoxes, stack')
           /\ Head(stack) \in FormFrames => ~Has(OtherFrames, stack')
BY ReturnKeepsOrder, HasReturned DEF TypeOK, Return

\* A handler of the Start button that goes on in another box.
LEMMA SwapBoxes ==
    ASSUME TypeOK, BoxesOrdered(stack), stack # <<>>, NEW f \in Frames, Swap(f),
           \/ Head(stack) \in StartBoxes /\ f \in StartBoxes
           \/ Head(stack) \in TickBoxes /\ f \in TickBoxes
    PROVE  BoxesOrdered(stack')
<1>1. Tail(stack) \in Seq(Frames) /\ BoxesOrdered(Tail(stack))
  BY ReturnedFrames, ReturnKeepsOrder DEF TypeOK
<1>2. StartBoxes \cap TickBoxes = {} /\ FormFrames \cap TickBoxes = {}
  BY DEF StartBoxes, FormFrames, TickBoxes
<1>3. f \in FormFrames => ~Has(OtherFrames, Tail(stack))
  BY <1>2, ReturnKeepsOrder DEF TypeOK, FormFrames
<1>4. f \in TickBoxes => ~Has(TickBoxes, Tail(stack))
  BY <1>2, ReturnKeepsOrder DEF TypeOK
<1> QED
  BY <1>1, <1>3, <1>4, PushKeepsOrder DEF Swap

LEMMA StartButtonKeepsBoxes == TypeOK /\ BoxInv /\ StartButton => BoxInv'
<1> SUFFICES ASSUME TypeOK, BoxInv, StartButton PROVE BoxInv'
  OBVIOUS
<1>1. stack \in Seq(Frames) /\ BoxesOrdered(stack)
  BY DEF TypeOK, BoxInv
<1>2. CASE StartClick
  <2>1. ~Has(OtherFrames, stack) /\ ~Has(TickBoxes, stack)
    BY <1>2, FormEnabled, OnlyPauses DEF StartClick
  <2>2. BoxesOrdered(stack') /\ ~Has(TickBoxes, stack')
    BY <1>1, <1>2, <2>1, PushKeepsOrder, HasPushed
       DEF StartClick, Push, Frames, TickBoxes
  <2> QED
    BY <1>2, <2>2 DEF StartClick, BoxInv
<1>3. CASE StartDialogCancel \/ StartDialogOk \/ LogContinueOk \/ LogGiveUp
  <2>1. stack # <<>> /\ Head(stack) \in FormFrames /\ Return /\ UNCHANGED timer
    BY <1>3 DEF StartDialogCancel, StartDialogOk, LogContinueOk, LogGiveUp,
                PrepareShoot, Top, FormFrames, StartBoxes
  <2>2. BoxesOrdered(stack') /\ ~Has(TickBoxes, stack')
    BY <1>1, <2>1, ReturnBoxes, OnlyPauses
  <2>3. wait' \notin {"endReady", "endMove"}
    BY <1>3 DEF StartDialogCancel, StartDialogOk, LogContinueOk, LogGiveUp,
                PrepareShoot, Pumping
  <2> QED
    BY <2>2, <2>3 DEF BoxInv
<1>4. CASE StartWithoutLog
  <2>1. PICK f \in {"logContinue", "logCancel"} : Swap(f)
    BY <1>4 DEF StartWithoutLog
  <2>2. stack # <<>> /\ Head(stack) \in StartBoxes /\ f \in StartBoxes
    BY <1>4 DEF StartWithoutLog, Top, StartBoxes
  <2>3. BoxesOrdered(stack')
    BY <1>1, <2>1, <2>2, SwapBoxes DEF Frames
  <2>4. ~Has(TickBoxes, Tail(stack)) /\ Tail(stack) \in Seq(Frames)
    BY <1>1, <2>2, ReturnKeepsOrder, OnlyPauses, ReturnedFrames DEF FormFrames
  <2>5. ~Has(TickBoxes, stack')
    BY <2>1, <2>4, HasPushed DEF Swap, Frames, TickBoxes
  <2> QED
    BY <1>4, <2>3, <2>5 DEF StartWithoutLog, BoxInv
<1>5. CASE StartReady
  BY <1>5, BoxesUntouched DEF StartReady, BoxInv
<1> QED
  BY <1>2, <1>3, <1>4, <1>5 DEF StartButton

LEMMA TickAboveNoBox == BoxInv /\ (Tick \/ Waiting) => ~Has(TickBoxes, stack)
BY DEF BoxInv, Tick, TickStart, TickDelay, TickDelaying, TickShoot,
       TickManualShoot, TickDownloaded, TickMove, TickEnd, TickIdle, Ticking,
       Waiting, StartMoveDone, MoveReady, MoveDone, EndReady, EndMoveDone

LEMMA TickKeepsBoxes == TypeOK /\ BoxInv /\ Tick => BoxInv'
<1> SUFFICES ASSUME TypeOK, BoxInv, Tick PROVE BoxInv'
  OBVIOUS
<1>1. ~Has(TickBoxes, stack)
  BY TickAboveNoBox
<1>2. CASE TickManualShoot
  <2>1. BoxesOrdered(stack')
    BY <1>1, <1>2, PushKeepsOrder
       DEF TypeOK, BoxInv, TickManualShoot, AskForTrigger, Push, Frames,
           FormFrames, StartBoxes
  <2>2. ~timer' /\ wait' = "none"
    BY <1>2 DEF TickManualShoot, AskForTrigger, Ticking, Pumping
  <2> QED
    BY <2>1, <2>2 DEF BoxInv
<1>3. CASE ~TickManualShoot
  <2>1. UNCHANGED stack
    BY <1>3 DEF Tick, TickStart, TickDelay, TickDelaying, TickShoot,
                TickDownloaded, TickMove, TickEnd, TickIdle
  <2>2. wait' \in {"endReady", "endMove"} => ~timer'
    BY <1>3
       DEF Tick, TickStart, TickDelay, TickDelaying, TickShoot,
           TickDownloaded, TickMove, ResetThenMove, BeginMove, TickEnd,
           BeginHoming, TickIdle, Ticking, Pumping
  <2> QED
    BY <1>1, <2>1, <2>2, BoxesUntouched
<1> QED
  BY <1>2, <1>3

LEMMA WaitingKeepsBoxes == TypeOK /\ BoxInv /\ Waiting => BoxInv'
<1> SUFFICES ASSUME TypeOK, BoxInv, Waiting PROVE BoxInv'
  OBVIOUS
<1>1. ~Has(TickBoxes, stack)
  BY TickAboveNoBox
<1>2. CASE EndMoveDone
  <2>1. BoxesOrdered(stack')
    BY <1>1, <1>2, PushKeepsOrder
       DEF TypeOK, BoxInv, EndMoveDone, Push, Frames, FormFrames, StartBoxes
  <2>2. ~timer' /\ wait' = "none"
    BY <1>2 DEF EndMoveDone, BoxInv
  <2> QED
    BY <2>1, <2>2 DEF BoxInv
<1>3. CASE ~EndMoveDone
  <2>1. UNCHANGED stack
    BY <1>3 DEF Waiting, StartMoveDone, MoveReady, MoveDone, EndReady
  <2>2. wait' \in {"endReady", "endMove"} => ~timer'
    BY <1>3
       DEF BoxInv, Waiting, StartMoveDone, MoveReady, BeginMove, MoveDone,
           EndReady, BeginHoming
  <2> QED
    BY <1>1, <2>1, <2>2, BoxesUntouched
<1> QED
  BY <1>2, <1>3

LEMMA BoxesKeepBoxes == TypeOK /\ BoxInv /\ Boxes => BoxInv'
<1> SUFFICES ASSUME TypeOK, BoxInv, Boxes PROVE BoxInv'
  OBVIOUS
<1>1. wait = "none" /\ wait' = "none" /\ stack # <<>> /\ BoxesOrdered(stack)
  BY DEF Boxes, TriggerOk, TriggerCancel, CancelledOk, EndBoxOk,
         SaveImageAnswer, Pumping, Top, BoxInv
<1>2. CASE TriggerOk
  <2>1. BoxesOrdered(stack') /\ ~Has(TickBoxes, stack')
    BY <1>1, <1>2, ReturnBoxes DEF TriggerOk, Top, TickBoxes
  <2> QED
    BY <1>1, <2>1 DEF BoxInv
<1>3. CASE TriggerCancel
  <2>1. BoxesOrdered(stack')
    BY <1>1, <1>3, SwapBoxes DEF TriggerCancel, Top, TickBoxes, Frames
  <2>2. Has(TickBoxes, stack)
    BY <1>1, <1>3, HasReturned DEF TypeOK, TriggerCancel, Top, TickBoxes
  <2>3. ~timer'
    BY <1>3, <2>2 DEF TriggerCancel, BoxInv
  <2> QED
    BY <1>1, <2>1, <2>3 DEF BoxInv
<1>4. CASE CancelledOk \/ EndBoxOk \/ SaveImageAnswer
  <2>1. Return /\ UNCHANGED timer
    BY <1>4 DEF CancelledOk, EndBoxOk, SaveImageAnswer
  <2>2. BoxesOrdered(stack') /\ (timer => ~Has(TickBoxes, stack'))
    BY <1>1, <2>1, ReturnBoxes DEF BoxInv
  <2> QED
    BY <1>1, <2>1, <2>2 DEF BoxInv
<1> QED
  BY <1>2, <1>3, <1>4 DEF Boxes

LEMMA ButtonsKeepBoxes == TypeOK /\ BoxInv /\ Buttons => BoxInv'
<1> SUFFICES ASSUME TypeOK, BoxInv, Buttons PROVE BoxInv'
  OBVIOUS
<1>1. wait = "none" /\ wait' = "none" /\ BoxesOrdered(stack)
  BY DEF Buttons, PauseClick, PauseReturns, StopClick, FormActive, Pumping,
         BoxInv
<1>2. CASE PauseClick
  <2>1. ~Has(OtherFrames, stack) /\ ~Has(TickBoxes, stack)
    BY <1>2, FormEnabled, OnlyPauses DEF PauseClick
  <2>2. stack' = stack \/ stack' = <<"pause">> \o stack
    BY <1>2 DEF PauseClick, Push
  <2>3. BoxesOrdered(stack') /\ ~Has(TickBoxes, stack')
    <3>1. CASE stack' = stack
      BY <1>1, <2>1, <3>1
    <3>2. CASE stack' = <<"pause">> \o stack
      BY <1>1, <2>1, <3>2, PushKeepsOrder, HasPushed
         DEF TypeOK, Frames, TickBoxes
    <3> QED
      BY <2>2, <3>1, <3>2
  <2> QED
    BY <1>1, <2>3 DEF BoxInv
<1>3. CASE PauseReturns
  <2>1. stack # <<>> /\ Return /\ UNCHANGED timer
    BY <1>3 DEF PauseReturns, Top
  <2>2. BoxesOrdered(stack') /\ (timer => ~Has(TickBoxes, stack'))
    BY <1>1, <2>1, ReturnBoxes DEF BoxInv
  <2> QED
    BY <1>1, <2>1, <2>2 DEF BoxInv
<1>4. CASE StopClick
  BY <1>1, <1>4 DEF StopClick, StopShoot, BoxInv
<1> QED
  BY <1>2, <1>3, <1>4 DEF Buttons

\* A callback of the camera leaves the handlers alone, opens a save dialog or
\* throws.
LEMMA CallbackStack ==
    Callbacks => \/ stack' = stack
                 \/ stack' = <<"saveImage">> \o stack
                 \/ "SaveError" \in Env /\ stack' = <<"fault">> \o stack
BY DEF Callbacks, DeviceRemoved, DeviceAdded, ImageReady, NoDirectory,
       CaptureComplete, Push

LEMMA CallbacksKeepBoxes == TypeOK /\ BoxInv /\ Callbacks => BoxInv'
<1> SUFFICES ASSUME TypeOK, BoxInv, Callbacks PROVE BoxInv'
  OBVIOUS
<1>1. UNCHANGED <<timer, wait>>
  BY DEF Callbacks, DeviceRemoved, DeviceAdded, ImageReady, CaptureComplete
<1>2. ASSUME NEW f \in {"saveImage", "fault"}, stack' = <<f>> \o stack
      PROVE  BoxInv'
  <2>1. BoxesOrdered(stack')
    BY <1>2, PushKeepsOrder
       DEF TypeOK, BoxInv, Frames, TickBoxes, FormFrames, StartBoxes
  <2>2. Has(TickBoxes, stack') => Has(TickBoxes, stack)
    BY <1>2, HasPushed DEF TypeOK, Frames, TickBoxes
  <2> QED
    BY <1>1, <2>1, <2>2 DEF BoxInv
<1> QED
  BY <1>1, <1>2, CallbackStack, BoxesUntouched

\* A fault opens a box that is not one of the tick's.
LEMMA FaultsKeepBoxes == TypeOK /\ BoxInv /\ Faults => BoxInv'
<1> SUFFICES ASSUME TypeOK, BoxInv, Faults PROVE BoxInv'
  OBVIOUS
<1>1. CASE FaultOk
  <2>1. stack # <<>> /\ Return /\ UNCHANGED <<timer, wait>>
    BY <1>1 DEF FaultOk, Top
  <2>2. /\ BoxesOrdered(stack')
        /\ ~Has(TickBoxes, stack) => ~Has(TickBoxes, stack')
    BY <2>1, ReturnBoxes DEF BoxInv
  <2> QED
    BY <2>1, <2>2 DEF BoxInv
<1>2. CASE PollThrows \/ WaitThrows
  <2>1. stack' = <<"fault">> \o stack /\ UNCHANGED timer /\ wait' = "none"
    BY <1>2 DEF PollThrows, WaitThrows, Throws, Push, Pumping
  <2>2. BoxesOrdered(stack')
    BY <2>1, PushKeepsOrder
       DEF TypeOK, BoxInv, Frames, TickBoxes, FormFrames, StartBoxes
  <2>3. Has(TickBoxes, stack') => Has(TickBoxes, stack)
    BY <2>1, HasPushed DEF TypeOK, Frames, TickBoxes
  <2> QED
    BY <2>1, <2>2, <2>3 DEF BoxInv
<1> QED
  BY <1>1, <1>2 DEF Faults

LEMMA NextKeepsBoxes == TypeOK /\ BoxInv /\ [Next]_vars => BoxInv'
<1>1. ASSUME BoxInv, UNCHANGED vars PROVE BoxInv'
  BY <1>1, BoxesUntouched
<1>2. ASSUME BoxInv, Controller PROVE BoxInv'
  <2>1. UNCHANGED <<timer, wait, stack>>
    BY <1>2 DEF Controller, RailMoves, TicFault, TicRecovers, PollTic
  <2> QED
    BY <1>2, <2>1, BoxesUntouched
<1> QED
  BY <1>1, <1>2, FaultsKeepBoxes, StartButtonKeepsBoxes, TickKeepsBoxes,
     WaitingKeepsBoxes,
     BoxesKeepBoxes, ButtonsKeepBoxes, CallbacksKeepBoxes DEF Next

\* BoxInv holds of every reachable state.
THEOREM BoxesInOrder == Spec => []BoxInv
<1>1. Init => BoxInv
  BY DEF Init, BoxInv, BoxesOrdered, Has
<1> QED
  BY <1>1, NextKeepsBoxes, TypeCorrect, PTL DEF Spec

\* timerProject_Tick is not re-entrant: for every choice of disturbances, of
\* restarts, pauses and boxes on boxes, the timer is off below a box of the
\* tick, and there is only one such box.
THEOREM TickIsNotReentered == Spec => []TickNotReentered
<1>1. BoxInv => TickNotReentered
  BY DEF BoxInv, BoxesOrdered, Has, TickNotReentered
<1> QED
  BY <1>1, BoxesInOrder, PTL

-----------------------------------------------------------------------------
(* Pauses, when no frame is taken by hand.                                 *)

\* The boxes about the trigger that a photographer releases by hand.
HandBoxes == {"trigger", "cancelled"}

\* The status in which a wait was begun is kept while the thread is in it, and
\* no box of a frame by hand is up, whose answer would end a pause.
PauseInv ==
    /\ wait = "startMove" => status = "Start"
    /\ wait = "moveReady" => status = "Move"
    /\ wait = "moveMove" => status = "Moving"
    /\ status # "ManualShoot" /\ prev # "ManualShoot"
    /\ ~Has(HandBoxes, stack)

LEMMA StartButtonInPause ==
    ASSUME TypeOK, PauseInv, StartButton
    PROVE  /\ PauseInv'
           /\ status = "Paused" => status' \in {"Paused", "Start"}
<1>1. /\ UNCHANGED prev /\ status' \in {status, "Start"}
      /\ wait \in {"none", "startReady"} /\ wait' \in {"none", "startReady"}
  <2>1. CASE StartClick \/ StartDialogCancel \/ LogGiveUp
    BY <2>1 DEF StartClick, StartDialogCancel, LogGiveUp, FormActive, Pumping
  <2>2. CASE StartDialogOk \/ StartWithoutLog
    BY <2>2 DEF StartDialogOk, StartWithoutLog, PrepareShoot, Pumping
  <2>3. CASE LogContinueOk \/ StartReady
    BY <2>3 DEF LogContinueOk, StartReady, PrepareShoot, Pumping
  <2> QED
    BY <2>1, <2>2, <2>3 DEF StartButton
<1>2. {"startDialog", "logContinue", "logCancel"} \subseteq Frames \ HandBoxes
  BY DEF Frames, HandBoxes
<1>3. \/ stack' = stack
      \/ stack # <<>> /\ Return
      \/ \E f \in {"startDialog", "logContinue", "logCancel"} :
            Push(f) \/ (stack # <<>> /\ Swap(f))
  BY DEF StartButton, StartClick, StartDialogCancel, StartDialogOk, StartWithoutLog,
         LogContinueOk, LogGiveUp, StartReady, PrepareShoot, Top
<1>4. ~Has(HandBoxes, stack')
  BY <1>2, <1>3, NoneAbove DEF PauseInv
<1> QED
  BY <1>1, <1>4 DEF PauseInv

LEMMA TickInPause ==
    ASSUME ~ManualShooting, TypeOK, PauseInv, Tick
    PROVE  PauseInv' /\ status # "Paused"
<1>1. wait = "none" /\ UNCHANGED prev /\ status \notin {"Paused", "ManualShoot"}
  BY DEF Tick, TickStart, TickDelay, TickDelaying, TickShoot, TickManualShoot,
         TickDownloaded, TickMove, BeginMove, ResetThenMove, TickEnd, TickIdle,
         Ticking, Pumping, PauseInv
<1>2. UNCHANGED stack
  BY <1>1 DEF Tick, TickStart, TickDelay, TickDelaying, TickShoot, TickManualShoot,
         TickDownloaded, TickMove, TickEnd, TickIdle, Ticking
<1>3. status' # "ManualShoot"
  BY <1>1 DEF Tick, TickStart, TickDelay, StartDelay, AfterNoDelay, TickDelaying,
         AfterDelay, TickShoot, TickManualShoot, TickDownloaded, TickMove, BeginMove,
         ResetThenMove, TickEnd, TickIdle, Ticking
<1>4. /\ wait' = "startMove" => status' = "Start"
      /\ wait' = "moveReady" => status' = "Move"
      /\ wait' = "moveMove" => status' = "Moving"
  BY <1>1 DEF Tick, TickStart, TickDelay, TickDelaying, TickShoot, TickManualShoot,
         TickDownloaded, TickMove, BeginMove, ResetThenMove, TickEnd, BeginHoming,
         TickIdle, Ticking
<1> QED
  BY <1>1, <1>2, <1>3, <1>4 DEF PauseInv

LEMMA WaitingInPause ==
    ASSUME TypeOK, PauseInv, Waiting
    PROVE  PauseInv' /\ (status = "Paused" => status' = "Paused")
<1>1. CASE StartMoveDone \/ MoveReady \/ MoveDone
  BY <1>1 DEF StartMoveDone, MoveReady, BeginMove, MoveDone, GoOn, PauseInv
<1>2. CASE EndReady
  BY <1>2 DEF EndReady, BeginHoming, PauseInv
<1>3. CASE EndMoveDone
  <2>1. UNCHANGED <<status, prev>> /\ wait' = "none"
    BY <1>3 DEF EndMoveDone
  <2>2. \E f \in {"exception", "completed"} : Push(f)
    BY <1>3 DEF EndMoveDone
  <2>3. ~Has(HandBoxes, stack')
    BY <2>2, NoneAbove DEF PauseInv, Frames, HandBoxes
  <2> QED
    BY <2>1, <2>3 DEF PauseInv
<1> QED
  BY <1>1, <1>2, <1>3 DEF Waiting

LEMMA BoxesInPause ==
    ASSUME TypeOK, PauseInv, Boxes
    PROVE  PauseInv' /\ UNCHANGED status
<1>1. stack # <<>> /\ Head(stack) \notin HandBoxes
  BY HasReturned DEF Boxes, TriggerOk, TriggerCancel, CancelledOk, EndBoxOk,
                     SaveImageAnswer, Top, TypeOK, PauseInv
<1>2. (EndBoxOk \/ SaveImageAnswer) /\ UNCHANGED <<status, prev, wait>> /\ Return
  BY <1>1 DEF Boxes, TriggerOk, TriggerCancel, CancelledOk, EndBoxOk,
              SaveImageAnswer, Top, HandBoxes
<1>3. ~Has(HandBoxes, stack')
  BY <1>1, <1>2, NoneAbove DEF PauseInv
<1> QED
  BY <1>2, <1>3 DEF PauseInv

LEMMA ButtonsInPause ==
    ASSUME TypeOK, PauseInv, Buttons
    PROVE  /\ PauseInv'
           /\ status = "Paused" /\ status' # "Paused" =>
                \/ text = "Resume" /\ text' = "Pause" /\ status' = prev
                \/ status' = "Idle"
<1>1. wait = "none" /\ UNCHANGED wait
  BY DEF Buttons, PauseClick, PauseReturns, StopClick, FormActive, Pumping
<1>2. \/ stack' = stack
      \/ stack # <<>> /\ Return
      \/ Push("pause")
  BY DEF Buttons, PauseClick, PauseReturns, StopClick, Top
<1>3. ~Has(HandBoxes, stack')
  BY <1>2, NoneAbove DEF PauseInv, Frames, HandBoxes
<1>4. \/ PauseOrResume
      \/ UNCHANGED <<status, prev, text>>
      \/ status' = "Idle" /\ UNCHANGED prev
  BY DEF Buttons, PauseClick, PauseReturns, StopClick, StopShoot
<1> QED
  BY <1>1, <1>3, <1>4 DEF PauseInv, PauseOrResume, Pause, Resume

LEMMA CallbacksInPause ==
    ASSUME TypeOK, PauseInv, Callbacks
    PROVE  PauseInv' /\ (status = "Paused" => status' = "Paused")
<1>1. wait = "none" /\ UNCHANGED wait
  BY DEF Callbacks, DeviceRemoved, DeviceAdded, ImageReady, CaptureComplete, Pumping
<1>2. ~Has(HandBoxes, stack')
  BY CallbackStack, NoneAbove DEF PauseInv, Frames, HandBoxes, Push
<1>3. \/ Pause
      \/ UNCHANGED <<status, prev>>
      \/ status = "Shooting" /\ status' = "Downloaded" /\ UNCHANGED prev
  BY DEF Callbacks, DeviceRemoved, DeviceAdded, ImageReady, CaptureComplete, ShotComplete
<1> QED
  BY <1>1, <1>2, <1>3 DEF PauseInv, Pause

LEMMA FaultsInPause ==
    ASSUME TypeOK, PauseInv, Faults
    PROVE  PauseInv' /\ UNCHANGED status
<1>1. UNCHANGED <<status, prev>> /\ (wait' = wait \/ wait' = "none")
  BY DEF Faults, PollThrows, WaitThrows, Throws, FaultOk
<1>2. Push("fault") \/ (stack # <<>> /\ Return)
  BY DEF Faults, PollThrows, WaitThrows, Throws, FaultOk, Top
<1>3. ~Has(HandBoxes, stack')
  BY <1>2, NoneAbove DEF PauseInv, Frames, HandBoxes
<1> QED
  BY <1>1, <1>3 DEF PauseInv

LEMMA NextInPause ==
    ASSUME ~ManualShooting, TypeOK, PauseInv, [Next]_vars
    PROVE  /\ PauseInv'
           /\ status = "Paused" /\ status' # "Paused" =>
                \/ text = "Resume" /\ text' = "Pause" /\ status' = prev
                \/ status' \in {"Idle", "Start"}
<1>1. CASE UNCHANGED vars \/ Controller
  <2>1. UNCHANGED <<status, prev, wait, stack>>
    BY <1>1 DEF Controller, RailMoves, TicFault, TicRecovers, PollTic
  <2> QED
    BY <2>1 DEF PauseInv
<1> QED
  BY <1>1, FaultsInPause, StartButtonInPause, TickInPause, WaitingInPause, BoxesInPause,
     ButtonsInPause, CallbacksInPause DEF Next

\* PauseInv holds of every reachable state.
THEOREM PausesInOrder == ASSUME ~ManualShooting PROVE Spec => []PauseInv
<1>1. Init => PauseInv
  BY DEF Init, PauseInv, Has
<1> QED
  BY <1>1, NextInPause, TypeCorrect, PTL DEF Spec

\* In a shoot without frames by hand, under every disturbance (a camera that is
\* removed during the pause, a second Start, a controller that fails, lost
\* transfers), only Resume, Stop and Start end a pause; Resume goes on with the
\* state the shoot was paused in.  With a box for the trigger it is not so: its
\* answer goes on with a shoot that the removal of the camera has paused.
THEOREM PausesHold == ASSUME ~ManualShooting PROVE Spec => PauseHolds
<1>1. TypeOK /\ PauseInv /\ [Next]_vars
        => [status = "Paused" /\ status' # "Paused" =>
             \/ text = "Resume" /\ text' = "Pause" /\ status' = prev
             \/ status' \in {"Idle", "Start"}]_vars
  BY NextInPause
<1> QED
  BY <1>1, PausesInOrder, TypeCorrect, PTL DEF Spec, PauseHolds

-----------------------------------------------------------------------------
(* The Pause button, when no status is one the camera exposes in.          *)

\* No status of these modes is Shoot: no camera is released by the program.
NoRelease == NoShooting \/ (ManualShooting /\ Delay > 0)
Releases == {"Shoot", "Shooting"}
NotFault == Frames \ {"fault"}

\* Without a pause loop a click finds no handler suspended.  Start and Pause
\* are never enabled together, so that a shoot that is paused and keeps its
\* Resume can be stopped but not started anew.
PressInv ==
    /\ status \notin Releases /\ prev \notin Releases
    /\ ~Has({"pause"}, stack)
    /\ camera.present /\ camera.images = {}
    /\ "Start" \in enabled => "Pause" \notin enabled
    /\ text = "Resume" =>
         /\ ~Has(NotFault, stack) /\ wait = "none" /\ "Start" \notin enabled
         /\ status = "Paused" \/ (status = "Idle" /\ enabled = {})

\* A click on the form is not dispatched on top of another handler.
LEMMA PressFinds == ASSUME TypeOK, PressInv, FormActive PROVE stack = <<>>
<1>1. stack \in Seq(Frames) /\ \A i \in 1..Len(stack) : stack[i] = "pause"
  BY DEF TypeOK, FormActive
<1>2. ~(1 \in 1..Len(stack))
  BY <1>1 DEF PressInv, Has
<1>3. Len(stack) = 0
  BY <1>1, <1>2
<1> QED
  BY <1>1, <1>3, EmptySeq

\* A handler of another kind than the pause loop.
LEMMA NoPauseAbove ==
    ASSUME TypeOK, PressInv,
           \/ stack' = stack
           \/ stack # <<>> /\ Return
           \/ \E f \in OtherFrames : Push(f) \/ (stack # <<>> /\ Swap(f))
    PROVE  ~Has({"pause"}, stack')
BY NoneAbove DEF PressInv, OtherFrames

\* While the button says Resume only boxes for exceptions are up.
LEMMA ResumeAboveFaults ==
    ASSUME TypeOK, PressInv, stack # <<>>, Head(stack) # "fault"
    PROVE  text # "Resume"
<1>1. stack \in Seq(Frames) /\ Head(stack) \in Frames
  BY DEF TypeOK
<1>2. Has(NotFault, stack)
  BY <1>1, HasReturned DEF NotFault
<1> QED
  BY <1>2 DEF PressInv

\* The statuses in which the button says Resume.
LEMMA PressResume ==
    PressInv /\ text = "Resume" =>
        status = "Paused" \/ (status = "Idle" /\ enabled = {})
BY DEF PressInv

LEMMA StartButtonAtPress ==
    ASSUME TypeOK, PressInv, StartButton PROVE PressInv'
<1>1. \/ stack' = stack
      \/ stack # <<>> /\ Return
      \/ \E f \in StartBoxes : Push(f) \/ (stack # <<>> /\ Swap(f))
  BY DEF StartButton, StartClick, StartDialogCancel, StartDialogOk, StartWithoutLog,
         LogContinueOk, LogGiveUp, StartReady, PrepareShoot, Top, StartBoxes
<1>2. StartBoxes \subseteq OtherFrames
  BY DEF StartBoxes, OtherFrames, Frames
<1>3. ~Has({"pause"}, stack')
  BY <1>1, <1>2, NoPauseAbove
<1>4. UNCHANGED <<prev, text, camera, enabled>> /\ status' \in {status, "Start"}
  BY DEF StartButton, StartClick, StartDialogCancel, StartDialogOk, StartWithoutLog,
         LogContinueOk, LogGiveUp, StartReady, PrepareShoot, seqVars, camVars
<1>5. text # "Resume"
  BY ResumeAboveFaults
     DEF StartButton, StartClick, StartDialogCancel, StartDialogOk,
         StartWithoutLog, LogContinueOk, LogGiveUp, StartReady, Top, PressInv
<1> QED
  BY <1>3, <1>4, <1>5 DEF PressInv, Releases

LEMMA TickAtPress ==
    ASSUME NoRelease, TypeOK, PressInv, Tick PROVE PressInv'
<1>1. \/ stack' = stack
      \/ Push("trigger")
  BY DEF Tick, TickStart, TickDelay, TickDelaying, TickShoot, TickManualShoot,
         AskForTrigger, TickDownloaded, TickMove, TickEnd, TickIdle, uiVars
<1>2. ~Has({"pause"}, stack')
  BY <1>1, NoPauseAbove DEF OtherFrames, Frames
<1>3. Delay \in Nat /\ (NoShooting \/ (ManualShooting /\ Delay > 0))
  BY DelayAssumption DEF NoRelease
<1>4. UNCHANGED <<prev, text, camera>> /\ status' \notin Releases
  <2>1. CASE TickDelay
    BY <1>3, <2>1 DEF TickDelay, StartDelay, AfterNoDelay, Releases, camVars
  <2>2. CASE TickDelaying
    BY <1>3, <2>2 DEF TickDelaying, AfterDelay, Ticking, Releases, camVars
  <2>3. CASE TickShoot
    BY <2>3 DEF TickShoot, Ticking, PressInv, Releases
  <2>4. CASE TickStart \/ TickManualShoot \/ TickDownloaded \/ TickMove \/ TickEnd
               \/ TickIdle
    BY <2>4 DEF TickStart, TickManualShoot, TickDownloaded, TickMove, BeginMove,
                ResetThenMove, TickEnd, TickIdle, Ticking, seqVars, camVars, Releases
  <2> QED
    BY <2>1, <2>2, <2>3, <2>4 DEF Tick
<1>5. \/ UNCHANGED enabled
      \/ enabled' = (enabled \ {"Start"}) \cup {"Pause", "Stop"} /\ status = "Start"
  BY DEF Tick, TickStart, TickDelay, TickDelaying, TickShoot, TickManualShoot,
         TickDownloaded, TickMove, TickEnd, TickIdle, Ticking, uiVars
<1>6. CASE text = "Resume"
  <2>1. status = "Idle" /\ enabled = {}
    BY <1>6, PressResume
       DEF Tick, TickStart, TickDelay, TickDelaying, TickShoot, TickManualShoot,
           TickDownloaded, TickMove, TickEnd, TickIdle, Ticking
  <2>2. TickIdle
    BY <2>1 DEF Tick, TickStart, TickDelay, TickDelaying, TickShoot, TickManualShoot,
         TickDownloaded, TickMove, TickEnd, TickIdle, Ticking
  <2> QED
    BY <1>2, <2>2 DEF TickIdle, PressInv, seqVars, camVars
<1> QED
  BY <1>2, <1>4, <1>5, <1>6 DEF PressInv

LEMMA WaitingAtPress ==
    ASSUME TypeOK, PressInv, Waiting PROVE PressInv'
<1>1. \/ stack' = stack
      \/ \E f \in {"exception", "completed"} : Push(f)
  BY DEF Waiting, StartMoveDone, MoveReady, MoveDone, EndReady, EndMoveDone
<1>2. ~Has({"pause"}, stack')
  BY <1>1, NoPauseAbove DEF OtherFrames, Frames
<1>3. UNCHANGED <<prev, text, camera>> /\ text # "Resume"
  BY DEF Waiting, StartMoveDone, MoveReady, MoveDone, EndReady, EndMoveDone,
         PressInv, seqVars, camVars
<1>4. status' \in {status, "Delay", "Moving"}
  BY DEF Waiting, StartMoveDone, MoveReady, BeginMove, MoveDone, GoOn, EndReady,
         EndMoveDone, seqVars
<1>5. \/ UNCHANGED enabled
      \/ enabled' = (enabled \cup {"Start"}) \ {"Stop", "Pause"}
  BY DEF Waiting, StartMoveDone, MoveReady, MoveDone, EndReady, EndMoveDone
<1> QED
  BY <1>2, <1>3, <1>4, <1>5 DEF PressInv, Releases

LEMMA BoxesAtPress ==
    ASSUME TypeOK, PressInv, Boxes PROVE PressInv'
<1>1. stack # <<>> /\ (Return \/ Swap("cancelled"))
  BY DEF Boxes, TriggerOk, TriggerCancel, CancelledOk, EndBoxOk, SaveImageAnswer, Top
<1>2. ~Has({"pause"}, stack')
  BY <1>1, NoPauseAbove DEF OtherFrames, Frames
<1>3. UNCHANGED <<prev, text, camera, enabled>> /\ text # "Resume"
  BY ResumeAboveFaults
     DEF Boxes, TriggerOk, TriggerCancel, CancelledOk, EndBoxOk,
         SaveImageAnswer, Top, seqVars, camVars
<1>4. status' \in {status, "Downloaded", "End"}
  BY DEF Boxes, TriggerOk, TriggerCancel, CancelledOk, EndBoxOk, SaveImageAnswer,
         seqVars
<1> QED
  BY <1>2, <1>3, <1>4 DEF PressInv, Releases

\* The press itself: the shoot is paused, or it was and is resumed.
LEMMA PressPauses ==
    ASSUME TypeOK, PressInv, PauseClick
    PROVE  /\ stack = <<>> /\ wait = "none" /\ UNCHANGED <<stack, wait, enabled, camera>>
           /\ "Start" \notin enabled
           /\ \/ text = "Resume" /\ status = "Paused" /\ Resume
              \/ text # "Resume" /\ Pause
<1>1. stack = <<>> /\ wait = "none"
  BY PressFinds DEF PauseClick, FormActive, Pumping
<1>2. status # "Shooting" /\ "Pause" \in enabled /\ status # "Idle"
  BY DEF PauseClick, PressInv, Releases
<1>3. PauseOrResume /\ UNCHANGED <<stack, wait, enabled, camera>>
  BY <1>2 DEF PauseClick, camVars
<1>4. text = "Resume" => status = "Paused"
  BY <1>2, PressResume
<1> QED
  BY <1>1, <1>2, <1>3, <1>4 DEF PauseOrResume, PressInv

LEMMA ButtonsAtPress ==
    ASSUME TypeOK, PressInv, Buttons PROVE PressInv'
<1>1. CASE PauseClick
  <2>1. /\ stack = <<>> /\ wait = "none" /\ "Start" \notin enabled
        /\ UNCHANGED <<stack, wait, enabled, camera>>
    BY <1>1, PressPauses
  <2>2. ~Has(NotFault, stack')
    BY <2>1 DEF Has
  <2> QED
    BY <1>1, <2>1, <2>2, PressPauses DEF PressInv, Pause, Resume, Releases
<1>2. CASE PauseReturns
  <2>1. FALSE
    BY <1>2, HasReturned DEF PauseReturns, Top, TypeOK, PressInv
  <2> QED
    BY <2>1
<1>3. CASE StopClick
  <2>1. stack = <<>> /\ wait = "none" /\ UNCHANGED <<prev, text, stack, wait, camera>>
    BY <1>3, PressFinds DEF StopClick, FormActive, Pumping, camVars
  <2>2. status' = "Idle" /\ enabled' = {}
    BY <1>3 DEF StopClick, StopShoot
  <2>3. ~Has(NotFault, stack')
    BY <2>1 DEF Has
  <2> QED
    BY <2>1, <2>2, <2>3 DEF PressInv, Releases
<1> QED
  BY <1>1, <1>2, <1>3 DEF Buttons

LEMMA CallbacksAtPress ==
    ASSUME "Unplug" \notin Env, TypeOK, PressInv, Callbacks PROVE PressInv'
<1>1. CaptureComplete
  BY DEF Callbacks, DeviceRemoved, DeviceAdded, ImageReady, PressInv
<1>2. UNCHANGED <<status, prev, text, enabled, wait, stack>>
  BY <1>1 DEF CaptureComplete, ShotComplete, PressInv, Releases, uiVars
<1>3. camera'.present = camera.present /\ camera'.images = camera.images
  BY <1>1 DEF CaptureComplete, TypeOK
<1> QED
  BY <1>2, <1>3 DEF PressInv

LEMMA FaultsAtPress ==
    ASSUME TypeOK, PressInv, Faults PROVE PressInv'
<1>1. UNCHANGED <<status, prev, text, enabled, camera>>
  BY DEF Faults, PollThrows, WaitThrows, Throws, FaultOk, seqVars, camVars
<1>2. Push("fault") \/ (stack # <<>> /\ Return)
  BY DEF Faults, PollThrows, WaitThrows, Throws, FaultOk, Top
<1>3. ~Has({"pause"}, stack')
  BY <1>2, NoPauseAbove DEF OtherFrames, Frames
<1>4. ~Has(NotFault, stack) => ~Has(NotFault, stack')
  BY <1>2, NoneAbove DEF NotFault, Frames
<1>5. wait = "none" => wait' = "none"
  BY DEF Faults, PollThrows, WaitThrows, Throws, FaultOk
<1> QED
  BY <1>1, <1>3, <1>4, <1>5 DEF PressInv

LEMMA NextAtPress ==
    ASSUME "Unplug" \notin Env, NoRelease, TypeOK, PressInv, [Next]_vars
    PROVE  PressInv'
<1>1. CASE UNCHANGED vars \/ Controller
  <2>1. UNCHANGED <<status, prev, text, enabled, wait, stack, camera>>
    BY <1>1 DEF Controller, RailMoves, TicFault, TicRecovers, PollTic, vars, seqVars,
                uiVars, camVars
  <2> QED
    BY <2>1 DEF PressInv
<1> QED
  BY <1>1, FaultsAtPress, StartButtonAtPress, TickAtPress, WaitingAtPress,
     BoxesAtPress, ButtonsAtPress, CallbacksAtPress DEF Next

\* PressInv holds of every reachable state.
THEOREM PressesInOrder ==
    ASSUME "Unplug" \notin Env, NoRelease PROVE Spec => []PressInv
<1>1. Init => PressInv
  BY DEF Init, PressInv, Has, Releases
<1> QED
  BY <1>1, NextAtPress, TypeCorrect, PTL DEF Spec

\* In a dry run and in a shoot by hand with a delay, with the camera left
\* plugged in, a press of the Pause button on a shoot that is not paused pauses
\* it: after every Stop, second Start, log that cannot be created, failed
\* controller and lost transfer.  With a shoot that the camera exposes it is not
\* so, nor with one that the removal of the camera pauses: the button keeps a
\* Resume beyond the end of the shoot, and the first press in the next one
\* resumes what is over.
THEOREM PausesPause ==
    ASSUME "Unplug" \notin Env, NoRelease PROVE Spec => PausePauses
<1>1. TypeOK /\ PressInv /\ [Next]_vars
        => [PauseClick /\ status # "Paused" /\ stack' = stack
              => status' = "Paused"]_vars
  BY PressPauses DEF Pause
<1> QED
  BY <1>1, PressesInOrder, TypeCorrect, PTL DEF Spec, PausePauses

-----------------------------------------------------------------------------
(***************************************************************************)
(* The frames of a shoot are in order, in place and rested, the rail stays *)
(* in the stack, a shoot implements FocusStack, what is reported complete  *)
(* is so, and, with an orderly camera and a sound disk, every shot is on   *)
(* the disk before the next one: for every number of shots, every step     *)
(* size and delay, every combination of modes and formats, and every depth *)
(* of nested handlers, as long as the controller and the camera stay       *)
(* connected and sound and the user neither stops the shoot nor starts it  *)
(* twice.                                                                  *)
(***************************************************************************)
\* The disturbances the theorems allow.
Calm == Env \subseteq
    {"Pause", "CaptureError", "SaveError", "LogError", "LateImages"}

-----------------------------------------------------------------------------
(* The inductive invariant.                                                *)

\* The stages of a shoot between its start and its end.
Active == {"Move", "Moving", "Delay", "Delaying", "Shoot", "Shooting",
           "ManualShoot", "Downloaded"}
Travels == {"startMove", "moveMove", "endMove"}

\* Where the rail is for the n-th frame.
Place(n) == -((n - 1) * Steps)
\* Without a camera and a photographer no frames are taken at all.
Dry == NoShooting /\ ~ManualShooting
Taken(n) == Len(photos) = IF Dry THEN 0 ELSE n

\* What a shoot that goes on with stage s knows of its frames and the rail.
OnTrack(s) ==
    /\ s \in Active => target = pos /\ shot \in 1..Shots
    /\ s = "Move" => shot # 1 /\ pos = Place(shot - 1)
    /\ s \in Active \ {"Move"} => pos = Place(shot)
    /\ s \in {"Shoot", "Shooting", "ManualShoot"} => ~Dry
    /\ s \in Active \ {"Shooting", "Downloaded"} => Taken(shot - 1)
    /\ s = "Shooting" => Taken(shot - 1) \/ Taken(shot)
    /\ s = "Downloaded" => Taken(shot)

\* The controller is sound, and the rail rests outside of the three moves.
Sound ==
    /\ op = "NORMAL"
    /\ wait \notin Travels => rail = target
    /\ wait = "moveReady" => status = "Move"
    /\ wait = "startMove" => status = "Start" /\ target = 0 /\ pos = 0
    /\ wait = "moveMove" => status = "Moving"
    /\ -((Shots - 1) * Steps) <= pos /\ pos <= 0

\* A stage is driven by the timer, by the wait for a move or by the box that
\* asks for the trigger; Start finds no active stage; and a button that still
\* says Resume resumes none.
Driven ==
    /\ Stage \in Active => timer \/ wait = "moveMove" \/ Has(HandBoxes, stack)
    /\ Stage = "Moving" => status = "Moving" /\ wait = "moveMove"
    /\ Has(HandBoxes, stack) => status = "ManualShoot"
    /\ Has(StartBoxes, stack) => ~timer /\ wait = "none" /\ Stage \notin Active
    /\ wait \in {"startReady", "endReady", "endMove"} => Stage \notin Active
    /\ text = "Resume" /\ status # "Paused" => prev \notin Active

\* Only the exposure of the shot the sequence waits for can still complete.
Awaited == camera.completing => status = "Shooting" /\ Taken(shot)

FramesInv ==
    /\ PhotosInOrder /\ PhotosAtPosition
    /\ OnTrack(Stage)
    /\ Sound
    /\ Driven
    /\ Awaited

-----------------------------------------------------------------------------
(* Arithmetic of places.                                                   *)

LEMMA PlaceNext == ASSUME NEW n \in Int PROVE Place(n + 1) = Place(n) - Steps
<1>1. Steps \in Int
  BY TravelAssumption
<1>2. ((n + 1) - 1) * Steps = (n - 1) * Steps + Steps
  BY <1>1
<1> QED
  BY <1>1, <1>2 DEF Place

LEMMA PlaceTyped == ASSUME NEW n \in Int PROVE Place(n) \in Int
BY TravelAssumption DEF Place

LEMMA PlaceBounds ==
    ASSUME NEW n \in 1..Shots
    PROVE  -((Shots - 1) * Steps) <= Place(n) /\ Place(n) <= 0
<1>1. Shots \in Nat \ {0} /\ Steps \in Nat /\ n \in Nat \ {0} /\ n <= Shots
  BY StepCountAssumption, TravelAssumption DEF Shots
<1>2. \A k, m \in Nat : k <= m => k * Steps <= m * Steps /\ 0 <= k * Steps
  BY <1>1
<1>3. (n - 1) * Steps <= (Shots - 1) * Steps /\ 0 <= (n - 1) * Steps
  BY <1>1, <1>2
<1>4. (n - 1) * Steps \in Int /\ (Shots - 1) * Steps \in Int
  BY <1>1
<1> QED
  BY <1>3, <1>4 DEF Place

\* An exposure in place of the next frame keeps the frames in order.
LEMMA NextFrame ==
    ASSUME TypeOK, PhotosInOrder, PhotosAtPosition, TakePhoto,
           Len(photos) = shot - 1, rail = Place(shot)
    PROVE  /\ PhotosInOrder' /\ PhotosAtPosition'
           /\ Len(photos') = shot
<1> DEFINE P == [shot : Nat, at : Int, settled : BOOLEAN]
<1>1. photos \in Seq(P) /\ Photo \in P /\ photos' = Append(photos, Photo)
  BY DEF TypeOK, TicTypeOK, TakePhoto, Photo
<1>2. Photo.shot = shot /\ Photo.at = rail
  BY DEF Photo
<1> HIDE DEF P
<1>3. /\ Len(photos') = Len(photos) + 1 /\ Len(photos) \in Nat
      /\ \A i \in 1..Len(photos) : photos'[i] = photos[i]
      /\ photos'[Len(photos) + 1] = Photo
  BY <1>1, AppendProperties
<1>4. shot \in Nat
  BY DEF TypeOK
<1>5. ASSUME NEW i \in 1..Len(photos')
      PROVE  photos'[i].shot = i /\ photos'[i].at = Place(photos'[i].shot)
  <2>1. CASE i \in 1..Len(photos)
    BY <1>3, <2>1 DEF PhotosInOrder, PhotosAtPosition, Place
  <2>2. CASE i = Len(photos) + 1
    BY <1>2, <1>3, <1>4, <2>2
  <2> QED
    BY <1>3, <2>1, <2>2
<1> QED
  BY <1>3, <1>4, <1>5 DEF PhotosInOrder, PhotosAtPosition, Place

-----------------------------------------------------------------------------
(* The steps.                                                              *)

USE DEF ticVars, seqVars, uiVars, camVars, histVars, vars

LEMMA InitFrames == Init => FramesInv
<1> SUFFICES ASSUME Init PROVE FramesInv
  OBVIOUS
<1>1. PhotosInOrder /\ PhotosAtPosition
  BY DEF Init, PhotosInOrder, PhotosAtPosition
<1>2. Stage = "Idle" /\ Stage \notin Active
  BY DEF Init, Stage, Active
<1>3. OnTrack(Stage)
  BY <1>2 DEF OnTrack, Active
<1>4. Sound
  <2>1. 1 \in 1..Shots
    BY StepCountAssumption DEF Shots
  <2>2. -((Shots - 1) * Steps) <= 0
    BY <2>1, PlaceBounds, StepCountAssumption, TravelAssumption DEF Shots, Place
  <2>3. op = "NORMAL" /\ rail = target /\ wait = "none" /\ pos = 0
    BY DEF Init, TicInit
  <2> QED
    BY <2>2, <2>3 DEF Sound, Travels
<1>5. ~Has(HandBoxes, stack) /\ ~Has(StartBoxes, stack)
  BY DEF Init, Has
<1>6. Driven
  BY <1>2, <1>5 DEF Init, Driven, Active
<1>7. Awaited
  BY DEF Init, Awaited
<1> QED
  BY <1>1, <1>3, <1>4, <1>6, <1>7 DEF FramesInv

\* Steps that touch nothing the invariant speaks of, but for boxes.
LEMMA Quiet ==
    ASSUME FramesInv,
           UNCHANGED <<status, prev, text, shot, pos, rail, target, op,
                       timer, wait, photos>>,
           camera'.completing => camera.completing,
           Has(HandBoxes, stack') <=> Has(HandBoxes, stack),
           Has(StartBoxes, stack') => Has(StartBoxes, stack)
    PROVE  FramesInv'
<1>1. PhotosInOrder' /\ PhotosAtPosition'
  BY DEF FramesInv, PhotosInOrder, PhotosAtPosition
<1>2. Stage' = Stage
  BY DEF Stage
<1>3. OnTrack(Stage)'
  BY <1>2 DEF FramesInv, OnTrack, Taken
<1>4. Sound'
  BY DEF FramesInv, Sound
<1>5. Driven'
  BY <1>2 DEF FramesInv, Driven
<1>6. Awaited'
  BY DEF FramesInv, Awaited, Taken
<1> QED
  BY <1>1, <1>3, <1>4, <1>5, <1>6 DEF FramesInv

\* Steps of a sound controller.
LEMMA SoundHost ==
    ASSUME Calm, Sound
    PROVE  /\ ClearErrors => op' = "NORMAL"
           /\ \A p : SetTarget(p) => target' = p
           /\ MoveEnds => rail = target
BY DEF Calm, Sound, ClearErrors, SetTarget, MoveEnds, MayHalt, Transfer

LEMMA ControllerInFrame ==
    ASSUME Calm, TypeOK, FramesInv, Controller PROVE FramesInv'
<1>1. Sound
  BY DEF FramesInv
<1>2. CASE RailMoves
  <2>1. wait \in Travels
    BY <1>1, <1>2 DEF RailMoves, RailStep, Sound
  <2>2. UNCHANGED <<status, prev, text, shot, pos, target, op, latched, polled,
                    timer, wait, stack, photos, camera>>
    BY <1>2 DEF RailMoves, RailStep
  <2>3. Sound'
    BY <1>1, <2>1, <2>2 DEF Sound
  <2>4. OnTrack(Stage)' /\ Driven' /\ Awaited'
    <3>1. Stage' = Stage
      BY <2>2 DEF Stage
    <3>2. OnTrack(Stage)'
      BY <2>2, <3>1 DEF FramesInv, OnTrack, Taken
    <3>3. Driven'
      BY <2>2, <3>1 DEF FramesInv, Driven
    <3>4. Awaited'
      BY <2>2 DEF FramesInv, Awaited, Taken
    <3> QED
      BY <3>2, <3>3, <3>4
  <2>5. PhotosInOrder' /\ PhotosAtPosition'
    BY <2>2 DEF FramesInv, PhotosInOrder, PhotosAtPosition
  <2> QED
    BY <2>3, <2>4, <2>5 DEF FramesInv
<1>3. CASE TicFault
  BY <1>3 DEF TicFault, TicFails, Calm
<1>4. CASE TicRecovers
  BY <1>1, <1>4 DEF TicRecovers, TicStartsUp, Sound
<1>5. CASE PollTic
  BY <1>5, Quiet DEF PollTic
<1> QED
  BY <1>2, <1>3, <1>4, <1>5 DEF Controller

LEMMA FaultsInFrame ==
    ASSUME Calm, TypeOK, FramesInv, Faults PROVE FramesInv'
<1>1. FaultOk
  BY DEF Faults, PollThrows, WaitThrows, Throws, Calm
<1>2. stack # <<>> /\ Head(stack) = "fault" /\ stack' = Tail(stack)
  BY <1>1 DEF FaultOk, Top, Return
<1>3. /\ Has(HandBoxes, stack') <=> Has(HandBoxes, stack)
      /\ Has(StartBoxes, stack') => Has(StartBoxes, stack)
  BY <1>2, HasReturned DEF TypeOK, HandBoxes, StartBoxes
<1> QED
  BY <1>1, <1>3, Quiet DEF FaultOk

LEMMA HandIsTickBox ==
    ASSUME NEW s
    PROVE  /\ ~Has(TickBoxes, s) => ~Has(HandBoxes, s)
           /\ ~Has(OtherFrames, s) => ~Has(HandBoxes, s) /\ ~Has(StartBoxes, s)
<1>1. HandBoxes \subseteq TickBoxes
  BY DEF HandBoxes, TickBoxes
<1>2. ~Has(TickBoxes, s) => ~Has(HandBoxes, s)
  BY <1>1 DEF Has
<1> QED
  BY <1>2, OnlyPauses

\* A stage outside of the shoot has nothing to know.
LEMMA OffTrack == ASSUME NEW s, s \notin Active PROVE OnTrack(s)
BY DEF OnTrack, Active

\* Steps without an exposure keep the frames.
LEMMA SameFrames ==
    ASSUME FramesInv, UNCHANGED photos PROVE PhotosInOrder' /\ PhotosAtPosition'
BY DEF FramesInv, PhotosInOrder, PhotosAtPosition

\* While a box of Start is up no stage of a shoot is active.
LEMMA StartInFrame ==
    ASSUME TypeOK, BoxInv, FramesInv, stack # <<>>, Head(stack) \in StartBoxes
    PROVE  /\ ~timer /\ wait = "none" /\ Stage \notin Active
           /\ ~camera.completing
           /\ text = "Resume" => prev \notin Active
           /\ ~Has(HandBoxes, stack)
           /\ Return => ~Has(HandBoxes, stack') /\ ~Has(StartBoxes, stack')
           /\ \A f \in StartBoxes : Swap(f) => ~Has(HandBoxes, stack')
<1>1. Has(StartBoxes, stack)
  BY HasReturned DEF TypeOK
<1>2. ~timer /\ wait = "none" /\ Stage \notin Active
  BY <1>1 DEF FramesInv, Driven
<1>3. ~camera.completing
  BY <1>2 DEF FramesInv, Awaited, Stage, Active
<1>4. text = "Resume" => prev \notin Active
  BY <1>2 DEF FramesInv, Driven, Stage
<1>5. ~Has(OtherFrames, Tail(stack)) /\ Tail(stack) \in Seq(Frames)
  BY ReturnKeepsOrder, ReturnedFrames DEF TypeOK, BoxInv, FormFrames
<1>6. ~Has(HandBoxes, Tail(stack)) /\ ~Has(StartBoxes, Tail(stack))
  BY <1>5, HandIsTickBox
<1>7. StartBoxes \subseteq Frames /\ StartBoxes \cap HandBoxes = {}
  BY DEF StartBoxes, HandBoxes, Frames
<1>8. ~Has(HandBoxes, stack)
  BY <1>6, <1>7, HasReturned DEF TypeOK
<1>9. ASSUME NEW f \in StartBoxes, Swap(f) PROVE ~Has(HandBoxes, stack')
  BY <1>5, <1>6, <1>7, <1>9, HasPushed DEF Swap
<1> QED
  BY <1>2, <1>3, <1>4, <1>6, <1>8, <1>9 DEF Return

\* Preparing a shoot, from the dialog or from the box about the log.
LEMMA PrepareInFrame ==
    ASSUME Calm, TypeOK, BoxInv, FramesInv, stack # <<>>,
           Head(stack) \in StartBoxes, PrepareShoot, status' \in {"Start", status},
           UNCHANGED <<rail, target, latched, polled, prev, text, shot, pos,
                       timer, camera, photos>>
    PROVE  FramesInv'
<1>1. Return /\ ClearErrors /\ wait' = "startReady"
  BY DEF PrepareShoot
<1>2. /\ ~timer /\ wait = "none" /\ Stage \notin Active /\ ~camera.completing
      /\ text = "Resume" => prev \notin Active
      /\ ~Has(HandBoxes, stack') /\ ~Has(StartBoxes, stack')
  BY <1>1, StartInFrame
<1>3. Stage' \notin Active
  BY <1>2 DEF Stage, Active
<1>4. Sound'
  BY <1>1, <1>2, SoundHost DEF FramesInv, Sound, Travels
<1>5. Driven'
  BY <1>1, <1>2, <1>3 DEF Driven, Active
<1>6. OnTrack(Stage)' /\ Awaited'
  BY <1>2, <1>3 DEF OnTrack, Active, Awaited
<1> QED
  BY <1>4, <1>5, <1>6, SameFrames DEF FramesInv

LEMMA StartButtonInFrame ==
    ASSUME Calm, TypeOK, BoxInv, FramesInv, StartButton PROVE FramesInv'
<1>1. stack \in Seq(Frames)
  BY DEF TypeOK
<1>2. CASE StartClick
  <2>1. ~timer /\ wait = "none" /\ ~Has(HandBoxes, stack)
    BY <1>2, FormEnabled, HandIsTickBox
       DEF StartClick, Calm, FormActive, Pumping
  <2>2. Stage \notin Active
    BY <2>1 DEF FramesInv, Driven
  <2>3. ~Has(HandBoxes, stack')
    BY <1>1, <1>2, <2>1, HasPushed DEF StartClick, Push, Frames, HandBoxes
  <2>4. UNCHANGED <<status, prev, text, shot, pos, rail, target, op, latched,
                    polled, timer, wait, photos, camera>>
    BY <1>2 DEF StartClick
  <2>5. Stage' = Stage
    BY <2>4 DEF Stage
  <2>6. Driven'
    BY <2>1, <2>2, <2>3, <2>4, <2>5 DEF FramesInv, Driven
  <2>7. OnTrack(Stage)' /\ Awaited'
    BY <2>2, <2>4, <2>5 DEF FramesInv, OnTrack, Active, Awaited, Taken
  <2>8. Sound'
    BY <2>4 DEF FramesInv, Sound
  <2> QED
    BY <2>4, <2>6, <2>7, <2>8, SameFrames DEF FramesInv
<1>3. CASE StartDialogCancel \/ LogGiveUp
  <2>1. stack # <<>> /\ Head(stack) \in StartBoxes /\ Return
    BY <1>3 DEF StartDialogCancel, LogGiveUp, Top, StartBoxes
  <2>2. UNCHANGED <<status, prev, text, shot, pos, rail, target, op, latched,
                    polled, timer, wait, photos, camera>>
    BY <1>3 DEF StartDialogCancel, LogGiveUp
  <2> QED
    BY <1>1, <2>1, <2>2, StartInFrame, Quiet
<1>4. CASE StartDialogOk
  BY <1>4, PrepareInFrame DEF StartDialogOk, Top, StartBoxes
<1>5. CASE LogContinueOk
  BY <1>5, PrepareInFrame DEF LogContinueOk, Top, StartBoxes
<1>6. CASE StartWithoutLog
  <2>1. stack # <<>> /\ Head(stack) \in StartBoxes
    BY <1>6 DEF StartWithoutLog, Top, StartBoxes
  <2>2. PICK f \in StartBoxes : Swap(f)
    BY <1>6 DEF StartWithoutLog, StartBoxes
  <2>3. /\ ~timer /\ wait = "none" /\ ~camera.completing
        /\ text = "Resume" => prev \notin Active
        /\ ~Has(HandBoxes, stack')
    BY <2>1, <2>2, StartInFrame
  <2>4. /\ UNCHANGED <<prev, text, shot, pos, rail, target, op, latched,
                       polled, timer, wait, photos, camera>>
        /\ status' = "Start"
    BY <1>6 DEF StartWithoutLog
  <2>5. Stage' \notin Active
    BY <2>4 DEF Stage, Active
  <2>6. Driven'
    BY <2>3, <2>4, <2>5 DEF Driven, Active
  <2>7. OnTrack(Stage)' /\ Awaited'
    BY <2>3, <2>4, <2>5 DEF OnTrack, Active, Awaited
  <2>8. Sound'
    BY <2>3, <2>4 DEF FramesInv, Sound
  <2> QED
    BY <2>4, <2>6, <2>7, <2>8, SameFrames DEF FramesInv
<1>7. CASE StartReady
  <2>1. wait = "startReady" /\ wait' = "none"
    BY <1>7 DEF StartReady
  <2>2. UNCHANGED <<status, prev, text, shot, pos, rail, target, op, stack,
                    photos, camera>>
    BY <1>7 DEF StartReady
  <2>3. Stage' = Stage /\ Stage \notin Active /\ ~Has(StartBoxes, stack)
    BY <2>1, <2>2 DEF FramesInv, Driven, Stage
  <2>4. Driven'
    BY <2>1, <2>2, <2>3 DEF FramesInv, Driven, Active
  <2>5. OnTrack(Stage)' /\ Awaited'
    BY <2>2, <2>3 DEF FramesInv, OnTrack, Active, Awaited, Taken
  <2>6. Sound'
    BY <2>1, <2>2 DEF FramesInv, Sound, Travels
  <2> QED
    BY <2>2, <2>4, <2>5, <2>6, SameFrames DEF FramesInv
<1> QED
  BY <1>2, <1>3, <1>4, <1>5, <1>6, <1>7 DEF StartButton

\* A tick runs above pause loops and save dialogs only, on an active timer.
LEMMA TickFacts ==
    ASSUME TypeOK, BoxInv, FramesInv, Tick
    PROVE  /\ timer = TRUE /\ wait = "none" /\ rail = target
           /\ status # "Paused" /\ Stage = status
           /\ ~Has(HandBoxes, stack) /\ ~Has(StartBoxes, stack)
           /\ text = "Resume" => prev \notin Active
<1>1. timer = TRUE /\ wait = "none" /\ status # "Paused"
  BY DEF Tick, TickStart, TickDelay, TickDelaying, TickShoot, TickManualShoot,
         TickDownloaded, TickMove, TickEnd, TickIdle, Ticking, Pumping, TypeOK
<1>2. ~Has(HandBoxes, stack)
  BY TickAboveNoBox, HandIsTickBox
<1>3. ~Has(StartBoxes, stack) /\ (text = "Resume" => prev \notin Active)
  BY <1>1 DEF FramesInv, Driven
<1>4. rail = target
  BY <1>1 DEF FramesInv, Sound, Travels
<1> QED
  BY <1>1, <1>2, <1>3, <1>4 DEF Stage

\* A tick that goes on to another stage, the rail at rest.
LEMMA NextStage ==
    ASSUME TypeOK, BoxInv, FramesInv, Tick, timer' = TRUE,
           UNCHANGED <<prev, text, pos, rail, target, op, latched, polled,
                       wait, stack>>,
           status' \notin {"Paused", "Moving"},
           PhotosInOrder', PhotosAtPosition', OnTrack(Stage)', Awaited'
    PROVE  FramesInv'
<1>1. /\ wait = "none" /\ rail = target
      /\ ~Has(HandBoxes, stack) /\ ~Has(StartBoxes, stack)
      /\ text = "Resume" => prev \notin Active
  BY TickFacts
<1>2. Sound'
  BY <1>1 DEF FramesInv, Sound
<1>3. Driven'
  BY <1>1 DEF Driven, Stage
<1> QED
  BY <1>2, <1>3 DEF FramesInv

\* What follows the delay.
LEMMA AfterDelays ==
    ASSUME NEW s \in {AfterDelay, AfterNoDelay}
    PROVE  s \in {"Shoot", "ManualShoot", "Downloaded"}
           /\ (s = "Downloaded" <=> Dry)
BY ModeAssumption DEF AfterDelay, AfterNoDelay, Dry

LEMMA DelayInFrame ==
    ASSUME TypeOK, BoxInv, FramesInv, Tick, TickDelay \/ TickDelaying
    PROVE  FramesInv'
<1>1. /\ timer = TRUE /\ status \in {"Delay", "Delaying"} /\ Stage = status
      /\ UNCHANGED <<prev, text, pos, rail, target, op, latched, polled,
                     timer, wait, stack, shot, photos, camera>>
  BY TickFacts DEF TickDelay, TickDelaying, StartDelay, Ticking
<1>2. status' \in {"Delaying", AfterDelay, AfterNoDelay}
  BY <1>1 DEF TickDelay, TickDelaying, StartDelay, Ticking
<1>3. /\ status' \in {"Delaying", "Shoot", "ManualShoot", "Downloaded"}
      /\ status' \in {"Shoot", "ManualShoot"} => ~Dry
      /\ status' = "Downloaded" => Dry
  BY <1>2, AfterDelays
<1>4. /\ target = pos /\ shot \in 1..Shots /\ pos = Place(shot)
      /\ Taken(shot - 1) /\ ~camera.completing
  BY <1>1 DEF FramesInv, OnTrack, Active, Awaited
<1>5. OnTrack(Stage)'
  <2>1. Stage' = status' /\ status' \in Active \ {"Move", "Shooting"}
    BY <1>3 DEF Stage, Active
  <2>2. target' = pos' /\ shot' \in 1..Shots /\ pos' = Place(shot')
    BY <1>1, <1>4
  <2>3. Taken(shot - 1)' /\ (Dry => Taken(shot)')
    BY <1>1, <1>4 DEF Taken
  <2> QED
    BY <1>3, <2>1, <2>2, <2>3 DEF OnTrack
<1>6. Awaited'
  BY <1>1, <1>4 DEF Awaited
<1>7. timer' = TRUE
  BY <1>1
<1>8. status' \notin {"Paused", "Moving"}
  BY <1>3
<1> QED
  BY <1>1, <1>5, <1>6, <1>7, <1>8, SameFrames, NextStage

LEMMA ShootInFrame ==
    ASSUME TypeOK, BoxInv, FramesInv, Tick, TickShoot PROVE FramesInv'
<1>1. /\ timer = TRUE /\ rail = target /\ status = "Shoot" /\ Stage = status
      /\ UNCHANGED <<prev, text, pos, rail, target, op, latched, polled,
                     timer, wait, stack, shot>>
      /\ status' = "Shooting"
  BY TickFacts DEF TickShoot, Ticking
<1>2. /\ target = pos /\ shot \in 1..Shots /\ pos = Place(shot) /\ ~Dry
      /\ Taken(shot - 1) /\ ~camera.completing
  BY <1>1 DEF FramesInv, OnTrack, Active, Awaited
<1>3. Len(photos) = shot - 1
  BY <1>2 DEF Taken
<1>4. /\ PhotosInOrder' /\ PhotosAtPosition' /\ Awaited'
      /\ Taken(shot - 1)' \/ Taken(shot)'
  <2>1. CASE Exposes
    <3>1. PhotosInOrder' /\ PhotosAtPosition' /\ Len(photos') = shot
      BY <1>1, <1>2, <1>3, <2>1, NextFrame DEF Exposes, FramesInv
    <3>2. Taken(shot)'
      BY <1>1, <1>2, <3>1 DEF Taken
    <3> QED
      BY <1>1, <3>1, <3>2 DEF Awaited
  <2>2. CASE ExposesNothing
    <3>1. UNCHANGED <<photos, camera>>
      BY <2>2 DEF ExposesNothing
    <3> QED
      BY <1>1, <1>2, <3>1, SameFrames DEF Taken, Awaited
  <2> QED
    BY <2>1, <2>2 DEF TickShoot
<1>5. OnTrack(Stage)'
  <2>1. Stage' = "Shooting"
    BY <1>1 DEF Stage
  <2>2. target' = pos' /\ shot' \in 1..Shots /\ pos' = Place(shot')
    BY <1>1, <1>2
  <2> QED
    BY <1>2, <1>4, <2>1, <2>2 DEF OnTrack, Active
<1>6. timer' = TRUE /\ status' \notin {"Paused", "Moving"}
  BY <1>1
<1> QED
  BY <1>1, <1>4, <1>5, <1>6, NextStage

LEMMA DownloadedInFrame ==
    ASSUME TypeOK, BoxInv, FramesInv, Tick, TickDownloaded PROVE FramesInv'
<1>1. /\ timer = TRUE /\ status = "Downloaded" /\ Stage = status
      /\ UNCHANGED <<prev, text, pos, rail, target, op, latched, polled,
                     timer, wait, stack, photos, camera>>
      /\ \/ shot < StepCount /\ shot' = shot + 1 /\ status' = "Move"
         \/ status' = "End"
  BY TickFacts DEF TickDownloaded, ShotsLeft, Ticking
<1>2. /\ target = pos /\ shot \in 1..Shots /\ pos = Place(shot)
      /\ Taken(shot) /\ ~camera.completing
  BY <1>1 DEF FramesInv, OnTrack, Active, Awaited
<1>3. OnTrack(Stage)'
  <2>1. CASE shot < StepCount /\ shot' = shot + 1 /\ status' = "Move"
    <3>1. Stage' = "Move"
      BY <2>1 DEF Stage
    <3>2. shot' \in 1..Shots /\ shot' # 1 /\ shot' - 1 = shot
      BY <1>2, <2>1, StepCountAssumption DEF Shots
    <3>3. target' = pos' /\ pos' = Place(shot' - 1)
      BY <1>1, <1>2, <3>2
    <3>4. Taken(shot - 1)'
      BY <1>1, <1>2, <3>2 DEF Taken
    <3> QED
      BY <3>1, <3>2, <3>3, <3>4 DEF OnTrack, Active
  <2>2. CASE status' = "End"
    BY <2>2 DEF Stage, OnTrack, Active
  <2> QED
    BY <1>1, <2>1, <2>2
<1>4. Awaited'
  BY <1>1, <1>2 DEF Awaited
<1>5. timer' = TRUE /\ status' \notin {"Paused", "Moving"}
  BY <1>1
<1> QED
  BY <1>1, <1>3, <1>4, <1>5, SameFrames, NextStage

\* The second part of case Move, in the tick or after the reset.
LEMMA BeginMoveInFrame ==
    ASSUME Calm, TypeOK, FramesInv, BeginMove, status = "Move",
           ~Has(HandBoxes, stack), ~Has(StartBoxes, stack),
           UNCHANGED <<rail, op, prev, text, shot, stack, camera, photos>>
    PROVE  FramesInv'
<1>1. /\ pos' = pos - Steps /\ target' = pos' /\ wait' = "moveMove"
      /\ status' = "Moving"
  BY SoundHost DEF BeginMove, FramesInv
<1>2. /\ Stage = "Move" /\ Stage' = "Moving"
      /\ text = "Resume" => prev \notin Active
  BY <1>1 DEF Stage, FramesInv, Driven
<1>3. /\ shot \in 1..Shots /\ pos = Place(shot - 1) /\ Taken(shot - 1)
      /\ ~camera.completing
  BY <1>2 DEF FramesInv, OnTrack, Active, Awaited
<1>4. pos' = Place(shot')
  <2>1. shot - 1 \in Int /\ (shot - 1) + 1 = shot
    BY <1>3, StepCountAssumption DEF Shots
  <2>2. Place(shot) = Place(shot - 1) - Steps
    BY <2>1, PlaceNext
  <2> QED
    BY <1>1, <1>3, <2>2
<1>5. OnTrack(Stage)'
  <2>1. Taken(shot - 1)'
    BY <1>3 DEF Taken
  <2> QED
    BY <1>1, <1>2, <1>3, <1>4, <2>1 DEF OnTrack, Active
<1>6. Sound'
  <2>1. -((Shots - 1) * Steps) <= pos' /\ pos' <= 0
    BY <1>3, <1>4, PlaceBounds
  <2> QED
    BY <1>1, <2>1 DEF FramesInv, Sound, Travels
<1>7. Driven'
  BY <1>1, <1>2 DEF Driven
<1>8. Awaited'
  BY <1>3 DEF Awaited
<1> QED
  BY <1>5, <1>6, <1>7, <1>8, SameFrames DEF FramesInv

LEMMA MoveInFrame ==
    ASSUME Calm, TypeOK, BoxInv, FramesInv, Tick, TickMove PROVE FramesInv'
<1>1. /\ Stage = status /\ status = "Move" /\ rail = target /\ timer = TRUE
      /\ ~Has(HandBoxes, stack) /\ ~Has(StartBoxes, stack)
      /\ text = "Resume" => prev \notin Active
  BY TickFacts DEF TickMove, Ticking
<1>2. CASE BeginMove /\ UNCHANGED op
  BY <1>1, <1>2, BeginMoveInFrame DEF TickMove
<1>3. CASE ResetThenMove
  <2>1. /\ op' = "NORMAL" /\ wait' = "moveReady"
        /\ UNCHANGED <<status, prev, text, shot, pos, rail, target, timer,
                       stack, photos, camera>>
    BY <1>3, SoundHost DEF TickMove, ResetThenMove, FramesInv
  <2>2. Stage' = Stage /\ Stage = "Move"
    BY <1>1, <2>1 DEF Stage
  <2>3. OnTrack(Stage)' /\ Awaited'
    BY <2>1, <2>2 DEF FramesInv, OnTrack, Awaited, Taken
  <2>4. Sound'
    BY <1>1, <2>1 DEF FramesInv, Sound, Travels
  <2>5. Driven'
    BY <1>1, <2>1, <2>2 DEF Driven
  <2> QED
    BY <2>1, <2>3, <2>4, <2>5, SameFrames DEF FramesInv
<1> QED
  BY <1>2, <1>3 DEF TickMove

\* Ticks that are not part of a shoot that goes on.
LEMMA StopsInFrame ==
    ASSUME Calm, TypeOK, BoxInv, FramesInv, Tick,
           TickStart \/ TickEnd \/ TickIdle
    PROVE  FramesInv'
<1>1. /\ wait = "none" /\ rail = target /\ Stage = status
      /\ ~Has(HandBoxes, stack) /\ ~Has(StartBoxes, stack)
      /\ text = "Resume" => prev \notin Active
      /\ status \in {"Start", "End", "Idle"}
  BY TickFacts DEF TickStart, TickEnd, TickIdle, Ticking
<1>2. /\ UNCHANGED <<rail, prev, text, stack, camera, photos>>
      /\ op' = "NORMAL"
      /\ \/ /\ status' = "Start" /\ pos' = 0 /\ target' = 0
            /\ wait' = "startMove"
         \/ status' = "Idle" /\ wait' = "endMove" /\ UNCHANGED pos
         \/ /\ status' = "Idle" /\ wait' \in {wait, "endReady"}
            /\ UNCHANGED <<pos, target>>
  BY <1>1, SoundHost
     DEF TickStart, TickEnd, BeginHoming, TickIdle, Ticking, FramesInv, Sound
<1>3. Stage' \notin Active
  BY <1>2 DEF Stage, Active
<1>4. ~camera.completing
  BY <1>1 DEF FramesInv, Awaited
<1>5. Sound'
  <2>1. -((Shots - 1) * Steps) <= 0
    <3>1. 1 \in 1..Shots
      BY StepCountAssumption DEF Shots
    <3> QED
      BY <3>1, PlaceBounds, StepCountAssumption, TravelAssumption
         DEF Shots, Place
  <2>2. -((Shots - 1) * Steps) <= pos' /\ pos' <= 0
    BY <1>2, <2>1 DEF FramesInv, Sound
  <2> QED
    BY <1>1, <1>2, <2>2 DEF FramesInv, Sound, Travels
<1>6. Driven'
  <2>1. Stage' # "Moving"
    BY <1>3 DEF Active
  <2> QED
    BY <1>1, <1>2, <1>3, <2>1 DEF Driven
<1>7. OnTrack(Stage)' /\ Awaited'
  BY <1>2, <1>3, <1>4 DEF OnTrack, Active, Awaited
<1> QED
  BY <1>2, <1>5, <1>6, <1>7, SameFrames DEF FramesInv

LEMMA TickInFrame ==
    ASSUME Calm, TypeOK, BoxInv, FramesInv, Tick PROVE FramesInv'
<1>1. CASE TickManualShoot
  <2>1. /\ Stage = status /\ status = "ManualShoot" /\ wait = "none"
        /\ ~Has(StartBoxes, stack) /\ (text = "Resume" => prev \notin Active)
    BY <1>1, TickFacts DEF TickManualShoot, Ticking
  <2>2. UNCHANGED <<status, prev, text, shot, pos, rail, target, op, latched,
                    polled, wait, photos, camera>>
    BY <1>1 DEF TickManualShoot, AskForTrigger
  <2>3. Has(HandBoxes, stack') /\ ~Has(StartBoxes, stack')
    BY <1>1, <2>1, HasPushed
       DEF TickManualShoot, AskForTrigger, Push, TypeOK, Frames, HandBoxes,
           StartBoxes
  <2>4. Stage' = Stage
    BY <2>2 DEF Stage
  <2>5. Driven'
    BY <2>1, <2>2, <2>3, <2>4 DEF Driven
  <2>6. OnTrack(Stage)' /\ Awaited'
    BY <2>2, <2>4 DEF FramesInv, OnTrack, Awaited, Taken
  <2>7. Sound'
    BY <2>2 DEF FramesInv, Sound
  <2> QED
    BY <2>2, <2>5, <2>6, <2>7, SameFrames DEF FramesInv
<1> QED
  BY <1>1, DelayInFrame, ShootInFrame, DownloadedInFrame, MoveInFrame,
     StopsInFrame DEF Tick

LEMMA WaitingInFrame ==
    ASSUME Calm, TypeOK, BoxInv, FramesInv, Waiting PROVE FramesInv'
<1>1. /\ Sound /\ ~Has(HandBoxes, stack)
      /\ Has(StartBoxes, stack) => wait = "none"
  BY TickAboveNoBox, HandIsTickBox DEF FramesInv, Driven
<1>2. ~Has(StartBoxes, stack)
  BY <1>1 DEF Waiting, StartMoveDone, MoveReady, MoveDone, EndReady,
              EndMoveDone
<1>3. CASE StartMoveDone
  <2>1. /\ rail = target /\ wait = "startMove"
        /\ status = "Start" /\ target = 0
    BY <1>1, <1>3, SoundHost DEF StartMoveDone, Sound
  <2>2. /\ wait' = "none" /\ pos' = 0 /\ shot' = 1 /\ status' = "Delay"
        /\ photos' = <<>>
        /\ UNCHANGED <<rail, target, op, latched, prev, text, stack, camera>>
    BY <1>3 DEF StartMoveDone
  <2>3. timer' = TRUE
    BY <1>3 DEF StartMoveDone
  <2>4. Stage' = "Delay"
    BY <2>2 DEF Stage
  <2>5. 1 \in 1..Shots /\ Place(1) = 0
    BY StepCountAssumption, TravelAssumption DEF Shots, Place
  <2>6. PhotosInOrder' /\ PhotosAtPosition' /\ Len(photos') = 0
    BY <2>2 DEF PhotosInOrder, PhotosAtPosition
  <2>7. OnTrack(Stage)'
    <3>1. Taken(shot - 1)'
      BY <2>2, <2>6 DEF Taken
    <3>2. target' = pos' /\ shot' \in 1..Shots /\ pos' = Place(shot')
      BY <2>1, <2>2, <2>5
    <3> QED
      BY <2>4, <3>1, <3>2 DEF OnTrack, Active
  <2>8. Sound'
    <3>1. -((Shots - 1) * Steps) <= 0
      BY <2>5, PlaceBounds
    <3> QED
      BY <1>1, <2>1, <2>2, <3>1 DEF Sound, Travels
  <2>9. Driven' /\ Awaited'
    <3>1. Driven'
      BY <1>1, <1>2, <2>1, <2>2, <2>3, <2>4 DEF FramesInv, Driven
    <3>2. Awaited'
      BY <2>1, <2>2 DEF FramesInv, Awaited
    <3> QED
      BY <3>1, <3>2
  <2> QED
    BY <2>6, <2>7, <2>8, <2>9 DEF FramesInv
<1>4. CASE MoveDone
  <2>1. /\ rail = target /\ wait = "moveMove" /\ status = "Moving"
    BY <1>1, <1>4, SoundHost DEF MoveDone, Arrived, Sound
  <2>2. /\ wait' = "none" /\ status' = "Delay"
        /\ UNCHANGED <<rail, target, op, latched, prev, text, stack, camera,
                       shot, pos, photos>>
    BY <1>4 DEF MoveDone, GoOn
  <2>3. timer' = TRUE
    BY <1>4 DEF MoveDone, GoOn
  <2>4. Stage = "Moving" /\ Stage' = "Delay"
    BY <2>1, <2>2 DEF Stage
  <2>5. OnTrack(Stage)'
    <3>1. /\ target = pos /\ shot \in 1..Shots /\ pos = Place(shot)
          /\ Taken(shot - 1)
      BY <2>4 DEF FramesInv, OnTrack, Active
    <3>2. Taken(shot - 1)'
      BY <2>2, <3>1 DEF Taken
    <3> QED
      BY <2>2, <2>4, <3>1, <3>2 DEF OnTrack, Active
  <2>6. Sound'
    BY <1>1, <2>1, <2>2 DEF Sound, Travels
  <2>7. Driven'
    BY <1>1, <1>2, <2>1, <2>2, <2>3, <2>4 DEF FramesInv, Driven
  <2>8. Awaited'
    BY <2>1, <2>2 DEF FramesInv, Awaited
  <2> QED
    BY <2>2, <2>5, <2>6, <2>7, <2>8, SameFrames DEF FramesInv
<1>5. CASE EndMoveDone
  <2>1. rail = target /\ wait = "endMove" /\ Stage \notin Active
    BY <1>1, <1>5, SoundHost DEF EndMoveDone, FramesInv, Driven
  <2>2. /\ wait' = "none"
        /\ UNCHANGED <<status, prev, text, shot, pos, rail, target, op,
                       latched, timer, photos, camera>>
    BY <1>5 DEF EndMoveDone
  <2>3. PICK f \in {"completed", "exception"} : Push(f)
    BY <1>5 DEF EndMoveDone
  <2>4. ~Has(HandBoxes, stack') /\ ~Has(StartBoxes, stack')
    <3>1. stack \in Seq(Frames) /\ stack' = <<f>> \o stack
      BY <2>3 DEF Push, TypeOK
    <3>2. f \in Frames /\ f \notin HandBoxes /\ f \notin StartBoxes
      BY DEF Frames, HandBoxes, StartBoxes
    <3> QED
      BY <1>1, <1>2, <3>1, <3>2, HasPushed
  <2>5. Stage' = Stage
    BY <2>2 DEF Stage
  <2>6. OnTrack(Stage)' /\ Awaited'
    BY <2>1, <2>2, <2>5 DEF FramesInv, OnTrack, Active, Awaited, Taken
  <2>7. Sound'
    BY <1>1, <2>1, <2>2 DEF Sound, Travels
  <2>8. Driven'
    <3>1. Stage' # "Moving" /\ Stage' \notin Active
      BY <2>1, <2>5 DEF Active
    <3> QED
      BY <2>2, <2>4, <3>1 DEF FramesInv, Driven
  <2> QED
    BY <2>2, <2>6, <2>7, <2>8, SameFrames DEF FramesInv
<1>6. CASE MoveReady
  <2>1. status = "Move"
    BY <1>1, <1>6 DEF MoveReady, Sound
  <2> QED
    BY <1>1, <1>2, <1>6, <2>1, BeginMoveInFrame DEF MoveReady
<1>7. CASE EndReady
  <2>1. /\ wait = "endReady" /\ wait' = "endMove" /\ Stage \notin Active
        /\ UNCHANGED <<rail, op, status, prev, text, shot, pos, timer, stack,
                       photos, camera>>
    BY <1>7 DEF EndReady, BeginHoming, FramesInv, Driven
  <2>2. Stage' = Stage
    BY <2>1 DEF Stage
  <2>3. OnTrack(Stage)' /\ Awaited'
    BY <2>1, <2>2 DEF FramesInv, OnTrack, Active, Awaited, Taken
  <2>4. Sound'
    BY <1>1, <2>1 DEF Sound, Travels
  <2>5. Driven'
    BY <1>1, <1>2, <2>1, <2>2 DEF FramesInv, Driven, Active
  <2> QED
    BY <2>1, <2>3, <2>4, <2>5, SameFrames DEF FramesInv
<1> QED
  BY <1>3, <1>4, <1>5, <1>6, <1>7 DEF Waiting

LEMMA BoxesInFrame ==
    ASSUME Calm, TypeOK, BoxInv, FramesInv, Boxes PROVE FramesInv'
<1>1. stack # <<>> /\ stack \in Seq(Frames) /\ wait = "none"
  BY DEF Boxes, TriggerOk, TriggerCancel, CancelledOk, EndBoxOk,
         SaveImageAnswer, Pumping, Top, TypeOK
<1>2. /\ Tail(stack) \in Seq(Frames)
      /\ \A F : Has(F, stack) <=> Head(stack) \in F \/ Has(F, Tail(stack))
      /\ Head(stack) \in HandBoxes => ~Has(HandBoxes, Tail(stack))
  <2>1. \A F : Has(F, stack) <=> Head(stack) \in F \/ Has(F, Tail(stack))
    BY <1>1, HasReturned
  <2>2. HandBoxes \subseteq TickBoxes
    BY DEF HandBoxes, TickBoxes
  <2>3. Head(stack) \in HandBoxes => ~Has(TickBoxes, Tail(stack))
    BY <1>1, <2>2, ReturnKeepsOrder DEF BoxInv
  <2> QED
    BY <1>1, <2>1, <2>3, HandIsTickBox, ReturnedFrames
<1>3. CASE TriggerOk \/ CancelledOk
  <2>1. /\ Has(HandBoxes, stack) /\ ~Has(HandBoxes, stack')
        /\ Has(StartBoxes, stack') => Has(StartBoxes, stack)
    BY <1>2, <1>3 DEF TriggerOk, CancelledOk, Top, Return, HandBoxes
  <2>2. /\ status = "ManualShoot" /\ Stage = status
        /\ ~Has(StartBoxes, stack')
    BY <2>1 DEF FramesInv, Driven, Stage, Active
  <2>3. /\ UNCHANGED <<prev, text, shot, pos, rail, target, op, latched,
                       polled, wait, camera>>
    BY <1>3 DEF TriggerOk, CancelledOk
  <2>4. /\ ~camera.completing /\ rail = target /\ target = pos /\ ~Dry
        /\ shot \in 1..Shots /\ pos = Place(shot) /\ Taken(shot - 1)
        /\ text = "Resume" => prev \notin Active
    BY <1>1, <2>2 DEF FramesInv, OnTrack, Active, Awaited, Sound, Travels,
                      Driven
  <2>5. Sound'
    BY <1>1, <2>3, <2>4 DEF FramesInv, Sound
  <2>6. CASE TriggerOk
    <3>1. status' = "Downloaded" /\ TakePhoto
      BY <2>6 DEF TriggerOk
    <3>2. timer' = TRUE
      BY <2>6 DEF TriggerOk
    <3>3. Stage' = "Downloaded"
      BY <3>1 DEF Stage
    <3>4. Len(photos) = shot - 1
      BY <2>4 DEF Taken
    <3>5. PhotosInOrder' /\ PhotosAtPosition' /\ Len(photos') = shot
      BY <2>4, <3>1, <3>4, NextFrame DEF FramesInv
    <3>6. Taken(shot)'
      BY <2>3, <2>4, <3>5 DEF Taken
    <3>7. OnTrack(Stage)'
      BY <2>3, <2>4, <3>3, <3>6 DEF OnTrack, Active
    <3>8. Driven'
      BY <1>1, <2>1, <2>2, <2>3, <2>4, <3>1, <3>2, <3>3 DEF Driven
    <3>9. Awaited'
      BY <2>3, <2>4 DEF Awaited
    <3> QED
      BY <2>5, <3>5, <3>7, <3>8, <3>9 DEF FramesInv
  <2>7. CASE CancelledOk
    <3>1. status' = "End" /\ UNCHANGED photos
      BY <2>7 DEF CancelledOk
    <3>2. Stage' \notin Active /\ Stage' # "Moving"
      BY <3>1 DEF Stage, Active
    <3>3. OnTrack(Stage)' /\ Awaited'
      BY <2>3, <2>4, <3>2 DEF OnTrack, Active, Awaited
    <3>4. Driven'
      BY <1>1, <2>1, <2>2, <2>3, <2>4, <3>2 DEF Driven
    <3> QED
      BY <2>5, <3>1, <3>3, <3>4, SameFrames DEF FramesInv
  <2> QED
    BY <1>3, <2>6, <2>7
<1>4. CASE TriggerCancel
  <2>1. Has(HandBoxes, stack) /\ stack' = <<"cancelled">> \o Tail(stack)
    BY <1>2, <1>4 DEF TriggerCancel, Top, Swap, HandBoxes
  <2>2. /\ Has(HandBoxes, stack')
        /\ Has(StartBoxes, stack') => Has(StartBoxes, stack)
    <3>1. /\ "cancelled" \in Frames /\ "cancelled" \in HandBoxes
          /\ "cancelled" \notin StartBoxes
      BY DEF Frames, HandBoxes, StartBoxes
    <3>2. Has(HandBoxes, <<"cancelled">> \o Tail(stack))
      BY <1>2, <3>1, HasPushed
    <3>3. Has(StartBoxes, <<"cancelled">> \o Tail(stack))
            => Has(StartBoxes, Tail(stack))
      BY <1>2, <3>1, HasPushed
    <3> QED
      BY <1>2, <2>1, <3>2, <3>3
  <2> QED
    BY <1>1, <1>4, <2>1, <2>2, Quiet DEF TriggerCancel
<1>5. CASE EndBoxOk \/ SaveImageAnswer
  <2>1. /\ Has(HandBoxes, stack') <=> Has(HandBoxes, stack)
        /\ Has(StartBoxes, stack') => Has(StartBoxes, stack)
    BY <1>2, <1>5 DEF EndBoxOk, SaveImageAnswer, Top, Return, HandBoxes
  <2> QED
    BY <1>1, <1>5, <2>1, Quiet DEF EndBoxOk, SaveImageAnswer
<1> QED
  BY <1>3, <1>4, <1>5 DEF Boxes

\* Pausing and resuming a shoot that is not exposing, on an enabled form.
LEMMA PauseInFrame ==
    ASSUME FramesInv, wait = "none", status # "Shooting", PauseOrResume,
           ~Has(HandBoxes, stack'), ~Has(StartBoxes, stack'),
           ~Has(HandBoxes, stack),
           UNCHANGED <<ticVars, shot, pos, timer, wait, photos, camera>>
    PROVE  FramesInv'
<1>1. ~camera.completing
  BY DEF FramesInv, Awaited
<1>2. Stage \in Active => timer
  BY DEF FramesInv, Driven
<1>3. Stage # "Moving"
  BY DEF FramesInv, Driven
<1>4. Stage' = Stage \/ Stage' \notin Active
  <2>1. CASE text = "Resume" /\ status = "Paused"
    BY <2>1 DEF PauseOrResume, Resume, Stage
  <2>2. CASE text = "Resume" /\ status # "Paused"
    BY <2>2 DEF PauseOrResume, Resume, Stage, FramesInv, Driven, Active
  <2>3. CASE text # "Resume"
    BY <2>3 DEF PauseOrResume, Pause, Stage, Active
  <2> QED
    BY <2>1, <2>2, <2>3
<1>5. text' = "Resume" => status' = "Paused"
  BY DEF PauseOrResume, Pause, Resume
<1>6. OnTrack(Stage)'
  <2>1. CASE Stage' = Stage
    BY <2>1 DEF FramesInv, OnTrack, Taken
  <2>2. CASE Stage' \notin Active
    BY <2>2 DEF OnTrack, Active
  <2> QED
    BY <1>4, <2>1, <2>2
<1>7. Sound'
  BY DEF FramesInv, Sound, Travels
<1>8. Driven'
  <2>1. Stage' \in Active => timer'
    BY <1>2, <1>4
  <2>2. Stage' # "Moving"
    BY <1>3, <1>4 DEF Active
  <2> QED
    BY <1>5, <2>1, <2>2 DEF Driven
<1>9. Awaited'
  BY <1>1 DEF Awaited
<1> QED
  BY <1>6, <1>7, <1>8, <1>9, SameFrames DEF FramesInv

LEMMA ButtonsInFrame ==
    ASSUME Calm, TypeOK, BoxInv, FramesInv, Buttons PROVE FramesInv'
<1>1. stack \in Seq(Frames)
  BY DEF TypeOK
<1>2. "pause" \in Frames \ (HandBoxes \cup StartBoxes)
  BY DEF Frames, HandBoxes, StartBoxes
<1>3. CASE PauseClick
  <2>1. ~Has(HandBoxes, stack) /\ ~Has(StartBoxes, stack) /\ wait = "none"
    BY <1>3, FormEnabled, HandIsTickBox DEF PauseClick, FormActive, Pumping
  <2>2. CASE status = "Shooting"
    <3>1. stack' = <<"pause">> \o stack /\ UNCHANGED <<status, prev, text>>
      BY <1>3, <2>2 DEF PauseClick, Push
    <3>2. ~Has(HandBoxes, stack') /\ ~Has(StartBoxes, stack')
      BY <1>1, <1>2, <2>1, <3>1, HasPushed
    <3> QED
      BY <1>1, <1>3, <2>1, <3>1, <3>2, Quiet DEF PauseClick
  <2>3. CASE status # "Shooting"
    BY <1>3, <2>1, <2>3, PauseInFrame DEF PauseClick
  <2> QED
    BY <2>2, <2>3
<1>4. CASE PauseReturns
  <2>1. /\ wait = "none" /\ stack # <<>> /\ Head(stack) = "pause"
        /\ status # "Shooting" /\ stack' = Tail(stack) /\ PauseOrResume
    BY <1>4 DEF PauseReturns, PauseLoopEnds, Pumping, Top, Return
  <2>2. ~Has(OtherFrames, Tail(stack))
    BY <1>1, <2>1, ReturnKeepsOrder DEF BoxInv, FormFrames
  <2>3. ~Has(HandBoxes, Tail(stack)) /\ ~Has(StartBoxes, Tail(stack))
    BY <2>2, HandIsTickBox
  <2>4. ~Has(HandBoxes, stack)
    BY <1>1, <1>2, <2>1, <2>3, HasReturned
  <2> QED
    BY <1>4, <2>1, <2>3, <2>4, PauseInFrame DEF PauseReturns
<1>5. ~StopClick
  BY DEF StopClick, Calm
<1> QED
  BY <1>3, <1>4, <1>5 DEF Buttons

LEMMA CallbacksInFrame ==
    ASSUME Calm, TypeOK, BoxInv, FramesInv, Callbacks PROVE FramesInv'
<1>1. stack \in Seq(Frames)
  BY DEF TypeOK
<1>2. ~DeviceRemoved
  BY DEF DeviceRemoved, Calm
<1>3. CASE DeviceAdded
  <2>1. camera'.completing = camera.completing
    BY <1>3 DEF DeviceAdded, TypeOK
  <2> QED
    BY <1>1, <1>3, <2>1, Quiet DEF DeviceAdded
<1>4. CASE ImageReady
  <2>1. camera'.completing = camera.completing
    BY <1>4 DEF ImageReady, TypeOK
  <2>2. {"saveImage", "fault"} \subseteq Frames \ (HandBoxes \cup StartBoxes)
    BY DEF Frames, HandBoxes, StartBoxes
  <2>3. /\ Has(HandBoxes, stack') <=> Has(HandBoxes, stack)
        /\ Has(StartBoxes, stack') <=> Has(StartBoxes, stack)
    <3>1. CASE stack' = stack
      BY <3>1
    <3>2. ASSUME NEW f \in {"saveImage", "fault"}, stack' = <<f>> \o stack
          PROVE  /\ Has(HandBoxes, stack') <=> Has(HandBoxes, stack)
                 /\ Has(StartBoxes, stack') <=> Has(StartBoxes, stack)
      BY <1>1, <2>2, <3>2, HasPushed
    <3> QED
      BY <3>1, <3>2, CallbackStack
  <2> QED
    BY <1>1, <1>4, <2>1, <2>3, Quiet DEF ImageReady
<1>5. CASE CaptureComplete
  <2>1. /\ camera.completing /\ ~camera'.completing /\ wait = "none"
        /\ UNCHANGED <<prev, text, shot, pos, rail, target, op, latched,
                       polled, timer, wait, stack, photos>>
        /\ status' = "Downloaded" \/ UNCHANGED status
    BY <1>5 DEF CaptureComplete, Pumping, TypeOK
  <2>2. status = "Shooting" /\ Taken(shot) /\ Stage = "Shooting"
    BY <2>1 DEF FramesInv, Awaited, Stage
  <2>3. CASE UNCHANGED status
    BY <1>1, <2>1, <2>3, Quiet
  <2>4. CASE status' = "Downloaded"
    <3>1. Stage' = "Downloaded"
      BY <2>4 DEF Stage
    <3>2. Taken(shot)'
      BY <2>1, <2>2 DEF Taken
    <3>3. OnTrack(Stage)'
      BY <2>1, <2>2, <3>1, <3>2 DEF FramesInv, OnTrack, Active
    <3>4. Sound'
      BY <2>1 DEF FramesInv, Sound
    <3>5. Driven'
      BY <2>1, <2>2, <3>1 DEF FramesInv, Driven, Active
    <3>6. Awaited'
      BY <2>1 DEF Awaited
    <3> QED
      BY <2>1, <3>3, <3>4, <3>5, <3>6, SameFrames DEF FramesInv
  <2> QED
    BY <2>1, <2>3, <2>4
<1> QED
  BY <1>2, <1>3, <1>4, <1>5 DEF Callbacks

LEMMA NextInFrame ==
    ASSUME Calm, TypeOK, BoxInv, FramesInv, [Next]_vars PROVE FramesInv'
<1>1. CASE UNCHANGED vars
  BY <1>1, Quiet
<1> QED
  BY <1>1, ControllerInFrame, FaultsInFrame, StartButtonInFrame, TickInFrame, WaitingInFrame,
     BoxesInFrame, ButtonsInFrame, CallbacksInFrame DEF Next

-----------------------------------------------------------------------------
(* The theorems.                                                           *)

\* FramesInv holds of every reachable state of a calm shoot.
THEOREM FramesStayOnTrack == ASSUME Calm PROVE Spec => []FramesInv
BY InitFrames, NextInFrame, TypeCorrect, BoxesInOrder, PTL DEF Spec

\* The heart of a focus stack: with the rail and the camera connected and
\* working, whenever and however often the user pauses and resumes, whatever
\* fails to be captured, saved or logged, and in whatever order the images and
\* the end of a capture arrive, the frames are taken in order, none twice and
\* none left out, ...
THEOREM FramesAreInOrder == ASSUME Calm PROVE Spec => []PhotosInOrder
BY FramesStayOnTrack, PTL DEF FramesInv

\* ... each exactly where it belongs: (k - 1) steps from the start.
THEOREM FramesAreInPlace == ASSUME Calm PROVE Spec => []PhotosAtPosition
BY FramesStayOnTrack, PTL DEF FramesInv

\* The rail is never sent outside of the stack.
THEOREM RailStaysInTheStack == ASSUME Calm PROVE Spec => []TravelBounded
<1>1. FramesInv => TravelBounded
  BY DEF FramesInv, Sound, TravelBounded
<1> QED
  BY <1>1, FramesStayOnTrack, PTL

-----------------------------------------------------------------------------
(* The delay.                                                              *)

\* What has been counted since the rail or the camera moved last: all ticks of
\* the delay while it runs, and the whole delay when the frame is due.
Rested(s) ==
    /\ s = "Delaying" => ticks < DelayTicks /\ ticks <= settled
    /\ s \in {"Shoot", "ManualShoot"} => DelayTicks <= settled
Restless(s) == s \notin {"Delaying", "Shoot", "ManualShoot"}

RestInv == PhotosSettled /\ Rested(Stage)

\* Steps that neither move anything nor count ticks, at the same stage or at
\* one that knows nothing of the delay.
LEMMA QuietRest ==
    ASSUME RestInv, UNCHANGED photos,
           \/ Restless(Stage')
           \/ Stage' = Stage /\ UNCHANGED <<ticks, settled>>
    PROVE  RestInv'
<1>1. PhotosSettled'
  BY DEF RestInv, PhotosSettled
<1>2. Rested(Stage)'
  BY DEF RestInv, Rested, Restless
<1> QED
  BY <1>1, <1>2 DEF RestInv

\* The rail moves only before the stages that know of the delay.
LEMMA ControllerInRest ==
    ASSUME Calm, FramesInv, RestInv, Controller PROVE RestInv'
<1>1. CASE RailMoves
  <2>1. wait \in Travels /\ UNCHANGED <<status, prev, photos>>
    BY <1>1 DEF FramesInv, Sound, RailMoves, RailStep
  <2>2. Restless(Stage)
    BY <2>1 DEF FramesInv, Sound, Driven, Travels, Stage, Active, Restless
  <2>3. Restless(Stage')
    BY <2>1, <2>2 DEF Stage
  <2> QED
    BY <2>1, <2>3, QuietRest
<1>2. CASE TicFault \/ TicRecovers \/ PollTic
  <2>1. UNCHANGED <<status, prev, ticks, settled, photos>>
    BY <1>2 DEF TicFault, TicRecovers, PollTic
  <2> QED
    BY <2>1, QuietRest DEF Stage
<1> QED
  BY <1>1, <1>2 DEF Controller

\* Start leads to a stage that knows nothing of the delay, or to none.
LEMMA StartButtonInRest ==
    ASSUME RestInv, StartButton PROVE RestInv'
<1>1. UNCHANGED <<photos, prev, ticks, settled>> /\ status' \in {status, "Start"}
  BY DEF StartButton, StartClick, StartDialogCancel, StartDialogOk, StartWithoutLog,
         LogContinueOk, LogGiveUp, StartReady
<1>2. status' = status => Stage' = Stage
  BY <1>1 DEF Stage
<1>3. status' = "Start" => Restless(Stage')
  BY DEF Stage, Restless
<1> QED
  BY <1>1, <1>2, <1>3, QuietRest

\* An exposure after the whole delay.
LEMMA SettledPhoto ==
    ASSUME TypeOK, PhotosSettled, DelayTicks <= settled, TakePhoto
    PROVE  PhotosSettled'
<1> DEFINE P == [shot : Nat, at : Int, settled : BOOLEAN]
<1>1. photos \in Seq(P) /\ Photo \in P /\ photos' = Append(photos, Photo)
  BY DEF TypeOK, TicTypeOK, TakePhoto, Photo
<1>2. Photo.settled
  BY DelayAssumption DEF Photo, DelayTicks, TypeOK
<1> HIDE DEF P
<1>3. /\ Len(photos') = Len(photos) + 1 /\ Len(photos) \in Nat
      /\ \A i \in 1..Len(photos) : photos'[i] = photos[i]
      /\ photos'[Len(photos) + 1] = Photo
  BY <1>1, AppendProperties
<1> QED
  BY <1>2, <1>3 DEF PhotosSettled

LEMMA TickInRest ==
    ASSUME TypeOK, RestInv, Tick PROVE RestInv'
<1>1. CASE TickStart
  BY <1>1, QuietRest DEF TickStart, Stage
<1>2. CASE TickDelay
  <2>1. UNCHANGED <<photos, settled>> /\ DelayTicks \in Nat /\ settled \in Nat
    BY <1>2, DelayAssumption DEF TickDelay, DelayTicks, TypeOK
  <2>2. CASE Delay > 0
    <3>1. Stage' = "Delaying" /\ ticks' = 0 /\ DelayTicks > 0
      BY <1>2, <2>2, DelayAssumption DEF TickDelay, StartDelay, Stage, DelayTicks
    <3>2. Rested(Stage)'
      BY <2>1, <3>1 DEF Rested, DelayTicks
    <3> QED
      BY <2>1, <3>2 DEF RestInv, PhotosSettled
  <2>3. CASE ~(Delay > 0)
    <3>1. DelayTicks = 0
      BY <2>3, DelayAssumption DEF DelayTicks
    <3>2. Stage' # "Delaying"
      BY <1>2, <2>3 DEF TickDelay, AfterNoDelay, Stage
    <3>3. Rested(Stage)'
      BY <2>1, <3>1, <3>2 DEF Rested, DelayTicks
    <3> QED
      BY <2>1, <3>3 DEF RestInv, PhotosSettled
  <2> QED
    BY <2>2, <2>3
<1>3. CASE TickDelaying
  <2>1. /\ UNCHANGED <<photos, prev>> /\ Stage = "Delaying"
        /\ ticks' = ticks + 1 /\ ticks \in Nat /\ settled \in Nat /\ DelayTicks \in Nat
        /\ settled' = IF settled < DelayTicks THEN settled + 1 ELSE settled
    BY <1>3, DelayAssumption DEF TickDelaying, Ticking, Stage, DelayTicks, TypeOK
  <2>2. ticks < DelayTicks /\ ticks <= settled
    BY <2>1 DEF RestInv, Rested
  <2>3. ticks' <= settled'
    BY <2>1, <2>2
  <2>4. CASE ticks' >= DelayTicks
    <3>1. Stage' \in {"Shoot", "ManualShoot", "Downloaded"} /\ DelayTicks <= settled'
      BY <1>3, <2>1, <2>3, <2>4 DEF TickDelaying, AfterDelay, Stage
    <3>2. Rested(Stage)'
      BY <3>1 DEF Rested, DelayTicks
    <3> QED
      BY <2>1, <3>2 DEF RestInv, PhotosSettled
  <2>5. CASE ~(ticks' >= DelayTicks)
    <3>1. Stage' = "Delaying" /\ ticks' < DelayTicks
      BY <1>3, <2>1, <2>5 DEF TickDelaying, Ticking, Stage
    <3>2. Rested(Stage)'
      BY <2>3, <3>1 DEF Rested, DelayTicks
    <3> QED
      BY <2>1, <3>2 DEF RestInv, PhotosSettled
  <2> QED
    BY <2>4, <2>5
<1>4. CASE TickShoot
  <2>1. Stage = "Shoot" /\ DelayTicks <= settled
    BY <1>4 DEF TickShoot, Ticking, Stage, RestInv, Rested
  <2>2. PhotosSettled'
    <3>1. CASE TakePhoto
      BY <2>1, <3>1, SettledPhoto DEF RestInv
    <3>2. CASE UNCHANGED photos
      BY <3>2 DEF RestInv, PhotosSettled
    <3> QED
      BY <1>4, <3>1, <3>2 DEF TickShoot, Exposes, ExposesNothing
  <2>3. Rested(Stage)'
    BY <1>4 DEF TickShoot, Stage, Rested
  <2> QED
    BY <2>2, <2>3 DEF RestInv
<1>5. CASE TickManualShoot
  BY <1>5, QuietRest DEF TickManualShoot, Stage
<1>6. CASE TickDownloaded
  <2>1. Restless(Stage') /\ UNCHANGED photos
    BY <1>6 DEF TickDownloaded, Stage, Restless
  <2> QED
    BY <2>1, QuietRest
<1>7. CASE TickMove
  <2>1. UNCHANGED <<photos, prev, ticks, settled>> /\ status' \in {"Moving", status}
    BY <1>7 DEF TickMove, ResetThenMove, BeginMove
  <2>2. status' = "Moving" => Restless(Stage')
    BY DEF Stage, Restless
  <2>3. status' = status => Stage' = Stage
    BY <2>1 DEF Stage
  <2> QED
    BY <2>1, <2>2, <2>3, QuietRest
<1>8. CASE TickEnd
  <2>1. Restless(Stage') /\ UNCHANGED photos
    BY <1>8 DEF TickEnd, Stage, Restless
  <2> QED
    BY <2>1, QuietRest
<1>9. CASE TickIdle
  BY <1>9, QuietRest DEF TickIdle, Stage
<1> QED
  BY <1>1, <1>2, <1>3, <1>4, <1>5, <1>6, <1>7, <1>8, <1>9 DEF Tick

LEMMA WaitingInRest ==
    ASSUME RestInv, Waiting PROVE RestInv'
<1>1. CASE StartMoveDone
  BY <1>1 DEF StartMoveDone, Stage, RestInv, Rested, PhotosSettled
<1>2. CASE MoveReady \/ MoveDone
  <2>1. Restless(Stage') /\ UNCHANGED photos
    BY <1>2 DEF MoveReady, BeginMove, MoveDone, GoOn, Stage, Restless
  <2> QED
    BY <2>1, QuietRest
<1>3. CASE EndReady \/ EndMoveDone
  <2>1. UNCHANGED <<status, prev, ticks, settled, photos>>
    BY <1>3 DEF EndReady, EndMoveDone
  <2> QED
    BY <2>1, QuietRest DEF Stage
<1> QED
  BY <1>1, <1>2, <1>3 DEF Waiting

\* The box for the trigger is only up when the frame is due.
LEMMA BoxesInRest ==
    ASSUME TypeOK, FramesInv, RestInv, Boxes PROVE RestInv'
<1>1. CASE TriggerOk
  <2>1. Has(HandBoxes, stack)
    BY <1>1, HasReturned DEF TriggerOk, Top, TypeOK, HandBoxes
  <2>2. Stage = "ManualShoot" /\ DelayTicks <= settled
    BY <2>1 DEF FramesInv, Driven, Stage, RestInv, Rested
  <2>3. PhotosSettled' /\ Stage' = "Downloaded"
    BY <1>1, <2>2, SettledPhoto DEF TriggerOk, RestInv, Stage
  <2> QED
    BY <2>3 DEF RestInv, Rested
<1>2. CASE CancelledOk
  <2>1. Restless(Stage') /\ UNCHANGED photos
    BY <1>2 DEF CancelledOk, Stage, Restless
  <2> QED
    BY <2>1, QuietRest
<1>3. CASE TriggerCancel \/ EndBoxOk \/ SaveImageAnswer
  <2>1. UNCHANGED <<status, prev, ticks, settled, photos>>
    BY <1>3 DEF TriggerCancel, EndBoxOk, SaveImageAnswer
  <2> QED
    BY <2>1, QuietRest DEF Stage
<1> QED
  BY <1>1, <1>2, <1>3 DEF Boxes

\* Pause and Resume keep the stage, but for a Resume of no shoot at all.
LEMMA ButtonsInRest ==
    ASSUME Calm, FramesInv, RestInv, Buttons PROVE RestInv'
<1>1. UNCHANGED <<photos, ticks, settled>>
  BY DEF Buttons, PauseClick, PauseReturns, StopClick
<1>2. CASE PauseOrResume
  <2>1. CASE text = "Resume" /\ status # "Paused"
    <3>1. prev \notin Active /\ Stage' = prev
      BY <1>2, <2>1 DEF FramesInv, Driven, PauseOrResume, Resume, Stage
    <3>2. Restless(Stage')
      BY <3>1 DEF Active, Restless
    <3> QED
      BY <1>1, <3>2, QuietRest
  <2>2. CASE text = "Resume" /\ status = "Paused"
    <3>1. Stage' = Stage
      BY <1>2, <2>2 DEF PauseOrResume, Resume, Stage
    <3> QED
      BY <1>1, <3>1, QuietRest
  <2>3. CASE text # "Resume" /\ status # "Paused"
    <3>1. Stage' = Stage
      BY <1>2, <2>3 DEF PauseOrResume, Pause, Stage
    <3> QED
      BY <1>1, <3>1, QuietRest
  <2>4. CASE text # "Resume" /\ status = "Paused"
    <3>1. Restless(Stage')
      BY <1>2, <2>4 DEF PauseOrResume, Pause, Stage, Restless
    <3> QED
      BY <1>1, <3>1, QuietRest
  <2> QED
    BY <2>1, <2>2, <2>3, <2>4
<1>3. CASE UNCHANGED <<status, prev, text>>
  BY <1>1, <1>3, QuietRest DEF Stage
<1> QED
  BY <1>2, <1>3 DEF Buttons, PauseClick, PauseReturns, StopClick, Calm

LEMMA CallbacksInRest ==
    ASSUME Calm, RestInv, Callbacks PROVE RestInv'
<1>1. ~DeviceRemoved
  BY DEF DeviceRemoved, Calm
<1>2. UNCHANGED <<photos, prev, ticks, settled>> /\ status' \in {status, "Downloaded"}
  BY <1>1 DEF Callbacks, DeviceAdded, ImageReady, CaptureComplete
<1>3. status' = "Downloaded" => Restless(Stage')
  BY DEF Stage, Restless
<1>4. status' = status => Stage' = Stage
  BY <1>2 DEF Stage
<1> QED
  BY <1>2, <1>3, <1>4, QuietRest

LEMMA FaultsInRest ==
    ASSUME RestInv, Faults PROVE RestInv'
<1>1. UNCHANGED <<status, prev, ticks, settled, photos>>
  BY DEF Faults, PollThrows, WaitThrows, Throws, FaultOk
<1> QED
  BY <1>1, QuietRest DEF Stage

LEMMA NextInRest ==
    ASSUME Calm, TypeOK, FramesInv, RestInv, [Next]_vars PROVE RestInv'
<1>1. CASE UNCHANGED vars
  BY <1>1, QuietRest DEF Stage
<1> QED
  BY <1>1, ControllerInRest, FaultsInRest, StartButtonInRest, TickInRest,
     WaitingInRest, BoxesInRest, ButtonsInRest, CallbacksInRest DEF Next

\* However the user pauses and resumes, and in whatever state, no frame is
\* exposed before the rail has stood still for the whole delay: the count of
\* ticks, which a pause keeps, is never ahead of the time that has passed.
THEOREM FramesAreSettled == ASSUME Calm PROVE Spec => []PhotosSettled
<1>1. Init => RestInv
  BY DEF Init, RestInv, PhotosSettled, Rested, Stage
<1> QED
  BY <1>1, NextInRest, FramesStayOnTrack, TypeCorrect, PTL DEF Spec, RestInv

-----------------------------------------------------------------------------
(* A shoot is a focus stack.                                               *)

Completed == {"completed"}

\* Start is enabled only while no shoot goes on, and then Pause is not.
Startable ==
    /\ camera.present
    /\ "Start" \in enabled => Stage \in Outside /\ "Pause" \notin enabled
    /\ Has(StartBoxes, stack) \/ wait = "startReady" => "Start" \in enabled
    /\ wait = "startMove" => "Start" \notin enabled

\* A button that says Resume without a pause leads out of the shoot.
Resumable ==
    /\ prev # "Paused" /\ (status = "Paused" => text = "Resume")
    /\ text = "Resume" /\ status # "Paused" => prev \in Outside

\* All frames are taken when the end is reached with the timer running.
Ended ==
    /\ Stage = "End" /\ timer => Len(photos) = FrameCount
    /\ wait \in {"endReady", "endMove"} =>
         status = "Idle" /\ Len(photos) = FrameCount
    /\ wait = "endMove" => target = 0
    /\ Has(Completed, stack) =>
         Len(photos) = FrameCount /\ rail = 0 /\ log # "open"

FocusInv == Startable /\ Resumable /\ Ended
StackStep == [Stack!Next]_(Stack!stackVars)

\* Wherever the rail goes meanwhile, a step at the same stage is one of the stack.
LEMMA TravelStep ==
    ASSUME TypeOK', UNCHANGED <<Phase, photos>> PROVE StackStep
<1>1. Stack!Travel
  BY DEF Stack!Travel, Places, TypeOK, TicTypeOK
<1> QED
  BY <1>1 DEF StackStep, Stack!Next

\* An exposure adds its place to the stack's.
LEMMA PlaceTaken ==
    ASSUME TypeOK, TypeOK', TakePhoto
    PROVE  /\ Places' = Append(Places, rail)
           /\ Len(Places) = Len(photos) /\ Len(Places) \in Nat
<1> DEFINE P == [shot : Nat, at : Int, settled : BOOLEAN]
<1>1. photos \in Seq(P) /\ Photo \in P /\ photos' = Append(photos, Photo)
  BY DEF TypeOK, TicTypeOK, TakePhoto, Photo
<1>2. Photo.at = rail /\ rail \in Int
  BY DEF Photo, TypeOK, TicTypeOK
<1>3. \A p \in P : p.at \in Int
  OBVIOUS
<1> HIDE DEF P
<1>4. /\ Len(photos') = Len(photos) + 1 /\ Len(photos) \in Nat
      /\ \A i \in 1..Len(photos) : photos'[i] = photos[i] /\ photos[i] \in P
      /\ photos'[Len(photos) + 1] = Photo
  BY <1>1, AppendProperties, ElementOfSeq
<1>5. Places \in Seq(Int) /\ Len(Places) = Len(photos)
  BY <1>3, <1>4 DEF Places
<1>6. Places' \in Seq(Int) /\ Len(Places') = Len(photos) + 1
  <2>1. \A i \in 1..Len(photos') : photos'[i] \in P
    BY <1>1, <1>4
  <2> QED
    BY <1>3, <1>4, <2>1 DEF Places
<1>7. /\ Len(Append(Places, rail)) = Len(photos) + 1
      /\ \A i \in 1..Len(photos) : Append(Places, rail)[i] = Places[i]
      /\ Append(Places, rail)[Len(photos) + 1] = rail
      /\ Append(Places, rail) \in Seq(Int)
  BY <1>2, <1>4, <1>5, AppendProperties
<1>8. \A i \in 1..(Len(photos) + 1) : Places'[i] = Append(Places, rail)[i]
  BY <1>2, <1>4, <1>7 DEF Places
<1> QED
  BY <1>4, <1>5, <1>6, <1>7, <1>8, SeqEqual

LEMMA TakeStep ==
    ASSUME TypeOK, TypeOK', TakePhoto, UNCHANGED rail,
           Len(photos) < FrameCount, rail = Place(Len(photos) + 1),
           Phase = "shooting", Phase' = "shooting"
    PROVE  StackStep
<1>1. /\ Places' = Append(Places, rail)
      /\ Len(Places) = Len(photos) /\ Len(Places) \in Nat
  BY PlaceTaken
<1>2. rail = -(Len(Places) * Steps)
  BY <1>1 DEF Place
<1>3. Stack!Take
  BY <1>1, <1>2 DEF Stack!Take
<1> QED
  BY <1>3 DEF StackStep, Stack!Next

\* All frames are taken after the last shot.
LEMMA LastTaken ==
    ASSUME NEW n \in 1..Shots
    PROVE  /\ Taken(n) /\ n = Shots => Len(photos) = FrameCount
           /\ Taken(n - 1) /\ ~Dry => Len(photos) < FrameCount
<1>1. Shots \in Nat /\ n \in Int /\ n <= Shots /\ n - 1 < Shots
  BY StepCountAssumption DEF Shots
<1>2. FrameCount = IF Dry THEN 0 ELSE Shots
  BY DEF FrameCount, Dry
<1> QED
  BY <1>1, <1>2 DEF Taken

LEMMA CompletedAlone ==
    ASSUME BoxInv, Has(Completed, stack)
    PROVE  Has(TickBoxes, stack) /\ ~timer /\ wait = "none"
<1>1. Has(TickBoxes, stack)
  BY DEF Has, Completed, TickBoxes
<1> QED
  BY <1>1 DEF BoxInv

LEMMA NotCompleted ==
    ASSUME NEW s
    PROVE  /\ ~Has(TickBoxes, s) => ~Has(Completed, s)
           /\ ~Has(OtherFrames, s) => ~Has(Completed, s) /\ ~Has(StartBoxes, s)
<1>1. ~Has(TickBoxes, s) => ~Has(Completed, s)
  BY DEF Has, Completed, TickBoxes
<1> QED
  BY <1>1, OnlyPauses

\* Steps that touch nothing the invariant speaks of, but for boxes.
LEMMA QuietFocus ==
    ASSUME TypeOK', FocusInv,
           UNCHANGED <<status, prev, text, enabled, wait, photos, rail, target, log>>,
           timer' => timer, camera'.present,
           Has(StartBoxes, stack') => Has(StartBoxes, stack),
           Has(Completed, stack') => Has(Completed, stack)
    PROVE  FocusInv' /\ StackStep
<1>1. Stage' = Stage
  BY DEF Stage
<1>2. Startable' /\ Resumable' /\ Ended'
  BY <1>1 DEF FocusInv, Startable, Resumable, Ended, FrameCount
<1>3. StackStep
  BY <1>1, TravelStep DEF Phase
<1> QED
  BY <1>2, <1>3 DEF FocusInv

LEMMA ControllerInFocus ==
    ASSUME Calm, TypeOK', BoxInv, FramesInv, FocusInv, Controller
    PROVE  FocusInv' /\ StackStep
<1>1. CASE RailMoves
  <2>1. /\ UNCHANGED <<status, prev, text, enabled, wait, photos, target, log,
                       timer, camera, stack>>
        /\ wait \in Travels
    BY <1>1 DEF RailMoves, RailStep, FramesInv, Sound
  <2>2. ~Has(Completed, stack) /\ Stage' = Stage
    BY <2>1, CompletedAlone DEF Travels, Stage
  <2>3. Startable' /\ Resumable' /\ Ended'
    BY <2>1, <2>2 DEF FocusInv, Startable, Resumable, Ended
  <2>4. StackStep
    BY <2>1, <2>2, TravelStep DEF Phase
  <2> QED
    BY <2>3, <2>4 DEF FocusInv
<1>2. CASE TicFault \/ TicRecovers \/ PollTic
  <2>1. /\ UNCHANGED <<status, prev, text, enabled, wait, photos, rail, target,
                       log, timer, camera, stack>>
    BY <1>2 DEF TicFault, TicFails, TicRecovers, TicStartsUp, PollTic
  <2> QED
    BY <2>1, QuietFocus DEF FocusInv, Startable
<1> QED
  BY <1>1, <1>2 DEF Controller

\* While a box of Start is up no shoot goes on, nor has one just completed.
LEMMA StartInFocus ==
    ASSUME TypeOK, BoxInv, FocusInv, stack # <<>>, Head(stack) \in StartBoxes
    PROVE  /\ "Start" \in enabled /\ Stage \in Outside
           /\ Return => ~Has(Completed, stack') /\ ~Has(StartBoxes, stack')
           /\ \A f \in StartBoxes : Swap(f) => ~Has(Completed, stack')
<1>1. Has(StartBoxes, stack)
  BY HasReturned DEF TypeOK
<1>2. ~Has(OtherFrames, Tail(stack)) /\ Tail(stack) \in Seq(Frames)
  BY ReturnKeepsOrder, ReturnedFrames DEF TypeOK, BoxInv, FormFrames
<1>3. ~Has(Completed, Tail(stack)) /\ ~Has(StartBoxes, Tail(stack))
  BY <1>2, NotCompleted
<1>4. StartBoxes \subseteq Frames \ Completed
  BY DEF StartBoxes, Completed, Frames
<1>5. ASSUME NEW f \in StartBoxes, Swap(f) PROVE ~Has(Completed, stack')
  BY <1>2, <1>3, <1>4, <1>5, HasPushed DEF Swap
<1> QED
  BY <1>1, <1>3, <1>5 DEF FocusInv, Startable, Return

LEMMA StartButtonInFocus ==
    ASSUME TypeOK, TypeOK', BoxInv, FramesInv, FocusInv, StartButton
    PROVE  FocusInv' /\ StackStep
<1>1. camera.present /\ UNCHANGED <<prev, text, enabled, photos, rail, target, camera>>
  BY DEF StartButton, StartClick, StartDialogCancel, StartDialogOk, StartWithoutLog,
         LogContinueOk, LogGiveUp, StartReady, PrepareShoot, FocusInv, Startable
<1>2. CASE StartClick
  <2>1. "Start" \in enabled /\ UNCHANGED <<status, timer, wait, log>>
    BY <1>2 DEF StartClick
  <2>2. ~Has(Completed, stack)
    BY <1>2, FormEnabled, NotCompleted DEF StartClick
  <2>3. ~Has(Completed, stack')
    BY <1>2, <2>2, HasPushed DEF StartClick, Push, TypeOK, Frames, Completed
  <2>4. Stage' = Stage
    BY <1>1, <2>1 DEF Stage
  <2>5. Startable' /\ Resumable' /\ Ended'
    BY <1>1, <2>1, <2>3, <2>4 DEF FocusInv, Startable, Resumable, Ended
  <2>6. StackStep
    BY <1>1, <2>1, <2>4, TravelStep DEF Phase
  <2> QED
    BY <2>5, <2>6 DEF FocusInv
<1>3. CASE StartDialogCancel \/ LogGiveUp
  <2>1. stack # <<>> /\ Head(stack) \in StartBoxes /\ Return
    BY <1>3 DEF StartDialogCancel, LogGiveUp, Top, StartBoxes
  <2>2. UNCHANGED <<status, timer, wait, log>>
    BY <1>3 DEF StartDialogCancel, LogGiveUp
  <2> QED
    BY <1>1, <2>1, <2>2, StartInFocus, QuietFocus
<1>4. CASE StartDialogOk \/ StartWithoutLog \/ LogContinueOk
  <2>1. stack # <<>> /\ Head(stack) \in StartBoxes
    BY <1>4 DEF StartDialogOk, StartWithoutLog, LogContinueOk, Top, StartBoxes
  <2>2. /\ status' \in {"Start", status} /\ UNCHANGED timer
        /\ wait = "none" /\ wait' \in {"none", "startReady"}
        /\ Return \/ \E f \in StartBoxes : Swap(f)
    BY <1>4 DEF StartDialogOk, StartWithoutLog, LogContinueOk, PrepareShoot, Pumping,
                StartBoxes
  <2>3. "Start" \in enabled /\ Stage \in Outside /\ ~Has(Completed, stack')
    BY <2>1, <2>2, StartInFocus
  <2>4. Stage' \in Outside
    BY <1>1, <2>2, <2>3 DEF Stage, Outside
  <2>5. Resumable'
    BY <1>1, <2>2, <2>3 DEF FocusInv, Resumable, Stage
  <2>6. Startable' /\ Ended'
    BY <1>1, <2>2, <2>3, <2>4 DEF FocusInv, Startable, Ended, Outside
  <2>7. StackStep
    BY <1>1, <2>2, <2>3, <2>4, TravelStep DEF Phase, Homing
  <2> QED
    BY <2>5, <2>6, <2>7 DEF FocusInv
<1>5. CASE StartReady
  <2>1. wait = "startReady" /\ wait' = "none" /\ UNCHANGED <<status, stack, log>>
    BY <1>5 DEF StartReady
  <2>2. Stage' = Stage /\ Stage \in Outside /\ ~Has(Completed, stack)
    BY <1>1, <2>1, CompletedAlone DEF FocusInv, Startable, Stage
  <2>3. Startable' /\ Resumable' /\ Ended'
    BY <1>1, <2>1, <2>2 DEF FocusInv, Startable, Resumable, Ended, Outside
  <2>4. StackStep
    BY <1>1, <2>1, <2>2, TravelStep DEF Phase, Homing
  <2> QED
    BY <2>3, <2>4 DEF FocusInv
<1> QED
  BY <1>2, <1>3, <1>4, <1>5 DEF StartButton

LEMMA TickInFocus ==
    ASSUME Calm, TypeOK, TypeOK', BoxInv, FramesInv, FocusInv, Tick
    PROVE  FocusInv' /\ StackStep
<1>1. /\ timer = TRUE /\ wait = "none" /\ rail = target
      /\ status # "Paused" /\ Stage = status
      /\ ~Has(StartBoxes, stack) /\ ~Has(Completed, stack)
      /\ UNCHANGED <<prev, text, rail, log>> /\ status' # "Paused"
      /\ text = "Resume" => prev \in Outside
  <2>1. UNCHANGED <<prev, text, rail, log>>
    BY DEF Tick, TickStart, TickDelay, TickDelaying, TickShoot, TickManualShoot,
           TickDownloaded, TickMove, TickEnd, TickIdle
  <2>2. status' # "Paused"
    BY TickFacts DEF Tick, TickStart, TickDelay, StartDelay, AfterNoDelay, TickDelaying,
           AfterDelay, TickShoot, TickManualShoot, TickDownloaded, TickMove,
           ResetThenMove, BeginMove, TickEnd, TickIdle
  <2> QED
    BY <2>1, <2>2, TickFacts, CompletedAlone DEF FocusInv, Resumable
<1>2. ~Has(StartBoxes, stack') /\ ~Has(Completed, stack')
  <2>1. stack' = stack \/ stack' = <<"trigger">> \o stack
    BY DEF Tick, TickStart, TickDelay, TickDelaying, TickShoot, TickManualShoot,
           AskForTrigger, Push, TickDownloaded, TickMove, TickEnd, TickIdle
  <2>2. "trigger" \in Frames /\ "trigger" \notin StartBoxes \cup Completed
    BY DEF Frames, StartBoxes, Completed
  <2> QED
    BY <1>1, <2>1, <2>2, HasPushed DEF TypeOK
<1>3. Stage' = status' /\ Resumable'
  BY <1>1 DEF Stage, Resumable, FocusInv
<1>4. ASSUME status \notin Outside, status' \notin Outside, UNCHANGED enabled,
             wait' \notin {"startReady", "startMove", "endMove", "endReady"},
             camera'.present, status' = "End" => Len(photos') = FrameCount
      PROVE  FocusInv' /\ (StackStep \/ (Phase = "shooting" /\ Phase' = "shooting"))
  <2>1. "Start" \notin enabled
    BY <1>1, <1>4 DEF FocusInv, Startable
  <2>2. Phase = "shooting" /\ Phase' = "shooting"
    BY <1>1, <1>3, <1>4 DEF Phase, Homing
  <2>3. FrameCount' = FrameCount
    BY DEF FrameCount
  <2>4. Startable' /\ Ended'
    BY <1>2, <1>3, <1>4, <2>1, <2>3 DEF Startable, Ended
  <2> QED
    BY <1>3, <2>2, <2>4 DEF FocusInv
<1>5. CASE TickStart
  <2>1. /\ status = "Start" /\ UNCHANGED <<status, photos, camera>>
        /\ "Start" \notin enabled' /\ wait' = "startMove"
    BY <1>5 DEF TickStart, Ticking
  <2>2. Startable' /\ Ended'
    BY <1>1, <1>2, <1>3, <2>1 DEF FocusInv, Startable, Ended
  <2>3. StackStep
    BY <1>1, <1>3, <2>1, TravelStep DEF Phase, Homing
  <2> QED
    BY <1>3, <2>2, <2>3 DEF FocusInv
<1>6. CASE TickDelay \/ TickDelaying \/ TickManualShoot \/ TickMove
  <2>1. /\ status \in {"Delay", "Delaying", "ManualShoot", "Move"}
        /\ UNCHANGED <<enabled, camera, photos>>
    BY <1>6 DEF TickDelay, TickDelaying, TickManualShoot, TickMove, Ticking
  <2>2. /\ status' \in {"Delaying", AfterDelay, AfterNoDelay, status, "Moving"}
        /\ wait' \in {"none", "moveReady", "moveMove"}
    BY <1>1, <1>6 DEF TickDelay, StartDelay, TickDelaying, TickManualShoot,
                      TickMove, ResetThenMove, BeginMove
  <2>3. status \notin Outside /\ status' \notin Outside /\ status' # "End"
    BY <2>1, <2>2, AfterDelays DEF Outside
  <2>4. FocusInv' /\ (StackStep \/ (Phase = "shooting" /\ Phase' = "shooting"))
    BY <1>4, <2>1, <2>2, <2>3 DEF FocusInv, Startable
  <2> QED
    BY <2>1, <2>4, TravelStep
<1>7. CASE TickShoot
  <2>1. /\ status = "Shoot" /\ status' = "Shooting" /\ UNCHANGED <<enabled, wait>>
    BY <1>7 DEF TickShoot, Ticking
  <2>2. camera'.present
    BY <1>7 DEF TickShoot, Exposes, ExposesNothing, FocusInv, Startable
  <2>3. FocusInv' /\ (StackStep \/ (Phase = "shooting" /\ Phase' = "shooting"))
    BY <1>1, <1>4, <2>1, <2>2 DEF Outside
  <2>4. CASE UNCHANGED photos
    BY <2>3, <2>4, TravelStep
  <2>5. CASE TakePhoto
    <3>1. /\ target = pos /\ shot \in 1..Shots /\ pos = Place(shot) /\ ~Dry
          /\ Taken(shot - 1)
      BY <1>1, <2>1 DEF FramesInv, OnTrack, Active
    <3>2. Len(photos) + 1 = shot /\ Len(photos) < FrameCount
      BY <3>1, LastTaken, StepCountAssumption DEF Taken, Shots
    <3> QED
      BY <1>1, <2>3, <2>5, <3>1, <3>2, TakeStep
  <2> QED
    BY <1>7, <2>3, <2>4, <2>5 DEF TickShoot, Exposes, ExposesNothing
<1>8. CASE TickDownloaded
  <2>1. /\ status = "Downloaded" /\ UNCHANGED <<enabled, wait, camera, photos>>
        /\ status' = "Move" \/ (status' = "End" /\ ~ShotsLeft)
    BY <1>8 DEF TickDownloaded, Ticking
  <2>2. status' = "End" => Len(photos') = FrameCount
    <3>1. shot \in 1..Shots /\ Taken(shot)
      BY <1>1, <2>1 DEF FramesInv, OnTrack, Active
    <3>2. ~ShotsLeft => shot = Shots
      BY <3>1, StepCountAssumption DEF ShotsLeft, Shots
    <3> QED
      BY <2>1, <3>1, <3>2, LastTaken
  <2>3. FocusInv' /\ (StackStep \/ (Phase = "shooting" /\ Phase' = "shooting"))
    BY <1>1, <1>4, <2>1, <2>2 DEF Outside, FocusInv, Startable
  <2> QED
    BY <2>1, <2>3, TravelStep
<1>9. CASE TickEnd
  <2>1. /\ status = "End" /\ status' = "Idle" /\ UNCHANGED <<enabled, camera, photos>>
        /\ Len(photos) = FrameCount
        /\ wait' = "endReady" \/ (wait' = "endMove" /\ target' = 0)
    BY <1>1, <1>9, SoundHost
       DEF TickEnd, Ticking, BeginHoming, FramesInv, Sound, FocusInv, Ended
  <2>2. FrameCount' = FrameCount
    BY DEF FrameCount
  <2>3. Startable' /\ Ended'
    BY <1>1, <1>2, <1>3, <2>1, <2>2 DEF FocusInv, Startable, Ended, Outside
  <2>4. Phase = "shooting" /\ Phase' = "homing"
    BY <1>1, <2>1 DEF Phase, Homing, Outside
  <2>5. Stack!Finish
    <3>1. UNCHANGED Places /\ Len(Places) = Len(photos)
      BY <2>1 DEF Places, TypeOK
    <3> QED
      BY <1>1, <2>1, <2>4, <3>1 DEF Stack!Finish
  <2> QED
    BY <1>3, <2>3, <2>5 DEF FocusInv, StackStep, Stack!Next
<1>10. CASE TickIdle
  <2>1. /\ UNCHANGED <<status, enabled, wait, photos, target, camera>> /\ ~timer'
    BY <1>10 DEF TickIdle
  <2> QED
    BY <1>1, <1>2, <2>1, QuietFocus DEF FocusInv, Startable
<1> QED
  BY <1>5, <1>6, <1>7, <1>8, <1>9, <1>10 DEF Tick

LEMMA WaitingInFocus ==
    ASSUME Calm, TypeOK, TypeOK', BoxInv, FramesInv, FocusInv, Waiting
    PROVE  FocusInv' /\ StackStep
<1>1. Sound /\ ~Has(Completed, stack) /\ UNCHANGED <<prev, text, rail, camera>>
  BY TickAboveNoBox, NotCompleted DEF FramesInv, Waiting, StartMoveDone, MoveReady,
     BeginMove, MoveDone, EndReady, BeginHoming, EndMoveDone
<1>2. ~Has(StartBoxes, stack)
  BY DEF Waiting, StartMoveDone, MoveReady, MoveDone, EndReady, EndMoveDone,
         FramesInv, Driven
<1>3. CASE StartMoveDone \/ MoveDone
  <2>1. /\ status \in {"Start", "Moving"} /\ status' = "Delay" /\ wait' = "none"
        /\ UNCHANGED <<enabled, stack>> /\ "Start" \notin enabled
    BY <1>1, <1>3 DEF StartMoveDone, MoveDone, GoOn, Sound, FocusInv, Startable, Stage,
                      Outside
  <2>2. Stage = status /\ Stage' = "Delay"
    BY <2>1 DEF Stage
  <2>3. Startable' /\ Resumable' /\ Ended'
    BY <1>1, <1>2, <2>1, <2>2 DEF FocusInv, Startable, Resumable, Ended
  <2>4. CASE StartMoveDone
    <3>1. rail = 0 /\ photos' = <<>> /\ Phase = "idle" /\ Phase' = "shooting"
      BY <1>1, <2>1, <2>2, <2>4, SoundHost
         DEF StartMoveDone, Sound, Phase, Homing, Outside
    <3>2. Places' = <<>>
      BY <3>1 DEF Places
    <3>3. Stack!Begin
      BY <1>1, <3>1, <3>2 DEF Stack!Begin
    <3> QED
      BY <2>3, <3>3 DEF FocusInv, StackStep, Stack!Next
  <2>5. CASE MoveDone
    <3>1. status = "Moving" /\ wait = "moveMove" /\ UNCHANGED photos
      BY <1>1, <2>5 DEF MoveDone, Sound
    <3>2. UNCHANGED Phase
      BY <2>1, <2>2, <3>1 DEF Phase, Homing, Outside
    <3> QED
      BY <2>3, <3>1, <3>2, TravelStep DEF FocusInv
  <2> QED
    BY <1>3, <2>4, <2>5
<1>4. CASE EndMoveDone
  <2>1. /\ wait = "endMove" /\ wait' = "none" /\ rail = target
        /\ enabled' = (enabled \cup {"Start"}) \ {"Stop", "Pause"}
        /\ UNCHANGED <<status, photos, timer>>
        /\ log' # "open"
    BY <1>1, <1>4, SoundHost DEF EndMoveDone, CloseLog, TypeOK
  <2>2. /\ status = "Idle" /\ rail = 0 /\ Len(photos) = FrameCount
        /\ FrameCount' = FrameCount /\ Stage = "Idle" /\ Stage' = "Idle"
    BY <2>1 DEF FocusInv, Ended, FrameCount, Stage
  <2>3. Startable' /\ Resumable'
    BY <1>1, <2>1, <2>2 DEF FocusInv, Startable, Resumable, Outside
  <2>4. Ended'
    BY <1>1, <2>1, <2>2 DEF Ended
  <2>5. Phase = "homing" /\ Phase' = "idle"
    BY <2>1, <2>2 DEF Phase, Homing, Outside
  <2>6. Stack!Home
    BY <1>1, <2>1, <2>2, <2>5 DEF Stack!Home, Places
  <2> QED
    BY <2>3, <2>4, <2>6 DEF FocusInv, StackStep, Stack!Next
<1>5. CASE MoveReady
  <2>1. /\ status = "Move" /\ status' = "Moving" /\ wait = "moveReady"
        /\ wait' = "moveMove" /\ UNCHANGED <<enabled, stack, photos>>
    BY <1>1, <1>5 DEF MoveReady, BeginMove, Sound
  <2>2. Stage = "Move" /\ Stage' = "Moving" /\ FrameCount' = FrameCount
    BY <2>1 DEF Stage, FrameCount
  <2>3. Startable' /\ Resumable' /\ Ended'
    BY <1>1, <1>2, <2>1, <2>2
       DEF FocusInv, Startable, Resumable, Ended, Outside
  <2>4. UNCHANGED Phase
    BY <2>1, <2>2 DEF Phase, Homing, Outside
  <2> QED
    BY <2>1, <2>3, <2>4, TravelStep DEF FocusInv
<1>6. CASE EndReady
  <2>1. /\ wait = "endReady" /\ wait' = "endMove" /\ target' = 0
        /\ UNCHANGED <<status, timer, enabled, stack, photos>>
    BY <1>1, <1>6, SoundHost DEF EndReady, BeginHoming
  <2>2. Stage' = Stage /\ FrameCount' = FrameCount
    BY <1>1, <2>1 DEF Stage, FrameCount
  <2>3. Startable' /\ Resumable' /\ Ended'
    BY <1>1, <1>2, <2>1, <2>2 DEF FocusInv, Startable, Resumable, Ended
  <2>4. UNCHANGED Phase
    BY <2>1, <2>2 DEF Phase, Homing
  <2> QED
    BY <2>1, <2>3, <2>4, TravelStep DEF FocusInv
<1> QED
  BY <1>3, <1>4, <1>5, <1>6 DEF Waiting

LEMMA FaultsInFocus ==
    ASSUME Calm, TypeOK, TypeOK', FocusInv, Faults
    PROVE  FocusInv' /\ StackStep
<1>1. FaultOk
  BY DEF Faults, PollThrows, WaitThrows, Throws, Calm
<1>2. stack # <<>> /\ stack' = Tail(stack)
  BY <1>1 DEF FaultOk, Top, Return
<1>3. /\ Has(StartBoxes, stack') => Has(StartBoxes, stack)
      /\ Has(Completed, stack') => Has(Completed, stack)
  BY <1>2, HasReturned DEF TypeOK
<1> QED
  BY <1>1, <1>3, QuietFocus DEF FaultOk, FocusInv, Startable

LEMMA BoxesInFocus ==
    ASSUME Calm, TypeOK, TypeOK', BoxInv, FramesInv, FocusInv, Boxes
    PROVE  FocusInv' /\ StackStep
<1>1. stack # <<>> /\ stack \in Seq(Frames) /\ wait = "none"
      /\ UNCHANGED <<prev, text, enabled, wait, rail, target, log, camera>>
  BY DEF Boxes, TriggerOk, TriggerCancel, CancelledOk, EndBoxOk, SaveImageAnswer,
         Pumping, Top, TypeOK
<1>2. /\ Tail(stack) \in Seq(Frames)
      /\ \A F : Has(F, stack) <=> Head(stack) \in F \/ Has(F, Tail(stack))
  BY <1>1, HasReturned, ReturnedFrames
<1>3. CASE TriggerOk \/ CancelledOk
  <2>1. Has(HandBoxes, stack) /\ stack' = Tail(stack) /\ Head(stack) \in TickBoxes
    BY <1>2, <1>3 DEF TriggerOk, CancelledOk, Top, Return, HandBoxes, TickBoxes
  <2>2. /\ status = "ManualShoot" /\ Stage = status /\ ~timer
        /\ ~Has(StartBoxes, stack) /\ "Start" \notin enabled
        /\ text = "Resume" => prev \in Outside
    BY <1>2, <2>1 DEF FramesInv, Driven, Stage, Active, BoxInv, FocusInv, Startable,
                      Resumable, Outside
  <2>3. ~Has(Completed, stack') /\ ~Has(StartBoxes, stack')
    <3>1. ~Has(TickBoxes, Tail(stack))
      BY <1>1, <2>1, ReturnKeepsOrder DEF BoxInv
    <3> QED
      BY <1>2, <2>1, <2>2, <3>1, NotCompleted
  <2>4. /\ status' \in {"Downloaded", "End"} /\ Stage' = status'
        /\ status' = "End" => ~timer' /\ UNCHANGED photos
    BY <1>3, <2>2 DEF TriggerOk, CancelledOk, Stage
  <2>5. Startable' /\ Resumable'
    BY <1>1, <2>2, <2>3, <2>4 DEF FocusInv, Startable, Resumable
  <2>6. Ended'
    BY <1>1, <2>3, <2>4 DEF Ended
  <2>7. Phase = "shooting" /\ Phase' = "shooting"
    BY <1>1, <2>2, <2>4 DEF Phase, Homing, Outside
  <2>8. CASE TriggerOk
    <3>1. /\ target = pos /\ shot \in 1..Shots /\ pos = Place(shot) /\ ~Dry
          /\ Taken(shot - 1) /\ rail = target
      BY <1>1, <2>2 DEF FramesInv, OnTrack, Active, Sound, Travels
    <3>2. Len(photos) + 1 = shot /\ Len(photos) < FrameCount
      BY <3>1, LastTaken, StepCountAssumption DEF Taken, Shots
    <3>3. TakePhoto
      BY <2>8 DEF TriggerOk
    <3>4. StackStep
      BY <1>1, <2>7, <3>1, <3>2, <3>3, TakeStep
    <3> QED
      BY <2>5, <2>6, <3>4 DEF FocusInv
  <2>9. CASE CancelledOk
    <3>1. StackStep
      BY <2>7, <2>9, TravelStep DEF CancelledOk
    <3> QED
      BY <2>5, <2>6, <3>1 DEF FocusInv
  <2> QED
    BY <1>3, <2>8, <2>9
<1>4. CASE TriggerCancel \/ EndBoxOk \/ SaveImageAnswer
  <2>1. UNCHANGED <<status, photos, timer>>
    BY <1>4 DEF TriggerCancel, EndBoxOk, SaveImageAnswer
  <2>2. stack' = Tail(stack) \/ stack' = <<"cancelled">> \o Tail(stack)
    BY <1>4 DEF TriggerCancel, EndBoxOk, SaveImageAnswer, Return, Swap
  <2>3. "cancelled" \in Frames /\ "cancelled" \notin StartBoxes \cup Completed
    BY DEF Frames, StartBoxes, Completed
  <2>4. /\ Has(StartBoxes, stack') => Has(StartBoxes, stack)
        /\ Has(Completed, stack') => Has(Completed, stack)
    <3> DEFINE below == Tail(stack)
    <3>1. CASE stack' = below
      BY <1>2, <3>1
    <3>2. CASE stack' = <<"cancelled">> \o below
      <4>1. below \in Seq(Frames)
        BY <1>2
      <4> HIDE DEF below
      <4>2. /\ Has(StartBoxes, stack') => Has(StartBoxes, below)
            /\ Has(Completed, stack') => Has(Completed, below)
        BY <2>3, <3>2, <4>1, HasPushed
      <4> QED
        BY <1>2, <4>2 DEF below
    <3> QED
      BY <2>2, <3>1, <3>2
  <2> QED
    BY <1>1, <2>1, <2>4, QuietFocus DEF FocusInv, Startable
<1> QED
  BY <1>3, <1>4 DEF Boxes

\* Pause keeps the stage; Resume keeps it too, or leads out of the shoot.
LEMMA PauseInFocus ==
    ASSUME TypeOK, TypeOK', FocusInv, wait = "none", PauseOrResume,
           ~Has(StartBoxes, stack'), ~Has(Completed, stack'),
           UNCHANGED <<rail, timer, enabled, wait, photos, camera>>
    PROVE  FocusInv' /\ StackStep
<1>1. Stage' = Stage \/ Stage' \in Outside
  BY DEF PauseOrResume, Pause, Resume, Stage, FocusInv, Resumable, TypeOK
<1>2. Resumable'
  BY DEF PauseOrResume, Pause, Resume, FocusInv, Resumable, TypeOK
<1>3. Startable' /\ Ended'
  BY <1>1 DEF FocusInv, Startable, Ended, FrameCount, Outside
<1>4. CASE UNCHANGED Phase
  BY <1>2, <1>3, <1>4, TravelStep DEF FocusInv
<1>5. CASE Phase' # Phase
  <2>1. Phase = "shooting" /\ Phase' = "idle"
    BY <1>1, <1>5 DEF Phase, Homing
  <2>2. Stack!Abandon
    BY <2>1 DEF Stack!Abandon, Places
  <2> QED
    BY <1>2, <1>3, <2>2 DEF FocusInv, StackStep, Stack!Next
<1> QED
  BY <1>4, <1>5

LEMMA ButtonsInFocus ==
    ASSUME Calm, TypeOK, TypeOK', BoxInv, FocusInv, Buttons
    PROVE  FocusInv' /\ StackStep
<1>1. stack \in Seq(Frames) /\ UNCHANGED <<rail, target, timer, enabled, wait, photos, camera, log>>
      /\ wait = "none"
  BY DEF TypeOK, Buttons, PauseClick, PauseReturns, StopClick, Calm, FormActive, Pumping
<1>2. "pause" \in Frames /\ "pause" \notin StartBoxes \cup Completed
  BY DEF Frames, StartBoxes, Completed
<1>3. CASE PauseClick
  <2>1. ~Has(StartBoxes, stack) /\ ~Has(Completed, stack)
    BY <1>3, FormEnabled, NotCompleted DEF PauseClick
  <2>2. stack' = stack \/ stack' = <<"pause">> \o stack
    BY <1>3 DEF PauseClick, Push
  <2>3. ~Has(StartBoxes, stack') /\ ~Has(Completed, stack')
    BY <1>1, <1>2, <2>1, <2>2, HasPushed
  <2>4. PauseOrResume \/ UNCHANGED <<status, prev, text>>
    BY <1>3 DEF PauseClick
  <2> QED
    BY <1>1, <2>3, <2>4, PauseInFocus, QuietFocus DEF FocusInv, Startable
<1>4. CASE PauseReturns
  <2>1. /\ stack # <<>> /\ Head(stack) = "pause" /\ stack' = Tail(stack)
        /\ PauseOrResume
    BY <1>4 DEF PauseReturns, Top, Return
  <2>2. ~Has(OtherFrames, Tail(stack))
    BY <1>1, <2>1, ReturnKeepsOrder DEF BoxInv, FormFrames
  <2>3. ~Has(StartBoxes, stack') /\ ~Has(Completed, stack')
    BY <2>1, <2>2, NotCompleted
  <2> QED
    BY <1>1, <2>1, <2>3, PauseInFocus
<1> QED
  BY <1>3, <1>4 DEF Buttons, StopClick, Calm

LEMMA CallbacksInFocus ==
    ASSUME Calm, TypeOK, TypeOK', FramesInv, FocusInv, Callbacks
    PROVE  FocusInv' /\ StackStep
<1>1. /\ stack \in Seq(Frames) /\ ~DeviceRemoved /\ ~DeviceAdded /\ camera.present
      /\ UNCHANGED <<prev, text, enabled, wait, photos, rail, target, timer, log>>
  BY DEF TypeOK, Callbacks, DeviceRemoved, DeviceAdded, ImageReady, CaptureComplete,
         Calm, FocusInv, Startable
<1>2. camera'.present
  BY <1>1 DEF Callbacks, ImageReady, CaptureComplete, TypeOK
<1>3. /\ Has(StartBoxes, stack') => Has(StartBoxes, stack)
      /\ Has(Completed, stack') => Has(Completed, stack)
  <2>1. {"saveImage", "fault"} \subseteq Frames \ (StartBoxes \cup Completed)
    BY DEF Frames, StartBoxes, Completed
  <2>2. ASSUME NEW f \in {"saveImage", "fault"}, stack' = <<f>> \o stack
        PROVE  /\ Has(StartBoxes, stack') => Has(StartBoxes, stack)
               /\ Has(Completed, stack') => Has(Completed, stack)
    BY <1>1, <2>1, <2>2, HasPushed
  <2> QED
    BY <2>2, CallbackStack
<1>4. CASE UNCHANGED status
  BY <1>1, <1>2, <1>3, <1>4, QuietFocus
<1>5. CASE status = "Shooting" /\ status' = "Downloaded"
  <2>1. Stage = "Shooting" /\ Stage' = "Downloaded"
    BY <1>5 DEF Stage
  <2>2. FrameCount' = FrameCount
    BY DEF FrameCount
  <2>3. CaptureComplete /\ UNCHANGED stack
    <3>1. ~ImageReady
      BY <1>5, Zenon DEF ImageReady, seqVars
    <3>2. CaptureComplete
      BY <1>1, <3>1 DEF Callbacks
    <3> QED
      BY <3>2 DEF CaptureComplete
  <2>4. Startable' /\ Resumable' /\ Ended'
    BY <1>1, <1>2, <1>5, <2>1, <2>2, <2>3
       DEF FocusInv, Startable, Resumable, Ended, Outside
  <2>5. UNCHANGED Phase
    BY <1>1, <2>1 DEF Phase, Outside
  <2> QED
    BY <1>1, <2>4, <2>5, TravelStep DEF FocusInv
<1> QED
  BY <1>1, <1>4, <1>5 DEF Callbacks, ImageReady, CaptureComplete, ShotComplete

LEMMA NextInFocus ==
    ASSUME Calm, TypeOK, TypeOK', BoxInv, FramesInv, FocusInv, [Next]_vars
    PROVE  FocusInv' /\ StackStep
<1>1. CASE UNCHANGED vars
  BY <1>1, QuietFocus DEF FocusInv, Startable
<1> QED
  BY <1>1, ControllerInFocus, FaultsInFocus, StartButtonInFocus, TickInFocus,
     WaitingInFocus, BoxesInFocus, ButtonsInFocus, CallbacksInFocus DEF Next

LEMMA InitFocus == Init => FocusInv /\ Stack!Init
<1> SUFFICES ASSUME Init PROVE FocusInv /\ Stack!Init
  OBVIOUS
<1>1. Stage = "Idle" /\ ~Has(StartBoxes, stack) /\ ~Has(Completed, stack)
  BY DEF Init, Stage, Has
<1>2. FocusInv
  BY <1>1 DEF Init, FocusInv, Startable, Resumable, Ended, Outside
<1>3. Phase = "idle" /\ Places = <<>> /\ rail \in Int
  BY <1>1, StartPositionsAssumption
     DEF Init, TicInit, Phase, Homing, Outside, Places
<1> QED
  BY <1>2, <1>3 DEF Stack!Init

\* FocusInv holds of every reachable state of a calm shoot.
THEOREM ShootStaysInFocus == ASSUME Calm PROVE Spec => []FocusInv
BY InitFocus, NextInFocus, FramesStayOnTrack, TypeCorrect, BoxesInOrder, PTL DEF Spec

\* Every calm shoot implements FocusStack: a pause, a failing capture or save, a
\* click too many change nothing of the frames, which are taken one after the
\* other, each in its place, and none after the rail has been sent home.
THEOREM ShootsAreFocusStacks == ASSUME Calm PROVE Spec => ShootIsFocusStack
<1>1. TypeOK /\ TypeOK' /\ BoxInv /\ FramesInv /\ FocusInv /\ [Next]_vars
        => [Stack!Next]_(Stack!stackVars)
  BY NextInFocus DEF StackStep
<1> QED
  BY <1>1, InitFocus, ShootStaysInFocus, FramesStayOnTrack, TypeCorrect,
     BoxesInOrder, PTL DEF Spec, ShootIsFocusStack, Stack!Spec

\* "Project Completed" tells the truth: the stack is complete, the rail is back
\* and the log is written, even if the box opens above older pause loops.
THEOREM CompletionIsTrue == ASSUME Calm PROVE Spec => []CompletedIsComplete
<1>1. TypeOK /\ FocusInv => CompletedIsComplete
  BY HasReturned DEF TypeOK, FocusInv, Ended, CompletedIsComplete, Top, Completed
<1> QED
  BY <1>1, ShootStaysInFocus, TypeCorrect, PTL

-----------------------------------------------------------------------------
(* The files, when the camera delivers in order and the disk takes all.    *)

Orderly == Calm /\ "LateImages" \notin Env /\ "SaveError" \notin Env

Saved(fmt) == [name |-> shot, fmt |-> fmt, of |-> shot] \in files

\* The images still to come are of the exposure that is awaited; the others of
\* this shot are files, and stay so until the next shot.
SaveInv ==
    /\ camera.images # {} => camera.completing
    /\ camera.completing => camera.shot = shot
    /\ camera.completing => \A fmt \in Compression \ camera.images : Saved(fmt)
    /\ Stage = "Downloaded" => \A fmt \in Compression : Saved(fmt)

\* Steps that leave the shot, the files and the camera alone.
LEMMA QuietSave ==
    ASSUME SaveInv, UNCHANGED <<shot, files, camera>>,
           Stage' = Stage \/ Stage' # "Downloaded"
    PROVE  SaveInv'
BY DEF SaveInv, Saved

LEMMA StartButtonInSave ==
    ASSUME SaveInv, StartButton PROVE SaveInv'
<1>1. UNCHANGED <<shot, files, camera, prev>> /\ status' \in {status, "Start"}
  BY DEF StartButton, StartClick, StartDialogCancel, StartDialogOk, StartWithoutLog,
         LogContinueOk, LogGiveUp, StartReady, PrepareShoot
<1> QED
  BY <1>1, QuietSave DEF Stage

LEMMA TickInSave ==
    ASSUME Automatic, TypeOK, BoxInv, FramesInv, SaveInv, Tick PROVE SaveInv'
<1>1. UNCHANGED prev /\ status # "Paused"
  BY DEF Tick, TickStart, TickDelay, TickDelaying, TickShoot, TickManualShoot,
         TickDownloaded, TickMove, TickEnd, TickIdle, Ticking
<1>2. CASE TickShoot
  <2>1. Stage' = "Shooting" /\ UNCHANGED <<shot, files>>
    BY <1>2 DEF TickShoot, Exposes, ExposesNothing, Stage
  <2>2. CASE UNCHANGED camera
    BY <2>1, <2>2, QuietSave
  <2>3. CASE camera' = [present |-> TRUE, shot |-> shot, images |-> Compression,
                        completing |-> TRUE]
    BY <2>1, <2>3 DEF SaveInv
  <2> QED
    BY <1>2, <2>2, <2>3 DEF TickShoot, Exposes, ExposesNothing
<1>3. CASE TickDownloaded
  <2>1. ~camera.completing /\ UNCHANGED <<camera, files>> /\ Stage' # "Downloaded"
    BY <1>3, TickFacts
       DEF TickDownloaded, Ticking, FramesInv, Awaited, Stage
  <2> QED
    BY <2>1 DEF SaveInv
<1>4. CASE ~TickShoot /\ ~TickDownloaded
  <2>1. UNCHANGED <<shot, files, camera>>
    BY <1>4 DEF Tick, TickStart, TickDelay, TickDelaying, TickManualShoot,
           TickMove, TickEnd, TickIdle
  <2>2. status' = status \/ status' \notin {"Downloaded", "Paused"}
    <3>1. AfterDelay = "Shoot" /\ AfterNoDelay = "Shoot"
      BY DEF Automatic, AfterDelay, AfterNoDelay
    <3> QED
      BY <1>4, <3>1 DEF Tick, TickStart, TickDelay, StartDelay, TickDelaying,
           TickManualShoot, TickMove, ResetThenMove, BeginMove, TickEnd, TickIdle
  <2> QED
    BY <1>1, <2>1, <2>2, QuietSave DEF Stage
<1> QED
  BY <1>2, <1>3, <1>4

LEMMA WaitingInSave ==
    ASSUME FramesInv, SaveInv, Waiting PROVE SaveInv'
<1>1. CASE StartMoveDone
  <2>1. ~camera.completing /\ UNCHANGED camera /\ Stage' = "Delay"
    BY <1>1 DEF StartMoveDone, FramesInv, Sound, Awaited, Stage
  <2> QED
    BY <2>1 DEF SaveInv
<1>2. CASE MoveReady \/ MoveDone \/ EndReady \/ EndMoveDone
  <2>1. UNCHANGED <<shot, files, camera, prev>> /\ status' \in {status, "Moving", "Delay"}
    BY <1>2 DEF MoveReady, BeginMove, MoveDone, GoOn, EndReady, EndMoveDone
  <2> QED
    BY <2>1, QuietSave DEF Stage
<1> QED
  BY <1>1, <1>2 DEF Waiting

\* Without manual shooting there is no box for the trigger.
LEMMA BoxesInSave ==
    ASSUME TypeOK, PauseInv, SaveInv, Boxes PROVE SaveInv'
<1>1. UNCHANGED status
  BY BoxesInPause
<1>2. UNCHANGED <<shot, files, camera, prev>>
  BY DEF Boxes, TriggerOk, TriggerCancel, CancelledOk, EndBoxOk, SaveImageAnswer
<1> QED
  BY <1>1, <1>2, QuietSave DEF Stage

LEMMA ButtonsInSave ==
    ASSUME Calm, FramesInv, SaveInv, Buttons PROVE SaveInv'
<1>1. UNCHANGED <<shot, files, camera>>
  BY DEF Buttons, PauseClick, PauseReturns, StopClick
<1>2. CASE PauseOrResume
  <2>1. Stage' = Stage \/ Stage' # "Downloaded"
    BY <1>2 DEF PauseOrResume, Pause, Resume, Stage, FramesInv, Driven, Active
  <2> QED
    BY <1>1, <2>1, QuietSave
<1>3. CASE UNCHANGED <<status, prev>>
  BY <1>1, <1>3, QuietSave DEF Stage
<1> QED
  BY <1>2, <1>3 DEF Buttons, PauseClick, PauseReturns, StopClick, Calm

LEMMA CallbacksInSave ==
    ASSUME Orderly, TypeOK, FramesInv, SaveInv, Callbacks PROVE SaveInv'
<1>1. CASE DeviceRemoved
  BY <1>1 DEF DeviceRemoved, Orderly, Calm
<1>2. CASE DeviceAdded
  <2>1. /\ camera'.images = camera.images /\ camera'.shot = camera.shot
        /\ camera'.completing = camera.completing
    BY <1>2 DEF DeviceAdded, TypeOK
  <2>2. Stage' = Stage /\ UNCHANGED <<shot, files>>
    BY <1>2 DEF DeviceAdded, Stage
  <2> QED
    BY <2>1, <2>2 DEF SaveInv, Saved
<1>3. CASE ImageReady
  <2>1. PICK fmt \in camera.images :
            /\ camera' = [camera EXCEPT !.images = @ \ {fmt}]
            /\ status = "Shooting" => SaveImage(fmt)
    BY <1>3 DEF ImageReady, NoDirectory, Orderly
  <2>2. camera.completing /\ status = "Shooting" /\ camera.shot = shot
    BY <2>1 DEF SaveInv, FramesInv, Awaited
  <2>3. /\ camera'.images = camera.images \ {fmt} /\ camera'.shot = shot
        /\ camera'.completing
    BY <2>1, <2>2 DEF TypeOK
  <2>4. files' = {f \in files : <<f.name, f.fmt>> # <<shot, fmt>>}
                   \cup {[name |-> shot, fmt |-> fmt, of |-> shot]}
    BY <2>1, <2>2 DEF SaveImage, Orderly
  <2>5. Stage' = "Shooting" /\ UNCHANGED shot
    BY <1>3, <2>2 DEF ImageReady, Stage
  <2>6. ASSUME NEW g \in Compression \ camera'.images PROVE Saved(g)'
    <3>1. CASE g = fmt
      BY <2>4, <2>5, <3>1 DEF Saved
    <3>2. CASE g # fmt
      <4>1. [name |-> shot, fmt |-> g, of |-> shot] \in files
        BY <2>2, <2>3, <2>6, <3>2 DEF SaveInv, Saved
      <4> QED
        BY <2>4, <2>5, <3>2, <4>1 DEF Saved
    <3> QED
      BY <3>1, <3>2
  <2> QED
    BY <2>3, <2>5, <2>6 DEF SaveInv
<1>4. CASE CaptureComplete
  <2>1. camera.completing /\ camera.images = {} /\ UNCHANGED <<shot, files>>
    BY <1>4 DEF CaptureComplete, Orderly
  <2>2. \A fmt \in Compression : Saved(fmt)'
    BY <2>1 DEF SaveInv, Saved
  <2>3. camera'.images = {} /\ ~camera'.completing
    BY <1>4, <2>1 DEF CaptureComplete, TypeOK
  <2> QED
    BY <2>2, <2>3 DEF SaveInv
<1> QED
  BY <1>1, <1>2, <1>3, <1>4 DEF Callbacks

LEMMA NextInSave ==
    ASSUME Orderly, Automatic, TypeOK, BoxInv, PauseInv, FramesInv, SaveInv,
           [Next]_vars
    PROVE  SaveInv'
<1>1. CASE UNCHANGED vars \/ Controller \/ Faults
  <2>1. UNCHANGED <<shot, files, camera, status, prev>>
    BY <1>1 DEF Controller, RailMoves, TicFault, TicRecovers, PollTic,
                Faults, PollThrows, WaitThrows, Throws, FaultOk
  <2> QED
    BY <2>1, QuietSave DEF Stage
<1> QED
  BY <1>1, StartButtonInSave, TickInSave, WaitingInSave, BoxesInSave,
     ButtonsInSave, CallbacksInSave DEF Next, Orderly

\* An automatic shoot leaves a shot behind only when all its formats are on
\* the disk, for every set of formats (of which the test in CaptureComplete, an
\* exclusive or of exclusive ors, does not tell all apart): what does it is
\* that the camera reports the end of a capture after its images, and that an
\* image of an awaited exposure is always saved under its own shot.
THEOREM DownloadsAreSaved == ASSUME Orderly PROVE Spec => []DownloadedIsSaved
<1>1. CASE ~Automatic
  <2>1. DownloadedIsSaved
    BY <1>1 DEF DownloadedIsSaved
  <2> QED
    BY <2>1, PTL
<1>2. CASE Automatic
  <2>1. Init => SaveInv
    BY DEF Init, SaveInv, Stage
  <2>2. Calm /\ ~ManualShooting
    BY <1>2 DEF Orderly, Automatic
  <2>3. Spec => []PauseInv
    BY <2>2, PausesInOrder
  <2>4. Spec => []FramesInv
    BY <2>2, FramesStayOnTrack
  <2>5. SaveInv => DownloadedIsSaved
    BY DEF SaveInv, Saved, DownloadedIsSaved, Stage
  <2> QED
    BY <1>2, <2>1, <2>3, <2>4, <2>5, NextInSave, TypeCorrect, BoxesInOrder, PTL
       DEF Spec
<1> QED
  BY <1>1, <1>2
=============================================================================

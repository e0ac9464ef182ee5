--------------------------- MODULE LargeTransfer ---------------------------
(***************************************************************************)
(* One transfer request in libusb0.sys (transfer.c).  A short one goes     *)
(* down as it is; a longer one is split into stages, each with a request   *)
(* packet of its own, which the thread of the program sends down one after *)
(* the other.  The completion routine of each stage adds up what has come  *)
(* and, for a read, closes the gap a short stage has left; the last one    *)
(* completes the main request.  The program may cancel the main request,   *)
(* and a short stage cancels the others: the memory of a stage is shared   *)
(* by completion and cancellation and counted by ReferenceCount.           *)
(*                                                                         *)
(* A length is a number of units; the device sends units 1, 2, 3, ...      *)
(***************************************************************************)
EXTENDS Integers, Sequences, FiniteSets

CONSTANTS
    Lengths,        \* the lengths a program asks for
    MaxTransfer,    \* maxTransferSize
    Env             \* which disturbances may happen

Disturbances ==
    { "LateCancel",     \* a cancellation between the check of Cancel and the cancel routine
      "Parallel" }      \* completion routines of one transfer run on two processors

ASSUME LengthsAssumption == Lengths \subseteq Nat \ {0}
ASSUME MaxTransferAssumption == MaxTransfer \in Nat \ {0}
ASSUME EnvAssumption == Env \subseteq Disturbances

VARIABLES
    main,       \* the main request packet, its thread and its cancellation
    stages,     \* the stages, by position
    list,       \* mainRequestContext->SubRequestList
    buffer,     \* the program's buffer: which unit of the device is where, 0 for none
    produced,   \* how many units the device has sent
    lost        \* history: how many of them came with a stage that failed or was not mapped

vars == <<main, stages, list, buffer, produced, lost>>

(***************************************************************************)
(* Splitting.                                                              *)
(***************************************************************************)
(* numIrps and, by stage, its size and where it begins.                    *)
numIrps(length) == (length + MaxTransfer - 1) \div MaxTransfer
stageSize(length, i) ==
    IF length - (i - 1) * MaxTransfer > MaxTransfer THEN MaxTransfer
    ELSE length - (i - 1) * MaxTransfer
Begins(i) == (i - 1) * MaxTransfer

(* startOffset is advanced by the size of the next stage, not of this one. *)
startOffset(length, i) ==
    IF i = 1 THEN 0 ELSE Begins(i - 1) + stageSize(length, i)

(* A stage: a sub request context with its packet.                         *)
Stage(length, i) ==
    [size |-> stageSize(length, i), startOffset |-> startOffset(length, i),
     pc |-> "built", refs |-> 1, got |-> 0, short |-> FALSE, last |-> FALSE,
     cancel |-> FALSE, freed |-> 0]

(* pc of a stage: built; below: at the lower driver; returned: completed   *)
(* by it; then in the completion routine: walk and cancels (a short stage  *)
(* cancels the others), drop (the reference), finish (the main request).   *)
StagePcs == {"built", "below", "returned", "walk", "cancels", "drop", "finish", "done"}
MainPcs == {"none", "build", "armed", "send", "direct", "pending", "completed"}

NoMain == [pc |-> "none", read |-> FALSE, length |-> 0, next |-> 1, cancel |-> FALSE,
           routine |-> FALSE, info |-> 0, status |-> "none", locks |-> 0, canceller |-> {},
           shorts |-> {}]

Init ==
    /\ main = NoMain
    /\ stages = <<>>
    /\ list = {}
    /\ buffer = <<>>
    /\ produced = 0
    /\ lost = 0

Complete(m, status, info) ==
    [m EXCEPT !.pc = "completed", !.status = status, !.info = info, !.locks = @ - 1]

(***************************************************************************)
(* Submission.  The ioctl holds the remove lock.                           *)
(***************************************************************************)
Submit(length, read) ==
    /\ main.pc = "none"
    /\ main' = [NoMain EXCEPT !.pc = IF length > MaxTransfer THEN "build" ELSE "direct",
                              !.read = read, !.length = length, !.locks = 1]
    /\ buffer' = [k \in 1 .. length |-> 0]
    /\ UNCHANGED <<stages, list, produced, lost>>

(* transfer: no memory for the packet.                                     *)
transfer_fails ==
    /\ main.pc = "direct"
    /\ main' = Complete(main, "failed", 0)
    /\ UNCHANGED <<stages, list, buffer, produced, lost>>

(* The lower driver completes it; transfer_complete.                       *)
transfer_complete(got) ==
    /\ main.pc = "direct" /\ got <= main.length
    /\ produced' = got
    /\ buffer' = [k \in DOMAIN buffer |-> IF k <= got /\ main.read THEN k ELSE 0]
    /\ main' = Complete(main, "success", got)
    /\ UNCHANGED <<stages, list, lost>>

(* It fails or is cancelled: what had come is in the buffer and is not     *)
(* reported.                                                               *)
transfer_aborted(got) ==
    /\ main.pc = "direct" /\ got <= main.length
    /\ produced' = got /\ lost' = got
    /\ buffer' = [k \in DOMAIN buffer |-> IF k <= got /\ main.read THEN k ELSE 0]
    /\ main' = Complete(main, IF main.cancel THEN "cancelled" ELSE "failed", 0)
    /\ UNCHANGED <<stages, list>>

(* All stages are built, or none is left.                                  *)
AllocationFails ==
    /\ main.pc = "build"
    /\ main' = Complete(main, "failed", 0)
    /\ UNCHANGED <<stages, list, buffer, produced, lost>>

Build ==
    /\ main.pc = "build"
    /\ LET n == numIrps(main.length) IN
       IF main.cancel
       THEN main' = Complete(main, "cancelled", 0) /\ UNCHANGED <<stages, list>>
       ELSE /\ stages' = [i \in 1 .. n |-> Stage(main.length, i)]
            /\ list' = 1 .. n
            /\ main' = [main EXCEPT !.pc = "armed"]
    /\ UNCHANGED <<buffer, produced, lost>>

\* Mutant: the main request gets no cancel routine.
NoCancelRoutine ==
    /\ main.pc = "armed"
    /\ main' = [main EXCEPT !.pc = "send"]
    /\ UNCHANGED <<stages, list, buffer, produced, lost>>
SetCancelRoutine ==
    /\ main.pc = "armed"
    /\ main' = [main EXCEPT !.pc = "send", !.routine = TRUE]
    /\ UNCHANGED <<stages, list, buffer, produced, lost>>

(* The thread does not look at the main request any more once the last     *)
(* stage is sent.                                                          *)
Send ==
    /\ main.pc = "send"
    /\ stages' = [stages EXCEPT ![main.next].pc = "below"]
    /\ main' = IF main.next = Len(stages) THEN [main EXCEPT !.pc = "pending"]
               ELSE [main EXCEPT !.next = @ + 1]
    /\ UNCHANGED <<list, buffer, produced, lost>>

(***************************************************************************)
(* The lower driver completes the stages of a pipe in their order; one     *)
(* that is cancelled it may complete at any time.  A stage that fails or   *)
(* is cancelled may have begun: what it has brought is in the buffer, and  *)
(* its completion routine does not look at it.                             *)
(***************************************************************************)
Below == {i \in DOMAIN stages : stages[i].pc = "below"}
FirstBelow(i) == \A j \in Below : i <= j

(* The host controller's driver completes one stage after the other: the   *)
(* next when the completion routine of the last has let go of the list.    *)
Serial == "Parallel" \notin Env =>
    \A j \in DOMAIN stages : stages[j].pc \notin {"returned", "walk"}

(* The units go where the stage begins in the buffer.                      *)
Brings(i, units) ==
    /\ produced' = produced + units
    /\ buffer' = [k \in DOMAIN buffer |->
            IF main.read /\ k \in Begins(i) + 1 .. Begins(i) + units
            THEN produced + k - Begins(i) ELSE buffer[k]]

StageReturns(i, got) ==
    /\ i \in Below /\ FirstBelow(i) /\ Serial /\ got <= stages[i].size
    /\ stages' = [stages EXCEPT ![i] =
            [@ EXCEPT !.pc = "returned", !.got = got, !.short = got < stages[i].size]]
    /\ Brings(i, got)
    /\ UNCHANGED <<main, list, lost>>

StageFails(i, part) ==
    /\ i \in Below /\ Serial /\ part <= stages[i].size
    /\ FirstBelow(i) \/ (stages[i].cancel /\ part = 0)
    /\ stages' = [stages EXCEPT ![i].pc = "returned"]
    /\ Brings(i, part)
    /\ lost' = lost + part
    /\ UNCHANGED <<main, list>>

(***************************************************************************)
(* large_transfer_complete.  What it does under the cancel spin lock is    *)
(* one step.                                                               *)
(***************************************************************************)
\* Mutant: what a stage brings is left where it was written.
NeverMoves(i) == FALSE
(* A stage after a short one: its units are moved up, or down, to the end  *)
(* of those before.                                                        *)
Moves(i) == main.read /\ stages[i].got > 0 /\ main.info < stages[i].startOffset
Moved(i) ==
    [k \in DOMAIN buffer |->
        IF k \in main.info + 1 .. main.info + stages[i].got
        THEN buffer[stages[i].startOffset + k - main.info] ELSE buffer[k]]

(* The list is empty without this stage, which completes the main request. *)
\* Mutant: the stage at the end of the transfer completes it.
IsFinal(i) == i = Len(stages)
IsLast(i) == list = {i}

CancelsOthers(i) ==
    /\ main.read /\ stages[i].got > 0 /\ ~Moves(i) /\ stages[i].short
    /\ ~IsLast(i) /\ main.routine

(* What the routine does in any case: it adds up information, and takes    *)
(* the stage off the list.                                                 *)
AddsUp(i, information) ==
    /\ list' = list \ {i}
    /\ main' = [main EXCEPT !.info = @ + information,
                            !.routine = @ /\ ~IsLast(i) /\ ~CancelsOthers(i)]
    /\ stages' = [stages EXCEPT ![i] = [@ EXCEPT
            !.pc = IF CancelsOthers(i) THEN "walk" ELSE "drop", !.last = IsLast(i)]]

\* Mutant: a stage that follows a short one is not added up.
large_transfer_forgets(i) ==
    /\ stages[i].pc = "returned"
    /\ buffer' = IF Moves(i) THEN Moved(i) ELSE buffer
    /\ AddsUp(i, IF Moves(i) THEN 0 ELSE stages[i].got)
    /\ UNCHANGED <<produced, lost>>
large_transfer_complete(i) ==
    /\ stages[i].pc = "returned"
    /\ buffer' = IF Moves(i) THEN Moved(i) ELSE buffer
    /\ AddsUp(i, stages[i].got)
    /\ UNCHANGED <<produced, lost>>

(* The buffer cannot be mapped to move the units: they are not reported.   *)
MappingFails(i) ==
    /\ stages[i].pc = "returned" /\ Moves(i)
    /\ AddsUp(i, 0)
    /\ lost' = lost + stages[i].got
    /\ UNCHANGED <<buffer, produced>>

\* Mutant: the stages to cancel are only listed.
NoReferences(by) == by
(* large_transfer_cancel: takes a reference of every stage on the list.    *)
References(by) == [i \in DOMAIN stages |->
    IF i \in list THEN [stages[i] EXCEPT !.refs = @ + 1] ELSE by[i]]

(* For a short stage the list is walked after the spin lock is released.   *)
ShortWalks(i) ==
    /\ stages[i].pc = "walk"
    /\ stages' = References([stages EXCEPT ![i].pc = "cancels"])
    /\ main' = [main EXCEPT !.shorts = list]
    /\ UNCHANGED <<list, buffer, produced, lost>>

(* A stage loses a reference, and the last one frees it.                   *)
Drop(s) == [s EXCEPT !.refs = @ - 1, !.freed = IF s.refs = 1 THEN @ + 1 ELSE @]

ShortCancels(i) ==
    /\ stages[i].pc = "cancels"
    /\ IF main.shorts = {}
       THEN stages' = [stages EXCEPT ![i].pc = "drop"] /\ UNCHANGED main
       ELSE \E j \in main.shorts :
              /\ \A k \in main.shorts : j <= k
              /\ stages' = [stages EXCEPT ![j] = [Drop(@) EXCEPT !.cancel = TRUE]]
              /\ main' = [main EXCEPT !.shorts = @ \ {j}]
    /\ UNCHANGED <<list, buffer, produced, lost>>

DropReference(i) ==
    /\ stages[i].pc = "drop"
    /\ stages' = [stages EXCEPT ![i] =
            [Drop(@) EXCEPT !.pc = IF stages[i].last THEN "finish" ELSE "done"]]
    /\ UNCHANGED <<main, list, buffer, produced, lost>>

(* The main request is completed with success whatever became of a stage.  *)
Finish(i) ==
    /\ stages[i].pc = "finish"
    /\ main' = Complete(main, "success", main.info)
    /\ stages' = [stages EXCEPT ![i].pc = "done"]
    /\ UNCHANGED <<list, buffer, produced, lost>>

(***************************************************************************)
(* Cancellation of the main request by the program or at its exit.         *)
(***************************************************************************)
(* IoCancelIrp sets Cancel and takes the routine under the spin lock, and  *)
(* the routine walks the list before it gives the lock back.               *)
CancelMain ==
    /\ main.pc \notin {"none", "completed"} /\ ~main.cancel
    /\ "LateCancel" \notin Env => main.pc # "armed"
    /\ main' = [main EXCEPT !.cancel = TRUE, !.routine = FALSE,
                            !.canceller = IF main.routine THEN list ELSE {}]
    /\ stages' = IF main.routine THEN References(stages) ELSE stages
    /\ UNCHANGED <<list, buffer, produced, lost>>

RoutineCancels(i) ==
    /\ i \in main.canceller /\ \A k \in main.canceller : i <= k
    /\ stages' = [stages EXCEPT ![i] = [Drop(@) EXCEPT !.cancel = TRUE]]
    /\ main' = [main EXCEPT !.canceller = @ \ {i}]
    /\ UNCHANGED <<list, buffer, produced, lost>>

(* The program submits its next transfer.                                  *)
Return ==
    /\ main.pc = "completed" /\ main.canceller = {}
    /\ \A i \in DOMAIN stages : stages[i].pc = "done"
    /\ main' = NoMain /\ stages' = <<>> /\ list' = {} /\ buffer' = <<>>
    /\ produced' = 0 /\ lost' = 0

(***************************************************************************)
(* The specification.                                                      *)
(***************************************************************************)
Thread == Build \/ SetCancelRoutine \/ Send
Completion(i) ==
    \/ large_transfer_complete(i) \/ MappingFails(i) \/ ShortWalks(i) \/ ShortCancels(i)
    \/ DropReference(i) \/ Finish(i)
Cancelled(i) == stages[i].cancel /\ \E part \in 0 .. MaxTransfer : StageFails(i, part)
direct_cancelled == main.cancel /\ \E got \in 0 .. MaxTransfer : transfer_aborted(got)

Next ==
    \/ \E length \in Lengths, read \in BOOLEAN : Submit(length, read)
    \/ transfer_fails \/ AllocationFails
    \/ \E got \in 0 .. MaxTransfer : transfer_complete(got) \/ transfer_aborted(got)
    \/ Thread \/ CancelMain \/ Return
    \/ \E i \in DOMAIN stages :
         \/ Completion(i) \/ RoutineCancels(i)
         \/ \E got \in 0 .. MaxTransfer : StageReturns(i, got) \/ StageFails(i, got)

Spec == Init /\ [][Next]_vars

(* Threads run, and the lower driver completes what is cancelled; it need  *)
(* not complete anything else, for the device may never answer.            *)
FairSpec ==
    /\ Spec
    /\ WF_vars(Thread) /\ WF_vars(direct_cancelled)
    /\ WF_vars(\E i \in DOMAIN stages : RoutineCancels(i))
    /\ WF_vars(\E i \in DOMAIN stages : Completion(i))
    /\ WF_vars(\E i \in DOMAIN stages : Cancelled(i))

(***************************************************************************)
(* Properties.                                                             *)
(***************************************************************************)
StageType ==
    [size : Nat, startOffset : Nat, pc : StagePcs, refs : Nat, got : Nat, short : BOOLEAN,
     last : BOOLEAN, cancel : BOOLEAN, freed : Nat]

TypeOK ==
    /\ main \in [pc : MainPcs, read : BOOLEAN, length : Nat, next : Nat, cancel : BOOLEAN,
                 routine : BOOLEAN, info : Nat, status : {"none", "success", "failed", "cancelled"},
                 locks : Int, canceller : SUBSET Nat, shorts : SUBSET Nat]
    /\ stages \in Seq(StageType)
    /\ list \subseteq DOMAIN stages
    /\ buffer \in Seq(Nat)
    /\ produced \in Nat /\ lost \in 0 .. produced

(* A stage is freed once, by the one that uses it last, and not before: it *)
(* is not freed while it is on the list, at the lower driver, in its       *)
(* completion routine before it drops its reference, or on a list of       *)
(* stages to cancel.                                                       *)
InUse(i) ==
    \/ i \in list \cup main.canceller \cup main.shorts
    \/ stages[i].pc \in {"built", "below", "returned", "walk", "cancels", "drop"}
FreedOnceAfterUse ==
    \A i \in DOMAIN stages :
        stages[i].freed = (IF stages[i].refs = 0 THEN 1 ELSE 0) /\ (InUse(i) => stages[i].freed = 0)

(* The main request, in whose memory the list lives, is completed once and *)
(* after the last stage is off the list, and no routine walks the list     *)
(* afterwards; the remove lock is given back with it.                      *)
MainOutlivesStages ==
    /\ main.locks = (IF main.pc \in {"none", "completed"} THEN 0 ELSE 1)
    /\ main.pc = "completed" =>
         /\ list = {}
         /\ \A i \in DOMAIN stages : stages[i].pc \in {"drop", "cancels", "done"}

(* What a completed transfer says it has read is in the buffer in the      *)
(* order in which it came, whichever stages were short, failed or were     *)
(* cancelled, and without a gap but for the units that were lost with a    *)
(* stage that failed, was cancelled or could not be mapped.                *)
InOrder ==
    main.pc = "completed" /\ main.read =>
        \A k \in 1 .. main.info :
            buffer[k] \in k .. k + lost /\ (k > 1 => buffer[k - 1] < buffer[k])

(* So it is when all stages have the same size.                            *)
InOrderIfEven == main.length % MaxTransfer = 0 => InOrder

(* No more is reported than was asked for, and all the device has sent but *)
(* what came with a stage that failed, was cancelled or could not be       *)
(* mapped: a short stage loses nothing, nor do those after it.             *)
NothingElseIsLost ==
    main.pc = "completed" => main.info <= main.length /\ main.info = produced - lost

(* A transfer that is cancelled ends, even if the device never answers.    *)
CancelEnds == main.cancel ~> main.pc = "completed"
=============================================================================

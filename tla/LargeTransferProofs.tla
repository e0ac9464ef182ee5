------------------------ MODULE LargeTransferProofs ------------------------
(***************************************************************************)
(* Theorems about the stages of a long transfer, for every length, every   *)
(* number of stages and every interleaving of the thread that sends them,  *)
(* their completion routines, a short stage that cancels the others and    *)
(* the cancellation of the main request:                                   *)
(*   StagesAreFreedOnce   FreedOnceAfterUse, on two processors as well;    *)
(*   MainIsCompletedLast  MainOutlivesStages, with serial completions;     *)
(*   AllIsReported        NothingElseIsLost, with serial completions;      *)
(*   EvenDataIsInOrder    InOrderIfEven, with serial completions.          *)
(*                                                                         *)
(* Inv counts the references of a stage: one of its own completion until   *)
(* it is dropped, one for each list of stages to cancel that it is on.     *)
(* That a short stage's list is not overwritten rests on Walking: only the *)
(* completion that takes the cancel routine away walks the list.  Alone    *)
(* says that only one stage is in its completion routine before it is off  *)
(* the list, so the one that leaves the list empty is the only last one.   *)
(* Data says where the units are: the data of the stages that are through  *)
(* fill the front of the buffer, each no further ahead of its place than   *)
(* units have been lost; that of the one stage that has just returned lies *)
(* where its stage begins, and no stage that waits begins before the data  *)
(* so far ends.                                                            *)
(***************************************************************************)
EXTENDS LargeTransfer, TLAPS

StageShape ==
    [size : Int, startOffset : Int, pc : StagePcs, refs : Int, got : Int, short : BOOLEAN,
     last : BOOLEAN, cancel : BOOLEAN, freed : Int]
MainShape ==
    [pc : MainPcs, read : BOOLEAN, length : Int, next : Int, cancel : BOOLEAN,
     routine : BOOLEAN, info : Int, status : {"none", "success", "failed", "cancelled"},
     locks : Int, canceller : SUBSET Int, shorts : SUBSET Int]

\* A stage as it is built.
LEMMA StageIsShaped ==
    ASSUME NEW length \in Int, NEW i \in Int
    PROVE  /\ Stage(length, i) \in StageShape
           /\ Stage(length, i).pc = "built" /\ Stage(length, i).refs = 1
           /\ Stage(length, i).freed = 0 /\ Stage(length, i).last = FALSE
<1>1. stageSize(length, i) \in Int /\ startOffset(length, i) \in Int
  BY MaxTransferAssumption DEF stageSize, startOffset, Begins
<1> QED
  BY <1>1 DEF Stage, StageShape, StagePcs

\* The main request before it is submitted.
LEMMA NoMainIsShaped ==
    /\ NoMain \in MainShape /\ NoMain.pc = "none" /\ ~NoMain.cancel /\ ~NoMain.routine
    /\ NoMain.canceller = {} /\ NoMain.shorts = {} /\ NoMain.locks = 0 /\ NoMain.next = 1
BY DEF NoMain, MainShape, MainPcs

\* Completion of the main request.
LEMMA CompleteIsShaped ==
    ASSUME NEW m \in MainShape, NEW status \in {"success", "failed", "cancelled"},
           NEW info \in Int
    PROVE  LET c == Complete(m, status, info) IN
           /\ c \in MainShape
           /\ c.pc = "completed" /\ c.cancel = m.cancel /\ c.routine = m.routine
           /\ c.canceller = m.canceller /\ c.shorts = m.shorts /\ c.locks = m.locks - 1
           /\ c.next = m.next
<1> DEFINE locks == m.locks - 1
<1>1. locks \in Int
  BY DEF MainShape
<1>2. Complete(m, status, info)
        = [m EXCEPT !.pc = "completed", !.status = status, !.info = info, !.locks = locks]
  BY DEF Complete
<1> HIDE DEF locks
<1>3. LET c == [m EXCEPT !.pc = "completed", !.status = status, !.info = info, !.locks = locks]
      IN /\ c \in MainShape
         /\ c.pc = "completed" /\ c.cancel = m.cancel /\ c.routine = m.routine
         /\ c.canceller = m.canceller /\ c.shorts = m.shorts /\ c.locks = locks
         /\ c.next = m.next
  BY <1>1 DEF MainShape, MainPcs
<1> QED
  BY <1>2, <1>3 DEF locks

\* A stage goes on.
LEMMA StageMoves ==
    ASSUME NEW s \in StageShape, NEW pc \in StagePcs
    PROVE  LET t == [s EXCEPT !.pc = pc] IN
           /\ t \in StageShape /\ t.pc = pc /\ t.refs = s.refs /\ t.freed = s.freed
           /\ t.last = s.last
BY DEF StageShape

\* A stage loses a reference.
LEMMA StageDrops ==
    ASSUME NEW s \in StageShape
    PROVE  /\ Drop(s) \in StageShape
           /\ Drop(s).pc = s.pc /\ Drop(s).last = s.last /\ Drop(s).refs = s.refs - 1
           /\ Drop(s).freed = IF s.refs = 1 THEN s.freed + 1 ELSE s.freed
<1> DEFINE refs == s.refs - 1
           freed == IF s.refs = 1 THEN s.freed + 1 ELSE s.freed
<1>1. refs \in Int /\ freed \in Int
  BY DEF StageShape
<1>2. Drop(s) = [s EXCEPT !.refs = refs, !.freed = freed]
  BY DEF Drop, StageShape
<1> HIDE DEF refs, freed
<1>3. LET t == [s EXCEPT !.refs = refs, !.freed = freed] IN
        /\ t \in StageShape /\ t.pc = s.pc /\ t.last = s.last
        /\ t.refs = refs /\ t.freed = freed
  BY <1>1 DEF StageShape
<1> QED
  BY <1>2, <1>3 DEF refs, freed

(***************************************************************************)
(* The invariant.                                                          *)
(***************************************************************************)
One(condition) == IF condition THEN 1 ELSE 0

\* A stage is referred to by its own completion, by the program's cancellation,
\* and by a short stage that cancels the others.
Refs(i) ==
    One(stages[i].pc \notin {"finish", "done"}) + One(i \in main.canceller) + One(i \in main.shorts)
Counted == \A i \in DOMAIN stages :
    /\ stages[i].refs = Refs(i)
    /\ stages[i].freed = One(stages[i].refs = 0)

WellFormed ==
    /\ main \in MainShape
    /\ stages \in [DOMAIN stages -> StageShape] /\ DOMAIN stages \subseteq Int
    /\ list \cup main.canceller \cup main.shorts \subseteq DOMAIN stages

Listed == \A i \in DOMAIN stages : i \in list <=> stages[i].pc \in {"built", "below", "returned"}

Unsent ==
    /\ main.pc \in {"none", "build", "direct"} => DOMAIN stages = {}
    /\ main.pc \in {"none", "build", "direct", "armed"} => ~main.routine
    /\ main.pc = "armed" => \A i \in DOMAIN stages : stages[i].pc = "built"
    /\ main.pc = "send" => \A i \in DOMAIN stages : i >= main.next => stages[i].pc = "built"

\* One stage at most cancels the others, for it has taken the routine away.
Walks(i) == stages[i].pc \in {"walk", "cancels"}
Walking ==
    /\ main.routine => \A i \in DOMAIN stages : ~Walks(i)
    /\ \A i, j \in DOMAIN stages : Walks(i) /\ Walks(j) => i = j
    /\ main.shorts # {} => \E i \in DOMAIN stages : stages[i].pc = "cancels"

Inv ==
    WellFormed /\ Listed /\ Unsent /\ Walking /\ Counted /\ (~main.cancel => main.canceller = {})

LEMMA StageChanges ==
    ASSUME WellFormed, NEW i \in DOMAIN stages, NEW s \in StageShape,
           stages' = [stages EXCEPT ![i] = s]
    PROVE  /\ DOMAIN stages' = DOMAIN stages
           /\ stages' \in [DOMAIN stages' -> StageShape]
           /\ stages'[i] = s /\ \A j \in DOMAIN stages \ {i} : stages'[j] = stages[j]
BY DEF WellFormed

LEMMA EmptyHolds ==
    ASSUME main.pc \in {"none", "build", "direct", "completed"}, main \in MainShape,
           stages = <<>>, list = {}, main.canceller = {}, main.shorts = {}, ~main.routine
    PROVE  Inv
<1>1. DOMAIN stages = {} /\ stages \in [DOMAIN stages -> StageShape]
  OBVIOUS
<1> QED
  BY <1>1 DEF Inv, WellFormed, Listed, Unsent, Walking, Counted

LEMMA InitHolds == Init => Inv
BY NoMainIsShaped, EmptyHolds DEF Init

LEMMA ReturnKeepsInv ==
    ASSUME Return PROVE Inv'
<1>1. main' = NoMain /\ stages' = <<>> /\ list' = {}
  BY DEF Return
<1>2. DOMAIN stages' = {} /\ stages' \in [DOMAIN stages' -> StageShape]
  BY <1>1
<1> QED
  BY <1>1, <1>2, NoMainIsShaped DEF Inv, WellFormed, Listed, Unsent, Walking, Counted

\* Nothing has been built yet.
LEMMA UnbuiltKeepsInv ==
    ASSUME Inv, main.pc \in {"none", "build", "direct"}, main' \in MainShape,
           main'.pc \in {"none", "build", "direct", "completed"},
           main'.canceller = {}, main'.shorts = {}, ~main'.routine, UNCHANGED <<stages, list>>
    PROVE  Inv'
<1>1. DOMAIN stages = {} /\ list = {}
  BY DEF Inv, WellFormed, Unsent
<1> QED
  BY <1>1 DEF Inv, WellFormed, Listed, Unsent, Walking, Counted

LEMMA SubmitKeepsInv ==
    ASSUME Inv, NEW length \in Lengths, NEW read \in BOOLEAN, Submit(length, read)
    PROVE  Inv'
<1> DEFINE pc == IF length > MaxTransfer THEN "build" ELSE "direct"
<1>1. /\ main.pc = "none" /\ UNCHANGED <<stages, list>>
      /\ main' = [NoMain EXCEPT !.pc = pc, !.read = read, !.length = length, !.locks = 1]
  BY DEF Submit
<1>2. pc \in {"build", "direct"} /\ length \in Int
  BY LengthsAssumption
<1> HIDE DEF pc
<1>3. /\ main' \in MainShape /\ main'.pc = pc /\ main'.canceller = {} /\ main'.shorts = {}
      /\ ~main'.routine
  BY <1>1, <1>2, NoMainIsShaped DEF MainShape, MainPcs
<1> QED
  BY <1>1, <1>2, <1>3, UnbuiltKeepsInv

LEMMA ShortTransferKeepsInv ==
    ASSUME Inv,
           \/ transfer_fails \/ AllocationFails
           \/ \E got \in 0 .. MaxTransfer : transfer_complete(got) \/ transfer_aborted(got)
    PROVE  Inv'
<1>1. /\ main.pc \in {"direct", "build"} /\ UNCHANGED <<stages, list>>
  BY DEF transfer_fails, transfer_aborted, AllocationFails, transfer_complete
<1>0. PICK status \in {"success", "failed", "cancelled"}, info \in Int :
        main' = Complete(main, status, info)
  <2>1. CASE \E got \in 0 .. MaxTransfer : transfer_aborted(got)
    BY <2>1 DEF transfer_aborted
  <2>2. CASE \E got \in 0 .. MaxTransfer : transfer_complete(got)
    BY <2>2, MaxTransferAssumption DEF transfer_complete
  <2>3. CASE transfer_fails \/ AllocationFails
    BY <2>3 DEF transfer_fails, AllocationFails
  <2> QED
    BY <2>1, <2>2, <2>3
<1>2. main \in MainShape /\ main.canceller = {} /\ main.shorts = {} /\ ~main.routine
  BY <1>1 DEF Inv, WellFormed, Unsent
<1> QED
  BY <1>0, <1>1, <1>2, CompleteIsShaped, UnbuiltKeepsInv

LEMMA BuildKeepsInv ==
    ASSUME Inv, Build
    PROVE  Inv'
<1>1. /\ main.pc = "build" /\ main \in MainShape /\ ~main.routine
      /\ main.canceller = {} /\ main.shorts = {}
  BY DEF Build, Inv, WellFormed, Unsent
<1>2. CASE main.cancel
  <2>1. main' = Complete(main, "cancelled", 0) /\ UNCHANGED <<stages, list>>
    BY <1>2 DEF Build
  <2>2. /\ main' \in MainShape /\ main'.pc = "completed" /\ main'.routine = main.routine
        /\ main'.canceller = main.canceller /\ main'.shorts = main.shorts
    BY <1>1, <2>1, CompleteIsShaped, "cancelled" \in {"success", "failed", "cancelled"}, 0 \in Int
  <2> QED
    BY <1>1, <2>1, <2>2, UnbuiltKeepsInv
<1>3. CASE ~main.cancel
  <2> DEFINE n == numIrps(main.length)
  <2>1. /\ stages' = [i \in 1 .. n |-> Stage(main.length, i)] /\ list' = 1 .. n
        /\ main' = [main EXCEPT !.pc = "armed"]
    BY <1>3 DEF Build
  <2>2. /\ main' \in MainShape /\ main'.pc = "armed" /\ ~main'.routine
        /\ main'.canceller = {} /\ main'.shorts = {}
    BY <1>1, <2>1 DEF MainShape, MainPcs
  <2> HIDE DEF n
  <2>3. DOMAIN stages' = 1 .. n /\ main.length \in Int
    BY <1>1, <2>1 DEF MainShape
  <2>4. ASSUME NEW i \in 1 .. n
        PROVE  /\ stages'[i] \in StageShape /\ stages'[i].pc = "built"
               /\ stages'[i].refs = 1 /\ stages'[i].freed = 0
    <3>1. stages'[i] = Stage(main.length, i) /\ i \in Int /\ main.length \in Int
      BY <2>1, <2>3
    <3>2. /\ Stage(main.length, i) \in StageShape /\ Stage(main.length, i).pc = "built"
          /\ Stage(main.length, i).refs = 1 /\ Stage(main.length, i).freed = 0
      BY <3>1, StageIsShaped
    <3> QED
      BY <3>1, <3>2
  <2>5. WellFormed'
    <3>1. stages' \in [DOMAIN stages' -> StageShape]
      BY <2>1, <2>3, <2>4
    <3> QED
      BY <2>1, <2>2, <2>3, <3>1 DEF WellFormed
  <2>6. Listed' /\ Unsent' /\ Walking'
    BY <2>1, <2>2, <2>3, <2>4 DEF Listed, Unsent, Walking, Walks
  <2>7. Counted'
    BY <2>2, <2>3, <2>4 DEF Counted, Refs, One
  <2> QED
    BY <2>2, <2>5, <2>6, <2>7 DEF Inv
<1> QED
  BY <1>2, <1>3

LEMMA SetCancelRoutineKeepsInv ==
    ASSUME Inv, SetCancelRoutine
    PROVE  Inv'
<1>1. /\ main.pc = "armed" /\ UNCHANGED <<stages, list>>
      /\ main' = [main EXCEPT !.pc = "send", !.routine = TRUE]
      /\ main \in MainShape
  BY DEF SetCancelRoutine, Inv, WellFormed
<1>2. /\ main' \in MainShape /\ main'.pc = "send" /\ main'.canceller = main.canceller
      /\ main'.shorts = main.shorts /\ main'.cancel = main.cancel /\ main'.next = main.next
  BY <1>1 DEF MainShape, MainPcs
<1>3. \A i \in DOMAIN stages : stages[i].pc = "built"
  BY <1>1 DEF Inv, Unsent
<1>4. WellFormed' /\ Listed' /\ Counted'
  BY <1>1, <1>2 DEF Inv, WellFormed, Listed, Counted, Refs
<1>5. Unsent' /\ Walking'
  BY <1>1, <1>2, <1>3 DEF Inv, Unsent, Walking, Walks
<1> QED
  BY <1>2, <1>4, <1>5 DEF Inv

LEMMA SendKeepsInv ==
    ASSUME Inv, Send
    PROVE  Inv'
<1> DEFINE n == main.next
           s == [stages[n] EXCEPT !.pc = "below"]
<1>1. /\ main.pc = "send" /\ main \in MainShape /\ list' = list
      /\ stages' = [stages EXCEPT ![n].pc = "below"]
      /\ main' = IF n = Len(stages) THEN [main EXCEPT !.pc = "pending"]
                 ELSE [main EXCEPT !.next = @ + 1]
  BY DEF Send, Inv, WellFormed
<1>2. n \in Int /\ n + 1 \in Int
  BY <1>1 DEF MainShape
<1>3. /\ main' \in MainShape /\ main'.pc \in {"pending", "send"} /\ main'.canceller = main.canceller
      /\ main'.shorts = main.shorts /\ main'.cancel = main.cancel /\ main'.routine = main.routine
      /\ main'.pc = "send" => main'.next = n + 1
  BY <1>1, <1>2 DEF MainShape, MainPcs
<1>4. CASE n \notin DOMAIN stages
  <2>1. stages' = stages
    <3>1. /\ stages = [j \in DOMAIN stages |-> stages[j]]
          /\ stages' = [j \in DOMAIN stages |-> IF j = n THEN s ELSE stages[j]]
      BY <1>1 DEF Inv, WellFormed
    <3> HIDE DEF s, n
    <3> QED
      BY <1>4, <3>1
  <2>2. WellFormed' /\ Listed'
    BY <1>1, <1>3, <2>1 DEF Inv, WellFormed, Listed
  <2>4. Counted'
    <3>1. \A i \in DOMAIN stages : Refs(i)' = Refs(i)
      BY <1>3, <2>1 DEF Refs
    <3> QED
      BY <2>1, <3>1 DEF Inv, Counted
  <2>5. Walking'
    BY <1>1, <1>3, <2>1 DEF Inv, Walking, Walks
  <2>3. Unsent'
    <3>1. \A i \in DOMAIN stages : i \in Int
      BY DEF Inv, WellFormed
    <3> QED
      BY <1>1, <1>2, <1>3, <2>1, <3>1 DEF Inv, Unsent
  <2> QED
    BY <1>3, <2>2, <2>3, <2>4, <2>5 DEF Inv
<1>5. CASE n \in DOMAIN stages
  <2>1. stages[n] \in StageShape /\ stages[n].pc = "built" /\ WellFormed
    BY <1>1, <1>2, <1>5 DEF Inv, WellFormed, Unsent
  <2>2. /\ s \in StageShape /\ s.pc = "below" /\ s.refs = stages[n].refs
        /\ s.freed = stages[n].freed
    BY <2>1, StageMoves, "below" \in StagePcs DEF StagePcs
  <2>3. stages' = [stages EXCEPT ![n] = s]
    BY <1>1
  <2> HIDE DEF s
  <2>4. /\ DOMAIN stages' = DOMAIN stages /\ stages' \in [DOMAIN stages' -> StageShape]
        /\ stages'[n] = s /\ \A j \in DOMAIN stages \ {n} : stages'[j] = stages[j]
    BY <1>5, <2>1, <2>2, <2>3, StageChanges
  <2> HIDE DEF n
  <2>5. WellFormed' /\ Listed'
    BY <1>1, <1>3, <2>1, <2>2, <2>4 DEF Inv, WellFormed, Listed
  <2>6. Walking'
    BY <1>1, <1>3, <2>1, <2>2, <2>4 DEF Inv, Walking, Walks
  <2>7. Unsent'
    <3>1. \A i \in DOMAIN stages : i \in Int
      BY DEF Inv, WellFormed
    <3> QED
      BY <1>1, <1>2, <1>3, <2>4, <3>1 DEF Inv, Unsent, n
  <2>8. Counted'
    <3>1. ASSUME NEW i \in DOMAIN stages
          PROVE  /\ stages'[i].refs = stages[i].refs /\ stages'[i].freed = stages[i].freed
                 /\ Refs(i)' = Refs(i)
      BY <1>3, <2>1, <2>2, <2>4 DEF Refs
    <3> QED
      BY <2>4, <3>1 DEF Inv, Counted
  <2> QED
    BY <1>3, <2>5, <2>6, <2>7, <2>8 DEF Inv
<1> QED
  BY <1>4, <1>5

\* A stage that is at the lower driver comes back.
LEMMA ReturnsKeepInv ==
    ASSUME Inv, NEW i \in DOMAIN stages, NEW s \in StageShape, stages[i].pc = "below",
           stages' = [stages EXCEPT ![i] = s], UNCHANGED <<main, list>>,
           s.pc = "returned", s.refs = stages[i].refs, s.freed = stages[i].freed
    PROVE  Inv'
<1>1. /\ DOMAIN stages' = DOMAIN stages /\ stages' \in [DOMAIN stages' -> StageShape]
      /\ stages'[i] = s /\ \A j \in DOMAIN stages \ {i} : stages'[j] = stages[j]
  BY StageChanges DEF Inv
<1>2. WellFormed' /\ Listed' /\ Unsent' /\ Walking'
  BY <1>1 DEF Inv, WellFormed, Listed, Unsent, Walking, Walks
<1>3. ASSUME NEW j \in DOMAIN stages
      PROVE  /\ stages'[j].refs = stages[j].refs /\ stages'[j].freed = stages[j].freed
             /\ Refs(j)' = Refs(j)
  BY <1>1 DEF Refs
<1>4. Counted'
  BY <1>1, <1>3 DEF Inv, Counted
<1> QED
  BY <1>2, <1>4 DEF Inv

LEMMA StageReturnsKeepsInv ==
    ASSUME Inv, NEW i \in DOMAIN stages, NEW got \in 0 .. MaxTransfer, StageReturns(i, got)
    PROVE  Inv'
<1> DEFINE short == got < stages[i].size
           s == [stages[i] EXCEPT !.pc = "returned", !.got = got, !.short = short]
<1>1. /\ stages[i].pc = "below" /\ UNCHANGED <<main, list>>
      /\ stages' = [stages EXCEPT ![i] = s]
  BY DEF StageReturns, Below
<1>2. stages[i] \in StageShape /\ got \in Int /\ short \in BOOLEAN
  BY MaxTransferAssumption DEF Inv, WellFormed
<1> HIDE DEF short
<1>3. s \in StageShape /\ s.pc = "returned" /\ s.refs = stages[i].refs /\ s.freed = stages[i].freed
  <2>0. PICK old \in StageShape : old = stages[i]
    BY <1>2
  <2>1. LET u == [old EXCEPT !.pc = "returned", !.got = got, !.short = short] IN
        u \in StageShape /\ u.pc = "returned" /\ u.refs = old.refs /\ u.freed = old.freed
    BY <1>2 DEF StageShape, StagePcs
  <2> QED
    BY <2>0, <2>1
<1> HIDE DEF s
<1> QED
  BY <1>1, <1>3, ReturnsKeepInv

LEMMA StageFailsKeepsInv ==
    ASSUME Inv, NEW i \in DOMAIN stages, NEW part, StageFails(i, part)
    PROVE  Inv'
<1> DEFINE s == [stages[i] EXCEPT !.pc = "returned"]
<1>1. /\ stages[i].pc = "below" /\ UNCHANGED <<main, list>>
      /\ stages' = [stages EXCEPT ![i] = s] /\ stages[i] \in StageShape
  BY DEF StageFails, Below, Inv, WellFormed
<1>2. s \in StageShape /\ s.pc = "returned" /\ s.refs = stages[i].refs /\ s.freed = stages[i].freed
  BY <1>1, StageMoves, "returned" \in StagePcs DEF StagePcs
<1> HIDE DEF s
<1> QED
  BY <1>1, <1>2, ReturnsKeepInv

\* Only the references of one stage change.
LEMMA OneIsCounted ==
    ASSUME Inv, NEW i \in DOMAIN stages, NEW s \in StageShape,
           stages' = [stages EXCEPT ![i] = s],
           \A j \in DOMAIN stages \ {i} :
               (j \in main'.canceller <=> j \in main.canceller)
               /\ (j \in main'.shorts <=> j \in main.shorts),
           s.refs = Refs(i)', s.freed = One(s.refs = 0)
    PROVE  Counted'
<1>1. /\ DOMAIN stages' = DOMAIN stages
      /\ stages'[i] = s /\ \A j \in DOMAIN stages \ {i} : stages'[j] = stages[j]
  BY StageChanges DEF Inv
<1>2. ASSUME NEW j \in DOMAIN stages \ {i}
      PROVE  stages'[j].refs = Refs(j)' /\ stages'[j].freed = One(stages'[j].refs = 0)
  <2>1. Refs(j)' = Refs(j) /\ stages'[j] = stages[j]
    BY <1>1 DEF Refs
  <2> QED
    BY <2>1 DEF Inv, Counted
<1>3. stages'[i].refs = Refs(i)' /\ stages'[i].freed = One(stages'[i].refs = 0)
  BY <1>1
<1> QED
  BY <1>1, <1>2, <1>3 DEF Counted

\* One that is counted loses a reference.
LEMMA DropIsCounted ==
    ASSUME Inv, NEW i \in DOMAIN stages, Refs(i) >= 1
    PROVE  /\ stages[i] \in StageShape /\ Drop(stages[i]) \in StageShape
           /\ Drop(stages[i]).pc = stages[i].pc /\ Drop(stages[i]).last = stages[i].last
           /\ Drop(stages[i]).refs = Refs(i) - 1
           /\ Drop(stages[i]).freed = One(Refs(i) - 1 = 0)
<1>1. PICK s \in StageShape : s = stages[i]
  BY DEF Inv, WellFormed
<1>2. s.refs = Refs(i) /\ s.freed = One(s.refs = 0) /\ s.refs \in Int
  BY <1>1 DEF Inv, Counted, StageShape
<1>3. /\ Drop(s) \in StageShape /\ Drop(s).pc = s.pc /\ Drop(s).last = s.last
      /\ Drop(s).refs = s.refs - 1
      /\ Drop(s).freed = IF s.refs = 1 THEN s.freed + 1 ELSE s.freed
  BY StageDrops
<1>4. Drop(s).freed = One(s.refs - 1 = 0)
  BY <1>2, <1>3 DEF One
<1> QED
  BY <1>1, <1>2, <1>3, <1>4

\* Whether its data are added up or lost, a stage is through.
LEMMA CompletionAddsUp ==
    ASSUME Inv, NEW i \in DOMAIN stages, large_transfer_complete(i) \/ MappingFails(i)
    PROVE  stages[i].pc = "returned" /\ \E information \in Int : AddsUp(i, information)
<1>1. stages[i].got \in Int /\ 0 \in Int
  BY DEF Inv, WellFormed, StageShape
<1> QED
  BY <1>1 DEF large_transfer_complete, MappingFails

LEMMA AddsUpKeepsInv ==
    ASSUME Inv, NEW i \in DOMAIN stages, stages[i].pc = "returned",
           NEW information \in Int, AddsUp(i, information)
    PROVE  Inv'
<1> DEFINE pc == IF CancelsOthers(i) THEN "walk" ELSE "drop"
           last == IsLast(i)
           info == main.info + information
           routine == main.routine /\ ~IsLast(i) /\ ~CancelsOthers(i)
           s == [stages[i] EXCEPT !.pc = pc, !.last = last]
<1>1. /\ stages[i].pc = "returned" /\ list' = list \ {i}
      /\ main' = [main EXCEPT !.info = info, !.routine = routine]
      /\ stages' = [stages EXCEPT ![i] = s]
  BY DEF AddsUp
<1>2. /\ pc \in {"walk", "drop"} /\ last \in BOOLEAN /\ routine \in BOOLEAN
      /\ pc = "walk" => main.routine /\ ~routine
      /\ routine => main.routine
  BY DEF CancelsOthers, IsLast
<1>3. PICK old \in StageShape : old = stages[i]
  BY DEF Inv, WellFormed
<1>4. main \in MainShape /\ info \in Int
  BY DEF Inv, WellFormed, MainShape
<1> HIDE DEF pc, last, info, routine
<1>5. /\ main' \in MainShape /\ main'.pc = main.pc /\ main'.canceller = main.canceller
      /\ main'.shorts = main.shorts /\ main'.cancel = main.cancel /\ main'.next = main.next
      /\ main'.routine = routine
  BY <1>1, <1>2, <1>4 DEF MainShape
<1>6. s \in StageShape /\ s.pc = pc /\ s.refs = old.refs /\ s.freed = old.freed
  <2>1. LET u == [old EXCEPT !.pc = pc, !.last = last] IN
        u \in StageShape /\ u.pc = pc /\ u.refs = old.refs /\ u.freed = old.freed
    BY <1>2 DEF StageShape, StagePcs
  <2> QED
    BY <1>3, <2>1
<1> HIDE DEF s
<1>7. /\ DOMAIN stages' = DOMAIN stages /\ stages' \in [DOMAIN stages' -> StageShape]
      /\ stages'[i] = s /\ \A j \in DOMAIN stages \ {i} : stages'[j] = stages[j]
  BY <1>1, <1>6, StageChanges DEF Inv
<1>8. WellFormed' /\ Listed'
  BY <1>1, <1>2, <1>5, <1>6, <1>7 DEF Inv, WellFormed, Listed
<1>9. Unsent'
  BY <1>1, <1>2, <1>5, <1>6, <1>7 DEF Inv, Unsent
<1>10. Walking'
  <2>1. main'.routine => \A j \in DOMAIN stages' : ~Walks(j)'
    BY <1>2, <1>5, <1>6, <1>7 DEF Inv, Walking, Walks
  <2>2. \A j, k \in DOMAIN stages' : Walks(j)' /\ Walks(k)' => j = k
    BY <1>2, <1>5, <1>6, <1>7 DEF Inv, Walking, Walks
  <2>3. main'.shorts # {} => \E j \in DOMAIN stages' : stages'[j].pc = "cancels"
    BY <1>1, <1>5, <1>7 DEF Inv, Walking
  <2> QED
    BY <2>1, <2>2, <2>3 DEF Walking, Walks
<1>11. Counted'
  <2>1. Refs(i)' = Refs(i) /\ s.refs = Refs(i) /\ s.freed = One(s.refs = 0)
    BY <1>1, <1>2, <1>3, <1>5, <1>6, <1>7 DEF Inv, Counted, Refs
  <2> QED
    BY <1>1, <1>5, <1>6, <2>1, OneIsCounted
<1> QED
  BY <1>5, <1>8, <1>9, <1>10, <1>11 DEF Inv

LEMMA CompleteKeepsInv ==
    ASSUME Inv, NEW i \in DOMAIN stages, large_transfer_complete(i) \/ MappingFails(i)
    PROVE  Inv'
BY CompletionAddsUp, AddsUpKeepsInv

LEMMA DropReferenceKeepsInv ==
    ASSUME Inv, NEW i \in DOMAIN stages, DropReference(i)
    PROVE  Inv'
<1> DEFINE pc == IF stages[i].last THEN "finish" ELSE "done"
           d == Drop(stages[i])
           s == [d EXCEPT !.pc = pc]
<1>1. /\ stages[i].pc = "drop" /\ UNCHANGED <<main, list>>
      /\ stages' = [stages EXCEPT ![i] = s]
  BY DEF DropReference
<1>2. pc \in {"finish", "done"} /\ pc \in StagePcs
  BY DEF StagePcs
<1>3. Refs(i) >= 1 /\ main \in MainShape
  BY <1>1 DEF Inv, WellFormed, Refs, One
<1>4. d \in StageShape /\ d.refs = Refs(i) - 1 /\ d.freed = One(Refs(i) - 1 = 0)
  BY <1>3, DropIsCounted
<1> HIDE DEF pc, d
<1>5. s \in StageShape /\ s.pc = pc /\ s.refs = d.refs /\ s.freed = d.freed
  BY <1>2, <1>4, StageMoves
<1> HIDE DEF s
<1>6. /\ DOMAIN stages' = DOMAIN stages /\ stages' \in [DOMAIN stages' -> StageShape]
      /\ stages'[i] = s /\ \A j \in DOMAIN stages \ {i} : stages'[j] = stages[j]
  BY <1>1, <1>5, StageChanges DEF Inv
<1>7. WellFormed' /\ Listed'
  BY <1>1, <1>2, <1>5, <1>6 DEF Inv, WellFormed, Listed
<1>8. Unsent'
  BY <1>1, <1>2, <1>5, <1>6 DEF Inv, Unsent
<1>9. Walking'
  BY <1>1, <1>2, <1>5, <1>6 DEF Inv, Walking, Walks
<1>10. Counted'
  <2>1. Refs(i)' = Refs(i) - 1
    BY <1>1, <1>2, <1>5, <1>6 DEF Refs, One
  <2> QED
    BY <1>1, <1>4, <1>5, <2>1, OneIsCounted
<1> QED
  BY <1>1, <1>7, <1>8, <1>9, <1>10 DEF Inv

LEMMA FinishKeepsInv ==
    ASSUME Inv, NEW i \in DOMAIN stages, Finish(i)
    PROVE  Inv'
<1> DEFINE s == [stages[i] EXCEPT !.pc = "done"]
<1>1. /\ stages[i].pc = "finish" /\ UNCHANGED list /\ main' = Complete(main, "success", main.info)
      /\ stages' = [stages EXCEPT ![i] = s] /\ stages[i] \in StageShape
      /\ main \in MainShape /\ main.info \in Int
  BY DEF Finish, Inv, WellFormed, MainShape
<1>2. s \in StageShape /\ s.pc = "done" /\ s.refs = stages[i].refs /\ s.freed = stages[i].freed
  BY <1>1, StageMoves, "done" \in StagePcs DEF StagePcs
<1>3. /\ main' \in MainShape /\ main'.pc = "completed" /\ main'.routine = main.routine
      /\ main'.canceller = main.canceller /\ main'.shorts = main.shorts
      /\ main'.cancel = main.cancel
  BY <1>1, CompleteIsShaped, "success" \in {"success", "failed", "cancelled"}
<1> HIDE DEF s
<1>4. /\ DOMAIN stages' = DOMAIN stages /\ stages' \in [DOMAIN stages' -> StageShape]
      /\ stages'[i] = s /\ \A j \in DOMAIN stages \ {i} : stages'[j] = stages[j]
  BY <1>1, <1>2, StageChanges DEF Inv
<1>5. WellFormed' /\ Listed'
  BY <1>1, <1>2, <1>3, <1>4 DEF Inv, WellFormed, Listed
<1>6. Unsent'
  BY <1>3 DEF Unsent
<1>7. Walking'
  BY <1>1, <1>2, <1>3, <1>4 DEF Inv, Walking, Walks
<1>8. Counted'
  <2>1. Refs(i)' = Refs(i) /\ s.refs = Refs(i) /\ s.freed = One(s.refs = 0)
    BY <1>1, <1>2, <1>3, <1>4 DEF Inv, Counted, Refs
  <2> QED
    BY <1>1, <1>2, <1>3, <2>1, OneIsCounted
<1> QED
  BY <1>3, <1>5, <1>6, <1>7, <1>8 DEF Inv

\* A stage on a list of stages to cancel is cancelled and loses that reference.
LEMMA CancelledIsCounted ==
    ASSUME Inv, NEW i \in DOMAIN stages, main' \in MainShape, UNCHANGED list,
           stages' = [stages EXCEPT ![i] = [Drop(@) EXCEPT !.cancel = TRUE]],
           main'.pc = main.pc, main'.next = main.next, main'.routine = main.routine,
           main'.cancel = main.cancel,
           \/ i \in main.canceller /\ main'.canceller = main.canceller \ {i}
              /\ main'.shorts = main.shorts
           \/ i \in main.shorts /\ main'.shorts = main.shorts \ {i}
              /\ main'.canceller = main.canceller
    PROVE  Inv'
<1> DEFINE d == Drop(stages[i])
           s == [d EXCEPT !.cancel = TRUE]
<1>1. Refs(i) >= 1 /\ main \in MainShape
  BY DEF Inv, WellFormed, Refs, One
<1>2. /\ stages[i] \in StageShape /\ d \in StageShape /\ d.pc = stages[i].pc
      /\ d.refs = Refs(i) - 1 /\ d.freed = One(Refs(i) - 1 = 0)
  BY <1>1, DropIsCounted
<1>3. stages' = [stages EXCEPT ![i] = s]
  OBVIOUS
<1> HIDE DEF d
<1>4. s \in StageShape /\ s.pc = d.pc /\ s.refs = d.refs /\ s.freed = d.freed
  BY <1>2 DEF StageShape
<1> HIDE DEF s
<1>5. /\ DOMAIN stages' = DOMAIN stages /\ stages' \in [DOMAIN stages' -> StageShape]
      /\ stages'[i] = s /\ \A j \in DOMAIN stages \ {i} : stages'[j] = stages[j]
  BY <1>3, <1>4, StageChanges DEF Inv
<1>6. \A j \in DOMAIN stages : stages'[j].pc = stages[j].pc
  BY <1>2, <1>4, <1>5
<1>7. WellFormed' /\ Listed' /\ Unsent'
  BY <1>5, <1>6 DEF Inv, WellFormed, Listed, Unsent
<1>8. Walking'
  BY <1>5, <1>6 DEF Inv, Walking, Walks
<1>9. Counted'
  <2>1. \A j \in DOMAIN stages \ {i} :
          (j \in main'.canceller <=> j \in main.canceller)
          /\ (j \in main'.shorts <=> j \in main.shorts)
    OBVIOUS
  <2>2. PICK a \in Int : a = One(stages[i].pc \notin {"finish", "done"})
    BY DEF One
  <2>3. /\ Refs(i) = a + One(i \in main.canceller) + One(i \in main.shorts)
        /\ Refs(i)' = a + One(i \in main'.canceller) + One(i \in main'.shorts)
    BY <1>6, <2>2 DEF Refs
  <2>5. Refs(i)' = Refs(i) - 1
    <3>1. CASE i \in main.canceller /\ i \notin main'.canceller /\ main'.shorts = main.shorts
      <4>1. PICK c \in Int : c = One(i \in main.shorts)
        BY DEF One
      <4> QED
        BY <2>3, <3>1, <4>1 DEF One
    <3>2. CASE i \in main.shorts /\ i \notin main'.shorts /\ main'.canceller = main.canceller
      <4>1. PICK c \in Int : c = One(i \in main.canceller)
        BY DEF One
      <4> QED
        BY <2>3, <3>2, <4>1 DEF One
    <3> QED
      BY <3>1, <3>2
  <2>6. s.refs = Refs(i)' /\ s.freed = One(s.refs = 0)
    BY <1>2, <1>4, <2>5
  <2> QED
    BY <1>3, <1>4, <2>1, <2>6, OneIsCounted
<1> QED
  BY <1>7, <1>8, <1>9 DEF Inv

LEMMA RoutineCancelsKeepsInv ==
    ASSUME Inv, NEW i \in DOMAIN stages, RoutineCancels(i)
    PROVE  Inv'
<1> DEFINE canceller == main.canceller \ {i}
<1>1. /\ i \in main.canceller /\ main' = [main EXCEPT !.canceller = canceller]
      /\ stages' = [stages EXCEPT ![i] = [Drop(@) EXCEPT !.cancel = TRUE]] /\ UNCHANGED list
      /\ main \in MainShape /\ canceller \in SUBSET Int
  BY DEF RoutineCancels, Inv, WellFormed, MainShape
<1> HIDE DEF canceller
<1>2. /\ main' \in MainShape /\ main'.pc = main.pc /\ main'.canceller = canceller
      /\ main'.shorts = main.shorts /\ main'.cancel = main.cancel /\ main'.next = main.next
      /\ main'.routine = main.routine
  BY <1>1 DEF MainShape
<1> QED
  BY <1>1, <1>2, CancelledIsCounted DEF canceller

LEMMA ShortCancelsKeepsInv ==
    ASSUME Inv, NEW i \in DOMAIN stages, ShortCancels(i)
    PROVE  Inv'
<1>1. stages[i].pc = "cancels" /\ UNCHANGED list /\ main \in MainShape /\ stages[i] \in StageShape
  BY DEF ShortCancels, Inv, WellFormed
<1>2. CASE main.shorts = {}
  <2> DEFINE s == [stages[i] EXCEPT !.pc = "drop"]
  <2>1. UNCHANGED main /\ stages' = [stages EXCEPT ![i] = s]
    BY <1>2 DEF ShortCancels
  <2>2. s \in StageShape /\ s.pc = "drop" /\ s.refs = stages[i].refs /\ s.freed = stages[i].freed
    BY <1>1, StageMoves, "drop" \in StagePcs DEF StagePcs
  <2> HIDE DEF s
  <2>3. /\ DOMAIN stages' = DOMAIN stages /\ stages' \in [DOMAIN stages' -> StageShape]
        /\ stages'[i] = s /\ \A j \in DOMAIN stages \ {i} : stages'[j] = stages[j]
    BY <1>1, <2>1, <2>2, StageChanges DEF Inv
  <2>4. WellFormed' /\ Listed'
    BY <1>1, <2>1, <2>2, <2>3 DEF Inv, WellFormed, Listed
  <2>5. Unsent'
    BY <1>1, <2>1, <2>2, <2>3 DEF Inv, Unsent
  <2>6. Walking'
    BY <1>1, <1>2, <2>1, <2>2, <2>3 DEF Inv, Walking, Walks
  <2>7. Counted'
    <3>1. Refs(i)' = Refs(i) /\ s.refs = Refs(i) /\ s.freed = One(s.refs = 0)
      BY <1>1, <2>1, <2>2, <2>3 DEF Inv, Counted, Refs
    <3> QED
      BY <2>1, <2>2, <3>1, OneIsCounted
  <2> QED
    BY <2>1, <2>4, <2>5, <2>6, <2>7 DEF Inv
<1>3. CASE main.shorts # {}
  <2>1. PICK j \in main.shorts :
          /\ stages' = [stages EXCEPT ![j] = [Drop(@) EXCEPT !.cancel = TRUE]]
          /\ main' = [main EXCEPT !.shorts = @ \ {j}]
    BY <1>3 DEF ShortCancels
  <2> DEFINE shorts == main.shorts \ {j}
  <2>2. /\ main' = [main EXCEPT !.shorts = shorts] /\ shorts \in SUBSET Int
        /\ j \in DOMAIN stages
    BY <1>1, <2>1 DEF Inv, WellFormed, MainShape
  <2> HIDE DEF shorts
  <2>3. /\ main' \in MainShape /\ main'.pc = main.pc /\ main'.canceller = main.canceller
        /\ main'.shorts = shorts /\ main'.cancel = main.cancel /\ main'.next = main.next
        /\ main'.routine = main.routine
    BY <1>1, <2>2 DEF MainShape
  <2> QED
    BY <1>1, <2>1, <2>2, <2>3, CancelledIsCounted DEF shorts
<1> QED
  BY <1>2, <1>3

LEMMA StageIsHeld ==
    ASSUME NEW s \in StageShape
    PROVE  LET t == [s EXCEPT !.refs = @ + 1] IN
           /\ t \in StageShape /\ t.pc = s.pc /\ t.refs = s.refs + 1 /\ t.freed = s.freed
           /\ t.last = s.last
<1> DEFINE refs == s.refs + 1
<1>1. refs \in Int /\ [s EXCEPT !.refs = @ + 1] = [s EXCEPT !.refs = refs]
  BY DEF StageShape
<1> HIDE DEF refs
<1>2. LET t == [s EXCEPT !.refs = refs] IN
        t \in StageShape /\ t.pc = s.pc /\ t.refs = refs /\ t.freed = s.freed /\ t.last = s.last
  BY <1>1 DEF StageShape
<1> QED
  BY <1>1, <1>2 DEF refs

\* A reference is taken of every stage on the list: by the routine, or by a short stage.
LEMMA ReferencesAreCounted ==
    ASSUME Inv, NEW before, before \in [DOMAIN stages -> StageShape],
           stages' = References(before),
           \A j \in DOMAIN stages :
               /\ before[j].refs = stages[j].refs /\ before[j].freed = stages[j].freed
               /\ j \in list => before[j] = stages[j]
               /\ stages[j].pc \in {"finish", "done"} <=> before[j].pc \in {"finish", "done"},
           \A j \in DOMAIN stages :
               One(j \in main'.canceller) + One(j \in main'.shorts)
                 = One(j \in main.canceller) + One(j \in main.shorts) + One(j \in list)
    PROVE  /\ DOMAIN stages' = DOMAIN stages /\ stages' \in [DOMAIN stages' -> StageShape]
           /\ \A j \in DOMAIN stages : stages'[j].pc = before[j].pc /\ stages'[j].last = before[j].last
           /\ Counted'
<1>1. DOMAIN stages' = DOMAIN stages
  BY DEF References
<1>2. ASSUME NEW j \in DOMAIN stages
      PROVE  /\ stages'[j] \in StageShape /\ stages'[j].pc = before[j].pc
             /\ stages'[j].last = before[j].last
             /\ stages'[j].refs = Refs(j)' /\ stages'[j].freed = One(stages'[j].refs = 0)
  <2>1. PICK s \in StageShape : s = before[j]
    OBVIOUS
  <2>2. s.refs = Refs(j) /\ s.freed = One(s.refs = 0)
    BY <2>1 DEF Inv, Counted
  <2>3. /\ stages'[j] \in StageShape /\ stages'[j].pc = s.pc /\ stages'[j].last = s.last
        /\ stages'[j].refs = s.refs + One(j \in list) /\ stages'[j].freed = s.freed
    <3>1. CASE j \in list
      <4>1. stages'[j] = [s EXCEPT !.refs = @ + 1]
        BY <2>1, <3>1 DEF References
      <4>2. LET t == [s EXCEPT !.refs = @ + 1] IN
            /\ t \in StageShape /\ t.pc = s.pc /\ t.refs = s.refs + 1 /\ t.freed = s.freed
            /\ t.last = s.last
        BY StageIsHeld
      <4> QED
        BY <3>1, <4>1, <4>2 DEF One
    <3>2. CASE j \notin list
      <4>1. stages'[j] = s /\ s.refs \in Int
        BY <2>1, <3>2 DEF References, StageShape
      <4> QED
        BY <3>2, <4>1 DEF One
    <3> QED
      BY <3>1, <3>2
  <2>4. Refs(j)' = Refs(j) + One(j \in list)
    <3>1. One(stages'[j].pc \notin {"finish", "done"}) = One(stages[j].pc \notin {"finish", "done"})
      BY <2>1, <2>3
    <3>2. One(stages[j].pc \notin {"finish", "done"}) \in Int /\ One(j \in main.canceller) \in Int
          /\ One(j \in main.shorts) \in Int /\ One(j \in main'.canceller) \in Int
          /\ One(j \in main'.shorts) \in Int /\ One(j \in list) \in Int
      BY DEF One
    <3> QED
      BY <3>1, <3>2 DEF Refs
  <2>5. stages'[j].freed = One(stages'[j].refs = 0)
    <3>1. CASE j \in list
      <4>1. stages[j].pc \in {"built", "below", "returned"}
        BY <3>1 DEF Inv, Listed
      <4>2. s.refs >= 1 /\ s.refs \in Int
        BY <2>2, <4>1 DEF Refs, One
      <4> QED
        BY <2>2, <2>3, <3>1, <4>2 DEF One
    <3>2. CASE j \notin list
      BY <2>1, <2>2, <2>3, <3>2 DEF One, StageShape
    <3> QED
      BY <3>1, <3>2
  <2> QED
    BY <2>1, <2>2, <2>3, <2>4, <2>5
<1>3. stages' \in [DOMAIN stages' -> StageShape]
  <2>1. stages' = [j \in DOMAIN stages |-> stages'[j]]
    BY DEF References
  <2> QED
    BY <1>1, <1>2, <2>1
<1> QED
  BY <1>1, <1>2, <1>3 DEF Counted

LEMMA CancelMainKeepsInv ==
    ASSUME Inv, CancelMain
    PROVE  Inv'
<1> DEFINE canceller == IF main.routine THEN list ELSE {}
<1>1. /\ ~main.cancel /\ main.canceller = {} /\ UNCHANGED list /\ main \in MainShape
      /\ main' = [main EXCEPT !.cancel = TRUE, !.routine = FALSE, !.canceller = canceller]
      /\ stages' = IF main.routine THEN References(stages) ELSE stages
      /\ WellFormed /\ canceller \in SUBSET Int
  BY DEF CancelMain, Inv, WellFormed
<1> HIDE DEF canceller
<1>2. /\ main' \in MainShape /\ main'.pc = main.pc /\ main'.canceller = canceller
      /\ main'.shorts = main.shorts /\ main'.cancel /\ main'.next = main.next
      /\ ~main'.routine
  BY <1>1 DEF MainShape
<1>3. /\ DOMAIN stages' = DOMAIN stages /\ stages' \in [DOMAIN stages' -> StageShape]
      /\ \A j \in DOMAIN stages : stages'[j].pc = stages[j].pc
      /\ Counted'
  <2>1. CASE main.routine
    <3>1. stages' = References(stages) /\ stages \in [DOMAIN stages -> StageShape]
      BY <1>1, <2>1 DEF WellFormed
    <3>2. \A j \in DOMAIN stages :
            One(j \in main'.canceller) + One(j \in main'.shorts)
              = One(j \in main.canceller) + One(j \in main.shorts) + One(j \in list)
      BY <1>1, <1>2, <2>1 DEF One, canceller
    <3> QED
      BY <3>1, <3>2, ReferencesAreCounted
  <2>2. CASE ~main.routine
    <3>1. stages' = stages /\ main'.canceller = main.canceller
      BY <1>1, <1>2, <2>2 DEF canceller
    <3> QED
      BY <1>1, <1>2, <3>1 DEF Inv, WellFormed, Counted, Refs
  <2> QED
    BY <2>1, <2>2
<1>4. WellFormed' /\ Listed'
  BY <1>1, <1>2, <1>3 DEF Inv, WellFormed, Listed, canceller
<1>5. Unsent'
  BY <1>1, <1>2, <1>3 DEF Inv, Unsent
<1>6. Walking'
  BY <1>1, <1>2, <1>3 DEF Inv, Walking, Walks
<1> QED
  BY <1>2, <1>3, <1>4, <1>5, <1>6 DEF Inv

LEMMA ShortWalksKeepsInv ==
    ASSUME Inv, NEW i \in DOMAIN stages, ShortWalks(i)
    PROVE  Inv'
<1> DEFINE s == [stages[i] EXCEPT !.pc = "cancels"]
           before == [stages EXCEPT ![i] = s]
<1>1. /\ stages[i].pc = "walk" /\ UNCHANGED list /\ main' = [main EXCEPT !.shorts = list]
      /\ stages' = References(before) /\ main \in MainShape /\ stages[i] \in StageShape
      /\ stages \in [DOMAIN stages -> StageShape] /\ list \in SUBSET Int
  BY DEF ShortWalks, Inv, WellFormed
<1>2. /\ s \in StageShape /\ s.pc = "cancels" /\ s.refs = stages[i].refs
      /\ s.freed = stages[i].freed
  BY <1>1, StageMoves, "cancels" \in StagePcs DEF StagePcs
<1> HIDE DEF s
<1>3. /\ main' \in MainShape /\ main'.pc = main.pc /\ main'.canceller = main.canceller
      /\ main'.shorts = list /\ main'.cancel = main.cancel /\ main'.next = main.next
      /\ main'.routine = main.routine
  BY <1>1 DEF MainShape
<1>4. /\ before \in [DOMAIN stages -> StageShape] /\ before[i] = s
      /\ \A j \in DOMAIN stages \ {i} : before[j] = stages[j]
  BY <1>1, <1>2
<1>5. i \notin list /\ main.shorts = {}
  BY <1>1 DEF Inv, Listed, Walking, Walks
<1> HIDE DEF before
<1>6. /\ DOMAIN stages' = DOMAIN stages /\ stages' \in [DOMAIN stages' -> StageShape]
      /\ \A j \in DOMAIN stages : stages'[j].pc = before[j].pc
      /\ Counted'
  <2>1. \A j \in DOMAIN stages :
          One(j \in main'.canceller) + One(j \in main'.shorts)
            = One(j \in main.canceller) + One(j \in main.shorts) + One(j \in list)
    BY <1>3, <1>5 DEF One
  <2>2. \A j \in DOMAIN stages :
          /\ before[j].refs = stages[j].refs /\ before[j].freed = stages[j].freed
          /\ j \in list => before[j] = stages[j]
          /\ stages[j].pc \in {"finish", "done"} <=> before[j].pc \in {"finish", "done"}
    BY <1>1, <1>2, <1>4, <1>5
  <2> QED
    BY <1>1, <1>4, <2>1, <2>2, ReferencesAreCounted
<1>7. stages'[i].pc = "cancels" /\ \A j \in DOMAIN stages \ {i} : stages'[j].pc = stages[j].pc
  BY <1>2, <1>4, <1>6
<1>8. WellFormed' /\ Listed'
  BY <1>1, <1>3, <1>6, <1>7 DEF Inv, WellFormed, Listed
<1>9. Unsent'
  BY <1>1, <1>3, <1>6, <1>7 DEF Inv, Unsent
<1>10. Walking'
  BY <1>1, <1>3, <1>6, <1>7 DEF Inv, Walking, Walks
<1> QED
  BY <1>3, <1>6, <1>8, <1>9, <1>10 DEF Inv

LEMMA StepKeepsInv == Inv /\ [Next]_vars => Inv'
<1> SUFFICES ASSUME Inv, [Next]_vars PROVE Inv'
  OBVIOUS
<1>1. CASE \E length \in Lengths, read \in BOOLEAN : Submit(length, read)
  BY <1>1, SubmitKeepsInv
<1>2. CASE transfer_fails \/ AllocationFails
  BY <1>2, ShortTransferKeepsInv
<1>3. CASE \E got \in 0 .. MaxTransfer : transfer_complete(got) \/ transfer_aborted(got)
  BY <1>3, ShortTransferKeepsInv
<1>4. CASE Thread
  BY <1>4, BuildKeepsInv, SetCancelRoutineKeepsInv, SendKeepsInv DEF Thread
<1>5. CASE CancelMain
  BY <1>5, CancelMainKeepsInv
<1>6. CASE Return
  BY <1>6, ReturnKeepsInv
<1>7. ASSUME NEW i \in DOMAIN stages,
             \/ Completion(i) \/ RoutineCancels(i)
             \/ \E got \in 0 .. MaxTransfer : StageReturns(i, got) \/ StageFails(i, got)
      PROVE  Inv'
  BY <1>7, StageFailsKeepsInv, RoutineCancelsKeepsInv, StageReturnsKeepsInv, CompleteKeepsInv,
     ShortWalksKeepsInv, ShortCancelsKeepsInv, DropReferenceKeepsInv, FinishKeepsInv
     DEF Completion
<1>8. CASE UNCHANGED vars
  BY <1>8 DEF vars, Inv, WellFormed, Listed, Unsent, Walking, Walks, Counted, Refs
<1> QED
  BY <1>1, <1>2, <1>3, <1>4, <1>5, <1>6, <1>7, <1>8 DEF Next

(* A stage is freed once, by the last of the completion routine, the       *)
(* routine that cancels the main request and a short stage that cancels    *)
(* the others to let go of it, however these interleave and however many   *)
(* stages there are, on two processors as well.                            *)
THEOREM StagesAreFreedOnce == Spec => []FreedOnceAfterUse
<1>1. Inv => FreedOnceAfterUse
  <2> SUFFICES ASSUME Inv, NEW i \in DOMAIN stages
               PROVE  /\ stages[i].freed = (IF stages[i].refs = 0 THEN 1 ELSE 0)
                      /\ InUse(i) => stages[i].freed = 0
    BY DEF FreedOnceAfterUse
  <2>1. stages[i].refs = Refs(i) /\ stages[i].freed = One(stages[i].refs = 0)
    BY DEF Inv, Counted
  <2>2. InUse(i) => Refs(i) >= 1
    BY DEF InUse, Refs, One, Inv, Listed
  <2>3. Refs(i) \in Int
    BY DEF Refs, One
  <2> QED
    BY <2>1, <2>2, <2>3 DEF One
<1>2. Spec => []Inv
  BY InitHolds, StepKeepsInv, PTL DEF Spec
<1> QED
  BY <1>1, <1>2, PTL

(***************************************************************************)
(* Completion routines one after the other: the last stage completes the   *)
(* main request, when all others are through.                              *)
(***************************************************************************)
Up(i) == stages[i].pc \in {"returned", "walk"}
Through ==
    /\ \A i, j \in DOMAIN stages : Up(i) /\ Up(j) => i = j
    /\ \A i, j \in DOMAIN stages : stages[i].last /\ stages[j].last => i = j
    /\ \A i, j \in DOMAIN stages : stages[i].last => list = {} /\ stages[j].pc # "walk"
    /\ \A i \in DOMAIN stages : stages[i].pc = "finish" => stages[i].last
Locked == main.locks = IF main.pc \in {"none", "completed"} THEN 0 ELSE 1
Ended ==
    main.pc = "completed" =>
        \/ DOMAIN stages = {}
        \/ \E i \in DOMAIN stages : stages[i].last /\ stages[i].pc = "done"
Alone == Through /\ Locked /\ Ended

LEMMA StagesBelongToMain ==
    ASSUME Inv, NEW i \in DOMAIN stages
    PROVE  main.pc \notin {"none", "build", "direct"}
BY DEF Inv, Unsent

\* Steps that neither bring a stage back nor complete one.
LEMMA StagesMoveOn ==
    ASSUME Alone, DOMAIN stages' = DOMAIN stages, list' = list, main'.locks = main.locks,
           main'.pc = "completed" <=> main.pc = "completed", main'.pc = "none" <=> main.pc = "none",
           \A j \in DOMAIN stages :
               /\ stages'[j].last = stages[j].last
               /\ stages'[j].pc = stages[j].pc
                  \/ /\ stages[j].pc # "done" /\ stages'[j].pc \notin {"returned", "walk"}
                     /\ stages'[j].pc = "finish" => stages[j].last
    PROVE  Alone'
<1>1. Through'
  BY DEF Alone, Through, Up
<1>2. Locked'
  BY DEF Alone, Locked
<1>3. Ended'
  BY DEF Alone, Ended
<1> QED
  BY <1>1, <1>2, <1>3 DEF Alone

LEMMA EmptyIsAlone ==
    ASSUME DOMAIN stages' = {},
           main'.locks = IF main'.pc \in {"none", "completed"} THEN 0 ELSE 1
    PROVE  Alone'
BY DEF Alone, Through, Locked, Ended, Up

LEMMA InitIsAlone == Init => Alone
<1> SUFFICES ASSUME Init PROVE Alone
  OBVIOUS
<1>1. DOMAIN stages = {}
  BY DEF Init
<1>2. main.locks = 0 /\ main.pc = "none"
  BY NoMainIsShaped DEF Init
<1> QED
  BY <1>1, <1>2 DEF Alone, Through, Locked, Ended, Up

LEMMA SubmitKeepsAlone ==
    ASSUME Inv, NEW length \in Lengths, NEW read \in BOOLEAN, Submit(length, read)
    PROVE  Alone'
<1> DEFINE pc == IF length > MaxTransfer THEN "build" ELSE "direct"
<1>1. /\ main.pc = "none" /\ UNCHANGED stages
      /\ main' = [NoMain EXCEPT !.pc = pc, !.read = read, !.length = length, !.locks = 1]
  BY DEF Submit
<1>2. pc \in {"build", "direct"}
  OBVIOUS
<1> HIDE DEF pc
<1>3. main'.locks = 1 /\ main'.pc = pc
  BY <1>1, NoMainIsShaped DEF MainShape
<1> QED
  BY <1>1, <1>2, <1>3, EmptyIsAlone DEF Inv, Unsent

LEMMA ReturnKeepsAlone ==
    ASSUME Return PROVE Alone'
<1>1. main' = NoMain /\ stages' = <<>>
  BY DEF Return
<1>2. DOMAIN stages' = {} /\ main'.locks = 0 /\ main'.pc = "none"
  BY <1>1, NoMainIsShaped
<1> QED
  BY <1>2, EmptyIsAlone

LEMMA ShortTransferKeepsAlone ==
    ASSUME Inv, Alone,
           \/ transfer_fails \/ AllocationFails
           \/ \E got \in 0 .. MaxTransfer : transfer_complete(got) \/ transfer_aborted(got)
    PROVE  Alone'
<1>1. /\ main.pc \in {"direct", "build"} /\ UNCHANGED stages
  BY DEF transfer_fails, transfer_aborted, AllocationFails, transfer_complete
<1>2. PICK status \in {"success", "failed", "cancelled"}, info \in Int :
        main' = Complete(main, status, info)
  <2>1. CASE \E got \in 0 .. MaxTransfer : transfer_aborted(got)
    BY <2>1 DEF transfer_aborted
  <2>2. CASE \E got \in 0 .. MaxTransfer : transfer_complete(got)
    BY <2>2, MaxTransferAssumption DEF transfer_complete
  <2>3. CASE transfer_fails \/ AllocationFails
    BY <2>3 DEF transfer_fails, AllocationFails
  <2> QED
    BY <2>1, <2>2, <2>3
<1>3. main \in MainShape /\ main.locks = 1 /\ DOMAIN stages' = {}
  BY <1>1 DEF Inv, WellFormed, Unsent, Alone, Locked
<1>4. main'.pc = "completed" /\ main'.locks = main.locks - 1
  BY <1>2, <1>3, CompleteIsShaped
<1> QED
  BY <1>3, <1>4, EmptyIsAlone

LEMMA BuildKeepsAlone ==
    ASSUME Inv, Alone, Build
    PROVE  Alone'
<1>1. /\ main.pc = "build" /\ main \in MainShape /\ main.locks = 1 /\ DOMAIN stages = {}
  BY DEF Build, Inv, WellFormed, Unsent, Alone, Locked
<1>2. CASE main.cancel
  <2>1. main' = Complete(main, "cancelled", 0) /\ UNCHANGED stages
    BY <1>2 DEF Build
  <2>2. main'.pc = "completed" /\ main'.locks = main.locks - 1
    BY <1>1, <2>1, CompleteIsShaped, "cancelled" \in {"success", "failed", "cancelled"}, 0 \in Int
  <2> QED
    BY <1>1, <2>1, <2>2, EmptyIsAlone
<1>3. CASE ~main.cancel
  <2> DEFINE n == numIrps(main.length)
  <2>1. /\ stages' = [i \in 1 .. n |-> Stage(main.length, i)]
        /\ main' = [main EXCEPT !.pc = "armed"]
    BY <1>3 DEF Build
  <2>2. main'.pc = "armed" /\ main'.locks = 1
    BY <1>1, <2>1 DEF MainShape
  <2> HIDE DEF n
  <2>3. ASSUME NEW i \in DOMAIN stages'
        PROVE  stages'[i].pc = "built" /\ stages'[i].last = FALSE
    <3>1. stages'[i] = Stage(main.length, i) /\ i \in Int /\ main.length \in Int
      BY <1>1, <2>1 DEF MainShape
    <3>2. Stage(main.length, i).pc = "built" /\ Stage(main.length, i).last = FALSE
      BY <3>1, StageIsShaped
    <3> QED
      BY <3>1, <3>2
  <2> QED
    BY <2>2, <2>3 DEF Alone, Through, Locked, Ended, Up
<1> QED
  BY <1>2, <1>3

LEMMA ThreadKeepsAlone ==
    ASSUME Inv, Alone, SetCancelRoutine \/ Send
    PROVE  Alone'
<1>1. main \in MainShape /\ stages \in [DOMAIN stages -> StageShape]
  BY DEF Inv, WellFormed
<1>2. CASE SetCancelRoutine
  <2>1. /\ main.pc = "armed" /\ UNCHANGED <<stages, list>>
        /\ main' = [main EXCEPT !.pc = "send", !.routine = TRUE]
    BY <1>2 DEF SetCancelRoutine
  <2>2. main'.pc = "send" /\ main'.locks = main.locks
    BY <1>1, <2>1 DEF MainShape
  <2> QED
    BY <2>1, <2>2, StagesMoveOn
<1>3. CASE Send
  <2> DEFINE n == main.next
             s == [stages[n] EXCEPT !.pc = "below"]
  <2>1. /\ main.pc = "send" /\ list' = list /\ stages' = [stages EXCEPT ![n] = s]
        /\ main' = IF n = Len(stages) THEN [main EXCEPT !.pc = "pending"]
                   ELSE [main EXCEPT !.next = @ + 1]
    BY <1>3 DEF Send
  <2>2. main'.pc \in {"pending", "send"} /\ main'.locks = main.locks
    BY <1>1, <2>1 DEF MainShape
  <2>3. ASSUME NEW j \in DOMAIN stages
        PROVE  /\ stages'[j].last = stages[j].last
               /\ stages'[j].pc = stages[j].pc \/ (stages[j].pc = "built" /\ stages'[j].pc = "below")
    <3>1. CASE j = n
      <4>1. n \in DOMAIN stages /\ stages[n] \in StageShape /\ stages[n].pc = "built"
        BY <1>1, <2>1, <3>1 DEF Inv, Unsent, WellFormed
      <4>2. s.pc = "below" /\ s.last = stages[n].last
        BY <4>1, StageMoves, "below" \in StagePcs DEF StagePcs
      <4>3. stages'[n] = s
        BY <1>1, <2>1, <4>1
      <4> HIDE DEF s
      <4> QED
        BY <3>1, <4>1, <4>2, <4>3
    <3>2. CASE j # n
      <4> HIDE DEF s, n
      <4> QED
        BY <2>1, <3>2
    <3> QED
      BY <3>1, <3>2
  <2>4. DOMAIN stages' = DOMAIN stages
    BY <2>1
  <2> QED
    BY <2>1, <2>2, <2>3, <2>4, StagesMoveOn
<1> QED
  BY <1>2, <1>3

\* One stage of several steps on and keeps what it is.
LEMMA StageStepsOn ==
    ASSUME Inv, Alone, NEW i \in DOMAIN stages, NEW s \in StageShape,
           stages' = [stages EXCEPT ![i] = s], list' = list,
           main'.locks = main.locks, main'.pc = main.pc, s.last = stages[i].last,
           \/ s.pc = stages[i].pc
           \/ /\ stages[i].pc # "done" /\ s.pc \notin {"returned", "walk"}
              /\ s.pc = "finish" => stages[i].last
    PROVE  Alone'
<1>1. /\ DOMAIN stages' = DOMAIN stages
      /\ stages'[i] = s /\ \A j \in DOMAIN stages \ {i} : stages'[j] = stages[j]
  BY StageChanges DEF Inv
<1> QED
  BY <1>1, StagesMoveOn

LEMMA DropReferenceKeepsAlone ==
    ASSUME Inv, Alone, NEW i \in DOMAIN stages, DropReference(i)
    PROVE  Alone'
<1> DEFINE pc == IF stages[i].last THEN "finish" ELSE "done"
           d == Drop(stages[i])
           s == [d EXCEPT !.pc = pc]
<1>1. /\ stages[i].pc = "drop" /\ UNCHANGED <<main, list>>
      /\ stages' = [stages EXCEPT ![i] = s] /\ stages[i] \in StageShape
  BY DEF DropReference, Inv, WellFormed
<1>2. /\ pc \in StagePcs /\ pc \notin {"returned", "walk"}
      /\ pc = "finish" => stages[i].last
  BY DEF StagePcs
<1>3. d \in StageShape /\ d.last = stages[i].last
  BY <1>1, StageDrops
<1> HIDE DEF pc, d
<1>4. s \in StageShape /\ s.pc = pc /\ s.last = d.last
  BY <1>2, <1>3, StageMoves
<1> HIDE DEF s
<1> QED
  BY <1>1, <1>2, <1>3, <1>4, StageStepsOn

LEMMA CancelledKeepsAlone ==
    ASSUME Inv, Alone, NEW i \in DOMAIN stages, UNCHANGED list,
           stages' = [stages EXCEPT ![i] = [Drop(@) EXCEPT !.cancel = TRUE]],
           main'.pc = main.pc, main'.locks = main.locks
    PROVE  Alone'
<1> DEFINE d == Drop(stages[i])
           s == [d EXCEPT !.cancel = TRUE]
<1>1. stages[i] \in StageShape /\ stages' = [stages EXCEPT ![i] = s]
  BY DEF Inv, WellFormed
<1>2. d \in StageShape /\ d.pc = stages[i].pc /\ d.last = stages[i].last
  BY <1>1, StageDrops
<1> HIDE DEF d
<1>3. s \in StageShape /\ s.pc = d.pc /\ s.last = d.last
  BY <1>2 DEF StageShape
<1> HIDE DEF s
<1> QED
  BY <1>1, <1>2, <1>3, StageStepsOn

LEMMA CancelsKeepAlone ==
    ASSUME Inv, Alone, NEW i \in DOMAIN stages, RoutineCancels(i) \/ ShortCancels(i)
    PROVE  Alone'
<1>1. main \in MainShape /\ stages[i] \in StageShape /\ main.shorts \subseteq DOMAIN stages
  BY DEF Inv, WellFormed
<1>2. CASE RoutineCancels(i)
  <2> DEFINE canceller == main.canceller \ {i}
  <2>1. /\ main' = [main EXCEPT !.canceller = canceller] /\ UNCHANGED list
        /\ stages' = [stages EXCEPT ![i] = [Drop(@) EXCEPT !.cancel = TRUE]]
    BY <1>2 DEF RoutineCancels
  <2> HIDE DEF canceller
  <2>2. main'.pc = main.pc /\ main'.locks = main.locks
    BY <1>1, <2>1 DEF MainShape
  <2> QED
    BY <2>1, <2>2, CancelledKeepsAlone
<1>3. CASE ShortCancels(i) /\ main.shorts = {}
  <2> DEFINE s == [stages[i] EXCEPT !.pc = "drop"]
  <2>1. /\ UNCHANGED <<main, list>> /\ stages[i].pc = "cancels"
        /\ stages' = [stages EXCEPT ![i] = s]
    BY <1>3 DEF ShortCancels
  <2>2. s \in StageShape /\ s.pc = "drop" /\ s.last = stages[i].last
    BY <1>1, StageMoves, "drop" \in StagePcs DEF StagePcs
  <2> HIDE DEF s
  <2> QED
    BY <2>1, <2>2, StageStepsOn
<1>4. CASE ShortCancels(i) /\ main.shorts # {}
  <2>1. PICK j \in main.shorts :
          /\ stages' = [stages EXCEPT ![j] = [Drop(@) EXCEPT !.cancel = TRUE]]
          /\ main' = [main EXCEPT !.shorts = @ \ {j}]
    BY <1>4 DEF ShortCancels
  <2> DEFINE shorts == main.shorts \ {j}
  <2>2. main' = [main EXCEPT !.shorts = shorts] /\ UNCHANGED list /\ j \in DOMAIN stages
    BY <1>1, <1>4, <2>1 DEF ShortCancels
  <2> HIDE DEF shorts
  <2>3. main'.pc = main.pc /\ main'.locks = main.locks
    BY <1>1, <2>2 DEF MainShape
  <2> QED
    BY <2>1, <2>2, <2>3, CancelledKeepsAlone
<1> QED
  BY <1>2, <1>3, <1>4

\* Taking references changes nothing else.
LEMMA ReferencesKeepRest ==
    ASSUME NEW before, before \in [DOMAIN stages -> StageShape], stages' = References(before),
           \A j \in list \cap DOMAIN stages : before[j] = stages[j]
    PROVE  /\ DOMAIN stages' = DOMAIN stages
           /\ \A j \in DOMAIN stages :
                stages'[j].pc = before[j].pc /\ stages'[j].last = before[j].last
<1>1. ASSUME NEW j \in DOMAIN stages
      PROVE  stages'[j].pc = before[j].pc /\ stages'[j].last = before[j].last
  <2>1. PICK s \in StageShape : s = before[j]
    OBVIOUS
  <2>2. CASE j \in list
    <3>1. stages'[j] = [s EXCEPT !.refs = @ + 1]
      BY <2>1, <2>2 DEF References
    <3>2. LET t == [s EXCEPT !.refs = @ + 1] IN
          /\ t \in StageShape /\ t.pc = s.pc /\ t.refs = s.refs + 1 /\ t.freed = s.freed
          /\ t.last = s.last
      BY StageIsHeld
    <3> QED
      BY <2>1, <3>1, <3>2
  <2>3. CASE j \notin list
    BY <2>3 DEF References
  <2> QED
    BY <2>2, <2>3
<1> QED
  BY <1>1 DEF References

LEMMA CancelMainKeepsAlone ==
    ASSUME Inv, Alone, CancelMain
    PROVE  Alone'
<1> DEFINE canceller == IF main.routine THEN list ELSE {}
<1>1. /\ UNCHANGED list /\ main \in MainShape
      /\ main' = [main EXCEPT !.cancel = TRUE, !.routine = FALSE, !.canceller = canceller]
      /\ stages' = References(stages) \/ stages' = stages
      /\ stages \in [DOMAIN stages -> StageShape]
  BY DEF CancelMain, Inv, WellFormed
<1> HIDE DEF canceller
<1>2. main'.pc = main.pc /\ main'.locks = main.locks
  BY <1>1 DEF MainShape
<1>3. /\ DOMAIN stages' = DOMAIN stages
      /\ \A j \in DOMAIN stages :
           stages'[j].pc = stages[j].pc /\ stages'[j].last = stages[j].last
  BY <1>1, ReferencesKeepRest
<1> QED
  BY <1>1, <1>2, <1>3, StagesMoveOn

LEMMA ShortWalksKeepsAlone ==
    ASSUME Inv, Alone, NEW i \in DOMAIN stages, ShortWalks(i)
    PROVE  Alone'
<1> DEFINE s == [stages[i] EXCEPT !.pc = "cancels"]
           before == [stages EXCEPT ![i] = s]
<1>1. /\ stages[i].pc = "walk" /\ UNCHANGED list /\ main' = [main EXCEPT !.shorts = list]
      /\ stages' = References(before) /\ main \in MainShape /\ stages[i] \in StageShape
      /\ stages \in [DOMAIN stages -> StageShape]
  BY DEF ShortWalks, Inv, WellFormed
<1>2. s \in StageShape /\ s.pc = "cancels" /\ s.last = stages[i].last
  BY <1>1, StageMoves, "cancels" \in StagePcs DEF StagePcs
<1> HIDE DEF s
<1>3. main'.pc = main.pc /\ main'.locks = main.locks
  BY <1>1 DEF MainShape
<1>4. /\ before \in [DOMAIN stages -> StageShape] /\ before[i] = s
      /\ \A j \in DOMAIN stages \ {i} : before[j] = stages[j]
  BY <1>1, <1>2
<1>5. i \notin list
  BY <1>1 DEF Inv, Listed
<1> HIDE DEF before
<1>6. /\ DOMAIN stages' = DOMAIN stages
      /\ \A j \in DOMAIN stages :
           stages'[j].pc = before[j].pc /\ stages'[j].last = before[j].last
  <2>1. \A j \in list \cap DOMAIN stages : before[j] = stages[j]
    BY <1>4, <1>5
  <2> QED
    BY <1>1, <1>4, <2>1, ReferencesKeepRest
<1>7. \A j \in DOMAIN stages :
        /\ stages'[j].last = stages[j].last
        /\ \/ stages'[j].pc = stages[j].pc
           \/ stages[j].pc = "walk" /\ stages'[j].pc = "cancels"
  BY <1>1, <1>2, <1>4, <1>6
<1> QED
  BY <1>1, <1>3, <1>6, <1>7, StagesMoveOn

\* The lower driver is silent until the last one is off the list.
LEMMA ReturnedKeepsAlone ==
    ASSUME Inv, Alone, "Parallel" \notin Env, NEW i \in DOMAIN stages,
           \E got \in 0 .. MaxTransfer : StageReturns(i, got) \/ StageFails(i, got)
    PROVE  Alone'
<1>1. /\ stages[i].pc = "below" /\ UNCHANGED <<main, list>>
      /\ \A j \in DOMAIN stages : ~Up(j)
  BY DEF StageFails, StageReturns, Below, Serial, Up
<1>2. PICK old \in StageShape : old = stages[i]
  BY DEF Inv, WellFormed
<1>3. PICK s \in StageShape :
        stages' = [stages EXCEPT ![i] = s] /\ s.pc = "returned" /\ s.last = old.last
  <2>1. CASE \E got \in 0 .. MaxTransfer : StageFails(i, got)
    <3> DEFINE u == [old EXCEPT !.pc = "returned"]
    <3>1. u \in StageShape /\ u.pc = "returned" /\ u.last = old.last
      BY StageMoves, "returned" \in StagePcs DEF StagePcs
    <3>2. stages' = [stages EXCEPT ![i] = u]
      BY <1>2, <2>1 DEF StageFails
    <3> HIDE DEF u
    <3> QED
      BY <3>1, <3>2
  <2>2. CASE \E got \in 0 .. MaxTransfer : StageReturns(i, got)
    <3>1. PICK got \in 0 .. MaxTransfer : StageReturns(i, got)
      BY <2>2
    <3> DEFINE short == got < stages[i].size
               u == [old EXCEPT !.pc = "returned", !.got = got, !.short = short]
    <3>2. got \in Int /\ short \in BOOLEAN
      BY MaxTransferAssumption
    <3>3. stages' = [stages EXCEPT ![i] = u]
      BY <1>2, <3>1 DEF StageReturns
    <3> HIDE DEF short
    <3>4. u \in StageShape /\ u.pc = "returned" /\ u.last = old.last
      BY <3>2 DEF StageShape, StagePcs
    <3> HIDE DEF u
    <3> QED
      BY <3>3, <3>4
  <2> QED
    BY <2>1, <2>2
<1>4. /\ DOMAIN stages' = DOMAIN stages
      /\ stages'[i] = s /\ \A j \in DOMAIN stages \ {i} : stages'[j] = stages[j]
  BY <1>3, StageChanges DEF Inv
<1>5. Through'
  BY <1>1, <1>2, <1>3, <1>4 DEF Alone, Through, Up
<1>6. Locked' /\ Ended'
  BY <1>1, <1>2, <1>3, <1>4 DEF Alone, Locked, Ended
<1> QED
  BY <1>5, <1>6 DEF Alone

LEMMA AddsUpKeepsAlone ==
    ASSUME Inv, Alone, NEW i \in DOMAIN stages, stages[i].pc = "returned",
           NEW information \in Int, AddsUp(i, information)
    PROVE  Alone'
<1> DEFINE pc == IF CancelsOthers(i) THEN "walk" ELSE "drop"
           last == IsLast(i)
           info == main.info + information
           routine == main.routine /\ ~IsLast(i) /\ ~CancelsOthers(i)
           s == [stages[i] EXCEPT !.pc = pc, !.last = last]
<1>1. /\ stages[i].pc = "returned" /\ list' = list \ {i} /\ main \in MainShape
      /\ main' = [main EXCEPT !.info = info, !.routine = routine]
      /\ stages' = [stages EXCEPT ![i] = s]
  BY DEF AddsUp, Inv, WellFormed
<1>2. /\ pc \in {"walk", "drop"} /\ last \in BOOLEAN
      /\ last => list = {i} /\ pc = "drop"
  BY DEF CancelsOthers, IsLast
<1>3. PICK old \in StageShape : old = stages[i]
  BY DEF Inv, WellFormed
<1> HIDE DEF pc, last, info, routine
<1>4. main'.pc = main.pc /\ main'.locks = main.locks
  BY <1>1 DEF MainShape
<1>5. s \in StageShape /\ s.pc = pc /\ s.last = last
  <2>1. LET u == [old EXCEPT !.pc = pc, !.last = last] IN
        u \in StageShape /\ u.pc = pc /\ u.last = last
    BY <1>2 DEF StageShape, StagePcs
  <2> QED
    BY <1>3, <2>1
<1> HIDE DEF s
<1>6. /\ DOMAIN stages' = DOMAIN stages
      /\ stages'[i] = s /\ \A j \in DOMAIN stages \ {i} : stages'[j] = stages[j]
  BY <1>1, <1>5, StageChanges DEF Inv
\* Nothing was last before: this stage was on the list.
<1>7. \A j \in DOMAIN stages : ~stages[j].last
  BY <1>1 DEF Inv, Listed, Alone, Through
<1>8. \A j \in DOMAIN stages : j # i => stages[j].pc # "walk"
  BY <1>1 DEF Alone, Through, Up
<1>9. Through'
  BY <1>1, <1>2, <1>5, <1>6, <1>7, <1>8 DEF Alone, Through, Up
<1>10. Locked' /\ Ended'
  BY <1>1, <1>4, <1>5, <1>6, <1>7 DEF Alone, Locked, Ended
<1> QED
  BY <1>9, <1>10 DEF Alone

LEMMA CompleteKeepsAlone ==
    ASSUME Inv, Alone, NEW i \in DOMAIN stages, large_transfer_complete(i) \/ MappingFails(i)
    PROVE  Alone'
BY CompletionAddsUp, AddsUpKeepsAlone

LEMMA FinishKeepsAlone ==
    ASSUME Inv, Alone, NEW i \in DOMAIN stages, Finish(i)
    PROVE  Alone'
<1> DEFINE s == [stages[i] EXCEPT !.pc = "done"]
<1>1. /\ stages[i].pc = "finish" /\ UNCHANGED list /\ main' = Complete(main, "success", main.info)
      /\ stages' = [stages EXCEPT ![i] = s] /\ stages[i] \in StageShape
      /\ main \in MainShape /\ main.info \in Int
  BY DEF Finish, Inv, WellFormed, MainShape
<1>2. s \in StageShape /\ s.pc = "done" /\ s.last = stages[i].last
  BY <1>1, StageMoves, "done" \in StagePcs DEF StagePcs
<1>3. stages[i].last /\ main.pc # "completed" /\ main.pc # "none"
  BY <1>1, StagesBelongToMain DEF Alone, Through, Ended
<1>4. main'.pc = "completed" /\ main'.locks = 0
  <2>1. main.locks = 1
    BY <1>3 DEF Alone, Locked
  <2>2. main'.pc = "completed" /\ main'.locks = main.locks - 1
    BY <1>1, CompleteIsShaped, "success" \in {"success", "failed", "cancelled"}
  <2> QED
    BY <2>1, <2>2
<1> HIDE DEF s
<1>5. /\ DOMAIN stages' = DOMAIN stages
      /\ stages'[i] = s /\ \A j \in DOMAIN stages \ {i} : stages'[j] = stages[j]
  BY <1>1, <1>2, StageChanges DEF Inv
<1>6. Through'
  BY <1>1, <1>2, <1>5 DEF Alone, Through, Up
<1>7. Locked' /\ Ended'
  BY <1>2, <1>3, <1>4, <1>5 DEF Locked, Ended
<1> QED
  BY <1>6, <1>7 DEF Alone

LEMMA StepKeepsAlone ==
    ASSUME "Parallel" \notin Env
    PROVE  Inv /\ Alone /\ [Next]_vars => Alone'
<1> SUFFICES ASSUME Inv, Alone, [Next]_vars PROVE Alone'
  OBVIOUS
<1>1. CASE \E length \in Lengths, read \in BOOLEAN : Submit(length, read)
  BY <1>1, SubmitKeepsAlone
<1>2. CASE \/ transfer_fails \/ AllocationFails
           \/ \E got \in 0 .. MaxTransfer : transfer_complete(got) \/ transfer_aborted(got)
  BY <1>2, ShortTransferKeepsAlone
<1>3. CASE Thread
  BY <1>3, BuildKeepsAlone, ThreadKeepsAlone DEF Thread
<1>4. CASE CancelMain
  BY <1>4, CancelMainKeepsAlone
<1>5. CASE Return
  BY <1>5, ReturnKeepsAlone
<1>6. ASSUME NEW i \in DOMAIN stages,
             \/ Completion(i) \/ RoutineCancels(i)
             \/ \E got \in 0 .. MaxTransfer : StageReturns(i, got) \/ StageFails(i, got)
      PROVE  Alone'
  BY <1>6, ReturnedKeepsAlone, CompleteKeepsAlone, ShortWalksKeepsAlone, CancelsKeepAlone,
     DropReferenceKeepsAlone, FinishKeepsAlone DEF Completion
<1>7. CASE UNCHANGED vars
  BY <1>7 DEF vars, Alone, Through, Locked, Ended, Up
<1> QED
  BY <1>1, <1>2, <1>3, <1>4, <1>5, <1>6, <1>7 DEF Next

(* While the host controller's driver completes the stages one after the   *)
(* other, the main request is completed once, after the last stage is off  *)
(* its list and no routine walks the list any more.                        *)
THEOREM MainIsCompletedLast ==
    ASSUME "Parallel" \notin Env
    PROVE  Spec => []MainOutlivesStages
<1>1. Inv /\ Alone => MainOutlivesStages
  <2> SUFFICES ASSUME Inv, Alone PROVE MainOutlivesStages
    OBVIOUS
  <2>1. main.locks = (IF main.pc \in {"none", "completed"} THEN 0 ELSE 1)
    BY DEF Alone, Locked
  <2>2. ASSUME main.pc = "completed"
        PROVE  list = {} /\ \A j \in DOMAIN stages : stages[j].pc \in {"drop", "cancels", "done"}
    <3>1. CASE DOMAIN stages = {}
      BY <3>1 DEF Inv, WellFormed
    <3>2. CASE DOMAIN stages # {}
      <4>1. PICK i \in DOMAIN stages : stages[i].last /\ stages[i].pc = "done"
        BY <2>2, <3>2 DEF Alone, Ended
      <4>2. list = {} /\ \A j \in DOMAIN stages : stages[j].pc # "walk" /\ stages[j].pc # "finish"
        BY <4>1 DEF Alone, Through
      <4>3. \A j \in DOMAIN stages : stages[j].pc \in StagePcs
        BY DEF Inv, WellFormed, StageShape
      <4> QED
        BY <4>2, <4>3 DEF Inv, Listed, StagePcs
    <3> QED
      BY <3>1, <3>2
  <2> QED
    BY <2>1, <2>2 DEF MainOutlivesStages
<1>2. Init => Inv /\ Alone
  BY InitHolds, InitIsAlone
<1>3. Inv /\ Alone /\ [Next]_vars => (Inv /\ Alone)'
  BY StepKeepsInv, StepKeepsAlone
<1>4. Spec => [](Inv /\ Alone)
  BY <1>2, <1>3, PTL DEF Spec
<1> QED
  BY <1>1, <1>4, PTL

(***************************************************************************)
(* The data.                                                               *)
(***************************************************************************)
\* The stages lie one behind the other and none reaches beyond the transfer.
Laid ==
    /\ \E n \in Nat : DOMAIN stages = 1 .. n
    /\ \A i \in DOMAIN stages :
         /\ i \in 1 .. numIrps(main.length)
         /\ stages[i].size = stageSize(main.length, i)
         /\ stages[i].startOffset = startOffset(main.length, i)

\* The thread sends them in their order.
SentInOrder ==
    /\ main.pc \in {"none", "build", "direct", "armed"} => main.next = 1
    /\ main.pc = "send" => \A i \in DOMAIN stages : stages[i].pc = "built" => i >= main.next
    /\ main.pc \in {"pending", "completed"} => \A i \in DOMAIN stages : stages[i].pc # "built"

Waits(i) == stages[i].pc \in {"built", "below"}
Returned(i) == stages[i].pc = "returned"

\* What the device has sent is added up or lost, but for the one stage that has just
\* returned, and belongs before every stage that has not.
Summed ==
    /\ 0 <= main.info /\ 0 <= lost /\ main.info + lost <= produced /\ produced <= main.length
    /\ main.pc \in {"none", "build", "direct", "armed"} =>
         produced = 0 /\ lost = 0 /\ main.info = 0
    /\ (\A i \in DOMAIN stages : ~Returned(i)) => produced = main.info + lost
    /\ \A i \in DOMAIN stages :
         /\ Waits(i) => stages[i].got = 0 /\ produced <= Begins(i)
         /\ Returned(i) =>
              produced = main.info + lost + stages[i].got /\ main.info <= Begins(i)

\* What is added up is in order; what has just returned lies where its stage begins.
Even == main.length % MaxTransfer = 0
Placed(k) == buffer[k] \in k .. k + lost /\ (k > 1 => buffer[k - 1] < buffer[k])
Stored ==
    /\ buffer = [k \in 1 .. main.length |-> buffer[k]]
    /\ main.read /\ Even =>
         /\ \A k \in 1 .. main.info : Placed(k)
         /\ \A i \in DOMAIN stages : Returned(i) =>
              \A k \in 1 .. stages[i].got : buffer[Begins(i) + k] = main.info + lost + k

Data ==
    produced \in Int /\ lost \in Int /\ main.length \in Nat /\ Laid /\ SentInOrder /\ Summed /\ Stored

(***************************************************************************)
(* Arithmetic of the stages.                                               *)
(***************************************************************************)
LEMMA StageFits ==
    ASSUME NEW length \in Nat, NEW i \in Nat, i >= 1
    PROVE  /\ Begins(i) \in Nat /\ stageSize(length, i) \in Int
           /\ stageSize(length, i) <= MaxTransfer
           /\ Begins(i) + stageSize(length, i) <= length
<1> DEFINE before == (i - 1) * MaxTransfer
<1>1. before \in Nat
  BY MaxTransferAssumption
<1>2. /\ Begins(i) = before
      /\ stageSize(length, i) = IF length - before > MaxTransfer THEN MaxTransfer
                                ELSE length - before
  BY DEF Begins, stageSize
<1> HIDE DEF before
<1> QED
  BY <1>1, <1>2, MaxTransferAssumption

LEMMA StagesAreApart ==
    ASSUME NEW i \in Nat, NEW j \in Nat, i >= 1, i < j
    PROVE  Begins(i) + MaxTransfer <= Begins(j)
<1>1. PICK d \in Nat : j = i + 1 + d
  <2>1. j - i - 1 \in Nat /\ j = i + 1 + (j - i - 1)
    OBVIOUS
  <2> QED
    BY <2>1
<1>2. (j - 1) * MaxTransfer = (i - 1) * MaxTransfer + MaxTransfer + d * MaxTransfer
  BY <1>1, MaxTransferAssumption
<1>3. d * MaxTransfer \in Nat /\ (i - 1) * MaxTransfer \in Nat
  BY MaxTransferAssumption
<1> QED
  BY <1>2, <1>3, MaxTransferAssumption DEF Begins

\* With stages of one size each lies where startOffset says.
LEMMA EvenStagesStart ==
    ASSUME NEW length \in Nat, length % MaxTransfer = 0,
           NEW i \in Nat, i >= 1, i <= numIrps(length)
    PROVE  startOffset(length, i) = Begins(i)
<1> DEFINE q == length \div MaxTransfer
<1>1. q \in Nat /\ length = q * MaxTransfer
  BY MaxTransferAssumption
<1>2. numIrps(length) = q
  <2>1. length + MaxTransfer - 1 = q * MaxTransfer + (MaxTransfer - 1)
    BY <1>1, MaxTransferAssumption
  <2> QED
    BY <1>1, <2>1, MaxTransferAssumption DEF numIrps
<1> HIDE DEF q
<1>3. length - (i - 1) * MaxTransfer >= MaxTransfer
  <2>1. PICK d \in Nat : q = i + d
    <3>1. q - i \in Nat /\ q = i + (q - i)
      BY <1>1, <1>2
    <3> QED
      BY <3>1
  <2>2. q * MaxTransfer = (i - 1) * MaxTransfer + MaxTransfer + d * MaxTransfer
    BY <2>1, MaxTransferAssumption
  <2>3. d * MaxTransfer \in Nat /\ (i - 1) * MaxTransfer \in Nat
    BY MaxTransferAssumption
  <2> QED
    BY <1>1, <2>2, <2>3, MaxTransferAssumption
<1>4. stageSize(length, i) = MaxTransfer
  <2>1. (i - 1) * MaxTransfer \in Nat
    BY MaxTransferAssumption
  <2> QED
    BY <1>3, <2>1, MaxTransferAssumption DEF stageSize
<1>5. CASE i = 1
  BY <1>5, MaxTransferAssumption DEF startOffset, Begins
<1>6. CASE i > 1
  <2>1. Begins(i - 1) + MaxTransfer = Begins(i)
    BY MaxTransferAssumption DEF Begins
  <2> QED
    BY <1>4, <1>6, <2>1 DEF startOffset
<1> QED
  BY <1>5, <1>6

(***************************************************************************)
(* Each action preserves Data.                                             *)
(***************************************************************************)
\* There are no stages.
LEMMA UnbuiltData ==
    ASSUME DOMAIN stages' = {}, main'.info \in Nat, lost' \in Nat, main'.length \in Nat,
           produced' = main'.info + lost', produced' <= main'.length,
           main'.pc # "completed" => produced' = 0,
           buffer' = [k \in 1 .. main'.length |-> buffer'[k]],
           main'.read => \A k \in 1 .. main'.info : buffer'[k] = k,
           main'.pc \in {"none", "build", "direct", "completed"},
           main'.pc # "completed" => main'.next = 1
    PROVE  Data'
<1>1. Laid' /\ SentInOrder'
  <2>1. DOMAIN stages' = 1 .. 0 /\ 0 \in Nat
    OBVIOUS
  <2> QED
    BY <2>1 DEF Laid, SentInOrder
<1>2. Summed'
  BY DEF Summed
<1>3. Stored'
  <2>1. ASSUME main'.read, NEW k \in 1 .. main'.info PROVE Placed(k)'
    <3>1. buffer'[k] = k /\ k \in Int /\ k <= k + lost'
      BY <2>1
    <3>2. k > 1 => buffer'[k - 1] = k - 1
      BY <2>1
    <3> QED
      BY <3>1, <3>2 DEF Placed
  <2> QED
    BY <2>1 DEF Stored
<1> QED
  BY <1>1, <1>2, <1>3 DEF Data

LEMMA InitData == Init => Data
<1> SUFFICES ASSUME Init PROVE Data
  OBVIOUS
<1>1. /\ DOMAIN stages = {} /\ produced = 0 /\ lost = 0 /\ main.length = 0 /\ main.info = 0
      /\ main.pc = "none" /\ buffer = <<>> /\ main.read = FALSE
  BY DEF Init, NoMain
<1>2. buffer = [k \in 1 .. main.length |-> buffer[k]]
  <2>1. 1 .. 0 = {}
    OBVIOUS
  <2>2. <<>> = [k \in {} |-> buffer[k]]
    OBVIOUS
  <2> QED
    BY <1>1, <2>1, <2>2
<1>3. DOMAIN stages = 1 .. 0 /\ 0 \in Nat /\ main.next = 1
  BY <1>1 DEF Init, NoMain
<1> QED
  BY <1>1, <1>2, <1>3 DEF Data, Laid, SentInOrder, Summed, Stored

LEMMA ReturnKeepsData ==
    ASSUME Return PROVE Data'
<1>1. /\ DOMAIN stages' = {} /\ produced' = 0 /\ lost' = 0 /\ main'.length = 0 /\ main'.info = 0
      /\ main'.pc = "none" /\ buffer' = <<>> /\ main'.read = FALSE /\ main'.next = 1
  BY DEF Return, NoMain
<1>2. buffer' = [k \in 1 .. main'.length |-> buffer'[k]]
  <2>1. 1 .. 0 = {}
    OBVIOUS
  <2>2. <<>> = [k \in {} |-> buffer'[k]]
    OBVIOUS
  <2> QED
    BY <1>1, <2>1, <2>2
<1> QED
  BY <1>1, <1>2, UnbuiltData

LEMMA SubmitKeepsData ==
    ASSUME Inv, Data, NEW length \in Lengths, NEW read \in BOOLEAN, Submit(length, read)
    PROVE  Data'
<1> DEFINE pc == IF length > MaxTransfer THEN "build" ELSE "direct"
<1>1. /\ main.pc = "none" /\ UNCHANGED <<stages, list, produced, lost>>
      /\ main' = [NoMain EXCEPT !.pc = pc, !.read = read, !.length = length, !.locks = 1]
      /\ buffer' = [k \in 1 .. length |-> 0]
  BY DEF Submit
<1>2. pc \in {"build", "direct"} /\ length \in Nat
  BY LengthsAssumption
<1> HIDE DEF pc
<1>3. main'.pc = pc /\ main'.length = length /\ main'.info = 0 /\ main'.next = 1
  BY <1>1 DEF NoMain
<1>4. produced' = 0 /\ lost' = 0 /\ DOMAIN stages' = {}
  BY <1>1 DEF Data, Summed, Inv, Unsent
<1>5. buffer' = [k \in 1 .. main'.length |-> buffer'[k]]
  BY <1>1, <1>3
<1> QED
  BY <1>2, <1>3, <1>4, <1>5, UnbuiltData

\* What completion of the main request leaves alone.
LEMMA CompleteKeepsAmounts ==
    ASSUME NEW m \in MainShape, NEW status, NEW info
    PROVE  LET c == Complete(m, status, info) IN
           c.info = info /\ c.length = m.length /\ c.read = m.read /\ c.pc = "completed"
<1> DEFINE locks == m.locks - 1
<1>1. Complete(m, status, info)
        = [m EXCEPT !.pc = "completed", !.status = status, !.info = info, !.locks = locks]
  BY DEF Complete
<1> HIDE DEF locks
<1> QED
  BY <1>1 DEF MainShape

LEMMA ShortTransferKeepsData ==
    ASSUME Inv, Data,
           \/ transfer_fails \/ AllocationFails
           \/ \E got \in 0 .. MaxTransfer : transfer_complete(got) \/ transfer_aborted(got)
    PROVE  Data'
<1>1. /\ main \in MainShape /\ main.pc \in {"direct", "build"} /\ UNCHANGED stages
      /\ DOMAIN stages = {}
  BY DEF transfer_fails, transfer_aborted, AllocationFails, transfer_complete, Inv, Unsent,
     WellFormed
<1>2. produced = 0 /\ lost = 0 /\ main.length \in Nat /\ buffer = [k \in 1 .. main.length |-> buffer[k]]
  BY <1>1 DEF Data, Summed, Stored
<1>3. CASE transfer_fails \/ AllocationFails
  <2>1. main' = Complete(main, "failed", 0) /\ UNCHANGED <<buffer, produced, lost>>
    BY <1>3 DEF transfer_fails, AllocationFails
  <2>3. main'.info = 0 /\ main'.length = main.length /\ main'.pc = "completed"
    BY <1>1, <2>1, CompleteKeepsAmounts
  <2> QED
    BY <1>1, <1>2, <2>1, <2>3, UnbuiltData
<1>5. CASE \E got \in 0 .. MaxTransfer : transfer_aborted(got)
  <2>1. PICK got \in 0 .. MaxTransfer : transfer_aborted(got)
    BY <1>5
  <2>2. PICK status \in {"failed", "cancelled"} :
          /\ got <= main.length /\ produced' = got /\ lost' = got
          /\ main' = Complete(main, status, 0)
          /\ buffer' = [k \in DOMAIN buffer |-> IF k <= got /\ main.read THEN k ELSE 0]
    BY <2>1 DEF transfer_aborted
  <2>3. main'.info = 0 /\ main'.length = main.length /\ main'.pc = "completed"
    BY <1>1, <2>2, CompleteKeepsAmounts
  <2>4. DOMAIN buffer = 1 .. main.length
    BY <1>2
  <2>5. buffer' = [k \in 1 .. main'.length |-> buffer'[k]]
    BY <2>2, <2>3, <2>4
  <2>6. got \in Nat
    BY MaxTransferAssumption
  <2> QED
    BY <1>1, <1>2, <2>2, <2>3, <2>5, <2>6, UnbuiltData
<1>4. CASE \E got \in 0 .. MaxTransfer : transfer_complete(got)
  <2>1. PICK got \in 0 .. MaxTransfer : transfer_complete(got)
    BY <1>4
  <2>2. /\ got <= main.length /\ produced' = got /\ lost' = lost
        /\ main' = Complete(main, "success", got)
        /\ buffer' = [k \in DOMAIN buffer |-> IF k <= got /\ main.read THEN k ELSE 0]
    BY <2>1 DEF transfer_complete
  <2>3. /\ main'.info = got /\ main'.length = main.length /\ main'.pc = "completed"
        /\ main'.read = main.read
    BY <1>1, <2>2, CompleteKeepsAmounts
  <2>4. DOMAIN buffer = 1 .. main.length
    BY <1>2
  <2>5. buffer' = [k \in 1 .. main'.length |-> buffer'[k]]
    BY <2>2, <2>3, <2>4
  <2>6. ASSUME main'.read, NEW k \in 1 .. got PROVE buffer'[k] = k
    <3>1. k \in 1 .. main.length /\ k <= got
      BY <1>2, <2>2, MaxTransferAssumption
    <3> QED
      BY <2>2, <2>3, <2>4, <2>6, <3>1
  <2>7. got \in Nat
    BY MaxTransferAssumption
  <2> QED
    BY <1>1, <1>2, <2>2, <2>3, <2>5, <2>6, <2>7, UnbuiltData
<1> QED
  BY <1>3, <1>4, <1>5

LEMMA BuildKeepsData ==
    ASSUME Inv, Data, Build
    PROVE  Data'
<1>1. /\ main.pc = "build" /\ main \in MainShape /\ DOMAIN stages = {}
      /\ UNCHANGED <<buffer, produced, lost>>
  BY DEF Build, Inv, WellFormed, Unsent
<1>2. /\ produced = 0 /\ lost = 0 /\ main.info = 0 /\ main.length \in Nat
      /\ buffer = [k \in 1 .. main.length |-> buffer[k]]
  BY <1>1 DEF Data, Summed, Stored
<1>3. CASE main.cancel
  <2>1. main' = Complete(main, "cancelled", 0) /\ UNCHANGED stages
    BY <1>3 DEF Build
  <2>2. main'.info = 0 /\ main'.length = main.length /\ main'.pc = "completed"
    BY <1>1, <2>1, CompleteKeepsAmounts
  <2> QED
    BY <1>1, <1>2, <2>1, <2>2, UnbuiltData
<1>4. CASE ~main.cancel
  <2> DEFINE n == numIrps(main.length)
  <2>1. stages' = [i \in 1 .. n |-> Stage(main.length, i)] /\ main' = [main EXCEPT !.pc = "armed"]
    BY <1>4 DEF Build
  <2>2. /\ main'.pc = "armed" /\ main'.length = main.length /\ main'.info = main.info
        /\ main'.read = main.read /\ main'.next = 1
    BY <1>1, <2>1 DEF MainShape, Data, SentInOrder
  <2> HIDE DEF n
  <2>3. ASSUME NEW i \in 1 .. n
        PROVE  /\ stages'[i].pc = "built" /\ stages'[i].got = 0
               /\ stages'[i].size = stageSize(main.length, i)
               /\ stages'[i].startOffset = startOffset(main.length, i)
    BY <2>1 DEF Stage
  <2>4. DOMAIN stages' = 1 .. n /\ n \in Nat
    <3>1. n \in Nat
      BY <1>2, MaxTransferAssumption DEF n, numIrps
    <3> QED
      BY <2>1, <3>1
  <2>5. Laid' /\ SentInOrder'
    BY <2>2, <2>3, <2>4 DEF Laid, SentInOrder, n
  <2>6. Summed'
    <3>1. \A i \in 1 .. n : 0 <= Begins(i)
      <4>1. \A i \in 1 .. n : i \in Nat /\ i >= 1
        OBVIOUS
      <4>2. \A i \in Nat : i >= 1 => Begins(i) \in Nat
        BY <1>2, StageFits
      <4> QED
        BY <4>1, <4>2
    <3> QED
      BY <1>1, <1>2, <2>2, <2>3, <2>4, <3>1 DEF Summed, Waits, Returned
  <2>7. Stored'
    BY <1>1, <1>2, <2>2, <2>3, <2>4 DEF Stored, Returned
  <2> QED
    BY <1>1, <1>2, <2>2, <2>5, <2>6, <2>7 DEF Data
<1> QED
  BY <1>3, <1>4

SameData(s, t) == s.size = t.size /\ s.startOffset = t.startOffset /\ s.got = t.got

\* No stage returns, and nothing is added up.
LEMMA DataStays ==
    ASSUME Inv, Data, DOMAIN stages' = DOMAIN stages, UNCHANGED <<buffer, produced, lost>>,
           main'.info = main.info, main'.length = main.length, main'.read = main.read,
           main'.pc \in {"none", "build", "direct", "armed"} =>
               main.pc \in {"none", "build", "direct", "armed"},
           \A i \in DOMAIN stages :
               /\ SameData(stages'[i], stages[i])
               /\ stages'[i].pc \in {"built", "below"} => Waits(i)
               /\ stages'[i].pc = "returned" <=> Returned(i),
           SentInOrder'
    PROVE  Data'
<1>1. Laid'
  BY DEF Data, Laid, SameData
<1>2. Summed'
  BY DEF Data, Summed, SameData, Waits, Returned
<1>3. Stored'
  <2>1. buffer' = [k \in 1 .. main'.length |-> buffer'[k]]
    BY DEF Data, Stored
  <2>2. ASSUME main'.read, Even'
        PROVE  /\ \A k \in 1 .. main'.info : Placed(k)'
               /\ \A i \in DOMAIN stages' : Returned(i)' =>
                    \A k \in 1 .. stages'[i].got :
                      buffer'[Begins(i) + k] = main'.info + lost' + k
    <3>1. main.read /\ Even
      BY <2>2 DEF Even
    <3>2. \A k \in 1 .. main'.info : Placed(k)'
      BY <3>1 DEF Data, Stored, Placed
    <3>3. ASSUME NEW i \in DOMAIN stages, Returned(i)', NEW k \in 1 .. stages'[i].got
          PROVE  buffer'[Begins(i) + k] = main'.info + lost' + k
      <4>1. Returned(i) /\ k \in 1 .. stages[i].got
        BY <3>3 DEF Returned, SameData
      <4> QED
        BY <3>1, <4>1 DEF Data, Stored
    <3> QED
      BY <3>2, <3>3
  <2> QED
    BY <2>1, <2>2 DEF Stored
<1> QED
  BY <1>1, <1>2, <1>3 DEF Data

\* The stages go their way after the lower driver, and the thread does not move.
LEMMA DataStaysInOrder ==
    ASSUME Inv, Data, DOMAIN stages' = DOMAIN stages, UNCHANGED <<buffer, produced, lost>>,
           main'.info = main.info, main'.length = main.length, main'.read = main.read,
           main'.next = main.next,
           \/ main'.pc = main.pc
           \/ main'.pc = "completed" /\ \A i \in DOMAIN stages : stages[i].pc # "built",
           \A i \in DOMAIN stages :
               /\ SameData(stages'[i], stages[i])
               /\ \/ stages'[i].pc = stages[i].pc
                  \/ /\ stages[i].pc \notin {"built", "below", "returned"}
                     /\ stages'[i].pc \notin {"built", "below", "returned"}
    PROVE  Data'
<1>1. SentInOrder'
  BY DEF Data, SentInOrder
<1> QED
  BY <1>1, DataStays DEF Waits, Returned

LEMMA SetCancelRoutineKeepsData ==
    ASSUME Inv, Data, SetCancelRoutine
    PROVE  Data'
<1>1. /\ main.pc = "armed" /\ main' = [main EXCEPT !.pc = "send", !.routine = TRUE]
      /\ main \in MainShape /\ UNCHANGED <<stages, list, buffer, produced, lost>> /\ main.next = 1
  BY DEF SetCancelRoutine, Inv, WellFormed, Data, SentInOrder
<1>2. /\ main'.pc = "send" /\ main'.next = 1 /\ main'.info = main.info
      /\ main'.length = main.length /\ main'.read = main.read
  BY <1>1 DEF MainShape
<1>3. \A i \in DOMAIN stages : i \in Nat /\ i >= 1
  BY DEF Data, Laid
<1>4. SentInOrder'
  BY <1>1, <1>2, <1>3 DEF SentInOrder
<1> QED
  BY <1>1, <1>2, <1>4, DataStays DEF SameData, Waits, Returned

LEMMA SendKeepsData ==
    ASSUME Inv, Data, Send
    PROVE  Data'
<1> DEFINE n == main.next
           s == [stages[n] EXCEPT !.pc = "below"]
<1>1. /\ main.pc = "send" /\ main \in MainShape /\ UNCHANGED <<buffer, produced, lost>>
      /\ stages' = [stages EXCEPT ![n] = s]
      /\ main' = IF n = Len(stages) THEN [main EXCEPT !.pc = "pending"]
                 ELSE [main EXCEPT !.next = @ + 1]
  BY DEF Send, Inv, WellFormed
<1>2. n \in Int /\ n + 1 \in Int /\ stages \in [DOMAIN stages -> StageShape]
  BY <1>1 DEF MainShape, Inv, WellFormed
<1>3. /\ main'.info = main.info /\ main'.length = main.length /\ main'.read = main.read
      /\ IF n = Len(stages) THEN main'.pc = "pending"
         ELSE main'.pc = "send" /\ main'.next = n + 1
  BY <1>1, <1>2 DEF MainShape
<1>4. PICK m \in Nat : DOMAIN stages = 1 .. m /\ Len(stages) = m
  <2>1. PICK m \in Nat : DOMAIN stages = 1 .. m
    BY DEF Data, Laid
  <2>2. stages \in [1 .. m -> StageShape]
    BY <1>2, <2>1
  <2>3. stages \in Seq(StageShape)
    BY <2>2
  <2> QED
    BY <2>1, <2>3
<1>5. ASSUME n \in DOMAIN stages
      PROVE  s.pc = "below" /\ SameData(s, stages[n]) /\ Waits(n)
  <2>1. stages[n] \in StageShape /\ stages[n].pc = "built"
    BY <1>1, <1>2, <1>5 DEF Inv, Unsent
  <2>2. PICK old \in StageShape : old = stages[n]
    BY <2>1
  <2>3. [old EXCEPT !.pc = "below"].pc = "below" /\ SameData([old EXCEPT !.pc = "below"], old)
    BY DEF StageShape, SameData
  <2> QED
    BY <2>1, <2>2, <2>3 DEF Waits
<1> HIDE DEF s, n
<1>6. /\ DOMAIN stages' = DOMAIN stages
      /\ \A i \in DOMAIN stages : stages'[i] = IF i = n THEN s ELSE stages[i]
  BY <1>1, <1>2
<1>7. SentInOrder'
  <2>1. \A i \in DOMAIN stages : stages[i].pc = "built" => i >= n
    BY <1>1 DEF Data, SentInOrder, n
  <2>2. \A i \in DOMAIN stages : i \in Int /\ i <= Len(stages)
    BY <1>4
  <2>3. ASSUME NEW i \in DOMAIN stages, stages'[i].pc = "built"
        PROVE  i >= n + 1
    <3>1. i # n
      BY <1>5, <1>6, <2>3
    <3> QED
      BY <1>2, <1>6, <2>1, <2>2, <2>3, <3>1
  <2>4. CASE n = Len(stages)
    BY <1>2, <1>3, <1>6, <2>2, <2>3, <2>4 DEF SentInOrder
  <2>5. CASE n # Len(stages)
    BY <1>3, <1>6, <2>3, <2>5 DEF SentInOrder
  <2> QED
    BY <2>4, <2>5
<1>8. \A i \in DOMAIN stages :
        /\ SameData(stages'[i], stages[i])
        /\ stages'[i].pc \in {"built", "below"} => Waits(i)
        /\ stages'[i].pc = "returned" <=> Returned(i)
  BY <1>5, <1>6 DEF SameData, Waits, Returned
<1> QED
  BY <1>1, <1>3, <1>6, <1>7, <1>8, DataStays

\* Every other action between the lower driver and the end of a stage.
LEMMA StageKeeps ==
    ASSUME NEW s \in StageShape, NEW pc \in StagePcs
    PROVE  SameData([s EXCEPT !.pc = pc], s) /\ [s EXCEPT !.pc = pc].pc = pc
BY DEF StageShape, SameData

LEMMA DropKeeps ==
    ASSUME NEW s \in StageShape
    PROVE  /\ SameData(Drop(s), s)
           /\ \A pc \in StagePcs : SameData([Drop(s) EXCEPT !.pc = pc], s)
                                   /\ [Drop(s) EXCEPT !.pc = pc].pc = pc
           /\ SameData([Drop(s) EXCEPT !.cancel = TRUE], s)
           /\ [Drop(s) EXCEPT !.cancel = TRUE].pc = s.pc
<1> DEFINE refs == s.refs - 1
           freed == IF s.refs = 1 THEN s.freed + 1 ELSE s.freed
<1>1. Drop(s) = [s EXCEPT !.refs = refs, !.freed = freed]
  BY DEF Drop, StageShape
<1> HIDE DEF refs, freed
<1> QED
  BY <1>1 DEF StageShape, SameData

LEMMA ReferencesKeepData ==
    ASSUME NEW before, before \in [DOMAIN stages -> StageShape], stages' = References(before),
           \A j \in list \cap DOMAIN stages : before[j] = stages[j]
    PROVE  \A j \in DOMAIN stages : SameData(stages'[j], before[j])
<1>1. ASSUME NEW j \in DOMAIN stages
      PROVE  SameData(stages'[j], before[j])
  <2>1. PICK s \in StageShape : s = before[j]
    OBVIOUS
  <2>2. CASE j \in list
    <3>1. stages'[j] = [s EXCEPT !.refs = @ + 1]
      BY <2>1, <2>2 DEF References
    <3>2. SameData([s EXCEPT !.refs = @ + 1], s)
      BY DEF StageShape, SameData
    <3> QED
      BY <2>1, <3>1, <3>2
  <2>3. CASE j \notin list
    BY <2>1, <2>3 DEF References, SameData
  <2> QED
    BY <2>2, <2>3
<1> QED
  BY <1>1 DEF References

LEMMA CancelMainKeepsData ==
    ASSUME Inv, Data, CancelMain
    PROVE  Data'
<1> DEFINE canceller == IF main.routine THEN list ELSE {}
<1>1. /\ UNCHANGED <<list, buffer, produced, lost>> /\ main \in MainShape
      /\ main' = [main EXCEPT !.cancel = TRUE, !.routine = FALSE, !.canceller = canceller]
      /\ stages' = References(stages) \/ stages' = stages
      /\ stages \in [DOMAIN stages -> StageShape]
  BY DEF CancelMain, Inv, WellFormed
<1> HIDE DEF canceller
<1>2. /\ main'.pc = main.pc /\ main'.info = main.info /\ main'.length = main.length
      /\ main'.read = main.read /\ main'.next = main.next
  BY <1>1 DEF MainShape
<1>3. /\ DOMAIN stages' = DOMAIN stages
      /\ \A j \in DOMAIN stages :
           stages'[j].pc = stages[j].pc /\ SameData(stages'[j], stages[j])
  BY <1>1, ReferencesKeepRest, ReferencesKeepData DEF SameData
<1> QED
  BY <1>1, <1>2, <1>3, DataStaysInOrder

LEMMA ShortWalksKeepsData ==
    ASSUME Inv, Data, NEW i \in DOMAIN stages, ShortWalks(i)
    PROVE  Data'
<1> DEFINE s == [stages[i] EXCEPT !.pc = "cancels"]
           before == [stages EXCEPT ![i] = s]
<1>1. /\ stages[i].pc = "walk" /\ UNCHANGED <<list, buffer, produced, lost>>
      /\ main' = [main EXCEPT !.shorts = list] /\ stages' = References(before)
      /\ main \in MainShape /\ stages[i] \in StageShape
      /\ stages \in [DOMAIN stages -> StageShape]
  BY DEF ShortWalks, Inv, WellFormed
<1>2. s \in StageShape /\ s.pc = "cancels" /\ SameData(s, stages[i])
  BY <1>1, StageMoves, StageKeeps, "cancels" \in StagePcs DEF StagePcs
<1> HIDE DEF s
<1>3. /\ main'.pc = main.pc /\ main'.info = main.info /\ main'.length = main.length
      /\ main'.read = main.read /\ main'.next = main.next
  BY <1>1 DEF MainShape
<1>4. /\ before \in [DOMAIN stages -> StageShape] /\ before[i] = s
      /\ \A j \in DOMAIN stages \ {i} : before[j] = stages[j]
  BY <1>1, <1>2
<1>5. i \notin list
  BY <1>1 DEF Inv, Listed
<1> HIDE DEF before
<1>6. /\ DOMAIN stages' = DOMAIN stages
      /\ \A j \in DOMAIN stages :
           stages'[j].pc = before[j].pc /\ SameData(stages'[j], before[j])
  <2>1. \A j \in list \cap DOMAIN stages : before[j] = stages[j]
    BY <1>4, <1>5
  <2> QED
    BY <1>1, <1>4, <2>1, ReferencesKeepRest, ReferencesKeepData
<1>7. \A j \in DOMAIN stages :
        /\ SameData(stages'[j], stages[j])
        /\ \/ stages'[j].pc = stages[j].pc
           \/ stages[j].pc = "walk" /\ stages'[j].pc = "cancels"
  BY <1>1, <1>2, <1>4, <1>6 DEF SameData
<1> QED
  BY <1>1, <1>3, <1>6, <1>7, DataStaysInOrder

\* One stage goes on after the lower driver.
LEMMA StageStepKeepsData ==
    ASSUME Inv, Data, NEW i \in DOMAIN stages, NEW s, stages' = [stages EXCEPT ![i] = s],
           SameData(s, stages[i]), UNCHANGED <<buffer, produced, lost>>,
           \/ s.pc = stages[i].pc
           \/ /\ stages[i].pc \notin {"built", "below", "returned"}
              /\ s.pc \notin {"built", "below", "returned"},
           main'.info = main.info, main'.length = main.length, main'.read = main.read,
           main'.next = main.next,
           \/ main'.pc = main.pc
           \/ main'.pc = "completed" /\ \A j \in DOMAIN stages : stages[j].pc # "built"
    PROVE  Data'
<1>1. stages \in [DOMAIN stages -> StageShape]
  BY DEF Inv, WellFormed
<1>2. /\ DOMAIN stages' = DOMAIN stages
      /\ \A j \in DOMAIN stages : stages'[j] = IF j = i THEN s ELSE stages[j]
  BY <1>1
<1> QED
  BY <1>2, DataStaysInOrder DEF SameData

LEMMA DropReferenceKeepsData ==
    ASSUME Inv, Data, NEW i \in DOMAIN stages, DropReference(i)
    PROVE  Data'
<1> DEFINE pc == IF stages[i].last THEN "finish" ELSE "done"
           s == [Drop(stages[i]) EXCEPT !.pc = pc]
<1>1. /\ stages[i].pc = "drop" /\ UNCHANGED <<main, buffer, produced, lost>>
      /\ stages' = [stages EXCEPT ![i] = s] /\ stages[i] \in StageShape
  BY DEF DropReference, Inv, WellFormed
<1>2. pc \in {"finish", "done"} /\ pc \in StagePcs
  BY DEF StagePcs
<1> HIDE DEF pc
<1>3. SameData(s, stages[i]) /\ s.pc = pc
  BY <1>1, <1>2, DropKeeps
<1> HIDE DEF s
<1> QED
  BY <1>1, <1>2, <1>3, StageStepKeepsData

LEMMA CancelsKeepData ==
    ASSUME Inv, Data, NEW i \in DOMAIN stages, RoutineCancels(i) \/ ShortCancels(i)
    PROVE  Data'
<1>1. /\ main \in MainShape /\ UNCHANGED <<buffer, produced, lost>>
      /\ \A j \in DOMAIN stages : stages[j] \in StageShape
      /\ main.canceller \cup main.shorts \subseteq DOMAIN stages
  BY DEF RoutineCancels, ShortCancels, Inv, WellFormed
<1>2. ASSUME NEW j \in DOMAIN stages, NEW m,
             stages' = [stages EXCEPT ![j] = [Drop(@) EXCEPT !.cancel = TRUE]],
             main' = [main EXCEPT !.canceller = m] \/ main' = [main EXCEPT !.shorts = m]
      PROVE  Data'
  <2> DEFINE s == [Drop(stages[j]) EXCEPT !.cancel = TRUE]
  <2>1. SameData(s, stages[j]) /\ s.pc = stages[j].pc
    BY <1>1, DropKeeps
  <2>2. stages' = [stages EXCEPT ![j] = s]
    BY <1>2
  <2> HIDE DEF s
  <2>3. /\ main'.pc = main.pc /\ main'.info = main.info /\ main'.length = main.length
        /\ main'.read = main.read /\ main'.next = main.next
    BY <1>1, <1>2 DEF MainShape
  <2> QED
    BY <1>1, <2>1, <2>2, <2>3, StageStepKeepsData
<1>3. CASE RoutineCancels(i)
  BY <1>2, <1>3 DEF RoutineCancels
<1>4. CASE ShortCancels(i) /\ main.shorts # {}
  BY <1>1, <1>2, <1>4 DEF ShortCancels
<1>5. CASE ShortCancels(i) /\ main.shorts = {}
  <2> DEFINE s == [stages[i] EXCEPT !.pc = "drop"]
  <2>1. UNCHANGED main /\ stages[i].pc = "cancels" /\ stages' = [stages EXCEPT ![i] = s]
    BY <1>5 DEF ShortCancels
  <2>2. SameData(s, stages[i]) /\ s.pc = "drop"
    BY <1>1, StageKeeps, "drop" \in StagePcs DEF StagePcs
  <2> HIDE DEF s
  <2> QED
    BY <1>1, <2>1, <2>2, StageStepKeepsData
<1> QED
  BY <1>3, <1>4, <1>5

LEMMA FinishKeepsData ==
    ASSUME Inv, Alone, Data, NEW i \in DOMAIN stages, Finish(i)
    PROVE  Data'
<1> DEFINE s == [stages[i] EXCEPT !.pc = "done"]
<1>1. /\ stages[i].pc = "finish" /\ UNCHANGED <<buffer, produced, lost>>
      /\ main' = Complete(main, "success", main.info)
      /\ stages' = [stages EXCEPT ![i] = s] /\ stages[i] \in StageShape /\ main \in MainShape
  BY DEF Finish, Inv, WellFormed
<1>2. SameData(s, stages[i]) /\ s.pc = "done"
  BY <1>1, StageKeeps, "done" \in StagePcs DEF StagePcs
<1>3. /\ main'.pc = "completed" /\ main'.info = main.info /\ main'.length = main.length
      /\ main'.read = main.read
  BY <1>1, CompleteKeepsAmounts
<1>4. main'.next = main.next
  BY <1>1, CompleteIsShaped, "success" \in {"success", "failed", "cancelled"} DEF MainShape
<1>5. \A j \in DOMAIN stages : stages[j].pc # "built"
  BY <1>1 DEF Alone, Through, Inv, Listed
<1> HIDE DEF s
<1> QED
  BY <1>1, <1>2, <1>3, <1>4, <1>5, StageStepKeepsData

\* No stage that waits lies before the first one below.
LEMMA FirstBelowIsFirst ==
    ASSUME Inv, Data, NEW i \in DOMAIN stages, i \in Below, FirstBelow(i),
           NEW j \in DOMAIN stages, j # i, Waits(j)
    PROVE  i < j
<1>1. i \in Int /\ j \in Int /\ stages[i].pc = "below"
  BY DEF Inv, WellFormed, Below
<1>2. CASE stages[j].pc = "below"
  BY <1>1, <1>2 DEF FirstBelow, Below
<1>3. CASE stages[j].pc = "built"
  <2>1. main.pc \in MainPcs /\ main.next \in Int
    BY DEF Inv, WellFormed, MainShape
  <2>2. main.pc = "send"
    BY <1>1, <1>3, <2>1 DEF Inv, Unsent, Data, SentInOrder, MainPcs
  <2>3. j >= main.next /\ ~(i >= main.next)
    BY <1>1, <1>3, <2>2 DEF Inv, Unsent, Data, SentInOrder
  <2> QED
    BY <1>1, <2>1, <2>3
<1> QED
  BY <1>2, <1>3 DEF Waits

\* A stage comes back with its units in the buffer; they wait to be added up, or are lost.
LEMMA BringsKeepsData ==
    ASSUME Inv, Data, NEW i \in DOMAIN stages, stages[i].pc = "below",
           \A j \in DOMAIN stages : ~Returned(j),
           NEW units \in 0 .. MaxTransfer, units <= stages[i].size,
           FirstBelow(i) \/ units = 0, Brings(i, units), UNCHANGED <<main, list>>,
           NEW got \in {0, units}, lost' = lost + units - got,
           NEW s, stages' = [stages EXCEPT ![i] = s], s.pc = "returned", s.got = got,
           s.size = stages[i].size, s.startOffset = stages[i].startOffset
    PROVE  Data'
<1>1. /\ produced' = produced + units
      /\ buffer' = [k \in DOMAIN buffer |->
            IF main.read /\ k \in Begins(i) + 1 .. Begins(i) + units
            THEN produced + k - Begins(i) ELSE buffer[k]]
  BY DEF Brings
<1>2. /\ DOMAIN stages' = DOMAIN stages
      /\ \A j \in DOMAIN stages : stages'[j] = IF j = i THEN s ELSE stages[j]
  BY DEF Inv, WellFormed
<1>3. /\ units \in Nat /\ units <= MaxTransfer /\ got \in Nat /\ got <= units
      /\ i \in Nat /\ i >= 1 /\ main.length \in Nat
      /\ produced \in Int /\ main.info \in Int /\ lost \in Int
  BY MaxTransferAssumption DEF Data, Laid, Inv, WellFormed, MainShape
<1>4. /\ produced = main.info + lost /\ 0 <= main.info /\ 0 <= lost /\ produced <= Begins(i)
      /\ Begins(i) \in Nat /\ Begins(i) + units <= main.length
  <2>1. Begins(i) \in Nat /\ Begins(i) + stages[i].size <= main.length /\ stages[i].size \in Int
    BY <1>3, StageFits DEF Data, Laid
  <2> QED
    BY <1>3, <2>1 DEF Data, Summed, Waits
<1>5. Laid'
  BY <1>2 DEF Data, Laid
<1>6. SentInOrder'
  BY <1>2 DEF Data, SentInOrder
<1>7. Summed'
  <2>1. 0 <= main'.info /\ 0 <= lost' /\ main'.info + lost' <= produced' /\ produced' <= main'.length
    BY <1>1, <1>3, <1>4
  <2>2. main'.pc \notin {"none", "build", "direct", "armed"}
    BY DEF Inv, Unsent
  <2>3. ~(\A j \in DOMAIN stages' : ~Returned(j)')
    BY <1>2 DEF Returned
  <2>4. ASSUME NEW j \in DOMAIN stages, Waits(j)'
        PROVE  stages'[j].got = 0 /\ produced' <= Begins(j)
    <3>1. j # i /\ stages'[j] = stages[j] /\ Waits(j)
      BY <1>2, <2>4 DEF Waits
    <3>2. stages[j].got = 0 /\ produced <= Begins(j)
      BY <3>1 DEF Data, Summed
    <3>3. CASE units = 0
      BY <1>1, <1>3, <3>1, <3>2, <3>3
    <3>4. CASE FirstBelow(i)
      <4>1. i < j /\ j \in Nat
        BY <3>1, <3>4, FirstBelowIsFirst DEF Data, Laid, Below
      <4>2. Begins(i) + MaxTransfer <= Begins(j) /\ Begins(j) \in Nat
        BY <1>3, <4>1, StagesAreApart, StageFits
      <4> QED
        BY <1>1, <1>3, <1>4, <3>1, <3>2, <4>2, MaxTransferAssumption
    <3> QED
      BY <3>3, <3>4
  <2>5. ASSUME NEW j \in DOMAIN stages, Returned(j)'
        PROVE  produced' = main'.info + lost' + stages'[j].got /\ main'.info <= Begins(j)
    <3>1. j = i
      BY <1>2, <2>5 DEF Returned
    <3> QED
      BY <1>1, <1>2, <1>3, <1>4, <3>1
  <2> QED
    BY <1>2, <2>1, <2>2, <2>3, <2>4, <2>5 DEF Summed
<1>8. Stored'
  <2>1. DOMAIN buffer = 1 .. main.length
    BY DEF Data, Stored
  <2>2. buffer' = [k \in 1 .. main'.length |-> buffer'[k]]
    BY <1>1, <2>1
  <2>3. ASSUME main'.read, Even'
        PROVE  /\ \A k \in 1 .. main'.info : Placed(k)'
               /\ \A j \in DOMAIN stages' : Returned(j)' =>
                    \A k \in 1 .. stages'[j].got :
                      buffer'[Begins(j) + k] = main'.info + lost' + k
    <3>1. main.read /\ Even
      BY <2>3 DEF Even
    <3>2. ASSUME NEW k \in 1 .. main.info PROVE Placed(k)'
      <4>1. /\ k \in 1 .. main.length /\ k \notin Begins(i) + 1 .. Begins(i) + units
            /\ k > 1 => /\ k - 1 \in 1 .. main.length
                        /\ k - 1 \notin Begins(i) + 1 .. Begins(i) + units
        BY <1>3, <1>4
      <4>2. buffer'[k] = buffer[k] /\ (k > 1 => buffer'[k - 1] = buffer[k - 1])
        BY <1>1, <2>1, <4>1
      <4>3. buffer[k] \in k .. k + lost /\ (k > 1 => buffer[k - 1] < buffer[k])
        BY <3>1 DEF Data, Stored, Placed
      <4>4. k \in Int /\ lost' \in Int /\ lost <= lost'
        BY <1>3
      <4> QED
        BY <1>3, <4>2, <4>3, <4>4 DEF Placed
    <3>3. ASSUME NEW j \in DOMAIN stages, Returned(j)', NEW k \in 1 .. stages'[j].got
          PROVE  buffer'[Begins(j) + k] = main'.info + lost' + k
      <4>1. j = i /\ k \in 1 .. got /\ got = units /\ lost' = lost
        BY <1>2, <1>3, <3>3 DEF Returned
      <4>2. /\ Begins(i) + k \in 1 .. main.length
            /\ Begins(i) + k \in Begins(i) + 1 .. Begins(i) + units
        BY <1>3, <1>4, <4>1
      <4>3. buffer'[Begins(i) + k] = produced + (Begins(i) + k) - Begins(i)
        BY <1>1, <2>1, <3>1, <4>2
      <4> QED
        BY <1>3, <1>4, <4>1, <4>3
    <3> QED
      BY <1>2, <3>2, <3>3
  <2> QED
    BY <2>2, <2>3 DEF Stored
<1>9. produced' \in Int /\ lost' \in Int
  BY <1>1, <1>3
<1> QED
  BY <1>3, <1>5, <1>6, <1>7, <1>8, <1>9 DEF Data

LEMMA StageReturnsKeepsData ==
    ASSUME Inv, Data, "Parallel" \notin Env, NEW i \in DOMAIN stages,
           NEW got \in 0 .. MaxTransfer, StageReturns(i, got)
    PROVE  Data'
<1> DEFINE short == got < stages[i].size
<1>1. PICK old \in StageShape : old = stages[i]
  BY DEF Inv, WellFormed
<1> DEFINE s == [old EXCEPT !.pc = "returned", !.got = got, !.short = short]
<1>2. /\ stages' = [stages EXCEPT ![i] = s] /\ stages[i].pc = "below" /\ FirstBelow(i)
      /\ got <= stages[i].size /\ Brings(i, got) /\ UNCHANGED <<main, list>> /\ lost' = lost
      /\ \A j \in DOMAIN stages : ~Returned(j)
  BY <1>1 DEF StageReturns, Below, Serial, Returned
<1> HIDE DEF short
<1>3. s.pc = "returned" /\ s.got = got /\ s.size = old.size /\ s.startOffset = old.startOffset
  BY DEF StageShape
<1> HIDE DEF s
<1>4. lost' = lost + got - got /\ got \in {0, got}
  BY <1>2, MaxTransferAssumption DEF Data
<1> QED
  BY <1>1, <1>2, <1>3, <1>4, BringsKeepsData

LEMMA StageFailsKeepsData ==
    ASSUME Inv, Data, "Parallel" \notin Env, NEW i \in DOMAIN stages,
           NEW part \in 0 .. MaxTransfer, StageFails(i, part)
    PROVE  Data'
<1> DEFINE s == [stages[i] EXCEPT !.pc = "returned"]
<1>1. /\ stages' = [stages EXCEPT ![i] = s] /\ stages[i].pc = "below"
      /\ FirstBelow(i) \/ part = 0
      /\ part <= stages[i].size /\ Brings(i, part) /\ UNCHANGED <<main, list>>
      /\ lost' = lost + part
      /\ \A j \in DOMAIN stages : ~Returned(j)
      /\ stages[i] \in StageShape
  BY DEF StageFails, Below, Serial, Returned, Inv, WellFormed
<1>2. SameData(s, stages[i]) /\ s.pc = "returned"
  BY <1>1, StageKeeps, "returned" \in StagePcs DEF StagePcs
<1> HIDE DEF s
<1>3. s.got = 0 /\ s.size = stages[i].size /\ s.startOffset = stages[i].startOffset
  BY <1>1, <1>2 DEF SameData, Data, Summed, Waits
<1>4. lost' = lost + part - 0 /\ 0 \in {0, part}
  BY <1>1, MaxTransferAssumption DEF Data
<1> QED
  BY <1>1, <1>2, <1>3, <1>4, BringsKeepsData

\* A stage is added up, with the units it has brought or, if they cannot be mapped, without.
LEMMA AddsUpKeepsData ==
    ASSUME Inv, Alone, Data, NEW i \in DOMAIN stages, stages[i].pc = "returned",
           NEW information \in {0, stages[i].got}, AddsUp(i, information),
           lost' = lost + stages[i].got - information, produced' = produced,
           \/ information = 0 /\ buffer' = buffer
           \/ information = stages[i].got /\ buffer' = IF Moves(i) THEN Moved(i) ELSE buffer
    PROVE  Data'
<1> DEFINE pc == IF CancelsOthers(i) THEN "walk" ELSE "drop"
           last == IsLast(i)
           info == main.info + information
           routine == main.routine /\ ~IsLast(i) /\ ~CancelsOthers(i)
           s == [stages[i] EXCEPT !.pc = pc, !.last = last]
<1>1. /\ Returned(i) /\ list' = list \ {i} /\ main \in MainShape
      /\ main' = [main EXCEPT !.info = info, !.routine = routine]
      /\ stages' = [stages EXCEPT ![i] = s]
  BY DEF AddsUp, Inv, WellFormed, Returned
<1>2. pc \in {"walk", "drop"} /\ stages[i] \in StageShape
  BY DEF Inv, WellFormed
<1>3. /\ i \in Nat /\ i >= 1 /\ i <= numIrps(main.length)
      /\ main.length \in Nat /\ main.info \in Int /\ produced \in Int /\ lost \in Int
      /\ stages[i].got \in Int /\ stages[i].startOffset = startOffset(main.length, i)
      /\ Begins(i) \in Nat
  <2>1. /\ i \in Nat /\ i >= 1 /\ i <= numIrps(main.length) /\ main.length \in Nat
    BY MaxTransferAssumption DEF Data, Laid, numIrps
  <2>2. Begins(i) \in Nat
    BY <2>1, StageFits
  <2> QED
    BY <1>1, <1>2, <2>1, <2>2 DEF Data, Laid, MainShape, StageShape
<1>4. /\ produced = main.info + lost + stages[i].got /\ main.info <= Begins(i)
      /\ 0 <= main.info /\ 0 <= lost /\ 0 <= stages[i].got /\ produced <= main.length
      /\ information \in Int /\ 0 <= information /\ information <= stages[i].got
  <2>1. /\ produced = main.info + lost + stages[i].got /\ main.info <= Begins(i)
        /\ 0 <= main.info /\ 0 <= lost /\ main.info + lost <= produced /\ produced <= main.length
    BY <1>1 DEF Data, Summed
  <2> QED
    BY <1>3, <2>1
<1> HIDE DEF pc, last, routine
<1>5. /\ main'.pc = main.pc /\ main'.info = info /\ main'.length = main.length
      /\ main'.read = main.read /\ main'.next = main.next
  BY <1>1 DEF MainShape
<1>6. SameData(s, stages[i]) /\ s.pc = pc
  BY <1>2 DEF StageShape, SameData
<1> HIDE DEF s
<1>7. /\ DOMAIN stages' = DOMAIN stages
      /\ \A j \in DOMAIN stages : stages'[j] = IF j = i THEN s ELSE stages[j]
  BY <1>1 DEF Inv, WellFormed
<1>8. \A j \in DOMAIN stages : ~Returned(j)'
  BY <1>1, <1>2, <1>6, <1>7 DEF Alone, Through, Up, Returned
<1>9. Laid' /\ SentInOrder'
  <2>1. Laid'
    BY <1>5, <1>6, <1>7 DEF Data, Laid, SameData
  <2>2. SentInOrder'
    BY <1>2, <1>5, <1>6, <1>7 DEF Data, SentInOrder
  <2> QED
    BY <2>1, <2>2
<1>10. Summed'
  <2>1. ASSUME NEW j \in DOMAIN stages, Waits(j)'
        PROVE  stages'[j].got = 0 /\ produced' <= Begins(j)
    <3>1. stages'[j] = stages[j] /\ Waits(j)
      BY <1>2, <1>6, <1>7, <2>1 DEF Waits
    <3> QED
      BY <3>1 DEF Data, Summed
  <2>2. /\ 0 <= main'.info /\ 0 <= lost' /\ main'.info + lost' = produced'
        /\ produced' <= main'.length
    BY <1>3, <1>4, <1>5
  <2>3. main'.pc \notin {"none", "build", "direct", "armed"}
    BY <1>5 DEF Inv, Unsent
  <2>4. main'.info + lost' <= produced'
    BY <1>3, <1>4, <1>5
  <2> QED
    BY <1>7, <1>8, <2>1, <2>2, <2>3, <2>4 DEF Summed
<1>11. Stored'
  <2>1. DOMAIN buffer = 1 .. main.length
    BY DEF Data, Stored
  <2>2. DOMAIN buffer' = DOMAIN buffer /\ buffer' = [k \in 1 .. main'.length |-> buffer'[k]]
    <3>1. CASE buffer' = Moved(i)
      BY <1>5, <2>1, <3>1 DEF Moved
    <3>2. CASE buffer' = buffer
      BY <1>5, <2>1, <3>2 DEF Data, Stored
    <3> QED
      BY <3>1, <3>2
  <2>3. ASSUME main.read, Even, NEW k \in 1 .. main.info
        PROVE  buffer'[k] = buffer[k] /\ buffer[k] \in k .. k + lost
    <3>1. k \in 1 .. main.length /\ k \notin main.info + 1 .. main.info + stages[i].got
      BY <1>3, <1>4
    <3>2. buffer'[k] = buffer[k]
      BY <2>1, <3>1 DEF Moved
    <3> QED
      BY <2>3, <3>2 DEF Data, Stored, Placed
  <2>4. ASSUME main.read, Even, NEW k \in 1 .. info, k \notin 1 .. main.info
        PROVE  buffer'[k] = lost + k /\ lost' = lost
    <3>1. /\ information = stages[i].got /\ lost' = lost
          /\ k \in main.info + 1 .. main.info + stages[i].got /\ k \in 1 .. main.length
          /\ k - main.info \in 1 .. stages[i].got
          /\ Begins(i) + k - main.info = Begins(i) + (k - main.info)
      BY <1>3, <1>4, <2>4
    <3>2. stages[i].startOffset = Begins(i)
      BY <1>3, <2>4, EvenStagesStart DEF Even
    <3>3. buffer[Begins(i) + (k - main.info)] = main.info + lost + (k - main.info)
      BY <1>1, <2>4, <3>1 DEF Data, Stored
    <3>4. buffer' = IF Moves(i) THEN Moved(i) ELSE buffer
      <4>1. information # 0
        BY <1>3, <3>1
      <4> QED
        BY <4>1
    <3>5. CASE Moves(i)
      <4>1. buffer'[k] = IF k \in main.info + 1 .. main.info + stages[i].got
                         THEN buffer[Begins(i) + k - main.info] ELSE buffer[k]
        BY <2>1, <3>1, <3>2, <3>4, <3>5 DEF Moved
      <4> QED
        BY <1>3, <3>1, <3>3, <4>1
    <3>6. CASE ~Moves(i)
      <4>1. main.info = Begins(i)
        BY <1>3, <1>4, <2>4, <3>1, <3>2, <3>6 DEF Moves
      <4> QED
        BY <1>3, <3>1, <3>3, <3>4, <3>6, <4>1
    <3> QED
      BY <3>5, <3>6
  <2>5. ASSUME main'.read, Even', NEW k \in 1 .. main'.info
        PROVE  Placed(k)'
    <3>1. main.read /\ Even /\ k \in 1 .. info /\ lost <= lost' /\ lost' \in Int /\ k \in Int
      BY <1>3, <1>4, <1>5, <2>5 DEF Even
    <3>2. CASE k \in 1 .. main.info
      <4>0. k > 1 => k - 1 \in 1 .. main.info
        BY <1>3, <3>2
      <4>1. k > 1 => buffer[k - 1] < buffer[k] /\ k - 1 \in 1 .. main.info
        BY <3>1, <3>2, <4>0 DEF Data, Stored, Placed
      <4>2. k > 1 => buffer'[k - 1] = buffer[k - 1]
        BY <2>3, <3>1, <4>1
      <4>3. buffer'[k] = buffer[k] /\ buffer[k] \in k .. k + lost
        BY <2>3, <3>1, <3>2
      <4> QED
        BY <1>3, <3>1, <4>1, <4>2, <4>3 DEF Placed
    <3>3. CASE k \notin 1 .. main.info
      <4>1. buffer'[k] = lost + k /\ lost' = lost
        BY <2>4, <3>1, <3>3
      <4>2. CASE k - 1 \in 1 .. main.info
        <5>1. buffer'[k - 1] = buffer[k - 1] /\ buffer[k - 1] \in k - 1 .. (k - 1) + lost
          BY <2>3, <3>1, <4>2
        <5> QED
          BY <1>3, <1>4, <3>1, <4>1, <5>1 DEF Placed
      <4>3. CASE k - 1 \notin 1 .. main.info
        <5>1. k > 1 => k - 1 \in 1 .. info
          BY <1>3, <1>4, <3>1
        <5>2. k > 1 => buffer'[k - 1] = lost + (k - 1)
          BY <2>4, <3>1, <4>3, <5>1
        <5> QED
          BY <1>3, <1>4, <3>1, <4>1, <5>2 DEF Placed
      <4> QED
        BY <4>2, <4>3
    <3> QED
      BY <3>2, <3>3
  <2> QED
    BY <1>7, <1>8, <2>2, <2>5 DEF Stored
<1>12. lost' \in Int
  BY <1>3, <1>4
<1> QED
  BY <1>3, <1>5, <1>9, <1>10, <1>11, <1>12 DEF Data

LEMMA CompleteKeepsData ==
    ASSUME Inv, Alone, Data, NEW i \in DOMAIN stages,
           large_transfer_complete(i) \/ MappingFails(i)
    PROVE  Data'
<1>1. stages[i].got \in Int /\ lost \in Int
  BY DEF Inv, WellFormed, StageShape, Data
<1>2. CASE large_transfer_complete(i)
  <2>1. /\ stages[i].pc = "returned" /\ AddsUp(i, stages[i].got)
        /\ stages[i].got \in {0, stages[i].got}
        /\ lost' = lost + stages[i].got - stages[i].got /\ produced' = produced
        /\ buffer' = IF Moves(i) THEN Moved(i) ELSE buffer
    BY <1>1, <1>2 DEF large_transfer_complete
  <2> QED
    BY <2>1, AddsUpKeepsData
<1>3. CASE MappingFails(i)
  <2>1. /\ stages[i].pc = "returned" /\ AddsUp(i, 0) /\ 0 \in {0, stages[i].got}
        /\ lost' = lost + stages[i].got - 0 /\ produced' = produced /\ buffer' = buffer
    BY <1>1, <1>3 DEF MappingFails
  <2> QED
    BY <2>1, AddsUpKeepsData
<1> QED
  BY <1>2, <1>3

LEMMA StepKeepsData ==
    ASSUME "Parallel" \notin Env
    PROVE  Inv /\ Alone /\ Data /\ [Next]_vars => Data'
<1> SUFFICES ASSUME Inv, Alone, Data, [Next]_vars PROVE Data'
  OBVIOUS
<1>1. CASE \E length \in Lengths, read \in BOOLEAN : Submit(length, read)
  BY <1>1, SubmitKeepsData
<1>2. CASE \/ transfer_fails \/ AllocationFails
           \/ \E got \in 0 .. MaxTransfer : transfer_complete(got) \/ transfer_aborted(got)
  BY <1>2, ShortTransferKeepsData
<1>3. CASE Thread
  BY <1>3, BuildKeepsData, SetCancelRoutineKeepsData, SendKeepsData DEF Thread
<1>4. CASE CancelMain
  BY <1>4, CancelMainKeepsData
<1>5. CASE Return
  BY <1>5, ReturnKeepsData
<1>6. ASSUME NEW i \in DOMAIN stages,
             \/ Completion(i) \/ RoutineCancels(i)
             \/ \E got \in 0 .. MaxTransfer : StageReturns(i, got) \/ StageFails(i, got)
      PROVE  Data'
  BY <1>6, StageFailsKeepsData, StageReturnsKeepsData, CompleteKeepsData, ShortWalksKeepsData,
     CancelsKeepData, DropReferenceKeepsData, FinishKeepsData DEF Completion
<1>7. CASE UNCHANGED vars
  BY <1>7 DEF vars, Data, Laid, SentInOrder, Summed, Stored, Placed, Even, Waits, Returned
<1> QED
  BY <1>1, <1>2, <1>3, <1>4, <1>5, <1>6, <1>7 DEF Next

LEMMA DataHolds ==
    ASSUME "Parallel" \notin Env
    PROVE  Spec => [](Inv /\ Alone /\ Data)
<1>1. Init => Inv /\ Alone /\ Data
  BY InitHolds, InitIsAlone, InitData
<1>2. Inv /\ Alone /\ Data /\ [Next]_vars => (Inv /\ Alone /\ Data)'
  BY StepKeepsInv, StepKeepsAlone, StepKeepsData
<1> QED
  BY <1>1, <1>2, PTL DEF Spec

(* Whatever stages are short, fail or are cancelled, a completed transfer  *)
(* reports all the device has sent but what came with a stage that failed  *)
(* or could not be mapped, and not more than was asked for                 *)
(* (large_transfer_complete adds up every stage before the last one        *)
(* completes the main request).                                            *)
THEOREM AllIsReported ==
    ASSUME "Parallel" \notin Env
    PROVE  Spec => []NothingElseIsLost
<1>1. Inv /\ Alone /\ Data => NothingElseIsLost
  <2> SUFFICES ASSUME Inv, Alone, Data, main.pc = "completed"
               PROVE  main.info <= main.length /\ main.info = produced - lost
    BY DEF NothingElseIsLost
  <2>1. \A j \in DOMAIN stages : ~Returned(j)
    <3>1. CASE DOMAIN stages = {}
      BY <3>1
    <3>2. CASE DOMAIN stages # {}
      BY <3>2 DEF Alone, Ended, Through, Inv, Listed, Returned
    <3> QED
      BY <3>1, <3>2
  <2> QED
    BY <2>1 DEF Data, Summed, Inv, WellFormed, MainShape
<1> QED
  BY <1>1, DataHolds, PTL

(* If the stages of a read have the same size, what a completed transfer   *)
(* reports lies in the program's buffer in the order in which it came,     *)
(* without a gap but for the units that were lost: what comes after a      *)
(* short stage is moved up to where the data so far ends                   *)
(* (large_transfer_complete, startOffset).                                 *)
THEOREM EvenDataIsInOrder ==
    ASSUME "Parallel" \notin Env
    PROVE  Spec => []InOrderIfEven
<1>1. Data => InOrderIfEven
  BY DEF Data, Stored, Placed, Even, InOrderIfEven, InOrder
<1> QED
  BY <1>1, DataHolds, PTL
=============================================================================

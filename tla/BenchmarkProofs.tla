-------------------------- MODULE BenchmarkProofs --------------------------
(***************************************************************************)
(* Theorems about the benchmark's threads and their transfers, for every   *)
(* test: any endpoints, ring and number of retries.                        *)
(*   FreedTransfersAreIdle   FreedIsIdle, if no abort fails;               *)
(*   TestsEndForReason       CancelledForReason, if besides no thread      *)
(*                           starts late;                                  *)
(*   RingIsAQueue            RingInOrder, whatever fails.                  *)
(*                                                                         *)
(* Held says who waits for a transfer that is in the driver: in a ring it  *)
(* is in use, and a thread that stops has not come to it yet; otherwise    *)
(* the thread is in the transfer.  Stopped threads are those that have run *)
(* out of retries, unless the test was cancelled before (Reasoned); one    *)
(* that has counted a timeout may find the count back at 0, and go on.     *)
(*                                                                         *)
(* RingInv needs none of this: RingOf says what place each slot has in the *)
(* queue of its endpoint while the thread has not begun to stop.           *)
(***************************************************************************)
EXTENDS Benchmark, SequenceTheorems, TLAPS

(* TypeOK but for the bounds of the counters.                              *)
TestType ==
    [mode : Modes, endpoints : SUBSET AllEndpoints, count : Nat \ {0}, retry : Nat,
     cancelled : BOOLEAN, aborted : BOOLEAN]
ThreadType ==
    [pc : Pcs, running : BOOLEAN, timeouts : Nat, errors : Nat, cleared : BOOLEAN,
     next : Slots, wait : Slots, outstanding : Int, i : Nat]
SlotType == [context : BOOLEAN, inUse : BOOLEAN, io : Ios]
RingType == [Slots -> SlotType]
Mains == {"ready", "running", "reset", "join", "close", "closed"}

WellFormed ==
    /\ test \in TestType
    /\ main \in Mains
    /\ th \in [Endpoints -> ThreadType]
    /\ ring \in [Endpoints -> RingType]

Unstarted == {"suspended", "resumed"}
Waiting(t) == t.pc \in {"sync", "drain"}
Cleaning(t) == t.pc \in {"stop", "drain"}
HeldSlot(t, s, i) ==
    /\ s.inUse => mode = "async"
    /\ s.io \in InDriver =>
         /\ s.context
         /\ IF mode = "async"
            THEN /\ s.inUse /\ t.pc \notin Unstarted \cup {"exited"}
                 /\ Cleaning(t) => t.i <= i
            ELSE i = 0 /\ Waiting(t)
Held(t, q) ==
    /\ \A i \in Slots : HeldSlot(t, q[i], i)
    /\ t.pc = "sync" => mode = "sync" /\ q[0].io # "idle"

Stopped(t) == t.pc \in {"stop", "exited"} \/ (t.pc = "drain" /\ mode = "async")
Over(t) == t.timeouts > Retry \/ t.errors > Retry \/ t.cleared
Reasoned(t) ==
    /\ Over(t) => Stopped(t) \/ t.pc = "counted"
    /\ t.pc = "counted" => ~(t.errors > Retry) /\ ~t.cleared /\ t.i = 0
    /\ Stopped(t) => test.cancelled \/ Over(t)
    /\ t.running <=> t.pc \notin Unstarted \cup {"exited"}

(* The main thread and the others.                                         *)
Watched ==
    /\ main = "ready" => \A e \in Endpoints : th[e].pc = "suspended"
    /\ main \in {"running", "reset", "join"} => \A e \in Endpoints : th[e].pc # "suspended"
    /\ main \in {"close", "closed"} => \A e \in Endpoints : th[e].pc \in {"suspended", "exited"}
    /\ main \in {"ready", "running"} => ~test.cancelled
    /\ test.aborted => test.cancelled

Threads == \A e \in Endpoints : Held(th[e], ring[e]) /\ Reasoned(th[e])
Punctual == "SlowStart" \notin Env => CancelledForReason

Inv == WellFormed /\ Watched /\ Threads /\ Punctual

Smooth == "AbortFails" \notin Env

\* The parameters of a test are numbers.
LEMMA SlotsAreNumbers ==
    ASSUME test \in TestType
    PROVE  /\ BufferCount \in Nat \ {0} /\ Slots \subseteq Nat /\ 0 \in Slots
           /\ Retry \in Nat /\ mode \in Modes
           /\ \A i \in Slots : INC_ROLL(i) \in Slots
BY DEF TestType, BufferCount, Slots, Retry, mode, INC_ROLL

\* The test at the start.
LEMMA InitHolds == Init => Inv
<1> SUFFICES ASSUME Init PROVE Inv
  OBVIOUS
<1>1. PICK t \in Tests :
        test = [mode |-> t.mode, endpoints |-> t.endpoints, count |-> t.count,
                retry |-> t.retry, cancelled |-> FALSE, aborted |-> FALSE]
  BY DEF Init
<1>2. test \in TestType /\ ~test.cancelled /\ ~test.aborted
  BY <1>1, TestsAssumption DEF TestType, AllEndpoints
<1>3. 0 \in Slots /\ Retry \in Nat
  BY <1>2, SlotsAreNumbers
<1>4. \A e \in Endpoints :
        th[e] = [pc |-> "suspended", running |-> FALSE, timeouts |-> 0, errors |-> 0,
                 cleared |-> FALSE, next |-> 0, wait |-> 0, outstanding |-> 0, i |-> 0]
  BY DEF Init
<1>5. \A e \in Endpoints : \A i \in Slots :
        ring[e][i] = [context |-> FALSE, inUse |-> FALSE, io |-> "idle"]
  BY DEF Init
<1>6. th \in [Endpoints -> ThreadType]
  BY <1>3, <1>4 DEF Init, ThreadType, Pcs
<1>7. ring \in [Endpoints -> RingType]
  BY DEF Init, RingType, SlotType, Ios
<1>8. WellFormed
  BY <1>2, <1>6, <1>7 DEF WellFormed, Init, Mains
<1>9. Watched
  BY <1>2, <1>4 DEF Watched, Init
<1>10. ASSUME NEW e \in Endpoints PROVE Held(th[e], ring[e]) /\ Reasoned(th[e])
  <2>1. Held(th[e], ring[e])
    BY <1>4, <1>5, <1>10 DEF Held, HeldSlot, InDriver
  <2>2. Reasoned(th[e])
    BY <1>3, <1>4, <1>10 DEF Reasoned, Over, Stopped, Unstarted
  <2> QED
    BY <2>1, <2>2
<1> QED
  BY <1>2, <1>8, <1>9, <1>10 DEF Inv, Threads, Punctual, CancelledForReason

\* A step of one thread.
LEMMA OneThread ==
    ASSUME Inv, NEW e \in Endpoints, NEW t \in ThreadType, NEW q \in RingType,
           th' = [th EXCEPT ![e] = t], ring' = [ring EXCEPT ![e] = q],
           UNCHANGED <<test, main>>,
           th[e].pc \notin {"suspended", "exited"}, t.pc # "suspended",
           Held(t, q), Reasoned(t), Over(th[e]) => Over(t)
    PROVE  Inv'
<1>1. /\ Endpoints' = Endpoints /\ Slots' = Slots /\ Retry' = Retry /\ mode' = mode
      /\ ThreadType' = ThreadType /\ RingType' = RingType
  BY DEF Endpoints, Slots, BufferCount, Retry, mode, ThreadType, RingType
<1>2. \A f \in Endpoints : /\ th'[f] = IF f = e THEN t ELSE th[f]
                           /\ ring'[f] = IF f = e THEN q ELSE ring[f]
  BY DEF Inv, WellFormed
<1>3. WellFormed'
  BY <1>1 DEF Inv, WellFormed
<1>4. Watched'
  BY <1>1, <1>2 DEF Inv, Watched
<1>5. ASSUME NEW f \in Endpoints
      PROVE  Held(th[f], ring[f])' /\ Reasoned(th[f])'
  <2>1. /\ Held(th[f], ring[f])' <=> Held(th'[f], ring'[f])
        /\ Reasoned(th[f])' <=> Reasoned(th'[f])
    BY <1>1 DEF Held, HeldSlot, Reasoned, Stopped, Over
  <2> QED
    BY <1>2, <1>5, <2>1 DEF Inv, Threads
<1>6. Punctual'
  BY <1>1, <1>2 DEF Inv, Punctual, CancelledForReason, Over
<1> QED
  BY <1>1, <1>3, <1>4, <1>5, <1>6 DEF Inv, Threads

\* A step of one thread that leaves its transfers alone.
LEMMA OneThreadAlone ==
    ASSUME Inv, NEW e \in Endpoints, NEW t \in ThreadType,
           th' = [th EXCEPT ![e] = t], UNCHANGED <<test, main, ring>>,
           th[e].pc \notin {"suspended", "exited"}, t.pc # "suspended",
           Held(t, ring[e]), Reasoned(t), Over(th[e]) => Over(t)
    PROVE  Inv'
<1>1. ring[e] \in RingType /\ ring' = [ring EXCEPT ![e] = ring[e]]
  BY DEF Inv, WellFormed
<1> QED
  BY <1>1, OneThread

LEMMA AbortedIsCancelled == ASSUME Inv, test.aborted PROVE test.cancelled
BY DEF Inv, Watched

\* The facts every step of a thread begins with.
LEMMA OfThread ==
    ASSUME Inv, NEW e \in Endpoints
    PROVE  /\ test \in TestType
           /\ th[e] \in ThreadType /\ ring[e] \in RingType
           /\ th \in [Endpoints -> ThreadType] /\ ring \in [Endpoints -> RingType]
           /\ Held(th[e], ring[e]) /\ Reasoned(th[e])
           /\ BufferCount \in Nat \ {0} /\ Slots \subseteq Nat /\ 0 \in Slots
           /\ Retry \in Nat /\ mode \in Modes
           /\ \A i \in Slots : INC_ROLL(i) \in Slots
           /\ th[e].next \in Slots /\ th[e].wait \in Slots
           /\ \A i \in Slots : ring[e][i] \in SlotType
BY SlotsAreNumbers DEF Inv, WellFormed, Threads, ThreadType, RingType

LEMMA AbortIsOfRing ==
    ASSUME Inv, NEW e \in Endpoints
    PROVE  /\ Aborting(e) \in RingType
           /\ \A i \in Slots : /\ Aborting(e)[i].context = ring[e][i].context
                               /\ Aborting(e)[i].inUse = ring[e][i].inUse
                               /\ Aborting(e)[i].io \in InDriver <=> ring[e][i].io \in InDriver
                               /\ Aborting(e)[i].io = "idle" <=> ring[e][i].io = "idle"
           /\ \A t \in ThreadType : Held(t, Aborting(e)) <=> Held(t, ring[e])
<1>1. \A i \in Slots : ring[e][i] \in SlotType
  BY OfThread
<1>2. \A i \in Slots :
        Aborting(e)[i] = IF ring[e][i].io = "pending" THEN [ring[e][i] EXCEPT !.io = "aborting"]
                         ELSE ring[e][i]
  BY DEF Aborting
<1>3. \A i \in Slots :
        /\ Aborting(e)[i] \in SlotType
        /\ Aborting(e)[i].context = ring[e][i].context
        /\ Aborting(e)[i].inUse = ring[e][i].inUse
        /\ Aborting(e)[i].io \in InDriver <=> ring[e][i].io \in InDriver
        /\ Aborting(e)[i].io = "idle" <=> ring[e][i].io = "idle"
  BY <1>1, <1>2 DEF SlotType, Ios, InDriver
<1>4. Aborting(e) \in RingType
  BY <1>3 DEF Aborting, RingType
<1>5. \A t \in ThreadType : Held(t, Aborting(e)) <=> Held(t, ring[e])
  BY <1>3, OfThread DEF Held, HeldSlot
<1> QED
  BY <1>3, <1>4, <1>5

LEMMA ThreadStartsKeeps == ASSUME Inv, NEW e \in Endpoints, ThreadStarts(e) PROVE Inv'
<1> DEFINE t == [th[e] EXCEPT !.running = TRUE, !.pc = "loop"]
<1>1. t \in ThreadType /\ th' = [th EXCEPT ![e] = t]
  BY OfThread DEF ThreadStarts, ThreadType, Pcs
<1>2. t.pc = "loop" /\ t.running /\ Over(t) = Over(th[e])
  BY OfThread DEF ThreadType, Over
<1>3. th[e].pc = "resumed" /\ UNCHANGED <<test, main, ring>>
  BY DEF ThreadStarts
<1>4. Held(t, ring[e])
  BY <1>3, OfThread DEF Held, HeldSlot, Unstarted, Waiting, Cleaning, Modes
<1>5. Reasoned(t)
  BY <1>2, <1>3, OfThread DEF Reasoned, Stopped, Unstarted
<1> HIDE DEF t
<1> QED
  BY <1>1, <1>2, <1>3, <1>4, <1>5, OneThreadAlone

(* A thread between two transfers: nothing is held by its place.           *)
Between == {"loop", "submit", "timeout", "error", "reset"}

\* A thread between two transfers goes on, or stops for a reason.
LEMMA BetweenTransfers ==
    ASSUME Inv, NEW e \in Endpoints, NEW t \in ThreadType, NEW q \in RingType,
           th' = [th EXCEPT ![e] = t], ring' = [ring EXCEPT ![e] = q],
           UNCHANGED <<test, main>>,
           th[e].pc \in Between, t.pc \in Between \cup {"stop"}, t.running = th[e].running,
           q \in {ring[e], Aborting(e)},
           t.pc = "stop" => t.i = 0 /\ (test.cancelled \/ Over(t)),
           t.pc # "stop" => ~Over(t)
    PROVE  Inv'
<1>1. /\ Held(th[e], ring[e]) /\ Reasoned(th[e]) /\ Slots \subseteq Nat
      /\ mode \in Modes /\ Held(t, Aborting(e)) <=> Held(t, ring[e])
  BY OfThread, AbortIsOfRing
<1>2. ~Over(th[e]) /\ th[e].running
  BY <1>1 DEF Reasoned, Stopped, Between, Unstarted
<1>3. Reasoned(t)
  BY <1>2 DEF Reasoned, Stopped, Between, Unstarted
<1>4. Held(t, ring[e])
  BY <1>1 DEF Held, HeldSlot, Between, Unstarted, Waiting, Cleaning, Modes
<1>5. Held(t, q)
  BY <1>1, <1>4
<1>6. th[e].pc \notin {"suspended", "exited"} /\ t.pc # "suspended"
  BY DEF Between
<1> QED
  BY <1>2, <1>3, <1>5, <1>6, OneThread

LEMMA LoopKeeps == ASSUME Inv, NEW e \in Endpoints, Loop(e) PROVE Inv'
<1> DEFINE pc == IF test.cancelled THEN "stop" ELSE "submit"
<1>1. th[e] \in ThreadType /\ th \in [Endpoints -> ThreadType] /\ ring[e] \in RingType
      /\ ring \in [Endpoints -> RingType] /\ Reasoned(th[e])
  BY OfThread
<1>2. PICK t : t = [th[e] EXCEPT !.pc = pc, !.i = 0]
  OBVIOUS
<1>3. /\ t \in ThreadType /\ t.pc = pc /\ t.i = 0 /\ t.running = th[e].running
      /\ Over(t) <=> Over(th[e])
  BY <1>1, <1>2 DEF ThreadType, Pcs, Over
<1>4. /\ th[e].pc = "loop" /\ UNCHANGED <<test, main>>
      /\ th' = [th EXCEPT ![e] = t] /\ ring' = [ring EXCEPT ![e] = ring[e]]
  BY <1>1, <1>2 DEF Loop
<1>5. ~Over(th[e])
  BY <1>1, <1>4 DEF Reasoned, Stopped
<1> QED
  BY <1>1, <1>3, <1>4, <1>5, BetweenTransfers DEF Between

LEMMA GoesOn ==
    ASSUME Inv, NEW e \in Endpoints, NEW pc \in Between, NEW q \in {ring[e], Aborting(e)},
           th[e].pc \in Between, Goto(e, pc), ring' = [ring EXCEPT ![e] = q],
           UNCHANGED <<test, main>>
    PROVE  Inv'
<1>1. /\ th[e] \in ThreadType /\ th \in [Endpoints -> ThreadType] /\ ring[e] \in RingType
      /\ Aborting(e) \in RingType /\ Reasoned(th[e])
  BY OfThread, AbortIsOfRing
<1>2. PICK t : t = [th[e] EXCEPT !.pc = pc]
  OBVIOUS
<1>3. /\ t \in ThreadType /\ t.pc = pc /\ t.running = th[e].running
      /\ Over(t) <=> Over(th[e])
  BY <1>1, <1>2 DEF ThreadType, Pcs, Over, Between
<1>4. th' = [th EXCEPT ![e] = t] /\ q \in RingType
  BY <1>1, <1>2 DEF Goto
<1>5. ~Over(th[e]) /\ pc # "stop"
  BY <1>1 DEF Reasoned, Stopped, Between
<1> QED
  BY <1>3, <1>4, <1>5, BetweenTransfers

LEMMA WaitingFails ==
    ASSUME Inv, NEW e \in Endpoints, ReapFails(e) \/ ReapTimesOut(e) \/ ResetEndpoint(e)
    PROVE  Inv'
<1>1. ring \in [Endpoints -> RingType]
  BY OfThread
<1>2. ring = [ring EXCEPT ![e] = ring[e]]
  BY <1>1
<1>3. CASE ReapFails(e)
  <2>1. PICK pc \in {"error", "timeout"} : Goto(e, pc)
    BY <1>3 DEF ReapFails
  <2>2. th[e].pc = "submit" /\ UNCHANGED <<test, main, ring>>
    BY <1>3 DEF ReapFails, Full
  <2> QED
    BY <1>2, <2>1, <2>2, GoesOn DEF Between
<1>4. CASE ReapTimesOut(e)
  BY <1>2, <1>4, GoesOn DEF ReapTimesOut, Full, Between
<1>5. CASE ResetEndpoint(e)
  BY <1>2, <1>5, GoesOn DEF ResetEndpoint, usb_resetep, Between
<1> QED
  BY <1>3, <1>4, <1>5

LEMMA TimeoutKeeps == ASSUME Inv, NEW e \in Endpoints, Timeout(e) PROVE Inv'
<1>1. /\ th[e] \in ThreadType /\ th \in [Endpoints -> ThreadType] /\ ring[e] \in RingType
      /\ ring \in [Endpoints -> RingType] /\ Reasoned(th[e]) /\ Retry \in Nat
      /\ test \in TestType
  BY OfThread
<1>2. /\ th[e].pc = "timeout" /\ UNCHANGED <<test, main>>
      /\ ring' = [ring EXCEPT ![e] = ring[e]]
  BY <1>1 DEF Timeout
<1>3. ~Over(th[e])
  BY <1>1, <1>2 DEF Reasoned, Stopped
<1>4. CASE test.aborted
  <2>1. PICK t : t = [th[e] EXCEPT !.pc = "stop", !.i = 0]
    OBVIOUS
  <2>2. t \in ThreadType /\ t.pc = "stop" /\ t.i = 0 /\ t.running = th[e].running
    BY <1>1, <2>1 DEF ThreadType, Pcs
  <2>3. th' = [th EXCEPT ![e] = t]
    BY <1>1, <1>4, <2>1 DEF Timeout
  <2>4. test.cancelled
    BY <1>4, AbortedIsCancelled
  <2>5. t.pc \in Between \cup {"stop"} /\ th[e].pc \in Between
    BY <1>2, <2>2 DEF Between
  <2> QED
    BY <1>1, <1>2, <2>2, <2>3, <2>4, <2>5, BetweenTransfers
<1>5. CASE ~test.aborted
  <2> DEFINE n == th[e].timeouts + 1
  <2>1. n \in Nat
    BY <1>1 DEF ThreadType
  <2>2. PICK t : t = [th[e] EXCEPT !.pc = "counted", !.timeouts = n, !.i = 0]
    OBVIOUS
  <2>3. th' = [th EXCEPT ![e] = t]
    BY <1>1, <1>5, <2>2 DEF Timeout
  <2> HIDE DEF n
  <2>4. /\ t \in ThreadType /\ t.pc = "counted" /\ t.running = th[e].running
        /\ t.errors = th[e].errors /\ t.cleared = th[e].cleared /\ t.i = 0
    BY <1>1, <2>1, <2>2 DEF ThreadType, Pcs
  <2>5. Held(th[e], ring[e]) /\ mode \in Modes
    BY OfThread
  <2>6. Held(t, ring[e])
    BY <1>2, <2>4, <2>5 DEF Held, HeldSlot, Unstarted, Waiting, Cleaning, Modes
  <2>7. Reasoned(t)
    BY <1>1, <1>2, <1>3, <2>4 DEF Reasoned, Stopped, Over, Unstarted
  <2> QED
    BY <1>1, <1>2, <1>3, <2>3, <2>4, <2>6, <2>7, OneThread
<1> QED
  BY <1>4, <1>5

LEMMA TimeoutCountedKeeps ==
    ASSUME Inv, NEW e \in Endpoints, TimeoutCounted(e)
    PROVE  Inv'
<1>1. /\ th[e] \in ThreadType /\ th \in [Endpoints -> ThreadType] /\ Retry \in Nat
      /\ Held(th[e], ring[e]) /\ Reasoned(th[e]) /\ mode \in Modes /\ Slots \subseteq Nat
      /\ ring = [ring EXCEPT ![e] = ring[e]]
  BY OfThread DEF Inv, WellFormed
<1>2. th[e].pc = "counted" /\ UNCHANGED <<test, main, ring>>
  BY DEF TimeoutCounted
<1> DEFINE n == th[e].timeouts
           pc == Count(n)
<1>3. n \in Nat /\ pc \in {"stop", "loop"} /\ (pc = "stop" <=> n > Retry)
  BY <1>1 DEF ThreadType, Count
<1>4. PICK t : t = [th[e] EXCEPT !.pc = pc]
  OBVIOUS
<1>5. th' = [th EXCEPT ![e] = t]
  BY <1>1, <1>4 DEF TimeoutCounted, Goto
<1> HIDE DEF pc
<1>6. /\ t \in ThreadType /\ t.pc = pc /\ t.running = th[e].running /\ t.i = th[e].i
      /\ t.timeouts = n /\ t.errors = th[e].errors /\ t.cleared = th[e].cleared
  BY <1>1, <1>3, <1>4 DEF ThreadType, Pcs
<1>7. ~(th[e].errors > Retry) /\ ~th[e].cleared /\ th[e].running
  BY <1>1, <1>2 DEF Reasoned, Unstarted
<1>8. (pc = "stop" <=> Over(t)) /\ (Over(th[e]) => Over(t))
  BY <1>3, <1>6, <1>7 DEF Over
<1>9. Reasoned(t)
  BY <1>3, <1>6, <1>7, <1>8 DEF Reasoned, Stopped, Unstarted
<1>10. t.i = 0
  BY <1>1, <1>2, <1>6 DEF Reasoned
<1>11. Held(t, ring[e])
  BY <1>1, <1>2, <1>3, <1>6, <1>10 DEF Held, HeldSlot, Unstarted, Waiting, Cleaning, Modes
<1> QED
  BY <1>1, <1>2, <1>3, <1>5, <1>6, <1>8, <1>9, <1>11, OneThreadAlone

LEMMA ErrorKeeps ==
    ASSUME Inv, Smooth, NEW e \in Endpoints, Error(e)
    PROVE  Inv'
<1>1. /\ th[e] \in ThreadType /\ th \in [Endpoints -> ThreadType] /\ ring[e] \in RingType
      /\ ring \in [Endpoints -> RingType] /\ Reasoned(th[e]) /\ Retry \in Nat
      /\ test \in TestType /\ Aborting(e) \in RingType
  BY OfThread, AbortIsOfRing
<1>2. th[e].pc = "error" /\ UNCHANGED <<test, main>>
  BY DEF Error
<1>3. ~Over(th[e]) /\ th[e].pc \in Between
  BY <1>1, <1>2 DEF Reasoned, Stopped, Between
<1>4. CASE test.aborted
  <2>1. PICK t : t = [th[e] EXCEPT !.pc = "stop", !.i = 0]
    OBVIOUS
  <2>2. t \in ThreadType /\ t.pc = "stop" /\ t.i = 0 /\ t.running = th[e].running
    BY <1>1, <2>1 DEF ThreadType, Pcs
  <2>3. th' = [th EXCEPT ![e] = t] /\ ring' = [ring EXCEPT ![e] = ring[e]]
    BY <1>1, <1>4, <2>1 DEF Error
  <2>4. test.cancelled
    BY <1>4, AbortedIsCancelled
  <2> QED
    BY <1>1, <1>2, <1>3, <2>2, <2>3, <2>4, BetweenTransfers
<1>5. CASE ~test.aborted
  <2> DEFINE n == th[e].errors + 1
             pc == Count(n)
  <2>1. n \in Nat /\ pc \in {"stop", "loop"} /\ (pc = "stop" <=> n > Retry)
    BY <1>1 DEF ThreadType, Count
  <2>2. PICK t : t = [th[e] EXCEPT !.pc = pc, !.errors = n, !.i = 0]
    OBVIOUS
  <2>3. th' = [th EXCEPT ![e] = t]
    BY <1>1, <1>5, <2>2 DEF Error
  <2>4. PICK q \in {ring[e], Aborting(e)} : ring' = [ring EXCEPT ![e] = q]
    BY <1>1, <1>5 DEF Error, usb_resetep
  <2> HIDE DEF n, pc
  <2>5. /\ t \in ThreadType /\ t.pc = pc /\ t.i = 0 /\ t.running = th[e].running
        /\ t.errors = n /\ t.timeouts = th[e].timeouts /\ t.cleared = th[e].cleared
    BY <1>1, <2>1, <2>2 DEF ThreadType, Pcs
  <2>6. (pc = "stop" => Over(t)) /\ (pc # "stop" => ~Over(t))
    BY <1>3, <2>1, <2>5 DEF Over
  <2>7. q \in RingType /\ t.pc \in Between \cup {"stop"}
    BY <1>1, <2>1, <2>4, <2>5 DEF Between
  <2> QED
    BY <1>2, <1>3, <2>3, <2>4, <2>5, <2>6, <2>7, BetweenTransfers
<1> QED
  BY <1>4, <1>5

(***************************************************************************)
(* Transfers of a ring.                                                    *)
(***************************************************************************)
\* One slot of a thread's ring changes.
LEMMA SlotChanges ==
    ASSUME Inv, NEW e \in Endpoints, NEW i \in Slots, NEW s \in SlotType
    PROVE  \E q \in RingType :
             /\ q = [ring[e] EXCEPT ![i] = s]
             /\ \A j \in Slots : q[j] = IF j = i THEN s ELSE ring[e][j]
<1>1. ring[e] \in RingType
  BY OfThread
<1>2. PICK q : q = [ring[e] EXCEPT ![i] = s]
  OBVIOUS
<1>3. q \in RingType
  BY <1>1, <1>2 DEF RingType
<1>4. \A j \in Slots : q[j] = IF j = i THEN s ELSE ring[e][j]
  BY <1>1, <1>2 DEF RingType
<1> QED
  BY <1>2, <1>3, <1>4

LEMMA SubmitAsyncKeeps == ASSUME Inv, NEW e \in Endpoints, SubmitAsync(e) PROVE Inv'
<1>1. /\ th[e] \in ThreadType /\ th \in [Endpoints -> ThreadType]
      /\ Held(th[e], ring[e]) /\ Reasoned(th[e]) /\ th[e].next \in Slots
      /\ INC_ROLL(th[e].next) \in Slots
  BY OfThread
<1>2. th[e].pc = "submit" /\ mode = "async" /\ UNCHANGED <<test, main>>
  BY DEF SubmitAsync
<1>3. PICK s : s = [context |-> TRUE, inUse |-> TRUE, io |-> "pending"]
  OBVIOUS
<1>4. s \in SlotType /\ ring' = [ring EXCEPT ![e] = [ring[e] EXCEPT ![th[e].next] = s]]
  BY <1>3 DEF SubmitAsync, Submitted, SlotType, Ios, InDriver
<1>5. PICK q \in RingType :
        /\ q = [ring[e] EXCEPT ![th[e].next] = s]
        /\ \A j \in Slots : q[j] = IF j = th[e].next THEN s ELSE ring[e][j]
  BY <1>1, <1>4, SlotChanges
<1>6. ring' = [ring EXCEPT ![e] = q]
  BY <1>4, <1>5
<1> DEFINE n == INC_ROLL(th[e].next)
           k == th[e].outstanding + 1
<1>7. PICK t : t = [th[e] EXCEPT !.outstanding = k, !.next = n]
  OBVIOUS
<1>8. th' = [th EXCEPT ![e] = t]
  BY <1>1, <1>7 DEF SubmitAsync
<1>9. n \in Slots /\ k \in Int
  BY <1>1 DEF ThreadType
<1> HIDE DEF n, k
<1>10. /\ t \in ThreadType /\ t.pc = "submit" /\ t.running = th[e].running
       /\ t.timeouts = th[e].timeouts /\ t.errors = th[e].errors
       /\ t.cleared = th[e].cleared
  BY <1>1, <1>2, <1>7, <1>9 DEF ThreadType
<1>11. Held(t, q)
  BY <1>1, <1>2, <1>3, <1>5, <1>10 DEF Held, HeldSlot, Unstarted, Cleaning
<1>12. Reasoned(t) /\ (Over(th[e]) => Over(t))
  BY <1>1, <1>2, <1>10 DEF Reasoned, Stopped, Unstarted, Over
<1> QED
  BY <1>2, <1>5, <1>6, <1>8, <1>10, <1>11, <1>12, OneThread

LEMMA SubmitFailsKeeps == ASSUME Inv, NEW e \in Endpoints, SubmitFails(e) PROVE Inv'
<1>1. /\ th[e] \in ThreadType /\ th \in [Endpoints -> ThreadType] /\ ring[e] \in RingType
      /\ ring \in [Endpoints -> RingType]
      /\ Held(th[e], ring[e]) /\ Reasoned(th[e]) /\ th[e].next \in Slots
      /\ ring[e][th[e].next] \in SlotType /\ mode \in Modes
  BY OfThread
<1>2. th[e].pc = "submit" /\ UNCHANGED <<test, main>>
  BY DEF SubmitFails
<1>3. PICK made \in BOOLEAN :
        ring' = [ring EXCEPT ![e][th[e].next].context = mode = "async" /\ (@ \/ made)]
  BY DEF SubmitFails
<1>4. PICK s : s = [ring[e][th[e].next] EXCEPT !.context = mode = "async" /\ (@ \/ made)]
  OBVIOUS
<1>5. /\ s \in SlotType /\ s.io = ring[e][th[e].next].io
      /\ s.inUse = ring[e][th[e].next].inUse
      /\ mode = "async" /\ ring[e][th[e].next].context => s.context
  BY <1>1, <1>4 DEF SlotType
<1>6. PICK q \in RingType :
        /\ q = [ring[e] EXCEPT ![th[e].next] = s]
        /\ \A j \in Slots : q[j] = IF j = th[e].next THEN s ELSE ring[e][j]
  BY <1>1, <1>5, SlotChanges
<1>7. ring' = [ring EXCEPT ![e] = q]
  BY <1>1, <1>3, <1>4, <1>6 DEF RingType
<1>8. PICK t : t = [th[e] EXCEPT !.pc = "error"]
  OBVIOUS
<1>9. /\ t \in ThreadType /\ t.pc = "error" /\ t.running = th[e].running
      /\ Over(t) <=> Over(th[e])
  BY <1>1, <1>8 DEF ThreadType, Over, Pcs
<1>10. th' = [th EXCEPT ![e] = t]
  BY <1>1, <1>8 DEF SubmitFails, Goto
<1>11. Held(t, q)
  BY <1>1, <1>2, <1>5, <1>6, <1>9 DEF Held, HeldSlot, Unstarted, Cleaning, Waiting, Modes
<1>12. Reasoned(t)
  BY <1>1, <1>2, <1>9 DEF Reasoned, Stopped, Unstarted
<1> QED
  BY <1>2, <1>6, <1>7, <1>9, <1>10, <1>11, <1>12, OneThread

\* What becomes of a thread whose transfer is back.
LEMMA TransferredIsOfThread ==
    ASSUME Inv, NEW t \in ThreadType, t.pc \in {"submit", "sync"}, ~Over(t), t.running,
           NEW io \in Completed \cup Failed
    PROVE  LET u == Transferred(t, io) IN
           /\ u \in ThreadType /\ u.pc \in Between \cup {"stop"}
           /\ u.running = t.running /\ Reasoned(u)
           /\ u.pc = "stop" => u.i = 0
<1>1. Retry \in Nat
  BY SlotsAreNumbers DEF Inv, WellFormed
<1>2. CASE io = "full"
  <2>1. PICK u : u = [t EXCEPT !.pc = "loop", !.errors = 0, !.timeouts = 0]
    OBVIOUS
  <2>2. /\ u \in ThreadType /\ u.pc = "loop" /\ u.running = t.running /\ u.errors = 0
        /\ u.timeouts = 0 /\ u.cleared = t.cleared
    BY <2>1 DEF ThreadType, Pcs
  <2>3. Transferred(t, io) = u
    BY <1>2, <2>1 DEF Transferred
  <2>4. ~Over(u)
    BY <1>1, <2>2 DEF Over
  <2>5. Reasoned(u)
    BY <2>2, <2>4 DEF Reasoned, Stopped, Unstarted
  <2> QED
    BY <2>2, <2>3, <2>5 DEF Between
<1>3. CASE io = "short"
  <2>1. PICK u : u = [t EXCEPT !.pc = "loop"]
    OBVIOUS
  <2>2. /\ u \in ThreadType /\ u.pc = "loop" /\ u.running /\ u.errors = t.errors
        /\ u.timeouts = t.timeouts /\ u.cleared = t.cleared
    BY <2>1 DEF ThreadType, Pcs
  <2>3. Transferred(t, io) = u
    BY <1>3, <2>1 DEF Transferred
  <2> QED
    BY <1>1, <2>2, <2>3 DEF Reasoned, Stopped, Over, Unstarted, Between
<1>4. CASE io = "failed"
  <2>1. PICK u : u = [t EXCEPT !.pc = "error"]
    OBVIOUS
  <2>2. /\ u \in ThreadType /\ u.pc = "error" /\ u.running /\ u.errors = t.errors
        /\ u.timeouts = t.timeouts /\ u.cleared = t.cleared
    BY <2>1 DEF ThreadType, Pcs
  <2>3. Transferred(t, io) = u
    BY <1>4, <2>1 DEF Transferred
  <2> QED
    BY <1>1, <2>2, <2>3 DEF Reasoned, Stopped, Over, Unstarted, Between
<1>6. CASE io = "aborted"
  <2>1. PICK u : u = [t EXCEPT !.pc = "timeout"]
    OBVIOUS
  <2>2. /\ u \in ThreadType /\ u.pc = "timeout" /\ u.running /\ u.errors = t.errors
        /\ u.timeouts = t.timeouts /\ u.cleared = t.cleared
    BY <2>1 DEF ThreadType, Pcs
  <2>3. Transferred(t, io) = u
    BY <1>6, <2>1 DEF Transferred
  <2> QED
    BY <1>1, <2>2, <2>3 DEF Reasoned, Stopped, Over, Unstarted, Between
<1>5. CASE io = "zero"
  <2> DEFINE n == t.errors + 1
             pc == IF n > Retry THEN "stop" ELSE "reset"
  <2>1. PICK u : u = [t EXCEPT !.pc = pc, !.errors = n, !.i = 0]
    OBVIOUS
  <2>2. Transferred(t, io) = u
    BY <1>5, <2>1 DEF Transferred
  <2>3. n \in Nat /\ pc \in {"stop", "reset"} /\ (pc = "stop" <=> n > Retry)
    BY <1>1 DEF ThreadType
  <2> HIDE DEF n, pc
  <2>4. /\ u \in ThreadType /\ u.pc = pc /\ u.running /\ u.errors = n
        /\ u.timeouts = t.timeouts /\ u.cleared = t.cleared /\ u.i = 0
    BY <2>1, <2>3 DEF ThreadType, Pcs
  <2>5. /\ pc = "stop" => Over(u)
        /\ pc # "stop" => ~Over(u)
    BY <1>1, <2>3, <2>4 DEF Over
  <2>6. Reasoned(u)
    BY <2>3, <2>4, <2>5 DEF Reasoned, Stopped, Unstarted
  <2> QED
    BY <2>2, <2>3, <2>4, <2>6 DEF Between
<1> QED
  BY <1>2, <1>3, <1>4, <1>5, <1>6 DEF Completed, Failed

\* A thread whose transfer is back goes on.
LEMMA TransferIsBack ==
    ASSUME Inv, NEW e \in Endpoints, NEW t \in ThreadType, NEW q \in RingType,
           NEW io \in Completed \cup Failed,
           th[e].pc \in {"submit", "sync"}, th[e].pc = "submit" \/ mode = "sync",
           t.pc = th[e].pc, t.running = th[e].running, t.errors = th[e].errors,
           t.timeouts = th[e].timeouts, t.cleared = th[e].cleared,
           th' = [th EXCEPT ![e] = Transferred(t, io)], ring' = [ring EXCEPT ![e] = q],
           UNCHANGED <<test, main>>,
           \A j \in Slots :
             /\ q[j].inUse => mode = "async"
             /\ q[j].io \in InDriver => mode = "async" /\ q[j].context /\ q[j].inUse
    PROVE  Inv'
<1>1. Reasoned(th[e]) /\ Slots \subseteq Nat
  BY OfThread
<1>2. ~Over(th[e]) /\ th[e].running
  BY <1>1 DEF Reasoned, Stopped, Unstarted
<1>3. ~Over(t)
  BY <1>2 DEF Over
<1>4. PICK u : u = Transferred(t, io)
  OBVIOUS
<1>5. /\ u \in ThreadType /\ u.pc \in Between \cup {"stop"}
      /\ u.running = t.running /\ Reasoned(u)
      /\ u.pc = "stop" => u.i = 0
  BY <1>2, <1>3, <1>4, TransferredIsOfThread
<1>6. Held(u, q)
  BY <1>1, <1>5 DEF Held, HeldSlot, Unstarted, Cleaning, Between
<1>7. th[e].pc \notin {"suspended", "exited"} /\ u.pc # "suspended"
  BY <1>5 DEF Between
<1>8. th' = [th EXCEPT ![e] = u]
  BY <1>4
<1> QED
  BY <1>2, <1>5, <1>6, <1>7, <1>8, OneThread

LEMMA ReapKeeps == ASSUME Inv, NEW e \in Endpoints, Reap(e) PROVE Inv'
<1>1. /\ th[e] \in ThreadType /\ th \in [Endpoints -> ThreadType]
      /\ ring \in [Endpoints -> RingType] /\ ring[e] \in RingType
      /\ Held(th[e], ring[e]) /\ th[e].wait \in Slots
      /\ ring[e][th[e].wait] \in SlotType
      /\ INC_ROLL(th[e].wait) \in Slots
  BY OfThread
<1>2. /\ th[e].pc = "submit" /\ mode = "async" /\ UNCHANGED <<test, main>>
      /\ ring[e][th[e].wait].io \in Completed
  BY DEF Reap, Full
<1>3. PICK s : s = [ring[e][th[e].wait] EXCEPT !.inUse = FALSE, !.io = "idle"]
  OBVIOUS
<1>4. s \in SlotType /\ s.io = "idle"
  BY <1>1, <1>3 DEF SlotType, Ios
<1>5. PICK q \in RingType :
        /\ q = [ring[e] EXCEPT ![th[e].wait] = s]
        /\ \A j \in Slots : q[j] = IF j = th[e].wait THEN s ELSE ring[e][j]
  BY <1>1, <1>4, SlotChanges
<1>6. ring' = [ring EXCEPT ![e] = q]
  BY <1>3, <1>5 DEF Reap
<1> DEFINE n == INC_ROLL(th[e].wait)
           k == th[e].outstanding - 1
<1>7. PICK t : t = [th[e] EXCEPT !.outstanding = k, !.wait = n]
  OBVIOUS
<1>8. PICK io : io = Result(ring[e][th[e].wait].io)
  OBVIOUS
<1>9. io \in Completed \cup Failed
  BY <1>2, <1>8 DEF Result, Completed
<1>10. th' = [th EXCEPT ![e] = Transferred(t, io)]
  BY <1>7, <1>8 DEF Reap
<1>11. n \in Slots /\ k \in Int
  BY <1>1 DEF ThreadType
<1> HIDE DEF n, k
<1>12. /\ t \in ThreadType /\ t.pc = th[e].pc /\ t.running = th[e].running
       /\ t.timeouts = th[e].timeouts /\ t.errors = th[e].errors
       /\ t.cleared = th[e].cleared
  BY <1>1, <1>7, <1>11 DEF ThreadType
<1>13. \A j \in Slots : /\ q[j].inUse => mode = "async"
                        /\ q[j].io \in InDriver => mode = "async" /\ q[j].context /\ q[j].inUse
  BY <1>1, <1>2, <1>4, <1>5 DEF Held, HeldSlot, InDriver
<1> QED
  BY <1>2, <1>5, <1>6, <1>9, <1>10, <1>12, <1>13, TransferIsBack

(***************************************************************************)
(* Synchronous transfers.                                                  *)
(***************************************************************************)
LEMMA SubmitSyncKeeps == ASSUME Inv, NEW e \in Endpoints, SubmitSync(e) PROVE Inv'
<1>1. /\ th[e] \in ThreadType /\ th \in [Endpoints -> ThreadType]
      /\ Held(th[e], ring[e]) /\ Reasoned(th[e]) /\ 0 \in Slots
  BY OfThread
<1>2. th[e].pc = "submit" /\ mode = "sync" /\ UNCHANGED <<test, main>>
  BY DEF SubmitSync
<1>3. PICK s : s = [context |-> TRUE, inUse |-> FALSE, io |-> "pending"]
  OBVIOUS
<1>4. s \in SlotType /\ ring' = [ring EXCEPT ![e] = [ring[e] EXCEPT ![0] = s]]
  BY <1>3 DEF SubmitSync, Submitted, SlotType, Ios, InDriver
<1>5. PICK q \in RingType :
        /\ q = [ring[e] EXCEPT ![0] = s]
        /\ \A j \in Slots : q[j] = IF j = 0 THEN s ELSE ring[e][j]
  BY <1>1, <1>4, SlotChanges
<1>6. ring' = [ring EXCEPT ![e] = q]
  BY <1>4, <1>5
<1> DEFINE n == th[e].i + 1
<1>7. PICK t : t = [th[e] EXCEPT !.pc = "sync", !.i = n]
  OBVIOUS
<1>8. th' = [th EXCEPT ![e] = t]
  BY <1>1, <1>7 DEF SubmitSync
<1>9. n \in Nat
  BY <1>1 DEF ThreadType
<1> HIDE DEF n
<1>10. /\ t \in ThreadType /\ t.pc = "sync" /\ t.running = th[e].running
       /\ t.timeouts = th[e].timeouts /\ t.errors = th[e].errors
       /\ t.cleared = th[e].cleared
  BY <1>1, <1>7, <1>9 DEF ThreadType, Pcs
<1>11. Held(t, q)
  BY <1>1, <1>2, <1>3, <1>5, <1>10 DEF Held, HeldSlot, Waiting
<1>12. Reasoned(t) /\ (Over(th[e]) => Over(t))
  BY <1>1, <1>2, <1>10 DEF Reasoned, Stopped, Unstarted, Over
<1> QED
  BY <1>2, <1>5, <1>6, <1>8, <1>10, <1>11, <1>12, OneThread

\* A slot whose transfer is not in the driver is freed.
LEMMA FreedIsSlot ==
    ASSUME NEW s \in SlotType, s.io \notin InDriver
    PROVE  /\ Freed(s) \in SlotType /\ Freed(s).io \notin InDriver
           /\ Freed(s).inUse = s.inUse
<1>1. Freed(s) = [s EXCEPT !.context = FALSE, !.io = "idle"]
  BY DEF Freed
<1> QED
  BY <1>1 DEF SlotType, Ios, InDriver

\* The one transfer of a synchronous thread is not in the driver any more.
LEMMA NothingHeld ==
    ASSUME Inv, NEW e \in Endpoints, mode = "sync", ring[e][0].io \notin InDriver
    PROVE  /\ \A j \in Slots : ring[e][j].io \notin InDriver
           /\ \E q \in RingType :
                /\ q = [ring[e] EXCEPT ![0] = Freed(ring[e][0])]
                /\ \A j \in Slots : q[j].io \notin InDriver /\ ~q[j].inUse
<1>1. Held(th[e], ring[e]) /\ 0 \in Slots /\ ring[e][0] \in SlotType
  BY OfThread
<1>2. \A j \in Slots : ring[e][j].io \notin InDriver /\ ~ring[e][j].inUse
  BY <1>1 DEF Held, HeldSlot
<1>3. PICK s : s = Freed(ring[e][0])
  OBVIOUS
<1>4. s \in SlotType /\ s.io \notin InDriver /\ ~s.inUse
  BY <1>1, <1>2, <1>3, FreedIsSlot
<1>5. PICK q \in RingType :
        /\ q = [ring[e] EXCEPT ![0] = s]
        /\ \A j \in Slots : q[j] = IF j = 0 THEN s ELSE ring[e][j]
  BY <1>1, <1>4, SlotChanges
<1>6. \A j \in Slots : q[j].io \notin InDriver /\ ~q[j].inUse
  BY <1>2, <1>4, <1>5
<1> QED
  BY <1>2, <1>3, <1>5, <1>6

LEMMA SyncEndsKeeps == ASSUME Inv, NEW e \in Endpoints, SyncEnds(e) PROVE Inv'
<1>1. /\ th[e] \in ThreadType /\ th \in [Endpoints -> ThreadType]
      /\ ring \in [Endpoints -> RingType] /\ ring[e] \in RingType
      /\ Held(th[e], ring[e]) /\ Reasoned(th[e]) /\ mode \in Modes /\ 0 \in Slots
      /\ ring[e][0] \in SlotType
  BY OfThread
<1>2. /\ th[e].pc = "sync" /\ ring[e][0].io \notin InDriver /\ UNCHANGED <<test, main>>
  BY DEF SyncEnds
<1>3. mode = "sync" /\ ring[e][0].io # "idle"
  BY <1>1, <1>2 DEF Held
<1>4. CASE ring[e][0].io = "full" /\ th[e].i < Chunks
  <2>1. PICK t : t = [th[e] EXCEPT !.pc = "submit"]
    OBVIOUS
  <2>2. th' = [th EXCEPT ![e] = t] /\ UNCHANGED ring
    BY <1>1, <1>4, <2>1 DEF SyncEnds, Goto
  <2>3. /\ t \in ThreadType /\ t.pc = "submit" /\ t.running = th[e].running
        /\ t.timeouts = th[e].timeouts /\ t.errors = th[e].errors
        /\ t.cleared = th[e].cleared
    BY <1>1, <2>1 DEF ThreadType, Pcs
  <2>4. Held(t, ring[e])
    BY <1>1, <1>2, <2>3 DEF Held, HeldSlot, Unstarted, Cleaning
  <2>5. Reasoned(t) /\ (Over(th[e]) => Over(t))
    BY <1>1, <1>2, <2>3 DEF Reasoned, Stopped, Unstarted, Over
  <2> QED
    BY <1>2, <2>2, <2>3, <2>4, <2>5, OneThreadAlone
<1>5. CASE ~(ring[e][0].io = "full" /\ th[e].i < Chunks)
  <2> DEFINE io == Result(IF ring[e][0].io = "zero" /\ th[e].i > 1 THEN "short"
                          ELSE ring[e][0].io)
  <2>1. /\ ring' = [ring EXCEPT ![e] = [ring[e] EXCEPT ![0] = Freed(ring[e][0])]]
        /\ th' = [th EXCEPT ![e] = Transferred(th[e], io)]
    BY <1>5 DEF SyncEnds
  <2>2. PICK q \in RingType :
          /\ q = [ring[e] EXCEPT ![0] = Freed(ring[e][0])]
          /\ \A j \in Slots : q[j].io \notin InDriver /\ ~q[j].inUse
    BY <1>1, <1>2, <1>3, NothingHeld
  <2>3. ring' = [ring EXCEPT ![e] = q]
    BY <2>1, <2>2
  <2>4. io \in Completed \cup Failed
    BY <1>1, <1>2, <1>3 DEF Result, Completed, Failed, SlotType, Ios, InDriver
  <2> HIDE DEF io
  <2> QED
    BY <1>1, <1>2, <1>3, <2>1, <2>2, <2>3, <2>4, TransferIsBack
<1> QED
  BY <1>4, <1>5

LEMMA SyncTimesOutKeeps ==
    ASSUME Inv, Smooth, NEW e \in Endpoints, SyncTimesOut(e)
    PROVE  Inv'
<1>1. /\ th[e] \in ThreadType /\ th \in [Endpoints -> ThreadType]
      /\ Held(th[e], ring[e]) /\ Reasoned(th[e]) /\ Aborting(e) \in RingType
      /\ \A t \in ThreadType : Held(t, Aborting(e)) <=> Held(t, ring[e])
  BY OfThread, AbortIsOfRing
<1>2. th[e].pc = "sync" /\ mode = "sync" /\ UNCHANGED <<test, main>>
  BY <1>1 DEF SyncTimesOut, Held
<1>3. AbortMaySucceed = {TRUE}
  BY DEF AbortMaySucceed, Smooth
<1>4. PICK t : t = [th[e] EXCEPT !.pc = "drain"]
  OBVIOUS
<1>5. th' = [th EXCEPT ![e] = t] /\ ring' = [ring EXCEPT ![e] = Aborting(e)]
  BY <1>1, <1>3, <1>4 DEF SyncTimesOut, Goto
<1>6. /\ t \in ThreadType /\ t.pc = "drain" /\ t.running = th[e].running
      /\ t.timeouts = th[e].timeouts /\ t.errors = th[e].errors
      /\ t.cleared = th[e].cleared
  BY <1>1, <1>4 DEF ThreadType, Pcs
<1>7. Held(t, ring[e])
  BY <1>1, <1>2, <1>6 DEF Held, HeldSlot, Waiting
<1>8. Reasoned(t) /\ (Over(th[e]) => Over(t))
  BY <1>1, <1>2, <1>6 DEF Reasoned, Stopped, Unstarted, Over
<1> QED
  BY <1>1, <1>2, <1>5, <1>6, <1>7, <1>8, OneThread

LEMMA SyncDrainedKeeps == ASSUME Inv, NEW e \in Endpoints, SyncDrained(e) PROVE Inv'
<1>1. /\ th[e] \in ThreadType /\ th \in [Endpoints -> ThreadType]
      /\ Held(th[e], ring[e]) /\ Reasoned(th[e])
  BY OfThread
<1>2. /\ th[e].pc = "drain" /\ mode = "sync" /\ ring[e][0].io \notin InDriver
      /\ UNCHANGED <<test, main>>
  BY DEF SyncDrained
<1>3. PICK q \in RingType :
        /\ q = [ring[e] EXCEPT ![0] = Freed(ring[e][0])]
        /\ \A j \in Slots : q[j].io \notin InDriver /\ ~q[j].inUse
  BY <1>2, NothingHeld
<1>4. PICK t : t = [th[e] EXCEPT !.pc = "timeout"]
  OBVIOUS
<1>5. th' = [th EXCEPT ![e] = t] /\ ring' = [ring EXCEPT ![e] = q]
  BY <1>1, <1>3, <1>4 DEF SyncDrained, Goto
<1>6. /\ t \in ThreadType /\ t.pc = "timeout" /\ t.running = th[e].running
      /\ t.timeouts = th[e].timeouts /\ t.errors = th[e].errors
      /\ t.cleared = th[e].cleared
  BY <1>1, <1>4 DEF ThreadType, Pcs
<1>7. Held(t, q)
  BY <1>3, <1>6 DEF Held, HeldSlot
<1>8. Reasoned(t) /\ (Over(th[e]) => Over(t))
  BY <1>1, <1>2, <1>6 DEF Reasoned, Stopped, Unstarted, Over
<1> QED
  BY <1>2, <1>3, <1>5, <1>6, <1>7, <1>8, OneThread

(***************************************************************************)
(* The end of a thread.                                                    *)
(***************************************************************************)
\* In a ring a thread that stops waits for the transfer it has come to.
LEMMA SlotOfRing ==
    ASSUME Inv, NEW e \in Endpoints, th[e].i < BufferCount
    PROVE  th[e].i \in Slots /\ ring[e][th[e].i] \in SlotType
<1>1. th[e] \in ThreadType /\ BufferCount \in Nat \ {0}
  BY OfThread
<1>2. th[e].i \in Slots
  BY <1>1 DEF ThreadType, Slots
<1> QED
  BY <1>2, OfThread

LEMMA CancelSlotKeeps ==
    ASSUME Inv, Smooth, NEW e \in Endpoints, CancelSlot(e)
    PROVE  Inv'
<1>1. /\ th[e] \in ThreadType /\ th \in [Endpoints -> ThreadType]
      /\ Held(th[e], ring[e]) /\ Reasoned(th[e]) /\ Aborting(e) \in RingType
      /\ \A t \in ThreadType : Held(t, Aborting(e)) <=> Held(t, ring[e])
  BY OfThread, AbortIsOfRing
<1>2. /\ th[e].pc = "stop" /\ UNCHANGED <<test, main>> /\ ring[e][th[e].i].inUse
      /\ th[e].i \in Slots
  BY SlotOfRing DEF CancelSlot
<1>3. AbortMaySucceed = {TRUE}
  BY DEF AbortMaySucceed, Smooth
<1>4. PICK t : t = [th[e] EXCEPT !.pc = "drain"]
  OBVIOUS
<1>5. th' = [th EXCEPT ![e] = t] /\ ring' = [ring EXCEPT ![e] = Aborting(e)]
  BY <1>1, <1>3, <1>4 DEF CancelSlot, Goto
<1>6. /\ t \in ThreadType /\ t.pc = "drain" /\ t.running = th[e].running /\ t.i = th[e].i
      /\ t.timeouts = th[e].timeouts /\ t.errors = th[e].errors
      /\ t.cleared = th[e].cleared
  BY <1>1, <1>4 DEF ThreadType, Pcs
<1>7. mode = "async"
  BY <1>1, <1>2 DEF Held, HeldSlot
<1>8. Held(t, ring[e])
  BY <1>1, <1>2, <1>6, <1>7 DEF Held, HeldSlot, Unstarted, Cleaning
<1>9. Reasoned(t) /\ (Over(th[e]) => Over(t))
  BY <1>1, <1>2, <1>6, <1>7 DEF Reasoned, Stopped, Unstarted, Over
<1> QED
  BY <1>1, <1>2, <1>5, <1>6, <1>8, <1>9, OneThread

LEMMA SlotDrainedKeeps == ASSUME Inv, NEW e \in Endpoints, SlotDrained(e) PROVE Inv'
<1>1. /\ th[e] \in ThreadType /\ th \in [Endpoints -> ThreadType] /\ ring[e] \in RingType
      /\ ring \in [Endpoints -> RingType] /\ Held(th[e], ring[e]) /\ Reasoned(th[e])
  BY OfThread
<1>2. /\ th[e].pc = "drain" /\ mode = "async" /\ UNCHANGED <<test, main>>
      /\ ring[e][th[e].i].io \notin InDriver
  BY DEF SlotDrained
<1>3. PICK q : q = [ring[e] EXCEPT ![th[e].i].inUse = FALSE]
  OBVIOUS
<1>4. /\ q \in RingType /\ ring' = [ring EXCEPT ![e] = q]
      /\ \A j \in Slots : /\ q[j].io = ring[e][j].io /\ q[j].context = ring[e][j].context
                          /\ j # th[e].i => q[j].inUse = ring[e][j].inUse
  BY <1>1, <1>3 DEF SlotDrained, RingType, SlotType
<1>5. PICK t : t = [th[e] EXCEPT !.pc = "stop"]
  OBVIOUS
<1>6. th' = [th EXCEPT ![e] = t]
  BY <1>1, <1>5 DEF SlotDrained, Goto
<1>7. /\ t \in ThreadType /\ t.pc = "stop" /\ t.running = th[e].running /\ t.i = th[e].i
      /\ t.timeouts = th[e].timeouts /\ t.errors = th[e].errors
      /\ t.cleared = th[e].cleared
  BY <1>1, <1>5 DEF ThreadType, Pcs
<1>8. Held(t, q)
  BY <1>1, <1>2, <1>4, <1>7 DEF Held, HeldSlot, Unstarted, Cleaning
<1>9. Reasoned(t) /\ (Over(th[e]) => Over(t))
  BY <1>1, <1>2, <1>7 DEF Reasoned, Stopped, Unstarted, Over
<1> QED
  BY <1>2, <1>4, <1>6, <1>7, <1>8, <1>9, OneThread

LEMMA FreeSlotKeeps == ASSUME Inv, NEW e \in Endpoints, FreeSlot(e) PROVE Inv'
<1>1. /\ th[e] \in ThreadType /\ th \in [Endpoints -> ThreadType]
      /\ Held(th[e], ring[e]) /\ Reasoned(th[e]) /\ mode \in Modes /\ Slots \subseteq Nat
  BY OfThread
<1>2. /\ th[e].pc = "stop" /\ UNCHANGED <<test, main>> /\ ~ring[e][th[e].i].inUse
      /\ th[e].i \in Slots /\ ring[e][th[e].i] \in SlotType
  BY SlotOfRing DEF FreeSlot
<1>3. ring[e][th[e].i].io \notin InDriver
  BY <1>1, <1>2 DEF Held, HeldSlot, Waiting, Modes
<1>4. PICK s : s = Freed(ring[e][th[e].i])
  OBVIOUS
<1>5. s \in SlotType /\ s.io \notin InDriver /\ ~s.inUse
  BY <1>2, <1>3, <1>4, FreedIsSlot
<1>6. PICK q \in RingType :
        /\ q = [ring[e] EXCEPT ![th[e].i] = s]
        /\ \A j \in Slots : q[j] = IF j = th[e].i THEN s ELSE ring[e][j]
  BY <1>2, <1>5, SlotChanges
<1>7. ring' = [ring EXCEPT ![e] = q]
  BY <1>4, <1>6 DEF FreeSlot
<1> DEFINE n == th[e].i + 1
<1>8. PICK t : t = [th[e] EXCEPT !.i = n]
  OBVIOUS
<1>9. th' = [th EXCEPT ![e] = t] /\ n \in Nat /\ n = th[e].i + 1 /\ th[e].i \in Nat
  BY <1>1, <1>8 DEF FreeSlot, ThreadType
<1> HIDE DEF n
<1>10. /\ t \in ThreadType /\ t.pc = "stop" /\ t.running = th[e].running /\ t.i = n
       /\ t.timeouts = th[e].timeouts /\ t.errors = th[e].errors
       /\ t.cleared = th[e].cleared
  BY <1>1, <1>2, <1>8, <1>9 DEF ThreadType
<1>11. \A j \in Slots : /\ j # th[e].i => q[j] = ring[e][j] /\ HeldSlot(th[e], ring[e][j], j)
                        /\ j # th[e].i /\ th[e].i <= j => t.i <= j
                        /\ j = th[e].i => q[j] = s
  <2> TAKE j \in Slots
  <2>1. j \in Nat
    BY <1>1
  <2>2. j # th[e].i /\ th[e].i <= j => t.i <= j
    BY <1>9, <1>10, <2>1
  <2>3. HeldSlot(th[e], ring[e][j], j)
    BY <1>1 DEF Held
  <2> QED
    BY <1>6, <2>2, <2>3
<1>12. Held(t, q)
  BY <1>2, <1>5, <1>10, <1>11 DEF Held, HeldSlot, Unstarted, Cleaning, Waiting
<1>13. Reasoned(t) /\ (Over(th[e]) => Over(t))
  BY <1>1, <1>2, <1>10 DEF Reasoned, Stopped, Unstarted, Over
<1> QED
  BY <1>2, <1>6, <1>7, <1>9, <1>10, <1>12, <1>13, OneThread

LEMMA ThreadEndsKeeps == ASSUME Inv, NEW e \in Endpoints, ThreadEnds(e) PROVE Inv'
<1>1. /\ th[e] \in ThreadType /\ th \in [Endpoints -> ThreadType]
      /\ Held(th[e], ring[e]) /\ Reasoned(th[e]) /\ mode \in Modes
      /\ BufferCount \in Nat
  BY OfThread
<1>2. /\ th[e].pc = "stop" /\ UNCHANGED <<test, main, ring>> /\ th[e].i = BufferCount
  BY DEF ThreadEnds
<1>3. PICK t : t = [th[e] EXCEPT !.running = FALSE, !.pc = "exited"]
  OBVIOUS
<1>4. th' = [th EXCEPT ![e] = t]
  BY <1>1, <1>3 DEF ThreadEnds
<1>5. /\ t \in ThreadType /\ t.pc = "exited" /\ ~t.running
      /\ t.timeouts = th[e].timeouts /\ t.errors = th[e].errors
      /\ t.cleared = th[e].cleared
  BY <1>1, <1>3 DEF ThreadType, Pcs
<1>6. \A i \in Slots : ~(BufferCount <= i)
  BY <1>1 DEF Slots
<1>7. \A i \in Slots : ring[e][i].io \notin InDriver
  BY <1>1, <1>2, <1>6 DEF Held, HeldSlot, Cleaning, Waiting
<1>8. Held(t, ring[e])
  BY <1>1, <1>5, <1>7 DEF Held, HeldSlot
<1>9. Reasoned(t) /\ (Over(th[e]) => Over(t))
  BY <1>1, <1>2, <1>5 DEF Reasoned, Stopped, Unstarted, Over
<1> QED
  BY <1>2, <1>4, <1>5, <1>8, <1>9, OneThreadAlone

(***************************************************************************)
(* The driver and the main thread.                                         *)
(***************************************************************************)
\* A transfer that ends is not in the driver any more.
LEMMA EndsKeeps ==
    ASSUME Inv, NEW e \in Endpoints, NEW k, NEW io \in Completed \cup Failed,
           Ends(e, k, io)
    PROVE  Inv'
<1> DEFINE i == wire[e][k]
<1>1. /\ ring[e] \in RingType /\ ring \in [Endpoints -> RingType]
      /\ Held(th[e], ring[e])
  BY OfThread
<1>2. /\ ring' = [ring EXCEPT ![e][i].io = io] /\ UNCHANGED <<test, main, th>>
  BY DEF Ends
<1> HIDE DEF i
<1>3. PICK q : q = [ring[e] EXCEPT ![i].io = io]
  OBVIOUS
<1>4. /\ q \in RingType /\ ring' = [ring EXCEPT ![e] = q]
      /\ \A j \in Slots : /\ q[j].inUse = ring[e][j].inUse
                          /\ q[j].context = ring[e][j].context
                          /\ q[j].io \in {ring[e][j].io, io}
  BY <1>1, <1>2, <1>3 DEF RingType, SlotType, Ios
<1>5. io \notin InDriver /\ io # "idle"
  BY DEF Completed, Failed, InDriver
<1>6. Held(th[e], q)
  BY <1>1, <1>4, <1>5, OfThread DEF Held, HeldSlot
<1>7. /\ Endpoints' = Endpoints /\ Slots' = Slots /\ Retry' = Retry /\ mode' = mode
      /\ ThreadType' = ThreadType /\ RingType' = RingType
  BY <1>2 DEF Endpoints, Slots, BufferCount, Retry, mode, ThreadType, RingType
<1>8. \A f \in Endpoints : ring'[f] = IF f = e THEN q ELSE ring[f]
  BY <1>1, <1>4
<1>9. ASSUME NEW f \in Endpoints
      PROVE  Held(th[f], ring[f])' /\ Reasoned(th[f])'
  <2>1. /\ Held(th[f], ring[f])' <=> Held(th[f], ring'[f])
        /\ Reasoned(th[f])' <=> Reasoned(th[f])
    BY <1>2, <1>7 DEF Held, HeldSlot, Reasoned, Stopped, Over
  <2> QED
    BY <1>6, <1>8, <1>9, <2>1 DEF Inv, Threads
<1>10. WellFormed' /\ Watched' /\ Punctual'
  BY <1>1, <1>2, <1>4, <1>7 DEF Inv, WellFormed, Watched, Punctual, CancelledForReason
<1> QED
  BY <1>7, <1>9, <1>10 DEF Inv, Threads

\* The threads' parameters and their transfers stay while the test does.
LEMMA MainKeepsThreads ==
    ASSUME Inv, test' \in TestType, Endpoints' = Endpoints, mode' = mode,
           BufferCount' = BufferCount, Retry' = Retry,
           test.cancelled => test'.cancelled,
           th' = th, ring' = ring, main' \in Mains
    PROVE  WellFormed' /\ Threads' /\ \A e \in Endpoints : Over(th[e])' <=> Over(th[e])
<1>1. Slots' = Slots /\ ThreadType' = ThreadType /\ RingType' = RingType
  BY DEF Slots, ThreadType, RingType
<1>2. WellFormed'
  BY <1>1 DEF Inv, WellFormed
<1>3. ASSUME NEW e \in Endpoints
      PROVE  Held(th[e], ring[e])' /\ Reasoned(th[e])'
  <2>1. Held(th[e], ring[e]) /\ Reasoned(th[e])
    BY OfThread
  <2> QED
    BY <1>1, <2>1 DEF Held, HeldSlot, Reasoned, Stopped, Over
<1> QED
  BY <1>2, <1>3 DEF Threads, Over

LEMMA ResumeKeeps == ASSUME Inv, ResumeThreads PROVE Inv'
<1>1. /\ Endpoints' = Endpoints /\ Slots' = Slots /\ Retry' = Retry /\ mode' = mode
      /\ ThreadType' = ThreadType /\ RingType' = RingType
  BY DEF ResumeThreads, Endpoints, Slots, BufferCount, Retry, mode, ThreadType, RingType
<1>2. UNCHANGED <<test, ring>> /\ main' = "running" /\ main = "ready"
  BY DEF ResumeThreads
<1>3. ASSUME NEW e \in Endpoints
      PROVE  /\ th'[e] \in ThreadType /\ th'[e].pc = "resumed"
             /\ Held(th'[e], ring[e]) /\ Reasoned(th'[e])
  <2>1. th[e] \in ThreadType /\ Held(th[e], ring[e]) /\ Reasoned(th[e])
        /\ th[e].pc = "suspended" /\ mode \in Modes
    BY <1>2, OfThread DEF Inv, Watched
  <2>2. PICK t : t = [th[e] EXCEPT !.pc = "resumed"]
    OBVIOUS
  <2>3. th'[e] = t
    BY <2>2 DEF ResumeThreads
  <2>4. /\ t \in ThreadType /\ t.pc = "resumed" /\ t.running = th[e].running
        /\ t.timeouts = th[e].timeouts /\ t.errors = th[e].errors
        /\ t.cleared = th[e].cleared
    BY <2>1, <2>2 DEF ThreadType, Pcs
  <2>5. Held(t, ring[e])
    BY <2>1, <2>4 DEF Held, HeldSlot, Unstarted, Waiting, Modes
  <2>6. Reasoned(t)
    BY <2>1, <2>4 DEF Reasoned, Stopped, Unstarted, Over
  <2> QED
    BY <2>3, <2>4, <2>5, <2>6
<1>4. WellFormed'
  <2>1. th' \in [Endpoints -> ThreadType]
    BY <1>3 DEF ResumeThreads
  <2> QED
    BY <1>1, <1>2, <2>1 DEF Inv, WellFormed, Mains
<1>5. Watched'
  BY <1>1, <1>2, <1>3 DEF Inv, Watched
<1>6. ASSUME NEW e \in Endpoints
      PROVE  Held(th[e], ring[e])' /\ Reasoned(th[e])'
  <2>1. /\ Held(th[e], ring[e])' <=> Held(th'[e], ring[e])
        /\ Reasoned(th[e])' <=> Reasoned(th'[e])
    BY <1>1, <1>2 DEF Held, HeldSlot, Reasoned, Stopped, Over
  <2> QED
    BY <1>3, <1>6, <2>1
<1>7. Punctual'
  BY <1>2 DEF Inv, Watched, Punctual, CancelledForReason
<1> QED
  BY <1>1, <1>4, <1>5, <1>6, <1>7 DEF Inv, Threads

LEMMA QuitKeeps == ASSUME Inv, QuitEarly PROVE Inv'
<1>1. /\ UNCHANGED <<test, th, ring>> /\ main = "ready" /\ main' = "close"
      /\ test \in TestType
  BY DEF QuitEarly, Inv, WellFormed
<1>2. /\ Endpoints' = Endpoints /\ mode' = mode /\ BufferCount' = BufferCount
      /\ Retry' = Retry
  BY <1>1 DEF Endpoints, mode, BufferCount, Retry
<1>3. WellFormed' /\ Threads' /\ \A e \in Endpoints : Over(th[e])' <=> Over(th[e])
  BY <1>1, <1>2, MainKeepsThreads DEF Mains
<1>4. Watched' /\ Punctual'
  BY <1>1, <1>2, <1>3 DEF Inv, Watched, Punctual, CancelledForReason, Over
<1> QED
  BY <1>3, <1>4 DEF Inv

LEMMA ResetStatusKeeps == ASSUME Inv, ResetRunningStatus PROVE Inv'
<1>1. /\ Endpoints' = Endpoints /\ Slots' = Slots /\ Retry' = Retry /\ mode' = mode
      /\ ThreadType' = ThreadType /\ RingType' = RingType
  BY DEF ResetRunningStatus, Endpoints, Slots, BufferCount, Retry, mode, ThreadType, RingType
<1>2. UNCHANGED <<test, ring, main>> /\ main = "running"
  BY DEF ResetRunningStatus
<1>3. ASSUME NEW e \in Endpoints
      PROVE  /\ th'[e] \in ThreadType /\ th'[e].pc = th[e].pc
             /\ Held(th'[e], ring[e]) /\ Reasoned(th'[e])
  <2>1. /\ th[e] \in ThreadType /\ Held(th[e], ring[e]) /\ Reasoned(th[e])
        /\ Retry \in Nat
    BY OfThread
  <2> DEFINE c == th[e].cleared \/ (th[e].timeouts > Retry /\ th[e].pc # "counted")
  <2>2. PICK t : t = [th[e] EXCEPT !.cleared = c, !.timeouts = 0]
    OBVIOUS
  <2>3. th'[e] = t
    BY <2>2 DEF ResetRunningStatus
  <2>4. c \in BOOLEAN
    OBVIOUS
  <2> HIDE DEF c
  <2>5. /\ t \in ThreadType /\ t.pc = th[e].pc /\ t.running = th[e].running
        /\ t.i = th[e].i /\ t.timeouts = 0 /\ t.errors = th[e].errors /\ t.cleared = c
    BY <2>1, <2>2, <2>4 DEF ThreadType
  <2>6. Held(t, ring[e])
    BY <2>1, <2>5 DEF Held, HeldSlot, Cleaning, Waiting
  <2>7. Over(t) <=> th[e].errors > Retry \/ c
    BY <2>1, <2>5 DEF Over
  <2>8. Over(th[e]) <=> th[e].timeouts > Retry \/ th[e].errors > Retry \/ th[e].cleared
    BY DEF Over
  <2>9. /\ Over(t) => Stopped(th[e])
        /\ Stopped(th[e]) => test.cancelled \/ Over(t)
        /\ th[e].pc = "counted" => ~(th[e].errors > Retry) /\ ~c /\ th[e].i = 0
        /\ th[e].running <=> th[e].pc \notin Unstarted \cup {"exited"}
    BY <2>1, <2>7, <2>8 DEF Reasoned, Stopped, c
  <2>10. Reasoned(t)
    BY <2>5, <2>9 DEF Reasoned, Stopped
  <2> QED
    BY <2>3, <2>5, <2>6, <2>10
<1>4. WellFormed'
  <2>1. th' \in [Endpoints -> ThreadType]
    BY <1>3 DEF ResetRunningStatus
  <2> QED
    BY <1>1, <1>2, <2>1 DEF Inv, WellFormed, Mains
<1>5. Watched'
  BY <1>1, <1>2, <1>3 DEF Inv, Watched
<1>6. ASSUME NEW e \in Endpoints
      PROVE  Held(th[e], ring[e])' /\ Reasoned(th[e])'
  <2>1. /\ Held(th[e], ring[e])' <=> Held(th'[e], ring[e])
        /\ Reasoned(th[e])' <=> Reasoned(th'[e])
    BY <1>1, <1>2 DEF Held, HeldSlot, Reasoned, Stopped, Over
  <2> QED
    BY <1>3, <1>6, <2>1
<1>7. Punctual'
  BY <1>2 DEF Inv, Watched, Punctual, CancelledForReason
<1> QED
  BY <1>1, <1>4, <1>5, <1>6, <1>7 DEF Inv, Threads

LEMMA WatchKeeps == ASSUME Inv, Smooth, Watch PROVE Inv'
<1>1. /\ UNCHANGED <<th, ring>> /\ main = "running" /\ main' = "reset"
      /\ test \in TestType
  BY DEF Watch, Inv, WellFormed
<1>2. PICK q \in BOOLEAN :
        /\ q \/ \E e \in Endpoints : ~th[e].running
        /\ test' = [test EXCEPT !.cancelled = TRUE, !.aborted = q]
  BY DEF Watch
<1>3. /\ test' \in TestType /\ test'.cancelled /\ test'.aborted = q
      /\ Endpoints' = Endpoints /\ mode' = mode /\ BufferCount' = BufferCount
      /\ Retry' = Retry
  BY <1>1, <1>2 DEF TestType, Endpoints, mode, BufferCount, Retry
<1>4. WellFormed' /\ Threads' /\ \A e \in Endpoints : Over(th[e])' <=> Over(th[e])
  BY <1>1, <1>3, MainKeepsThreads DEF Mains
<1>5. "SlowStart" \notin Env => \A e \in Endpoints : th[e].pc \notin Unstarted
  BY <1>1 DEF Inv, Watched, Watch, Unstarted
<1>6. ASSUME "SlowStart" \notin Env, NEW e \in Endpoints, ~th[e].running
      PROVE  Over(th[e])
  <2>1. Reasoned(th[e]) /\ ~test.cancelled
    BY <1>1, OfThread DEF Inv, Watched
  <2>2. th[e].pc = "exited"
    BY <1>5, <1>6, <2>1 DEF Reasoned
  <2> QED
    BY <2>1, <2>2 DEF Reasoned, Stopped
<1>7. Punctual'
  BY <1>2, <1>3, <1>4, <1>6 DEF Punctual, CancelledForReason, Over
<1>8. Watched'
  BY <1>1, <1>3 DEF Inv, Watched
<1> QED
  BY <1>4, <1>7, <1>8 DEF Inv

LEMMA ResetRunningKeeps == ASSUME Inv, ResetRunning PROVE Inv'
<1>1. UNCHANGED <<test, th>> /\ main = "reset" /\ main' = "join"
  BY DEF ResetRunning
<1>2. PICK ok \in AbortMaySucceed :
        ring' = [e \in Endpoints |-> IF ok /\ th[e].running THEN Aborting(e) ELSE ring[e]]
  BY DEF ResetRunning
<1>3. /\ Endpoints' = Endpoints /\ Slots' = Slots /\ Retry' = Retry /\ mode' = mode
      /\ ThreadType' = ThreadType /\ RingType' = RingType
  BY <1>1 DEF Endpoints, Slots, BufferCount, Retry, mode, ThreadType, RingType
<1>4. ASSUME NEW e \in Endpoints
      PROVE  ring'[e] \in RingType /\ Held(th[e], ring'[e]) /\ Reasoned(th[e])
  <2>1. /\ Aborting(e) \in RingType /\ ring[e] \in RingType /\ th[e] \in ThreadType
        /\ Held(th[e], ring[e]) /\ Reasoned(th[e])
        /\ Held(th[e], Aborting(e)) <=> Held(th[e], ring[e])
    BY OfThread, AbortIsOfRing
  <2>2. ring'[e] = Aborting(e) \/ ring'[e] = ring[e]
    BY <1>2
  <2> QED
    BY <2>1, <2>2
<1>5. WellFormed'
  <2>1. ring' \in [Endpoints -> RingType]
    BY <1>2, <1>4
  <2> QED
    BY <1>1, <1>3, <2>1 DEF Inv, WellFormed, Mains
<1>6. ASSUME NEW e \in Endpoints
      PROVE  Held(th[e], ring[e])' /\ Reasoned(th[e])'
  <2>1. /\ Held(th[e], ring[e])' <=> Held(th[e], ring'[e])
        /\ Reasoned(th[e])' <=> Reasoned(th[e])
    BY <1>1, <1>3 DEF Held, HeldSlot, Reasoned, Stopped, Over
  <2> QED
    BY <1>4, <2>1
<1>7. Watched' /\ Punctual'
  BY <1>1, <1>3 DEF Inv, Watched, Punctual, CancelledForReason
<1> QED
  BY <1>3, <1>5, <1>6, <1>7 DEF Inv, Threads

LEMMA JoinKeeps == ASSUME Inv, Joined \/ Close PROVE Inv'
<1>1. /\ UNCHANGED <<test, th, ring>> /\ main' \in {"close", "closed"}
      /\ test \in TestType
      /\ \A e \in Endpoints : th[e].pc \in {"suspended", "exited"}
  BY DEF Joined, Close, Inv, WellFormed, Watched
<1>2. /\ Endpoints' = Endpoints /\ mode' = mode /\ BufferCount' = BufferCount
      /\ Retry' = Retry
  BY <1>1 DEF Endpoints, mode, BufferCount, Retry
<1>3. WellFormed' /\ Threads' /\ \A e \in Endpoints : Over(th[e])' <=> Over(th[e])
  BY <1>1, <1>2, MainKeepsThreads DEF Mains
<1>4. Watched' /\ Punctual'
  BY <1>1, <1>2, <1>3 DEF Inv, Watched, Punctual, CancelledForReason, Over
<1> QED
  BY <1>3, <1>4 DEF Inv

(***************************************************************************)
(* The theorems.                                                           *)
(***************************************************************************)
LEMMA ThreadKeeps ==
    ASSUME Inv, Smooth, NEW e \in Endpoints, Thread(e)
    PROVE  Inv'
BY ThreadStartsKeeps, LoopKeeps, SubmitAsyncKeeps, SubmitFailsKeeps, ReapKeeps,
   WaitingFails, TimeoutKeeps, TimeoutCountedKeeps, ErrorKeeps, SubmitSyncKeeps,
   SyncEndsKeeps, SyncTimesOutKeeps, SyncDrainedKeeps, CancelSlotKeeps, SlotDrainedKeeps, FreeSlotKeeps,
   ThreadEndsKeeps
DEF Thread

LEMMA NextKeeps == ASSUME Inv, Smooth, [Next]_vars PROVE Inv'
<1>1. CASE Main
  BY <1>1, ResumeKeeps, QuitKeeps, ResetStatusKeeps, WatchKeeps, ResetRunningKeeps, JoinKeeps
  DEF Main
<1>2. ASSUME NEW e \in Endpoints, Thread(e) PROVE Inv'
  BY <1>2, ThreadKeeps
<1>3. ASSUME NEW e \in Endpoints, AbortedEnds(e) PROVE Inv'
  BY <1>3, EndsKeeps DEF AbortedEnds, Completed, Failed
<1>4. ASSUME NEW e \in Endpoints, NEW io \in Completed \cup Failed, TransferEnds(e, io)
      PROVE  Inv'
  BY <1>4, EndsKeeps DEF TransferEnds
<1>5. CASE UNCHANGED vars
  <2>1. /\ Endpoints' = Endpoints /\ mode' = mode /\ BufferCount' = BufferCount
        /\ Retry' = Retry /\ test' = test /\ th' = th /\ ring' = ring /\ main' = main
    BY <1>5 DEF vars, Endpoints, mode, BufferCount, Retry
  <2>2. WellFormed' /\ Threads' /\ \A e \in Endpoints : Over(th[e])' <=> Over(th[e])
    BY <2>1, MainKeepsThreads DEF Inv, WellFormed
  <2>3. Watched' /\ Punctual'
    BY <2>1 DEF Inv, Watched, Punctual, CancelledForReason
  <2> QED
    BY <2>2, <2>3 DEF Inv
<1> QED
  BY <1>1, <1>2, <1>3, <1>4, <1>5 DEF Next

\* The context and the buffer of a transfer are given back, and the device is
\* closed, only when the driver has done with them (windows.c, benchmark.c), for
\* every ring, number of endpoints and retries, if aborts succeed.
THEOREM FreedTransfersAreIdle ==
    ASSUME "AbortFails" \notin Env
    PROVE  Spec => []FreedIsIdle
<1>1. Inv => FreedIsIdle
  <2> SUFFICES ASSUME Inv, NEW e \in Endpoints, NEW i \in Slots, ring[e][i].io \in InDriver
               PROVE  ring[e][i].context /\ main \notin {"close", "closed"}
    BY DEF FreedIsIdle
  <2>1. HeldSlot(th[e], ring[e][i], i)
    BY OfThread DEF Held
  <2>2. th[e].pc \notin {"suspended", "exited"}
    BY <2>1 DEF HeldSlot, Unstarted, Waiting
  <2> QED
    BY <2>1, <2>2 DEF HeldSlot, Inv, Watched
<1>2. Inv /\ [Next]_vars => Inv'
  BY NextKeeps DEF Smooth
<1> QED
  BY <1>1, <1>2, InitHolds, PTL DEF Spec

\* The main thread cancels a test the user has not ended only because a thread
\* has run out of retries (benchmark.c), even if 'R' has begun to count anew
\* since, and provided that every thread has started when it first looks.
THEOREM TestsEndForReason ==
    ASSUME Env \cap {"AbortFails", "SlowStart"} = {}
    PROVE  Spec => []CancelledForReason
<1>1. Inv /\ [Next]_vars => Inv'
  BY NextKeeps DEF Smooth
<1>2. Inv => CancelledForReason
  BY DEF Inv, Punctual
<1> QED
  BY <1>1, <1>2, InitHolds, PTL DEF Spec

(***************************************************************************)
(* The ring as a queue.                                                    *)
(***************************************************************************)
LEMMA Rolled ==
    ASSUME NEW n \in Nat \ {0}, NEW i \in Int, -n <= i, i < 2 * n
    PROVE  i % n = IF i < 0 THEN i + n ELSE IF i < n THEN i ELSE i - n
<1>1. CASE i < 0
  <2>1. i = n * (-1) + (i + n) /\ 0 <= i + n /\ i + n < n
    BY <1>1
  <2> QED
    BY <1>1, <2>1
<1>2. CASE 0 <= i /\ i < n
  BY <1>2
<1>3. CASE n <= i
  BY <1>3
<1> QED
  BY <1>1, <1>2, <1>3

LEMMA RolledAge ==
    ASSUME test \in TestType, NEW i \in Slots, NEW w \in Slots
    PROVE  /\ (i - w) % BufferCount = IF i < w THEN i - w + BufferCount ELSE i - w
           /\ (i - w) % BufferCount \in 0 .. BufferCount - 1
<1> DEFINE B == BufferCount
           s == i - w
<1>1. /\ B \in Nat \ {0} /\ i \in Nat /\ w \in Nat /\ i < B /\ w < B
      /\ 0 .. BufferCount - 1 = 0 .. B - 1
  BY SlotsAreNumbers DEF Slots
<1> HIDE DEF B
<1>2. s \in Int /\ -B <= s /\ s < 2 * B
  BY <1>1
<1> HIDE DEF s
<1>3. s % B = IF s < 0 THEN s + B ELSE IF s < B THEN s ELSE s - B
  BY <1>1, <1>2, Rolled
<1>4. s % B = (IF i < w THEN i - w + B ELSE i - w) /\ s % B \in 0 .. B - 1
  BY <1>1, <1>3 DEF s
<1> QED
  BY <1>4 DEF s, B

LEMMA RolledNext ==
    ASSUME test \in TestType, NEW w \in Slots, NEW k \in 0 .. BufferCount
    PROVE  (w + k) % BufferCount =
             IF w + k < BufferCount THEN w + k ELSE w + k - BufferCount
<1> DEFINE B == BufferCount
           s == w + k
<1>1. B \in Nat \ {0} /\ w \in Nat /\ w < B /\ k \in Nat /\ k <= B
  BY SlotsAreNumbers DEF Slots
<1> HIDE DEF B
<1>2. s \in Int /\ -B <= s /\ s < 2 * B /\ ~(s < 0)
  BY <1>1
<1> HIDE DEF s
<1>3. s % B = IF s < 0 THEN s + B ELSE IF s < B THEN s ELSE s - B
  BY <1>1, <1>2, Rolled
<1>4. s % B = IF s < B THEN s ELSE s - B
  BY <1>2, <1>3
<1>5. (w + k) % B = IF w + k < B THEN w + k ELSE w + k - B
  BY <1>1, <1>4 DEF s
<1> QED
  BY <1>5 DEF B

\* The transfers of a thread, the records of their slots, and the queue of those
\* that the driver has.
Late(t, i) == (i - t.wait) % BufferCount
RingOf(t, q, w) ==
    /\ t.outstanding \in 0 .. BufferCount
    /\ t.next = (t.wait + t.outstanding) % BufferCount
    /\ \A i \in Slots : q[i].inUse <=> Late(t, i) < t.outstanding
    /\ \A i \in Slots : q[i].io \in InDriver =>
                         q[i].inUse /\ \E m \in DOMAIN w : w[m] = i
    /\ \A m \in DOMAIN w : q[w[m]].io \in InDriver
    /\ \A m, n \in DOMAIN w : m < n => Late(t, w[m]) < Late(t, w[n])

LEMMA LateIs ==
    ASSUME test \in TestType, NEW t, t.wait \in Slots, NEW i \in Slots
    PROVE  /\ Late(t, i) = IF i < t.wait THEN i - t.wait + BufferCount ELSE i - t.wait
           /\ Late(t, i) \in 0 .. BufferCount - 1
           /\ Late(t, i) \in Int
<1> DEFINE w == t.wait
<1>1. w \in Slots
  OBVIOUS
<1> HIDE DEF w
<1>2. /\ (i - w) % BufferCount = IF i < w THEN i - w + BufferCount ELSE i - w
      /\ (i - w) % BufferCount \in 0 .. BufferCount - 1
  BY <1>1, RolledAge
<1>3. \A a \in 0 .. BufferCount - 1 : a \in Int
  OBVIOUS
<1> QED
  BY <1>2, <1>3 DEF Late, w

LEMMA CalmRing ==
    ASSUME NEW t, NEW u, NEW q, NEW r, NEW w \in Seq(Slots), RingOf(t, q, w),
           u.next = t.next, u.wait = t.wait, u.outstanding = t.outstanding,
           \A i \in Slots : /\ r[i].inUse <=> q[i].inUse
                            /\ r[i].io \in InDriver <=> q[i].io \in InDriver
    PROVE  RingOf(u, r, w)
BY DEF RingOf, Late

\* The next slot is in use from now on: its transfer is the last.
LEMMA SubmitRing ==
    ASSUME test \in TestType, NEW t, NEW u, NEW q, NEW r, NEW w \in Seq(Slots),
           RingOf(t, q, w), t.outstanding < BufferCount, t.wait \in Slots, t.next \in Slots,
           u.next = INC_ROLL(t.next), u.wait = t.wait, u.outstanding = t.outstanding + 1,
           \A i \in Slots : i # t.next => r[i] = q[i],
           r[t.next].inUse, r[t.next].io = "pending"
    PROVE  RingOf(u, r, Append(w, t.next))
<1> DEFINE B == BufferCount
           k == t.outstanding
           v == Append(w, t.next)
<1>1. B \in Nat \ {0} /\ k \in Nat /\ k < B /\ t.wait \in Nat /\ t.wait < B
      /\ u.outstanding = k + 1 /\ u.wait = t.wait
  BY SlotsAreNumbers DEF Slots, RingOf
<1>2. k \in 0 .. B /\ k + 1 \in 0 .. B
  BY <1>1
<1>3. t.next = IF t.wait + k < B THEN t.wait + k ELSE t.wait + k - B
  BY <1>2, RolledNext DEF RingOf
<1>4. ASSUME NEW i \in Slots
      PROVE  /\ Late(t, i) = IF i < t.wait THEN i - t.wait + B ELSE i - t.wait
             /\ Late(t, i) \in 0 .. B - 1 /\ i \in 0 .. B - 1
             /\ Late(u, i) = Late(t, i)
  <2>1. i \in 0 .. B - 1
    BY DEF Slots
  <2>2. Late(u, i) = Late(t, i)
    BY DEF Late
  <2> QED
    BY <2>1, <2>2, LateIs
<1>5. (u.wait + u.outstanding) % B = IF t.wait + k + 1 < B THEN t.wait + k + 1
                                     ELSE t.wait + k + 1 - B
  <2>1. (t.wait + (k + 1)) % B = IF t.wait + (k + 1) < B THEN t.wait + (k + 1)
                                 ELSE t.wait + (k + 1) - B
    <3> DEFINE j == k + 1
    <3>1. j \in 0 .. B
      BY <1>2
    <3> HIDE DEF j
    <3>2. (t.wait + j) % B = IF t.wait + j < B THEN t.wait + j ELSE t.wait + j - B
      BY <3>1, RolledNext
    <3> QED
      BY <3>2 DEF j
  <2>2. t.wait + (k + 1) = t.wait + k + 1 /\ u.wait + u.outstanding = t.wait + (k + 1)
    BY <1>1
  <2> HIDE DEF B, k
  <2> QED
    BY <1>1, <2>1, <2>2
<1> HIDE DEF B, k
<1>6. Late(t, t.next) = k /\ \A i \in Slots : Late(t, i) = k => i = t.next
  <2> DEFINE x == t.wait
             y == t.next
  <2>1. x \in Nat /\ x < B /\ k \in Nat /\ k < B /\ B \in Nat
        /\ y = IF x + k < B THEN x + k ELSE x + k - B
    BY <1>1, <1>3
  <2>2. Late(t, y) = IF y < x THEN y - x + B ELSE y - x
    BY <1>4
  <2>3. ASSUME NEW i \in Slots, Late(t, i) = k PROVE i = y
    <3>1. i \in 0 .. B - 1 /\ k = IF i < x THEN i - x + B ELSE i - x
      BY <1>4, <2>3
    <3> HIDE DEF x, y
    <3> QED
      BY <2>1, <3>1
  <2> HIDE DEF x
  <2>4. Late(t, y) = k
    <3> HIDE DEF y
    <3> QED
      BY <2>1, <2>2
  <2> QED
    BY <2>3, <2>4
<1>7. u.next = (u.wait + u.outstanding) % B
  <2>1. u.next = IF t.next + 1 >= B THEN 0 ELSE t.next + 1
    BY DEF INC_ROLL, B
  <2> QED
    BY <1>1, <1>3, <1>5, <2>1
<1>8. ~q[t.next].inUse /\ q[t.next].io \notin InDriver
  BY <1>1, <1>6 DEF RingOf, k
<1>9. \A i \in Slots : r[i].inUse <=> Late(u, i) < k + 1
  <2> TAKE i \in Slots
  <2>1. CASE i = t.next
    BY <1>1, <1>4, <1>6, <2>1
  <2>2. CASE i # t.next
    <3>1. r[i] = q[i] /\ (q[i].inUse <=> Late(t, i) < k) /\ Late(t, i) # k
      BY <1>6, <2>2 DEF RingOf, k
    <3> QED
      BY <1>1, <1>4, <3>1
  <2> QED
    BY <2>1, <2>2
<1>10. /\ Len(w) \in Nat /\ DOMAIN w = 1 .. Len(w) /\ DOMAIN v = 1 .. Len(w) + 1
       /\ \A m \in DOMAIN w : v[m] = w[m] /\ m \in DOMAIN v /\ w[m] \in Slots
       /\ v[Len(w) + 1] = t.next /\ Len(w) + 1 \in DOMAIN v
       /\ \A m \in DOMAIN v : m \in DOMAIN w \/ m = Len(w) + 1
  OBVIOUS
<1> HIDE DEF v
<1>11. \A m \in DOMAIN w : w[m] # t.next /\ Late(t, w[m]) < k
  BY <1>8, <1>10 DEF RingOf, k
<1>12. \A i \in Slots : r[i].io \in InDriver => r[i].inUse /\ \E m \in DOMAIN v : v[m] = i
  <2> TAKE i \in Slots
  <2>1. CASE i = t.next
    BY <1>10, <2>1
  <2>2. CASE i # t.next
    <3>1. r[i] = q[i]
      BY <2>2
    <3> QED
      BY <1>10, <3>1 DEF RingOf
  <2> QED
    BY <2>1, <2>2
<1>13. \A m \in DOMAIN v : r[v[m]].io \in InDriver
  BY <1>10, <1>11 DEF RingOf, InDriver
<1>14. ASSUME NEW m \in DOMAIN v, NEW n \in DOMAIN v, m < n
       PROVE  Late(u, v[m]) < Late(u, v[n])
  <2>1. m \in DOMAIN w
    BY <1>10, <1>14
  <2>2. CASE n \in DOMAIN w
    BY <1>4, <1>10, <1>14, <2>1, <2>2 DEF RingOf
  <2>3. CASE n = Len(w) + 1
    BY <1>4, <1>6, <1>10, <1>11, <2>1, <2>3
  <2> QED
    BY <1>10, <2>2, <2>3
<1>15. u.outstanding \in 0 .. B /\ u.outstanding = k + 1
  BY <1>1 DEF k
<1> QED
  BY <1>7, <1>9, <1>12, <1>13, <1>14, <1>15 DEF RingOf, B, v

\* The oldest transfer is reaped: the next one is the oldest now.
LEMMA ReapRing ==
    ASSUME test \in TestType, NEW t, NEW u, NEW q, NEW r, NEW w \in Seq(Slots),
           RingOf(t, q, w), t.outstanding = BufferCount, t.wait \in Slots, t.next \in Slots,
           u.next = t.next, u.wait = INC_ROLL(t.wait), u.outstanding = t.outstanding - 1,
           \A i \in Slots : i # t.wait => r[i] = q[i],
           q[t.wait].io \notin InDriver, ~r[t.wait].inUse, r[t.wait].io \notin InDriver
    PROVE  RingOf(u, r, w)
<1> DEFINE B == BufferCount
<1>1. B \in Nat \ {0} /\ t.wait \in Nat /\ t.wait < B /\ u.wait \in Slots
      /\ \A i \in Slots : i \in Nat /\ i < B
  <2>1. B \in Nat \ {0} /\ u.wait \in Slots
    BY SlotsAreNumbers
  <2>2. \A i \in Slots : i \in Nat /\ i < B
    BY <2>1 DEF Slots
  <2> QED
    BY <2>1, <2>2
<1>2. B \in 0 .. B /\ B - 1 \in 0 .. B
  BY <1>1
<1>3. t.next = t.wait
  <2>1. t.next = IF t.wait + B < B THEN t.wait + B ELSE t.wait + B - B
    BY <1>2, RolledNext DEF RingOf
  <2> QED
    BY <1>1, <2>1
<1> DEFINE x == t.wait
           y == u.wait
           k == u.outstanding
<1>4. ASSUME NEW i \in Slots
      PROVE  /\ i \in 0 .. B - 1
             /\ Late(t, i) = IF i < x THEN i - x + B ELSE i - x
             /\ Late(u, i) = IF i < y THEN i - y + B ELSE i - y
  <2>1. i \in 0 .. B - 1
    BY <1>1
  <2>2. Late(t, i) = IF i < x THEN i - x + B ELSE i - x
    BY LateIs
  <2>3. Late(u, i) = IF i < y THEN i - y + B ELSE i - y
    BY <1>1, LateIs
  <2> QED
    BY <2>1, <2>2, <2>3
<1>5. k \in 0 .. B /\ k = B - 1
      /\ (y + k) % B = IF y + k < B THEN y + k ELSE y + k - B
  <2>1. k \in 0 .. B /\ k = B - 1
    BY <1>2
  <2> HIDE DEF k
  <2>2. y \in Slots
    BY <1>1
  <2> HIDE DEF y
  <2>3. (y + k) % B = IF y + k < B THEN y + k ELSE y + k - B
    BY <2>1, <2>2, RolledNext
  <2> QED
    BY <2>1, <2>3
<1>6. y = IF x + 1 >= B THEN 0 ELSE x + 1
  BY DEF INC_ROLL
<1>a. x \in Nat /\ x < B /\ B \in Nat \ {0}
  BY <1>1
<1>b. u.next = x
  BY <1>3
<1> HIDE DEF B, x, y, k
<1>7. u.next = (y + k) % B
  BY <1>a, <1>b, <1>5, <1>6
<1>8. ASSUME NEW i \in Slots
      PROVE  /\ Late(u, i) = IF i = x THEN B - 1 ELSE Late(t, i) - 1
             /\ Late(t, i) \in Int /\ (i # x => Late(t, i) \in 1 .. B - 1)
  <2>1. /\ i \in 0 .. B - 1
        /\ Late(t, i) = IF i < x THEN i - x + B ELSE i - x
        /\ Late(u, i) = IF i < y THEN i - y + B ELSE i - y
    BY <1>4
  <2> QED
    BY <1>a, <1>6, <2>1
<1>10. \A i \in Slots : r[i].inUse <=> Late(u, i) < k
  <2> TAKE i \in Slots
  <2>1. CASE i = x
    BY <1>5, <1>8, <1>a, <2>1 DEF x
  <2>2. CASE i # x
    <3>1. r[i] = q[i] /\ (q[i].inUse <=> Late(t, i) < B)
      BY <2>2 DEF RingOf, B, x
    <3> QED
      BY <1>5, <1>8, <1>a, <2>2, <3>1
  <2> QED
    BY <2>1, <2>2
<1>11. \A m \in DOMAIN w : w[m] \in Slots /\ w[m] # x
  BY DEF RingOf, x
<1>12. \A m, n \in DOMAIN w : m < n => Late(u, w[m]) < Late(u, w[n])
  <2> TAKE m, n \in DOMAIN w
  <2>1. m < n => Late(t, w[m]) < Late(t, w[n])
    BY DEF RingOf
  <2>2. w[m] \in Slots /\ w[m] # x /\ w[n] \in Slots /\ w[n] # x
    BY <1>11
  <2>3. /\ Late(u, w[m]) = Late(t, w[m]) - 1 /\ Late(t, w[m]) \in Int
        /\ Late(u, w[n]) = Late(t, w[n]) - 1 /\ Late(t, w[n]) \in Int
    BY <1>8, <2>2
  <2> QED
    BY <2>1, <2>3
<1>13. \A i \in Slots : r[i].io \in InDriver =>
                          r[i].inUse /\ \E m \in DOMAIN w : w[m] = i
  BY DEF RingOf
<1>14. \A m \in DOMAIN w : r[w[m]].io \in InDriver
  BY <1>11 DEF RingOf, x
<1> QED
  BY <1>5, <1>7, <1>10, <1>12, <1>13, <1>14 DEF RingOf, B, y, k

\* The transfer at some place of the queue is done.
LEMMA RemovedFrom ==
    ASSUME NEW S, NEW w \in Seq(S), NEW k \in DOMAIN w
    PROVE  LET v == RemoveAt(w, k) IN
           /\ v \in Seq(S) /\ Len(w) \in Nat /\ k \in 1 .. Len(w) /\ DOMAIN w = 1 .. Len(w)
           /\ DOMAIN v = 1 .. Len(w) - 1
           /\ \A m \in DOMAIN v : v[m] = IF m < k THEN w[m] ELSE w[m + 1]
<1> DEFINE a == SubSeq(w, 1, k - 1)
           b == SubSeq(w, k + 1, Len(w))
           v == a \o b
<1>1. Len(w) \in Nat /\ k \in 1 .. Len(w) /\ DOMAIN w = 1 .. Len(w)
  OBVIOUS
<1>2. a \in Seq(S) /\ Len(a) = k - 1 /\ \A m \in 1 .. k - 1 : a[m] = w[m]
  <2>1. \A m \in 1 .. k - 1 : w[m] \in S
    BY <1>1
  <2> QED
    BY <1>1, <2>1, SubSeqProperties
<1>3. /\ b \in Seq(S) /\ Len(b) = Len(w) - k
      /\ \A m \in 1 .. Len(w) - k : b[m] = w[k + m]
  <2>1. \A m \in k + 1 .. Len(w) : w[m] \in S
    BY <1>1
  <2>2. /\ b \in Seq(S)
        /\ Len(b) = IF k + 1 <= Len(w) THEN Len(w) - (k + 1) + 1 ELSE 0
        /\ \A m \in 1 .. Len(w) - (k + 1) + 1 : b[m] = w[k + 1 + m - 1]
    BY <1>1, <2>1, SubSeqProperties
  <2>3. \A m \in 1 .. Len(w) - k : k + 1 + m - 1 = k + m /\ m \in 1 .. Len(w) - (k + 1) + 1
    BY <1>1
  <2> QED
    BY <1>1, <2>2, <2>3
<1> HIDE DEF a, b
<1>4. /\ v \in Seq(S) /\ Len(v) = Len(a) + Len(b)
      /\ \A m \in 1 .. Len(a) + Len(b) : v[m] = IF m <= Len(a) THEN a[m] ELSE b[m - Len(a)]
  BY <1>2, <1>3, ConcatProperties
<1> HIDE DEF v
<1>5. DOMAIN v = 1 .. Len(w) - 1
  <2>1. Len(v) = Len(w) - 1
    BY <1>1, <1>2, <1>3, <1>4
  <2> QED
    BY <1>4, <2>1
<1>6. ASSUME NEW m \in 1 .. Len(w) - 1 PROVE v[m] = IF m < k THEN w[m] ELSE w[m + 1]
  <2>1. v[m] = IF m <= k - 1 THEN a[m] ELSE b[m - (k - 1)]
    BY <1>1, <1>2, <1>3, <1>4
  <2>2. CASE m < k
    BY <1>1, <1>2, <2>1, <2>2
  <2>3. CASE m >= k
    <3>1. m - (k - 1) \in 1 .. Len(w) - k /\ k + (m - (k - 1)) = m + 1
      BY <1>1, <2>3
    <3> QED
      BY <1>1, <1>3, <2>1, <2>3, <3>1
  <2> QED
    BY <1>1, <2>2, <2>3
<1>7. RemoveAt(w, k) = v
  BY DEF RemoveAt, v, a, b
<1> QED
  BY <1>1, <1>4, <1>5, <1>6, <1>7

LEMMA EndsRing ==
    ASSUME test \in TestType, NEW t, t.wait \in Slots, NEW q, NEW r, NEW w \in Seq(Slots),
           RingOf(t, q, w), NEW k \in DOMAIN w,
           \A i \in Slots : r[i].inUse <=> q[i].inUse,
           \A i \in Slots : i # w[k] => r[i].io = q[i].io,
           r[w[k]].io \notin InDriver
    PROVE  RingOf(t, r, RemoveAt(w, k))
<1> DEFINE v == RemoveAt(w, k)
<1>1. /\ v \in Seq(Slots) /\ Len(w) \in Nat /\ k \in 1 .. Len(w) /\ DOMAIN w = 1 .. Len(w)
      /\ DOMAIN v = 1 .. Len(w) - 1
      /\ \A m \in DOMAIN v : v[m] = IF m < k THEN w[m] ELSE w[m + 1]
  BY RemovedFrom
<1> HIDE DEF v
<1>2. /\ \A m \in DOMAIN w : w[m] \in Slots /\ Late(t, w[m]) \in Int
      /\ \A m, n \in DOMAIN w : m < n => Late(t, w[m]) < Late(t, w[n])
  <2>1. \A m \in DOMAIN w : w[m] \in Slots
    OBVIOUS
  <2>2. ASSUME NEW i \in Slots PROVE Late(t, i) \in Int
    BY LateIs
  <2>3. \A m, n \in DOMAIN w : m < n => Late(t, w[m]) < Late(t, w[n])
    BY DEF RingOf
  <2> QED
    BY <2>1, <2>2, <2>3
<1>3. \A m \in DOMAIN w : m # k => w[m] # w[k]
  BY <1>1, <1>2
<1> DEFINE at(m) == IF m < k THEN m ELSE m + 1
<1>4. \A m \in DOMAIN v : v[m] = w[at(m)] /\ at(m) \in DOMAIN w /\ at(m) # k
  BY <1>1
<1>5. \A m, n \in DOMAIN v : m < n => at(m) < at(n)
  BY <1>1
<1>6. ASSUME NEW n \in DOMAIN w, n # k PROVE \E m \in DOMAIN v : v[m] = w[n]
  <2>1. CASE n < k
    BY <1>1, <2>1
  <2>2. CASE n > k
    <3>1. n - 1 \in DOMAIN v /\ ~(n - 1 < k) /\ n - 1 + 1 = n
      BY <1>1, <2>2
    <3> QED
      BY <1>1, <3>1
  <2> QED
    BY <1>1, <1>6, <2>1, <2>2
<1> HIDE DEF at
<1>7. \A m, n \in DOMAIN v : m < n => Late(t, v[m]) < Late(t, v[n])
  BY <1>2, <1>4, <1>5
<1>8. \A m \in DOMAIN v : r[v[m]].io \in InDriver
  BY <1>2, <1>3, <1>4 DEF RingOf
<1>9. ASSUME NEW i \in Slots, r[i].io \in InDriver
      PROVE  r[i].inUse /\ \E m \in DOMAIN v : v[m] = i
  <2>1. i # w[k] /\ q[i].io \in InDriver
    BY <1>9
  <2>2. q[i].inUse /\ \E n \in DOMAIN w : w[n] = i
    BY <2>1 DEF RingOf
  <2> QED
    BY <1>6, <2>1, <2>2
<1> QED
  BY <1>7, <1>8, <1>9 DEF RingOf, v

Ended == {"stop", "drain", "exited"}
InRing(t) == mode = "async" /\ t.pc \notin Ended
InSync(t, q) == t.pc = "sync" => mode = "sync" /\ q[0].io # "idle"

RingTyped ==
    /\ test \in TestType
    /\ th \in [Endpoints -> ThreadType]
    /\ ring \in [Endpoints -> RingType]
    /\ wire \in [Endpoints -> Seq(Slots)]
RingInv ==
    /\ RingTyped
    /\ \A e \in Endpoints : /\ InRing(th[e]) => RingOf(th[e], ring[e], wire[e])
                            /\ InSync(th[e], ring[e])

\* The facts every step in a ring begins with.
LEMMA OfRing ==
    ASSUME RingInv, NEW e \in Endpoints
    PROVE  /\ test \in TestType
           /\ th[e] \in ThreadType /\ ring[e] \in RingType /\ wire[e] \in Seq(Slots)
           /\ th \in [Endpoints -> ThreadType] /\ ring \in [Endpoints -> RingType]
           /\ wire \in [Endpoints -> Seq(Slots)]
           /\ th[e].next \in Slots /\ th[e].wait \in Slots /\ th[e].outstanding \in Int
           /\ \A i \in Slots : ring[e][i] \in SlotType
           /\ InSync(th[e], ring[e])
           /\ BufferCount \in Nat \ {0} /\ Slots \subseteq Nat /\ 0 \in Slots
           /\ \A i \in Slots : INC_ROLL(i) \in Slots
           /\ ring = [ring EXCEPT ![e] = ring[e]] /\ wire = [wire EXCEPT ![e] = wire[e]]
           /\ mode \in Modes
BY SlotsAreNumbers DEF RingInv, RingTyped, ThreadType, RingType

\* The names that depend on the test stay while its parameters do.
LEMMA TestStays ==
    ASSUME test' = test
    PROVE  /\ Endpoints' = Endpoints /\ Slots' = Slots /\ mode' = mode
           /\ BufferCount' = BufferCount
           /\ ThreadType' = ThreadType /\ RingType' = RingType
BY DEF Endpoints, Slots, BufferCount, mode, ThreadType, RingType

\* A step at one endpoint.
LEMMA RingStep ==
    ASSUME RingInv, NEW e \in Endpoints,
           NEW t \in ThreadType, NEW q \in RingType, NEW w \in Seq(Slots),
           th' = [th EXCEPT ![e] = t], ring' = [ring EXCEPT ![e] = q],
           wire' = [wire EXCEPT ![e] = w], test' = test,
           InRing(t) => RingOf(t, q, w), InSync(t, q)
    PROVE  RingInv'
<1>1. \A f \in Endpoints : /\ th'[f] = IF f = e THEN t ELSE th[f]
                           /\ ring'[f] = IF f = e THEN q ELSE ring[f]
                           /\ wire'[f] = IF f = e THEN w ELSE wire[f]
  BY DEF RingInv, RingTyped
<1>2. RingTyped'
  BY TestStays DEF RingInv, RingTyped
<1>3. ASSUME NEW f \in Endpoints
      PROVE  /\ InRing(th[f])' => RingOf(th[f], ring[f], wire[f])'
             /\ InSync(th[f], ring[f])'
  <2>1. /\ InRing(th[f])' <=> InRing(th'[f])
        /\ RingOf(th[f], ring[f], wire[f])' <=> RingOf(th'[f], ring'[f], wire'[f])
        /\ InSync(th[f], ring[f])' <=> InSync(th'[f], ring'[f])
    BY TestStays DEF InRing, InSync, RingOf, Late
  <2> QED
    BY <1>1, <2>1 DEF RingInv
<1> QED
  BY <1>2, <1>3, TestStays DEF RingInv

(* The same transfers are in use and in the driver.                        *)
Same(q, r) ==
    \A i \in Slots : /\ q[i].inUse <=> r[i].inUse
                     /\ q[i].io \in InDriver <=> r[i].io \in InDriver

\* A step that moves no transfer of the ring.
LEMMA QuietStep ==
    ASSUME RingInv, NEW e \in Endpoints, NEW t \in ThreadType, NEW q \in RingType,
           th' = [th EXCEPT ![e] = t], ring' = [ring EXCEPT ![e] = q],
           UNCHANGED <<test, wire>>,
           InRing(t) => /\ InRing(th[e]) /\ Same(q, ring[e])
                        /\ t.next = th[e].next /\ t.wait = th[e].wait
                        /\ t.outstanding = th[e].outstanding,
           InSync(t, q)
    PROVE  RingInv'
<1>1. wire[e] \in Seq(Slots) /\ wire' = [wire EXCEPT ![e] = wire[e]]
  BY OfRing
<1>2. InRing(t) => RingOf(t, q, wire[e])
  <2> SUFFICES ASSUME InRing(t) PROVE RingOf(t, q, wire[e])
    OBVIOUS
  <2>1. RingOf(th[e], ring[e], wire[e])
    BY DEF RingInv
  <2> QED
    BY <1>1, <2>1, CalmRing DEF Same
<1> QED
  BY <1>1, <1>2, RingStep

LEMMA QuietGoto ==
    ASSUME RingInv, NEW e \in Endpoints, NEW pc \in Pcs \ {"sync"}, NEW q \in RingType,
           Goto(e, pc), ring' = [ring EXCEPT ![e] = q], UNCHANGED <<test, wire>>,
           mode = "async" /\ pc \notin Ended => th[e].pc \notin Ended /\ Same(q, ring[e])
    PROVE  RingInv'
<1>1. PICK t : t = [th[e] EXCEPT !.pc = pc]
  OBVIOUS
<1>2. /\ t \in ThreadType /\ t.pc = pc /\ t.next = th[e].next /\ t.wait = th[e].wait
      /\ t.outstanding = th[e].outstanding
  BY <1>1, OfRing DEF ThreadType
<1>3. th' = [th EXCEPT ![e] = t]
  BY <1>1 DEF Goto
<1>4. InSync(t, q)
  BY <1>2 DEF InSync
<1> QED
  BY <1>2, <1>3, <1>4, QuietStep DEF InRing

LEMMA AbortIsSame ==
    ASSUME RingInv, NEW e \in Endpoints
    PROVE  /\ Aborting(e) \in RingType /\ Same(Aborting(e), ring[e])
           /\ Same(ring[e], ring[e])
           /\ \A i \in Slots : Aborting(e)[i].io = "idle" <=> ring[e][i].io = "idle"
<1>1. \A i \in Slots : ring[e][i] \in SlotType
  BY OfRing
<1>2. \A i \in Slots :
        Aborting(e)[i] = IF ring[e][i].io = "pending" THEN [ring[e][i] EXCEPT !.io = "aborting"]
                         ELSE ring[e][i]
  BY DEF Aborting
<1>3. \A i \in Slots :
        /\ Aborting(e)[i] \in SlotType
        /\ Aborting(e)[i].inUse = ring[e][i].inUse
        /\ Aborting(e)[i].io \in InDriver <=> ring[e][i].io \in InDriver
        /\ Aborting(e)[i].io = "idle" <=> ring[e][i].io = "idle"
  BY <1>1, <1>2 DEF SlotType, Ios, InDriver
<1>4. Aborting(e) \in RingType
  BY <1>3 DEF Aborting, RingType
<1> QED
  BY <1>3, <1>4 DEF Same

LEMMA RingFails ==
    ASSUME RingInv, NEW e \in Endpoints, ReapFails(e) \/ ReapTimesOut(e) \/ ResetEndpoint(e)
    PROVE  RingInv'
<1>1. /\ ring[e] \in RingType /\ ring = [ring EXCEPT ![e] = ring[e]]
      /\ Aborting(e) \in RingType /\ Same(Aborting(e), ring[e]) /\ Same(ring[e], ring[e])
  BY OfRing, AbortIsSame
<1>2. CASE ReapFails(e)
  <2>1. PICK pc \in {"error", "timeout"} : Goto(e, pc)
    BY <1>2 DEF ReapFails
  <2>2. th[e].pc = "submit" /\ UNCHANGED <<test, main, ring, wire>>
    BY <1>2 DEF ReapFails, Full
  <2> QED
    BY <1>1, <2>1, <2>2, QuietGoto DEF Pcs, Ended
<1>3. CASE ReapTimesOut(e)
  BY <1>1, <1>3, QuietGoto DEF ReapTimesOut, Full, Pcs, Ended
<1>4. CASE ResetEndpoint(e)
  <2>1. PICK q \in {ring[e], Aborting(e)} : ring' = [ring EXCEPT ![e] = q]
    BY <1>1, <1>4 DEF ResetEndpoint, usb_resetep
  <2>2. /\ q \in RingType /\ Same(q, ring[e]) /\ th[e].pc = "reset" /\ Goto(e, "loop")
        /\ UNCHANGED <<test, wire>>
    BY <1>1, <1>4 DEF ResetEndpoint
  <2> QED
    BY <2>1, <2>2, QuietGoto DEF Pcs, Ended
<1> QED
  BY <1>2, <1>3, <1>4

LEMMA RingLoops ==
    ASSUME RingInv, NEW e \in Endpoints,
           ThreadStarts(e) \/ Loop(e) \/ Timeout(e) \/ TimeoutCounted(e) \/ Error(e)
    PROVE  RingInv'
<1>1. /\ th[e] \in ThreadType /\ th \in [Endpoints -> ThreadType] /\ ring[e] \in RingType
      /\ ring = [ring EXCEPT ![e] = ring[e]]
      /\ Aborting(e) \in RingType /\ Same(Aborting(e), ring[e]) /\ Same(ring[e], ring[e])
  BY OfRing, AbortIsSame
<1>2. th[e].pc \notin Ended /\ UNCHANGED <<test, wire>>
  BY DEF ThreadStarts, Loop, Timeout, TimeoutCounted, Error, Ended
<1>3. CASE ThreadStarts(e)
  <2>1. PICK t : t = [th[e] EXCEPT !.running = TRUE, !.pc = "loop"]
    OBVIOUS
  <2>2. /\ t \in ThreadType /\ t.pc = "loop" /\ t.next = th[e].next /\ t.wait = th[e].wait
        /\ t.outstanding = th[e].outstanding
    BY <1>1, <2>1 DEF ThreadType, Pcs
  <2>3. th' = [th EXCEPT ![e] = t] /\ ring' = [ring EXCEPT ![e] = ring[e]]
    BY <1>1, <1>3, <2>1 DEF ThreadStarts
  <2>4. InSync(t, ring[e]) /\ (InRing(t) => InRing(th[e]))
    BY <1>2, <2>2 DEF InSync, InRing
  <2> QED
    BY <1>1, <1>2, <2>2, <2>3, <2>4, QuietStep
<1>4. CASE Loop(e)
  <2> DEFINE pc == IF test.cancelled THEN "stop" ELSE "submit"
  <2>1. PICK t : t = [th[e] EXCEPT !.pc = pc, !.i = 0]
    OBVIOUS
  <2>2. pc \in Pcs \ {"sync"} /\ th' = [th EXCEPT ![e] = t]
        /\ ring' = [ring EXCEPT ![e] = ring[e]]
    BY <1>1, <1>4, <2>1 DEF Loop, Pcs
  <2> HIDE DEF pc
  <2>3. /\ t \in ThreadType /\ t.pc = pc /\ t.next = th[e].next /\ t.wait = th[e].wait
        /\ t.outstanding = th[e].outstanding
    BY <1>1, <2>1, <2>2 DEF ThreadType
  <2>4. InSync(t, ring[e]) /\ (InRing(t) => InRing(th[e]))
    BY <1>2, <2>2, <2>3 DEF InSync, InRing
  <2> QED
    BY <1>1, <1>2, <2>2, <2>3, <2>4, QuietStep
<1>5. CASE Timeout(e)
  <2> DEFINE n == IF test.aborted THEN th[e].timeouts ELSE th[e].timeouts + 1
             pc == IF test.aborted THEN "stop" ELSE "counted"
  <2>1. n \in Nat /\ pc \in Pcs \ {"sync"}
    BY <1>1 DEF ThreadType, Pcs
  <2>2. PICK t : t = [th[e] EXCEPT !.pc = pc, !.timeouts = n, !.i = 0]
    OBVIOUS
  <2>3. th' = [th EXCEPT ![e] = t] /\ ring' = [ring EXCEPT ![e] = ring[e]]
    <3>1. CASE test.aborted
      <4>1. t = [th[e] EXCEPT !.pc = "stop", !.i = 0]
        BY <1>1, <2>2, <3>1 DEF ThreadType
      <4> QED
        BY <1>1, <1>5, <3>1, <4>1 DEF Timeout
    <3>2. CASE ~test.aborted
      BY <1>1, <1>5, <2>2, <3>2 DEF Timeout
    <3> QED
      BY <3>1, <3>2
  <2> HIDE DEF n, pc
  <2>4. /\ t \in ThreadType /\ t.pc = pc /\ t.next = th[e].next /\ t.wait = th[e].wait
        /\ t.outstanding = th[e].outstanding
    BY <1>1, <2>1, <2>2 DEF ThreadType
  <2>5. InSync(t, ring[e]) /\ (InRing(t) => InRing(th[e]))
    BY <1>2, <2>1, <2>4 DEF InSync, InRing
  <2> QED
    BY <1>1, <1>2, <2>3, <2>4, <2>5, QuietStep
<1>6. CASE Error(e)
  <2> DEFINE n == IF test.aborted THEN th[e].errors ELSE th[e].errors + 1
             pc == IF test.aborted THEN "stop" ELSE Count(n)
  <2>1. n \in Nat /\ pc \in Pcs \ {"sync"}
    BY <1>1 DEF ThreadType, Count, Pcs
  <2>2. PICK t : t = [th[e] EXCEPT !.pc = pc, !.errors = n, !.i = 0]
    OBVIOUS
  <2>3. th' = [th EXCEPT ![e] = t]
    <3>1. CASE test.aborted
      <4>1. t = [th[e] EXCEPT !.pc = "stop", !.i = 0]
        BY <1>1, <2>2, <3>1 DEF ThreadType
      <4> QED
        BY <1>1, <1>6, <3>1, <4>1 DEF Error
    <3>2. CASE ~test.aborted
      BY <1>1, <1>6, <2>2, <3>2 DEF Error
    <3> QED
      BY <3>1, <3>2
  <2>4. PICK q \in {ring[e], Aborting(e)} : ring' = [ring EXCEPT ![e] = q]
    BY <1>1, <1>6 DEF Error, usb_resetep
  <2> HIDE DEF n, pc
  <2>5. /\ t \in ThreadType /\ t.pc = pc /\ t.next = th[e].next /\ t.wait = th[e].wait
        /\ t.outstanding = th[e].outstanding
    BY <1>1, <2>1, <2>2 DEF ThreadType
  <2>6. InSync(t, q) /\ (InRing(t) => InRing(th[e])) /\ q \in RingType /\ Same(q, ring[e])
    BY <1>1, <1>2, <2>1, <2>4, <2>5 DEF InSync, InRing
  <2> QED
    BY <1>2, <2>3, <2>4, <2>5, <2>6, QuietStep
<1>7. CASE TimeoutCounted(e)
  <2>1. PICK pc \in {"stop", "loop"} : Goto(e, pc)
    BY <1>7 DEF TimeoutCounted, Count
  <2>2. UNCHANGED <<test, ring, wire>>
    BY <1>7 DEF TimeoutCounted
  <2> QED
    BY <1>1, <1>2, <2>1, <2>2, QuietGoto DEF Pcs
<1> QED
  BY <1>3, <1>4, <1>5, <1>6, <1>7

\* One slot of the ring changes.
LEMMA RingSlot ==
    ASSUME RingInv, NEW e \in Endpoints, NEW i \in Slots, NEW s \in SlotType
    PROVE  \E q \in RingType :
             /\ q = [ring[e] EXCEPT ![i] = s]
             /\ \A j \in Slots : q[j] = IF j = i THEN s ELSE ring[e][j]
<1>1. ring[e] \in RingType
  BY OfRing
<1>2. PICK q : q = [ring[e] EXCEPT ![i] = s]
  OBVIOUS
<1>3. q \in RingType /\ \A j \in Slots : q[j] = IF j = i THEN s ELSE ring[e][j]
  BY <1>1, <1>2 DEF RingType
<1> QED
  BY <1>2, <1>3

LEMMA RingSubmits == ASSUME RingInv, NEW e \in Endpoints, SubmitAsync(e) PROVE RingInv'
<1>1. /\ test \in TestType /\ th[e] \in ThreadType /\ th \in [Endpoints -> ThreadType]
      /\ th[e].next \in Slots /\ th[e].wait \in Slots /\ INC_ROLL(th[e].next) \in Slots
      /\ wire[e] \in Seq(Slots) /\ wire \in [Endpoints -> Seq(Slots)]
      /\ th[e].outstanding \in Int
  BY OfRing
<1>2. /\ th[e].pc = "submit" /\ mode = "async" /\ UNCHANGED test
      /\ th[e].outstanding < BufferCount
  BY DEF SubmitAsync
<1>3. PICK s : s = [context |-> TRUE, inUse |-> TRUE, io |-> "pending"]
  OBVIOUS
<1>4. /\ s \in SlotType /\ s.inUse /\ s.io = "pending"
      /\ ring' = [ring EXCEPT ![e] = [ring[e] EXCEPT ![th[e].next] = s]]
  BY <1>3 DEF SubmitAsync, Submitted, SlotType, Ios, InDriver
<1>5. PICK q \in RingType :
        /\ q = [ring[e] EXCEPT ![th[e].next] = s]
        /\ \A j \in Slots : q[j] = IF j = th[e].next THEN s ELSE ring[e][j]
  <2>1. th[e].next \in Slots
    BY <1>1
  <2> QED
    BY <1>4, <2>1, RingSlot
<1>6. ring' = [ring EXCEPT ![e] = q]
  BY <1>4, <1>5
<1> DEFINE n == INC_ROLL(th[e].next)
           k == th[e].outstanding + 1
           w == Append(wire[e], th[e].next)
<1>7. PICK t : t = [th[e] EXCEPT !.outstanding = k, !.next = n]
  OBVIOUS
<1>8. th' = [th EXCEPT ![e] = t] /\ wire' = [wire EXCEPT ![e] = w] /\ w \in Seq(Slots)
  <2>1. th' = [th EXCEPT ![e] = t]
    BY <1>7, OfRing DEF SubmitAsync
  <2>2. wire' = [wire EXCEPT ![e] = Append(wire[e], th[e].next)]
    BY DEF SubmitAsync, Submitted
  <2>3. w \in Seq(Slots)
    BY <1>1
  <2> QED
    BY <2>1, <2>2, <2>3
<1>9. n \in Slots /\ k \in Int /\ n = INC_ROLL(th[e].next) /\ k = th[e].outstanding + 1
      /\ w = Append(wire[e], th[e].next)
  BY <1>1
<1> HIDE DEF n, k, w
<1>10. /\ t \in ThreadType /\ t.pc = "submit" /\ t.next = n /\ t.outstanding = k
       /\ t.wait = th[e].wait
  BY <1>1, <1>2, <1>7, <1>9 DEF ThreadType
<1>11. RingOf(th[e], ring[e], wire[e])
  BY <1>2 DEF RingInv, InRing, Ended
<1>12. RingOf(t, q, w)
  <2>1. /\ \A j \in Slots : j # th[e].next => q[j] = ring[e][j]
        /\ q[th[e].next].inUse /\ q[th[e].next].io = "pending"
    BY <1>1, <1>4, <1>5
  <2> QED
    BY <1>1, <1>2, <1>9, <1>10, <1>11, <2>1, SubmitRing
<1>13. InSync(t, q)
  BY <1>10 DEF InSync
<1> QED
  BY <1>2, <1>5, <1>6, <1>8, <1>10, <1>12, <1>13, RingStep

LEMMA RingRefuses == ASSUME RingInv, NEW e \in Endpoints, SubmitFails(e) PROVE RingInv'
<1>1. /\ ring[e] \in RingType /\ ring \in [Endpoints -> RingType] /\ th[e].next \in Slots
      /\ ring[e][th[e].next] \in SlotType
  BY OfRing
<1>2. th[e].pc = "submit" /\ UNCHANGED <<test, wire>> /\ Goto(e, "error")
  BY DEF SubmitFails
<1>3. PICK made \in BOOLEAN :
        ring' = [ring EXCEPT ![e][th[e].next].context = mode = "async" /\ (@ \/ made)]
  BY DEF SubmitFails
<1>4. PICK s : s = [ring[e][th[e].next] EXCEPT !.context = mode = "async" /\ (@ \/ made)]
  OBVIOUS
<1>5. /\ s \in SlotType /\ s.io = ring[e][th[e].next].io
      /\ s.inUse = ring[e][th[e].next].inUse
  BY <1>1, <1>4 DEF SlotType
<1>6. PICK q \in RingType :
        /\ q = [ring[e] EXCEPT ![th[e].next] = s]
        /\ \A j \in Slots : q[j] = IF j = th[e].next THEN s ELSE ring[e][j]
  BY <1>1, <1>5, RingSlot
<1>7. ring' = [ring EXCEPT ![e] = q]
  BY <1>1, <1>3, <1>4, <1>6 DEF RingType
<1>8. Same(q, ring[e])
  BY <1>5, <1>6 DEF Same
<1> QED
  BY <1>2, <1>6, <1>7, <1>8, QuietGoto DEF Pcs, Ended

\* A thread whose transfer is back keeps its place in the ring.
LEMMA TransferredKeepsPlace ==
    ASSUME NEW t \in ThreadType, NEW io \in Completed \cup Failed, Retry \in Nat
    PROVE  LET u == Transferred(t, io) IN
           /\ u \in ThreadType /\ u.pc \in Between \cup {"stop"}
           /\ u.next = t.next /\ u.wait = t.wait /\ u.outstanding = t.outstanding
<1>1. CASE io = "full"
  <2>1. PICK u : u = [t EXCEPT !.pc = "loop", !.errors = 0, !.timeouts = 0]
    OBVIOUS
  <2>2. Transferred(t, io) = u
    BY <1>1, <2>1 DEF Transferred
  <2>3. /\ u \in ThreadType /\ u.pc \in Between \cup {"stop"}
        /\ u.next = t.next /\ u.wait = t.wait /\ u.outstanding = t.outstanding
    BY <2>1 DEF ThreadType, Pcs, Between
  <2> QED
    BY <2>2, <2>3
<1>2. CASE io = "short"
  <2>1. PICK u : u = [t EXCEPT !.pc = "loop"]
    OBVIOUS
  <2>2. Transferred(t, io) = u
    BY <1>2, <2>1 DEF Transferred
  <2>3. /\ u \in ThreadType /\ u.pc \in Between \cup {"stop"}
        /\ u.next = t.next /\ u.wait = t.wait /\ u.outstanding = t.outstanding
    BY <2>1 DEF ThreadType, Pcs, Between
  <2> QED
    BY <2>2, <2>3
<1>3. CASE io = "failed"
  <2>1. PICK u : u = [t EXCEPT !.pc = "error"]
    OBVIOUS
  <2>2. Transferred(t, io) = u
    BY <1>3, <2>1 DEF Transferred
  <2>3. /\ u \in ThreadType /\ u.pc \in Between \cup {"stop"}
        /\ u.next = t.next /\ u.wait = t.wait /\ u.outstanding = t.outstanding
    BY <2>1 DEF ThreadType, Pcs, Between
  <2> QED
    BY <2>2, <2>3
<1>5. CASE io = "aborted"
  <2>1. PICK u : u = [t EXCEPT !.pc = "timeout"]
    OBVIOUS
  <2>2. Transferred(t, io) = u
    BY <1>5, <2>1 DEF Transferred
  <2>3. /\ u \in ThreadType /\ u.pc \in Between \cup {"stop"}
        /\ u.next = t.next /\ u.wait = t.wait /\ u.outstanding = t.outstanding
    BY <2>1 DEF ThreadType, Pcs, Between
  <2> QED
    BY <2>2, <2>3
<1>4. CASE io = "zero"
  <2> DEFINE n == t.errors + 1
             pc == IF n > Retry THEN "stop" ELSE "reset"
  <2>1. PICK u : u = [t EXCEPT !.pc = pc, !.errors = n, !.i = 0]
    OBVIOUS
  <2>2. Transferred(t, io) = u
    BY <1>4, <2>1 DEF Transferred
  <2>3. n \in Nat /\ pc \in {"stop", "reset"}
    BY DEF ThreadType
  <2> HIDE DEF n, pc
  <2>4. /\ u \in ThreadType /\ u.pc \in Between \cup {"stop"}
        /\ u.next = t.next /\ u.wait = t.wait /\ u.outstanding = t.outstanding
    BY <2>1, <2>3 DEF ThreadType, Pcs, Between
  <2> QED
    BY <2>2, <2>4
<1> QED
  BY <1>1, <1>2, <1>3, <1>4, <1>5 DEF Completed, Failed

LEMMA RingReaps == ASSUME RingInv, NEW e \in Endpoints, Reap(e) PROVE RingInv'
<1>1. /\ test \in TestType /\ th[e] \in ThreadType /\ th \in [Endpoints -> ThreadType]
      /\ th[e].next \in Slots /\ th[e].wait \in Slots /\ INC_ROLL(th[e].wait) \in Slots
      /\ wire[e] \in Seq(Slots) /\ wire = [wire EXCEPT ![e] = wire[e]]
      /\ ring[e][th[e].wait] \in SlotType /\ th[e].outstanding \in Int
  BY OfRing
<1>2. /\ th[e].pc = "submit" /\ mode = "async" /\ UNCHANGED <<test, wire>>
      /\ th[e].outstanding = BufferCount /\ ring[e][th[e].wait].io \in Completed
  BY DEF Reap, Full
<1>3. PICK s : s = [ring[e][th[e].wait] EXCEPT !.inUse = FALSE, !.io = "idle"]
  OBVIOUS
<1>4. s \in SlotType /\ s.io = "idle" /\ ~s.inUse
  BY <1>1, <1>3 DEF SlotType, Ios
<1>5. PICK q \in RingType :
        /\ q = [ring[e] EXCEPT ![th[e].wait] = s]
        /\ \A j \in Slots : q[j] = IF j = th[e].wait THEN s ELSE ring[e][j]
  <2>1. th[e].wait \in Slots
    BY <1>1
  <2> QED
    BY <1>4, <2>1, RingSlot
<1>6. ring' = [ring EXCEPT ![e] = q]
  BY <1>3, <1>5 DEF Reap
<1> DEFINE n == INC_ROLL(th[e].wait)
           k == th[e].outstanding - 1
<1>7. PICK t : t = [th[e] EXCEPT !.outstanding = k, !.wait = n]
  OBVIOUS
<1>8. PICK io : io = Result(ring[e][th[e].wait].io)
  OBVIOUS
<1>9. io \in Completed \cup Failed
  BY <1>2, <1>8 DEF Result, Completed
<1>10. PICK u : u = Transferred(t, io)
  OBVIOUS
<1>11. th' = [th EXCEPT ![e] = u]
  BY <1>7, <1>8, <1>10 DEF Reap
<1>12. n \in Slots /\ k \in Int /\ n = INC_ROLL(th[e].wait) /\ k = th[e].outstanding - 1
  BY <1>1
<1> HIDE DEF n, k
<1>13. t \in ThreadType /\ t.next = th[e].next /\ t.wait = n /\ t.outstanding = k
  BY <1>1, <1>7, <1>12 DEF ThreadType
<1>14. /\ u \in ThreadType /\ u.pc \in Between \cup {"stop"}
       /\ u.next = th[e].next /\ u.wait = n /\ u.outstanding = k
  BY <1>1, <1>9, <1>10, <1>13, SlotsAreNumbers, TransferredKeepsPlace
<1>15. RingOf(th[e], ring[e], wire[e])
  BY <1>2 DEF RingInv, InRing, Ended
<1>16. RingOf(u, q, wire[e])
  <2>1. /\ \A j \in Slots : j # th[e].wait => q[j] = ring[e][j]
        /\ ~q[th[e].wait].inUse /\ q[th[e].wait].io \notin InDriver
        /\ ring[e][th[e].wait].io \notin InDriver
    BY <1>1, <1>2, <1>4, <1>5 DEF InDriver, Completed
  <2> QED
    BY <1>1, <1>2, <1>12, <1>14, <1>15, <2>1, ReapRing
<1>17. InSync(u, q)
  BY <1>14 DEF InSync, Between
<1> QED
  BY <1>1, <1>2, <1>5, <1>6, <1>11, <1>14, <1>16, <1>17, RingStep

(* Whatever becomes of it, a slot that is freed is one.                    *)
LEMMA FreedIsTyped == ASSUME NEW s \in SlotType PROVE Freed(s) \in SlotType
<1> DEFINE io == IF s.io \in InDriver THEN s.io ELSE "idle"
<1>1. io \in Ios /\ Freed(s) = [s EXCEPT !.context = FALSE, !.io = io]
  BY DEF Freed, SlotType, Ios
<1> HIDE DEF io
<1> QED
  BY <1>1 DEF SlotType

LEMMA RingFreed ==
    ASSUME RingInv, NEW e \in Endpoints, NEW i \in Slots
    PROVE  [ring[e] EXCEPT ![i] = Freed(ring[e][i])] \in RingType
<1>1. PICK s : s = Freed(ring[e][i])
  OBVIOUS
<1>2. s \in SlotType
  BY <1>1, OfRing, FreedIsTyped
<1> QED
  BY <1>1, <1>2, RingSlot

\* A thread in a single transfer has no ring.
LEMMA RingSyncs ==
    ASSUME RingInv, NEW e \in Endpoints,
           SubmitSync(e) \/ SyncEnds(e) \/ SyncTimesOut(e) \/ SyncDrained(e)
    PROVE  RingInv'
<1>1. /\ test \in TestType /\ th[e] \in ThreadType /\ th \in [Endpoints -> ThreadType]
      /\ ring[e] \in RingType /\ ring \in [Endpoints -> RingType]
      /\ ring = [ring EXCEPT ![e] = ring[e]]
      /\ wire[e] \in Seq(Slots) /\ wire \in [Endpoints -> Seq(Slots)]
      /\ wire = [wire EXCEPT ![e] = wire[e]]
      /\ 0 \in Slots /\ ring[e][0] \in SlotType /\ InSync(th[e], ring[e])
      /\ Aborting(e) \in RingType
      /\ [ring[e] EXCEPT ![0] = Freed(ring[e][0])] \in RingType
  BY OfRing, AbortIsSame, RingFreed
<1>2. mode = "sync" /\ UNCHANGED test
  BY <1>1 DEF SubmitSync, SyncEnds, SyncTimesOut, SyncDrained, InSync
<1>3. \A t : ~InRing(t)
  BY <1>2 DEF InRing
<1>4. CASE SubmitSync(e)
  <2>1. PICK s : s = [context |-> TRUE, inUse |-> FALSE, io |-> "pending"]
    OBVIOUS
  <2>2. /\ s \in SlotType /\ s.io = "pending"
        /\ ring' = [ring EXCEPT ![e] = [ring[e] EXCEPT ![0] = s]]
    BY <1>4, <2>1 DEF SubmitSync, Submitted, SlotType, Ios, InDriver
  <2>3. PICK q \in RingType :
          /\ q = [ring[e] EXCEPT ![0] = s]
          /\ \A j \in Slots : q[j] = IF j = 0 THEN s ELSE ring[e][j]
    BY <1>1, <2>2, RingSlot
  <2> DEFINE n == th[e].i + 1
             w == Append(wire[e], 0)
  <2>4. PICK t : t = [th[e] EXCEPT !.pc = "sync", !.i = n]
    OBVIOUS
  <2>5. /\ th' = [th EXCEPT ![e] = t] /\ ring' = [ring EXCEPT ![e] = q]
        /\ wire' = [wire EXCEPT ![e] = w] /\ w \in Seq(Slots)
    <3>1. th' = [th EXCEPT ![e] = t]
      BY <1>4, <2>4, OfRing DEF SubmitSync
    <3>2. wire' = [wire EXCEPT ![e] = Append(wire[e], 0)]
      BY <1>4 DEF SubmitSync, Submitted
    <3>3. w \in Seq(Slots)
      BY <1>1
    <3> QED
      BY <2>2, <2>3, <3>1, <3>2, <3>3
  <2>6. n \in Nat
    BY <1>1 DEF ThreadType
  <2> HIDE DEF n, w
  <2>7. t \in ThreadType
    BY <1>1, <2>4, <2>6 DEF ThreadType, Pcs
  <2>8. InSync(t, q)
    BY <1>1, <1>2, <2>2, <2>3 DEF InSync
  <2> QED
    BY <1>2, <1>3, <2>3, <2>5, <2>7, <2>8, RingStep
<1>5. CASE SyncEnds(e)
  <2>1. CASE ring[e][0].io = "full" /\ th[e].i < Chunks
    <3>1. Goto(e, "submit") /\ ring' = [ring EXCEPT ![e] = ring[e]] /\ UNCHANGED wire
      BY <1>1, <1>5, <2>1 DEF SyncEnds
    <3> QED
      BY <1>1, <1>2, <3>1, QuietGoto DEF Pcs
  <2>2. CASE ~(ring[e][0].io = "full" /\ th[e].i < Chunks)
    <3> DEFINE io == Result(IF ring[e][0].io = "zero" /\ th[e].i > 1 THEN "short"
                            ELSE ring[e][0].io)
    <3>1. /\ ring' = [ring EXCEPT ![e] = [ring[e] EXCEPT ![0] = Freed(ring[e][0])]]
          /\ th' = [th EXCEPT ![e] = Transferred(th[e], io)] /\ UNCHANGED wire
      BY <1>5, <2>2 DEF SyncEnds
    <3>2. ring[e][0].io \notin InDriver /\ ring[e][0].io # "idle"
      BY <1>1, <1>5 DEF SyncEnds, InSync
    <3>3. io \in Completed \cup Failed
      BY <1>1, <3>2 DEF Result, Completed, Failed, SlotType, Ios, InDriver
    <3> HIDE DEF io
    <3>4. PICK t : t = Transferred(th[e], io)
      OBVIOUS
    <3>5. t \in ThreadType /\ t.pc \in Between \cup {"stop"}
      BY <1>1, <3>3, <3>4, SlotsAreNumbers, TransferredKeepsPlace
    <3>6. PICK q : q = [ring[e] EXCEPT ![0] = Freed(ring[e][0])]
      OBVIOUS
    <3>7. InSync(t, q)
      BY <3>5 DEF InSync, Between
    <3> QED
      BY <1>1, <1>2, <1>3, <3>1, <3>4, <3>5, <3>6, <3>7, QuietStep
  <2> QED
    BY <2>1, <2>2
<1>6. CASE SyncTimesOut(e)
  <2>1. PICK ok \in BOOLEAN :
          /\ ring' = IF ok THEN [ring EXCEPT ![e] = Aborting(e)]
                     ELSE [ring EXCEPT ![e][0] = Freed(@)]
          /\ Goto(e, IF ok THEN "drain" ELSE "timeout")
    BY <1>6 DEF SyncTimesOut, AbortMaySucceed
  <2>2. UNCHANGED wire
    BY <1>6 DEF SyncTimesOut
  <2>3. CASE ok
    BY <1>1, <1>2, <2>1, <2>2, <2>3, QuietGoto DEF Pcs
  <2>4. CASE ~ok
    <3>1. PICK q : q = [ring[e] EXCEPT ![0] = Freed(ring[e][0])]
      OBVIOUS
    <3>2. ring' = [ring EXCEPT ![e] = q] /\ Goto(e, "timeout") /\ q \in RingType
      BY <1>1, <2>1, <2>4, <3>1
    <3> QED
      BY <1>2, <2>2, <3>2, QuietGoto DEF Pcs
  <2> QED
    BY <2>3, <2>4
<1>7. CASE SyncDrained(e)
  <2>1. PICK q : q = [ring[e] EXCEPT ![0] = Freed(ring[e][0])]
    OBVIOUS
  <2>2. /\ ring' = [ring EXCEPT ![e] = q] /\ Goto(e, "timeout") /\ q \in RingType
        /\ UNCHANGED wire
    BY <1>1, <1>7, <2>1 DEF SyncDrained
  <2> QED
    BY <1>2, <2>2, QuietGoto DEF Pcs
<1> QED
  BY <1>4, <1>5, <1>6, <1>7

\* A thread that stops leaves the ring for good.
LEMMA RingStops ==
    ASSUME RingInv, NEW e \in Endpoints,
           CancelSlot(e) \/ SlotDrained(e) \/ FreeSlot(e) \/ ThreadEnds(e)
    PROVE  RingInv'
<1>1. /\ th[e] \in ThreadType /\ th \in [Endpoints -> ThreadType]
      /\ ring[e] \in RingType /\ ring \in [Endpoints -> RingType]
      /\ ring = [ring EXCEPT ![e] = ring[e]]
      /\ Aborting(e) \in RingType /\ BufferCount \in Nat \ {0}
  BY OfRing, AbortIsSame
<1>2. UNCHANGED <<test, wire>>
  BY DEF CancelSlot, SlotDrained, FreeSlot, ThreadEnds
<1>3. [ring[e] EXCEPT ![th[e].i].inUse = FALSE] \in RingType
  BY <1>1 DEF RingType, SlotType
<1>4. CASE CancelSlot(e)
  <2>1. PICK ok \in BOOLEAN :
          /\ ring' = IF ok THEN [ring EXCEPT ![e] = Aborting(e)]
                     ELSE [ring EXCEPT ![e][th[e].i].inUse = FALSE]
          /\ Goto(e, IF ok THEN "drain" ELSE "stop")
    BY <1>4 DEF CancelSlot, AbortMaySucceed
  <2>2. CASE ok
    BY <1>1, <1>2, <2>1, <2>2, QuietGoto DEF Pcs, Ended
  <2>3. CASE ~ok
    <3>1. PICK q : q = [ring[e] EXCEPT ![th[e].i].inUse = FALSE]
      OBVIOUS
    <3>2. ring' = [ring EXCEPT ![e] = q] /\ Goto(e, "stop") /\ q \in RingType
      BY <1>1, <1>3, <2>1, <2>3, <3>1
    <3> QED
      BY <1>2, <3>2, QuietGoto DEF Pcs, Ended
  <2> QED
    BY <2>2, <2>3
<1>5. CASE SlotDrained(e)
  <2>1. PICK q : q = [ring[e] EXCEPT ![th[e].i].inUse = FALSE]
    OBVIOUS
  <2>2. ring' = [ring EXCEPT ![e] = q] /\ Goto(e, "stop") /\ q \in RingType
    BY <1>1, <1>3, <1>5, <2>1 DEF SlotDrained
  <2> QED
    BY <1>2, <2>2, QuietGoto DEF Pcs, Ended
<1>6. CASE FreeSlot(e)
  <2>1. th[e].pc = "stop" /\ th[e].i < BufferCount
    BY <1>6 DEF FreeSlot
  <2>2. th[e].i \in Slots
    BY <1>1, <2>1 DEF ThreadType, Slots
  <2>3. PICK q : q = [ring[e] EXCEPT ![th[e].i] = Freed(ring[e][th[e].i])]
    OBVIOUS
  <2>4. ring' = [ring EXCEPT ![e] = q] /\ q \in RingType
    BY <1>6, <2>2, <2>3, RingFreed DEF FreeSlot
  <2> DEFINE n == th[e].i + 1
  <2>5. PICK t : t = [th[e] EXCEPT !.i = n]
    OBVIOUS
  <2>6. th' = [th EXCEPT ![e] = t] /\ n \in Nat
    BY <1>1, <1>6, <2>5 DEF FreeSlot, ThreadType
  <2> HIDE DEF n
  <2>7. t \in ThreadType /\ t.pc = "stop"
    BY <1>1, <2>1, <2>5, <2>6 DEF ThreadType
  <2> QED
    BY <1>2, <2>4, <2>6, <2>7, QuietStep DEF InRing, InSync, Ended
<1>7. CASE ThreadEnds(e)
  <2>1. PICK t : t = [th[e] EXCEPT !.running = FALSE, !.pc = "exited"]
    OBVIOUS
  <2>2. /\ th' = [th EXCEPT ![e] = t] /\ ring' = [ring EXCEPT ![e] = ring[e]]
        /\ t \in ThreadType /\ t.pc = "exited"
    BY <1>1, <1>7, <2>1 DEF ThreadEnds, ThreadType, Pcs
  <2> QED
    BY <1>1, <1>2, <2>2, QuietStep DEF InRing, InSync, Ended
<1> QED
  BY <1>4, <1>5, <1>6, <1>7

\* The driver has done with a transfer.
LEMMA RingEnds ==
    ASSUME RingInv, NEW e \in Endpoints, NEW k \in DOMAIN wire[e],
           NEW io \in Completed \cup Failed, Ends(e, k, io)
    PROVE  RingInv'
<1>1. /\ test \in TestType /\ th[e] \in ThreadType /\ th = [th EXCEPT ![e] = th[e]]
      /\ th[e].wait \in Slots
      /\ ring[e] \in RingType /\ ring \in [Endpoints -> RingType]
      /\ wire[e] \in Seq(Slots) /\ wire \in [Endpoints -> Seq(Slots)]
      /\ InSync(th[e], ring[e]) /\ 0 \in Slots
  BY OfRing DEF RingInv, RingTyped
<1> DEFINE i == wire[e][k]
           w == RemoveAt(wire[e], k)
<1>2. /\ ring' = [ring EXCEPT ![e][i].io = io] /\ wire' = [wire EXCEPT ![e] = w]
      /\ th' = [th EXCEPT ![e] = th[e]] /\ test' = test
  BY <1>1 DEF Ends
<1>3. w \in Seq(Slots) /\ i \in Slots
  <2>1. wire[e] \in Seq(Slots)
    BY <1>1
  <2> QED
    BY <2>1, RemovedFrom
<1>4. io \in Ios /\ io \notin InDriver /\ io # "idle"
  BY DEF Ios, Completed, Failed, InDriver
<1>5. PICK q : q = [ring[e] EXCEPT ![i].io = io]
  OBVIOUS
<1>6. /\ q \in RingType /\ ring' = [ring EXCEPT ![e] = q]
      /\ \A j \in Slots : /\ q[j].inUse = ring[e][j].inUse
                          /\ q[j].io = IF j = i THEN io ELSE ring[e][j].io
  <2> HIDE DEF i, w
  <2> QED
    BY <1>1, <1>2, <1>3, <1>4, <1>5 DEF RingType, SlotType
<1>7. InRing(th[e]) => RingOf(th[e], q, w)
  <2> SUFFICES ASSUME InRing(th[e]) PROVE RingOf(th[e], q, w)
    OBVIOUS
  <2>1. RingOf(th[e], ring[e], wire[e])
    BY DEF RingInv
  <2>2. /\ \A j \in Slots : q[j].inUse <=> ring[e][j].inUse
        /\ \A j \in Slots : j # wire[e][k] => q[j].io = ring[e][j].io
        /\ q[wire[e][k]].io \notin InDriver
    BY <1>3, <1>4, <1>6
  <2>3. wire[e] \in Seq(Slots) /\ th[e].wait \in Slots /\ test \in TestType
    BY <1>1
  <2> QED
    BY <2>1, <2>2, <2>3, EndsRing
<1>8. InSync(th[e], q)
  <2>1. q[0].io = io \/ q[0].io = ring[e][0].io
    BY <1>1, <1>6
  <2> QED
    BY <1>1, <1>4, <2>1 DEF InSync
<1> HIDE DEF w
<1> QED
  BY <1>1, <1>2, <1>3, <1>6, <1>7, <1>8, RingStep

\* No thread runs before the test starts.
Ready == main = "ready" => \A e \in Endpoints : th[e].pc = "suspended"

LEMMA ReadyStays == ASSUME Ready, [Next]_vars PROVE Ready'
<1>1. CASE Main
  BY <1>1 DEF Main, ResumeThreads, QuitEarly, ResetRunningStatus, Watch, ResetRunning, Joined, Close, Ready
<1>2. ASSUME NEW e \in Endpoints, Thread(e) PROVE Ready'
  <2>1. th[e].pc # "suspended" /\ main' = main
    BY <1>2
    DEF Thread, ThreadStarts, Loop, SubmitAsync, SubmitFails, Reap, ReapFails, ReapTimesOut,
        Full, Timeout, TimeoutCounted, Error, ResetEndpoint, SubmitSync, SyncEnds, SyncTimesOut, SyncDrained,
        CancelSlot, SlotDrained, FreeSlot, ThreadEnds
  <2> QED
    BY <2>1 DEF Ready
<1>3. ASSUME NEW e \in Endpoints, NEW k, NEW io, Ends(e, k, io) PROVE Ready'
  BY <1>3 DEF Ends, Ready, Endpoints
<1>4. CASE UNCHANGED vars
  BY <1>4 DEF vars, Ready, Endpoints
<1> QED
  BY <1>1, <1>2, <1>3, <1>4 DEF Next, AbortedEnds, TransferEnds

\* The main thread moves no transfer either.
LEMMA RingMain == ASSUME RingInv, Ready, Main \/ UNCHANGED vars PROVE RingInv'
<1>1. /\ test \in TestType /\ th \in [Endpoints -> ThreadType]
      /\ ring \in [Endpoints -> RingType] /\ wire \in [Endpoints -> Seq(Slots)]
  BY DEF RingInv, RingTyped
<1>2. /\ test' \in TestType /\ Endpoints' = Endpoints /\ Slots' = Slots /\ mode' = mode
      /\ BufferCount' = BufferCount /\ ThreadType' = ThreadType /\ RingType' = RingType
      /\ wire' = wire
  <2>1. CASE Watch
    <3>1. PICK q \in BOOLEAN : test' = [test EXCEPT !.cancelled = TRUE, !.aborted = q]
      BY <2>1 DEF Watch
    <3>2. /\ test' \in TestType /\ test'.endpoints = test.endpoints
          /\ test'.count = test.count /\ test'.mode = test.mode
      BY <1>1, <3>1 DEF TestType
    <3> QED
      BY <2>1, <3>2 DEF Watch, Endpoints, Slots, BufferCount, mode, ThreadType, RingType
  <2>2. CASE ~Watch
    <3>1. test' = test /\ wire' = wire
      BY <2>2 DEF Main, ResumeThreads, QuitEarly, ResetRunningStatus, ResetRunning, Joined, Close, vars
    <3> QED
      BY <1>1, <3>1, TestStays
  <2> QED
    BY <2>1, <2>2
<1>3. ASSUME NEW e \in Endpoints
      PROVE  /\ th'[e] \in ThreadType
             /\ th'[e].next = th[e].next /\ th'[e].wait = th[e].wait
             /\ th'[e].outstanding = th[e].outstanding
             /\ th'[e].pc = th[e].pc \/ (th'[e].pc = "resumed" /\ th[e].pc = "suspended")
  <2>1. CASE ResumeThreads
    <3>1. th'[e] = [th[e] EXCEPT !.pc = "resumed"] /\ th[e].pc = "suspended"
      BY <2>1 DEF ResumeThreads, Ready
    <3> QED
      BY <1>1, <3>1 DEF ThreadType, Pcs
  <2>2. CASE ResetRunningStatus
    <3> DEFINE c == th[e].cleared \/ (th[e].timeouts > Retry /\ th[e].pc # "counted")
    <3>1. PICK t : t = [th[e] EXCEPT !.cleared = c, !.timeouts = 0]
      OBVIOUS
    <3>2. th'[e] = t
      BY <2>2, <3>1 DEF ResetRunningStatus
    <3>3. th[e] \in ThreadType
      BY <1>1
    <3>4. c \in BOOLEAN
      OBVIOUS
    <3> HIDE DEF c
    <3>5. /\ t \in ThreadType /\ t.pc = th[e].pc /\ t.next = th[e].next
          /\ t.wait = th[e].wait /\ t.outstanding = th[e].outstanding
      BY <3>1, <3>3, <3>4 DEF ThreadType
    <3> QED
      BY <3>2, <3>5
  <2>3. CASE ~ResumeThreads /\ ~ResetRunningStatus
    <3>1. th' = th
      BY <2>3 DEF Main, QuitEarly, ResetRunningStatus, Watch, ResetRunning, Joined, Close, vars
    <3> QED
      BY <1>1, <3>1
  <2> QED
    BY <2>1, <2>2, <2>3
<1>4. th' \in [Endpoints -> ThreadType]
  <2>1. CASE ResumeThreads
    BY <1>3, <2>1 DEF ResumeThreads
  <2>2. CASE ResetRunningStatus
    BY <1>3, <2>2 DEF ResetRunningStatus
  <2>3. CASE ~ResumeThreads /\ ~ResetRunningStatus
    BY <1>1, <2>3 DEF Main, QuitEarly, ResetRunningStatus, Watch, ResetRunning, Joined, Close, vars
  <2> QED
    BY <2>1, <2>2, <2>3
<1>5. ASSUME NEW e \in Endpoints
      PROVE  /\ ring'[e] \in RingType /\ Same(ring'[e], ring[e])
             /\ ring'[e][0].io = "idle" <=> ring[e][0].io = "idle"
  <2>1. ring'[e] = ring[e] \/ ring'[e] = Aborting(e)
    BY DEF Main, ResumeThreads, QuitEarly, ResetRunningStatus, Watch, ResetRunning, Joined, Close, vars
  <2> QED
    BY <2>1, OfRing, AbortIsSame
<1>6. ring' \in [Endpoints -> RingType]
  <2>1. CASE ResetRunning
    <3>1. PICK ok \in AbortMaySucceed :
            ring' = [e \in Endpoints |-> IF ok /\ th[e].running THEN Aborting(e) ELSE ring[e]]
      BY <2>1 DEF ResetRunning
    <3> QED
      BY <1>5, <3>1
  <2>2. CASE ~ResetRunning
    BY <1>1, <2>2 DEF Main, ResumeThreads, QuitEarly, ResetRunningStatus, Watch, Joined, Close, vars
  <2> QED
    BY <2>1, <2>2
<1>7. ASSUME NEW e \in Endpoints
      PROVE  (InRing(th[e]) => RingOf(th[e], ring[e], wire[e]))' /\ InSync(th[e], ring[e])'
  <2>1. /\ InRing(th[e])' <=> InRing(th'[e])
        /\ RingOf(th[e], ring[e], wire[e])' <=> RingOf(th'[e], ring'[e], wire[e])
        /\ InSync(th[e], ring[e])' <=> InSync(th'[e], ring'[e])
    BY <1>2 DEF InRing, InSync, RingOf, Late
  <2>2. InRing(th'[e]) => InRing(th[e])
    BY <1>3 DEF InRing, Ended
  <2>3. InRing(th[e]) => RingOf(th'[e], ring'[e], wire[e])
    <3> SUFFICES ASSUME InRing(th[e]) PROVE RingOf(th'[e], ring'[e], wire[e])
      OBVIOUS
    <3>1. wire[e] \in Seq(Slots) /\ RingOf(th[e], ring[e], wire[e])
      BY OfRing DEF RingInv
    <3> QED
      BY <1>3, <1>5, <3>1, CalmRing DEF Same
  <2>4. InSync(th'[e], ring'[e])
    BY <1>3, <1>5, OfRing DEF InSync
  <2> QED
    BY <2>1, <2>2, <2>3, <2>4
<1> QED
  BY <1>1, <1>2, <1>4, <1>6, <1>7 DEF RingInv, RingTyped

LEMMA RingInit == Init => RingInv /\ Ready
<1> SUFFICES ASSUME Init PROVE RingInv /\ Ready
  OBVIOUS
<1>1. Inv
  BY InitHolds
<1>2. /\ test \in TestType /\ th \in [Endpoints -> ThreadType]
      /\ ring \in [Endpoints -> RingType] /\ Ready
  BY <1>1 DEF Inv, WellFormed, Watched, Ready
<1>3. wire = [e \in Endpoints |-> <<>>]
  BY DEF Init
<1>4. wire \in [Endpoints -> Seq(Slots)]
  <2>1. <<>> \in Seq(Slots)
    OBVIOUS
  <2> QED
    BY <1>3, <2>1
<1>5. ASSUME NEW e \in Endpoints
      PROVE  RingOf(th[e], ring[e], wire[e]) /\ InSync(th[e], ring[e])
  <2>1. /\ th[e].pc = "suspended" /\ th[e].next = 0 /\ th[e].wait = 0
        /\ th[e].outstanding = 0
    BY DEF Init
  <2>2. \A i \in Slots : ~ring[e][i].inUse /\ ring[e][i].io \notin InDriver
    BY DEF Init, InDriver
  <2>3. wire[e] = <<>> /\ DOMAIN wire[e] = {}
    BY <1>3
  <2>4. BufferCount \in Nat \ {0} /\ 0 \in Slots
    BY <1>2, SlotsAreNumbers
  <2>5. (0 + 0) % BufferCount = 0 /\ 0 \in 0 .. BufferCount
    BY <2>4
  <2>6. \A i \in Slots : Late(th[e], i) \in 0 .. BufferCount - 1
    BY <1>2, <2>1, <2>4, LateIs
  <2>7. \A i \in Slots : ~(Late(th[e], i) < 0)
    BY <2>4, <2>6
  <2> QED
    BY <2>1, <2>2, <2>3, <2>5, <2>7 DEF RingOf, InSync
<1> QED
  BY <1>2, <1>4, <1>5 DEF RingInv, RingTyped

LEMMA RingNext == ASSUME RingInv, Ready, [Next]_vars PROVE RingInv'
<1>1. ASSUME NEW e \in Endpoints, Thread(e) PROVE RingInv'
  BY <1>1, RingLoops, RingSubmits, RingRefuses, RingReaps, RingFails, RingSyncs, RingStops
  DEF Thread
<1>2. ASSUME NEW e \in Endpoints, AbortedEnds(e) PROVE RingInv'
  BY <1>2, RingEnds DEF AbortedEnds, Completed, Failed
<1>3. ASSUME NEW e \in Endpoints, NEW io \in Completed \cup Failed, TransferEnds(e, io)
      PROVE  RingInv'
  <2>1. wire[e] \in Seq(Slots) /\ wire[e] # <<>> /\ Ends(e, 1, io)
    BY <1>3, OfRing DEF TransferEnds
  <2>2. 1 \in DOMAIN wire[e]
    BY <2>1
  <2> QED
    BY <2>1, <2>2, RingEnds
<1> QED
  BY <1>1, <1>2, <1>3, RingMain DEF Next

\* The ring of every asynchronous test is a queue (TransferAsync of benchmark.c):
\* a thread waits for the oldest of its transfers, those in use are the
\* outstanding ones, and the driver has them in the order in which they will be
\* reaped, whatever times out, fails, is aborted, or cannot be.
THEOREM RingIsAQueue == Spec => []RingInOrder
<1>1. RingInv => RingInOrder
  <2> SUFFICES ASSUME RingInv, NEW e \in Endpoints, mode = "async",
                      th[e].pc \notin {"stop", "drain", "exited"}
               PROVE  /\ th[e].next = (th[e].wait + th[e].outstanding) % BufferCount
                      /\ \A i \in Slots : ring[e][i].inUse <=> Age(e, i) < th[e].outstanding
                      /\ {wire[e][m] : m \in DOMAIN wire[e]} =
                            {i \in Slots : ring[e][i].inUse /\ ring[e][i].io \in InDriver}
                      /\ \A m, n \in DOMAIN wire[e] :
                            m < n => Age(e, wire[e][m]) < Age(e, wire[e][n])
    BY DEF RingInOrder
  <2>1. RingOf(th[e], ring[e], wire[e]) /\ wire[e] \in Seq(Slots)
    BY OfRing DEF RingInv, InRing, Ended
  <2>2. \A i : Age(e, i) = Late(th[e], i)
    BY DEF Age, Late
  <2>3. \A m \in DOMAIN wire[e] : wire[e][m] \in Slots
    BY <2>1
  <2>4. {wire[e][m] : m \in DOMAIN wire[e]} =
           {i \in Slots : ring[e][i].inUse /\ ring[e][i].io \in InDriver}
    BY <2>1, <2>3 DEF RingOf
  <2> QED
    BY <2>1, <2>2, <2>4 DEF RingOf
<1>2. RingInv /\ Ready /\ [Next]_vars => RingInv' /\ Ready'
  BY RingNext, ReadyStays
<1> QED
  BY <1>1, <1>2, RingInit, PTL DEF Spec
=============================================================================

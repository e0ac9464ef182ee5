------------------------------ MODULE Benchmark ------------------------------
(***************************************************************************)
(* The benchmark program of libusb-win32 on top of the asynchronous        *)
(* transfers of libusb0.dll (windows.c).  One thread for each endpoint     *)
(* keeps a ring of BufferCount transfers outstanding, or transfers         *)
(* synchronously; the main thread starts them, watches them, cancels the   *)
(* test and closes the device when they have ended.                        *)
(*                                                                         *)
(* A transfer that is in the driver owns its buffer and its context: the   *)
(* program must not free them.  An abort ends the transfers of an endpoint *)
(* some time after the call has returned.                                  *)
(***************************************************************************)
EXTENDS Integers, Sequences, FiniteSets, SequencesExt

CONSTANTS
    Tests,          \* what the command line may ask for
    Chunks,         \* how many submissions one synchronous transfer takes
    Env             \* which disturbances may happen

Disturbances ==
    { "AbortFails",     \* ABORT_ENDPOINT fails, for example since the device is gone
      "SlowStart" }     \* a thread has not started when main first looks, Refresh later

Modes == {"sync", "async"}

(* A test: TransferMode, the endpoints of its TestType, BufferCount, Retry. *)
ASSUME TestsAssumption ==
    \A t \in Tests : /\ DOMAIN t = {"mode", "endpoints", "count", "retry"}
                     /\ t.mode \in Modes /\ IsFiniteSet(t.endpoints) /\ t.endpoints # {}
                     /\ t.count \in Nat \ {0} /\ t.retry \in Nat
ASSUME ChunksAssumption == Chunks \in Nat \ {0}
ASSUME EnvAssumption == Env \subseteq Disturbances

VARIABLES
    test,   \* Test: the parameters, IsCancelled, IsUserAborted
    main,   \* the main thread
    th,     \* the transfer parameters of each thread, and where it is; history, cleared:
            \* it had run out of retries when 'R' set its timeouts to 0
    ring,   \* TransferHandles[]: the context, InUse, and its transfer
    wire    \* the transfers in the driver, in the order of their submission

vars == <<test, main, th, ring, wire>>

Pcs == {"suspended", "resumed", "loop", "submit", "sync", "drain", "timeout", "counted",
        "error", "reset", "stop", "exited"}
AllEndpoints == UNION {t.endpoints : t \in Tests}
Endpoints == test.endpoints
BufferCount == test.count
Slots == 0 .. BufferCount - 1
Retry == test.retry
mode == test.mode

(* What has become of a transfer: io.  aborted stands for the two errors   *)
(* that usb_win_error_to_errno turns into a timeout, ERROR_OPERATION_      *)
(* ABORTED and ERROR_SEM_TIMEOUT, and failed for all the others.           *)
Completed == {"full", "short", "zero"}
Failed == {"failed", "aborted"}
InDriver == {"pending", "aborting"}
Ios == {"idle"} \cup Failed \cup Completed \cup InDriver

(* Begins after CreateTransferParam: the threads are suspended.            *)
Init ==
    /\ \E t \in Tests :
         test = [mode |-> t.mode, endpoints |-> t.endpoints, count |-> t.count,
                 retry |-> t.retry, cancelled |-> FALSE, aborted |-> FALSE]
    /\ main = "ready"
    /\ th = [e \in Endpoints |->
              [pc |-> "suspended", running |-> FALSE, timeouts |-> 0, errors |-> 0,
               cleared |-> FALSE, next |-> 0, wait |-> 0, outstanding |-> 0, i |-> 0]]
    /\ ring = [e \in Endpoints |->
                [i \in Slots |-> [context |-> FALSE, inUse |-> FALSE, io |-> "idle"]]]
    /\ wire = [e \in Endpoints |-> <<>>]

(***************************************************************************)
(* The driver.  An endpoint works off its transfers in order; the ones     *)
(* aborted come back in any order, a long one (LargeTransfer) with success *)
(* and what it has moved.  k is the place of the transfer that ends.       *)
(***************************************************************************)
Ends(e, k, io) ==
    /\ ring' = [ring EXCEPT ![e][wire[e][k]].io = io]
    /\ wire' = [wire EXCEPT ![e] = RemoveAt(@, k)]
    /\ UNCHANGED <<test, main, th>>

TransferEnds(e, io) == wire[e] # <<>> /\ Ends(e, 1, io)

AbortedEnds(e) ==
    \E k \in DOMAIN wire[e], io \in {"aborted", "short", "zero"} :
        ring[e][wire[e][k]].io = "aborting" /\ Ends(e, k, io)

(* _usb_abort_ep, and usb_resetep, which then resets the pipe.             *)
AbortMaySucceed == IF "AbortFails" \in Env THEN BOOLEAN ELSE {TRUE}
\* Mutant: an abort has no effect on the transfers.
NotAborting(e) == ring[e]
Aborting(e) ==
    [i \in Slots |-> IF ring[e][i].io = "pending" THEN [ring[e][i] EXCEPT !.io = "aborting"]
                     ELSE ring[e][i]]
usb_resetep(e) ==
    \E ok \in AbortMaySucceed : ring' = IF ok THEN [ring EXCEPT ![e] = Aborting(e)] ELSE ring

(***************************************************************************)
(* The thread of an endpoint.                                              *)
(***************************************************************************)
Goto(e, pc) == th' = [th EXCEPT ![e].pc = pc]
\* Mutant: the last retry is not made.
CountOneLess(n) == IF n >= Retry THEN "stop" ELSE "loop"
Count(n) == IF n > Retry THEN "stop" ELSE "loop"
\* Mutant: the index stops at the end of the ring.
INC_STOP(i) == IF i + 1 < BufferCount THEN i + 1 ELSE i
INC_ROLL(i) == IF i + 1 >= BufferCount THEN 0 ELSE i + 1

(* TransferThreadProc.                                                     *)
ThreadStarts(e) ==
    /\ th[e].pc = "resumed"
    /\ th' = [th EXCEPT ![e].running = TRUE, ![e].pc = "loop"]
    /\ UNCHANGED <<test, main, ring, wire>>

Loop(e) ==
    /\ th[e].pc = "loop"
    /\ th' = [th EXCEPT ![e].pc = IF test.cancelled THEN "stop" ELSE "submit", ![e].i = 0]
    /\ UNCHANGED <<test, main, ring, wire>>

(* usb_free_async: what has become of the transfer is forgotten with it.   *)
Freed(slot) ==
    [slot EXCEPT !.context = FALSE, !.io = IF @ \in InDriver THEN @ ELSE "idle"]

(* usb_submit_async.                                                       *)
Submitted(e, i, inUse) ==
    /\ ring' = [ring EXCEPT ![e][i] = [context |-> TRUE, inUse |-> inUse, io |-> "pending"]]
    /\ wire' = [wire EXCEPT ![e] = Append(@, i)]

(* TransferAsync: submits until BufferCount transfers are outstanding ...  *)
SubmitAsync(e) ==
    /\ th[e].pc = "submit" /\ mode = "async"
    /\ th[e].outstanding < BufferCount
    /\ Submitted(e, th[e].next, TRUE)
    /\ th' = [th EXCEPT ![e].outstanding = @ + 1, ![e].next = INC_ROLL(@)]
    /\ UNCHANGED <<test, main>>

(* No memory for a context, or the driver refuses the request at once.     *)
SubmitFails(e) ==
    /\ th[e].pc = "submit" /\ th[e].outstanding < BufferCount
    /\ \E made \in BOOLEAN : ring' = [ring EXCEPT ![e][th[e].next].context =
                                         mode = "async" /\ (@ \/ made)]
    /\ Goto(e, "error")
    /\ UNCHANGED <<test, main, wire>>

(* A transfer is back: what it has moved counts, and a full one makes the  *)
(* thread forget the errors before it.                                     *)
Transferred(t, io) ==
    CASE io = "full"  -> [t EXCEPT !.pc = "loop", !.errors = 0, !.timeouts = 0]
      [] io = "short" -> [t EXCEPT !.pc = "loop"]
      [] io = "zero"  -> [t EXCEPT !.pc = IF t.errors + 1 > Retry THEN "stop" ELSE "reset",
                                   !.errors = @ + 1, !.i = 0]
      [] io = "failed" -> [t EXCEPT !.pc = "error"]
      [] io = "aborted" -> [t EXCEPT !.pc = "timeout"]

(* Short transfers are no matter any more when the test is cancelled.      *)
Result(io) == IF test.cancelled /\ io \in Completed THEN "full" ELSE io

(* ... and waits for the oldest.                                           *)
Full(e) == th[e].pc = "submit" /\ mode = "async" /\ th[e].outstanding = BufferCount

Reap(e) ==
    LET io == ring[e][th[e].wait].io IN
    /\ Full(e) /\ io \in Completed
    /\ ring' = [ring EXCEPT ![e][th[e].wait] = [@ EXCEPT !.inUse = FALSE, !.io = "idle"]]
    /\ th' = [th EXCEPT ![e] = Transferred(
                [th[e] EXCEPT !.outstanding = @ - 1, !.wait = INC_ROLL(@)], Result(io))]
    /\ UNCHANGED <<test, main, wire>>

(* A transfer that has failed stays the oldest one.                        *)
ReapFails(e) ==
    /\ Full(e) /\ ring[e][th[e].wait].io \in Failed
    /\ Goto(e, IF ring[e][th[e].wait].io = "failed" THEN "error" ELSE "timeout")
    /\ UNCHANGED <<test, main, ring, wire>>

(* usb_reap_async_nocancel: the transfer goes on.                          *)
ReapTimesOut(e) ==
    /\ Full(e) /\ ring[e][th[e].wait].io \in InDriver
    /\ Goto(e, "timeout")
    /\ UNCHANGED <<test, main, ring, wire>>

(* A timeout is counted and then the count is read again: 'R' may come     *)
(* between the two.                                                        *)
Timeout(e) ==
    /\ th[e].pc = "timeout"
    /\ IF test.aborted
       THEN th' = [th EXCEPT ![e].pc = "stop", ![e].i = 0]
       ELSE th' = [th EXCEPT ![e].pc = "counted", ![e].timeouts = @ + 1, ![e].i = 0]
    /\ UNCHANGED <<test, main, ring, wire>>

TimeoutCounted(e) ==
    /\ th[e].pc = "counted"
    /\ Goto(e, Count(th[e].timeouts))
    /\ UNCHANGED <<test, main, ring, wire>>

(* The endpoint is reset before the errors are counted.                    *)
Error(e) ==
    /\ th[e].pc = "error"
    /\ IF test.aborted
       THEN th' = [th EXCEPT ![e].pc = "stop", ![e].i = 0] /\ UNCHANGED ring
       ELSE /\ th' = [th EXCEPT ![e].pc = Count(th[e].errors + 1), ![e].errors = @ + 1,
                                ![e].i = 0]
            /\ usb_resetep(e)
    /\ UNCHANGED <<test, main, wire>>

ResetEndpoint(e) ==
    /\ th[e].pc = "reset"
    /\ usb_resetep(e)
    /\ Goto(e, "loop")
    /\ UNCHANGED <<test, main, wire>>

(* _usb_transfer_sync: chunk after chunk until one is short.  i counts     *)
(* them; the context is slot 0.                                            *)
SubmitSync(e) ==
    /\ th[e].pc = "submit" /\ mode = "sync"
    /\ Submitted(e, 0, FALSE)
    /\ th' = [th EXCEPT ![e].pc = "sync", ![e].i = @ + 1]
    /\ UNCHANGED <<test, main>>

(* The context is freed, and the result is that of all the chunks.         *)
SyncEnds(e) ==
    LET io == ring[e][0].io IN
    /\ th[e].pc = "sync" /\ io \notin InDriver
    /\ IF io = "full" /\ th[e].i < Chunks
       THEN Goto(e, "submit") /\ UNCHANGED ring
       ELSE /\ ring' = [ring EXCEPT ![e][0] = Freed(@)]
            /\ th' = [th EXCEPT ![e] = Transferred(@,
                 Result(IF io = "zero" /\ th[e].i > 1 THEN "short" ELSE io))]
    /\ UNCHANGED <<test, main, wire>>

(* _usb_cancel_io: the endpoint is aborted, and unless that fails the      *)
(* thread waits, however long it takes, until the driver is done.          *)
SyncTimesOut(e) ==
    /\ th[e].pc = "sync" /\ ring[e][0].io \in InDriver
    /\ \E ok \in AbortMaySucceed :
         /\ ring' = IF ok THEN [ring EXCEPT ![e] = Aborting(e)]
                    ELSE [ring EXCEPT ![e][0] = Freed(@)]
         /\ Goto(e, IF ok THEN "drain" ELSE "timeout")
    /\ UNCHANGED <<test, main, wire>>

(* A transfer that has ended in time after all counts as timed out.        *)
SyncDrained(e) ==
    /\ th[e].pc = "drain" /\ mode = "sync" /\ ring[e][0].io \notin InDriver
    /\ ring' = [ring EXCEPT ![e][0] = Freed(@)]
    /\ Goto(e, "timeout")
    /\ UNCHANGED <<test, main, wire>>

(* Done: every transfer in use is cancelled, and every context freed.      *)
CancelSlot(e) ==
    /\ th[e].pc = "stop" /\ th[e].i < BufferCount
    /\ ring[e][th[e].i].context /\ ring[e][th[e].i].inUse
    /\ \E ok \in AbortMaySucceed :
         /\ ring' = IF ok THEN [ring EXCEPT ![e] = Aborting(e)]
                    ELSE [ring EXCEPT ![e][th[e].i].inUse = FALSE]
         /\ Goto(e, IF ok THEN "drain" ELSE "stop")
    /\ UNCHANGED <<test, main, wire>>

\* Mutant: the program does not wait for a transfer it has cancelled.
SlotNotDrained(e) ==
    /\ th[e].pc = "drain" /\ mode = "async"
    /\ ring' = [ring EXCEPT ![e][th[e].i].inUse = FALSE]
    /\ Goto(e, "stop")
    /\ UNCHANGED <<test, main, wire>>
SlotDrained(e) ==
    /\ th[e].pc = "drain" /\ mode = "async" /\ ring[e][th[e].i].io \notin InDriver
    /\ ring' = [ring EXCEPT ![e][th[e].i].inUse = FALSE]
    /\ Goto(e, "stop")
    /\ UNCHANGED <<test, main, wire>>

FreeSlot(e) ==
    /\ th[e].pc = "stop" /\ th[e].i < BufferCount /\ ~ring[e][th[e].i].inUse
    /\ ring' = [ring EXCEPT ![e][th[e].i] = Freed(@)]
    /\ th' = [th EXCEPT ![e].i = @ + 1]
    /\ UNCHANGED <<test, main, wire>>

ThreadEnds(e) ==
    /\ th[e].pc = "stop" /\ th[e].i = BufferCount
    /\ th' = [th EXCEPT ![e].running = FALSE, ![e].pc = "exited"]
    /\ UNCHANGED <<test, main, ring, wire>>

(***************************************************************************)
(* The main thread.                                                        *)
(***************************************************************************)
(* A key starts the test, or 'Q' ends the program before it has begun.     *)
ResumeThreads ==
    /\ main = "ready"
    /\ main' = "running"
    /\ th' = [e \in Endpoints |-> [th[e] EXCEPT !.pc = "resumed"]]
    /\ UNCHANGED <<test, ring, wire>>

QuitEarly ==
    /\ main = "ready"
    /\ main' = "close"
    /\ UNCHANGED <<test, th, ring, wire>>

(* 'R': the running counters begin anew, but for the errors.  That it also *)
(* zeroes the count of a thread that has stopped is what cleared records.  *)
ResetRunningStatus ==
    /\ main = "running"
    /\ th' = [e \in Endpoints |-> [th[e] EXCEPT
            !.cleared = @ \/ (th[e].timeouts > Retry /\ th[e].pc # "counted"), !.timeouts = 0]]
    /\ UNCHANGED <<test, main, ring, wire>>

(* After each Sleep(Refresh): 'Q' may have been pressed, and the test ends *)
(* when a thread is not running.                                           *)
Watch ==
    /\ main = "running"
    /\ "SlowStart" \notin Env => \A e \in Endpoints : th[e].pc # "resumed"
    /\ \E q \in BOOLEAN :
         /\ q \/ \E e \in Endpoints : ~th[e].running
         /\ test' = [test EXCEPT !.cancelled = TRUE, !.aborted = q]
    /\ main' = "reset"
    /\ UNCHANGED <<th, ring, wire>>

(* The endpoints of the threads that still run are reset.                  *)
ResetRunning ==
    /\ main = "reset"
    /\ \E ok \in AbortMaySucceed :
         ring' = [e \in Endpoints |-> IF ok /\ th[e].running THEN Aborting(e) ELSE ring[e]]
    /\ main' = "join"
    /\ UNCHANGED <<test, th, wire>>

(* WaitForTestTransfer: a thread that has not started yet has no exit code. *)
Joined ==
    /\ main = "join"
    /\ \A e \in Endpoints : ~th[e].running /\ th[e].pc = "exited"
    /\ main' = "close"
    /\ UNCHANGED <<test, th, ring, wire>>

(* usb_close, and the parameters with the buffers are freed.               *)
Close ==
    /\ main = "close"
    /\ main' = "closed"
    /\ UNCHANGED <<test, th, ring, wire>>

(***************************************************************************)
(* The specification.                                                      *)
(***************************************************************************)
Thread(e) ==
    \/ ThreadStarts(e) \/ Loop(e)
    \/ SubmitAsync(e) \/ SubmitFails(e) \/ Reap(e) \/ ReapFails(e) \/ ReapTimesOut(e)
    \/ Timeout(e) \/ TimeoutCounted(e) \/ Error(e) \/ ResetEndpoint(e)
    \/ SubmitSync(e) \/ SyncEnds(e) \/ SyncTimesOut(e) \/ SyncDrained(e)
    \/ CancelSlot(e) \/ SlotDrained(e) \/ FreeSlot(e) \/ ThreadEnds(e)

Main ==
    \/ ResumeThreads \/ QuitEarly \/ ResetRunningStatus \/ Watch
    \/ ResetRunning \/ Joined \/ Close

Next ==
    \/ Main
    \/ \E e \in Endpoints :
         \/ Thread(e) \/ AbortedEnds(e)
         \/ \E io \in Completed \cup Failed : TransferEnds(e, io)

Spec == Init /\ [][Next]_vars

(* Threads run and waits time out; what is aborted ends; main looks again  *)
(* and again, but the user need not press a key and no transfer need end.  *)
FairSpec ==
    /\ Spec
    /\ \A e \in AllEndpoints :
         WF_vars(e \in Endpoints /\ Thread(e)) /\ WF_vars(e \in Endpoints /\ AbortedEnds(e))
    /\ WF_vars(ResetRunning \/ Joined \/ Close)
    /\ WF_vars(Watch /\ \E e \in Endpoints : ~th[e].running)

(***************************************************************************)
(* Properties.                                                             *)
(***************************************************************************)
TypeOK ==
    /\ main \in {"ready", "running", "reset", "join", "close", "closed"}
    /\ test.mode \in Modes /\ test.cancelled \in BOOLEAN /\ test.aborted \in BOOLEAN
    /\ th \in [Endpoints -> [pc : Pcs, running : BOOLEAN, timeouts : Nat, errors : Nat,
                            cleared : BOOLEAN, next : Slots, wait : Slots, outstanding : 0 .. BufferCount,
                            i : Nat]]
    /\ ring \in [Endpoints -> [Slots -> [context : BOOLEAN, inUse : BOOLEAN, io : Ios]]]
    /\ wire \in [Endpoints -> Seq(Slots)]

(* "The only way to guarantee this is to wait forever" (windows.c): the    *)
(* context of a transfer, and with it the buffer, is not given back while  *)
(* the driver has the transfer, whether it was reaped, timed out or was    *)
(* cancelled; nor is the device closed or the memory freed before that.    *)
FreedIsIdle ==
    \A e \in Endpoints : \A i \in Slots :
        ring[e][i].io \in InDriver => ring[e][i].context /\ main \notin {"close", "closed"}

(* The ring is a queue: the transfer a thread waits for is the oldest one, *)
(* the outstanding ones are those in use, and the driver has them in the   *)
(* order in which the thread will reap them; also after timeouts, errors   *)
(* and resets.  Age counts the slots between the oldest transfer and this. *)
Age(e, i) == (i - th[e].wait) % BufferCount
RingInOrder ==
    \A e \in Endpoints : mode = "async" /\ th[e].pc \notin {"stop", "drain", "exited"} =>
        /\ th[e].next = (th[e].wait + th[e].outstanding) % BufferCount
        /\ \A i \in Slots : ring[e][i].inUse <=> Age(e, i) < th[e].outstanding
        /\ {wire[e][m] : m \in DOMAIN wire[e]} =
              {i \in Slots : ring[e][i].inUse /\ ring[e][i].io \in InDriver}
        /\ \A m, n \in DOMAIN wire[e] : m < n => Age(e, wire[e][m]) < Age(e, wire[e][n])

(* A test the user has not ended ends because a thread has run out of      *)
(* retries, never because main has looked too early; the count that shows  *)
(* it is still there unless 'R' has zeroed it after the thread stopped.    *)
CancelledForReason ==
    test.cancelled /\ ~test.aborted =>
        \E e \in Endpoints :
            th[e].timeouts > Retry \/ th[e].errors > Retry \/ th[e].cleared

(* The end of the test, or of one thread, ends every thread and closes the *)
(* device, even when the device never completes a transfer.                *)
TestEnds ==
    (test.cancelled \/ \E e \in Endpoints : th[e].pc = "exited") ~> main = "closed"

=============================================================================

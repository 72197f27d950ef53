------------------------------- MODULE MCThreads -------------------------------
(***************************************************************************)
(* Small instances of the thread demonstrations of chapters 30 and 32, and *)
(* of the timed read() of chapter 23: a thread or a handler that may come  *)
(* between two steps of the program.  They share nothing: a behaviour runs *)
(* one of them, and the others stay in one of their initial states.        *)
(***************************************************************************)
EXTENDS Integers

CONSTANTS N, Argcs, MaxSpurious, Counts

MCArgcs == {1, 2}
MCCounts == {-1, 0, 1, 2, 3, 4}

VARIABLES
    program,                                       \* the one that runs
    mpc, idx, state, numLive, numUnjoined, threadMutex, tpc, tidx,
    argc, cleanupMain, cleanupThread, glob, mtx, buf, waiting, canceled,
    pushed, atSignal, spurious,
    timeout, restart, timedPc, alarm, fired, input, result,
    locked, incrMain, loops, incrGlob, incrMtx, incrPc, loc, j, printed

Reaping == INSTANCE MultiJoin
Cleanup == INSTANCE ThreadCleanup WITH mpc <- cleanupMain, tpc <- cleanupThread
Timed   == INSTANCE TimedRead WITH pc <- timedPc
Incr    == INSTANCE ThreadIncr WITH mpc <- incrMain, glob <- incrGlob,
                                    mtx <- incrMtx, pc <- incrPc

ASSUME ThreadsAssumption ==
    Reaping!MultiJoinAssumption /\ Cleanup!CleanupAssumption /\ Incr!IncrAssumption

reapingVars == <<mpc, idx, state, numLive, numUnjoined, threadMutex, tpc, tidx>>
cleanupVars == <<argc, cleanupMain, cleanupThread, glob, mtx, buf, waiting,
                 canceled, pushed, atSignal, spurious>>
timedVars == <<timeout, restart, timedPc, alarm, fired, input, result>>
incrVars == <<locked, incrMain, loops, incrGlob, incrMtx, incrPc, loc, j, printed>>
vars == <<program, reapingVars, cleanupVars, timedVars, incrVars>>

Init ==
    /\ Reaping!Init /\ Cleanup!Init /\ Timed!Init /\ Incr!Init
    /\ program \in {"reaping", "cleanup", "timed_read", "thread_incr"}
    /\ program # "timed_read" => timeout /\ ~restart /\ ~input
    /\ program # "thread_incr" => ~locked

(* Only the variables of one program may change.                           *)
Runs(name, others) == program = name /\ UNCHANGED <<program, others>>

ReapingRuns == Runs("reaping", <<cleanupVars, timedVars, incrVars>>)
CleanupRuns == Runs("cleanup", <<reapingVars, timedVars, incrVars>>)
TimedRuns   == Runs("timed_read", <<reapingVars, cleanupVars, incrVars>>)
IncrRuns    == Runs("thread_incr", <<reapingVars, cleanupVars, timedVars>>)

Next ==
    \/ ReapingRuns /\ Reaping!Next
    \/ CleanupRuns /\ Cleanup!Next
    \/ TimedRuns /\ Timed!Next
    \/ IncrRuns /\ Incr!Next

(* A thread that can run is run, and an alarm that is set comes; nothing   *)
(* makes a spurious wakeup happen, or anybody type a line.                 *)
FairSpec ==
    /\ Init /\ [][Next]_vars
    /\ WF_vars(ReapingRuns /\ Reaping!MainStep)
    /\ \A t \in Reaping!Threads :
           WF_vars(ReapingRuns /\ Reaping!ThreadStep(t))
    /\ WF_vars(CleanupRuns /\ Cleanup!MainStep)
    /\ WF_vars(CleanupRuns /\ Cleanup!ThreadStep)
    /\ WF_vars(TimedRuns /\ Timed!Program)
    /\ WF_vars(TimedRuns /\ Timed!AlarmFires)
    /\ WF_vars(IncrRuns /\ Incr!MainStep)
    /\ \A t \in Incr!Threads : WF_vars(IncrRuns /\ Incr!ThreadStep(t))

(* Every variable stays in its type: main counts each thread once and      *)
(* never waits, no block is freed twice, no thread counts a round twice.   *)
TypeOK == Reaping!TypeOK /\ Cleanup!TypeOK /\ Timed!TypeOK /\ Incr!TypeOK

(* numUnjoined is the number of threads past their critical section less   *)
(* the entries main has reaped (thread_multijoin.c:47 and 134-136), and    *)
(* main joins, holding the mutex, a thread that still needs it only when   *)
(* another thread misread its index (lines 34 and 126-127).                *)
CountersAgree == Reaping!CountersAgree /\ Reaping!StuckOnlyIfMisread

(* When every thread reads its index in time the process ends              *)
(* (thread_multijoin.c:34 and 126-127); a timed read() ends unless the     *)
(* alarm came before it or it is restarted (timed_read.c:37-39); and the   *)
(* counter programs end, no thread keeps the mutex another one waits for   *)
(* (thread_incr_mutex.c:17-24).                                            *)
EndsUnlessRaced ==
    /\ program = "reaping" => Reaping!EndsUnlessMisread
    /\ program = "timed_read" => Timed!TimesOut
    /\ program = "thread_incr" => Incr!Ends

(* With the mutex no addition is lost: what is printed counts every round  *)
(* of both threads (thread_incr_mutex.c:17-21).                            *)
ExactTotal == Incr!ExactTotal

(* Without the mutex additions are lost, but at least two survive and none *)
(* is counted twice (thread_incr.c:15-17), even when the compiler keeps the*)
(* global in a register.                                                   *)
LostButBounded == Incr!LostButBounded

(* "join threads whose state is terminated" (thread_multijoin.c:106): the  *)
(* thread main joins has terminated.                                       *)
JoinsTerminated == Reaping!JoinsTerminated

(* However the thread ends, block and mutex are given back, unless it was  *)
(* cancelled before the handler was pushed (thread_cleanup.c:33-43).       *)
CleansUp == Cleanup!CleansUp

(* What ends a wait is lost only in the window before it: the signal       *)
(* between the test and pthread_cond_wait(), as main sets the condition    *)
(* without the mutex (thread_cleanup.c:88), the alarm before read() is     *)
(* called (timed_read.c:37).                                               *)
LostOnlyInWindow == Cleanup!LostOnlyInWindow /\ Timed!LostOnlyInWindow
===============================================================================

----------------------------- MODULE ThreadCleanup -----------------------------
(***************************************************************************)
(* TLPI/chapter32/thread_cleanup.c: a thread with a block of memory and a  *)
(* mutex waits on a condition variable; main either cancels it or sets the *)
(* condition.  Cancellation is deferred: it takes effect in printf() and   *)
(* in pthread_cond_wait(), which takes the mutex back before it runs the   *)
(* cleanup handlers.                                                       *)
(***************************************************************************)
EXTENDS Naturals

CONSTANTS Argcs,      \* the values of argc to consider
          MaxSpurious \* bound: wakeups without a signal

CleanupAssumption == Argcs \subseteq Nat \ {0} /\ MaxSpurious \in Nat

VARIABLES
    argc,
    mpc,        \* main: next statement, or how the process ended
    tpc,        \* the thread: next statement, or how it ended
    glob,
    mtx,        \* who holds it
    buf,        \* the block: "none", "live", "free", "twice" freed
    waiting,    \* the thread is in the queue of the condition variable
    canceled,   \* a cancellation request is pending or was acted upon
    pushed,     \* the handler is on the thread's cleanup stack
    atSignal,   \* where the thread was when main signalled
    spurious

threadVars == <<tpc, mtx, buf, waiting, pushed, spurious>>
mainVars   == <<argc, mpc, glob, canceled, atSignal>>
vars == <<threadVars, mainVars>>

FREE == "free"
THREAD == "thread"

MainPc == {"create", "sleep", "cancel", "setGlob", "signal", "join", "exited", "failed"}
ThreadPc == {"none", "malloc", "printf", "lock", "push", "while", "wait", "waiting",
             "relock", "completed", "free", "unlock", "returned", "canceled"}

ProcessUp == mpc \notin {"exited", "failed"}
Ended == tpc \in {"returned", "canceled"}

Init ==
    /\ argc \in Argcs
    /\ mpc = "create" /\ tpc = "none"
    /\ glob = 0 /\ mtx = FREE /\ buf = "none"
    /\ waiting = FALSE /\ canceled = FALSE /\ pushed = FALSE
    /\ atSignal = "none" /\ spurious = 0

-------------------------------------------------------------------------------
(* threadFunc.                                                             *)

At(pc) == ProcessUp /\ tpc = pc

Malloc ==
    /\ At("malloc")
    /\ buf' = "live" /\ tpc' = "printf"
    /\ UNCHANGED <<mtx, waiting, pushed, spurious, mainVars>>

(* The two calls of printf(); between malloc and push nothing is undone.   *)
(* printf() acts on a request only when it writes.                         *)
PrintAllocated ==
    /\ At("printf")
    /\ \/ tpc' = "lock"
       \/ canceled /\ tpc' = "canceled"
    /\ UNCHANGED <<mtx, buf, waiting, pushed, spurious, mainVars>>

Lock ==
    /\ At("lock") /\ mtx = FREE
    /\ mtx' = THREAD /\ tpc' = "push"
    /\ UNCHANGED <<buf, waiting, pushed, spurious, mainVars>>

Push ==
    /\ At("push")
    /\ pushed' = TRUE /\ tpc' = "while"
    /\ UNCHANGED <<mtx, buf, waiting, spurious, mainVars>>

(* Mutant: the condition is not tested.                                    *)
WhileGlob_NoTest ==
    /\ At("while")
    /\ tpc' = "wait"
    /\ UNCHANGED <<mtx, buf, waiting, pushed, spurious, mainVars>>

WhileGlob ==
    /\ At("while")
    /\ tpc' = IF glob = 0 THEN "wait" ELSE "completed"
    /\ UNCHANGED <<mtx, buf, waiting, pushed, spurious, mainVars>>

(* A pending request is acted upon at once; else the mutex is released and *)
(* the thread queued in one step.                                          *)
Wait ==
    /\ At("wait")
    /\ IF canceled
       THEN tpc' = "relock" /\ UNCHANGED waiting
       ELSE tpc' = "waiting" /\ waiting' = TRUE
    /\ mtx' = FREE
    /\ UNCHANGED <<buf, pushed, spurious, mainVars>>

(* Signalled or cancelled, the thread wants the mutex back.                *)
Wake ==
    /\ At("waiting")
    /\ ~waiting \/ canceled
    /\ waiting' = FALSE /\ tpc' = "relock"
    /\ UNCHANGED <<mtx, buf, pushed, spurious, mainVars>>

SpuriousWake ==
    /\ At("waiting")
    /\ spurious < MaxSpurious /\ spurious' = spurious + 1
    /\ waiting' = FALSE /\ tpc' = "relock"
    /\ UNCHANGED <<mtx, buf, pushed, mainVars>>

Relock ==
    /\ At("relock") /\ mtx = FREE
    /\ mtx' = THREAD
    /\ IF canceled
       THEN tpc' = (IF pushed THEN "free" ELSE "canceled") /\ pushed' = FALSE
       ELSE tpc' = "while" /\ UNCHANGED pushed
    /\ UNCHANGED <<buf, waiting, spurious, mainVars>>

(* Mutant: pthread_cleanup_pop(0).                                         *)
Pop_NoExecute ==
    /\ At("completed")
    /\ pushed' = FALSE /\ tpc' = "returned"
    /\ UNCHANGED <<mtx, buf, waiting, spurious, mainVars>>

(* printf() and pthread_cleanup_pop(1).                                    *)
Pop ==
    /\ At("completed")
    /\ pushed' = FALSE /\ tpc' = "free"
    /\ UNCHANGED <<mtx, buf, waiting, spurious, mainVars>>

(* cleanHandler.                                                           *)
HandlerFree ==
    /\ At("free")
    /\ buf' = IF buf = "live" THEN "free" ELSE "twice"
    /\ tpc' = "unlock"
    /\ UNCHANGED <<mtx, waiting, pushed, spurious, mainVars>>

HandlerUnlock ==
    /\ At("unlock")
    /\ mtx' = FREE
    /\ tpc' = IF canceled THEN "canceled" ELSE "returned"
    /\ UNCHANGED <<buf, waiting, pushed, spurious, mainVars>>

ThreadStep ==
    \/ Malloc \/ PrintAllocated \/ Lock \/ Push \/ WhileGlob \/ Wait \/ Wake
    \/ Relock \/ Pop \/ HandlerFree \/ HandlerUnlock

-------------------------------------------------------------------------------
(* main.                                                                   *)

Create ==
    /\ mpc = "create"
    /\ \/ mpc' = "sleep" /\ tpc' = "malloc"
       \/ mpc' = "failed" /\ UNCHANGED tpc
    /\ UNCHANGED <<mtx, buf, waiting, pushed, spurious, argc, glob, canceled, atSignal>>

Sleep ==
    /\ mpc = "sleep"
    /\ mpc' = IF argc = 1 THEN "cancel" ELSE "setGlob"
    /\ UNCHANGED <<threadVars, argc, glob, canceled, atSignal>>

Cancel ==
    /\ mpc = "cancel"
    /\ canceled' = TRUE
    /\ mpc' = "join"
    /\ UNCHANGED <<threadVars, argc, glob, atSignal>>

(* Without the mutex.                                                      *)
SetGlob ==
    /\ mpc = "setGlob"
    /\ glob' = 1
    /\ mpc' = "signal"
    /\ UNCHANGED <<threadVars, argc, canceled, atSignal>>

Signal ==
    /\ mpc = "signal"
    /\ waiting' = FALSE
    /\ atSignal' = tpc
    /\ mpc' = "join"
    /\ UNCHANGED <<tpc, mtx, buf, pushed, spurious, argc, glob, canceled>>

Join ==
    /\ mpc = "join"
    /\ Ended
    /\ mpc' = "exited"
    /\ UNCHANGED <<threadVars, argc, glob, canceled, atSignal>>

MainStep == Create \/ Sleep \/ Cancel \/ SetGlob \/ Signal \/ Join

Next == MainStep \/ ThreadStep \/ SpuriousWake

Spec == Init /\ [][Next]_vars

-------------------------------------------------------------------------------
(* Properties.                                                             *)

(* Every variable stays in its type.                                       *)
TypeOK ==
    /\ argc \in Argcs /\ mpc \in MainPc /\ tpc \in ThreadPc
    /\ glob \in {0, 1} /\ mtx \in {FREE, THREAD}
    /\ buf \in {"none", "live", "free"}
    /\ waiting \in BOOLEAN /\ canceled \in BOOLEAN /\ pushed \in BOOLEAN
    /\ atSignal \in ThreadPc /\ spurious \in 0..MaxSpurious
    /\ waiting => tpc = "waiting"

(* However the thread ends, block and mutex are given back, unless it was  *)
(* cancelled before the handler was pushed (thread_cleanup.c:33-43).       *)
CleansUp ==
    [][ tpc' \in {"returned", "canceled"} /\ tpc # "printf" =>
            buf' = "free" /\ mtx' = FREE ]_tpc

(* A signal is lost only between the test and the wait: main sets the      *)
(* condition without the mutex (thread_cleanup.c:88).                      *)
LostOnlyInWindow == mpc = "join" /\ glob = 1 /\ waiting => atSignal = "wait"
===============================================================================

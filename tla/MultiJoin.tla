------------------------------- MODULE MultiJoin -------------------------------
(***************************************************************************)
(* TLPI/chapter30/thread_multijoin.c: main creates N threads and reaps     *)
(* those that have terminated.  Each thread learns which one it is from    *)
(* main's loop variable, through a pointer, whenever it gets to run.       *)
(***************************************************************************)
EXTENDS Integers, FiniteSets

CONSTANT N        \* argc - 1

MultiJoinAssumption == N \in Nat \ {0}

VARIABLES
    mpc,          \* main: next statement, or how the process ended
    idx,          \* main's loop variable, which the threads read
    state,        \* thread[k].state
    numLive, numUnjoined,
    threadMutex,  \* who holds it
    tpc,          \* each thread: next statement
    tidx          \* what the thread read from main's idx, -1 before

mainVars == <<mpc, idx, numLive>>
vars == <<mainVars, state, numUnjoined, threadMutex, tpc, tidx>>

Threads == 0..N - 1
MAIN == -1
FREE == -2

(* The statement of main that waits for a signal, "wait", is not among     *)
(* them: it is never reached, see WhileNone.                               *)
MainPc == {"create", "created", "numLive", "while", "lock", "whileNone",
           "for", "join", "unlock", "exit", "exited", "failed", "aborted"}
ThreadPc == {"none", "read", "lock", "terminate", "unlock", "signal", "done"}

ProcessUp == mpc \notin {"exited", "failed", "aborted"}

Init ==
    /\ mpc = "create" /\ idx = 0
    /\ state = [k \in Threads |-> "ALIVE"]
    /\ numLive = 0 /\ numUnjoined = 0
    /\ threadMutex = FREE
    /\ tpc = [t \in Threads |-> "none"]
    /\ tidx = [t \in Threads |-> -1]

-------------------------------------------------------------------------------
(* threadFunc.                                                             *)

ThreadGoto(t, pc) == tpc' = [tpc EXCEPT ![t] = pc]

(* The pointer is followed once, at an arbitrary time after the creation;  *)
(* the thread then sleeps for as long as the entry it found says.          *)
ReadIdx(t) ==
    /\ ProcessUp /\ tpc[t] = "read"
    /\ tidx' = [tidx EXCEPT ![t] = idx]
    /\ ThreadGoto(t, "lock")
    /\ UNCHANGED <<mainVars, state, numUnjoined, threadMutex>>

ThreadLock(t) ==
    /\ ProcessUp /\ tpc[t] = "lock"
    /\ threadMutex = FREE
    /\ threadMutex' = t
    /\ ThreadGoto(t, "terminate")
    /\ UNCHANGED <<mainVars, state, numUnjoined, tidx>>

(* Mutant: only the state is set.                                          *)
Terminate_NoCount(t) ==
    /\ ProcessUp /\ tpc[t] = "terminate"
    /\ tidx[t] \in Threads
    /\ state' = [state EXCEPT ![tidx[t]] = "TERMINATED"]
    /\ ThreadGoto(t, "unlock")
    /\ UNCHANGED <<mainVars, numUnjoined, threadMutex, tidx>>

(* A thread that read N, the value idx has between the loops, writes past  *)
(* the end of the array: into the size of the next block of the heap.      *)
Terminate(t) ==
    /\ ProcessUp /\ tpc[t] = "terminate"
    /\ numUnjoined' = numUnjoined + 1
    /\ \/ /\ tidx[t] \in Threads
          /\ state' = [state EXCEPT ![tidx[t]] = "TERMINATED"]
          /\ UNCHANGED mpc
       \/ /\ tidx[t] = N
          /\ mpc' \in {mpc, "aborted"}
          /\ UNCHANGED state
    /\ ThreadGoto(t, "unlock")
    /\ UNCHANGED <<idx, numLive, threadMutex, tidx>>

ThreadUnlock(t) ==
    /\ ProcessUp /\ tpc[t] = "unlock"
    /\ threadMutex' = FREE
    /\ ThreadGoto(t, "signal")
    /\ UNCHANGED <<mainVars, state, numUnjoined, tidx>>

(* pthread_cond_signal() with nobody waiting, see WhileNone.               *)
Signal(t) ==
    /\ ProcessUp /\ tpc[t] = "signal"
    /\ ThreadGoto(t, "done")
    /\ UNCHANGED <<mainVars, state, numUnjoined, threadMutex, tidx>>

ThreadStep(t) ==
    \/ ReadIdx(t) \/ ThreadLock(t) \/ Terminate(t) \/ ThreadUnlock(t) \/ Signal(t)

-------------------------------------------------------------------------------
(* main.                                                                   *)

(* One round of the first loop up to the increment of idx.                 *)
CreateThread ==
    /\ mpc = "create"
    /\ \/ /\ idx < N
          /\ state' = [state EXCEPT ![idx] = "ALIVE"]
          /\ \/ mpc' = "created" /\ ThreadGoto(idx, "read")
             \/ mpc' = "failed" /\ UNCHANGED tpc
       \/ /\ idx = N
          /\ mpc' = "numLive"
          /\ UNCHANGED <<state, tpc>>
    /\ UNCHANGED <<idx, numLive, numUnjoined, threadMutex, tidx>>

NextIdx ==
    /\ mpc = "created"
    /\ idx' = idx + 1
    /\ mpc' = "create"
    /\ UNCHANGED <<numLive, state, numUnjoined, threadMutex, tpc, tidx>>

(* Mutant: argc in place of argc - 1.                                      *)
SetNumLive_Argc ==
    /\ mpc = "numLive"
    /\ numLive' = N + 1
    /\ mpc' = "while"
    /\ UNCHANGED <<idx, state, numUnjoined, threadMutex, tpc, tidx>>

SetNumLive ==
    /\ mpc = "numLive"
    /\ numLive' = N
    /\ mpc' = "while"
    /\ UNCHANGED <<idx, state, numUnjoined, threadMutex, tpc, tidx>>

WhileLive ==
    /\ mpc = "while"
    /\ mpc' = IF numLive > 0 THEN "lock" ELSE "unlock"
    /\ UNCHANGED <<idx, numLive, state, numUnjoined, threadMutex, tpc, tidx>>

(* A default mutex: its owner would wait for itself.                       *)
MainLock ==
    /\ mpc = "lock"
    /\ threadMutex = FREE
    /\ threadMutex' = MAIN
    /\ mpc' = "whileNone"
    /\ UNCHANGED <<idx, numLive, state, numUnjoined, tpc, tidx>>

(* The inner loop waits while nobody lives; no state gets there.           *)
WhileNone ==
    /\ mpc = "whileNone"
    /\ IF numLive = 0
       THEN mpc' = "wait" /\ threadMutex' = FREE /\ UNCHANGED idx
       ELSE mpc' = "for" /\ idx' = 0 /\ UNCHANGED threadMutex
    /\ UNCHANGED <<numLive, state, numUnjoined, tpc, tidx>>

(* The loop's test, and the test of the thread's state.                    *)
ForTest ==
    /\ mpc = "for"
    /\ mpc' = IF idx = N THEN "while" ELSE "join"
    /\ UNCHANGED <<idx, numLive, state, numUnjoined, threadMutex, tpc, tidx>>

(* One entry of the array: pthread_join() waits for a thread whose entry   *)
(* says TERMINATED; every entry becomes JOINED and is counted.             *)
Reap ==
    /\ mpc = "join"
    /\ state[idx] = "TERMINATED" => tpc[idx] = "done"
    /\ state' = [state EXCEPT ![idx] = "JOINED"]
    /\ numLive' = numLive - 1 /\ numUnjoined' = numUnjoined - 1
    /\ idx' = idx + 1
    /\ mpc' = "for"
    /\ UNCHANGED <<threadMutex, tpc, tidx>>

MainUnlock ==
    /\ mpc = "unlock"
    /\ threadMutex' = FREE
    /\ mpc' = "exit"
    /\ UNCHANGED <<idx, numLive, state, numUnjoined, tpc, tidx>>

(* Until exit() ends them, threads that waited for the mutex go on.        *)
MainExit ==
    /\ mpc = "exit"
    /\ mpc' = "exited"
    /\ UNCHANGED <<idx, numLive, state, numUnjoined, threadMutex, tpc, tidx>>

MainStep ==
    \/ CreateThread \/ NextIdx \/ SetNumLive \/ WhileLive \/ MainLock \/ WhileNone
    \/ ForTest \/ Reap \/ MainUnlock \/ MainExit

Next == MainStep \/ \E t \in Threads : ThreadStep(t)

Spec == Init /\ [][Next]_vars

-------------------------------------------------------------------------------
(* Properties.                                                             *)

(* Every variable stays in its type; main counts every thread once.        *)
TypeOK ==
    /\ mpc \in MainPc /\ idx \in 0..N
    /\ state \in [Threads -> {"ALIVE", "TERMINATED", "JOINED"}]
    /\ numLive \in 0..N /\ numUnjoined \in -N..N
    /\ threadMutex \in Threads \cup {MAIN, FREE}
    /\ tpc \in [Threads -> ThreadPc]
    /\ tidx \in [Threads -> -1..N]

Ended == {t \in Threads : tpc[t] \in {"unlock", "signal", "done"}}
Joined == {k \in Threads : state[k] = "JOINED"}

(* How many entries main has reaped: all that numLive no longer counts.    *)
Reaped == IF mpc \in {"create", "created", "numLive", "failed"} THEN 0 ELSE N - numLive

(* The counters and the array say the same: numUnjoined is the number of   *)
(* threads past their critical section, less the entries main has reaped;  *)
(* and these are the entries that say JOINED until main gives the mutex    *)
(* back for the last time.  A thread that ends between this and exit() may *)
(* still set an entry back to TERMINATED; no entry is ALIVE again.         *)
CountersAgree ==
    /\ mpc # "aborted" => numUnjoined + Reaped = Cardinality(Ended)
    /\ mpc \notin {"exit", "exited", "aborted"} => Cardinality(Joined) = Reaped
    /\ mpc \in {"exit", "exited"} =>
           \A k \in Threads \ Joined :
               state[k] = "TERMINATED" /\ \E t \in Ended : tidx[t] = k

(* main waits for a thread that still needs the mutex, which main holds,   *)
(* only when another thread took that thread's index for its own.          *)
StuckOnlyIfMisread ==
    mpc = "join" /\ state[idx] = "TERMINATED" /\ idx \notin Ended =>
        \E t \in Threads \ {idx} : tidx[t] = idx

(* When every thread reads its index in time the process ends.             *)
EndsUnlessMisread ==
    (\A t \in Threads : [](tidx[t] \in {-1, t})) => <>~ProcessUp

(* "join threads whose state is terminated" (thread_multijoin.c:106): the  *)
(* thread main joins has terminated.                                       *)
JoinsTerminated ==
    mpc = "join" /\ state[idx] = "TERMINATED" => idx \in Ended
===============================================================================

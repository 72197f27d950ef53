------------------------------ MODULE ThreadIncr ------------------------------
(***************************************************************************)
(* TLPI/chapter30/thread_incr.c and thread_incr_mutex.c: two threads add   *)
(* to the same global, without and with a mutex around the addition.       *)
(***************************************************************************)
EXTENDS Integers

CONSTANT Counts   \* what atoi() may return for the number of rounds

IncrAssumption == Counts \subseteq Int

VARIABLES
    locked,    \* TRUE: thread_incr_mutex.c runs, FALSE: thread_incr.c
    mpc,       \* main: next statement, or how the process ended
    loops,
    glob,
    mtx,       \* the thread that holds the mutex, 0: none
    pc,        \* each thread: next statement
    loc,       \* its copy of glob
    j,         \* rounds it has completed
    printed    \* what main printed, -1 before

mainVars == <<mpc, loops, printed>>
vars == <<locked, mainVars, glob, mtx, pc, loc, j>>

Threads == {1, 2}
MainPc == {"args", "create1", "create2", "join1", "join2", "print",
           "exited", "failed", "crashed"}
ThreadPc == {"none", "start", "lock", "load", "store", "unlock", "done"}

(* Threads run until they return or the process ends under them.           *)
ProcessUp == mpc \notin {"exited", "failed", "crashed"}

Rounds == IF loops > 0 THEN loops ELSE 0

Init ==
    /\ locked \in BOOLEAN
    /\ mpc = "args" /\ loops = 0 /\ printed = -1
    /\ glob = 0 /\ mtx = 0
    /\ pc = [t \in Threads |-> "none"]
    /\ loc = [t \in Threads |-> 0]
    /\ j = [t \in Threads |-> 0]

-------------------------------------------------------------------------------
(* threadFunc.                                                             *)

Goto(t, next) == pc' = [pc EXCEPT ![t] = next]

LoopBody == IF locked THEN "lock" ELSE "load"

(* The loop's test, before each round; n rounds have been completed.       *)
TestLoop(t, n) == Goto(t, IF n < loops THEN LoopBody ELSE "done")

StartThread(t) ==
    /\ ProcessUp /\ pc[t] = "start"
    /\ TestLoop(t, 0)
    /\ UNCHANGED <<mainVars, glob, mtx, loc, j>>

(* Mutant: the result of the lock is not waited for (trylock).             *)
Lock_Try(t) ==
    /\ ProcessUp /\ pc[t] = "lock"
    /\ mtx' = t
    /\ Goto(t, "load")
    /\ UNCHANGED <<mainVars, glob, loc, j>>

Lock(t) ==
    /\ ProcessUp /\ pc[t] = "lock"
    /\ mtx = 0
    /\ mtx' = t
    /\ Goto(t, "load")
    /\ UNCHANGED <<mainVars, glob, loc, j>>

Load(t) ==
    /\ ProcessUp /\ pc[t] = "load"
    /\ loc' = [loc EXCEPT ![t] = glob]
    /\ Goto(t, "store")
    /\ UNCHANGED <<mainVars, glob, mtx, j>>

(* Without the mutex the accesses race, and a compiler may keep glob in a  *)
(* register over any number of rounds; the calls of the mutex forbid it.   *)
RoundsPerStore(t) == IF locked THEN {1} ELSE 1..(loops - j[t])

(* Mutant: the value loaded is stored back.                                *)
Store_Old(t) ==
    /\ ProcessUp /\ pc[t] = "store"
    /\ \E k \in RoundsPerStore(t) :
        /\ glob' = loc[t]
        /\ j' = [j EXCEPT ![t] = @ + k]
        /\ IF locked THEN Goto(t, "unlock") ELSE TestLoop(t, j[t] + k)
    /\ UNCHANGED <<mainVars, mtx, loc>>

Store(t) ==
    /\ ProcessUp /\ pc[t] = "store"
    /\ \E k \in RoundsPerStore(t) :
        /\ glob' = loc[t] + k
        /\ j' = [j EXCEPT ![t] = @ + k]
        /\ IF locked THEN Goto(t, "unlock") ELSE TestLoop(t, j[t] + k)
    /\ UNCHANGED <<mainVars, mtx, loc>>

Unlock(t) ==
    /\ ProcessUp /\ pc[t] = "unlock"
    /\ mtx' = 0
    /\ TestLoop(t, j[t])
    /\ UNCHANGED <<mainVars, glob, loc, j>>

ThreadStep(t) ==
    /\ StartThread(t) \/ Lock(t) \/ Load(t) \/ Store(t) \/ Unlock(t)
    /\ UNCHANGED locked

-------------------------------------------------------------------------------
(* main.                                                                   *)

(* With exactly one argument argc > 1 holds and argv[2] is the null        *)
(* pointer that ends argv.                                                 *)
ParseArgs ==
    /\ mpc = "args"
    /\ \/ loops' \in Counts /\ mpc' = "create1"
       \/ mpc' = "crashed" /\ UNCHANGED loops
    /\ UNCHANGED <<printed, glob, mtx, pc, loc, j>>

Create(t, at, next) ==
    /\ mpc = at
    /\ \/ mpc' = next /\ Goto(t, "start")
       \/ mpc' = "failed" /\ UNCHANGED pc
    /\ UNCHANGED <<loops, printed, glob, mtx, loc, j>>

CreateFirst  == Create(1, "create1", "create2")
CreateSecond == Create(2, "create2", "join1")

Join(t, at, next) ==
    /\ mpc = at
    /\ pc[t] = "done"
    /\ mpc' = next
    /\ UNCHANGED <<loops, printed, glob, mtx, pc, loc, j>>

JoinFirst == Join(1, "join1", "join2")

JoinSecond == Join(2, "join2", "print")

PrintGlob ==
    /\ mpc = "print"
    /\ printed' = glob
    /\ mpc' = "exited"
    /\ UNCHANGED <<loops, glob, mtx, pc, loc, j>>

MainStep ==
    /\ \/ ParseArgs \/ CreateFirst \/ CreateSecond
       \/ JoinFirst \/ JoinSecond \/ PrintGlob
    /\ UNCHANGED locked

Next == MainStep \/ \E t \in Threads : ThreadStep(t)

Spec == Init /\ [][Next]_vars

-------------------------------------------------------------------------------
(* Properties.                                                             *)

(* Every variable stays in its type.                                       *)
TypeOK ==
    /\ locked \in BOOLEAN
    /\ mpc \in MainPc /\ loops \in Counts \cup {0}
    /\ glob \in Nat /\ mtx \in Threads \cup {0}
    /\ pc \in [Threads -> ThreadPc]
    /\ loc \in [Threads -> Nat]
    /\ j \in [Threads -> 0..Rounds]
    /\ printed \in Nat \cup {-1}

(* With the mutex no addition is lost: what is printed counts every round  *)
(* of both threads (thread_incr_mutex.c:17-21).                            *)
ExactTotal == locked /\ mpc = "exited" => printed = 2 * Rounds

(* Without the mutex additions are lost, but never all: the store of a     *)
(* thread's last round is based on something, and the total exceeds        *)
(* neither the rounds of both (thread_incr.c:15-17).                       *)
LostButBounded ==
    mpc = "exited" =>
        /\ printed <= 2 * Rounds
        /\ Rounds >= 2 => printed >= 2

(* The process ends: no thread keeps the mutex another one waits for.      *)
Ends == <>~ProcessUp

(* At any time, in both programs, glob counts no round twice.              *)
NeverTooMany == glob <= j[1] + j[2]

(* With the mutex every store adds to what the other thread stored last.   *)
StoresAddOne == [][locked /\ glob' # glob => glob' = glob + 1]_vars

-------------------------------------------------------------------------------
(* The inductive invariant of the proofs.                                  *)

InSection(t) == pc[t] \in {"load", "store", "unlock"}

MutexInv ==
    /\ locked => \A t \in Threads : InSection(t) <=> mtx = t
    /\ ~locked => \A t \in Threads : pc[t] \notin {"lock", "unlock"}

LoopInv ==
    \A t \in Threads :
        /\ pc[t] \in {"none", "start"} => j[t] = 0
        /\ pc[t] \in {"lock", "load", "store"} => j[t] < loops
        /\ pc[t] = "done" => j[t] = Rounds

CountInv ==
    /\ NeverTooMany
    /\ \A t \in Threads : loc[t] <= j[1] + j[2]
    /\ locked => glob = j[1] + j[2]
    /\ locked => \A t \in Threads : pc[t] = "store" => loc[t] = glob

(* A thread past its first store has seen a global that is not 0.          *)
NotAllLost ==
    /\ j[1] + j[2] >= 1 => glob >= 1
    /\ \A t \in Threads : pc[t] = "store" /\ j[t] >= 1 => loc[t] >= 1
    /\ pc[1] = "done" /\ pc[2] = "done" /\ Rounds >= 2 => glob >= 2

MainInv ==
    /\ mpc = "args" => loops = 0
    /\ mpc \in {"args", "create1"} => pc[1] = "none"
    /\ mpc \in {"args", "create1", "create2"} => pc[2] = "none"
    /\ mpc \in {"join2", "print", "exited"} => pc[1] = "done"
    /\ mpc \in {"print", "exited"} => pc[2] = "done"
    /\ mpc = "exited" => printed = glob

IInv == TypeOK /\ MutexInv /\ LoopInv /\ CountInv /\ NotAllLost /\ MainInv
===============================================================================

------------------------------ MODULE MultiWait ------------------------------
(***************************************************************************)
(* TLPI/chapter26/multi_wait.c: forks in a loop and waits for the children *)
(* in another.  A child that has slept goes on in the loop of its parent   *)
(* and forks children of its own, so that a process is known by the values *)
(* of j at which it and its ancestors were forked.                         *)
(***************************************************************************)
EXTENDS Integers, FiniteSets, FiniteSetsExt

CONSTANT argc    \* the arguments, with the program's name

MultiWaitAssumption == argc \in Nat /\ argc >= 2

VARIABLES
    pc,        \* each process: "none", "loop", "sleep", "bye", "error"
    j,         \* the loop's counter
    numDead,   \* children wait() has returned
    reaped     \* processes a wait() has returned

vars == <<pc, j, numDead, reaped>>

Procs == SUBSET (0..argc - 1)
Main == {}

Parent(p) == p \ {Max(p)}
Forked(p) == pc[p] # "none"
Ended(p) == pc[p] \in {"bye", "error"}
Children(p) == {c \in Procs \ {Main} : Parent(c) = p /\ Forked(c)}

Init ==
    /\ pc = [p \in Procs |-> IF p = Main THEN "loop" ELSE "none"]
    /\ j = [p \in Procs |-> 0]
    /\ numDead = [p \in Procs |-> 0]
    /\ reaped = {}

-------------------------------------------------------------------------------
(* fork() in the parent; a failure ends it and leaves its children to init.*)
Fork(p) ==
    /\ pc[p] = "loop" /\ j[p] < argc
    /\ LET c == p \cup {j[p]} IN
        \/ /\ pc' = [pc EXCEPT ![c] = "sleep"]
           /\ j' = [j EXCEPT ![c] = j[p], ![p] = @ + 1]
        \/ /\ pc' = [pc EXCEPT ![p] = "error"]
           /\ UNCHANGED j
    /\ UNCHANGED <<numDead, reaped>>

(* Falling from case 0 into default, the child goes on with its copy of j. *)
SleepOver(p) ==
    /\ pc[p] = "sleep"
    /\ pc' = [pc EXCEPT ![p] = "loop"]
    /\ j' = [j EXCEPT ![p] = @ + 1]
    /\ UNCHANGED <<numDead, reaped>>

(* Mutant: wait() does not wait, and the loop ends when nobody is dead yet.*)
X_NoMoreChildren(p) ==
    /\ pc[p] = "loop" /\ j[p] = argc
    /\ \A c \in Children(p) \ reaped : ~Ended(c)
    /\ pc' = [pc EXCEPT ![p] = "bye"]
    /\ UNCHANGED <<j, numDead, reaped>>

(* wait() returns a child that has ended.                                  *)
WaitReturns(p) ==
    /\ pc[p] = "loop" /\ j[p] = argc
    /\ \E c \in Children(p) \ reaped :
        /\ Ended(c)
        /\ reaped' = reaped \cup {c}
    /\ numDead' = [numDead EXCEPT ![p] = @ + 1]
    /\ UNCHANGED <<pc, j>>

(* wait() fails with ECHILD.                                               *)
NoMoreChildren(p) ==
    /\ pc[p] = "loop" /\ j[p] = argc
    /\ Children(p) \subseteq reaped
    /\ pc' = [pc EXCEPT ![p] = "bye"]
    /\ UNCHANGED <<j, numDead, reaped>>

Step(p) == Fork(p) \/ SleepOver(p) \/ WaitReturns(p) \/ NoMoreChildren(p)

Next == \E p \in Procs : Step(p)

Spec == Init /\ [][Next]_vars

Descendants(p) == {d \in Procs : p \subseteq d /\ d # p /\ \A i \in d \ p, k \in p : k < i}

-------------------------------------------------------------------------------
TypeOK ==
    /\ pc \in [Procs -> {"none", "loop", "sleep", "bye", "error"}]
    /\ j \in [Procs -> 0..argc]
    /\ reaped \subseteq {p \in Procs : Ended(p)}
    /\ \A p \in Procs : numDead[p] = Cardinality(Children(p) \cap reaped)

(* Lines 39-60: as every process waits for its children, one that says     *)
(* "No more children - bye!" has no descendant left, neither running nor a *)
(* zombie, unless a fork() failed below it.                                *)
ByeMeansAlone ==
    \A p \in Procs : pc[p] = "bye" =>
        \/ \E d \in Descendants(p) : pc[d] = "error"
        \/ \A d \in Descendants(p) : Forked(d) => pc[d] = "bye" /\ d \in reaped

(* Line 42: processes of all generations wait for each other and all end.  *)
AllEnd == <>(\A p \in Procs : Forked(p) => Ended(p))
=============================================================================

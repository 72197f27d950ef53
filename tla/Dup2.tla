--------------------------------- MODULE Dup2 ---------------------------------
(***************************************************************************)
(* TLPI/chapter5/exercise/dup.c: dup() and dup2() written with fcntl(), in *)
(* a program that is started with any set of open descriptors.             *)
(***************************************************************************)
EXTENDS Integers, FiniteSetsExt

CONSTANTS
    OpenMax,      \* sysconf(_SC_OPEN_MAX)
    Closed,       \* what a closed descriptor stands for
    Other         \* a file that was open before

TestFile == "test.txt"

DupAssumption == OpenMax \in Nat /\ OpenMax > 3 /\ Closed \notin {Other, TestFile}

VARIABLES
    pc,           \* the next call of main(): "open", "dup", "dup2", "done", "failed"
    table,        \* the descriptor table
    before,       \* the table before the last call
    fd,           \* the descriptor of test.txt
    newFd, ret    \* argument and result of my_dup2()

vars == <<pc, table, before, fd, newFd, ret>>

Fds == 0..OpenMax - 1

Init ==
    /\ pc = "open" /\ fd = -1 /\ newFd = -1 /\ ret = -1
    /\ table \in [Fds -> {Closed, Other}] /\ before = table

-------------------------------------------------------------------------------
Valid(t, f) == f \in Fds /\ t[f] # Closed
FreeFrom(t, m) == {f \in Fds : f >= m /\ t[f] = Closed}

(* fcntl(old, F_DUPFD, m): the lowest free descriptor from m on, or -1.    *)
Dupfd(t, old, m) ==
    IF Valid(t, old) /\ m \in Fds /\ FreeFrom(t, m) # {} THEN Min(FreeFrom(t, m)) ELSE -1
Copied(t, old, new) == IF new = -1 THEN t ELSE [t EXCEPT ![new] = t[old]]

Open ==
    /\ pc = "open"
    /\ \/ /\ FreeFrom(table, 0) # {}
          /\ fd' = Min(FreeFrom(table, 0))
          /\ table' = [table EXCEPT ![fd'] = TestFile]
          /\ pc' = "dup"
       \/ pc' = "failed" /\ UNCHANGED <<fd, table>>
    /\ before' = table
    /\ UNCHANGED <<newFd, ret>>

(* my_dup(): never one of the standard descriptors.                        *)
MyDup ==
    /\ pc = "dup"
    /\ LET f == Dupfd(table, fd, 3) IN
        /\ table' = Copied(table, fd, f)
        /\ pc' = IF f = -1 THEN "failed" ELSE "dup2"
    /\ before' = table
    /\ UNCHANGED <<fd, newFd, ret>>

Refused(t, n) == n < 0 \/ n > OpenMax \/ Valid(t, n)

(* my_dup2(): as descriptors in use have been refused, lines 43-53 find    *)
(* nothing equal and nothing to close.                                     *)
MyDup2 ==
    /\ pc = "dup2"
    /\ \E n \in -1..OpenMax + 1 :
        LET f == IF Refused(table, n) THEN -1 ELSE Dupfd(table, fd, n) IN
        /\ newFd' = n
        /\ table' = Copied(table, fd, f)
        /\ ret' = IF f = n THEN f ELSE -1
        /\ pc' = IF ret' = -1 THEN "failed" ELSE "done"
    /\ before' = table
    /\ UNCHANGED fd

Next == Open \/ MyDup \/ MyDup2

Spec == Init /\ [][Next]_vars

-------------------------------------------------------------------------------
TypeOK ==
    /\ pc \in {"open", "dup", "dup2", "done", "failed"}
    /\ {table, before} \subseteq [Fds -> {Closed, Other, TestFile}]
    /\ fd \in Fds \cup {-1} /\ newFd \in -1..OpenMax + 1 /\ ret \in Fds \cup {-1}

(* Lines 32-67: my_dup2() touches no descriptor but newFd.  Where that is  *)
(* not in use, it does what dup2() does, or fails and does nothing if it   *)
(* is no descriptor at all.  Of a newFd in use nothing is said: the code   *)
(* refuses it on line 36, line 49 would close it first.                    *)
LikeDup2 ==
    newFd # -1 \/ ret # -1 =>
        /\ \A f \in Fds \ {newFd} : table[f] = before[f]
        /\ newFd \notin Fds => ret = -1
        /\ newFd \in Fds /\ ~Valid(before, newFd) =>
               ret = newFd /\ table[newFd] = before[fd]
===============================================================================

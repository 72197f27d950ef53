------------------------------ MODULE SharedFile ------------------------------
(***************************************************************************)
(* TLPI/chapter5/exercise/atomic_append.c and file_append_5.2.c: several   *)
(* processes that open one file, lseek() and write() a block.              *)
(***************************************************************************)
EXTENDS Integers, Sequences

CONSTANTS
    Procs,
    Old,       \* owner of what is in the file already
    OldSize, BlockSize

SharedFileAssumption == Old \notin Procs /\ OldSize \in Nat /\ BlockSize \in Nat \ {0}

VARIABLES
    prog,      \* "append": atomic_append without a further argument, "seek":
               \* with one, "head": file_append_5.2
    pc,
    file,      \* the owner of each byte
    off,       \* the file offset of each process
    at, n      \* where it wrote and how much

vars == <<prog, pc, file, off, at, n>>

Init ==
    /\ prog \in [Procs -> {"append", "seek", "head"}]
    /\ pc = [p \in Procs |-> "lseek"]
    /\ file = [i \in 1..OldSize |-> Old]
    /\ off = [p \in Procs |-> 0]
    /\ at = [p \in Procs |-> 0] /\ n = [p \in Procs |-> 0]

-------------------------------------------------------------------------------
Fails(p) ==
    /\ pc[p] \in {"lseek", "write"}
    /\ pc' = [pc EXCEPT ![p] = "failed"]
    /\ UNCHANGED <<prog, file, off, at, n>>

(* lseek() to the end, or to the beginning.                                *)
Seek(p) ==
    /\ pc[p] = "lseek"
    /\ off' = [off EXCEPT ![p] = IF prog[p] = "head" THEN 0 ELSE Len(file)]
    /\ pc' = [pc EXCEPT ![p] = "write"]
    /\ UNCHANGED <<prog, file, at, n>>

(* With O_APPEND write() itself goes to the end.                           *)
Position_Kept(p) == off[p]     \* mutant: O_APPEND is not among the flags
Position(p) == IF prog[p] = "append" THEN Len(file) ELSE off[p]

(* write() is atomic, and may be short: nobody looks whether it was.       *)
Write(p) ==
    LET pos == Position(p) IN
    /\ pc[p] = "write"
    /\ \E k \in 1..BlockSize :
        /\ file' = [i \in 1..(IF pos + k > Len(file) THEN pos + k ELSE Len(file)) |->
                        IF i > pos /\ i <= pos + k THEN p ELSE file[i]]
        /\ n' = [n EXCEPT ![p] = k]
    /\ at' = [at EXCEPT ![p] = pos]
    /\ pc' = [pc EXCEPT ![p] = "done"]
    /\ UNCHANGED <<prog, off>>

Next == \E p \in Procs : Seek(p) \/ Write(p) \/ Fails(p)

Spec == Init /\ [][Next]_vars

-------------------------------------------------------------------------------
Done == {p \in Procs : pc[p] = "done"}

(* What has been written lies in the file, and offsets are not past its end*)
TypeOK ==
    /\ prog \in [Procs -> {"append", "seek", "head"}]
    /\ pc \in [Procs -> {"lseek", "write", "done", "failed"}]
    /\ file \in Seq(Procs \cup {Old})
    /\ off \in [Procs -> Nat] /\ at \in [Procs -> Nat] /\ n \in [Procs -> Nat]
    /\ \A p \in Procs : off[p] <= Len(file) /\ at[p] + n[p] <= Len(file)
    /\ \A p \in Procs : prog[p] = "head" => off[p] = 0

(* atomic_append.c:36-50: a written block is overwritten only by a process *)
(* that writes at the beginning, or by one without O_APPEND that had sought*)
(* the end before the block was written; with O_APPEND nothing is lost.    *)
MixedOnlyIfRaced ==
    \A p \in Done : \A i \in at[p] + 1..at[p] + n[p] : file[i] # p =>
        \E q \in Done \ {p} :
            \/ prog[q] = "head" /\ at[p] < n[q]
            \/ prog[q] = "seek" /\ off[q] < at[p] + n[p]
===============================================================================

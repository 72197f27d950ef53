------------------------------ MODULE BinarySems ------------------------------
(***************************************************************************)
(* TLPI/chapter47/binary_sems.c: binary semaphores on top of one System V  *)
(* semaphore set.  The set lives in the kernel and outlives its users, so  *)
(* its existence is part of the state.  Every operator below is one system *)
(* call of the library, to be conjoined into the action of its caller.     *)
(***************************************************************************)
EXTENDS Naturals

CONSTANT Sems          \* numbers of the semaphores in the set

VARIABLES semExists,   \* the set is known to the kernel
          semVal       \* value of each semaphore

semVars == <<semExists, semVal>>

(* Mutant: an interrupted reservation is reported, not retried.            *)
bsRetryOnEintr_Off == FALSE

(* The value of the library's global of the same name.                     *)
bsRetryOnEintr == TRUE

(* semget(..., IPC_CREAT): finds the set, or creates it with zero values.  *)
SemGetCreate ==
    /\ semExists' = TRUE
    /\ semVal' = IF semExists THEN semVal ELSE [s \in Sems |-> 0]

initSemAvailable(s) ==
    /\ semExists
    /\ semVal' = [semVal EXCEPT ![s] = 1]
    /\ UNCHANGED semExists

initSemInUse(s) ==
    /\ semExists
    /\ semVal' = [semVal EXCEPT ![s] = 0]
    /\ UNCHANGED semExists

(* semop(-1) waits until the value is positive.                            *)
reserveSem(s) ==
    /\ semExists
    /\ semVal[s] > 0
    /\ semVal' = [semVal EXCEPT ![s] = @ - 1]
    /\ UNCHANGED semExists

(* A waiting semop can be interrupted (a handler, or a stop and continue). *)
reserveInterrupted(s) ==
    /\ semExists
    /\ semVal[s] = 0
    /\ UNCHANGED semVars

releaseSem(s) ==
    /\ semExists
    /\ semVal' = [semVal EXCEPT ![s] = @ + 1]
    /\ UNCHANGED semExists

(* semctl(IPC_RMID)                                                        *)
SemRemove ==
    /\ semExists
    /\ semExists' = FALSE
    /\ UNCHANGED semVal
===============================================================================

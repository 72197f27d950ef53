------------------------------ MODULE TimedRead ------------------------------
(***************************************************************************)
(* TLPI/chapter23/timed_read.c: a read() that an alarm is to interrupt.    *)
(* The handler returns; only a read() that is waiting when it comes fails. *)
(***************************************************************************)
EXTENDS Naturals

VARIABLES
    timeout,   \* alarm() was given a positive number of seconds
    restart,   \* SA_RESTART is set
    pc,        \* "alarm", "read", "waiting", "cancel", "done"
    alarm,     \* "none", "set" or "fired"
    fired,     \* where the alarm found the program
    input,     \* a line can be read
    result     \* of read(): "none", "line", "EINTR"

vars == <<timeout, restart, pc, alarm, fired, input, result>>

Init ==
    /\ timeout \in BOOLEAN /\ restart \in BOOLEAN
    /\ pc = "alarm" /\ alarm = "none" /\ fired = "none"
    /\ input \in BOOLEAN /\ result = "none"

-------------------------------------------------------------------------------
(* A line is typed, at any time or never.                                  *)
Types ==
    /\ ~input /\ result = "none"
    /\ input' = TRUE
    /\ UNCHANGED <<timeout, restart, pc, alarm, fired, result>>

(* alarm(0) sets none.                                                     *)
SetAlarm ==
    /\ pc = "alarm"
    /\ alarm' = IF timeout THEN "set" ELSE "none"
    /\ pc' = "read"
    /\ UNCHANGED <<timeout, restart, fired, input, result>>

(* read() waits when there is nothing to read.                             *)
Read ==
    /\ pc = "read" /\ ~input
    /\ pc' = "waiting"
    /\ UNCHANGED <<timeout, restart, alarm, fired, input, result>>

ReadReturns ==
    /\ pc \in {"read", "waiting"} /\ input
    /\ result' = "line"
    /\ pc' = "cancel"
    /\ UNCHANGED <<timeout, restart, alarm, fired, input>>

(* Mutant: the handler's action always restarts.                           *)
Restarts_Always == TRUE
Restarts == restart

(* SIGALRM: handler() runs and returns into the program, or read() fails.  *)
AlarmFires ==
    /\ alarm = "set"
    /\ alarm' = "fired" /\ fired' = pc
    /\ IF pc = "waiting" /\ ~Restarts
       THEN result' = "EINTR" /\ pc' = "cancel"
       ELSE UNCHANGED <<result, pc>>
    /\ UNCHANGED <<timeout, restart, input>>

(* alarm(0), and the result is printed.                                    *)
CancelAlarm ==
    /\ pc = "cancel"
    /\ alarm' = IF alarm = "set" THEN "none" ELSE alarm
    /\ pc' = "done"
    /\ UNCHANGED <<timeout, restart, fired, input, result>>

Program == SetAlarm \/ Read \/ ReadReturns \/ CancelAlarm

Next == Program \/ AlarmFires \/ Types

Spec == Init /\ [][Next]_vars

-------------------------------------------------------------------------------
TypeOK ==
    /\ timeout \in BOOLEAN /\ restart \in BOOLEAN /\ input \in BOOLEAN
    /\ pc \in {"alarm", "read", "waiting", "cancel", "done"}
    /\ alarm \in {"none", "set", "fired"}
    /\ fired \in {"none", "read", "waiting", "cancel"}
    /\ result \in {"none", "line", "EINTR"}

(* Lines 37-39: read() is left without a timeout only when the alarm came  *)
(* before it was called, when the program asked for it to be restarted, or *)
(* when there was no alarm; and "Read timed out" is said of no read() that *)
(* got a line.                                                             *)
LostOnlyInWindow ==
    /\ pc = "waiting" /\ alarm # "set" =>
           fired = "read" \/ (fired = "waiting" /\ restart) \/ ~timeout
    /\ result = "EINTR" => fired = "waiting" /\ ~restart

(* In every other case the program ends.                                   *)
TimesOut ==
    <>(pc = "done" \/ fired = "read" \/ restart \/ ~timeout)
=============================================================================

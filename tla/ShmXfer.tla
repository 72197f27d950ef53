------------------------------- MODULE ShmXfer -------------------------------
(***************************************************************************)
(* TLPI/chapter48: svshm_xfr_writer copies its standard input into a       *)
(* shared memory segment, svshm_xfr_reader copies the segment to its       *)
(* standard output, and two binary semaphores make them take turns.        *)
(*                                                                         *)
(* wpc and rpc name the next statement of each program.  A process that    *)
(* ends keeps its pc, and wstat or rstat says how it ended, so a dead      *)
(* process still shows where it stopped.                                   *)
(***************************************************************************)
EXTENDS BinarySems, Integers, Sequences

CONSTANTS Input,       \* the bytes on the writer's standard input
          BUF_SIZE,    \* size of the buffer in the segment
          MaxFaults,   \* bound: kills and failing reads or writes
          MaxEintr     \* bound: interruptions of a waiting semop

WRITE_SEM == 0
READ_SEM  == 1

Byte == {Input[i] : i \in DOMAIN Input} \cup {0}

ASSUME ConstAssumption ==
    /\ Input \in Seq(Nat)
    /\ BUF_SIZE \in Nat \ {0}
    /\ MaxFaults \in Nat
    /\ MaxEintr \in Nat
    /\ Sems = {WRITE_SEM, READ_SEM}

VARIABLES
    wpc, wstat,        \* writer: next statement, and how the process stands
    pos,               \* bytes the writer has read from its input
    ret,               \* result of the writer's last read(); -2 before any
    wxfrs, wbytes,     \* the writer's two counters
    rpc, rstat,        \* the same for the reader
    rxfrs, rbytes,
    output,            \* what the reader has written to its output
    shmExists,         \* the segment's key is known to the kernel
    attached,          \* processes that have the segment attached
    cnt, buf,          \* contents of the segment (struct shmseg)
    faults, eintrs     \* faults and interruptions so far

wVars   == <<wpc, wstat, pos, ret, wxfrs, wbytes>>
rVars   == <<rpc, rstat, rxfrs, rbytes, output>>
shmVars == <<shmExists, attached, cnt, buf>>
vars    == <<semVars, wVars, rVars, shmVars, faults, eintrs>>

Status == {"up", "exited", "failed", "killed"}
WriterPc == {"semget", "initW", "initR", "shmget", "shmat", "reserve", "read",
             "store", "release", "check", "drain", "rmsem", "shmdt", "rmshm"}
ReaderPc == {"semget", "shmget", "shmat", "reserve", "check", "write",
             "writeFailed", "release", "incr", "shmdt", "lastRelease", "print"}

Init ==
    /\ semExists = FALSE
    /\ semVal = [s \in Sems |-> 0]
    /\ wpc = "semget" /\ wstat = "up"
    /\ pos = 0 /\ ret = -2 /\ wxfrs = 0 /\ wbytes = 0
    /\ rpc = "semget" /\ rstat = "up"
    /\ rxfrs = 0 /\ rbytes = 0 /\ output = <<>>
    /\ shmExists = FALSE /\ attached = {}
    /\ cnt = 0 /\ buf = [i \in 1..BUF_SIZE |-> 0]
    /\ faults = 0 /\ eintrs = 0

-------------------------------------------------------------------------------
(* The writer.                                                             *)

WriterAt(pc) == wstat = "up" /\ wpc = pc

WriterGoto(pc) ==
    /\ wpc' = pc
    /\ UNCHANGED wstat

WSemGet ==
    /\ WriterAt("semget")
    /\ SemGetCreate
    /\ WriterGoto("initW")
    /\ UNCHANGED <<pos, ret, wxfrs, wbytes, rVars, shmVars, faults, eintrs>>

WInitWriteSem ==
    /\ WriterAt("initW")
    /\ initSemAvailable(WRITE_SEM)
    /\ WriterGoto("initR")
    /\ UNCHANGED <<pos, ret, wxfrs, wbytes, rVars, shmVars, faults, eintrs>>

(* Mutant: both semaphores start available.                                *)
WInitReadSem_Available ==
    /\ WriterAt("initR")
    /\ initSemAvailable(READ_SEM)
    /\ WriterGoto("shmget")
    /\ UNCHANGED <<pos, ret, wxfrs, wbytes, rVars, shmVars, faults, eintrs>>

WInitReadSem ==
    /\ WriterAt("initR")
    /\ initSemInUse(READ_SEM)
    /\ WriterGoto("shmget")
    /\ UNCHANGED <<pos, ret, wxfrs, wbytes, rVars, shmVars, faults, eintrs>>

(* A new segment is filled with zeros, which Init already gave it.         *)
WShmGet ==
    /\ WriterAt("shmget")
    /\ shmExists' = TRUE
    /\ WriterGoto("shmat")
    /\ UNCHANGED <<semVars, pos, ret, wxfrs, wbytes, rVars, attached, cnt, buf,
                   faults, eintrs>>

WShmAt ==
    /\ WriterAt("shmat")
    /\ attached' = attached \cup {"writer"}
    /\ WriterGoto("reserve")
    /\ UNCHANGED <<semVars, pos, ret, wxfrs, wbytes, rVars, shmExists, cnt, buf,
                   faults, eintrs>>

WReserve ==
    /\ WriterAt("reserve")
    /\ reserveSem(WRITE_SEM)
    /\ WriterGoto("read")
    /\ UNCHANGED <<pos, ret, wxfrs, wbytes, rVars, shmVars, faults, eintrs>>

(* read() fills the front of buf with the next n bytes, fewer than BUF_SIZE *)
(* when no more are there yet; it returns 0 only at the end of the input.   *)
WRead ==
    /\ WriterAt("read")
    /\ \E n \in 0..BUF_SIZE :
        /\ pos + n <= Len(Input)
        /\ n = 0 => pos = Len(Input)
        /\ buf' = [i \in 1..BUF_SIZE |-> IF i <= n THEN Input[pos + i] ELSE buf[i]]
        /\ pos' = pos + n
        /\ ret' = n
    /\ WriterGoto("store")
    /\ UNCHANGED <<semVars, wxfrs, wbytes, rVars, shmExists, attached, cnt,
                   faults, eintrs>>

WReadFails ==
    /\ WriterAt("read")
    /\ faults < MaxFaults
    /\ faults' = faults + 1
    /\ ret' = -1
    /\ WriterGoto("store")
    /\ UNCHANGED <<semVars, pos, wxfrs, wbytes, rVars, shmVars, eintrs>>

(* Mutant: the early break that lines 54-57 keep as a comment.             *)
WStore_BreakAtEof ==
    /\ WriterAt("store")
    /\ cnt' = ret
    /\ WriterGoto(IF ret = 0 THEN "drain" ELSE "release")
    /\ UNCHANGED <<semVars, pos, ret, wxfrs, wbytes, rVars, shmExists, attached,
                   buf, faults, eintrs>>

(* shmp->cnt = the value read() returned; -1 ends the program there.       *)
WStore ==
    /\ WriterAt("store")
    /\ cnt' = ret
    /\ IF ret = -1
       THEN /\ wstat' = "failed"
            /\ attached' = attached \ {"writer"}
            /\ UNCHANGED wpc
       ELSE /\ WriterGoto("release")
            /\ UNCHANGED attached
    /\ UNCHANGED <<semVars, pos, ret, wxfrs, wbytes, rVars, shmExists, buf,
                   faults, eintrs>>

WRelease ==
    /\ WriterAt("release")
    /\ releaseSem(READ_SEM)
    /\ WriterGoto("check")
    /\ UNCHANGED <<pos, ret, wxfrs, wbytes, rVars, shmVars, faults, eintrs>>

(* The test of cnt, and the loop's increments when it goes round again:    *)
(* both read the segment after the turn was handed to the reader.          *)
WCheck ==
    /\ WriterAt("check")
    /\ IF cnt = 0
       THEN /\ WriterGoto("drain")
            /\ UNCHANGED <<wxfrs, wbytes>>
       ELSE /\ WriterGoto("reserve")
            /\ wxfrs' = wxfrs + 1
            /\ wbytes' = wbytes + cnt
    /\ UNCHANGED <<semVars, pos, ret, rVars, shmVars, faults, eintrs>>

(* Mutant: the writer does not wait for the reader's last turn.            *)
WDrain_NoWait ==
    /\ WriterAt("drain")
    /\ WriterGoto("rmsem")
    /\ UNCHANGED <<semVars, pos, ret, wxfrs, wbytes, rVars, shmVars, faults, eintrs>>

WDrain ==
    /\ WriterAt("drain")
    /\ reserveSem(WRITE_SEM)
    /\ WriterGoto("rmsem")
    /\ UNCHANGED <<pos, ret, wxfrs, wbytes, rVars, shmVars, faults, eintrs>>

WSemRemove ==
    /\ WriterAt("rmsem")
    /\ SemRemove
    /\ WriterGoto("shmdt")
    /\ UNCHANGED <<pos, ret, wxfrs, wbytes, rVars, shmVars, faults, eintrs>>

WShmDt ==
    /\ WriterAt("shmdt")
    /\ attached' = attached \ {"writer"}
    /\ WriterGoto("rmshm")
    /\ UNCHANGED <<semVars, pos, ret, wxfrs, wbytes, rVars, shmExists, cnt, buf,
                   faults, eintrs>>

WShmRemove ==
    /\ WriterAt("rmshm")
    /\ shmExists' = FALSE
    /\ wstat' = "exited"
    /\ UNCHANGED <<semVars, wpc, pos, ret, wxfrs, wbytes, rVars, attached, cnt,
                   buf, faults, eintrs>>

WriterStep ==
    \/ WSemGet \/ WInitWriteSem \/ WInitReadSem \/ WShmGet \/ WShmAt
    \/ WReserve \/ WRead \/ WStore \/ WRelease \/ WCheck
    \/ WDrain \/ WSemRemove \/ WShmDt \/ WShmRemove

-------------------------------------------------------------------------------
(* The reader.  When a call of its start-up fails it exits, and whoever    *)
(* runs the demonstration starts it again.                                 *)

ReaderAt(pc) == rstat = "up" /\ rpc = pc

ReaderGoto(pc) ==
    /\ rpc' = pc
    /\ UNCHANGED rstat

RSemGet ==
    /\ ReaderAt("semget")
    /\ semExists
    /\ ReaderGoto("shmget")
    /\ UNCHANGED <<semVars, wVars, rxfrs, rbytes, output, shmVars, faults, eintrs>>

RShmGet ==
    /\ ReaderAt("shmget")
    /\ ReaderGoto(IF shmExists THEN "shmat" ELSE "semget")
    /\ UNCHANGED <<semVars, wVars, rxfrs, rbytes, output, shmVars, faults, eintrs>>

RShmAt ==
    /\ ReaderAt("shmat")
    /\ attached' = attached \cup {"reader"}
    /\ ReaderGoto("reserve")
    /\ UNCHANGED <<semVars, wVars, rxfrs, rbytes, output, shmExists, cnt, buf,
                   faults, eintrs>>

RReserve ==
    /\ ReaderAt("reserve")
    /\ reserveSem(READ_SEM)
    /\ ReaderGoto("check")
    /\ UNCHANGED <<wVars, rxfrs, rbytes, output, shmVars, faults, eintrs>>

RCheck ==
    /\ ReaderAt("check")
    /\ ReaderGoto(IF cnt = 0 THEN "shmdt" ELSE "write")
    /\ UNCHANGED <<semVars, wVars, rxfrs, rbytes, output, shmVars, faults, eintrs>>

(* Mutant: the whole buffer is written, not its first cnt bytes.           *)
RWrite_WholeBuffer ==
    /\ ReaderAt("write")
    /\ output' = output \o buf
    /\ ReaderGoto("release")
    /\ UNCHANGED <<semVars, wVars, rxfrs, rbytes, shmVars, faults, eintrs>>

RWrite ==
    /\ ReaderAt("write")
    /\ output' = output \o [i \in 1..cnt |-> buf[i]]
    /\ ReaderGoto("release")
    /\ UNCHANGED <<semVars, wVars, rxfrs, rbytes, shmVars, faults, eintrs>>

(* write() fails or writes only k bytes: the reader exits either way.      *)
RWriteFails ==
    /\ ReaderAt("write")
    /\ faults < MaxFaults
    /\ faults' = faults + 1
    /\ \E k \in 0..(cnt - 1) : output' = output \o [i \in 1..k |-> buf[i]]
    /\ rpc' = "writeFailed"
    /\ rstat' = "failed"
    /\ attached' = attached \ {"reader"}
    /\ UNCHANGED <<semVars, wVars, rxfrs, rbytes, shmExists, cnt, buf, eintrs>>

RRelease ==
    /\ ReaderAt("release")
    /\ releaseSem(WRITE_SEM)
    /\ ReaderGoto("incr")
    /\ UNCHANGED <<wVars, rxfrs, rbytes, output, shmVars, faults, eintrs>>

(* The loop's increments: cnt is read when the writer may be changing it.  *)
RIncr ==
    /\ ReaderAt("incr")
    /\ rxfrs' = rxfrs + 1
    /\ rbytes' = rbytes + cnt
    /\ ReaderGoto("reserve")
    /\ UNCHANGED <<semVars, wVars, output, shmVars, faults, eintrs>>

RShmDt ==
    /\ ReaderAt("shmdt")
    /\ attached' = attached \ {"reader"}
    /\ ReaderGoto("lastRelease")
    /\ UNCHANGED <<semVars, wVars, rxfrs, rbytes, output, shmExists, cnt, buf,
                   faults, eintrs>>

(* The writer may now remove everything, whether or not the reader lives   *)
(* to print its totals.                                                    *)
RLastRelease ==
    /\ ReaderAt("lastRelease")
    /\ releaseSem(WRITE_SEM)
    /\ ReaderGoto("print")
    /\ UNCHANGED <<wVars, rxfrs, rbytes, output, shmVars, faults, eintrs>>

RPrint ==
    /\ ReaderAt("print")
    /\ rstat' = "exited"
    /\ UNCHANGED <<semVars, wVars, rpc, rxfrs, rbytes, output, shmVars, faults, eintrs>>

ReaderStep ==
    \/ RSemGet \/ RShmGet \/ RShmAt \/ RReserve \/ RCheck \/ RWrite
    \/ RRelease \/ RIncr \/ RShmDt \/ RLastRelease \/ RPrint

-------------------------------------------------------------------------------
(* The environment.                                                        *)

(* Mutant: an interrupted reservation is taken for a successful one.       *)
WInterrupted_FallsThrough ==
    /\ WriterAt("reserve")
    /\ reserveInterrupted(WRITE_SEM)
    /\ eintrs < MaxEintr
    /\ eintrs' = eintrs + 1
    /\ WriterGoto("read")
    /\ UNCHANGED <<pos, ret, wxfrs, wbytes, rVars, shmVars, faults>>

(* Waiting on a semaphore, a process is stopped and continued.             *)
WInterrupted ==
    /\ \/ WriterAt("reserve")
       \/ WriterAt("drain")
    /\ reserveInterrupted(WRITE_SEM)
    /\ eintrs < MaxEintr
    /\ eintrs' = eintrs + 1
    /\ wstat' = IF bsRetryOnEintr THEN wstat ELSE "failed"
    /\ attached' = IF bsRetryOnEintr THEN attached ELSE attached \ {"writer"}
    /\ UNCHANGED <<wpc, pos, ret, wxfrs, wbytes, rVars, shmExists, cnt, buf, faults>>

RInterrupted ==
    /\ ReaderAt("reserve")
    /\ reserveInterrupted(READ_SEM)
    /\ eintrs < MaxEintr
    /\ eintrs' = eintrs + 1
    /\ rstat' = IF bsRetryOnEintr THEN rstat ELSE "failed"
    /\ attached' = IF bsRetryOnEintr THEN attached ELSE attached \ {"reader"}
    /\ UNCHANGED <<wVars, rpc, rxfrs, rbytes, output, shmExists, cnt, buf, faults>>

(* Death by a signal.  Without SEM_UNDO the semaphores stay as they are.   *)
WKilled ==
    /\ wstat = "up"
    /\ faults < MaxFaults
    /\ faults' = faults + 1
    /\ wstat' = "killed"
    /\ attached' = attached \ {"writer"}
    /\ UNCHANGED <<semVars, wpc, pos, ret, wxfrs, wbytes, rVars, shmExists, cnt,
                   buf, eintrs>>

RKilled ==
    /\ rstat = "up"
    /\ faults < MaxFaults
    /\ faults' = faults + 1
    /\ rstat' = "killed"
    /\ attached' = attached \ {"reader"}
    /\ UNCHANGED <<semVars, wVars, rpc, rxfrs, rbytes, output, shmExists, cnt,
                   buf, eintrs>>

Environment ==
    WInterrupted \/ RInterrupted \/ WReadFails \/ RWriteFails \/ WKilled \/ RKilled

(* Both programs have ended: nothing is left to do.                        *)
Finished ==
    /\ wstat # "up"
    /\ rstat # "up"
    /\ UNCHANGED vars

Next == WriterStep \/ ReaderStep \/ Environment \/ Finished

Spec == Init /\ [][Next]_vars

FairSpec == Spec /\ WF_vars(WriterStep) /\ WF_vars(ReaderStep)

-------------------------------------------------------------------------------
(* Properties.                                                             *)

(* Every variable stays in its type; the semaphores stay binary.           *)
TypeOK ==
    /\ semExists \in BOOLEAN
    /\ semVal \in [Sems -> 0..1]
    /\ wpc \in WriterPc /\ wstat \in Status
    /\ rpc \in ReaderPc /\ rstat \in Status
    /\ pos \in 0..Len(Input)
    /\ ret \in -2..BUF_SIZE
    /\ wxfrs \in Nat /\ wbytes \in Int
    /\ rxfrs \in Nat /\ rbytes \in Int
    /\ output \in Seq(Byte)
    /\ shmExists \in BOOLEAN
    /\ attached \subseteq {"writer", "reader"}
    /\ cnt \in -1..BUF_SIZE
    /\ buf \in [1..BUF_SIZE -> Byte]
    /\ faults \in 0..MaxFaults
    /\ eintrs \in 0..MaxEintr

WriterHolds == wpc \in {"read", "store", "release"}
ReaderHolds == rpc \in {"check", "write", "writeFailed", "release"}

(* The writer's critical section (svshm_xfr_writer.c:49-58) and the        *)
(* reader's (svshm_xfr_reader.c:38-47) are never occupied together, not    *)
(* even by a process that died inside.                                     *)
Exclusive == ~(WriterHolds /\ ReaderHolds)

Count(b) == IF b THEN 1 ELSE 0

(* Once the semaphores are initialised there is exactly one turn: one of   *)
(* them is available, or one of the programs holds it.                     *)
OneTurn ==
    wpc \notin {"semget", "initW"} =>
        semVal[WRITE_SEM] + semVal[READ_SEM]
          + Count(WriterHolds \/ wpc \in {"rmsem", "shmdt", "rmshm"})
          + Count(ReaderHolds \/ rpc \in {"shmdt", "lastRelease"})
        = 1

(* The reader's output is a prefix of the writer's input, whatever fails   *)
(* or is killed: no byte is lost, duplicated, reordered or torn.           *)
Integrity ==
    /\ Len(output) <= Len(Input)
    /\ \A i \in 1..Len(output) : output[i] = Input[i]

(* A writer that exits successfully (svshm_xfr_writer.c:68-94) prints the  *)
(* right totals and leaves no IPC object or attachment behind, and its     *)
(* reader has written everything and is past its last release, even when   *)
(* it is killed before its exit.  A reader that exits successfully         *)
(* (svshm_xfr_reader.c:55-68) has written everything and counted as many   *)
(* transfers as the writer.                                                *)
CleanExit ==
    /\ wstat = "exited" =>
           /\ rpc = "print"
           /\ output = Input
           /\ wbytes = Len(Input)
           /\ rxfrs = wxfrs
           /\ ~semExists /\ ~shmExists /\ attached = {}
    /\ rstat = "exited" =>
           /\ output = Input
           /\ rxfrs = wxfrs
           /\ "reader" \notin attached

(* The total the reader prints (svshm_xfr_reader.c:67) is the number of    *)
(* bytes it received.                                                      *)
ReceivedBytes == rstat = "exited" => rbytes = Len(output)

(* When nothing fails both programs run to their successful exit.          *)
BothExit == <>(faults > 0 \/ (wstat = "exited" /\ rstat = "exited"))

(* The end of the input was announced by the read that returned 0, and     *)
(* seen by the reader when it left its loop.                               *)
EofBar ==
    IF rpc \in {"shmdt", "lastRelease", "print"} THEN "seen"
    ELSE IF ret = 0 THEN "sent" ELSE "no"

Slot == INSTANCE SlotTransfer
        WITH taken <- pos, delivered <- output, eof <- EofBar, Capacity <- BUF_SIZE

(* Whatever fails, the two programs implement the one-slot transfer.       *)
ImplementsSlot == Slot!Spec

-------------------------------------------------------------------------------
(* The inductive invariant behind Exclusive, OneTurn and Integrity.        *)

(* Until the writer has created the segment no reader gets past its        *)
(* start-up, so the semaphores are initialised in peace.                   *)
StartInv ==
    /\ wpc = "semget" => ~semExists
    /\ wpc \in {"semget", "initW"} => semVal[WRITE_SEM] = 0
    /\ wpc \in {"semget", "initW", "initR"} => semVal[READ_SEM] = 0
    /\ wpc \in {"semget", "initW", "initR", "shmget"} =>
           ~shmExists /\ rpc \in {"semget", "shmget"}
    /\ rstat = "exited" => rpc = "print"

(* The first n bytes of buf are the next n bytes due on the output.        *)
Loaded(n) ==
    /\ pos = Len(output) + n
    /\ \A i \in 1..n : buf[i] = Input[Len(output) + i]

(* What the segment holds depends on who has the turn.                     *)
DataInv ==
    /\ \/ semVal[WRITE_SEM] = 1 \/ wpc \in {"semget", "initW", "read"}
       \/ rpc \in {"release", "shmdt", "lastRelease"}
       => pos = Len(output)
    /\ wpc = "store" => ret \in -1..BUF_SIZE /\ Loaded(IF ret = -1 THEN 0 ELSE ret)
    /\ semVal[READ_SEM] = 1 \/ wpc = "release" \/ rpc \in {"check", "write"} =>
           cnt \in 0..BUF_SIZE /\ cnt = ret /\ Loaded(cnt)

(* The end of the input: the read that returned 0 is the writer's last,    *)
(* and only the count it stored makes the reader leave its loop.           *)
EofInv ==
    /\ wpc \in {"semget", "initW", "initR", "shmget", "shmat"} => ret = -2
    /\ wpc # "store" /\ ret # -2 => cnt = ret
    /\ wpc \in {"release", "check"} => ret >= 0
    /\ ret = 0 => /\ pos = Len(Input)
                  /\ pos = Len(output)
                  /\ wpc \in {"store", "release", "check", "drain", "rmsem", "shmdt", "rmshm"}
    /\ wpc \in {"drain", "rmsem", "shmdt", "rmshm"} => ret = 0
    /\ rpc \in {"shmdt", "lastRelease", "print"} => ret = 0
    /\ rpc \in {"write", "writeFailed", "release"} => ret # 0
    /\ ret = 0 /\ semVal[WRITE_SEM] = 1 => rpc = "print"
    /\ wpc \in {"rmsem", "shmdt", "rmshm"} => rpc = "print"

(* The objects a process still has when it reaches its end.                *)
EndInv ==
    /\ rpc \in {"lastRelease", "print"} => "reader" \notin attached
    /\ wpc = "rmshm" => "writer" \notin attached
    /\ wpc \in {"shmdt", "rmshm"} => ~semExists
    /\ wstat = "exited" => wpc = "rmshm" /\ ~shmExists

(* The writer's totals count the chunks that it has checked, the reader's  *)
(* the chunks that it has given back.                                      *)
TotalInv ==
    /\ wbytes = pos - (IF wpc \in {"store", "release", "check"} /\ ret > 0 THEN ret ELSE 0)
    /\ wxfrs + Count(wpc \in {"store", "release", "check"} /\ ret > 0)
         = rxfrs + Count(rpc = "incr")
             + Count(ret > 0 /\ \/ wpc \in {"store", "release"}
                                \/ semVal[READ_SEM] = 1
                                \/ ReaderHolds)

IInv ==
    /\ TypeOK /\ StartInv /\ OneTurn /\ DataInv /\ Integrity
    /\ EofInv /\ EndInv /\ TotalInv
===============================================================================

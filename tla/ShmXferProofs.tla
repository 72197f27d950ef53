---------------------------- MODULE ShmXferProofs ----------------------------
(***************************************************************************)
(* Proofs about ShmXfer for every input, buffer size and number of faults. *)
(* IInv is inductive: each lemma ...Step below shows that one conjunct is  *)
(* preserved, with one step per action of the two programs.                *)
(***************************************************************************)
EXTENDS ShmXfer, TLAPS

(* The semaphore numbers of svshm_xfr.h differ.                            *)
LEMMA SemNames == WRITE_SEM = 0 /\ READ_SEM = 1
  BY DEF WRITE_SEM, READ_SEM

(* The initial state satisfies the invariant.                              *)
LEMMA InitInv == Init => IInv
<1> SUFFICES ASSUME Init PROVE IInv
  OBVIOUS
<1> USE ConstAssumption, SemNames DEF Init
<1>1. TypeOK
  <2>1. buf \in [1..BUF_SIZE -> Byte] /\ output \in Seq(Byte)
    BY DEF Byte
  <2>2. semVal \in [Sems -> 0..1] /\ pos \in 0..Len(Input)
    OBVIOUS
  <2>3. ret \in -2..BUF_SIZE /\ cnt \in -1..BUF_SIZE /\ faults \in 0..MaxFaults
        /\ eintrs \in 0..MaxEintr
    OBVIOUS
  <2>4. /\ wpc \in WriterPc /\ wstat \in Status
        /\ rpc \in ReaderPc /\ rstat \in Status
    BY DEF Status, WriterPc, ReaderPc
  <2>5. semExists \in BOOLEAN /\ shmExists \in BOOLEAN
    OBVIOUS
  <2>6. /\ wxfrs \in Nat /\ wbytes \in Int /\ rxfrs \in Nat /\ rbytes \in Int
        /\ attached \subseteq {"writer", "reader"}
    OBVIOUS
  <2> QED
    BY <2>1, <2>2, <2>3, <2>4, <2>5, <2>6 DEF TypeOK
<1>2. StartInv /\ OneTurn
  BY DEF StartInv, OneTurn
<1>3. DataInv /\ Integrity
  BY DEF DataInv, Integrity, Loaded
<1>4. EofInv /\ EndInv
  BY DEF EofInv, EndInv
<1>5. TotalInv
  BY DEF TotalInv, Count, ReaderHolds
<1> QED
  BY <1>1, <1>2, <1>3, <1>4, <1>5 DEF IInv

(* No step leaves the types; that a semaphore stays at most 1 follows from OneTurn. *)
LEMMA TypeStep == IInv /\ [Next]_vars => TypeOK'
<1> SUFFICES ASSUME IInv, [Next]_vars PROVE TypeOK'
  OBVIOUS
<1> USE ConstAssumption, SemNames DEF IInv, TypeOK, StartInv, OneTurn, DataInv, Loaded, Count, WriterHolds, ReaderHolds, Status, WriterPc, ReaderPc

<1>1. CASE WSemGet
  BY <1>1 DEF WSemGet, SemGetCreate, WriterAt, WriterGoto, vars, semVars, wVars, rVars, shmVars

<1>2. CASE WInitWriteSem
  BY <1>2 DEF WInitWriteSem, initSemAvailable, WriterAt, WriterGoto, vars, semVars, wVars, rVars, shmVars

<1>3. CASE WInitReadSem
  BY <1>3 DEF WInitReadSem, initSemInUse, WriterAt, WriterGoto, vars, semVars, wVars, rVars, shmVars

<1>4. CASE WShmGet
  BY <1>4 DEF WShmGet, WriterAt, WriterGoto, vars, semVars, wVars, rVars, shmVars

<1>5. CASE WShmAt
  BY <1>5 DEF WShmAt, WriterAt, WriterGoto, vars, semVars, wVars, rVars, shmVars

<1>6. CASE WReserve
  BY <1>6 DEF WReserve, reserveSem, WriterAt, WriterGoto, vars, semVars, wVars, rVars, shmVars

<1>7. CASE WRead
  <2>1. PICK n \in 0..BUF_SIZE :
           /\ pos + n <= Len(Input)
           /\ buf' = [i \in 1..BUF_SIZE |-> IF i <= n THEN Input[pos + i] ELSE buf[i]]
           /\ pos' = pos + n
           /\ ret' = n
    BY <1>7 DEF WRead
  <2>2. ASSUME NEW i \in 1..BUF_SIZE, i <= n
        PROVE  Input[pos + i] \in Byte
    <3>1. pos + i \in DOMAIN Input
      BY <2>1, <2>2
    <3> QED
      BY <3>1 DEF Byte
  <2>3. buf' \in [1..BUF_SIZE -> Byte]
    BY <2>1, <2>2
  <2> QED
    BY <1>7, <2>1, <2>3 DEF WRead, WriterAt, WriterGoto, vars, semVars, wVars, rVars, shmVars

<1>8. CASE WStore
  BY <1>8 DEF WStore, WriterAt, WriterGoto, vars, semVars, wVars, rVars, shmVars

<1>9. CASE WRelease
  BY <1>9 DEF WRelease, releaseSem, WriterAt, WriterGoto, vars, semVars, wVars, rVars, shmVars

<1>10. CASE WCheck
  BY <1>10 DEF WCheck, WriterAt, WriterGoto, vars, semVars, wVars, rVars, shmVars

<1>11. CASE WDrain
  BY <1>11 DEF WDrain, reserveSem, WriterAt, WriterGoto, vars, semVars, wVars, rVars, shmVars

<1>12. CASE WSemRemove
  BY <1>12 DEF WSemRemove, SemRemove, WriterAt, WriterGoto, vars, semVars, wVars, rVars, shmVars

<1>13. CASE WShmDt
  BY <1>13 DEF WShmDt, WriterAt, WriterGoto, vars, semVars, wVars, rVars, shmVars

<1>14. CASE WShmRemove
  BY <1>14 DEF WShmRemove, WriterAt, vars, semVars, wVars, rVars, shmVars

<1>15. CASE RSemGet
  BY <1>15 DEF RSemGet, ReaderAt, ReaderGoto, vars, semVars, wVars, rVars, shmVars

<1>16. CASE RShmGet
  BY <1>16 DEF RShmGet, ReaderAt, ReaderGoto, vars, semVars, wVars, rVars, shmVars

<1>17. CASE RShmAt
  BY <1>17 DEF RShmAt, ReaderAt, ReaderGoto, vars, semVars, wVars, rVars, shmVars

<1>18. CASE RReserve
  BY <1>18 DEF RReserve, reserveSem, ReaderAt, ReaderGoto, vars, semVars, wVars, rVars, shmVars

<1>19. CASE RCheck
  BY <1>19 DEF RCheck, ReaderAt, ReaderGoto, vars, semVars, wVars, rVars, shmVars

<1>20. CASE RWrite
  BY <1>20 DEF RWrite, ReaderAt, ReaderGoto, vars, semVars, wVars, rVars, shmVars

<1>21. CASE RRelease
  BY <1>21 DEF RRelease, releaseSem, ReaderAt, ReaderGoto, vars, semVars, wVars, rVars, shmVars

<1>22. CASE RIncr
  BY <1>22 DEF RIncr, ReaderAt, ReaderGoto, vars, semVars, wVars, rVars, shmVars

<1>23. CASE RShmDt
  BY <1>23 DEF RShmDt, ReaderAt, ReaderGoto, vars, semVars, wVars, rVars, shmVars

<1>24. CASE RLastRelease
  BY <1>24 DEF RLastRelease, releaseSem, ReaderAt, ReaderGoto, vars, semVars, wVars, rVars, shmVars

<1>24a. CASE RPrint
  BY <1>24a DEF RPrint, ReaderAt, vars, semVars, wVars, rVars, shmVars

<1>25. CASE WInterrupted
  BY <1>25 DEF WInterrupted, reserveInterrupted, bsRetryOnEintr, WriterAt, vars, semVars, wVars, rVars, shmVars

<1>26. CASE RInterrupted
  BY <1>26 DEF RInterrupted, reserveInterrupted, bsRetryOnEintr, ReaderAt, vars, semVars, wVars, rVars, shmVars

<1>27. CASE WReadFails
  BY <1>27 DEF WReadFails, WriterAt, WriterGoto, vars, semVars, wVars, rVars, shmVars

<1>28. CASE RWriteFails
  BY <1>28 DEF RWriteFails, ReaderAt, vars, semVars, wVars, rVars, shmVars

<1>29. CASE WKilled
  BY <1>29 DEF WKilled, vars, semVars, wVars, rVars, shmVars

<1>30. CASE RKilled
  BY <1>30 DEF RKilled, vars, semVars, wVars, rVars, shmVars

<1>31. CASE UNCHANGED vars
  BY <1>31 DEF vars, semVars, wVars, rVars, shmVars

<1>32. QED
  BY <1>1, <1>2, <1>3, <1>4, <1>5, <1>6, <1>7, <1>8, <1>9, <1>10, <1>11, <1>12, <1>13, <1>14, <1>15, <1>16, <1>17, <1>18, <1>19, <1>20, <1>21, <1>22, <1>23, <1>24, <1>24a, <1>25, <1>26, <1>27, <1>28, <1>29, <1>30, <1>31 DEF Next, WriterStep, ReaderStep, Environment, Finished

(* No step lets the reader past its start-up before the segment exists. *)
LEMMA StartStep == IInv /\ [Next]_vars => StartInv'
<1> SUFFICES ASSUME IInv, [Next]_vars PROVE StartInv'
  OBVIOUS
<1> USE ConstAssumption, SemNames DEF IInv, TypeOK, StartInv, OneTurn, Count, WriterHolds, ReaderHolds

<1>1. CASE WSemGet
  BY <1>1 DEF WSemGet, SemGetCreate, WriterAt, WriterGoto, vars, semVars, wVars, rVars, shmVars

<1>2. CASE WInitWriteSem
  BY <1>2 DEF WInitWriteSem, initSemAvailable, WriterAt, WriterGoto, vars, semVars, wVars, rVars, shmVars

<1>3. CASE WInitReadSem
  BY <1>3 DEF WInitReadSem, initSemInUse, WriterAt, WriterGoto, vars, semVars, wVars, rVars, shmVars

<1>4. CASE WShmGet
  BY <1>4 DEF WShmGet, WriterAt, WriterGoto, vars, semVars, wVars, rVars, shmVars

<1>5. CASE WShmAt
  BY <1>5 DEF WShmAt, WriterAt, WriterGoto, vars, semVars, wVars, rVars, shmVars

<1>6. CASE WReserve
  BY <1>6 DEF WReserve, reserveSem, WriterAt, WriterGoto, vars, semVars, wVars, rVars, shmVars

<1>7. CASE WRead
  BY <1>7 DEF WRead, WriterAt, WriterGoto, vars, semVars, wVars, rVars, shmVars

<1>8. CASE WStore
  BY <1>8 DEF WStore, WriterAt, WriterGoto, vars, semVars, wVars, rVars, shmVars

<1>9. CASE WRelease
  BY <1>9 DEF WRelease, releaseSem, WriterAt, WriterGoto, vars, semVars, wVars, rVars, shmVars

<1>10. CASE WCheck
  BY <1>10 DEF WCheck, WriterAt, WriterGoto, vars, semVars, wVars, rVars, shmVars

<1>11. CASE WDrain
  BY <1>11 DEF WDrain, reserveSem, WriterAt, WriterGoto, vars, semVars, wVars, rVars, shmVars

<1>12. CASE WSemRemove
  BY <1>12 DEF WSemRemove, SemRemove, WriterAt, WriterGoto, vars, semVars, wVars, rVars, shmVars

<1>13. CASE WShmDt
  BY <1>13 DEF WShmDt, WriterAt, WriterGoto, vars, semVars, wVars, rVars, shmVars

<1>14. CASE WShmRemove
  BY <1>14 DEF WShmRemove, WriterAt, vars, semVars, wVars, rVars, shmVars

<1>15. CASE RSemGet
  BY <1>15 DEF RSemGet, ReaderAt, ReaderGoto, vars, semVars, wVars, rVars, shmVars

<1>16. CASE RShmGet
  BY <1>16 DEF RShmGet, ReaderAt, ReaderGoto, vars, semVars, wVars, rVars, shmVars

<1>17. CASE RShmAt
  BY <1>17 DEF RShmAt, ReaderAt, ReaderGoto, vars, semVars, wVars, rVars, shmVars

<1>18. CASE RReserve
  BY <1>18 DEF RReserve, reserveSem, ReaderAt, ReaderGoto, vars, semVars, wVars, rVars, shmVars

<1>19. CASE RCheck
  BY <1>19 DEF RCheck, ReaderAt, ReaderGoto, vars, semVars, wVars, rVars, shmVars

<1>20. CASE RWrite
  BY <1>20 DEF RWrite, ReaderAt, ReaderGoto, vars, semVars, wVars, rVars, shmVars

<1>21. CASE RRelease
  BY <1>21 DEF RRelease, releaseSem, ReaderAt, ReaderGoto, vars, semVars, wVars, rVars, shmVars

<1>22. CASE RIncr
  BY <1>22 DEF RIncr, ReaderAt, ReaderGoto, vars, semVars, wVars, rVars, shmVars

<1>23. CASE RShmDt
  BY <1>23 DEF RShmDt, ReaderAt, ReaderGoto, vars, semVars, wVars, rVars, shmVars

<1>24. CASE RLastRelease
  BY <1>24 DEF RLastRelease, releaseSem, ReaderAt, ReaderGoto, vars, semVars, wVars, rVars, shmVars

<1>24a. CASE RPrint
  BY <1>24a DEF RPrint, ReaderAt, vars, semVars, wVars, rVars, shmVars

<1>25. CASE WInterrupted
  BY <1>25 DEF WInterrupted, reserveInterrupted, bsRetryOnEintr, WriterAt, vars, semVars, wVars, rVars, shmVars

<1>26. CASE RInterrupted
  BY <1>26 DEF RInterrupted, reserveInterrupted, bsRetryOnEintr, ReaderAt, vars, semVars, wVars, rVars, shmVars

<1>27. CASE WReadFails
  BY <1>27 DEF WReadFails, WriterAt, WriterGoto, vars, semVars, wVars, rVars, shmVars

<1>28. CASE RWriteFails
  BY <1>28 DEF RWriteFails, ReaderAt, vars, semVars, wVars, rVars, shmVars

<1>29. CASE WKilled
  BY <1>29 DEF WKilled, vars, semVars, wVars, rVars, shmVars

<1>30. CASE RKilled
  BY <1>30 DEF RKilled, vars, semVars, wVars, rVars, shmVars

<1>31. CASE UNCHANGED vars
  BY <1>31 DEF vars, semVars, wVars, rVars, shmVars

<1>32. QED
  BY <1>1, <1>2, <1>3, <1>4, <1>5, <1>6, <1>7, <1>8, <1>9, <1>10, <1>11, <1>12, <1>13, <1>14, <1>15, <1>16, <1>17, <1>18, <1>19, <1>20, <1>21, <1>22, <1>23, <1>24, <1>24a, <1>25, <1>26, <1>27, <1>28, <1>29, <1>30, <1>31 DEF Next, WriterStep, ReaderStep, Environment, Finished

(* No step creates or destroys a turn. *)
LEMMA TurnStep == IInv /\ [Next]_vars => OneTurn'
<1> SUFFICES ASSUME IInv, [Next]_vars PROVE OneTurn'
  OBVIOUS
<1> USE ConstAssumption, SemNames DEF IInv, TypeOK, StartInv, OneTurn, Count, WriterHolds, ReaderHolds

<1>1. CASE WSemGet
  BY <1>1 DEF WSemGet, SemGetCreate, WriterAt, WriterGoto, vars, semVars, wVars, rVars, shmVars

<1>2. CASE WInitWriteSem
  BY <1>2 DEF WInitWriteSem, initSemAvailable, WriterAt, WriterGoto, vars, semVars, wVars, rVars, shmVars

<1>3. CASE WInitReadSem
  BY <1>3 DEF WInitReadSem, initSemInUse, WriterAt, WriterGoto, vars, semVars, wVars, rVars, shmVars

<1>4. CASE WShmGet
  BY <1>4 DEF WShmGet, WriterAt, WriterGoto, vars, semVars, wVars, rVars, shmVars

<1>5. CASE WShmAt
  BY <1>5 DEF WShmAt, WriterAt, WriterGoto, vars, semVars, wVars, rVars, shmVars

<1>6. CASE WReserve
  BY <1>6 DEF WReserve, reserveSem, WriterAt, WriterGoto, vars, semVars, wVars, rVars, shmVars

<1>7. CASE WRead
  BY <1>7 DEF WRead, WriterAt, WriterGoto, vars, semVars, wVars, rVars, shmVars

<1>8. CASE WStore
  BY <1>8 DEF WStore, WriterAt, WriterGoto, vars, semVars, wVars, rVars, shmVars

<1>9. CASE WRelease
  BY <1>9 DEF WRelease, releaseSem, WriterAt, WriterGoto, vars, semVars, wVars, rVars, shmVars

<1>10. CASE WCheck
  BY <1>10 DEF WCheck, WriterAt, WriterGoto, vars, semVars, wVars, rVars, shmVars

<1>11. CASE WDrain
  BY <1>11 DEF WDrain, reserveSem, WriterAt, WriterGoto, vars, semVars, wVars, rVars, shmVars

<1>12. CASE WSemRemove
  BY <1>12 DEF WSemRemove, SemRemove, WriterAt, WriterGoto, vars, semVars, wVars, rVars, shmVars

<1>13. CASE WShmDt
  BY <1>13 DEF WShmDt, WriterAt, WriterGoto, vars, semVars, wVars, rVars, shmVars

<1>14. CASE WShmRemove
  BY <1>14 DEF WShmRemove, WriterAt, vars, semVars, wVars, rVars, shmVars

<1>15. CASE RSemGet
  BY <1>15 DEF RSemGet, ReaderAt, ReaderGoto, vars, semVars, wVars, rVars, shmVars

<1>16. CASE RShmGet
  BY <1>16 DEF RShmGet, ReaderAt, ReaderGoto, vars, semVars, wVars, rVars, shmVars

<1>17. CASE RShmAt
  BY <1>17 DEF RShmAt, ReaderAt, ReaderGoto, vars, semVars, wVars, rVars, shmVars

<1>18. CASE RReserve
  BY <1>18 DEF RReserve, reserveSem, ReaderAt, ReaderGoto, vars, semVars, wVars, rVars, shmVars

<1>19. CASE RCheck
  BY <1>19 DEF RCheck, ReaderAt, ReaderGoto, vars, semVars, wVars, rVars, shmVars

<1>20. CASE RWrite
  BY <1>20 DEF RWrite, ReaderAt, ReaderGoto, vars, semVars, wVars, rVars, shmVars

<1>21. CASE RRelease
  BY <1>21 DEF RRelease, releaseSem, ReaderAt, ReaderGoto, vars, semVars, wVars, rVars, shmVars

<1>22. CASE RIncr
  BY <1>22 DEF RIncr, ReaderAt, ReaderGoto, vars, semVars, wVars, rVars, shmVars

<1>23. CASE RShmDt
  BY <1>23 DEF RShmDt, ReaderAt, ReaderGoto, vars, semVars, wVars, rVars, shmVars

<1>24. CASE RLastRelease
  BY <1>24 DEF RLastRelease, releaseSem, ReaderAt, ReaderGoto, vars, semVars, wVars, rVars, shmVars

<1>24a. CASE RPrint
  BY <1>24a DEF RPrint, ReaderAt, vars, semVars, wVars, rVars, shmVars

<1>25. CASE WInterrupted
  BY <1>25 DEF WInterrupted, reserveInterrupted, bsRetryOnEintr, WriterAt, vars, semVars, wVars, rVars, shmVars

<1>26. CASE RInterrupted
  BY <1>26 DEF RInterrupted, reserveInterrupted, bsRetryOnEintr, ReaderAt, vars, semVars, wVars, rVars, shmVars

<1>27. CASE WReadFails
  BY <1>27 DEF WReadFails, WriterAt, WriterGoto, vars, semVars, wVars, rVars, shmVars

<1>28. CASE RWriteFails
  BY <1>28 DEF RWriteFails, ReaderAt, vars, semVars, wVars, rVars, shmVars

<1>29. CASE WKilled
  BY <1>29 DEF WKilled, vars, semVars, wVars, rVars, shmVars

<1>30. CASE RKilled
  BY <1>30 DEF RKilled, vars, semVars, wVars, rVars, shmVars

<1>31. CASE UNCHANGED vars
  BY <1>31 DEF vars, semVars, wVars, rVars, shmVars

<1>32. QED
  BY <1>1, <1>2, <1>3, <1>4, <1>5, <1>6, <1>7, <1>8, <1>9, <1>10, <1>11, <1>12, <1>13, <1>14, <1>15, <1>16, <1>17, <1>18, <1>19, <1>20, <1>21, <1>22, <1>23, <1>24, <1>24a, <1>25, <1>26, <1>27, <1>28, <1>29, <1>30, <1>31 DEF Next, WriterStep, ReaderStep, Environment, Finished

(* No step changes the segment or the output under the holder of the turn. *)
LEMMA DataStep == IInv /\ [Next]_vars => DataInv'
<1> SUFFICES ASSUME IInv, [Next]_vars PROVE DataInv'
  OBVIOUS
<1> USE ConstAssumption, SemNames DEF IInv, TypeOK, StartInv, OneTurn, DataInv, EofInv, Loaded, Count, WriterHolds, ReaderHolds

<1>1. CASE WSemGet
  BY <1>1 DEF WSemGet, SemGetCreate, WriterAt, WriterGoto, vars, semVars, wVars, rVars, shmVars

<1>2. CASE WInitWriteSem
  BY <1>2 DEF WInitWriteSem, initSemAvailable, WriterAt, WriterGoto, vars, semVars, wVars, rVars, shmVars

<1>3. CASE WInitReadSem
  BY <1>3 DEF WInitReadSem, initSemInUse, WriterAt, WriterGoto, vars, semVars, wVars, rVars, shmVars

<1>4. CASE WShmGet
  BY <1>4 DEF WShmGet, WriterAt, WriterGoto, vars, semVars, wVars, rVars, shmVars

<1>5. CASE WShmAt
  BY <1>5 DEF WShmAt, WriterAt, WriterGoto, vars, semVars, wVars, rVars, shmVars

<1>6. CASE WReserve
  BY <1>6 DEF WReserve, reserveSem, WriterAt, WriterGoto, vars, semVars, wVars, rVars, shmVars

<1>7. CASE WRead
  <2>1. PICK n \in 0..BUF_SIZE :
           /\ pos + n <= Len(Input)
           /\ buf' = [i \in 1..BUF_SIZE |-> IF i <= n THEN Input[pos + i] ELSE buf[i]]
           /\ pos' = pos + n
           /\ ret' = n
    BY <1>7 DEF WRead
  <2>2. /\ wpc = "read" /\ wpc' = "store" /\ wstat = "up"
        /\ UNCHANGED <<semVal, rpc, rstat, output, cnt>>
    BY <1>7 DEF WRead, WriterAt, WriterGoto, vars, semVars, wVars, rVars, shmVars
  <2>3. pos = Len(output)
    BY <2>2
  <2>4. \A i \in 1..n : buf'[i] = Input[Len(output) + i]
    BY <2>1, <2>3
  <2>5. ret' \in -1..BUF_SIZE /\ ret' # -1 /\ Loaded(n)'
    BY <2>1, <2>2, <2>3, <2>4
  <2>6. semVal[READ_SEM] # 1 /\ semVal[WRITE_SEM] # 1 /\ ~ReaderHolds
        /\ (rpc \in {"shmdt", "lastRelease", "print"} => rstat = "exited")
    BY <2>2
  <2> QED
    BY <2>1, <2>2, <2>5, <2>6

<1>8. CASE WStore
  BY <1>8 DEF WStore, WriterAt, WriterGoto, vars, semVars, wVars, rVars, shmVars

<1>9. CASE WRelease
  BY <1>9 DEF WRelease, releaseSem, WriterAt, WriterGoto, vars, semVars, wVars, rVars, shmVars

<1>10. CASE WCheck
  BY <1>10 DEF WCheck, WriterAt, WriterGoto, vars, semVars, wVars, rVars, shmVars

<1>11. CASE WDrain
  BY <1>11 DEF WDrain, reserveSem, WriterAt, WriterGoto, vars, semVars, wVars, rVars, shmVars

<1>12. CASE WSemRemove
  BY <1>12 DEF WSemRemove, SemRemove, WriterAt, WriterGoto, vars, semVars, wVars, rVars, shmVars

<1>13. CASE WShmDt
  BY <1>13 DEF WShmDt, WriterAt, WriterGoto, vars, semVars, wVars, rVars, shmVars

<1>14. CASE WShmRemove
  BY <1>14 DEF WShmRemove, WriterAt, vars, semVars, wVars, rVars, shmVars

<1>15. CASE RSemGet
  BY <1>15 DEF RSemGet, ReaderAt, ReaderGoto, vars, semVars, wVars, rVars, shmVars

<1>16. CASE RShmGet
  BY <1>16 DEF RShmGet, ReaderAt, ReaderGoto, vars, semVars, wVars, rVars, shmVars

<1>17. CASE RShmAt
  BY <1>17 DEF RShmAt, ReaderAt, ReaderGoto, vars, semVars, wVars, rVars, shmVars

<1>18. CASE RReserve
  BY <1>18 DEF RReserve, reserveSem, ReaderAt, ReaderGoto, vars, semVars, wVars, rVars, shmVars

<1>19. CASE RCheck
  BY <1>19 DEF RCheck, ReaderAt, ReaderGoto, vars, semVars, wVars, rVars, shmVars

<1>20. CASE RWrite
  BY <1>20 DEF RWrite, ReaderAt, ReaderGoto, vars, semVars, wVars, rVars, shmVars

<1>21. CASE RRelease
  BY <1>21 DEF RRelease, releaseSem, ReaderAt, ReaderGoto, vars, semVars, wVars, rVars, shmVars

<1>22. CASE RIncr
  BY <1>22 DEF RIncr, ReaderAt, ReaderGoto, vars, semVars, wVars, rVars, shmVars

<1>23. CASE RShmDt
  BY <1>23 DEF RShmDt, ReaderAt, ReaderGoto, vars, semVars, wVars, rVars, shmVars

<1>24. CASE RLastRelease
  BY <1>24 DEF RLastRelease, releaseSem, ReaderAt, ReaderGoto, vars, semVars, wVars, rVars, shmVars

<1>24a. CASE RPrint
  BY <1>24a DEF RPrint, ReaderAt, vars, semVars, wVars, rVars, shmVars

<1>25. CASE WInterrupted
  BY <1>25 DEF WInterrupted, reserveInterrupted, bsRetryOnEintr, WriterAt, vars, semVars, wVars, rVars, shmVars

<1>26. CASE RInterrupted
  BY <1>26 DEF RInterrupted, reserveInterrupted, bsRetryOnEintr, ReaderAt, vars, semVars, wVars, rVars, shmVars

<1>27. CASE WReadFails
  BY <1>27 DEF WReadFails, WriterAt, WriterGoto, vars, semVars, wVars, rVars, shmVars

<1>28. CASE RWriteFails
  BY <1>28 DEF RWriteFails, ReaderAt, vars, semVars, wVars, rVars, shmVars

<1>29. CASE WKilled
  BY <1>29 DEF WKilled, vars, semVars, wVars, rVars, shmVars

<1>30. CASE RKilled
  BY <1>30 DEF RKilled, vars, semVars, wVars, rVars, shmVars

<1>31. CASE UNCHANGED vars
  BY <1>31 DEF vars, semVars, wVars, rVars, shmVars

<1>32. QED
  BY <1>1, <1>2, <1>3, <1>4, <1>5, <1>6, <1>7, <1>8, <1>9, <1>10, <1>11, <1>12, <1>13, <1>14, <1>15, <1>16, <1>17, <1>18, <1>19, <1>20, <1>21, <1>22, <1>23, <1>24, <1>24a, <1>25, <1>26, <1>27, <1>28, <1>29, <1>30, <1>31 DEF Next, WriterStep, ReaderStep, Environment, Finished

(* What a write adds to the output is what was loaded for it. *)
LEMMA IntegrityStep == IInv /\ [Next]_vars => Integrity'
<1> SUFFICES ASSUME IInv, [Next]_vars PROVE Integrity'
  OBVIOUS
<1> USE ConstAssumption, SemNames DEF IInv, TypeOK, Integrity, DataInv, Loaded

<1>1. CASE WSemGet
  BY <1>1 DEF WSemGet, SemGetCreate, WriterAt, WriterGoto, vars, semVars, wVars, rVars, shmVars

<1>2. CASE WInitWriteSem
  BY <1>2 DEF WInitWriteSem, initSemAvailable, WriterAt, WriterGoto, vars, semVars, wVars, rVars, shmVars

<1>3. CASE WInitReadSem
  BY <1>3 DEF WInitReadSem, initSemInUse, WriterAt, WriterGoto, vars, semVars, wVars, rVars, shmVars

<1>4. CASE WShmGet
  BY <1>4 DEF WShmGet, WriterAt, WriterGoto, vars, semVars, wVars, rVars, shmVars

<1>5. CASE WShmAt
  BY <1>5 DEF WShmAt, WriterAt, WriterGoto, vars, semVars, wVars, rVars, shmVars

<1>6. CASE WReserve
  BY <1>6 DEF WReserve, reserveSem, WriterAt, WriterGoto, vars, semVars, wVars, rVars, shmVars

<1>7. CASE WRead
  BY <1>7 DEF WRead, WriterAt, WriterGoto, vars, semVars, wVars, rVars, shmVars

<1>8. CASE WStore
  BY <1>8 DEF WStore, WriterAt, WriterGoto, vars, semVars, wVars, rVars, shmVars

<1>9. CASE WRelease
  BY <1>9 DEF WRelease, releaseSem, WriterAt, WriterGoto, vars, semVars, wVars, rVars, shmVars

<1>10. CASE WCheck
  BY <1>10 DEF WCheck, WriterAt, WriterGoto, vars, semVars, wVars, rVars, shmVars

<1>11. CASE WDrain
  BY <1>11 DEF WDrain, reserveSem, WriterAt, WriterGoto, vars, semVars, wVars, rVars, shmVars

<1>12. CASE WSemRemove
  BY <1>12 DEF WSemRemove, SemRemove, WriterAt, WriterGoto, vars, semVars, wVars, rVars, shmVars

<1>13. CASE WShmDt
  BY <1>13 DEF WShmDt, WriterAt, WriterGoto, vars, semVars, wVars, rVars, shmVars

<1>14. CASE WShmRemove
  BY <1>14 DEF WShmRemove, WriterAt, vars, semVars, wVars, rVars, shmVars

<1>15. CASE RSemGet
  BY <1>15 DEF RSemGet, ReaderAt, ReaderGoto, vars, semVars, wVars, rVars, shmVars

<1>16. CASE RShmGet
  BY <1>16 DEF RShmGet, ReaderAt, ReaderGoto, vars, semVars, wVars, rVars, shmVars

<1>17. CASE RShmAt
  BY <1>17 DEF RShmAt, ReaderAt, ReaderGoto, vars, semVars, wVars, rVars, shmVars

<1>18. CASE RReserve
  BY <1>18 DEF RReserve, reserveSem, ReaderAt, ReaderGoto, vars, semVars, wVars, rVars, shmVars

<1>19. CASE RCheck
  BY <1>19 DEF RCheck, ReaderAt, ReaderGoto, vars, semVars, wVars, rVars, shmVars

<1>20. CASE RWrite
  BY <1>20 DEF RWrite, ReaderAt, ReaderGoto, vars, semVars, wVars, rVars, shmVars

<1>21. CASE RRelease
  BY <1>21 DEF RRelease, releaseSem, ReaderAt, ReaderGoto, vars, semVars, wVars, rVars, shmVars

<1>22. CASE RIncr
  BY <1>22 DEF RIncr, ReaderAt, ReaderGoto, vars, semVars, wVars, rVars, shmVars

<1>23. CASE RShmDt
  BY <1>23 DEF RShmDt, ReaderAt, ReaderGoto, vars, semVars, wVars, rVars, shmVars

<1>24. CASE RLastRelease
  BY <1>24 DEF RLastRelease, releaseSem, ReaderAt, ReaderGoto, vars, semVars, wVars, rVars, shmVars

<1>24a. CASE RPrint
  BY <1>24a DEF RPrint, ReaderAt, vars, semVars, wVars, rVars, shmVars

<1>25. CASE WInterrupted
  BY <1>25 DEF WInterrupted, reserveInterrupted, bsRetryOnEintr, WriterAt, vars, semVars, wVars, rVars, shmVars

<1>26. CASE RInterrupted
  BY <1>26 DEF RInterrupted, reserveInterrupted, bsRetryOnEintr, ReaderAt, vars, semVars, wVars, rVars, shmVars

<1>27. CASE WReadFails
  BY <1>27 DEF WReadFails, WriterAt, WriterGoto, vars, semVars, wVars, rVars, shmVars

<1>28. CASE RWriteFails
  BY <1>28 DEF RWriteFails, ReaderAt, vars, semVars, wVars, rVars, shmVars

<1>29. CASE WKilled
  BY <1>29 DEF WKilled, vars, semVars, wVars, rVars, shmVars

<1>30. CASE RKilled
  BY <1>30 DEF RKilled, vars, semVars, wVars, rVars, shmVars

<1>31. CASE UNCHANGED vars
  BY <1>31 DEF vars, semVars, wVars, rVars, shmVars

<1>32. QED
  BY <1>1, <1>2, <1>3, <1>4, <1>5, <1>6, <1>7, <1>8, <1>9, <1>10, <1>11, <1>12, <1>13, <1>14, <1>15, <1>16, <1>17, <1>18, <1>19, <1>20, <1>21, <1>22, <1>23, <1>24, <1>24a, <1>25, <1>26, <1>27, <1>28, <1>29, <1>30, <1>31 DEF Next, WriterStep, ReaderStep, Environment, Finished

(* The end of the input reaches the reader once, after all the data. *)
LEMMA EofStep == IInv /\ [Next]_vars => EofInv'
<1> SUFFICES ASSUME IInv, [Next]_vars PROVE EofInv'
  OBVIOUS
<1> USE ConstAssumption, SemNames DEF IInv, TypeOK, StartInv, OneTurn, DataInv, EofInv, Loaded, Count, WriterHolds, ReaderHolds

<1>1. CASE WSemGet
  BY <1>1 DEF WSemGet, SemGetCreate, WriterAt, WriterGoto, vars, semVars, wVars, rVars, shmVars

<1>2. CASE WInitWriteSem
  BY <1>2 DEF WInitWriteSem, initSemAvailable, WriterAt, WriterGoto, vars, semVars, wVars, rVars, shmVars

<1>3. CASE WInitReadSem
  BY <1>3 DEF WInitReadSem, initSemInUse, WriterAt, WriterGoto, vars, semVars, wVars, rVars, shmVars

<1>4. CASE WShmGet
  BY <1>4 DEF WShmGet, WriterAt, WriterGoto, vars, semVars, wVars, rVars, shmVars

<1>5. CASE WShmAt
  BY <1>5 DEF WShmAt, WriterAt, WriterGoto, vars, semVars, wVars, rVars, shmVars

<1>6. CASE WReserve
  BY <1>6 DEF WReserve, reserveSem, WriterAt, WriterGoto, vars, semVars, wVars, rVars, shmVars

<1>7. CASE WRead
  BY <1>7 DEF WRead, WriterAt, WriterGoto, vars, semVars, wVars, rVars, shmVars

<1>8. CASE WStore
  BY <1>8 DEF WStore, WriterAt, WriterGoto, vars, semVars, wVars, rVars, shmVars

<1>9. CASE WRelease
  BY <1>9 DEF WRelease, releaseSem, WriterAt, WriterGoto, vars, semVars, wVars, rVars, shmVars

<1>10. CASE WCheck
  BY <1>10 DEF WCheck, WriterAt, WriterGoto, vars, semVars, wVars, rVars, shmVars

<1>11. CASE WDrain
  BY <1>11 DEF WDrain, reserveSem, WriterAt, WriterGoto, vars, semVars, wVars, rVars, shmVars

<1>12. CASE WSemRemove
  BY <1>12 DEF WSemRemove, SemRemove, WriterAt, WriterGoto, vars, semVars, wVars, rVars, shmVars

<1>13. CASE WShmDt
  BY <1>13 DEF WShmDt, WriterAt, WriterGoto, vars, semVars, wVars, rVars, shmVars

<1>14. CASE WShmRemove
  BY <1>14 DEF WShmRemove, WriterAt, vars, semVars, wVars, rVars, shmVars

<1>15. CASE RSemGet
  BY <1>15 DEF RSemGet, ReaderAt, ReaderGoto, vars, semVars, wVars, rVars, shmVars

<1>16. CASE RShmGet
  BY <1>16 DEF RShmGet, ReaderAt, ReaderGoto, vars, semVars, wVars, rVars, shmVars

<1>17. CASE RShmAt
  BY <1>17 DEF RShmAt, ReaderAt, ReaderGoto, vars, semVars, wVars, rVars, shmVars

<1>18. CASE RReserve
  BY <1>18 DEF RReserve, reserveSem, ReaderAt, ReaderGoto, vars, semVars, wVars, rVars, shmVars

<1>19. CASE RCheck
  BY <1>19 DEF RCheck, ReaderAt, ReaderGoto, vars, semVars, wVars, rVars, shmVars

<1>20. CASE RWrite
  BY <1>20 DEF RWrite, ReaderAt, ReaderGoto, vars, semVars, wVars, rVars, shmVars

<1>21. CASE RRelease
  BY <1>21 DEF RRelease, releaseSem, ReaderAt, ReaderGoto, vars, semVars, wVars, rVars, shmVars

<1>22. CASE RIncr
  BY <1>22 DEF RIncr, ReaderAt, ReaderGoto, vars, semVars, wVars, rVars, shmVars

<1>23. CASE RShmDt
  BY <1>23 DEF RShmDt, ReaderAt, ReaderGoto, vars, semVars, wVars, rVars, shmVars

<1>24. CASE RLastRelease
  BY <1>24 DEF RLastRelease, releaseSem, ReaderAt, ReaderGoto, vars, semVars, wVars, rVars, shmVars

<1>24a. CASE RPrint
  BY <1>24a DEF RPrint, ReaderAt, vars, semVars, wVars, rVars, shmVars

<1>25. CASE WInterrupted
  BY <1>25 DEF WInterrupted, reserveInterrupted, bsRetryOnEintr, WriterAt, vars, semVars, wVars, rVars, shmVars

<1>26. CASE RInterrupted
  BY <1>26 DEF RInterrupted, reserveInterrupted, bsRetryOnEintr, ReaderAt, vars, semVars, wVars, rVars, shmVars

<1>27. CASE WReadFails
  BY <1>27 DEF WReadFails, WriterAt, WriterGoto, vars, semVars, wVars, rVars, shmVars

<1>28. CASE RWriteFails
  BY <1>28 DEF RWriteFails, ReaderAt, vars, semVars, wVars, rVars, shmVars

<1>29. CASE WKilled
  BY <1>29 DEF WKilled, vars, semVars, wVars, rVars, shmVars

<1>30. CASE RKilled
  BY <1>30 DEF RKilled, vars, semVars, wVars, rVars, shmVars

<1>31. CASE UNCHANGED vars
  BY <1>31 DEF vars, semVars, wVars, rVars, shmVars

<1>32. QED
  BY <1>1, <1>2, <1>3, <1>4, <1>5, <1>6, <1>7, <1>8, <1>9, <1>10, <1>11, <1>12, <1>13, <1>14, <1>15, <1>16, <1>17, <1>18, <1>19, <1>20, <1>21, <1>22, <1>23, <1>24, <1>24a, <1>25, <1>26, <1>27, <1>28, <1>29, <1>30, <1>31 DEF Next, WriterStep, ReaderStep, Environment, Finished

(* A process that is past a clean-up call no longer has the object. *)
LEMMA EndStep == IInv /\ [Next]_vars => EndInv'
<1> SUFFICES ASSUME IInv, [Next]_vars PROVE EndInv'
  OBVIOUS
<1> USE ConstAssumption, SemNames DEF IInv, TypeOK, StartInv, OneTurn, EofInv, EndInv, Count, WriterHolds, ReaderHolds

<1>1. CASE WSemGet
  BY <1>1 DEF WSemGet, SemGetCreate, WriterAt, WriterGoto, vars, semVars, wVars, rVars, shmVars

<1>2. CASE WInitWriteSem
  BY <1>2 DEF WInitWriteSem, initSemAvailable, WriterAt, WriterGoto, vars, semVars, wVars, rVars, shmVars

<1>3. CASE WInitReadSem
  BY <1>3 DEF WInitReadSem, initSemInUse, WriterAt, WriterGoto, vars, semVars, wVars, rVars, shmVars

<1>4. CASE WShmGet
  BY <1>4 DEF WShmGet, WriterAt, WriterGoto, vars, semVars, wVars, rVars, shmVars

<1>5. CASE WShmAt
  BY <1>5 DEF WShmAt, WriterAt, WriterGoto, vars, semVars, wVars, rVars, shmVars

<1>6. CASE WReserve
  BY <1>6 DEF WReserve, reserveSem, WriterAt, WriterGoto, vars, semVars, wVars, rVars, shmVars

<1>7. CASE WRead
  BY <1>7 DEF WRead, WriterAt, WriterGoto, vars, semVars, wVars, rVars, shmVars

<1>8. CASE WStore
  BY <1>8 DEF WStore, WriterAt, WriterGoto, vars, semVars, wVars, rVars, shmVars

<1>9. CASE WRelease
  BY <1>9 DEF WRelease, releaseSem, WriterAt, WriterGoto, vars, semVars, wVars, rVars, shmVars

<1>10. CASE WCheck
  BY <1>10 DEF WCheck, WriterAt, WriterGoto, vars, semVars, wVars, rVars, shmVars

<1>11. CASE WDrain
  BY <1>11 DEF WDrain, reserveSem, WriterAt, WriterGoto, vars, semVars, wVars, rVars, shmVars

<1>12. CASE WSemRemove
  BY <1>12 DEF WSemRemove, SemRemove, WriterAt, WriterGoto, vars, semVars, wVars, rVars, shmVars

<1>13. CASE WShmDt
  BY <1>13 DEF WShmDt, WriterAt, WriterGoto, vars, semVars, wVars, rVars, shmVars

<1>14. CASE WShmRemove
  BY <1>14 DEF WShmRemove, WriterAt, vars, semVars, wVars, rVars, shmVars

<1>15. CASE RSemGet
  BY <1>15 DEF RSemGet, ReaderAt, ReaderGoto, vars, semVars, wVars, rVars, shmVars

<1>16. CASE RShmGet
  BY <1>16 DEF RShmGet, ReaderAt, ReaderGoto, vars, semVars, wVars, rVars, shmVars

<1>17. CASE RShmAt
  BY <1>17 DEF RShmAt, ReaderAt, ReaderGoto, vars, semVars, wVars, rVars, shmVars

<1>18. CASE RReserve
  BY <1>18 DEF RReserve, reserveSem, ReaderAt, ReaderGoto, vars, semVars, wVars, rVars, shmVars

<1>19. CASE RCheck
  BY <1>19 DEF RCheck, ReaderAt, ReaderGoto, vars, semVars, wVars, rVars, shmVars

<1>20. CASE RWrite
  BY <1>20 DEF RWrite, ReaderAt, ReaderGoto, vars, semVars, wVars, rVars, shmVars

<1>21. CASE RRelease
  BY <1>21 DEF RRelease, releaseSem, ReaderAt, ReaderGoto, vars, semVars, wVars, rVars, shmVars

<1>22. CASE RIncr
  BY <1>22 DEF RIncr, ReaderAt, ReaderGoto, vars, semVars, wVars, rVars, shmVars

<1>23. CASE RShmDt
  BY <1>23 DEF RShmDt, ReaderAt, ReaderGoto, vars, semVars, wVars, rVars, shmVars

<1>24. CASE RLastRelease
  BY <1>24 DEF RLastRelease, releaseSem, ReaderAt, ReaderGoto, vars, semVars, wVars, rVars, shmVars

<1>24a. CASE RPrint
  BY <1>24a DEF RPrint, ReaderAt, vars, semVars, wVars, rVars, shmVars

<1>25. CASE WInterrupted
  BY <1>25 DEF WInterrupted, reserveInterrupted, bsRetryOnEintr, WriterAt, vars, semVars, wVars, rVars, shmVars

<1>26. CASE RInterrupted
  BY <1>26 DEF RInterrupted, reserveInterrupted, bsRetryOnEintr, ReaderAt, vars, semVars, wVars, rVars, shmVars

<1>27. CASE WReadFails
  BY <1>27 DEF WReadFails, WriterAt, WriterGoto, vars, semVars, wVars, rVars, shmVars

<1>28. CASE RWriteFails
  BY <1>28 DEF RWriteFails, ReaderAt, vars, semVars, wVars, rVars, shmVars

<1>29. CASE WKilled
  BY <1>29 DEF WKilled, vars, semVars, wVars, rVars, shmVars

<1>30. CASE RKilled
  BY <1>30 DEF RKilled, vars, semVars, wVars, rVars, shmVars

<1>31. CASE UNCHANGED vars
  BY <1>31 DEF vars, semVars, wVars, rVars, shmVars

<1>32. QED
  BY <1>1, <1>2, <1>3, <1>4, <1>5, <1>6, <1>7, <1>8, <1>9, <1>10, <1>11, <1>12, <1>13, <1>14, <1>15, <1>16, <1>17, <1>18, <1>19, <1>20, <1>21, <1>22, <1>23, <1>24, <1>24a, <1>25, <1>26, <1>27, <1>28, <1>29, <1>30, <1>31 DEF Next, WriterStep, ReaderStep, Environment, Finished

(* The totals stay in step with the chunks. *)
LEMMA TotalStep == IInv /\ [Next]_vars => TotalInv'
<1> SUFFICES ASSUME IInv, [Next]_vars PROVE TotalInv'
  OBVIOUS
<1> USE ConstAssumption, SemNames DEF IInv, TypeOK, StartInv, OneTurn, DataInv, EofInv, TotalInv, Count, WriterHolds, ReaderHolds

<1>1. CASE WSemGet
  BY <1>1 DEF WSemGet, SemGetCreate, WriterAt, WriterGoto, vars, semVars, wVars, rVars, shmVars

<1>2. CASE WInitWriteSem
  BY <1>2 DEF WInitWriteSem, initSemAvailable, WriterAt, WriterGoto, vars, semVars, wVars, rVars, shmVars

<1>3. CASE WInitReadSem
  BY <1>3 DEF WInitReadSem, initSemInUse, WriterAt, WriterGoto, vars, semVars, wVars, rVars, shmVars

<1>4. CASE WShmGet
  BY <1>4 DEF WShmGet, WriterAt, WriterGoto, vars, semVars, wVars, rVars, shmVars

<1>5. CASE WShmAt
  BY <1>5 DEF WShmAt, WriterAt, WriterGoto, vars, semVars, wVars, rVars, shmVars

<1>6. CASE WReserve
  BY <1>6 DEF WReserve, reserveSem, WriterAt, WriterGoto, vars, semVars, wVars, rVars, shmVars

<1>7. CASE WRead
  BY <1>7 DEF WRead, WriterAt, WriterGoto, vars, semVars, wVars, rVars, shmVars

<1>8. CASE WStore
  BY <1>8 DEF WStore, WriterAt, WriterGoto, vars, semVars, wVars, rVars, shmVars

<1>9. CASE WRelease
  BY <1>9 DEF WRelease, releaseSem, WriterAt, WriterGoto, vars, semVars, wVars, rVars, shmVars

<1>10. CASE WCheck
  <2>1. ret >= 0 /\ cnt = ret
    BY <1>10 DEF WCheck, WriterAt, WriterGoto, vars, semVars, wVars, rVars, shmVars
  <2>2. CASE cnt = 0
    BY <1>10, <2>1, <2>2 DEF WCheck, WriterAt, WriterGoto, vars, semVars, wVars, rVars, shmVars
  <2>3. CASE cnt # 0
    <3>1. /\ wpc = "check" /\ wpc' = "reserve" /\ wxfrs' = wxfrs + 1
          /\ wbytes' = wbytes + ret
          /\ UNCHANGED <<semVal, pos, ret, rpc, rxfrs>>
      BY <1>10, <2>1, <2>3 DEF WCheck, WriterAt, WriterGoto, vars, semVars, wVars, rVars, shmVars
    <3>2. ret > 0
      BY <2>1, <2>3
    <3>3. wbytes' = pos'
      BY <3>1, <3>2
    <3> QED
      BY <3>1, <3>2, <3>3
  <2> QED
    BY <2>2, <2>3

<1>11. CASE WDrain
  BY <1>11 DEF WDrain, reserveSem, WriterAt, WriterGoto, vars, semVars, wVars, rVars, shmVars

<1>12. CASE WSemRemove
  BY <1>12 DEF WSemRemove, SemRemove, WriterAt, WriterGoto, vars, semVars, wVars, rVars, shmVars

<1>13. CASE WShmDt
  BY <1>13 DEF WShmDt, WriterAt, WriterGoto, vars, semVars, wVars, rVars, shmVars

<1>14. CASE WShmRemove
  BY <1>14 DEF WShmRemove, WriterAt, vars, semVars, wVars, rVars, shmVars

<1>15. CASE RSemGet
  BY <1>15 DEF RSemGet, ReaderAt, ReaderGoto, vars, semVars, wVars, rVars, shmVars

<1>16. CASE RShmGet
  BY <1>16 DEF RShmGet, ReaderAt, ReaderGoto, vars, semVars, wVars, rVars, shmVars

<1>17. CASE RShmAt
  BY <1>17 DEF RShmAt, ReaderAt, ReaderGoto, vars, semVars, wVars, rVars, shmVars

<1>18. CASE RReserve
  BY <1>18 DEF RReserve, reserveSem, ReaderAt, ReaderGoto, vars, semVars, wVars, rVars, shmVars

<1>19. CASE RCheck
  BY <1>19 DEF RCheck, ReaderAt, ReaderGoto, vars, semVars, wVars, rVars, shmVars

<1>20. CASE RWrite
  BY <1>20 DEF RWrite, ReaderAt, ReaderGoto, vars, semVars, wVars, rVars, shmVars

<1>21. CASE RRelease
  BY <1>21 DEF RRelease, releaseSem, ReaderAt, ReaderGoto, vars, semVars, wVars, rVars, shmVars

<1>22. CASE RIncr
  BY <1>22 DEF RIncr, ReaderAt, ReaderGoto, vars, semVars, wVars, rVars, shmVars

<1>23. CASE RShmDt
  BY <1>23 DEF RShmDt, ReaderAt, ReaderGoto, vars, semVars, wVars, rVars, shmVars

<1>24. CASE RLastRelease
  BY <1>24 DEF RLastRelease, releaseSem, ReaderAt, ReaderGoto, vars, semVars, wVars, rVars, shmVars

<1>24a. CASE RPrint
  BY <1>24a DEF RPrint, ReaderAt, vars, semVars, wVars, rVars, shmVars

<1>25. CASE WInterrupted
  BY <1>25 DEF WInterrupted, reserveInterrupted, bsRetryOnEintr, WriterAt, vars, semVars, wVars, rVars, shmVars

<1>26. CASE RInterrupted
  BY <1>26 DEF RInterrupted, reserveInterrupted, bsRetryOnEintr, ReaderAt, vars, semVars, wVars, rVars, shmVars

<1>27. CASE WReadFails
  BY <1>27 DEF WReadFails, WriterAt, WriterGoto, vars, semVars, wVars, rVars, shmVars

<1>28. CASE RWriteFails
  BY <1>28 DEF RWriteFails, ReaderAt, vars, semVars, wVars, rVars, shmVars

<1>29. CASE WKilled
  BY <1>29 DEF WKilled, vars, semVars, wVars, rVars, shmVars

<1>30. CASE RKilled
  BY <1>30 DEF RKilled, vars, semVars, wVars, rVars, shmVars

<1>31. CASE UNCHANGED vars
  BY <1>31 DEF vars, semVars, wVars, rVars, shmVars

<1>32. QED
  BY <1>1, <1>2, <1>3, <1>4, <1>5, <1>6, <1>7, <1>8, <1>9, <1>10, <1>11, <1>12, <1>13, <1>14, <1>15, <1>16, <1>17, <1>18, <1>19, <1>20, <1>21, <1>22, <1>23, <1>24, <1>24a, <1>25, <1>26, <1>27, <1>28, <1>29, <1>30, <1>31 DEF Next, WriterStep, ReaderStep, Environment, Finished

(* The invariant holds in every reachable state.                           *)
THEOREM Invariance == Spec => []IInv
<1>1. Init => IInv
  BY InitInv
<1>2. IInv /\ [Next]_vars => IInv'
  BY TypeStep, StartStep, TurnStep, DataStep, IntegrityStep, EofStep, EndStep,
     TotalStep DEF IInv
<1>3. QED
  BY <1>1, <1>2, PTL DEF Spec

(* Type correctness: in particular the semaphores never exceed 1.          *)
THEOREM TypeCorrect == Spec => []TypeOK
<1>1. IInv => TypeOK
  BY DEF IInv
<1>2. QED
  BY <1>1, Invariance, PTL

(* The semaphores of binary_sems.c give the two programs exactly one turn. *)
THEOREM TurnIsUnique == Spec => []OneTurn
<1>1. IInv => OneTurn
  BY DEF IInv
<1>2. QED
  BY <1>1, Invariance, PTL

(* The two critical sections are never occupied together.                  *)
THEOREM MutualExclusion == Spec => []Exclusive
<1>1. IInv => Exclusive
  <2> SUFFICES ASSUME IInv, WriterHolds, ReaderHolds PROVE FALSE
    BY DEF Exclusive
  <2>1. wpc \notin {"semget", "initW"}
    BY DEF WriterHolds
  <2>2. /\ semVal[WRITE_SEM] >= 0 /\ semVal[READ_SEM] >= 0
        /\ semVal[WRITE_SEM] \in Int /\ semVal[READ_SEM] \in Int
    BY ConstAssumption, SemNames DEF IInv, TypeOK
  <2> QED
    BY <2>1, <2>2 DEF IInv, OneTurn, Count
<1>2. QED
  BY <1>1, Invariance, PTL

(* The output is a prefix of the input, whatever fails or is killed.       *)
THEOREM PrefixDelivered == Spec => []Integrity
<1>1. IInv => Integrity
  BY DEF IInv
<1>2. QED
  BY <1>1, Invariance, PTL

(* A writer that exits successfully has delivered everything, prints the   *)
(* right totals and leaves nothing behind, though its reader may be killed *)
(* before its own exit; a reader that exits successfully has written all.  *)
THEOREM WriterExitsClean == Spec => []CleanExit
<1>1. IInv => CleanExit
  <2> SUFFICES ASSUME IInv PROVE CleanExit
    OBVIOUS
  <2>1. ASSUME ret = 0, rpc = "print" PROVE output = Input /\ rxfrs = wxfrs
    <3>1. Len(output) = Len(Input)
      BY <2>1 DEF IInv, EofInv
    <3>2. output \in Seq(Byte) /\ Input \in Seq(Nat)
      BY ConstAssumption DEF IInv, TypeOK
    <3>3. \A i \in 1..Len(output) : output[i] = Input[i]
      BY DEF IInv, Integrity
    <3>4. output = Input
      BY <3>1, <3>2, <3>3
    <3>5. rxfrs = wxfrs
      BY <2>1 DEF IInv, TotalInv, TypeOK, Count, ReaderHolds
    <3> QED
      BY <3>4, <3>5
  <2>2. ASSUME wstat = "exited"
        PROVE  /\ rpc = "print" /\ output = Input
               /\ wbytes = Len(Input) /\ rxfrs = wxfrs
               /\ ~semExists /\ ~shmExists /\ attached = {}
    <3>1. wpc = "rmshm" /\ ~shmExists /\ ret = 0 /\ rpc = "print"
      BY <2>2 DEF IInv, EndInv, EofInv
    <3>2. ~semExists /\ attached = {}
      BY <3>1 DEF IInv, EndInv, TypeOK
    <3>3. wbytes = Len(Input)
      BY <3>1 DEF IInv, EofInv, TotalInv, TypeOK
    <3> QED
      BY <2>1, <3>1, <3>2, <3>3
  <2>3. ASSUME rstat = "exited"
        PROVE  output = Input /\ rxfrs = wxfrs /\ "reader" \notin attached
    <3>1. rpc = "print" /\ ret = 0 /\ "reader" \notin attached
      BY <2>3 DEF IInv, StartInv, EofInv, EndInv
    <3> QED
      BY <2>1, <3>1
  <2> QED
    BY <2>2, <2>3 DEF CleanExit
<1>2. QED
  BY <1>1, Invariance, PTL

(* The two programs implement the one-slot transfer: every step of theirs  *)
(* is a step of SlotTransfer or leaves its variables alone.                *)
THEOREM RefinesSlot == Spec => ImplementsSlot
<1>1. Init => Slot!Init
  BY DEF Init, Slot!Init, EofBar
<1>2. IInv /\ [Next]_vars => [Slot!Next]_(Slot!vars)
  <2> SUFFICES ASSUME IInv, [Next]_vars PROVE [Slot!Next]_(Slot!vars)
    OBVIOUS
  <2> USE ConstAssumption, SemNames
  <2>1. CASE WRead
    <3>1. PICK n \in 0..BUF_SIZE : /\ pos + n <= Len(Input)
                                   /\ n = 0 => pos = Len(Input)
                                   /\ pos' = pos + n
                                   /\ ret' = n
      BY <2>1 DEF WRead
    <3>2. wpc = "read" /\ pos = Len(output) /\ UNCHANGED <<output, rpc>>
      BY <2>1 DEF WRead, WriterAt, rVars, IInv, DataInv
    <3>3. EofBar = "no" /\ rpc \notin {"shmdt", "lastRelease", "print"}
      BY <3>2 DEF EofBar, IInv, EofInv
    <3>4. CASE n = 0
      <4>1. EofBar' = "sent"
        BY <3>1, <3>2, <3>3, <3>4 DEF EofBar
      <4>2. pos' = pos
        BY <3>1, <3>4 DEF IInv, TypeOK
      <4> QED
        BY <3>1, <3>2, <3>3, <3>4, <4>1, <4>2 DEF Slot!Next, Slot!SendEof
    <3>5. CASE n # 0
      <4>1. EofBar' = "no"
        BY <3>1, <3>2, <3>3, <3>5 DEF EofBar
      <4>2. n \in 1..BUF_SIZE /\ pos' = pos + n /\ pos + n <= Len(Input)
        BY <3>1, <3>5
      <4>3. Slot!Take
        BY <3>2, <3>3, <4>1, <4>2 DEF Slot!Take
      <4> QED
        BY <4>3 DEF Slot!Next
    <3> QED
      BY <3>4, <3>5
  <2>2. ASSUME NEW k \in 0..cnt, output' = output \o [i \in 1..k |-> buf[i]],
               rpc = "write", rpc' \notin {"shmdt", "lastRelease", "print"},
               UNCHANGED <<pos, ret>>
        PROVE  [Slot!Next]_(Slot!vars)
    <3>1. cnt \in 0..BUF_SIZE /\ pos = Len(output) + cnt /\ pos <= Len(Input)
          /\ \A i \in 1..cnt : buf[i] = Input[Len(output) + i]
      BY <2>2 DEF IInv, DataInv, Loaded, TypeOK
    <3>2. UNCHANGED EofBar
      BY <2>2 DEF EofBar
    <3>3. output \in Seq(Byte) /\ Len(output) \in Nat /\ Input \in Seq(Nat)
          /\ \A i \in 1..Len(output) : output[i] = Input[i]
      BY DEF IInv, TypeOK, Integrity
    <3>4. CASE k = 0
      <4>1. output' = output
        BY <2>2, <3>3, <3>4
      <4> QED
        BY <2>2, <3>2, <4>1 DEF Slot!vars
    <3>5. CASE k # 0
      <4> DEFINE j == Len(output) + k
      <4>1. j \in Len(output) + 1 .. pos /\ j <= Len(Input)
        BY <3>1, <3>3, <3>5
      <4>2. [i \in 1..k |-> buf[i]] \in Seq(Byte) /\ Len([i \in 1..k |-> buf[i]]) = k
        BY <3>1 DEF IInv, TypeOK
      <4>3. output' \in Seq(Byte) /\ Len(output') = j
        BY <2>2, <3>3, <4>2
      <4>4. \A i \in 1..j : output'[i] = Input[i]
        BY <2>2, <3>1, <3>3, <4>2
      <4>5. SubSeq(Input, 1, j) \in Seq(Nat) /\ Len(SubSeq(Input, 1, j)) = j
            /\ \A i \in 1..j : SubSeq(Input, 1, j)[i] = Input[i]
        BY <3>3, <4>1
      <4>6. output' = SubSeq(Input, 1, j)
        BY <4>3, <4>4, <4>5
      <4> QED
        BY <2>2, <3>2, <4>1, <4>6 DEF Slot!Next, Slot!Deliver
    <3> QED
      BY <3>4, <3>5
  <2>3. CASE RWrite
    <3>1. cnt \in 0..cnt
      BY <2>3 DEF RWrite, ReaderAt, IInv, DataInv
    <3> QED
      BY <2>2, <2>3, <3>1 DEF RWrite, ReaderAt, ReaderGoto, wVars
  <2>4. CASE RWriteFails
    <3>1. PICK k \in 0..(cnt - 1) : output' = output \o [i \in 1..k |-> buf[i]]
      BY <2>4 DEF RWriteFails
    <3>2. k \in 0..cnt
      BY <2>4, <3>1 DEF RWriteFails, ReaderAt, IInv, TypeOK
    <3> QED
      BY <2>2, <2>4, <3>1, <3>2 DEF RWriteFails, ReaderAt, wVars
  <2>5. CASE RCheck
    <3>1. rpc = "check" /\ UNCHANGED <<pos, ret, output>> /\ cnt = ret
          /\ rpc' = (IF cnt = 0 THEN "shmdt" ELSE "write")
      BY <2>5 DEF RCheck, ReaderAt, ReaderGoto, wVars, IInv, DataInv
    <3> QED
      BY <3>1 DEF EofBar, Slot!Next, Slot!SeeEof, Slot!vars
  <2>6. CASE WReadFails
    BY <2>6 DEF WReadFails, WriterAt, WriterGoto, rVars, IInv, EofInv, EofBar, Slot!vars
  <2>7. ASSUME UNCHANGED <<pos, ret, output>>,
               UNCHANGED rpc \/ {rpc, rpc'} \cap {"shmdt", "lastRelease", "print"} = {}
                             \/ {rpc, rpc'} \subseteq {"shmdt", "lastRelease", "print"}
        PROVE  [Slot!Next]_(Slot!vars)
    <3>1. UNCHANGED EofBar
      BY <2>7 DEF EofBar
    <3> QED
      BY <2>7, <3>1 DEF Slot!vars
  <2>8. CASE WriterStep /\ ~WRead
    BY <2>7, <2>8
    DEF WriterStep, WSemGet, WInitWriteSem, WInitReadSem, WShmGet, WShmAt, WReserve,
        WStore, WRelease, WCheck, WDrain, WSemRemove, WShmDt, WShmRemove, rVars
  <2>9. CASE ReaderStep /\ ~RWrite /\ ~RCheck
    BY <2>7, <2>9
    DEF ReaderStep, RSemGet, RShmGet, RShmAt, RReserve, RRelease, RIncr, RShmDt,
        RLastRelease, RPrint, ReaderAt, ReaderGoto, wVars
  <2>10. CASE WInterrupted \/ RInterrupted \/ WKilled \/ RKilled \/ UNCHANGED vars
    BY <2>7, <2>10 DEF WInterrupted, RInterrupted, WKilled, RKilled, vars, wVars, rVars
  <2> QED
    BY <2>1, <2>3, <2>4, <2>5, <2>6, <2>8, <2>9, <2>10
    DEF Next, Environment, Finished
<1>3. QED
  BY <1>1, <1>2, Invariance, PTL DEF Spec, ImplementsSlot, Slot!Spec
==============================================================================

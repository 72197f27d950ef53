---------------------------- MODULE MCThreadsProofs ----------------------------
(***************************************************************************)
(* For every number of threads, arguments and spurious wakeups: the        *)
(* counters of thread_multijoin.c agree with its array, the handler of     *)
(* thread_cleanup.c undoes what was done, a wait whose signal or alarm is  *)
(* lost was overtaken in the window before it, and the counter programs    *)
(* lose nothing with the mutex, and never all without it.                  *)
(***************************************************************************)
EXTENDS MCThreads, FiniteSetTheorems, TLAPS

(* The thread owns its block from malloc() to the handler, and has the     *)
(* handler on its stack while it waits.                                    *)
BlockInv ==
    /\ cleanupThread \in {"printf", "lock", "push", "while", "wait", "waiting",
                          "relock", "completed", "free"} => buf = "live"
    /\ cleanupMain = "create" => cleanupThread = "none"
    /\ cleanupThread \in {"unlock", "returned"} => buf = "free"
    /\ cleanupThread \in {"while", "wait", "waiting", "relock"} => pushed

(* Once the condition is set no thread goes on to wait for it, but for one *)
(* that had tested it when main signalled.                                 *)
SignalInv ==
    /\ glob = 1 => cleanupMain \in {"signal", "join", "exited"}
    /\ cleanupMain = "join" /\ glob = 1 /\ (waiting \/ cleanupThread = "wait") =>
           atSignal = "wait"

CleanInv == Cleanup!TypeOK /\ BlockInv /\ SignalInv

(* An alarm comes once; a read() that has not begun has its alarm set or   *)
(* has lost it.                                                            *)
AlarmInv ==
    /\ timedPc = "alarm" => alarm = "none" /\ fired = "none" /\ result = "none"
    /\ timedPc = "done" => alarm # "set"
    /\ timedPc = "read" /\ alarm # "set" => fired = "read" \/ ~timeout
    /\ alarm = "fired" <=> fired # "none"
    /\ result = "EINTR" => alarm = "fired"
    /\ timedPc \in {"read", "waiting"} => result = "none"

TimedInv == Timed!TypeOK /\ Timed!LostOnlyInWindow /\ AlarmInv

-------------------------------------------------------------------------------
LEMMA ConstantsRight == MaxSpurious \in Nat /\ N \in Nat \ {0}
BY ThreadsAssumption
DEF ThreadsAssumption, Cleanup!CleanupAssumption, Reaping!MultiJoinAssumption

LEMMA CleanInit == Cleanup!Init => CleanInv
<1> SUFFICES ASSUME Cleanup!Init PROVE CleanInv
    OBVIOUS
<1> USE ConstantsRight DEF Cleanup!Init
<1>1. Cleanup!TypeOK
    <2>1. spurious \in 0..MaxSpurious
        OBVIOUS
    <2> QED
        BY <2>1 DEF Cleanup!TypeOK, Cleanup!MainPc, Cleanup!ThreadPc
<1>2. BlockInv
    BY DEF BlockInv
<1>3. SignalInv
    BY DEF SignalInv
<1> QED
    BY <1>1, <1>2, <1>3 DEF CleanInv

LEMMA CleanStep == CleanInv /\ [Cleanup!Next]_cleanupVars => CleanInv'
<1> SUFFICES ASSUME CleanInv, [Cleanup!Next]_cleanupVars PROVE CleanInv'
    OBVIOUS
<1> USE ConstantsRight
    DEF CleanInv, Cleanup!TypeOK, BlockInv, SignalInv, Cleanup!MainPc, Cleanup!ThreadPc,
        Cleanup!FREE, Cleanup!THREAD, Cleanup!At,
        Cleanup!ProcessUp, Cleanup!threadVars, Cleanup!mainVars
<1>1. CASE Cleanup!Malloc
    BY <1>1 DEF Cleanup!Malloc
<1>2. CASE Cleanup!PrintAllocated
    BY <1>2 DEF Cleanup!PrintAllocated
<1>3. CASE Cleanup!Lock
    BY <1>3 DEF Cleanup!Lock
<1>4. CASE Cleanup!Push
    BY <1>4 DEF Cleanup!Push
<1>5. CASE Cleanup!WhileGlob
    BY <1>5 DEF Cleanup!WhileGlob
<1>6. CASE Cleanup!Wait
    BY <1>6 DEF Cleanup!Wait
<1>7. CASE Cleanup!Wake
    BY <1>7 DEF Cleanup!Wake
<1>8. CASE Cleanup!SpuriousWake
    <2>1. spurious' \in 0..MaxSpurious
        BY <1>8 DEF Cleanup!SpuriousWake
    <2> QED
        BY <1>8, <2>1 DEF Cleanup!SpuriousWake
<1>9. CASE Cleanup!Relock
    BY <1>9 DEF Cleanup!Relock
<1>10. CASE Cleanup!Pop
    BY <1>10 DEF Cleanup!Pop
<1>11. CASE Cleanup!HandlerFree
    BY <1>11 DEF Cleanup!HandlerFree
<1>12. CASE Cleanup!HandlerUnlock
    BY <1>12 DEF Cleanup!HandlerUnlock
<1>13. CASE Cleanup!Create
    BY <1>13 DEF Cleanup!Create
<1>14. CASE Cleanup!Sleep
    BY <1>14 DEF Cleanup!Sleep
<1>15. CASE Cleanup!Cancel
    BY <1>15 DEF Cleanup!Cancel
<1>16. CASE Cleanup!SetGlob
    BY <1>16 DEF Cleanup!SetGlob
<1>17. CASE Cleanup!Signal
    BY <1>17 DEF Cleanup!Signal
<1>18. CASE Cleanup!Join
    BY <1>18 DEF Cleanup!Join
<1>19. CASE UNCHANGED cleanupVars
    BY <1>19 DEF cleanupVars
<1> QED
    BY <1>1, <1>2, <1>3, <1>4, <1>5, <1>6, <1>7, <1>8, <1>9, <1>10, <1>11, <1>12,
       <1>13, <1>14, <1>15, <1>16, <1>17, <1>18, <1>19
    DEF Cleanup!Next, Cleanup!MainStep, Cleanup!ThreadStep

LEMMA TimedInit == Timed!Init => TimedInv
BY DEF Timed!Init, TimedInv, Timed!TypeOK, Timed!LostOnlyInWindow, AlarmInv

LEMMA TimedStep == TimedInv /\ [Timed!Next]_timedVars => TimedInv'
<1> SUFFICES ASSUME TimedInv, [Timed!Next]_timedVars PROVE TimedInv'
    OBVIOUS
<1> USE DEF TimedInv, Timed!TypeOK, Timed!LostOnlyInWindow, AlarmInv
<1>1. CASE Timed!Types
    BY <1>1 DEF Timed!Types
<1>2. CASE Timed!SetAlarm
    BY <1>2 DEF Timed!SetAlarm
<1>3. CASE Timed!Read
    BY <1>3 DEF Timed!Read
<1>4. CASE Timed!ReadReturns
    BY <1>4 DEF Timed!ReadReturns
<1>5. CASE Timed!AlarmFires
    BY <1>5 DEF Timed!AlarmFires, Timed!Restarts
<1>6. CASE Timed!CancelAlarm
    BY <1>6 DEF Timed!CancelAlarm
<1>7. CASE UNCHANGED timedVars
    BY <1>7 DEF timedVars
<1> QED
    BY <1>1, <1>2, <1>3, <1>4, <1>5, <1>6, <1>7 DEF Timed!Next, Timed!Program

-------------------------------------------------------------------------------
(* The variables of MultiJoin; that numUnjoined stays between -N and N     *)
(* follows from CountInv.                                                  *)
ReapTypes ==
    /\ mpc \in Reaping!MainPc /\ idx \in 0..N
    /\ state \in [Reaping!Threads -> {"ALIVE", "TERMINATED", "JOINED"}]
    /\ numLive \in 0..N /\ numUnjoined \in Int
    /\ threadMutex \in Reaping!Threads \cup {Reaping!MAIN, Reaping!FREE}
    /\ tpc \in [Reaping!Threads -> Reaping!ThreadPc]
    /\ tidx \in [Reaping!Threads -> -1..N]

(* main holds the mutex from its first pthread_mutex_lock() to the end,    *)
(* a thread while it changes the array.                                    *)
MainHolds ==
    \/ mpc \in {"whileNone", "for", "join", "unlock"}
    \/ mpc = "while" /\ numLive = 0

MutexInv ==
    /\ threadMutex = Reaping!MAIN <=> MainHolds
    /\ \A t \in Reaping!Threads :
           tpc[t] \in {"terminate", "unlock"} => threadMutex = t

(* Threads are created in turn, and the array is passed through once.      *)
LoopInv ==
    /\ mpc \in {"created", "join"} => idx < N
    /\ mpc = "create" => \A t \in Reaping!Threads : t >= idx => tpc[t] = "none"
    /\ mpc = "created" => \A t \in Reaping!Threads : t > idx => tpc[t] = "none"
    /\ mpc \in {"lock", "whileNone"} => numLive = N
    /\ mpc = "while" => numLive \in {0, N}
    /\ mpc \in {"for", "join"} => numLive = N - idx
    /\ mpc \in {"unlock", "exit", "exited"} => numLive = 0

ReapedSoFar ==
    IF mpc \in {"for", "join"} THEN 0..idx - 1
    ELSE IF mpc = "unlock" \/ (mpc = "while" /\ numLive = 0)
         THEN Reaping!Threads
         ELSE {}

(* After the last unlock the entries may change, but none comes alive.     *)
JoinedInv ==
    /\ mpc \notin {"exit", "exited", "aborted"} => Reaping!Joined = ReapedSoFar
    /\ mpc \in {"exit", "exited"} => \A k \in Reaping!Threads : state[k] # "ALIVE"

(* A process that aborted did so before its first or after its last reap.  *)
CountInv ==
    /\ mpc # "aborted" => numUnjoined + Reaping!Reaped = Cardinality(Reaping!Ended)
    /\ mpc = "aborted" => numUnjoined + N \in {Cardinality(Reaping!Ended),
                                               Cardinality(Reaping!Ended) + N}

(* An entry says TERMINATED because of a thread that took it for its own.  *)
EntryInv ==
    \A k \in Reaping!Threads :
        state[k] = "TERMINATED" => \E t \in Reaping!Ended : tidx[t] = k

ReapInv == ReapTypes /\ MutexInv /\ LoopInv /\ JoinedInv /\ CountInv /\ EntryInv

LEMMA ReapInit == Reaping!Init => ReapInv
<1> SUFFICES ASSUME Reaping!Init PROVE ReapInv
    OBVIOUS
<1> USE ConstantsRight DEF Reaping!Init, Reaping!Threads
<1>1. ReapTypes
    BY DEF ReapTypes, Reaping!MainPc, Reaping!ThreadPc, Reaping!FREE
<1>2. MutexInv /\ LoopInv
    BY DEF MutexInv, MainHolds, LoopInv, Reaping!FREE, Reaping!MAIN
<1>3. Reaping!Joined = {} /\ Reaping!Ended = {}
    BY DEF Reaping!Joined, Reaping!Ended
<1>4. JoinedInv /\ CountInv
    BY <1>3, FS_EmptySet DEF JoinedInv, CountInv, ReapedSoFar, Reaping!Reaped
<1>5. EntryInv
    BY DEF EntryInv
<1> QED
    BY <1>1, <1>2, <1>4, <1>5 DEF ReapInv

LEMMA ReapCardinalities ==
    ASSUME ReapTypes
    PROVE  /\ IsFiniteSet(Reaping!Ended) /\ Cardinality(Reaping!Ended) \in 0..N
           /\ Cardinality(0..idx - 1) = idx
           /\ Cardinality(Reaping!Threads) = N
           /\ Cardinality({}) = 0
<1>1. IsFiniteSet(Reaping!Threads) /\ Cardinality(Reaping!Threads) = N
    <2>1. 0 \in Int /\ N - 1 \in Int /\ 0 <= N - 1
        BY ConstantsRight
    <2> QED
        BY <2>1, FS_Interval, ConstantsRight DEF Reaping!Threads
<1>2. Reaping!Ended \subseteq Reaping!Threads
    BY DEF Reaping!Ended
<1>3. IsFiniteSet(Reaping!Ended) /\ Cardinality(Reaping!Ended) <= N
    BY <1>1, <1>2, FS_Subset
<1>4. Cardinality(Reaping!Ended) \in Nat
    BY <1>3, FS_CardinalityType
<1>5. Cardinality(0..idx - 1) = idx
    <2>1. idx \in Nat /\ 0 \in Int /\ idx - 1 \in Int
        BY ConstantsRight DEF ReapTypes
    <2> QED
        BY <2>1, FS_Interval
<1> QED
    BY <1>1, <1>3, <1>4, <1>5, FS_EmptySet, ConstantsRight

LEMMA ControlStep ==
    ReapInv /\ [Reaping!Next]_reapingVars => ReapTypes' /\ MutexInv' /\ LoopInv'
<1> SUFFICES ASSUME ReapInv, [Reaping!Next]_reapingVars
             PROVE  ReapTypes' /\ MutexInv' /\ LoopInv'
    OBVIOUS
<1> USE ConstantsRight
    DEF ReapInv, ReapTypes, MutexInv, LoopInv, MainHolds, Reaping!MainPc,
        Reaping!ThreadPc, Reaping!MAIN, Reaping!FREE, Reaping!Threads,
        Reaping!ThreadGoto, Reaping!ProcessUp, Reaping!mainVars
<1>1. ASSUME NEW t \in Reaping!Threads, Reaping!ReadIdx(t)
      PROVE  ReapTypes' /\ MutexInv' /\ LoopInv'
    BY <1>1 DEF Reaping!ReadIdx
<1>2. ASSUME NEW t \in Reaping!Threads, Reaping!ThreadLock(t)
      PROVE  ReapTypes' /\ MutexInv' /\ LoopInv'
    BY <1>2 DEF Reaping!ThreadLock
<1>3. ASSUME NEW t \in Reaping!Threads, Reaping!Terminate(t)
      PROVE  ReapTypes' /\ MutexInv' /\ LoopInv'
    <2>1. /\ ReapTypes' /\ tpc[t] = "terminate" /\ tpc' = [tpc EXCEPT ![t] = "unlock"]
          /\ mpc' \in {mpc, "aborted"} /\ UNCHANGED <<idx, numLive, threadMutex>>
        BY <1>3 DEF Reaping!Terminate
    <2>2. mpc \notin {"whileNone", "for", "join", "unlock"}
        BY <2>1
    <2> QED
        BY <2>1, <2>2
<1>4. ASSUME NEW t \in Reaping!Threads, Reaping!ThreadUnlock(t)
      PROVE  ReapTypes' /\ MutexInv' /\ LoopInv'
    BY <1>4 DEF Reaping!ThreadUnlock
<1>5. ASSUME NEW t \in Reaping!Threads, Reaping!Signal(t)
      PROVE  ReapTypes' /\ MutexInv' /\ LoopInv'
    BY <1>5 DEF Reaping!Signal
<1>6. CASE Reaping!CreateThread
    <2>1. ReapTypes'
        BY <1>6 DEF Reaping!CreateThread
    <2>2. MutexInv'
        <3>1. /\ mpc = "create" /\ mpc' \in {"created", "failed", "numLive"}
              /\ UNCHANGED <<threadMutex, numLive>>
              /\ \/ tpc' = tpc
                 \/ idx < N /\ tpc' = [tpc EXCEPT ![idx] = "read"]
            BY <1>6 DEF Reaping!CreateThread
        <3> QED
            BY <3>1
    <2>3. LoopInv'
        BY <1>6 DEF Reaping!CreateThread
    <2> QED
        BY <2>1, <2>2, <2>3
<1>7. CASE Reaping!NextIdx
    BY <1>7 DEF Reaping!NextIdx
<1>8. CASE Reaping!SetNumLive
    BY <1>8 DEF Reaping!SetNumLive
<1>9. CASE Reaping!WhileLive
    BY <1>9 DEF Reaping!WhileLive
<1>10. CASE Reaping!MainLock
    BY <1>10 DEF Reaping!MainLock
<1>11. CASE Reaping!WhileNone
    BY <1>11 DEF Reaping!WhileNone
<1>12. CASE Reaping!ForTest
    BY <1>12 DEF Reaping!ForTest
<1>13. CASE Reaping!Reap
    BY <1>13 DEF Reaping!Reap
<1>14. CASE Reaping!MainUnlock
    BY <1>14 DEF Reaping!MainUnlock
<1>15. CASE Reaping!MainExit
    BY <1>15 DEF Reaping!MainExit
<1>16. CASE UNCHANGED reapingVars
    BY <1>16 DEF reapingVars
<1> QED
    BY <1>1, <1>2, <1>3, <1>4, <1>5, <1>6, <1>7, <1>8, <1>9, <1>10, <1>11, <1>12,
       <1>13, <1>14, <1>15, <1>16
    DEF Reaping!Next, Reaping!MainStep, Reaping!ThreadStep

(* Which threads have left their critical section, and how many entries    *)
(* main has reaped: Terminate() adds to the first, Reap to the second.     *)
LEMMA EndedStep ==
    ASSUME ReapInv, [Reaping!Next]_reapingVars
    PROVE  \/ /\ Reaping!Ended' = Reaping!Ended
              /\ mpc' = "aborted" <=> mpc = "aborted"
              /\ mpc # "aborted" =>
                     numUnjoined' + Reaping!Reaped' = numUnjoined + Reaping!Reaped
              /\ mpc = "aborted" => numUnjoined' = numUnjoined
           \/ \E t \in Reaping!Threads :
              /\ Reaping!Terminate(t)
              /\ Reaping!Ended' = Reaping!Ended \cup {t}
<1> DEFINE Quiet ==
               /\ Reaping!Ended' = Reaping!Ended
               /\ mpc' = "aborted" <=> mpc = "aborted"
               /\ mpc # "aborted" =>
                      numUnjoined' + Reaping!Reaped' = numUnjoined + Reaping!Reaped
               /\ mpc = "aborted" => numUnjoined' = numUnjoined
<1> USE ConstantsRight
    DEF ReapInv, ReapTypes, MutexInv, LoopInv, MainHolds, Reaping!MainPc,
        Reaping!ThreadPc, Reaping!MAIN, Reaping!FREE, Reaping!Threads,
        Reaping!ThreadGoto, Reaping!ProcessUp, Reaping!mainVars,
        Reaping!Ended, Reaping!Reaped
<1>1. ASSUME NEW t \in Reaping!Threads, Reaping!ReadIdx(t)
      PROVE  Quiet
    BY <1>1 DEF Reaping!ReadIdx
<1>2. ASSUME NEW t \in Reaping!Threads, Reaping!ThreadLock(t)
      PROVE  Quiet
    BY <1>2 DEF Reaping!ThreadLock
<1>3. ASSUME NEW t \in Reaping!Threads, Reaping!Terminate(t)
      PROVE  Reaping!Ended' = Reaping!Ended \cup {t}
    BY <1>3 DEF Reaping!Terminate
<1>4. ASSUME NEW t \in Reaping!Threads, Reaping!ThreadUnlock(t)
      PROVE  Quiet
    BY <1>4 DEF Reaping!ThreadUnlock
<1>5. ASSUME NEW t \in Reaping!Threads, Reaping!Signal(t)
      PROVE  Quiet
    BY <1>5 DEF Reaping!Signal
<1>6. CASE Reaping!CreateThread
    BY <1>6 DEF Reaping!CreateThread
<1>7. CASE Reaping!NextIdx
    BY <1>7 DEF Reaping!NextIdx
<1>8. CASE Reaping!SetNumLive
    BY <1>8 DEF Reaping!SetNumLive
<1>9. CASE Reaping!WhileLive
    BY <1>9 DEF Reaping!WhileLive
<1>10. CASE Reaping!MainLock
    BY <1>10 DEF Reaping!MainLock
<1>11. CASE Reaping!WhileNone
    BY <1>11 DEF Reaping!WhileNone
<1>12. CASE Reaping!ForTest
    BY <1>12 DEF Reaping!ForTest
<1>13. CASE Reaping!Reap
    BY <1>13 DEF Reaping!Reap
<1>14. CASE Reaping!MainUnlock
    BY <1>14 DEF Reaping!MainUnlock
<1>15. CASE Reaping!MainExit
    BY <1>15 DEF Reaping!MainExit
<1>16. CASE UNCHANGED reapingVars
    BY <1>16 DEF reapingVars
<1> QED
    BY <1>1, <1>2, <1>3, <1>4, <1>5, <1>6, <1>7, <1>8, <1>9, <1>10, <1>11, <1>12,
       <1>13, <1>14, <1>15, <1>16
    DEF Reaping!Next, Reaping!MainStep, Reaping!ThreadStep

LEMMA JoinedStep == ReapInv /\ [Reaping!Next]_reapingVars => JoinedInv'
<1> SUFFICES ASSUME ReapInv, [Reaping!Next]_reapingVars PROVE JoinedInv'
    OBVIOUS
<1> USE ConstantsRight
    DEF ReapInv, ReapTypes, MutexInv, LoopInv, MainHolds, Reaping!MainPc,
        Reaping!ThreadPc, Reaping!MAIN, Reaping!FREE, Reaping!Threads,
        Reaping!ThreadGoto, Reaping!ProcessUp, Reaping!mainVars,
        Reaping!Joined, ReapedSoFar, JoinedInv
<1>1. ASSUME NEW t \in Reaping!Threads, Reaping!ReadIdx(t)
      PROVE  JoinedInv'
    BY <1>1 DEF Reaping!ReadIdx
<1>2. ASSUME NEW t \in Reaping!Threads, Reaping!ThreadLock(t)
      PROVE  JoinedInv'
    BY <1>2 DEF Reaping!ThreadLock
<1>3. ASSUME NEW t \in Reaping!Threads, Reaping!Terminate(t)
      PROVE  JoinedInv'
    BY <1>3 DEF Reaping!Terminate
<1>4. ASSUME NEW t \in Reaping!Threads, Reaping!ThreadUnlock(t)
      PROVE  JoinedInv'
    BY <1>4 DEF Reaping!ThreadUnlock
<1>5. ASSUME NEW t \in Reaping!Threads, Reaping!Signal(t)
      PROVE  JoinedInv'
    BY <1>5 DEF Reaping!Signal
<1>6. CASE Reaping!CreateThread
    BY <1>6 DEF Reaping!CreateThread
<1>7. CASE Reaping!NextIdx
    BY <1>7 DEF Reaping!NextIdx
<1>8. CASE Reaping!SetNumLive
    BY <1>8 DEF Reaping!SetNumLive
<1>9. CASE Reaping!WhileLive
    BY <1>9 DEF Reaping!WhileLive
<1>10. CASE Reaping!MainLock
    BY <1>10 DEF Reaping!MainLock
<1>11. CASE Reaping!WhileNone
    BY <1>11 DEF Reaping!WhileNone
<1>12. CASE Reaping!ForTest
    BY <1>12 DEF Reaping!ForTest
<1>13. CASE Reaping!Reap
    BY <1>13 DEF Reaping!Reap
<1>14. CASE Reaping!MainUnlock
    BY <1>14 DEF Reaping!MainUnlock
<1>15. CASE Reaping!MainExit
    BY <1>15 DEF Reaping!MainExit
<1>16. CASE UNCHANGED reapingVars
    BY <1>16 DEF reapingVars
<1> QED
    BY <1>1, <1>2, <1>3, <1>4, <1>5, <1>6, <1>7, <1>8, <1>9, <1>10, <1>11, <1>12,
       <1>13, <1>14, <1>15, <1>16
    DEF Reaping!Next, Reaping!MainStep, Reaping!ThreadStep

LEMMA CountStep == ReapInv /\ [Reaping!Next]_reapingVars => CountInv'
<1> SUFFICES ASSUME ReapInv, [Reaping!Next]_reapingVars PROVE CountInv'
    OBVIOUS
<1> USE DEF ReapInv, CountInv
<1>1. CASE /\ Reaping!Ended' = Reaping!Ended
           /\ mpc' = "aborted" <=> mpc = "aborted"
           /\ mpc # "aborted" =>
                  numUnjoined' + Reaping!Reaped' = numUnjoined + Reaping!Reaped
           /\ mpc = "aborted" => numUnjoined' = numUnjoined
    BY <1>1
<1>2. ASSUME NEW t \in Reaping!Threads, Reaping!Terminate(t),
             Reaping!Ended' = Reaping!Ended \cup {t}
      PROVE  CountInv'
    <2>1. /\ t \notin Reaping!Ended /\ numUnjoined' = numUnjoined + 1
          /\ numUnjoined \in Int
        BY <1>2 DEF Reaping!Terminate, Reaping!Ended, ReapTypes
    <2>2. Cardinality(Reaping!Ended') = Cardinality(Reaping!Ended) + 1
        BY <1>2, <2>1, ReapCardinalities, FS_AddElement
    <2>3. Cardinality(Reaping!Ended) \in 0..N
        BY ReapCardinalities
    <2>4. /\ mpc' \in {mpc, "aborted"} /\ mpc # "aborted"
          /\ Reaping!Reaped \in {0, N}
          /\ mpc' = mpc => Reaping!Reaped' = Reaping!Reaped
        BY <1>2, ConstantsRight
        DEF Reaping!Terminate, Reaping!ProcessUp, Reaping!Reaped, ReapTypes, MutexInv,
            MainHolds, LoopInv, Reaping!MainPc, Reaping!Threads, Reaping!MAIN
    <2> QED
        BY <2>1, <2>2, <2>3, <2>4, ConstantsRight
<1> QED
    BY <1>1, <1>2, EndedStep

LEMMA EntryStep == ReapInv /\ [Reaping!Next]_reapingVars => EntryInv'
<1> SUFFICES ASSUME ReapInv, [Reaping!Next]_reapingVars,
                    NEW k \in Reaping!Threads, state'[k] = "TERMINATED"
             PROVE  \E t \in Reaping!Ended' : tidx'[t] = k
    BY DEF EntryInv
<1>1. Reaping!Ended \subseteq Reaping!Ended'
    BY EndedStep
<1>2. CASE state[k] = "TERMINATED"
    <2>1. PICK t \in Reaping!Ended : tidx[t] = k
        BY <1>2 DEF ReapInv, EntryInv
    <2>2. tidx'[t] = tidx[t]
        BY <2>1
        DEF Reaping!Ended, Reaping!Next, Reaping!MainStep, Reaping!ThreadStep,
            Reaping!ReadIdx, Reaping!ThreadLock, Reaping!Terminate, Reaping!ThreadUnlock,
            Reaping!Signal, Reaping!CreateThread, Reaping!NextIdx, Reaping!SetNumLive,
            Reaping!WhileLive, Reaping!MainLock, Reaping!WhileNone, Reaping!ForTest,
            Reaping!Reap, Reaping!MainUnlock, Reaping!MainExit, reapingVars, ReapInv, ReapTypes
    <2> QED
        BY <1>1, <2>1, <2>2
<1>3. CASE state[k] # "TERMINATED"
    <2>1. PICK t \in Reaping!Threads : Reaping!Terminate(t)
        BY <1>3
        DEF Reaping!Next, Reaping!MainStep, Reaping!ThreadStep,
            Reaping!ReadIdx, Reaping!ThreadLock, Reaping!ThreadUnlock,
            Reaping!Signal, Reaping!CreateThread, Reaping!NextIdx, Reaping!SetNumLive,
            Reaping!WhileLive, Reaping!MainLock, Reaping!WhileNone, Reaping!ForTest,
            Reaping!Reap, Reaping!MainUnlock, Reaping!MainExit, reapingVars, ReapInv, ReapTypes, LoopInv
    <2>2. tidx[t] = k /\ tidx' = tidx /\ tpc'[t] = "unlock"
        BY <1>3, <2>1 DEF Reaping!Terminate, Reaping!ThreadGoto, ReapInv, ReapTypes
    <2> QED
        BY <2>2 DEF Reaping!Ended
<1> QED
    BY <1>2, <1>3

LEMMA ReapStep == ReapInv /\ [Reaping!Next]_reapingVars => ReapInv'
BY ControlStep, JoinedStep, CountStep, EntryStep DEF ReapInv

(* The instance has its own name for the operator of FiniteSets.           *)
LEMMA SameCardinality == \A S : Reaping!Cardinality(S) = Cardinality(S)
BY Zenon DEF Cardinality, Reaping!Cardinality

LEMMA ReapRight ==
    ReapInv => Reaping!TypeOK /\ Reaping!CountersAgree /\ Reaping!StuckOnlyIfMisread
<1> SUFFICES ASSUME ReapInv
             PROVE  Reaping!TypeOK /\ Reaping!CountersAgree /\ Reaping!StuckOnlyIfMisread
    OBVIOUS
<1> USE ConstantsRight DEF ReapInv
<1>1. Cardinality(Reaping!Ended) \in 0..N /\ Reaping!Reaped \in 0..N
    BY ReapCardinalities DEF ReapTypes, Reaping!Reaped
<1>2. Reaping!TypeOK
    <2>1. numUnjoined \in -N..N
        BY <1>1 DEF CountInv, ReapTypes
    <2> QED
        BY <2>1 DEF Reaping!TypeOK, ReapTypes
<1>3. Reaping!CountersAgree
    <2>1. mpc \notin {"exit", "exited", "aborted"} =>
              Cardinality(Reaping!Joined) = Reaping!Reaped
        <3>1. /\ mpc \in {"for", "join"} => Cardinality(ReapedSoFar) = idx
              /\ mpc \in {"create", "created", "numLive", "lock", "whileNone", "failed"} =>
                     Cardinality(ReapedSoFar) = 0
              /\ mpc = "while" /\ numLive = N => Cardinality(ReapedSoFar) = 0
              /\ mpc = "while" /\ numLive = 0 => Cardinality(ReapedSoFar) = N
              /\ mpc = "unlock" => Cardinality(ReapedSoFar) = N
            BY ReapCardinalities DEF ReapedSoFar
        <3>2. mpc \notin {"exit", "exited", "aborted"} =>
                  Cardinality(ReapedSoFar) = Reaping!Reaped
            BY <3>1 DEF ReapTypes, LoopInv, Reaping!MainPc, Reaping!Reaped
        <3> QED
            BY <3>2 DEF JoinedInv
    <2>2. mpc # "aborted" => numUnjoined + Reaping!Reaped = Cardinality(Reaping!Ended)
        BY DEF CountInv
    <2>3. mpc \in {"exit", "exited"} =>
              \A k \in Reaping!Threads \ Reaping!Joined :
                  state[k] = "TERMINATED" /\ \E t \in Reaping!Ended : tidx[t] = k
        BY DEF JoinedInv, EntryInv, ReapTypes, Reaping!Joined
    <2> QED
        BY <2>1, <2>2, <2>3, SameCardinality, Zenon DEF Reaping!CountersAgree
<1>4. Reaping!StuckOnlyIfMisread
    BY DEF Reaping!StuckOnlyIfMisread, EntryInv, LoopInv, ReapTypes, Reaping!Ended,
           Reaping!Threads
<1> QED
    BY <1>2, <1>3, <1>4

-------------------------------------------------------------------------------
(* thread_incr.c and thread_incr_mutex.c.                                  *)

LEMMA CountsRight == Counts \subseteq Int
BY ThreadsAssumption DEF ThreadsAssumption, Incr!IncrAssumption

(* Nothing has been counted before main reads its argument.                *)
LEMMA IncrInit == Incr!Init => Incr!IInv
<1> SUFFICES ASSUME Incr!Init PROVE Incr!IInv
    OBVIOUS
<1> USE DEF Incr!Init, Incr!Threads
<1>1. Incr!TypeOK
    BY DEF Incr!TypeOK, Incr!MainPc, Incr!ThreadPc, Incr!Rounds
<1>2. Incr!MutexInv /\ Incr!LoopInv
    BY DEF Incr!MutexInv, Incr!InSection, Incr!LoopInv
<1>3. Incr!CountInv /\ Incr!NotAllLost /\ Incr!MainInv
    BY DEF Incr!CountInv, Incr!NeverTooMany, Incr!NotAllLost, Incr!MainInv
<1> QED BY <1>1, <1>2, <1>3 DEF Incr!IInv

(* A step of a thread: each conjunct from the others and the step.         *)
LEMMA IncrThreadStep ==
    ASSUME Incr!IInv, NEW t \in Incr!Threads, Incr!ThreadStep(t) PROVE Incr!IInv'
<1> USE DEF Incr!IInv, Incr!TypeOK, Incr!MainPc, Incr!ThreadPc, Incr!Threads, Incr!Rounds,
            Incr!mainVars, Incr!ProcessUp,
           Incr!Goto, Incr!TestLoop, Incr!LoopBody
<1>0. loops \in Int
    BY CountsRight
<1>a. UNCHANGED locked
    BY DEF Incr!ThreadStep
<1> USE <1>a
<1>1. CASE Incr!StartThread(t)
    <2> USE <1>1 DEF Incr!StartThread
    <2>1. Incr!TypeOK'
        OBVIOUS
    <2>2. Incr!MutexInv' /\ Incr!LoopInv'
        BY DEF Incr!MutexInv, Incr!InSection, Incr!LoopInv
    <2>3. Incr!CountInv' /\ Incr!NotAllLost'
        BY DEF Incr!CountInv, Incr!NeverTooMany, Incr!NotAllLost, Incr!LoopInv
    <2>4. Incr!MainInv'
        BY DEF Incr!MainInv
    <2> QED BY <2>1, <2>2, <2>3, <2>4
<1>2. CASE Incr!Lock(t)
    <2> USE <1>2 DEF Incr!Lock
    <2>1. Incr!TypeOK'
        OBVIOUS
    <2>2. Incr!MutexInv' /\ Incr!LoopInv'
        BY DEF Incr!MutexInv, Incr!InSection, Incr!LoopInv
    <2>3. Incr!CountInv' /\ Incr!NotAllLost'
        BY DEF Incr!CountInv, Incr!NeverTooMany, Incr!NotAllLost
    <2>4. Incr!MainInv'
        BY DEF Incr!MainInv
    <2> QED BY <2>1, <2>2, <2>3, <2>4
<1>3. CASE Incr!Load(t)
    <2> USE <1>3 DEF Incr!Load
    <2>1. Incr!TypeOK'
        OBVIOUS
    <2>2. Incr!MutexInv' /\ Incr!LoopInv'
        BY DEF Incr!MutexInv, Incr!InSection, Incr!LoopInv
    <2>3. Incr!CountInv'
        BY DEF Incr!CountInv, Incr!NeverTooMany
    <2>4. Incr!NotAllLost'
        BY DEF Incr!NotAllLost
    <2>5. Incr!MainInv'
        BY DEF Incr!MainInv
    <2> QED BY <2>1, <2>2, <2>3, <2>4, <2>5
<1>4. CASE Incr!Store(t)
    <2>1. PICK k \in Incr!RoundsPerStore(t) :
            /\ incrGlob' = loc[t] + k
            /\ j' = [j EXCEPT ![t] = @ + k]
            /\ IF locked THEN Incr!Goto(t, "unlock") ELSE Incr!TestLoop(t, j[t] + k)
        BY <1>4 DEF Incr!Store
    <2>2. incrPc[t] = "store" /\ UNCHANGED <<Incr!mainVars, incrMtx, loc>>
        BY <1>4 DEF Incr!Store
    <2>3. j[t] < loops /\ j[t] >= 0 /\ loops \in Int
        BY <2>2, <1>0 DEF Incr!LoopInv
    <2>4. k \in Nat /\ k >= 1 /\ j[t] + k <= loops /\ (locked => k = 1)
        BY <2>1, <2>3 DEF Incr!RoundsPerStore
    <2>5. Incr!TypeOK'
        BY <2>1, <2>2, <2>3, <2>4
    <2>6. Incr!MutexInv'
        BY <2>1, <2>2 DEF Incr!MutexInv, Incr!InSection
    <2>7. Incr!LoopInv'
        BY <2>1, <2>2, <2>3, <2>4 DEF Incr!LoopInv
    <2>8. Incr!CountInv'
        BY <2>1, <2>2, <2>3, <2>4 DEF Incr!CountInv, Incr!NeverTooMany, Incr!MutexInv,
                                      Incr!InSection
    <2>9. Incr!NotAllLost'
        <3>1. incrGlob' >= 1
            BY <2>1, <2>4
        <3>2. j[t] >= 1 => incrGlob' >= 2
            BY <2>1, <2>2, <2>4 DEF Incr!NotAllLost
        <3>3. incrPc'[t] = "done" => j[t] + k = loops
            BY <2>1, <2>2, <2>3, <2>4
        <3>4. \A u \in Incr!Threads : incrPc'[u] = "store" /\ j'[u] >= 1 => loc'[u] >= 1
            BY <2>1, <2>2 DEF Incr!NotAllLost
        <3>5. Incr!Rounds' >= 2 /\ incrPc'[1] = "done" /\ incrPc'[2] = "done" => incrGlob' >= 2
            BY <3>2, <3>3, <2>1, <2>2, <2>3, <2>4
        <3> QED BY <3>1, <3>4, <3>5 DEF Incr!NotAllLost
    <2>10. Incr!MainInv'
        BY <2>1, <2>2, <1>4 DEF Incr!MainInv, Incr!Store
    <2> QED BY <2>5, <2>6, <2>7, <2>8, <2>9, <2>10
<1>5. CASE Incr!Unlock(t)
    <2> USE <1>5 DEF Incr!Unlock
    <2>1. locked
        BY DEF Incr!MutexInv
    <2>2. Incr!TypeOK'
        OBVIOUS
    <2>3. Incr!MutexInv'
        BY <2>1 DEF Incr!MutexInv, Incr!InSection
    <2>4. Incr!LoopInv'
        BY <1>0 DEF Incr!LoopInv
    <2>5. Incr!CountInv'
        BY DEF Incr!CountInv, Incr!NeverTooMany
    <2>6. Incr!NotAllLost'
        BY <2>1, <2>4, <2>5 DEF Incr!NotAllLost, Incr!LoopInv, Incr!CountInv
    <2>7. Incr!MainInv'
        BY DEF Incr!MainInv
    <2> QED BY <2>2, <2>3, <2>4, <2>5, <2>6, <2>7
<1> QED BY <1>1, <1>2, <1>3, <1>4, <1>5 DEF Incr!ThreadStep

(* A step of main.                                                         *)
LEMMA IncrMainStep == ASSUME Incr!IInv, Incr!MainStep PROVE Incr!IInv'
<1> USE DEF Incr!IInv, Incr!TypeOK, Incr!MainPc, Incr!ThreadPc, Incr!Threads, Incr!Rounds,
            Incr!mainVars, Incr!Goto
<1>0. Counts \subseteq Int
    BY CountsRight
<1>a. UNCHANGED locked
    BY DEF Incr!MainStep
<1> USE <1>a
<1>1. CASE Incr!ParseArgs
    <2> USE <1>1 DEF Incr!ParseArgs
    <2>1. j[1] = 0 /\ j[2] = 0 /\ incrPc[1] = "none" /\ incrPc[2] = "none"
        BY DEF Incr!MainInv, Incr!LoopInv
    <2>2. loops' \in Counts \cup {0} /\ incrMain' \in {"create1", "crashed"}
        <3>1. loops = 0
            BY DEF Incr!MainInv
        <3> QED BY <3>1
    <2>3. j' \in [Incr!Threads -> 0..Incr!Rounds']
        BY <2>1, <2>2, <1>0
    <2>4. Incr!TypeOK'
        BY <2>2, <2>3
    <2>5. Incr!MutexInv'
        BY DEF Incr!MutexInv, Incr!InSection
    <2>6. Incr!LoopInv'
        BY <2>1 DEF Incr!LoopInv
    <2>7. Incr!CountInv' /\ Incr!NotAllLost' /\ Incr!MainInv'
        BY <2>1 DEF Incr!CountInv, Incr!NeverTooMany, Incr!NotAllLost, Incr!MainInv
    <2> QED BY <2>4, <2>5, <2>6, <2>7
<1>2. CASE Incr!CreateFirst \/ Incr!CreateSecond
    <2>1. PICK t \in Incr!Threads, at, next \in Incr!MainPc :
            /\ Incr!Create(t, at, next)
            /\ <<t, at, next>> \in {<<1, "create1", "create2">>, <<2, "create2", "join1">>}
        BY <1>2 DEF Incr!CreateFirst, Incr!CreateSecond
    <2> USE <2>1 DEF Incr!Create
    <2>2. incrPc[t] = "none"
        BY DEF Incr!MainInv
    <2>3. Incr!TypeOK'
        OBVIOUS
    <2>4. Incr!MutexInv' /\ Incr!LoopInv'
        BY <2>2 DEF Incr!MutexInv, Incr!InSection, Incr!LoopInv
    <2>5. Incr!CountInv' /\ Incr!NotAllLost'
        BY <2>2 DEF Incr!CountInv, Incr!NeverTooMany, Incr!NotAllLost
    <2>6. Incr!MainInv'
        BY <2>2 DEF Incr!MainInv
    <2> QED BY <2>3, <2>4, <2>5, <2>6
<1>3. CASE Incr!JoinFirst \/ Incr!JoinSecond
    <2> USE <1>3 DEF Incr!JoinFirst, Incr!JoinSecond, Incr!Join
    <2>1. Incr!TypeOK' /\ Incr!MutexInv' /\ Incr!LoopInv'
        BY DEF Incr!MutexInv, Incr!InSection, Incr!LoopInv
    <2>2. Incr!CountInv' /\ Incr!NotAllLost'
        BY DEF Incr!CountInv, Incr!NeverTooMany, Incr!NotAllLost
    <2>3. Incr!MainInv'
        BY DEF Incr!MainInv
    <2> QED BY <2>1, <2>2, <2>3
<1>4. CASE Incr!PrintGlob
    <2> USE <1>4 DEF Incr!PrintGlob
    <2>1. Incr!TypeOK' /\ Incr!MutexInv' /\ Incr!LoopInv'
        BY DEF Incr!MutexInv, Incr!InSection, Incr!LoopInv
    <2>2. Incr!CountInv' /\ Incr!NotAllLost' /\ Incr!MainInv'
        BY DEF Incr!CountInv, Incr!NeverTooMany, Incr!NotAllLost, Incr!MainInv
    <2> QED BY <2>1, <2>2
<1> QED BY <1>1, <1>2, <1>3, <1>4 DEF Incr!MainStep

LEMMA IncrStep == Incr!IInv /\ [Incr!Next]_incrVars => Incr!IInv'
<1> SUFFICES ASSUME Incr!IInv, [Incr!Next]_incrVars PROVE Incr!IInv'
    OBVIOUS
<1>1. CASE Incr!MainStep
    BY <1>1, IncrMainStep
<1>2. ASSUME NEW t \in Incr!Threads, Incr!ThreadStep(t) PROVE Incr!IInv'
    BY <1>2, IncrThreadStep
<1>3. CASE UNCHANGED incrVars
    BY <1>3 DEF incrVars, Incr!mainVars, Incr!IInv, Incr!TypeOK, Incr!MutexInv,
                Incr!InSection, Incr!LoopInv, Incr!CountInv,
       Incr!NeverTooMany, Incr!NotAllLost, Incr!MainInv, Incr!Rounds
<1> QED BY <1>1, <1>2, <1>3 DEF Incr!Next

-------------------------------------------------------------------------------
(* The programs side by side.                                              *)

IInv == ReapInv /\ CleanInv /\ TimedInv /\ Incr!IInv

LEMMA InitInv == Init => IInv
BY ReapInit, CleanInit, TimedInit, IncrInit DEF Init, IInv

LEMMA StepInv == IInv /\ [Next]_vars => IInv'
<1> SUFFICES ASSUME IInv, [Next]_vars PROVE IInv'
    OBVIOUS
<1>1. [Reaping!Next]_reapingVars /\ [Cleanup!Next]_cleanupVars /\ [Timed!Next]_timedVars
      /\ [Incr!Next]_incrVars
    BY DEF Next, ReapingRuns, CleanupRuns, TimedRuns, IncrRuns, Runs, vars
<1> QED
    BY <1>1, ReapStep, CleanStep, TimedStep, IncrStep DEF IInv

LEMMA AlwaysInv == FairSpec => []IInv
<1>1. Init /\ [][Next]_vars => []IInv
    BY InitInv, StepInv, PTL
<1> QED
    BY <1>1, PTL DEF FairSpec

(* Every variable of the four programs  stays in its type: no block is     *)
(* freed twice, main counts each thread once and is never in its inner     *)
(* loop's wait (thread_multijoin.c:116-118).                               *)
THEOREM TypeCorrect == FairSpec => []TypeOK
<1>1. IInv => TypeOK
    BY ReapRight DEF IInv, CleanInv, TimedInv, Incr!IInv, TypeOK
<1> QED
    BY <1>1, AlwaysInv, PTL

(* Whatever index each thread reads: numUnjoined and numLive agree with    *)
(* the array, and main blocks the others only in favour of a thread whose  *)
(* index another one took (thread_multijoin.c:34, 47 and 126-136).         *)
THEOREM CountersRight == FairSpec => []CountersAgree
<1>1. IInv => CountersAgree
    BY ReapRight DEF IInv, CountersAgree
<1> QED
    BY <1>1, AlwaysInv, PTL

(* A signal or an alarm is lost only in the window before the wait         *)
(* (thread_cleanup.c:88, timed_read.c:37).                                 *)
THEOREM LostInWindow == FairSpec => []LostOnlyInWindow
<1>1. IInv => LostOnlyInWindow
    BY DEF IInv, CleanInv, TimedInv, LostOnlyInWindow, SignalInv, Cleanup!LostOnlyInWindow
<1> QED
    BY <1>1, AlwaysInv, PTL

(* However the thread ends, block and mutex are given back, unless it was  *)
(* cancelled in printf(), before the handler was pushed                    *)
(* (thread_cleanup.c:33-43).                                               *)
THEOREM HandlerCleansUp == FairSpec => CleansUp
<1> DEFINE Ends == cleanupThread' \in {"returned",
"canceled"} /\ cleanupThread # "printf" =>
                       buf' = "free" /\ mtx' = Cleanup!FREE
<1>1. IInv /\ [Next]_vars => [Ends]_cleanupThread
    <2> SUFFICES ASSUME IInv, [Next]_vars, cleanupThread' # cleanupThread PROVE Ends
        OBVIOUS
    <2>1. Cleanup!Next
        BY DEF Next, ReapingRuns, CleanupRuns, TimedRuns, IncrRuns, Runs, vars, cleanupVars
    <2> USE DEF IInv, CleanInv, BlockInv
    <2>2. CASE Cleanup!PrintAllocated
        BY <2>2 DEF Cleanup!PrintAllocated, Cleanup!At
    <2>3. CASE Cleanup!Relock
        BY <2>3 DEF Cleanup!Relock, Cleanup!At
    <2>4. CASE Cleanup!HandlerUnlock
        BY <2>4 DEF Cleanup!HandlerUnlock, Cleanup!At, Cleanup!threadVars, Cleanup!mainVars
    <2>5. CASE cleanupThread' \notin {"returned", "canceled"}
        BY <2>5
    <2>6. Cleanup!PrintAllocated \/ Cleanup!Relock \/ Cleanup!HandlerUnlock
              \/ cleanupThread' \notin {"returned", "canceled"}
        BY <2>1
        DEF Cleanup!Next, Cleanup!MainStep, Cleanup!ThreadStep, Cleanup!threadVars,
            Cleanup!Malloc, Cleanup!Lock, Cleanup!Push, Cleanup!WhileGlob, Cleanup!Wait,
            Cleanup!Wake, Cleanup!SpuriousWake, Cleanup!Pop, Cleanup!HandlerFree,
            Cleanup!Create, Cleanup!Sleep, Cleanup!Cancel, Cleanup!SetGlob,
            Cleanup!Signal, Cleanup!Join
    <2> QED
        BY <2>2, <2>3, <2>4, <2>5, <2>6
<1>2. FairSpec => [][Ends]_cleanupThread
    <2>1. []IInv /\ [][Next]_vars => [][Ends]_cleanupThread
        BY <1>1, PTL
    <2> QED
        BY <2>1, AlwaysInv, PTL DEF FairSpec
<1> QED
    BY <1>2 DEF CleansUp, Cleanup!CleansUp

(* With the mutex nothing is lost: the printed total is twice the rounds.  *)
THEOREM ExactCount == FairSpec => []ExactTotal
<1>1. IInv => ExactTotal
    BY CountsRight
    DEF IInv, ExactTotal, Incr!IInv, Incr!TypeOK, Incr!Threads, Incr!ExactTotal,
        Incr!CountInv, Incr!MainInv, Incr!LoopInv, Incr!Rounds
<1> QED BY <1>1, AlwaysInv, PTL

(* Without it the loss is bounded: at most everything but two rounds.      *)
THEOREM BoundedLoss == FairSpec => []LostButBounded
<1>1. IInv => LostButBounded
    <2> SUFFICES ASSUME Incr!IInv, incrMain = "exited"
                 PROVE  printed <= 2 * Incr!Rounds /\ (Incr!Rounds >= 2 => printed >= 2)
        BY DEF IInv, LostButBounded, Incr!LostButBounded
    <2>1. Incr!Rounds \in Nat /\ incrGlob \in Nat
        BY CountsRight DEF Incr!IInv, Incr!TypeOK, Incr!Rounds
    <2>2. printed = incrGlob /\ incrPc[1] = "done" /\ incrPc[2] = "done"
        BY DEF Incr!IInv, Incr!MainInv
    <2>3. j[1] = Incr!Rounds /\ j[2] = Incr!Rounds
        BY <2>2 DEF Incr!IInv, Incr!LoopInv, Incr!Threads
    <2> QED BY <2>1, <2>2, <2>3 DEF Incr!IInv, Incr!CountInv, Incr!NeverTooMany,
                                    Incr!NotAllLost
<1> QED BY <1>1, AlwaysInv, PTL

(* With the mutex every store adds one to the last stored value.           *)
THEOREM StoreByStore == FairSpec => Incr!StoresAddOne
<1> DEFINE AddsOne == locked /\ incrGlob' # incrGlob => incrGlob' = incrGlob + 1
<1>1. IInv /\ [Next]_vars => [AddsOne]_Incr!vars
    <2> SUFFICES ASSUME IInv, [Next]_vars, locked, incrGlob' # incrGlob
                 PROVE  incrGlob' = incrGlob + 1
        OBVIOUS
    <2>0. Incr!Next
        BY DEF Next, ReapingRuns, CleanupRuns, TimedRuns, IncrRuns, Runs, vars, incrVars,
               Incr!vars, Incr!mainVars
    <2>1. PICK t \in Incr!Threads : Incr!Store(t)
        BY <2>0
        DEF Incr!Next, Incr!MainStep, Incr!ThreadStep, Incr!StartThread, Incr!Lock,
            Incr!Load, Incr!Unlock, Incr!ParseArgs, Incr!Create, Incr!CreateFirst,
            Incr!CreateSecond, Incr!Join, Incr!JoinFirst, Incr!JoinSecond,
            Incr!PrintGlob, Incr!mainVars
    <2>2. loc[t] = incrGlob
        BY <2>1 DEF Incr!Store, IInv, Incr!IInv, Incr!CountInv
    <2> QED BY <2>1, <2>2 DEF Incr!Store, Incr!RoundsPerStore
<1>2. FairSpec => [][AddsOne]_Incr!vars
    <2>1. []IInv /\ [][Next]_vars => [][AddsOne]_Incr!vars
        BY <1>1, PTL
    <2> QED
        BY <2>1, AlwaysInv, PTL DEF FairSpec
<1> QED
    BY <1>2 DEF Incr!StoresAddOne
===============================================================================

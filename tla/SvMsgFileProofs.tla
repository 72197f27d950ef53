--------------------------- MODULE SvMsgFileProofs ---------------------------
(***************************************************************************)
(* Proofs about SvMsgFile, for every set of clients, file and queue size   *)
(* and number of faults: no zombie is forgotten although SIGCHLD is not    *)
(* queued, no signal can make the server stop, a fault loses at most one   *)
(* request, and the chunks of a file arrive in order.                      *)
(***************************************************************************)
EXTENDS SvMsgFile, FiniteSetTheorems, WellFoundedInduction, TLAPS

(* The part of the types the arguments need.                               *)
ChildTyped ==
    /\ child \in [Clients -> ChildState]
    /\ parent \in [Clients -> BOOLEAN]
    /\ sigPending \in BOOLEAN

(* A server that does not run, or has not forked yet, has no children.     *)
NoParent == ~Alive => \A c \in Clients : ~parent[c]

ReapInv == ChildTyped /\ NoParent /\ ZombieIsNoticed

(* The errno the test after msgrcv will see, now or when the handler that  *)
(* runs has given it back.                                                 *)
ErrnoSeen == IF hpc = "off" THEN errno ELSE savedErrno

StopInv ==
    spc = "errcheck" => ErrnoSeen = "EINTR" \/ ~serverQExists

-------------------------------------------------------------------------------
(* The parts of serveRequest and of the client do not touch the variables  *)
(* of the server, except for the exit of a child.                          *)
LEMMA ChildStepFacts ==
    ASSUME NEW c \in Clients, ChildStep(c) \/ ChildKilled(c) \/ ChildReadFails(c)
    PROVE  /\ UNCHANGED <<spc, hpc, errno, savedErrno, serverQExists, parent>>
           /\ \/ /\ \E s \in {"failure", "data", "end"} :
                        child' = [child EXCEPT ![c] = s]
                 /\ UNCHANGED sigPending
              \/ UNCHANGED <<child, sigPending>>
              \/ ChildExits(c)
<1> USE DEF ChildUnchanged, serverVars, handlerVars
<1>1. CASE ChildOpen(c)
  BY <1>1 DEF ChildOpen
<1>2. CASE ChildSendFailure(c)
  BY <1>2 DEF ChildSendFailure
<1>3. CASE ChildSendData(c)
  BY <1>3 DEF ChildSendData
<1>4. CASE ChildEndOfFile(c)
  BY <1>4 DEF ChildEndOfFile
<1>5. CASE ChildSendEnd(c)
  BY <1>5 DEF ChildSendEnd
<1>6. CASE ChildKilled(c)
  BY <1>6 DEF ChildKilled
<1>7. CASE ChildReadFails(c)
  BY <1>7 DEF ChildReadFails
<1> QED
  BY <1>1, <1>2, <1>3, <1>4, <1>5, <1>6, <1>7 DEF ChildStep

LEMMA ClientStepFacts ==
    ASSUME NEW c \in Clients, ClientStep(c) \/ ClientKilled(c) \/ CleanUp(c)
    PROVE  UNCHANGED <<spc, hpc, errno, savedErrno, sigPending, serverQExists,
                       child, parent>>
<1> USE DEF ClientUnchanged, serverVars, handlerVars, childVars
<1>1. CASE ClientStep(c)
  BY <1>1 DEF ClientStep, ClientMsgget, ClientCreate, ClientMsgsnd, ClientFirst,
              ClientRefused, ClientNext, ClientExit
<1>2. CASE ClientKilled(c)
  BY <1>2 DEF ClientKilled
<1>3. CASE CleanUp(c)
  BY <1>3 DEF CleanUp
<1> QED
  BY <1>1, <1>2, <1>3

-------------------------------------------------------------------------------
LEMMA ReapInit == Init => ReapInv
<1> SUFFICES ASSUME Init PROVE ReapInv
  OBVIOUS
<1>1. \A c \in Clients : child[c] = "none" /\ parent[c] = FALSE
  BY DEF Init
<1>2. ChildTyped
  BY DEF Init, ChildTyped, ChildState
<1>3. NoParent /\ ZombieIsNoticed
  BY <1>1 DEF NoParent, ZombieIsNoticed, OwnChildren
<1> QED
  BY <1>2, <1>3 DEF ReapInv

(* One step per action: only the exit of a child makes a zombie, and it    *)
(* raises the signal; only the handler that saw no zombie stops looking.   *)
LEMMA ReapStep == ReapInv /\ [Next]_vars => ReapInv'
<1> SUFFICES ASSUME ReapInv, [Next]_vars PROVE ReapInv'
  OBVIOUS
<1> USE SvMsgAssumption DEF ReapInv, ChildTyped, NoParent, ZombieIsNoticed,
        OwnChildren, Alive, ChildState, vars, serverVars, handlerVars, childVars
<1>1. CASE Sigaction
  BY <1>1 DEF Sigaction, ServerAt
<1>2. CASE Msgget
  BY <1>2 DEF Msgget, ServerAt
<1>3. CASE Msgrcv
  BY <1>3 DEF Msgrcv, ServerAt
<1>4. CASE MsgrcvFails
  BY <1>4 DEF MsgrcvFails, ServerAt
<1>5. CASE CheckErrno
  BY <1>5 DEF CheckErrno, ServerAt
<1>6. CASE Fork
  BY <1>6 DEF Fork, ServerAt
<1>7. CASE Deliver
  BY <1>7 DEF Deliver
<1>8. CASE ReapOne
  BY <1>8 DEF ReapOne
<1>9. CASE ReapDone
  BY <1>9 DEF ReapDone
<1>10. CASE RestoreErrno
  BY <1>10 DEF RestoreErrno
<1>11. CASE ForkFails
  BY <1>11 DEF ForkFails, ServerAt
<1>12. CASE ServerKilled
  BY <1>12 DEF ServerKilled
<1>13. CASE ServerRestart
  BY <1>13 DEF ServerRestart
<1>14. CASE QueueRemoved
  BY <1>14 DEF QueueRemoved
<1>15. ASSUME NEW c \in Clients, ChildStep(c) \/ ChildKilled(c) \/ ChildReadFails(c)
       PROVE  ReapInv'
  BY <1>15, ChildStepFacts DEF ChildExits
<1>16. ASSUME NEW c \in Clients, ClientStep(c) \/ ClientKilled(c) \/ CleanUp(c)
       PROVE  ReapInv'
  BY <1>16, ClientStepFacts
<1>17. CASE UNCHANGED vars
  BY <1>17
<1> QED
  BY <1>1, <1>2, <1>3, <1>4, <1>5, <1>6, <1>7, <1>8, <1>9, <1>10, <1>11, <1>12,
     <1>13, <1>14, <1>15, <1>16, <1>17
  DEF Next, ServerMain, Handler, Fault, Idle

(* grimReaper forgets no child: whenever a child of the server is a        *)
(* zombie, a signal is pending or the handler is still in its loop.        *)
THEOREM NoZombieForgotten == Spec => []ZombieIsNoticed
<1>1. ReapInv => ZombieIsNoticed
  BY DEF ReapInv
<1>2. QED
  BY <1>1, ReapInit, ReapStep, PTL DEF Spec

-------------------------------------------------------------------------------
LEMMA StopInit == Init => StopInv
BY DEF Init, StopInv

(* The handler gives errno back, so the test after msgrcv sees the reason  *)
(* of the failure whatever waitpid did to errno in between.                *)
LEMMA StopStep == StopInv /\ [Next]_vars => StopInv'
<1> SUFFICES ASSUME StopInv, [Next]_vars PROVE StopInv'
  OBVIOUS
<1> USE DEF StopInv, ErrnoSeen, vars, serverVars, handlerVars
<1>1. CASE Sigaction \/ Msgget \/ Msgrcv \/ Fork \/ CheckErrno
  BY <1>1 DEF Sigaction, Msgget, Msgrcv, Fork, CheckErrno
<1>2. CASE MsgrcvFails
  BY <1>2 DEF MsgrcvFails, ServerAt
<1>3. CASE Deliver
  BY <1>3 DEF Deliver
<1>4. CASE ReapOne
  BY <1>4 DEF ReapOne
<1>5. CASE ReapDone
  BY <1>5 DEF ReapDone
<1>6. CASE RestoreErrno
  BY <1>6 DEF RestoreErrno
<1>7. CASE ForkFails \/ ServerKilled \/ ServerRestart \/ QueueRemoved
  BY <1>7 DEF ForkFails, ServerKilled, ServerRestart, QueueRemoved
<1>8. ASSUME NEW c \in Clients, ChildStep(c) \/ ChildKilled(c) \/ ChildReadFails(c)
      PROVE  StopInv'
  BY <1>8, ChildStepFacts
<1>9. ASSUME NEW c \in Clients, ClientStep(c) \/ ClientKilled(c) \/ CleanUp(c)
      PROVE  StopInv'
  BY <1>9, ClientStepFacts
<1>10. CASE UNCHANGED vars
  BY <1>10
<1> QED
  BY <1>1, <1>2, <1>3, <1>4, <1>5, <1>6, <1>7, <1>8, <1>9, <1>10
  DEF Next, ServerMain, Handler, Fault, Idle

(* The server leaves its loop only when its queue is gone.                 *)
THEOREM ServerKeepsRunning == Spec => StopsOnlyWithoutQueue
<1>1. StopInv /\ [Next]_vars => (spc' = "down" => spc = "down" \/ ~serverQExists) \/ UNCHANGED vars
  <2> SUFFICES ASSUME StopInv, [Next]_vars, spc' = "down", spc # "down"
               PROVE  ~serverQExists
    OBVIOUS
  <2> USE DEF vars, serverVars, handlerVars
  <2>1. CASE CheckErrno
    BY <2>1 DEF CheckErrno, ServerAt, StopInv, ErrnoSeen
  <2>2. CASE Sigaction \/ Msgget \/ Msgrcv \/ MsgrcvFails \/ Fork
    BY <2>2 DEF Sigaction, Msgget, Msgrcv, MsgrcvFails, Fork
  <2>3. CASE Handler
    BY <2>3 DEF Handler, Deliver, ReapOne, ReapDone, RestoreErrno
  <2>4. CASE ForkFails \/ ServerKilled \/ ServerRestart \/ QueueRemoved
    BY <2>4 DEF ForkFails, ServerKilled, ServerRestart, QueueRemoved
  <2>5. ASSUME NEW c \in Clients, ChildStep(c) \/ ChildKilled(c) \/ ChildReadFails(c)
        PROVE  FALSE
    BY <2>5, ChildStepFacts
  <2>6. ASSUME NEW c \in Clients, ClientStep(c) \/ ClientKilled(c) \/ CleanUp(c)
        PROVE  FALSE
    BY <2>6, ClientStepFacts
  <2> QED
    BY <2>1, <2>2, <2>3, <2>4, <2>5, <2>6 DEF Next, ServerMain, Fault, Idle
<1>2. QED
  BY <1>1, StopInit, StopStep, PTL DEF Spec, StopsOnlyWithoutQueue

-------------------------------------------------------------------------------
(* A queue after a message was appended to it or taken from it.            *)
LEMMA AppendFacts ==
    ASSUME NEW S, NEW s \in Seq(S), NEW x \in S
    PROVE  /\ Append(s, x) \in Seq(S)
           /\ Len(s) \in Nat /\ Len(Append(s, x)) = Len(s) + 1
           /\ \A i \in 1..Len(s) : Append(s, x)[i] = s[i]
           /\ Append(s, x)[Len(s) + 1] = x
OBVIOUS

LEMMA TailFacts ==
    ASSUME NEW S, NEW s \in Seq(S), s # <<>>
    PROVE  /\ Tail(s) \in Seq(S) /\ Head(s) = s[1] /\ s[1] \in S
           /\ Len(s) \in Nat \ {0} /\ Len(Tail(s)) = Len(s) - 1
           /\ \A i \in 1..Len(s) - 1 : Tail(s)[i] = s[i + 1]
OBVIOUS

LEMMA TailIndices ==
    ASSUME NEW S, NEW s \in Seq(S), s # <<>>
    PROVE  /\ 1 \in 1..Len(s)
           /\ \A i \in 1..Len(Tail(s)) :
                  i + 1 \in 1..Len(s) /\ Tail(s)[i] = s[i + 1] /\ i + 1 # 1 /\ i \in Int
BY TailFacts

LEMMA AppendIndices ==
    ASSUME NEW S, NEW s \in Seq(S), NEW x \in S
    PROVE  \A i \in 1..Len(Append(s, x)) :
               \/ i \in 1..Len(s) /\ Append(s, x)[i] = s[i]
               \/ i = Len(s) + 1 /\ i \notin 1..Len(s) /\ Append(s, x)[i] = x
BY AppendFacts

(* The types the next two arguments need.                                  *)
MessagesTyped ==
    /\ serverQ \in Seq(Clients) /\ serverQExists \in BOOLEAN
    /\ sreq \in Clients \cup {NoReq} /\ (spc = "fork" => sreq \in Clients)
    /\ cpc \in [Clients -> ClientPc]
    /\ cq \in [Clients -> Seq(Message)]
    /\ cqState \in [Clients -> {"none", "live", "removed"}]
    /\ got \in [Clients -> Seq(Nat)]
    /\ child \in [Clients -> ChildState] /\ offset \in [Clients -> Nat]
    /\ \A c \in Clients : child[c] = "data" => FileBytes[c] \in Nat
    /\ faults \in Nat

LEMMA MessagesInit == Init => MessagesTyped
<1>1. <<>> \in Seq(Clients) /\ <<>> \in Seq(Message) /\ <<>> \in Seq(Nat)
  OBVIOUS
<1> SUFFICES ASSUME Init PROVE MessagesTyped
  OBVIOUS
<1> USE SvMsgAssumption DEF Init
<1>2. serverQ \in Seq(Clients) /\ serverQExists \in BOOLEAN /\ faults \in Nat
  BY <1>1
<1>3. sreq \in Clients \cup {NoReq} /\ spc # "fork"
  OBVIOUS
<1>4. cq \in [Clients -> Seq(Message)] /\ got \in [Clients -> Seq(Nat)]
  BY <1>1
<1>5. cpc \in [Clients -> ClientPc] /\ cqState \in [Clients -> {"none", "live", "removed"}]
  BY DEF ClientPc
<1>6. child \in [Clients -> ChildState] /\ offset \in [Clients -> Nat]
      /\ \A c \in Clients : child[c] = "none"
  BY DEF ChildState
<1> QED
  BY <1>2, <1>3, <1>4, <1>5, <1>6 DEF MessagesTyped

LEMMA ChunkFacts ==
    ASSUME NEW c \in Clients, NEW k \in Nat, k < FileBytes[c]
    PROVE  /\ ChunkBytes(c, k) \in 0..MSGMNB /\ FileBytes[c] \in Nat
           /\ k + ChunkBytes(c, k) = FileBytes[c] \/ ChunkBytes(c, k) = RESP_MSG_SIZE
BY SvMsgAssumption DEF ChunkBytes

LEMMA ExitFacts ==
    ASSUME MessagesTyped, NEW c \in Clients, ChildExits(c)
    PROVE  /\ child' \in [Clients -> ChildState] /\ child'[c] \in {"zombie", "gone"}
           /\ \A d \in Clients \ {c} : child'[d] = child[d]
<1>1. CASE parent[c]
  BY <1>1 DEF MessagesTyped, ChildExits, ChildState
<1>2. CASE ~parent[c]
  BY <1>2 DEF MessagesTyped, ChildExits, ChildState
<1> QED
  BY <1>1, <1>2

LEMMA ServerMessages ==
    ASSUME MessagesTyped,
           ServerMain \/ Handler \/ ForkFails \/ ServerKilled \/ ServerRestart
               \/ QueueRemoved
    PROVE  MessagesTyped'
<1> USE SvMsgAssumption
    DEF MessagesTyped, ServerAt, ChildState, serverVars, handlerVars, clientVars, childVars
<1>e. <<>> \in Seq(Clients)
  OBVIOUS
<1>1. CASE Sigaction \/ Msgget \/ MsgrcvFails
  BY <1>1 DEF Sigaction, Msgget, MsgrcvFails
<1>2. CASE Msgrcv
  BY <1>2, TailFacts DEF Msgrcv
<1>3. CASE CheckErrno
  <2>1. /\ UNCHANGED <<sreq, cq, cqState, cpc, got, offset, faults>> /\ spc' # "fork"
        /\ serverQ' = serverQ \/ serverQ' = <<>>
        /\ serverQExists' \in {serverQExists, FALSE}
    BY <1>3 DEF CheckErrno
  <2>2. child' \in [Clients -> ChildState]
    BY <1>3 DEF CheckErrno
  <2>3. \A c \in Clients : child'[c] = "data" => child[c] = "data"
    BY <1>3 DEF CheckErrno
  <2> QED
    BY <1>e, <2>1, <2>2, <2>3
<1>4. CASE Fork
  BY <1>4 DEF Fork
<1>5. CASE Handler
  BY <1>5 DEF Handler, Deliver, ReapOne, ReapDone, RestoreErrno
<1>6. CASE ForkFails \/ ServerRestart
  BY <1>6 DEF ForkFails, ServerRestart
<1>7. CASE ServerKilled
  BY <1>7 DEF ServerKilled
<1>8. CASE QueueRemoved
  <2>1. serverQ' \in Seq(Clients) /\ serverQExists' \in BOOLEAN
    BY <1>8, <1>e DEF QueueRemoved
  <2>2. faults' \in Nat
    BY <1>8 DEF QueueRemoved
  <2> QED
    BY <1>8, <2>1, <2>2 DEF QueueRemoved
<1> QED
  BY <1>1, <1>2, <1>3, <1>4, <1>5, <1>6, <1>7, <1>8 DEF ServerMain

LEMMA ChildMessages ==
    ASSUME MessagesTyped, NEW c \in Clients,
           ChildStep(c) \/ ChildKilled(c) \/ ChildReadFails(c)
    PROVE  MessagesTyped'
<1> USE SvMsgAssumption
    DEF MessagesTyped, ChildState, ChildUnchanged, serverVars, handlerVars, clientVars
<1>1. CASE ChildOpen(c)
  BY <1>1 DEF ChildOpen
<1>2. CASE ChildSendFailure(c)
  <2>1. [mtype |-> RESP_MT_FAILURE, size |-> REQ_MSG_SIZE, off |-> 0] \in Message
    BY DEF Message
  <2>2. Append(cq[c], [mtype |-> RESP_MT_FAILURE, size |-> REQ_MSG_SIZE, off |-> 0])
            \in Seq(Message)
    BY <2>1, AppendFacts
  <2>3. cq' \in [Clients -> Seq(Message)]
    BY <1>2, <2>2 DEF ChildSendFailure
  <2> QED
    BY <1>2, <2>3, ExitFacts DEF ChildSendFailure
<1>3. CASE ChildSendData(c)
  <2>1. offset[c] \in Nat /\ ChunkBytes(c, offset[c]) \in 0..MSGMNB
    BY <1>3, ChunkFacts DEF ChildSendData
  <2>2. [mtype |-> RESP_MT_DATA, size |-> ChunkBytes(c, offset[c]), off |-> offset[c]]
            \in Message
    BY <2>1 DEF Message
  <2>a. Append(cq[c], [mtype |-> RESP_MT_DATA, size |-> ChunkBytes(c, offset[c]),
                       off |-> offset[c]]) \in Seq(Message)
    BY <2>2, AppendFacts
  <2>3. cq' \in [Clients -> Seq(Message)]
    BY <1>3, <2>a DEF ChildSendData
  <2>b. offset[c] + ChunkBytes(c, offset[c]) \in Nat
    BY <2>1
  <2>4. offset' \in [Clients -> Nat]
    BY <1>3, <2>b DEF ChildSendData
  <2> QED
    BY <1>3, <2>3, <2>4 DEF ChildSendData
<1>4. CASE ChildEndOfFile(c)
  BY <1>4 DEF ChildEndOfFile
<1>5. CASE ChildSendEnd(c)
  <2>1. [mtype |-> StackAddress, size |-> REQ_MSG_SIZE, off |-> 0] \in Message
    BY DEF Message
  <2>2. Append(cq[c], [mtype |-> StackAddress, size |-> REQ_MSG_SIZE, off |-> 0])
            \in Seq(Message)
    BY <2>1, AppendFacts
  <2>3. cq' \in [Clients -> Seq(Message)]
    BY <1>5, <2>2 DEF ChildSendEnd
  <2> QED
    BY <1>5, <2>3, ExitFacts DEF ChildSendEnd
<1>6. CASE ChildKilled(c)
  <2>1. faults' \in Nat
    BY <1>6 DEF ChildKilled
  <2> QED
    BY <1>6, <2>1, ExitFacts DEF ChildKilled
<1>7. CASE ChildReadFails(c)
  BY <1>7 DEF ChildReadFails
<1> QED
  BY <1>1, <1>2, <1>3, <1>4, <1>5, <1>6, <1>7 DEF ChildStep

LEMMA ClientMessages ==
    ASSUME MessagesTyped, NEW c \in Clients,
           ClientStep(c) \/ ClientKilled(c) \/ CleanUp(c)
    PROVE  MessagesTyped'
<1> USE SvMsgAssumption
    DEF MessagesTyped, ClientPc, ClientUnchanged, ClientGoto, serverVars, handlerVars,
        childVars
<1>e. <<>> \in Seq(Message)
  OBVIOUS
<1>r. ASSUME cq[c] # <<>>, Receive(c, Head(cq[c]))
      PROVE  cq' \in [Clients -> Seq(Message)] /\ got' \in [Clients -> Seq(Nat)]
  <2>1. Head(cq[c]) \in Message /\ Tail(cq[c]) \in Seq(Message)
    BY <1>r, TailFacts
  <2>2. Head(cq[c]).off \in Nat
    BY <2>1 DEF Message
  <2>3. Append(got[c], Head(cq[c]).off) \in Seq(Nat)
    BY <2>2, AppendFacts
  <2> QED
    BY <1>r, <2>1, <2>3 DEF Receive
<1>1. CASE ClientMsgget(c) \/ ClientCreate(c)
  BY <1>1 DEF ClientMsgget, ClientCreate
<1>2. CASE ClientMsgsnd(c)
  <2>1. Append(serverQ, c) \in Seq(Clients)
    BY AppendFacts
  <2> QED
    BY <1>2, <2>1 DEF ClientMsgsnd
<1>3. CASE ClientFirst(c)
  BY <1>3, <1>r DEF ClientFirst
<1>4. CASE ClientRefused(c)
  BY <1>4, <1>e DEF ClientRefused
<1>5. CASE ClientNext(c)
  BY <1>5, <1>r DEF ClientNext
<1>6. CASE ClientExit(c)
  BY <1>6, <1>e DEF ClientExit
<1>7. CASE ClientKilled(c)
  BY <1>7 DEF ClientKilled
<1>8. CASE CleanUp(c)
  BY <1>8, <1>e DEF CleanUp
<1> QED
  BY <1>1, <1>2, <1>3, <1>4, <1>5, <1>6, <1>7, <1>8 DEF ClientStep

LEMMA MessagesStep == MessagesTyped /\ [Next]_vars => MessagesTyped'
<1>1. MessagesTyped /\ UNCHANGED vars => MessagesTyped'
  BY DEF MessagesTyped, vars, serverVars, handlerVars, clientVars, childVars
<1> QED
  BY <1>1, ServerMessages, ChildMessages, ClientMessages DEF Next, Fault, Idle

-------------------------------------------------------------------------------
(* A client whose queue is gone does not wait for messages; a server that  *)
(* starts without a queue has had no clients.                              *)
QueueInv ==
    /\ \A c \in Clients : cqState[c] = "removed" =>
           cpc[c] \in {"exit", "ok", "failed", "killed"}
    /\ spc \in {"sigaction", "msgget"} /\ ~serverQExists =>
           \A c \in Clients : cpc[c] \in {"msgget", "killed"}

Bounded == serverQExists => IsFiniteSet(Forgotten) /\ Cardinality(Forgotten) <= faults

LossInv == MessagesTyped /\ QueueInv /\ Bounded

LEMMA QueueStep == MessagesTyped /\ QueueInv /\ [Next]_vars => QueueInv'
<1> SUFFICES ASSUME MessagesTyped, QueueInv, [Next]_vars PROVE QueueInv'
  OBVIOUS
<1> USE DEF MessagesTyped, QueueInv, serverVars, handlerVars, clientVars, childVars,
        ServerAt, ChildUnchanged, ClientUnchanged, ClientGoto
<1>1. CASE ServerMain
  BY <1>1 DEF ServerMain, Sigaction, Msgget, Msgrcv, MsgrcvFails, CheckErrno, Fork
<1>2. CASE Handler
  BY <1>2 DEF Handler, Deliver, ReapOne, ReapDone, RestoreErrno
<1>3. CASE ForkFails \/ ServerKilled \/ ServerRestart \/ QueueRemoved
  BY <1>3 DEF ForkFails, ServerKilled, ServerRestart, QueueRemoved
<1>4. ASSUME NEW c \in Clients, ChildStep(c) \/ ChildKilled(c) \/ ChildReadFails(c)
      PROVE  QueueInv'
  BY <1>4 DEF ChildStep, ChildOpen, ChildSendFailure, ChildSendData, ChildEndOfFile,
              ChildSendEnd, ChildKilled, ChildReadFails
<1>5. ASSUME NEW c \in Clients, ClientStep(c)  PROVE  QueueInv'
  <2>1. CASE ClientMsgget(c) \/ ClientCreate(c) \/ ClientMsgsnd(c)
    BY <1>5, <2>1 DEF ClientMsgget, ClientCreate, ClientMsgsnd
  <2>2. CASE ClientFirst(c) \/ ClientNext(c)
    BY <2>2 DEF ClientFirst, ClientNext, Receive
  <2>3. CASE ClientRefused(c) \/ ClientExit(c)
    BY <2>3 DEF ClientRefused, ClientExit
  <2> QED
    BY <1>5, <2>1, <2>2, <2>3 DEF ClientStep
<1>6. ASSUME NEW c \in Clients, ClientKilled(c) \/ CleanUp(c)  PROVE  QueueInv'
  BY <1>6 DEF ClientKilled, CleanUp
<1>7. CASE UNCHANGED vars
  BY <1>7 DEF vars
<1> QED
  BY <1>1, <1>2, <1>3, <1>4, <1>5, <1>6, <1>7 DEF Next, Fault, Idle

(* A request that is tracked stays so, and what a client waits for is      *)
(* tracked from the start; each fault may lose the track of one.           *)
NoneLost == Forgotten' \subseteq Forgotten
Loses(c) == Forgotten' \subseteq Forgotten \cup {c} /\ faults' = faults + 1

LEMMA ForgottenSame ==
    ASSUME UNCHANGED <<serverQ, spc, sreq, child, cq, cpc>>
    PROVE  NoneLost
BY DEF NoneLost, Forgotten, Tracked

LEMMA OneBefore ==
    \A n \in Nat : \A i \in 1..n : i # 1 => i - 1 \in 1..n - 1 /\ (i - 1) + 1 = i
OBVIOUS

LEMMA Positions ==
    ASSUME NEW S, NEW s \in Seq(S)
    PROVE  DOMAIN s = 1..Len(s) /\ Len(s) \in Nat
OBVIOUS

LEMMA ServerForgets ==
    ASSUME MessagesTyped, QueueInv, serverQExists, serverQExists',
           ServerMain \/ Handler \/ ServerRestart
    PROVE  NoneLost /\ faults' = faults
<1> USE DEF MessagesTyped, serverVars, handlerVars, clientVars, childVars, ServerAt,
        NoneLost, Forgotten, Tracked
<1>1. CASE Sigaction \/ Msgget \/ MsgrcvFails \/ ServerRestart
  BY <1>1 DEF Sigaction, Msgget, MsgrcvFails, ServerRestart
<1>2. CASE Msgrcv
  <2>1. /\ serverQ # <<>> /\ sreq' = Head(serverQ) /\ serverQ' = Tail(serverQ)
        /\ spc' = "fork" /\ UNCHANGED <<child, cq, cpc, faults>> /\ spc # "fork"
    BY <1>2 DEF Msgrcv
  <2>2. ASSUME NEW c \in Clients, NEW i \in DOMAIN serverQ, serverQ[i] = c
        PROVE  sreq' = c \/ \E k \in DOMAIN serverQ' : serverQ'[k] = c
    <3>0. /\ Head(serverQ) = serverQ[1] /\ Len(serverQ) \in Nat \ {0}
          /\ Len(Tail(serverQ)) = Len(serverQ) - 1 /\ Tail(serverQ) \in Seq(Clients)
          /\ \A k \in 1..Len(serverQ) - 1 : Tail(serverQ)[k] = serverQ[k + 1]
      BY <2>1, TailFacts
    <3>1. CASE i = 1
      BY <2>1, <2>2, <3>0, <3>1
    <3>2. CASE i # 1
      <4>1. i \in 1..Len(serverQ) /\ Len(serverQ) \in Nat
        BY Positions, Zenon
      <4>2. i - 1 \in 1..Len(serverQ) - 1 /\ (i - 1) + 1 = i
        BY <3>2, <4>1, OneBefore, Zenon
      <4>3. serverQ'[i - 1] = c /\ i - 1 \in DOMAIN serverQ'
        <5>1. DOMAIN serverQ' = 1..Len(serverQ')
          BY <2>1, <3>0, Positions, Zenon
        <5> QED
          BY <2>1, <2>2, <3>0, <4>2, <5>1, Zenon
      <4> QED
        BY <4>3
    <3> QED
      BY <3>1, <3>2
  <2>3. ASSUME NEW c \in Clients, Tracked(c)  PROVE  Tracked(c)'
    BY <2>1, <2>2, <2>3
  <2> QED
    BY <2>1, <2>3
<1>3. CASE CheckErrno
  BY <1>3 DEF CheckErrno
<1>4. CASE Fork
  BY <1>4 DEF Fork
<1>5. CASE Deliver
  BY <1>5 DEF Deliver
<1>6. CASE ReapOne
  BY <1>6 DEF ReapOne, OwnChildren
<1>7. CASE ReapDone \/ RestoreErrno
  BY <1>7 DEF ReapDone, RestoreErrno
<1> QED
  BY <1>1, <1>2, <1>3, <1>4, <1>5, <1>6, <1>7 DEF ServerMain, Handler

LEMMA FaultForgets ==
    ASSUME MessagesTyped, serverQExists, serverQExists',
           ForkFails \/ ServerKilled \/ QueueRemoved
    PROVE  \E c \in Clients \cup {NoReq} : Loses(c)
<1> USE DEF MessagesTyped, serverVars, handlerVars, clientVars, childVars, ServerAt
<1>1. CASE ForkFails
  <2>1. Loses(sreq)
    BY <1>1 DEF ForkFails, Loses, Forgotten, Tracked
  <2> QED
    BY <2>1
<1>2. CASE ServerKilled
  <2>1. Loses(sreq)
    BY <1>2 DEF ServerKilled, Loses, Forgotten, Tracked
  <2> QED
    BY <2>1
<1> QED
  BY <1>1, <1>2 DEF QueueRemoved

LEMMA ChildForgets ==
    ASSUME MessagesTyped, QueueInv, NEW c \in Clients, ChildStep(c)
    PROVE  NoneLost /\ faults' = faults
<1> USE DEF MessagesTyped, ChildUnchanged, serverVars, handlerVars, clientVars,
        NoneLost, Forgotten, Tracked
<1>1. CASE ChildOpen(c)
  BY <1>1 DEF ChildOpen
<1>2. CASE ChildEndOfFile(c)
  BY <1>2 DEF ChildEndOfFile
<1>3. CASE ChildSendData(c)
  <2>1. CASE cq' = cq
    BY <1>3, <2>1 DEF ChildSendData
  <2>2. CASE \E m \in Message : cq' = [cq EXCEPT ![c] = Append(@, m)]
    BY <1>3, <2>2, AppendFacts DEF ChildSendData
  <2>3. cq' = cq \/ \E m \in Message : cq' = [cq EXCEPT ![c] = Append(@, m)]
    <3>1. offset[c] \in Nat /\ ChunkBytes(c, offset[c]) \in 0..MSGMNB
      BY <1>3, ChunkFacts DEF ChildSendData
    <3>2. [mtype |-> RESP_MT_DATA, size |-> ChunkBytes(c, offset[c]), off |-> offset[c]]
              \in Message
      BY <3>1 DEF Message
    <3> QED
      BY <1>3, <3>2 DEF ChildSendData
  <2> QED
    BY <2>1, <2>2, <2>3
<1>4. CASE ChildSendFailure(c) \/ ChildSendEnd(c)
  <2>1. CASE cqState[c] = "removed"
    <3>1. cpc' = cpc /\ cpc[c] \notin {"msgrcv", "more"}
      BY <1>4, <2>1 DEF ChildSendFailure, ChildSendEnd, QueueInv
    <3>2. /\ UNCHANGED <<serverQ, spc, sreq>>
          /\ \A d \in Clients \ {c} : child'[d] = child[d]
          /\ \A d \in Clients \ {c} : cq'[d] = cq[d]
      BY <1>4, ExitFacts DEF ChildSendFailure, ChildSendEnd
    <3> QED
      BY <1>4, <3>1, <3>2 DEF ChildSendFailure, ChildSendEnd
  <2>2. CASE cqState[c] # "removed"
    <3>1. PICK t \in {RESP_MT_FAILURE, StackAddress} :
              cq' = [cq EXCEPT ![c] =
                         Append(@, [mtype |-> t, size |-> REQ_MSG_SIZE, off |-> 0])]
      BY <1>4, <2>2 DEF ChildSendFailure, ChildSendEnd
    <3>2. [mtype |-> t, size |-> REQ_MSG_SIZE, off |-> 0] \in Message /\ t # RESP_MT_DATA
      BY SvMsgAssumption DEF Message, RESP_MT_FAILURE, RESP_MT_DATA
    <3>3. /\ Len(cq[c]) + 1 \in DOMAIN cq'[c]
          /\ cq'[c][Len(cq[c]) + 1].mtype # RESP_MT_DATA
      BY <3>1, <3>2, AppendFacts
    <3>4. UNCHANGED <<serverQ, spc, sreq, cpc>>
          /\ \A d \in Clients \ {c} : child'[d] = child[d] /\ cq'[d] = cq[d]
      BY <1>4, ExitFacts DEF ChildSendFailure, ChildSendEnd
    <3> QED
      BY <1>4, <3>3, <3>4 DEF ChildSendFailure, ChildSendEnd
  <2> QED
    BY <2>1, <2>2
<1> QED
  BY <1>1, <1>2, <1>3, <1>4 DEF ChildStep

LEMMA ClientForgets ==
    ASSUME MessagesTyped, NEW c \in Clients, ClientStep(c) \/ CleanUp(c)
    PROVE  NoneLost /\ faults' = faults
<1> USE DEF MessagesTyped, ClientUnchanged, ClientGoto, serverVars, handlerVars,
        childVars, NoneLost, Forgotten, Tracked
<1>1. CASE ClientMsgget(c) \/ ClientCreate(c)
  BY <1>1 DEF ClientMsgget, ClientCreate
<1>2. CASE ClientMsgsnd(c)
  <2>1. CASE serverQ' = serverQ
    BY <1>2, <2>1 DEF ClientMsgsnd
  <2>2. CASE serverQ' = Append(serverQ, c)
    <3>1. /\ Len(serverQ) \in Nat /\ Len(serverQ') = Len(serverQ) + 1
          /\ \A i \in 1..Len(serverQ) : serverQ'[i] = serverQ[i]
          /\ serverQ'[Len(serverQ) + 1] = c /\ serverQ' \in Seq(Clients)
      BY <2>2, AppendFacts
    <3>2. \A d \in Clients :
              (d = c \/ \E i \in DOMAIN serverQ : serverQ[i] = d) =>
                  \E i \in DOMAIN serverQ' : serverQ'[i] = d
      <4>1. DOMAIN serverQ = 1..Len(serverQ) /\ DOMAIN serverQ' = 1..Len(serverQ')
        BY <3>1
      <4>2. /\ Len(serverQ) + 1 \in DOMAIN serverQ'
            /\ \A i \in DOMAIN serverQ : i \in DOMAIN serverQ'
        BY <3>1, <4>1
      <4> QED
        BY <3>1, <4>1, <4>2
    <3>3. UNCHANGED <<spc, sreq, child, cq, faults>>
          /\ \A d \in Clients \ {c} : cpc'[d] = cpc[d]
      BY <1>2 DEF ClientMsgsnd
    <3> QED
      BY <3>2, <3>3
  <2> QED
    BY <1>2, <2>1, <2>2 DEF ClientMsgsnd
<1>3. CASE ClientFirst(c) \/ ClientNext(c)
  <2> DEFINE m == Head(cq[c])
  <2>1. /\ cq[c] # <<>> /\ cq' = [cq EXCEPT ![c] = Tail(@)]
        /\ cpc' = [cpc EXCEPT ![c] = IF m.mtype = RESP_MT_DATA THEN "more" ELSE "report"]
        /\ cpc[c] \in {"msgrcv", "more"}
        /\ UNCHANGED <<spc, sreq, child, serverQ, faults>>
    BY <1>3 DEF ClientFirst, ClientNext, Receive
  <2>2. /\ m = cq[c][1] /\ Len(cq[c]) \in Nat \ {0}
        /\ Len(cq'[c]) = Len(cq[c]) - 1 /\ cq'[c] \in Seq(Message)
        /\ \A i \in 1..Len(cq[c]) - 1 : cq'[c][i] = cq[c][i + 1]
    BY <2>1, TailFacts
  <2>3. ASSUME NEW i \in DOMAIN cq[c], cq[c][i].mtype # RESP_MT_DATA, m.mtype = RESP_MT_DATA
        PROVE  \E k \in DOMAIN cq'[c] : cq'[c][k].mtype # RESP_MT_DATA
    <3>1. i # 1
      BY <2>2, <2>3
    <3>2. i \in 1..Len(cq[c]) /\ Len(cq[c]) \in Nat /\ DOMAIN cq'[c] = 1..Len(cq'[c])
      BY <2>2, Positions, Zenon
    <3>3. i - 1 \in 1..Len(cq[c]) - 1 /\ (i - 1) + 1 = i
      BY <3>1, <3>2, OneBefore, Zenon
    <3>4. i - 1 \in DOMAIN cq'[c] /\ cq'[c][i - 1] = cq[c][i]
      BY <2>2, <3>2, <3>3, Zenon
    <3> QED
      BY <2>3, <3>4
  <2>4. \A d \in Clients \ {c} : cq'[d] = cq[d] /\ cpc'[d] = cpc[d]
    BY <2>1
  <2> QED
    BY <2>1, <2>3, <2>4
<1>4. CASE ClientRefused(c) \/ ClientExit(c)
  BY <1>4 DEF ClientRefused, ClientExit
<1>5. CASE CleanUp(c)
  BY <1>5 DEF CleanUp
<1> QED
  BY <1>1, <1>2, <1>3, <1>4, <1>5 DEF ClientStep

LEMMA KillForgets ==
    ASSUME MessagesTyped, NEW c \in Clients,
           ClientKilled(c) \/ ChildKilled(c) \/ ChildReadFails(c)
    PROVE  Loses(c)
<1> USE DEF MessagesTyped, ChildUnchanged, ClientGoto, serverVars, handlerVars,
        clientVars, childVars, Loses, Forgotten, Tracked
<1>1. CASE ClientKilled(c)
  BY <1>1 DEF ClientKilled
<1>2. CASE ChildKilled(c)
  BY <1>2, ExitFacts DEF ChildKilled
<1>3. CASE ChildReadFails(c)
  BY <1>3 DEF ChildReadFails
<1> QED
  BY <1>1, <1>2, <1>3

LEMMA OneMore ==
    ASSUME NEW S, IsFiniteSet(S), NEW x
    PROVE  IsFiniteSet(S \cup {x}) /\ Cardinality(S \cup {x}) <= Cardinality(S) + 1
<1>1. Cardinality(S) \in Nat
  BY FS_CardinalityType
<1>2. CASE x \in S
  <2>1. S \cup {x} = S
    BY <1>2
  <2>2. Cardinality(S) <= Cardinality(S) + 1
    BY <1>1
  <2> QED
    BY <2>1, <2>2
<1>3. CASE x \notin S
  BY <1>1, <1>3, FS_AddElement
<1> QED
  BY <1>2, <1>3

LEMMA BoundedStep == LossInv /\ [Next]_vars => Bounded'
<1> SUFFICES ASSUME LossInv, [Next]_vars, serverQExists'
             PROVE  IsFiniteSet(Forgotten') /\ Cardinality(Forgotten') <= faults'
  BY DEF Bounded
<1> USE DEF LossInv
<1>t. faults \in Nat /\ faults' \in Nat
  BY MessagesStep DEF MessagesTyped
<1>1. CASE ~serverQExists
  <2>1. spc = "msgget" /\ cpc' = cpc
    BY <1>1
    DEF Next, ServerMain, Handler, Fault, Idle, Sigaction, Msgget, Msgrcv, MsgrcvFails,
        CheckErrno, Fork, Deliver, ReapOne, ReapDone, RestoreErrno, ForkFails,
        ServerKilled, ServerRestart, QueueRemoved, ChildStep, ChildOpen,
        ChildSendFailure, ChildSendData, ChildEndOfFile, ChildSendEnd, ChildKilled,
        ChildReadFails, ClientStep, ClientMsgget, ClientCreate, ClientMsgsnd,
        ClientFirst, ClientRefused, ClientNext, ClientExit, ClientKilled, CleanUp,
        ChildUnchanged, ClientUnchanged, ServerAt, vars, serverVars, handlerVars,
        clientVars, childVars, MessagesTyped
  <2>2. Forgotten' = {}
    BY <1>1, <2>1 DEF QueueInv, Forgotten
  <2> QED
    BY <1>t, <2>2, FS_EmptySet
<1>2. CASE serverQExists
  <2>1. IsFiniteSet(Forgotten) /\ Cardinality(Forgotten) <= faults
    BY <1>2 DEF Bounded
  <2>2. CASE NoneLost /\ faults' = faults
    BY <1>t, <2>1, <2>2, FS_Subset, FS_CardinalityType DEF NoneLost
  <2>3. ASSUME NEW x, Loses(x)
        PROVE  IsFiniteSet(Forgotten') /\ Cardinality(Forgotten') <= faults'
    <3>1. /\ IsFiniteSet(Forgotten \cup {x})
          /\ Cardinality(Forgotten \cup {x}) <= Cardinality(Forgotten) + 1
      BY <2>1, OneMore
    <3>2. /\ IsFiniteSet(Forgotten')
          /\ Cardinality(Forgotten') <= Cardinality(Forgotten \cup {x})
      BY <2>3, <3>1, FS_Subset DEF Loses
    <3>3. /\ Cardinality(Forgotten) \in Nat /\ Cardinality(Forgotten \cup {x}) \in Nat
          /\ Cardinality(Forgotten') \in Nat
      BY <2>1, <3>1, <3>2, FS_CardinalityType
    <3> QED
      BY <1>t, <2>1, <2>3, <3>1, <3>2, <3>3 DEF Loses
  <2>4. CASE UNCHANGED vars
    <3>1. NoneLost /\ faults' = faults
      BY <2>4, ForgottenSame DEF vars, serverVars, clientVars, childVars
    <3> QED
      BY <2>2, <3>1
  <2>5. CASE ServerMain \/ Handler \/ ServerRestart
    BY <1>2, <2>2, <2>5, ServerForgets
  <2>6. CASE ForkFails \/ ServerKilled \/ QueueRemoved
    BY <1>2, <2>3, <2>6, FaultForgets
  <2>7. ASSUME NEW c \in Clients, ChildStep(c) \/ ClientStep(c) \/ CleanUp(c)
        PROVE  IsFiniteSet(Forgotten') /\ Cardinality(Forgotten') <= faults'
    BY <2>2, <2>7, ChildForgets, ClientForgets
  <2>8. ASSUME NEW c \in Clients, ClientKilled(c) \/ ChildKilled(c) \/ ChildReadFails(c)
        PROVE  IsFiniteSet(Forgotten') /\ Cardinality(Forgotten') <= faults'
    BY <2>3, <2>8, KillForgets
  <2> QED
    BY <2>4, <2>5, <2>6, <2>7, <2>8 DEF Next, Fault, Idle
<1> QED
  BY <1>1, <1>2 DEF MessagesTyped

(* While the server's queue is there, each fault costs at most one client  *)
(* its answer, whatever was queued, being served or on its way, and a      *)
(* restart of the server costs nobody anything (svmsg_file_server.c:53     *)
(* and 98).                                                                *)
THEOREM FewAreForgotten == Spec => []LossIsBounded
<1>1. Init => LossInv
  <2>1. Init => Forgotten = {} /\ faults = 0 /\ QueueInv
    BY DEF Init, Forgotten, QueueInv
  <2>2. Init => Bounded
    BY <2>1, FS_EmptySet DEF Bounded
  <2> QED
    BY <2>1, <2>2, MessagesInit DEF LossInv
<1>2. LossInv /\ [Next]_vars => LossInv'
  BY MessagesStep, QueueStep, BoundedStep DEF LossInv
<1>3. LossInv => LossIsBounded
  BY DEF LossInv, Bounded, LossIsBounded
<1> QED
  BY <1>1, <1>2, <1>3, PTL DEF Spec

-------------------------------------------------------------------------------
(* A request that waits for its child, and a client that has not sent one. *)
Asked(c) == (\E i \in 1..Len(serverQ) : serverQ[i] = c) \/ (spc = "fork" /\ sreq = c)
Early(c) == cpc[c] \in {"msgget", "create", "msgsnd"}

(* A client asks once, and is served once.                                 *)
OnceInv ==
    /\ \A i, k \in 1..Len(serverQ) : serverQ[i] = serverQ[k] => i = k
    /\ spc = "fork" => \A i \in 1..Len(serverQ) : serverQ[i] # sreq
    /\ \A c \in Clients : Asked(c) => child[c] = "none" /\ ~Early(c)
    /\ \A c \in Clients : Early(c) => child[c] = "none"

(* Nothing is sent before the file is read; then one message for a chunk,  *)
(* until the queue is gone, and one at the end.                            *)
Unsent(c) == child[c] \in {"none", "open", "failure"}

Flow(c) ==
    /\ Unsent(c) => cq[c] = <<>> /\ got[c] = <<>> /\ offset[c] = 0
    /\ child[c] = "data" => offset[c] <= FileBytes[c]
    /\ child[c] = "data" /\ cqState[c] # "removed" =>
           \/ offset[c] = FileBytes[c]
           \/ offset[c] = (Len(got[c]) + Len(cq[c])) * RESP_MSG_SIZE
    /\ \A i \in 1..Len(cq[c]) : cq[c][i].mtype # RESP_MT_DATA =>
           i = Len(cq[c]) /\ child[c] \notin {"data", "end"}

Received(c) ==
    \A i \in 1..Len(got[c]) :
        got[c][i] = (i - 1) * RESP_MSG_SIZE /\ got[c][i] < FileBytes[c]

OnItsWay(c) ==
    \A i \in 1..Len(cq[c]) : cq[c][i].mtype = RESP_MT_DATA =>
        /\ cq[c][i].off = (Len(got[c]) + i - 1) * RESP_MSG_SIZE
        /\ cq[c][i].off < FileBytes[c]

Ordered(c) == Flow(c) /\ Received(c) /\ OnItsWay(c)

OrderInv == MessagesTyped /\ OnceInv /\ \A c \in Clients : Ordered(c)

LEMMA OrderInit == Init => OrderInv
<1> SUFFICES ASSUME Init PROVE OrderInv
  OBVIOUS
<1>1. \A c \in Clients : cq[c] = <<>> /\ got[c] = <<>> /\ child[c] = "none" /\ offset[c] = 0
  BY DEF Init
<1>2. OnceInv
  BY <1>1 DEF Init, OnceInv, Asked
<1>3. \A c \in Clients : Len(cq[c]) = 0 /\ Len(got[c]) = 0
  BY <1>1
<1>4. \A i : i \notin 1..0
  OBVIOUS
<1>5. \A c \in Clients : Flow(c)
  BY <1>1, <1>3, <1>4, Zenon DEF Flow, Unsent
<1>6. \A c \in Clients : Received(c) /\ OnItsWay(c)
  BY <1>3, <1>4, Zenon DEF Received, OnItsWay
<1> QED
  BY <1>2, <1>5, <1>6, MessagesInit DEF OrderInv, Ordered

(* Steps that neither ask nor fork: what OnceInv says of the rest stands.  *)
LEMMA OnceKept ==
    ASSUME OnceInv, serverQ' = serverQ \/ serverQ' = <<>>,
           spc' # "fork" \/ UNCHANGED <<spc, sreq>>,
           \A c \in Clients : (Early(c)' => Early(c)) /\ (child[c] = "none" => child'[c] = "none")
    PROVE  OnceInv'
<1>1. \A i \in 1..Len(serverQ') : i \in 1..Len(serverQ) /\ serverQ'[i] = serverQ[i]
  <2>1. CASE serverQ' = serverQ
    BY <2>1
  <2>2. CASE serverQ' = <<>>
    <3>1. \A i : i \notin 1..Len(serverQ')
      BY <2>2
    <3> QED
      BY <3>1
  <2> QED
    BY <2>1, <2>2
<1>2. \A c \in Clients : Asked(c)' => Asked(c)
  BY <1>1 DEF Asked
<1>3. \A i, k \in 1..Len(serverQ') : serverQ'[i] = serverQ'[k] => i = k
  BY <1>1, Zenon DEF OnceInv
<1>4. spc' = "fork" => \A i \in 1..Len(serverQ') : serverQ'[i] # sreq'
  BY <1>1, Zenon DEF OnceInv
<1>5. \A c \in Clients : Asked(c)' => child'[c] = "none" /\ ~Early(c)'
  BY <1>2, Zenon DEF OnceInv
<1>6. \A c \in Clients : Early(c)' => child'[c] = "none"
  BY Zenon DEF OnceInv
<1> QED
  BY <1>3, <1>4, <1>5, <1>6, Zenon DEF OnceInv

LEMMA OnceStep == MessagesTyped /\ OnceInv /\ [Next]_vars => OnceInv'
<1> SUFFICES ASSUME MessagesTyped, OnceInv, [Next]_vars PROVE OnceInv'
  OBVIOUS
<1> USE DEF ServerAt, serverVars, handlerVars, clientVars, childVars, ChildUnchanged,
        ClientUnchanged, ClientGoto
<1>0. child \in [Clients -> ChildState] /\ cpc \in [Clients -> ClientPc]
  BY DEF MessagesTyped
<1>1. CASE Sigaction \/ Msgget \/ MsgrcvFails \/ ServerRestart \/ ForkFails
  <2>1. UNCHANGED <<serverQ, child, cpc>> /\ spc' # "fork"
    BY <1>1 DEF Sigaction, Msgget, MsgrcvFails, ServerRestart, ForkFails
  <2> QED
    BY <2>1, OnceKept DEF Early
<1>2. CASE Msgrcv
  <2> USE DEF MessagesTyped, OnceInv, Asked, Early
  <2>0. serverQ # <<>> /\ serverQ' = Tail(serverQ) /\ sreq' = Head(serverQ)
    BY <1>2 DEF Msgrcv
  <2>1. sreq' = serverQ[1] /\ spc' = "fork" /\ spc # "fork" /\ UNCHANGED <<child, cpc>>
    BY <1>2, <2>0, TailFacts DEF Msgrcv
  <2>2. \A i \in 1..Len(serverQ') :
            i + 1 \in 1..Len(serverQ) /\ serverQ'[i] = serverQ[i + 1] /\ i + 1 # 1
                /\ i \in Int
    BY <2>0, TailIndices
  <2>3. 1 \in 1..Len(serverQ)
    BY <2>0, TailIndices
  <2>4. \A i \in 1..Len(serverQ') : serverQ'[i] # sreq'
    BY <2>1, <2>2, <2>3
  <2>5. ASSUME NEW c \in Clients, Asked(c)'  PROVE  Asked(c)
    <3>1. CASE sreq' = c
      BY <2>1, <2>3, <3>1
    <3>2. ASSUME NEW i \in 1..Len(serverQ'), serverQ'[i] = c  PROVE  Asked(c)
      BY <2>2, <3>2
    <3> QED
      BY <2>5, <3>1, <3>2
  <2>6. ASSUME NEW i \in 1..Len(serverQ'), NEW k \in 1..Len(serverQ'),
               serverQ'[i] = serverQ'[k]
        PROVE  i = k
    <3>1. i + 1 = k + 1
      BY <2>2, <2>6
    <3>2. i \in Int /\ k \in Int
      BY <2>2
    <3> QED
      BY <3>1, <3>2
  <2> QED
    BY <2>1, <2>4, <2>5, <2>6
<1>3. CASE CheckErrno
  <2>1. UNCHANGED cpc /\ spc' # "fork" /\ (serverQ' = serverQ \/ serverQ' = <<>>)
    BY <1>3 DEF CheckErrno
  <2>2. \A c \in Clients : child[c] = "none" => child'[c] = "none"
    BY <1>3 DEF CheckErrno
  <2> QED
    BY <2>1, <2>2, OnceKept DEF Early
<1>4. CASE Fork
  <2>1. /\ UNCHANGED <<serverQ, cpc>> /\ spc = "fork" /\ spc' # "fork"
        /\ \A c \in Clients \ {sreq} : child'[c] = child[c]
    BY <1>0, <1>4 DEF Fork
  <2> QED
    BY <2>1 DEF OnceInv, Asked, Early
<1>5. CASE Handler
  <2>1. /\ UNCHANGED <<serverQ, sreq, cpc>>
        /\ spc' = spc \/ spc' = "interrupted"
    BY <1>5 DEF Handler, Deliver, ReapOne, ReapDone, RestoreErrno
  <2>2. \A c \in Clients : child[c] = "none" => child'[c] = "none"
    <3>1. CASE ReapOne
      <4>1. PICK d \in Clients : child[d] = "zombie" /\ child' = [child EXCEPT ![d] = "gone"]
        BY <3>1 DEF ReapOne, OwnChildren
      <4> QED
        BY <1>0, <4>1
    <3>2. CASE UNCHANGED child
      BY <3>2
    <3> QED
      BY <1>5, <3>1, <3>2 DEF Handler, Deliver, ReapDone, RestoreErrno
  <2> QED
    BY <2>1, <2>2, OnceKept DEF Early
<1>6. CASE ServerKilled
  <2>1. UNCHANGED <<serverQ, cpc>> /\ spc' # "fork"
    BY <1>6 DEF ServerKilled
  <2>2. \A c \in Clients : child[c] = "none" => child'[c] = "none"
    BY <1>6 DEF ServerKilled
  <2> QED
    BY <2>1, <2>2, OnceKept DEF Early
<1>7. CASE QueueRemoved
  <2>1. UNCHANGED <<spc, sreq, cpc, child>> /\ serverQ' = <<>>
    BY <1>7 DEF QueueRemoved
  <2> QED
    BY <2>1, OnceKept DEF Early
<1>8. ASSUME NEW c \in Clients, ChildStep(c) \/ ChildKilled(c) \/ ChildReadFails(c)
      PROVE  OnceInv'
  <2>1. UNCHANGED <<serverQ, spc, sreq, cpc>> /\ child[c] # "none"
    BY <1>8
    DEF ChildStep, ChildOpen, ChildSendFailure, ChildSendData, ChildEndOfFile,
        ChildSendEnd, ChildKilled, ChildReadFails
  <2>2. \A d \in Clients \ {c} : child'[d] = child[d]
    BY <1>0, <1>8, ChildStepFacts DEF ChildExits
  <2> QED
    BY <2>1, <2>2, OnceKept DEF Early
<1>9. ASSUME NEW c \in Clients, ClientMsgsnd(c)  PROVE  OnceInv'
  <2>0. /\ UNCHANGED <<spc, sreq, child>> /\ cpc[c] = "msgsnd"
        /\ \E pc \in {"msgrcv", "exit"} : cpc' = [cpc EXCEPT ![c] = pc]
    BY <1>9 DEF ClientMsgsnd
  <2> USE DEF MessagesTyped, OnceInv, Asked, Early
  <2>1. /\ UNCHANGED <<spc, sreq, child>> /\ Early(c) /\ ~Early(c)'
        /\ \A d \in Clients \ {c} : cpc'[d] = cpc[d]
    BY <1>0, <2>0
  <2>2. CASE serverQ' = serverQ
    BY <2>1, <2>2
  <2>3. CASE serverQ' = Append(serverQ, c)
    <3>2. \A m \in 1..Len(serverQ') :
              \/ m \in 1..Len(serverQ) /\ serverQ'[m] = serverQ[m]
              \/ m = Len(serverQ) + 1 /\ serverQ'[m] = c
      BY <2>3, AppendIndices
    <3>3. ~Asked(c)
      BY <2>1
    <3> QED
      <4>1. ASSUME NEW i \in 1..Len(serverQ'), NEW k \in 1..Len(serverQ'),
                   serverQ'[i] = serverQ'[k]
            PROVE  i = k
        <5>1. \A m \in 1..Len(serverQ) : serverQ[m] # c
          BY <3>3
        <5>2. \A m, l \in 1..Len(serverQ) : serverQ[m] = serverQ[l] => m = l
          OBVIOUS
        <5> QED
          BY <3>2, <4>1, <5>1, <5>2, Zenon
      <4>2. spc' = "fork" => \A i \in 1..Len(serverQ') : serverQ'[i] # sreq'
        BY <2>1, <3>2, <3>3
      <4>3. \A d \in Clients : Asked(d)' => Asked(d) \/ d = c
        BY <2>1, <3>2
      <4> QED
        BY <2>1, <4>1, <4>2, <4>3
  <2> QED
    BY <1>9, <2>2, <2>3 DEF ClientMsgsnd
<1>10. ASSUME NEW c \in Clients,
              \/ ClientMsgget(c) \/ ClientCreate(c) \/ ClientFirst(c) \/ ClientRefused(c)
              \/ ClientNext(c) \/ ClientExit(c) \/ ClientKilled(c) \/ CleanUp(c)
       PROVE  OnceInv'
  <2>1. UNCHANGED <<serverQ, spc, sreq, child>>
    BY <1>10 DEF ClientMsgget, ClientCreate, ClientFirst, ClientRefused, ClientNext,
                 ClientExit, ClientKilled, CleanUp
  <2>2. \/ UNCHANGED cpc
        \/ /\ Early(c)
           /\ \E pc \in {"create", "msgsnd"} : cpc' = [cpc EXCEPT ![c] = pc]
        \/ \E pc \in ClientPc \ {"msgget", "create", "msgsnd"} :
               cpc' = [cpc EXCEPT ![c] = pc]
    <3>1. CASE ClientMsgget(c) \/ ClientCreate(c)
      BY <3>1 DEF ClientMsgget, ClientCreate, Early
    <3>2. CASE ClientFirst(c) \/ ClientNext(c)
      BY <3>2 DEF ClientFirst, ClientNext, ClientPc
    <3>3. CASE ClientRefused(c) \/ ClientExit(c)
      BY <3>3 DEF ClientRefused, ClientExit, ClientPc
    <3>4. CASE ClientKilled(c) \/ CleanUp(c)
      BY <3>4 DEF ClientKilled, CleanUp, ClientPc
    <3> QED
      BY <1>10, <3>1, <3>2, <3>3, <3>4
  <2>3. \A d \in Clients : Early(d)' => Early(d)
    BY <1>0, <2>2 DEF Early
  <2> QED
    BY <2>1, <2>3, OnceKept
<1>11. CASE UNCHANGED vars \/ Idle
  <2>1. UNCHANGED <<serverQ, spc, sreq, child, cpc>>
    BY <1>11 DEF vars, Idle
  <2> QED
    BY <2>1, OnceKept DEF Early
<1> QED
  BY <1>1, <1>2, <1>3, <1>4, <1>5, <1>6, <1>7, <1>8, <1>9, <1>10, <1>11
  DEF Next, ServerMain, Fault, ClientStep

(* Steps that neither send to c nor receive for it.                        *)
LEMMA Unmoved ==
    ASSUME NEW c \in Clients, Ordered(c), UNCHANGED <<cq[c], got[c], offset[c]>>,
           cqState'[c] \in {cqState[c], "removed"} \/ child[c] = "none",
           \/ child'[c] = child[c]
           \/ child'[c] \in {"zombie", "gone"}
           \/ child[c] = "none" /\ child'[c] = "open"
           \/ child[c] = "open" /\ child'[c] = "failure"
           \/ child[c] = "data" /\ child'[c] = "end"
    PROVE  Ordered(c)'
<1>1. Received(c)' /\ OnItsWay(c)'
  BY DEF Ordered, Received, OnItsWay
<1>2. Flow(c)'
  BY DEF Ordered, Flow, Unsent
<1> QED
  BY <1>1, <1>2 DEF Ordered

(* The queue of c is removed.                                              *)
LEMMA Emptied ==
    ASSUME NEW c \in Clients, Ordered(c), UNCHANGED <<got[c], offset[c], child[c]>>,
           cq'[c] = <<>>, cqState'[c] = "removed"
    PROVE  Ordered(c)'
<1>1. Len(cq'[c]) = 0 /\ \A i : i \notin 1..0
  BY SMT
<1>2. Received(c)' /\ OnItsWay(c)'
  BY <1>1, Zenon DEF Ordered, Received, OnItsWay
<1>3. Flow(c)'
  BY <1>1, Zenon DEF Ordered, Flow, Unsent
<1> QED
  BY <1>2, <1>3 DEF Ordered

(* The arithmetic of the places in the file.                               *)
LEMMA Places ==
    \A a, b, R \in Nat :
        /\ a + (b + 1) - 1 = a + b
        /\ (a + (b + 1)) * R = (a + b) * R + R
        /\ (a + 1) + (b - 1) = a + b
<1> TAKE a, b, R \in Nat
<1>1. /\ a + b \in Nat /\ a + (b + 1) = (a + b) + 1
      /\ a + (b + 1) - 1 = a + b /\ (a + 1) + (b - 1) = a + b
  OBVIOUS
<1>2. ASSUME NEW k \in Nat  PROVE  (k + 1) * R = k * R + R
  OBVIOUS
<1> QED
  BY <1>1, <1>2

(* The next chunk is sent.                                                 *)
LEMMA Sent ==
    ASSUME MessagesTyped, NEW c \in Clients, Ordered(c), child[c] = "data",
           child'[c] = "data", cqState[c] = "live", offset[c] < FileBytes[c],
           offset'[c] = offset[c] + ChunkBytes(c, offset[c]), got'[c] = got[c],
           NEW m \in Message, m.mtype = RESP_MT_DATA, m.off = offset[c],
           cq'[c] = Append(cq[c], m)
    PROVE  Ordered(c)'
<1> DEFINE g == Len(got[c])
           q == Len(cq[c])
<1>1. /\ cq[c] \in Seq(Message) /\ got[c] \in Seq(Nat)
      /\ q \in Nat /\ g \in Nat /\ RESP_MSG_SIZE \in Nat
      /\ offset[c] \in Nat /\ FileBytes[c] \in Nat
  BY SvMsgAssumption DEF MessagesTyped
<1>2. offset[c] = (g + q) * RESP_MSG_SIZE
  <2>1. offset[c] # FileBytes[c] /\ cqState[c] # "removed"
    BY <1>1
  <2> QED
    BY <2>1, Zenon DEF Ordered, Flow
<1>3. Len(cq'[c]) = q + 1
  BY <1>1, AppendFacts
<1>4. \A i \in 1..Len(cq'[c]) :
          \/ i \in 1..q /\ cq'[c][i] = cq[c][i]
          \/ i = q + 1 /\ cq'[c][i] = m
  BY <1>1, AppendIndices
<1>5. Received(c)'
  BY DEF Ordered, Received
<1>p. g + (q + 1) - 1 = g + q /\ (g + (q + 1)) * RESP_MSG_SIZE = offset[c] + RESP_MSG_SIZE
  <2>1. \A a, b, R \in Nat : a + (b + 1) - 1 = a + b
                                /\ (a + (b + 1)) * R = (a + b) * R + R
    BY Places, Zenon
  <2>2. /\ g + (q + 1) - 1 = g + q
        /\ (g + (q + 1)) * RESP_MSG_SIZE = (g + q) * RESP_MSG_SIZE + RESP_MSG_SIZE
    <3>1. g \in Nat /\ q \in Nat /\ RESP_MSG_SIZE \in Nat
      BY <1>1
    <3> HIDE DEF g, q
    <3>2. \A b, R \in Nat : g + (b + 1) - 1 = g + b
                               /\ (g + (b + 1)) * R = (g + b) * R + R
      BY <2>1, <3>1, Zenon
    <3>3. \A R \in Nat : g + (q + 1) - 1 = g + q
                            /\ (g + (q + 1)) * R = (g + q) * R + R
      BY <3>1, <3>2, Zenon
    <3> QED
      BY <3>1, <3>3, Zenon
  <2> QED
    BY <1>2, <2>2, Zenon
<1>6. OnItsWay(c)'
  <2>1. m.off = (g + (q + 1) - 1) * RESP_MSG_SIZE
    BY <1>2, <1>p, Zenon
  <2> QED
    BY <1>4, <2>1 DEF Ordered, OnItsWay
<1>7. \A i \in 1..Len(cq'[c]) : cq'[c][i].mtype = RESP_MT_DATA
  BY <1>4 DEF Ordered, Flow
<1>8. \/ offset'[c] = FileBytes[c]
      \/ offset'[c] = (g + (q + 1)) * RESP_MSG_SIZE
  <2>1. offset'[c] = FileBytes[c] \/ offset'[c] = offset[c] + RESP_MSG_SIZE
    BY <1>1, ChunkFacts
  <2> QED
    BY <1>p, <2>1, Zenon
<1>9. offset'[c] <= FileBytes[c]
  BY <1>1, SvMsgAssumption DEF ChunkBytes
<1>10. Flow(c)'
  BY <1>3, <1>7, <1>8, <1>9 DEF Flow, Unsent
<1> QED
  BY <1>5, <1>6, <1>10 DEF Ordered

(* The last message is sent: no chunk comes after it.                      *)
LEMMA Closed ==
    ASSUME MessagesTyped, NEW c \in Clients, Ordered(c),
           child[c] \in {"failure", "end"}, child'[c] \in {"zombie", "gone"},
           UNCHANGED <<got[c], offset[c]>>,
           NEW m \in Message, m.mtype # RESP_MT_DATA, cq'[c] = Append(cq[c], m)
    PROVE  Ordered(c)'
<1>1. cq[c] \in Seq(Message) /\ Len(cq[c]) \in Nat
  BY DEF MessagesTyped
<1>2. Len(cq'[c]) = Len(cq[c]) + 1
  BY <1>1, AppendFacts
<1>3. \A i \in 1..Len(cq'[c]) :
          \/ i \in 1..Len(cq[c]) /\ cq'[c][i] = cq[c][i]
          \/ i = Len(cq[c]) + 1 /\ cq'[c][i] = m
  BY <1>1, AppendIndices
<1>4. \A i \in 1..Len(cq[c]) : cq[c][i].mtype = RESP_MT_DATA
  <2>1. child[c] = "failure" => Len(cq[c]) = 0
    BY DEF Ordered, Flow, Unsent
  <2> QED
    BY <2>1 DEF Ordered, Flow
<1>5. Received(c)'
  BY DEF Ordered, Received
<1>6. OnItsWay(c)'
  BY <1>3 DEF Ordered, OnItsWay
<1>7. Flow(c)'
  BY <1>2, <1>3, <1>4 DEF Flow, Unsent
<1> QED
  BY <1>5, <1>6, <1>7 DEF Ordered

(* The client takes the message at the head.                               *)
LEMMA Taken ==
    ASSUME MessagesTyped, NEW c \in Clients, Ordered(c), cq[c] # <<>>,
           UNCHANGED <<offset[c], child[c], cqState[c]>>, cq'[c] = Tail(cq[c]),
           got'[c] = IF Head(cq[c]).mtype = RESP_MT_DATA
                     THEN Append(got[c], Head(cq[c]).off) ELSE got[c]
    PROVE  Ordered(c)'
<1> DEFINE g == Len(got[c])
           q == Len(cq[c])
<1>1. /\ cq[c] \in Seq(Message) /\ got[c] \in Seq(Nat)
      /\ q \in Nat \ {0} /\ g \in Nat
  BY DEF MessagesTyped
<1>2. /\ Head(cq[c]) = cq[c][1] /\ cq[c][1] \in Message /\ 1 \in 1..q
      /\ Len(cq'[c]) = q - 1
  BY <1>1, TailFacts
<1>3. \A i \in 1..Len(cq'[c]) :
          i + 1 \in 1..q /\ cq'[c][i] = cq[c][i + 1] /\ i \in Int
  BY <1>1, TailIndices
<1>4. ~Unsent(c)
  BY DEF Ordered, Flow
<1>5. CASE cq[c][1].mtype = RESP_MT_DATA
  <2>1. cq[c][1].off \in Nat /\ got'[c] = Append(got[c], cq[c][1].off)
    BY <1>2, <1>5 DEF Message
  <2>2. Len(got'[c]) = g + 1
    BY <1>1, <2>1, AppendFacts
  <2>3. \A i \in 1..Len(got'[c]) :
            \/ i \in 1..g /\ got'[c][i] = got[c][i]
            \/ i = g + 1 /\ got'[c][i] = cq[c][1].off
    BY <1>1, <2>1, AppendIndices
  <2>4. cq[c][1].off = (g + 1 - 1) * RESP_MSG_SIZE /\ cq[c][1].off < FileBytes[c]
    BY <1>2, <1>5, Zenon DEF Ordered, OnItsWay
  <2>5. Received(c)'
    BY <2>3, <2>4 DEF Ordered, Received
  <2>6. OnItsWay(c)'
    <3>1. \A i \in Int : g + (i + 1) - 1 = (g + 1) + i - 1
      BY <1>1
    <3> SUFFICES ASSUME NEW i \in 1..Len(cq'[c]), cq'[c][i].mtype = RESP_MT_DATA
                 PROVE  /\ cq'[c][i].off = ((g + 1) + i - 1) * RESP_MSG_SIZE
                        /\ cq'[c][i].off < FileBytes[c]
      BY <2>2 DEF OnItsWay
    <3>2. i + 1 \in 1..q /\ cq'[c][i] = cq[c][i + 1] /\ i \in Int
      BY <1>3
    <3>3. cq[c][i + 1].off = (g + (i + 1) - 1) * RESP_MSG_SIZE /\ cq[c][i + 1].off < FileBytes[c]
      BY <3>2, Zenon DEF Ordered, OnItsWay
    <3> QED
      BY <3>1, <3>2, <3>3, Zenon
  <2>7. Flow(c)'
    <3>1. Len(got'[c]) + Len(cq'[c]) = g + q
      <4>1. g \in Nat /\ q \in Nat /\ 0 \in Nat
        BY <1>1
      <4>2. (g + 1) + (q - 1) = g + q
        BY <4>1, Places, Zenon
      <4> QED
        BY <1>2, <2>2, <4>2, Zenon
    <3>2. \A i \in 1..Len(cq'[c]) : i + 1 = q => i = Len(cq'[c])
      BY <1>1, <1>2, <1>3
    <3>3. ASSUME NEW i \in 1..Len(cq'[c]), cq'[c][i].mtype # RESP_MT_DATA
          PROVE  i = Len(cq'[c]) /\ child'[c] \notin {"data", "end"}
      <4>1. i + 1 \in 1..q /\ cq[c][i + 1].mtype # RESP_MT_DATA
        BY <1>3, <3>3
      <4>2. i + 1 = q /\ child[c] \notin {"data", "end"}
        BY <4>1, Zenon DEF Ordered, Flow
      <4> QED
        BY <3>2, <4>2
    <3>4. child'[c] = "data" /\ cqState'[c] # "removed" =>
              \/ offset'[c] = FileBytes[c]
              \/ offset'[c] = (Len(got'[c]) + Len(cq'[c])) * RESP_MSG_SIZE
      BY <3>1, Zenon DEF Ordered, Flow
    <3>5. ~Unsent(c)' /\ (child'[c] = "data" => offset'[c] <= FileBytes[c])
      BY <1>4 DEF Ordered, Flow, Unsent
    <3> QED
      BY <3>3, <3>4, <3>5, Zenon DEF Flow
  <2> QED
    BY <2>5, <2>6, <2>7 DEF Ordered
<1>6. CASE cq[c][1].mtype # RESP_MT_DATA
  <2>1. q = 1 /\ child[c] \notin {"data", "end"}
    BY <1>2, <1>6 DEF Ordered, Flow
  <2>2. Len(cq'[c]) = 0 /\ got'[c] = got[c] /\ \A i : i \notin 1..0
    BY <1>2, <1>6, <2>1, SMT
  <2>3. Received(c)' /\ OnItsWay(c)'
    BY <2>2, Zenon DEF Ordered, Received, OnItsWay
  <2>4. Flow(c)'
    BY <1>4, <2>1, <2>2 DEF Flow, Unsent
  <2> QED
    BY <2>3, <2>4 DEF Ordered
<1> QED
  BY <1>5, <1>6

(* The child opens its file.                                               *)
LEMMA Opened ==
    ASSUME MessagesTyped, NEW c \in Clients, Ordered(c), child[c] = "open",
           child'[c] = "data", FileBytes[c] # -1,
           UNCHANGED <<cq[c], got[c], offset[c], cqState[c]>>
    PROVE  Ordered(c)'
<1>1. cq[c] = <<>> /\ got[c] = <<>> /\ offset[c] = 0
  BY DEF Ordered, Flow, Unsent
<1>2. Len(cq'[c]) = 0 /\ Len(got'[c]) = 0 /\ \A i : i \notin 1..0
  BY <1>1, SMT
<1>3. Received(c)' /\ OnItsWay(c)'
  BY <1>2, Zenon DEF Received, OnItsWay
<1>4. 0 <= FileBytes[c] /\ 0 = (0 + 0) * RESP_MSG_SIZE
  BY SvMsgAssumption
<1>5. Flow(c)'
  BY <1>1, <1>2, <1>4 DEF Flow, Unsent
<1> QED
  BY <1>3, <1>5 DEF Ordered

(* A step of the child of c.                                               *)
LEMMA ChildOrdered ==
    ASSUME MessagesTyped, NEW c \in Clients, Ordered(c),
           ChildStep(c) \/ ChildKilled(c) \/ ChildReadFails(c)
    PROVE  Ordered(c)'
<1> USE DEF ChildUnchanged, clientVars
<1>t. /\ cq \in [Clients -> Seq(Message)] /\ offset \in [Clients -> Nat]
      /\ child \in [Clients -> ChildState]
  BY DEF MessagesTyped
<1>1. CASE ChildOpen(c)
  <2>1. /\ child[c] = "open" /\ UNCHANGED <<cq[c], got[c], offset[c], cqState[c]>>
        /\ child'[c] = IF FileBytes[c] = -1 THEN "failure" ELSE "data"
    BY <1>1, <1>t DEF ChildOpen
  <2> QED
    BY <2>1, Opened, Unmoved
<1>2. CASE ChildSendFailure(c) \/ ChildSendEnd(c)
  <2>1. /\ child[c] \in {"failure", "end"} /\ child'[c] \in {"zombie", "gone"}
        /\ UNCHANGED <<got[c], offset[c], cqState[c]>>
    BY <1>2, ExitFacts DEF ChildSendFailure, ChildSendEnd
  <2>2. \/ cq'[c] = cq[c]
        \/ cq'[c] = Append(cq[c], [mtype |-> RESP_MT_FAILURE, size |-> REQ_MSG_SIZE, off |-> 0])
        \/ cq'[c] = Append(cq[c], [mtype |-> StackAddress, size |-> REQ_MSG_SIZE, off |-> 0])
    BY <1>2, <1>t DEF ChildSendFailure, ChildSendEnd
  <2>3. \A t \in {RESP_MT_FAILURE, StackAddress} :
            LET m == [mtype |-> t, size |-> REQ_MSG_SIZE, off |-> 0] IN
            m \in Message /\ m.mtype # RESP_MT_DATA
    BY SvMsgAssumption DEF Message, RESP_MT_FAILURE, RESP_MT_DATA, RESP_MT_END
  <2>4. CASE cq'[c] = cq[c]
    BY <2>1, <2>4, Unmoved
  <2>5. ASSUME NEW t \in {RESP_MT_FAILURE, StackAddress},
               cq'[c] = Append(cq[c], [mtype |-> t, size |-> REQ_MSG_SIZE, off |-> 0])
        PROVE  Ordered(c)'
    BY <2>1, <2>3, <2>5, Closed, Zenon
  <2> QED
    BY <2>2, <2>4, <2>5
<1>3. CASE ChildSendData(c)
  <2> DEFINE n == ChunkBytes(c, offset[c])
             m == [mtype |-> RESP_MT_DATA, size |-> n, off |-> offset[c]]
  <2>1. /\ child[c] = "data" /\ offset[c] < FileBytes[c] /\ offset'[c] = offset[c] + n
        /\ UNCHANGED <<got[c], cqState[c]>>
    BY <1>3, <1>t DEF ChildSendData
  <2>2. CASE cqState[c] = "live" /\ cq'[c] = Append(cq[c], m) /\ child'[c] = child[c]
    <3>1. n \in 0..MSGMNB
      BY <1>t, <2>1, ChunkFacts
    <3>2. m \in Message /\ m.mtype = RESP_MT_DATA /\ m.off = offset[c]
      BY <1>t, <3>1 DEF Message
    <3> QED
      BY <2>1, <2>2, <3>2, Sent, Zenon
  <2>3. CASE cqState[c] = "removed" /\ cq'[c] = cq[c] /\ child'[c] = "end"
    <3>1. Received(c)' /\ OnItsWay(c)'
      BY <2>1, <2>3 DEF Ordered, Received, OnItsWay
    <3>2. Flow(c)'
      BY <2>1, <2>3 DEF Ordered, Flow, Unsent
    <3> QED
      BY <3>1, <3>2 DEF Ordered
  <2> QED
    BY <1>3, <1>t, <2>2, <2>3 DEF ChildSendData
<1>4. CASE ChildEndOfFile(c) \/ ChildReadFails(c)
  <2>1. /\ child[c] = "data" /\ child'[c] = "end"
        /\ UNCHANGED <<cq[c], got[c], offset[c], cqState[c]>>
    BY <1>4, <1>t DEF ChildEndOfFile, ChildReadFails
  <2> QED
    BY <2>1, Unmoved
<1>5. CASE ChildKilled(c)
  <2>1. child'[c] \in {"zombie", "gone"} /\ UNCHANGED <<cq[c], got[c], offset[c], cqState[c]>>
    BY <1>5, ExitFacts DEF ChildKilled
  <2> QED
    BY <2>1, Unmoved
<1> QED
  BY <1>1, <1>2, <1>3, <1>4, <1>5 DEF ChildStep

(* A step of the client c.                                                 *)
LEMMA ClientOrdered ==
    ASSUME MessagesTyped, OnceInv, NEW c \in Clients, Ordered(c),
           ClientStep(c) \/ ClientKilled(c) \/ CleanUp(c)
    PROVE  Ordered(c)'
<1> USE DEF ClientUnchanged, childVars
<1>t. /\ cq \in [Clients -> Seq(Message)] /\ got \in [Clients -> Seq(Nat)]
      /\ cqState \in [Clients -> {"none", "live", "removed"}]
  BY DEF MessagesTyped
<1>1. CASE ClientMsgget(c) \/ ClientMsgsnd(c) \/ ClientKilled(c)
  <2>1. UNCHANGED <<cq[c], got[c], offset[c], child[c], cqState[c]>>
    BY <1>1 DEF ClientMsgget, ClientMsgsnd, ClientKilled
  <2> QED
    BY <2>1, Unmoved
<1>2. CASE ClientCreate(c)
  <2>1. UNCHANGED <<cq[c], got[c], offset[c], child[c]>> /\ child[c] = "none"
    BY <1>2 DEF ClientCreate, OnceInv, Early
  <2> QED
    BY <2>1, Unmoved
<1>3. CASE ClientFirst(c) \/ ClientNext(c)
  <2>1. /\ cq[c] # <<>> /\ cq'[c] = Tail(cq[c])
        /\ UNCHANGED <<offset[c], child[c], cqState[c]>>
        /\ got'[c] = IF Head(cq[c]).mtype = RESP_MT_DATA
                     THEN Append(got[c], Head(cq[c]).off) ELSE got[c]
    BY <1>3, <1>t DEF ClientFirst, ClientNext, Receive
  <2> QED
    BY <2>1, Taken
<1>4. CASE ClientRefused(c) \/ ClientExit(c) \/ CleanUp(c)
  <2>1. /\ UNCHANGED <<got[c], offset[c], child[c]>>
        /\ cq'[c] = <<>> /\ cqState'[c] = "removed"
    BY <1>4, <1>t DEF ClientRefused, ClientExit, CleanUp
  <2> QED
    BY <2>1, Emptied
<1> QED
  BY <1>1, <1>2, <1>3, <1>4 DEF ClientStep

(* A step of somebody else.                                                *)
LEMMA OthersOrdered ==
    ASSUME MessagesTyped, NEW c \in Clients, NEW d \in Clients \ {c}, Ordered(d),
           \/ ChildStep(c) \/ ChildKilled(c) \/ ChildReadFails(c)
           \/ ClientStep(c) \/ ClientKilled(c) \/ CleanUp(c)
    PROVE  Ordered(d)'
<1>1. UNCHANGED <<cq[d], got[d], offset[d], child[d], cqState[d]>>
  <2>1. CASE ChildStep(c) \/ ChildKilled(c) \/ ChildReadFails(c)
    BY <2>1, ExitFacts
    DEF MessagesTyped, ChildUnchanged, clientVars, ChildStep, ChildOpen,
        ChildSendFailure, ChildSendData, ChildEndOfFile, ChildSendEnd, ChildKilled,
        ChildReadFails
  <2>2. CASE ClientStep(c) \/ ClientKilled(c) \/ CleanUp(c)
    BY <2>2
    DEF MessagesTyped, ClientUnchanged, childVars, ClientStep, ClientMsgget,
        ClientCreate, ClientMsgsnd, ClientFirst, ClientRefused, ClientNext, ClientExit,
        Receive, ClientKilled, CleanUp
  <2> QED
    BY <2>1, <2>2
<1> QED
  BY <1>1, Unmoved

LEMMA OrderStep == OrderInv /\ [Next]_vars => OrderInv'
<1> SUFFICES ASSUME MessagesTyped, OnceInv, \A c \in Clients : Ordered(c), [Next]_vars,
                    NEW d \in Clients
             PROVE  Ordered(d)'
  BY MessagesStep, OnceStep DEF OrderInv
<1>1. ASSUME UNCHANGED <<cq, got, offset, cqState>>,
             \/ child'[d] \in {child[d], "gone"}
             \/ child[d] = "none" /\ child'[d] = "open"
      PROVE  Ordered(d)'
  BY <1>1, Unmoved
<1> USE DEF serverVars, clientVars, childVars, handlerVars
<1>2. CASE \/ Sigaction \/ Msgget \/ Msgrcv \/ MsgrcvFails \/ CheckErrno \/ Handler
           \/ ForkFails \/ ServerKilled \/ ServerRestart \/ QueueRemoved \/ UNCHANGED vars
  <2>1. UNCHANGED <<cq, got, offset, cqState>> /\ child'[d] \in {child[d], "gone"}
    BY <1>2
    DEF MessagesTyped, Sigaction, Msgget, Msgrcv, MsgrcvFails, CheckErrno, Handler,
        Deliver, ReapOne, ReapDone, RestoreErrno, ForkFails, ServerKilled,
        ServerRestart, QueueRemoved, vars
  <2> QED
    BY <1>1, <2>1
<1>3. CASE Fork
  <2>1. sreq \in Clients /\ child[sreq] = "none"
    BY <1>3 DEF Fork, ServerAt, MessagesTyped, OnceInv, Asked
  <2>2. UNCHANGED <<cq, got, offset, cqState>>
        /\ child'[d] = IF d = sreq THEN "open" ELSE child[d]
    BY <1>3, <2>1 DEF Fork, MessagesTyped
  <2> QED
    BY <1>1, <2>1, <2>2
<1>4. ASSUME NEW c \in Clients,
             \/ ChildStep(c) \/ ChildKilled(c) \/ ChildReadFails(c)
             \/ ClientStep(c) \/ ClientKilled(c) \/ CleanUp(c)
      PROVE  Ordered(d)'
  BY <1>4, ChildOrdered, ClientOrdered, OthersOrdered
<1> QED
  BY <1>2, <1>3, <1>4 DEF Next, ServerMain, Fault, Idle

(* Every client has received, and has on its way, the front of its file,   *)
(* whichever process is killed or fails, for any number of clients, faults *)
(* and bytes (svmsg_file_server.c:33-39, svmsg_file_client.c:77-95).       *)
THEOREM ChunksInOrder == Spec => []InOrder
<1>1. OrderInv => InOrder
  BY DEF OrderInv, Ordered, Received, OnItsWay, InOrder
<1> QED
  BY <1>1, OrderInit, OrderStep, PTL DEF Spec

-------------------------------------------------------------------------------
(* Induction on the numbers, from the fact that < is well founded.         *)
LEMMA Induction ==
    ASSUME NEW T, 0 \in T, \A n \in Nat : n \in T => n + 1 \in T
    PROVE  Nat \subseteq T
<1> SUFFICES ASSUME Nat \ T # {} PROVE FALSE
  OBVIOUS
<1> DEFINE R == {p \in Nat \X Nat : p[1] < p[2]}
<1>1. IsWellFoundedOn(R, Nat)
  BY NatLessThanWellFounded DEF OpToRel
<1>2. PICK x \in Nat \ T : \A y \in Nat \ T : ~ (<<y, x>> \in R)
  <2>1. Nat \ T \subseteq Nat
    OBVIOUS
  <2> HIDE DEF R
  <2> QED
    BY <1>1, <2>1, WFMin
<1>3. x # 0 /\ x - 1 \in Nat /\ x - 1 + 1 = x /\ x - 1 < x
  BY <1>2
<1>4. x - 1 \in T
  BY <1>2, <1>3
<1> QED
  BY <1>2, <1>3, <1>4

LEMMA Sizes == \A m \in Message : m.size \in Nat /\ m.size <= MSGMNB
BY SvMsgAssumption DEF Message

(* The bytes of the first messages of a queue: f[k] for the first k.       *)
Adds(f, q, m) == f[0] = 0 /\ \A k \in 1..m : f[k] = f[k - 1] + q[k].size

Sums(f, q) == f \in [0..Len(q) -> Nat] /\ Adds(f, q, Len(q))

LEMMA SumsExist ==
    ASSUME NEW q \in Seq(Message)
    PROVE  \E f : Sums(f, q)
<1> DEFINE Ok(n, f) == /\ f \in [0..n -> Nat] /\ f[0] = 0
                       /\ \A k \in 1..n : f[k] = f[k - 1] + q[k].size
           T == {n \in Nat : n <= Len(q) => \E f : Ok(n, f)}
<1>1. 0 \in T
  <2>1. Ok(0, [k \in 0..0 |-> 0])
    OBVIOUS
  <2> QED
    BY <2>1, Zenon
<1>2. ASSUME NEW n \in Nat, n \in T PROVE n + 1 \in T
  <2>1. CASE ~(n + 1 <= Len(q))
    BY <2>1
  <2>2. CASE n + 1 <= Len(q)
    <3>1. PICK f : Ok(n, f)
      BY <1>2, <2>2
    <3> DEFINE g == [k \in 0..n + 1 |-> IF k = n + 1 THEN f[n] + q[n + 1].size ELSE f[k]]
    <3>2. f[n] \in Nat /\ q[n + 1].size \in Nat
      <4>1. q[n + 1] \in Message
        BY <2>2
      <4> QED
        BY <3>1, <4>1, Sizes
    <3>3. g \in [0..n + 1 -> Nat] /\ g[0] = 0
      BY <3>1, <3>2
    <3>4. ASSUME NEW k \in 1..n + 1 PROVE g[k] = g[k - 1] + q[k].size
      <4>1. CASE k = n + 1
        BY <4>1
      <4>2. CASE k # n + 1
        BY <3>1, <4>2
      <4> QED
        BY <4>1, <4>2
    <3>5. Ok(n + 1, g)
      BY <3>3, <3>4
    <3>6. \E f_1 : Ok(n + 1, f_1)
      <4> HIDE DEF g, Ok
      <4> QED
        BY <3>5
    <3> HIDE DEF Ok
    <3> QED
      BY <3>6
  <2> QED
    BY <2>1, <2>2
<1>3. Len(q) \in T
  <2> HIDE DEF T
  <2> QED
    BY <1>1, <1>2, Induction
<1> QED
  BY <1>3 DEF Sums, Adds

(* Two sums of queues that begin alike agree there.                        *)
LEMMA SumsAgree ==
    ASSUME NEW f, NEW g, NEW q, NEW r, NEW m \in Nat, Adds(f, q, m), Adds(g, r, m),
           \A k \in 1..m : q[k].size = r[k].size
    PROVE  \A k \in 0..m : f[k] = g[k]
<1> USE DEF Adds
<1> DEFINE T == {n \in Nat : n <= m => f[n] = g[n]}
<1>1. 0 \in T
  OBVIOUS
<1>2. ASSUME NEW n \in Nat, n \in T PROVE n + 1 \in T
  <2>1. SUFFICES ASSUME n + 1 <= m PROVE f[n + 1] = g[n + 1]
    OBVIOUS
  <2>2. f[n] = g[n] /\ n + 1 \in 1..m /\ (n + 1) - 1 = n
    BY <1>2, <2>1
  <2> QED
    BY <2>2
<1>3. Nat \subseteq T
  <2> HIDE DEF T
  <2> QED
    BY <1>1, <1>2, Induction
<1> QED
  BY <1>3

LEMMA QueuedSum ==
    ASSUME NEW q \in Seq(Message)
    PROVE  \E f : Sums(f, q) /\ QueuedBytes(q) = f[Len(q)]
<1> DEFINE Def(f) == [k \in 0..Len(q) |-> IF k = 0 THEN 0 ELSE f[k - 1] + q[k].size]
           b == CHOOSE f : f = Def(f)
<1>1. \A g : Sums(g, q) => g = Def(g)
  BY DEF Sums, Adds
<1>2. b = Def(b)
  <2>1. \E g : g = Def(g)
    BY <1>1, SumsExist
  <2> QED
    BY <2>1, Zenon
<1>3. QueuedBytes(q) = b[Len(q)]
  BY DEF QueuedBytes
<1>4. Adds(b, q, Len(q))
  <2> HIDE DEF b
  <2> QED
    BY <1>2 DEF Adds
<1>5. PICK f : Sums(f, q)
  BY SumsExist
<1>6. \A k \in 0..Len(q) : b[k] = f[k]
  <2>1. Len(q) \in Nat
    OBVIOUS
  <2> HIDE DEF b
  <2> QED
    BY <1>4, <1>5, <2>1, SumsAgree DEF Sums
<1>7. QueuedBytes(q) = f[Len(q)]
  <2>1. Len(q) \in 0..Len(q)
    OBVIOUS
  <2> HIDE DEF b
  <2> QED
    BY <1>3, <1>6, <2>1
<1> QED
  BY <1>5, <1>7

LEMMA BytesEmpty == QueuedBytes(<<>>) = 0
<1>1. <<>> \in Seq(Message) /\ Len(<<>>) = 0
  OBVIOUS
<1>2. PICK f : Sums(f, <<>>) /\ QueuedBytes(<<>>) = f[0]
  BY <1>1, QueuedSum
<1> QED
  BY <1>2 DEF Sums, Adds

(* A message in a queue counts once.                                       *)
LEMMA BytesAppend ==
    ASSUME NEW q \in Seq(Message), NEW m \in Message
    PROVE  /\ QueuedBytes(q) \in Nat
           /\ QueuedBytes(Append(q, m)) = QueuedBytes(q) + m.size
<1> DEFINE r == Append(q, m)
<1>1. /\ r \in Seq(Message) /\ Len(q) \in Nat /\ Len(r) = Len(q) + 1
      /\ \A k \in 1..Len(q) : r[k] = q[k]
      /\ r[Len(q) + 1] = m
  BY AppendFacts
<1> HIDE DEF r
<1>2. PICK f : Sums(f, q) /\ QueuedBytes(q) = f[Len(q)]
  BY QueuedSum
<1>3. PICK g : Sums(g, r) /\ QueuedBytes(r) = g[Len(r)]
  BY <1>1, QueuedSum
<1>4. Adds(f, q, Len(q)) /\ Adds(g, r, Len(q))
  BY <1>1, <1>2, <1>3 DEF Sums, Adds
<1>5. \A k \in 0..Len(q) : f[k] = g[k]
  BY <1>1, <1>4, SumsAgree
<1>6. /\ Len(q) + 1 \in 1..Len(r) /\ (Len(q) + 1) - 1 = Len(q)
      /\ Len(q) \in 0..Len(q)
  BY <1>1
<1>7. g[Len(q) + 1] = g[Len(q)] + m.size
  BY <1>1, <1>3, <1>6 DEF Sums, Adds
<1>8. QueuedBytes(q) \in Nat
  BY <1>2, <1>6 DEF Sums
<1>9. QueuedBytes(r) = QueuedBytes(q) + m.size
  BY <1>1, <1>2, <1>3, <1>5, <1>6, <1>7
<1> QED
  BY <1>8, <1>9 DEF r

LEMMA BytesTail ==
    ASSUME NEW q \in Seq(Message), q # <<>>
    PROVE  /\ QueuedBytes(q) \in Nat /\ QueuedBytes(Tail(q)) \in Nat
           /\ QueuedBytes(Tail(q)) = QueuedBytes(q) - q[1].size
<1> DEFINE r == Tail(q)
<1>1. /\ r \in Seq(Message) /\ q[1] \in Message
      /\ Len(q) \in Nat \ {0} /\ Len(r) = Len(q) - 1
      /\ \A k \in 1..Len(q) - 1 : r[k] = q[k + 1]
  BY TailFacts
<1> HIDE DEF r
<1>2. PICK f : Sums(f, q) /\ QueuedBytes(q) = f[Len(q)]
  BY QueuedSum
<1>3. PICK g : Sums(g, r) /\ QueuedBytes(r) = g[Len(r)]
  BY <1>1, QueuedSum
<1> DEFINE h == [k \in 0..Len(r) |-> f[k + 1] - q[1].size]
<1>4. q[1].size \in Nat /\ \A k \in 0..Len(q) : f[k] \in Nat
  <2>1. f \in [0..Len(q) -> Nat]
    BY <1>2 DEF Sums
  <2> QED
    BY <1>1, <2>1, Sizes
<1>5. f[0] = 0 /\ \A k \in 1..Len(q) : f[k] = f[k - 1] + q[k].size
  BY <1>2 DEF Sums, Adds
<1>6. h[0] = 0
  <2>1. f[1] = f[1 - 1] + q[1].size
    BY <1>1, <1>5
  <2> QED
    BY <1>1, <1>4, <1>5, <2>1
<1>7. ASSUME NEW k \in 1..Len(r) PROVE h[k] = h[k - 1] + r[k].size
  <2>1. /\ k \in 0..Len(r) /\ k - 1 \in 0..Len(r) /\ k + 1 \in 1..Len(q)
        /\ (k + 1) - 1 = k /\ (k - 1) + 1 = k /\ k \in 1..Len(q) - 1
    BY <1>1
  <2>2. f[k + 1] = f[k] + r[k].size
    BY <1>1, <1>5, <2>1
  <2>3. f[k] \in Nat /\ r[k].size \in Nat /\ k \in 0..Len(q)
    <3>1. r[k] \in Message /\ k \in 0..Len(q)
      BY <1>1, <2>1
    <3> QED
      BY <1>4, <3>1, Sizes
  <2>4. h[k] = f[k + 1] - q[1].size /\ h[k - 1] = f[k] - q[1].size
    BY <2>1
  <2>5. f[k] \in Nat
    BY <1>4, <2>3
  <2>6. \A x, y, z \in Nat : (x + y) - z = (x - z) + y
    OBVIOUS
  <2>7. (f[k] + r[k].size) - q[1].size = (f[k] - q[1].size) + r[k].size
    BY <1>4, <2>3, <2>5, <2>6, Zenon
  <2> QED
    BY <2>2, <2>4, <2>7, Zenon
<1>8. Adds(h, r, Len(r)) /\ Adds(g, r, Len(r)) /\ Len(r) \in Nat
  <2>1. Adds(h, r, Len(r))
    <3> HIDE DEF h
    <3> QED
      BY <1>6, <1>7 DEF Adds
  <2> QED
    BY <1>1, <1>3, <2>1 DEF Sums
<1>9. g[Len(r)] = h[Len(r)]
  <2>1. \A k \in 0..Len(r) : h[k] = g[k]
    <3> HIDE DEF h
    <3> QED
      BY <1>8, SumsAgree
  <2>2. Len(r) \in 0..Len(r)
    BY <1>8
  <2> HIDE DEF h
  <2> QED
    BY <2>1, <2>2
<1>10. h[Len(r)] = f[Len(q)] - q[1].size
  BY <1>1
<1>11. QueuedBytes(q) \in Nat /\ QueuedBytes(r) \in Nat
  <2>1. f \in [0..Len(q) -> Nat] /\ g \in [0..Len(r) -> Nat]
    BY <1>2, <1>3 DEF Sums
  <2>2. Len(q) \in 0..Len(q) /\ Len(r) \in 0..Len(r)
    BY <1>1, <1>8
  <2> QED
    BY <1>2, <1>3, <2>1, <2>2, Zenon
<1> QED
  BY <1>2, <1>3, <1>9, <1>10, <1>11 DEF r

-------------------------------------------------------------------------------
(* The rest of the types, and the limits of the queues.                    *)
Errnos == {"0", "EINTR", "ECHILD", "EAGAIN", "EIDRM"}

Control ==
    /\ spc \in ServerPc /\ errno \in Errnos /\ savedErrno \in Errnos
    /\ hpc \in {"off", "waitpid", "restore"} /\ sigPending \in BOOLEAN
    /\ parent \in [Clients -> BOOLEAN]
    /\ faults \in 0..MaxFaults

ServerFits == Len(serverQ) * REQ_MSG_SIZE <= MSGMNB

ClientFits(c) == QueuedBytes(cq[c]) <= MSGMNB

Counted ==
    /\ mtype \in [Clients -> {0, RESP_MT_FAILURE, RESP_MT_DATA, RESP_MT_END, StackAddress}]
    /\ numTotal \in [Clients -> Nat] /\ numMsgs \in [Clients -> Nat]

WithinFile(c) == offset[c] > 0 => offset[c] <= FileBytes[c]

TypeInv ==
    /\ MessagesTyped /\ Control /\ ServerFits /\ Counted
    /\ \A c \in Clients : ClientFits(c) /\ WithinFile(c)

LEMMA TypeInit == Init => TypeInv
<1> SUFFICES ASSUME Init PROVE TypeInv
  OBVIOUS
<1>1. Control
  <2>1. /\ spc = "sigaction" /\ errno = "0" /\ savedErrno = "0" /\ hpc = "off"
        /\ sigPending = FALSE /\ faults = 0 /\ parent = [c \in Clients |-> FALSE]
    BY DEF Init
  <2>2. faults \in 0..MaxFaults /\ parent \in [Clients -> BOOLEAN]
    BY <2>1, SvMsgAssumption
  <2> QED
    BY <2>1, <2>2 DEF Control, ServerPc, Errnos
<1>2. ServerFits
  <2>1. Len(serverQ) = 0
    BY DEF Init
  <2> QED
    BY <2>1, SvMsgAssumption DEF ServerFits
<1>3. Counted
  <2>1. mtype = [c \in Clients |-> 0] /\ numTotal = [c \in Clients |-> 0]
        /\ numMsgs = [c \in Clients |-> 0]
    BY DEF Init
  <2> QED
    BY <2>1 DEF Counted
<1>4. ASSUME NEW c \in Clients PROVE ClientFits(c) /\ WithinFile(c)
  <2>1. cq[c] = <<>> /\ offset[c] = 0
    BY DEF Init
  <2> QED
    BY <2>1, BytesEmpty, SvMsgAssumption DEF ClientFits, WithinFile
<1> QED
  BY <1>1, <1>2, <1>3, <1>4, MessagesInit DEF TypeInv

LEMMA ControlStep ==
    ASSUME MessagesTyped, Control, [Next]_vars
    PROVE  Control'
<1> USE SvMsgAssumption DEF Control, Errnos, ServerPc, serverVars, handlerVars, childVars
<1>1. CASE Sigaction \/ Msgget \/ Msgrcv \/ MsgrcvFails
  BY <1>1 DEF Sigaction, Msgget, Msgrcv, MsgrcvFails
<1>2. CASE CheckErrno
  <2>1. parent' = parent \/ parent' = [c \in Clients |-> FALSE]
    BY <1>2 DEF CheckErrno
  <2>2. /\ UNCHANGED <<errno, hpc, savedErrno, sigPending, faults>>
        /\ spc' \in {"msgrcv", "down"}
    BY <1>2 DEF CheckErrno
  <2> QED
    BY <2>1, <2>2
<1>3. CASE Fork \/ ForkFails
  <2>1. parent' \in [Clients -> BOOLEAN]
    BY <1>3 DEF Fork, ForkFails
  <2>2. /\ UNCHANGED <<hpc, savedErrno, sigPending>> /\ spc' = "msgrcv"
        /\ errno' \in {errno, "EAGAIN"} /\ faults' \in 0..MaxFaults
    BY <1>3 DEF Fork, ForkFails
  <2> QED
    BY <2>1, <2>2
<1>4. CASE Deliver \/ ReapOne
  BY <1>4 DEF Deliver, ReapOne
<1>5. CASE ReapDone \/ RestoreErrno
  BY <1>5 DEF ReapDone, RestoreErrno
<1>6. CASE ServerKilled
  <2>1. parent' = [c \in Clients |-> FALSE]
    BY <1>6 DEF ServerKilled
  <2>2. /\ UNCHANGED <<savedErrno, errno>> /\ hpc' = "off" /\ sigPending' = FALSE
        /\ faults' \in 0..MaxFaults /\ spc' = "killed"
    BY <1>6 DEF ServerKilled
  <2> QED
    BY <2>1, <2>2
<1>r. CASE ServerRestart
  BY <1>r DEF ServerRestart
<1>q. CASE QueueRemoved
  BY <1>q DEF QueueRemoved
<1>7. ASSUME NEW c \in Clients, ChildStep(c) \/ ChildKilled(c) \/ ChildReadFails(c)
      PROVE  Control'
  <2>1. UNCHANGED <<spc, hpc, errno, savedErrno, parent>> /\ sigPending' \in BOOLEAN
    BY <1>7, ChildStepFacts DEF ChildExits
  <2>2. faults' \in 0..MaxFaults
    BY <1>7 DEF ChildStep, ChildOpen, ChildSendFailure, ChildSendData, ChildEndOfFile,
                ChildSendEnd, ChildKilled, ChildReadFails
  <2> QED
    BY <2>1, <2>2
<1>8. ASSUME NEW c \in Clients, ClientStep(c) \/ ClientKilled(c) \/ CleanUp(c)
      PROVE  Control'
  <2>1. UNCHANGED <<spc, hpc, errno, savedErrno, sigPending, parent>>
    BY <1>8, ClientStepFacts
  <2>2. faults' \in 0..MaxFaults
    <3>1. CASE ClientStep(c) \/ CleanUp(c)
      BY <3>1 DEF ClientStep, ClientMsgget, ClientCreate, ClientMsgsnd, ClientFirst,
                  ClientRefused, ClientNext, ClientExit, CleanUp, ClientUnchanged
    <3>2. CASE ClientKilled(c)
      BY <3>2 DEF ClientKilled
    <3> QED
      BY <1>8, <3>1, <3>2
  <2> QED
    BY <2>1, <2>2
<1>9. CASE UNCHANGED vars \/ Idle
  BY <1>9 DEF vars, Idle
<1> QED
  BY <1>1, <1>2, <1>3, <1>4, <1>5, <1>6, <1>7, <1>8, <1>9, <1>r, <1>q
  DEF Next, ServerMain, Handler, Fault

(* Only a request that fits is put into the server's queue.                *)
LEMMA ServerFitsStep ==
    ASSUME MessagesTyped, ServerFits, [Next]_vars
    PROVE  ServerFits'
<1>1. CASE serverQ' = serverQ
  BY <1>1 DEF ServerFits
<1>2. CASE serverQ' = <<>>
  <2>1. Len(serverQ') = 0
    BY <1>2
  <2> QED
    BY <2>1, SvMsgAssumption DEF ServerFits
<1>3. CASE Msgrcv
  <2>1. Len(serverQ) \in Nat /\ Len(serverQ') = Len(serverQ) - 1
    BY <1>3, TailFacts DEF Msgrcv, MessagesTyped
  <2>2. \A n \in Nat, R \in Nat : n * R <= MSGMNB => (n - 1) * R <= MSGMNB
    <3>1. SUFFICES ASSUME NEW n \in Nat, NEW R \in Nat, n * R <= MSGMNB
                   PROVE  (n - 1) * R <= MSGMNB
      OBVIOUS
    <3>2. (n - 1) * R = n * R - R /\ n * R \in Nat
      OBVIOUS
    <3> QED
      BY <3>1, <3>2, SvMsgAssumption
  <2> QED
    BY <2>1, <2>2, SvMsgAssumption DEF ServerFits
<1>4. ASSUME NEW c \in Clients, ClientMsgsnd(c), serverQ' # serverQ
      PROVE  ServerFits'
  <2>1. serverQ' = Append(serverQ, c) /\ (Len(serverQ) + 1) * REQ_MSG_SIZE <= MSGMNB
    BY <1>4 DEF ClientMsgsnd, ServerHasRoom
  <2>2. Len(serverQ') = Len(serverQ) + 1
    BY <2>1, AppendFacts DEF MessagesTyped
  <2> QED
    BY <2>1, <2>2 DEF ServerFits
<1> USE DEF serverVars, handlerVars, childVars, ChildUnchanged, ClientUnchanged
<1>5. CASE ServerMain \/ Handler
  BY <1>1, <1>2, <1>3, <1>5
  DEF ServerMain, Handler, Sigaction, Msgget, MsgrcvFails, CheckErrno, Fork,
      Deliver, ReapOne, ReapDone, RestoreErrno
<1>6. CASE ForkFails \/ ServerKilled \/ ServerRestart \/ QueueRemoved \/ Idle \/ UNCHANGED vars
  BY <1>1, <1>2, <1>6 DEF ForkFails, ServerKilled, ServerRestart, QueueRemoved, Idle, vars
<1>7. ASSUME NEW c \in Clients, ChildStep(c) \/ ChildKilled(c) \/ ChildReadFails(c)
      PROVE  ServerFits'
  BY <1>1, <1>7
  DEF ChildStep, ChildOpen, ChildSendFailure, ChildSendData, ChildEndOfFile,
      ChildSendEnd, ChildKilled, ChildReadFails
<1>8. ASSUME NEW c \in Clients, ClientStep(c) \/ ClientKilled(c) \/ CleanUp(c)
      PROVE  ServerFits'
  BY <1>1, <1>4, <1>8
  DEF ClientStep, ClientMsgget, ClientCreate, ClientFirst, ClientRefused, ClientNext,
      ClientExit, ClientKilled, CleanUp
<1> QED
  BY <1>5, <1>6, <1>7, <1>8 DEF Next, Fault

(* What one step may do to the queue of a client.                          *)
Moves(c) ==
    \/ cq'[c] = cq[c]
    \/ cq'[c] = <<>>
    \/ cq[c] # <<>> /\ cq'[c] = Tail(cq[c])
    \/ \E m \in Message : cq'[c] = Append(cq[c], m) /\ HasRoom(c, m.size)

LEMMA ChildMoves ==
    ASSUME MessagesTyped, NEW c \in Clients,
           ChildStep(c) \/ ChildKilled(c) \/ ChildReadFails(c)
    PROVE  \A d \in Clients : Moves(d)
<1> DEFINE Sends(m) == cq' = [cq EXCEPT ![c] = Append(@, m)] /\ HasRoom(c, m.size)
<1>s. ASSUME NEW m \in Message, Sends(m) PROVE \A d \in Clients : Moves(d)
  <2>1. cq'[c] = Append(cq[c], m) /\ \A d \in Clients \ {c} : cq'[d] = cq[d]
    BY <1>s DEF MessagesTyped
  <2>2. Moves(c)
    BY <1>s, <2>1 DEF Moves
  <2> QED
    BY <2>1, <2>2 DEF Moves
<1>u. ASSUME UNCHANGED cq PROVE \A d \in Clients : Moves(d)
  BY <1>u DEF Moves
<1>1. CASE ChildOpen(c) \/ ChildEndOfFile(c) \/ ChildKilled(c) \/ ChildReadFails(c)
  BY <1>1, <1>u DEF ChildOpen, ChildEndOfFile, ChildKilled, ChildReadFails
<1>2. CASE ChildSendFailure(c)
  <2> DEFINE m == [mtype |-> RESP_MT_FAILURE, size |-> REQ_MSG_SIZE, off |-> 0]
  <2>1. m \in Message /\ m.size = REQ_MSG_SIZE
    BY SvMsgAssumption DEF Message
  <2>2. Sends(m) \/ UNCHANGED cq
    BY <1>2 DEF ChildSendFailure
  <2> HIDE DEF m, Sends
  <2> QED
    BY <1>s, <1>u, <2>1, <2>2
<1>3. CASE ChildSendData(c)
  <2> DEFINE m == [mtype |-> RESP_MT_DATA, size |-> ChunkBytes(c, offset[c]),
                   off |-> offset[c]]
  <2>1. offset[c] \in Nat /\ offset[c] < FileBytes[c]
    BY <1>3 DEF ChildSendData, MessagesTyped
  <2>2. ChunkBytes(c, offset[c]) \in 0..MSGMNB
    BY <2>1, ChunkFacts
  <2>3. m \in Message
    BY <2>1, <2>2 DEF Message
  <2>4. Sends(m) \/ UNCHANGED cq
    BY <1>3 DEF ChildSendData
  <2> HIDE DEF m, Sends
  <2> QED
    BY <1>s, <1>u, <2>3, <2>4
<1>4. CASE ChildSendEnd(c)
  <2> DEFINE m == [mtype |-> StackAddress, size |-> REQ_MSG_SIZE, off |-> 0]
  <2>1. m \in Message /\ m.size = REQ_MSG_SIZE
    BY SvMsgAssumption DEF Message
  <2>2. Sends(m) \/ UNCHANGED cq
    BY <1>4 DEF ChildSendEnd
  <2> HIDE DEF m, Sends
  <2> QED
    BY <1>s, <1>u, <2>1, <2>2
<1> QED
  BY <1>1, <1>2, <1>3, <1>4 DEF ChildStep

LEMMA ClientMoves ==
    ASSUME MessagesTyped, NEW c \in Clients,
           ClientStep(c) \/ ClientKilled(c) \/ CleanUp(c)
    PROVE  \A d \in Clients : Moves(d)
<1>1. \/ UNCHANGED cq
      \/ cq' = [cq EXCEPT ![c] = <<>>]
      \/ cq[c] # <<>> /\ cq' = [cq EXCEPT ![c] = Tail(@)]
  BY DEF ClientStep, ClientMsgget, ClientCreate, ClientMsgsnd, ClientFirst, ClientRefused,
         ClientNext, ClientExit, ClientKilled, CleanUp, Receive
<1>2. \A d \in Clients \ {c} : cq'[d] = cq[d]
  BY <1>1 DEF MessagesTyped
<1>3. Moves(c)
  BY <1>1 DEF MessagesTyped, Moves
<1> QED
  BY <1>2, <1>3 DEF Moves

LEMMA AllMoves ==
    ASSUME MessagesTyped, [Next]_vars
    PROVE  \A d \in Clients : Moves(d)
<1>1. CASE UNCHANGED cq
  BY <1>1 DEF Moves
<1>2. CASE ServerMain \/ Handler \/ Idle \/ UNCHANGED vars
  <2>1. UNCHANGED cq
    BY <1>2 DEF ServerMain, Sigaction, Msgget, Msgrcv, MsgrcvFails, CheckErrno, Fork,
                Handler, Deliver, ReapOne, ReapDone, RestoreErrno, Idle, vars
  <2> QED
    BY <1>1, <2>1
<1>3. CASE ForkFails \/ ServerKilled \/ ServerRestart \/ QueueRemoved
  BY <1>1, <1>3 DEF ForkFails, ServerKilled, ServerRestart, QueueRemoved
<1> QED
  BY <1>2, <1>3, ChildMoves, ClientMoves DEF Next, Fault

(* msgsnd() blocks until there is room, so no queue holds more than        *)
(* MSGMNB bytes.                                                           *)
LEMMA ClientFitsStep ==
    ASSUME MessagesTyped, [Next]_vars, NEW c \in Clients, ClientFits(c)
    PROVE  ClientFits(c)'
<1>t. cq[c] \in Seq(Message)
  BY DEF MessagesTyped
<1>1. CASE cq'[c] = cq[c]
  BY <1>1 DEF ClientFits, QueuedBytes
<1>2. CASE cq'[c] = <<>>
  <2>1. QueuedBytes(cq'[c]) = 0
    BY <1>2, BytesEmpty
  <2> QED
    BY <2>1, SvMsgAssumption DEF ClientFits
<1>3. CASE cq[c] # <<>> /\ cq'[c] = Tail(cq[c])
  <2>1. /\ QueuedBytes(cq[c]) \in Nat /\ QueuedBytes(cq'[c]) \in Nat
        /\ QueuedBytes(cq'[c]) = QueuedBytes(cq[c]) - cq[c][1].size
    BY <1>t, <1>3, BytesTail
  <2>2. cq[c][1].size \in Nat
    BY <1>t, <1>3, TailFacts, Sizes
  <2>3. QueuedBytes(cq[c]) <= MSGMNB
    BY DEF ClientFits
  <2>4. QueuedBytes(cq'[c]) <= MSGMNB
    BY <2>1, <2>2, <2>3, SvMsgAssumption
  <2> QED
    BY <2>4 DEF ClientFits
<1>4. ASSUME NEW m \in Message, cq'[c] = Append(cq[c], m), HasRoom(c, m.size)
      PROVE  ClientFits(c)'
  <2>1. QueuedBytes(cq'[c]) = QueuedBytes(cq[c]) + m.size
    BY <1>t, <1>4, BytesAppend
  <2> QED
    BY <1>4, <2>1 DEF ClientFits, HasRoom
<1> QED
  BY <1>1, <1>2, <1>3, <1>4, AllMoves DEF Moves

(* A child reads no further than the end of its file.                      *)
LEMMA WithinFileStep ==
    ASSUME MessagesTyped, [Next]_vars, NEW c \in Clients, WithinFile(c)
    PROVE  WithinFile(c)'
<1>1. CASE offset'[c] = offset[c]
  BY <1>1 DEF WithinFile
<1> USE DEF serverVars, handlerVars, childVars, ChildUnchanged, ClientUnchanged
<1>2. ASSUME NEW d \in Clients, ChildSendData(d) PROVE WithinFile(c)'
  <2>1. /\ offset[d] \in Nat /\ offset[d] < FileBytes[d]
        /\ offset' = [offset EXCEPT ![d] = @ + ChunkBytes(d, offset[d])]
    BY <1>2 DEF ChildSendData, MessagesTyped
  <2>2. offset[d] + ChunkBytes(d, offset[d]) <= FileBytes[d]
    BY <2>1, SvMsgAssumption DEF ChunkBytes
  <2>3. offset'[c] = IF c = d THEN offset[d] + ChunkBytes(d, offset[d]) ELSE offset[c]
    BY <2>1 DEF MessagesTyped
  <2> QED
    BY <1>1, <2>2, <2>3 DEF WithinFile
<1>3. CASE ServerMain \/ Handler \/ Idle \/ UNCHANGED vars
  <2>1. UNCHANGED offset
    BY <1>3 DEF ServerMain, Sigaction, Msgget, Msgrcv, MsgrcvFails, CheckErrno, Fork,
                Handler, Deliver, ReapOne, ReapDone, RestoreErrno, Idle, vars
  <2> QED
    BY <1>1, <2>1
<1>4. CASE ForkFails \/ ServerKilled \/ ServerRestart \/ QueueRemoved
  BY <1>1, <1>4 DEF ForkFails, ServerKilled, ServerRestart, QueueRemoved
<1>5. ASSUME NEW d \in Clients, ChildStep(d) \/ ChildKilled(d) \/ ChildReadFails(d)
      PROVE  WithinFile(c)'
  BY <1>1, <1>2, <1>5
  DEF ChildStep, ChildOpen, ChildSendFailure, ChildEndOfFile, ChildSendEnd, ChildKilled,
      ChildReadFails
<1>6. ASSUME NEW d \in Clients, ClientStep(d) \/ ClientKilled(d) \/ CleanUp(d)
      PROVE  WithinFile(c)'
  BY <1>1, <1>6
  DEF ClientStep, ClientMsgget, ClientCreate, ClientMsgsnd, ClientFirst, ClientRefused,
      ClientNext, ClientExit, ClientKilled, CleanUp
<1> QED
  BY <1>3, <1>4, <1>5, <1>6 DEF Next, Fault

LEMMA CountedStep ==
    ASSUME MessagesTyped, Counted, [Next]_vars
    PROVE  Counted'
<1>1. CASE UNCHANGED <<mtype, numTotal, numMsgs>>
  BY <1>1 DEF Counted
<1> USE DEF clientVars, ChildUnchanged
<1>2. CASE ServerMain \/ Handler \/ Idle \/ UNCHANGED vars
  <2>1. UNCHANGED <<mtype, numTotal, numMsgs>>
    BY <1>2 DEF ServerMain, Sigaction, Msgget, Msgrcv, MsgrcvFails, CheckErrno, Fork,
                Handler, Deliver, ReapOne, ReapDone, RestoreErrno, Idle, vars
  <2> QED
    BY <1>1, <2>1
<1>3. CASE ForkFails \/ ServerKilled \/ ServerRestart \/ QueueRemoved
  BY <1>1, <1>3 DEF ForkFails, ServerKilled, ServerRestart, QueueRemoved
<1>4. ASSUME NEW c \in Clients, ChildStep(c) \/ ChildKilled(c) \/ ChildReadFails(c)
      PROVE  Counted'
  BY <1>1, <1>4
  DEF ChildStep, ChildOpen, ChildSendFailure, ChildSendData, ChildEndOfFile, ChildSendEnd,
      ChildKilled, ChildReadFails
<1>5. ASSUME NEW c \in Clients, ClientFirst(c) \/ ClientNext(c)
      PROVE  Counted'
  <2>1. cq[c] # <<>> /\ cq[c] \in Seq(Message)
    BY <1>5 DEF ClientFirst, ClientNext, MessagesTyped
  <2>2. Head(cq[c]) \in Message
    BY <2>1, TailFacts
  <2>3. /\ Head(cq[c]).size \in Nat
        /\ Head(cq[c]).mtype \in {RESP_MT_FAILURE, RESP_MT_DATA, RESP_MT_END, StackAddress}
    BY <2>2, Sizes DEF Message
  <2>4. mtype' = [mtype EXCEPT ![c] = Head(cq[c]).mtype]
    BY <1>5 DEF ClientFirst, ClientNext, Receive
  <2>5. numTotal' \in [Clients -> Nat] /\ numMsgs' \in [Clients -> Nat]
    <3>1. numTotal[c] \in Nat /\ numMsgs[c] \in Nat
      BY DEF Counted
    <3>2. numTotal[c] + Head(cq[c]).size \in Nat /\ numMsgs[c] + 1 \in Nat /\ 1 \in Nat
      BY <2>3, <3>1
    <3> QED
      BY <1>5, <2>3, <3>2 DEF Counted, ClientFirst, ClientNext
  <2> QED
    BY <2>3, <2>4, <2>5 DEF Counted
<1>6. ASSUME NEW c \in Clients, ClientRefused(c) PROVE Counted'
  BY <1>6 DEF Counted, ClientRefused
<1>7. ASSUME NEW c \in Clients,
             \/ ClientMsgget(c) \/ ClientCreate(c) \/ ClientMsgsnd(c) \/ ClientExit(c)
             \/ ClientKilled(c) \/ CleanUp(c)
      PROVE  Counted'
  BY <1>1, <1>7
  DEF ClientMsgget, ClientCreate, ClientMsgsnd, ClientExit, ClientKilled, CleanUp
<1> QED
  BY <1>2, <1>3, <1>4, <1>5, <1>6, <1>7 DEF Next, Fault, ClientStep

LEMMA TypeStep == TypeInv /\ [Next]_vars => TypeInv'
<1> SUFFICES ASSUME TypeInv, [Next]_vars PROVE TypeInv'
  OBVIOUS
<1>1. MessagesTyped /\ Control /\ ServerFits /\ Counted
      /\ \A c \in Clients : ClientFits(c) /\ WithinFile(c)
  BY DEF TypeInv
<1>2. MessagesTyped' /\ Control' /\ ServerFits' /\ Counted'
  BY <1>1, MessagesStep, ControlStep, ServerFitsStep, CountedStep
<1>3. \A c \in Clients : ClientFits(c)' /\ WithinFile(c)'
  BY <1>1, ClientFitsStep, WithinFileStep
<1> QED
  BY <1>2, <1>3 DEF TypeInv

(* Every variable keeps its type, and msgsnd() lets no queue of the server *)
(* or of a client grow beyond its limit.                                   *)
THEOREM TypesKept == Spec => []TypeOK
<1>1. TypeInv => TypeOK
  <2> SUFFICES ASSUME TypeInv PROVE TypeOK
    OBVIOUS
  <2>1. /\ spc \in ServerPc /\ {errno, savedErrno} \subseteq Errnos
        /\ hpc \in {"off", "waitpid", "restore"} /\ sigPending \in BOOLEAN
        /\ parent \in [Clients -> BOOLEAN] /\ faults \in 0..MaxFaults
    BY DEF TypeInv, Control
  <2>2. /\ sreq \in Clients \cup {NoReq} /\ serverQ \in Seq(Clients)
        /\ serverQExists \in BOOLEAN /\ cpc \in [Clients -> ClientPc]
        /\ cqState \in [Clients -> {"none", "live", "removed"}]
        /\ child \in [Clients -> ChildState] /\ offset \in [Clients -> Nat]
        /\ \A c \in Clients : cq[c] \in Seq(Message) /\ got[c] \in Seq(Nat)
    BY DEF TypeInv, MessagesTyped
  <2>3. /\ Len(serverQ) * REQ_MSG_SIZE <= MSGMNB
        /\ \A c \in Clients : QueuedBytes(cq[c]) <= MSGMNB
        /\ \A c \in Clients : offset[c] > 0 => offset[c] <= FileBytes[c]
    BY DEF TypeInv, ServerFits, ClientFits, WithinFile
  <2>4. /\ mtype \in [Clients -> {0, RESP_MT_FAILURE, RESP_MT_DATA, RESP_MT_END,
                                  StackAddress}]
        /\ numTotal \in [Clients -> Nat] /\ numMsgs \in [Clients -> Nat]
    BY DEF TypeInv, Counted
  <2> QED
    BY <2>1, <2>2, <2>3, <2>4, Zenon DEF TypeOK, Errnos
<1> QED
  BY <1>1, TypeInit, TypeStep, PTL DEF Spec
===============================================================================

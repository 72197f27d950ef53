------------------------------ MODULE SvMsgFile ------------------------------
(***************************************************************************)
(* TLPI/chapter46/server: a concurrent file server on System V message     *)
(* queues.  The server forks a child for each request, the child sends the *)
(* file in messages to the client's private queue, and a SIGCHLD handler   *)
(* reaps the children.                                                     *)
(*                                                                         *)
(* Every client sends one request, so a child is named after its client.   *)
(***************************************************************************)
EXTENDS Integers, Sequences, FiniteSets

CONSTANTS Clients,
          NoReq,         \* not a client: main has no request yet
          FileBytes,     \* length of the file each client asks for, -1: none
          MSGMNB,        \* bytes a queue can hold
          REQ_MSG_SIZE, RESP_MSG_SIZE,
          StackAddress,  \* a pointer value, see ChildSendEnd
          MaxFaults      \* bound: deaths, failing forks and reads, ipcrm

RESP_MT_FAILURE == 1
RESP_MT_DATA    == 2
RESP_MT_END     == 3

ASSUME SvMsgAssumption ==
    /\ NoReq \notin Clients
    /\ FileBytes \in [Clients -> Nat \cup {-1}]
    /\ MSGMNB \in Nat /\ REQ_MSG_SIZE \in 1..MSGMNB /\ RESP_MSG_SIZE \in 1..MSGMNB
    /\ StackAddress \in Nat \ {RESP_MT_FAILURE, RESP_MT_DATA, RESP_MT_END}
    /\ MaxFaults \in Nat

VARIABLES
    spc,        \* server: next statement of main
    sreq,       \* the request main received last
    errno,      \* main's errno, shared with the handler
    hpc,        \* grimReaper: "off", "waitpid" or "restore"
    savedErrno,
    sigPending, \* SIGCHLD is pending for the server
    serverQ, serverQExists,
    cpc,        \* each client: next statement, or how it ended
    cq,         \* each client's private queue
    cqState,    \* "none", "live" or "removed"
    mtype,      \* type of the last response
    numTotal, numMsgs,
    got,        \* offsets of the data messages received
    child,      \* state of the child that serves each client
    offset,     \* how much of the file it has read
    parent,     \* the child's parent is the server that runs now
    faults

serverVars == <<spc, sreq, errno>>
handlerVars == <<hpc, savedErrno>>
clientVars == <<cpc, mtype, numTotal, numMsgs, got>>
childVars  == <<child, offset, parent>>
vars == <<serverVars, handlerVars, sigPending, serverQ, serverQExists,
          clientVars, cq, cqState, childVars, faults>>

ServerPc == {"sigaction", "msgget", "msgrcv", "interrupted", "errcheck", "fork",
             "down", "killed"}
ClientPc == {"msgget", "create", "msgsnd", "msgrcv", "more", "report", "exit",
             "ok", "failed", "killed"}
ChildState == {"none", "open", "data", "end", "failure", "zombie", "gone"}

Message == [mtype : {RESP_MT_FAILURE, RESP_MT_DATA, RESP_MT_END, StackAddress},
            size : 0..MSGMNB, off : Nat]

Init ==
    /\ spc = "sigaction" /\ sreq = NoReq /\ errno = "0"
    /\ hpc = "off" /\ savedErrno = "0" /\ sigPending = FALSE
    /\ serverQ = <<>> /\ serverQExists = FALSE
    /\ cpc = [c \in Clients |-> "msgget"]
    /\ cq = [c \in Clients |-> <<>>]
    /\ cqState = [c \in Clients |-> "none"]
    /\ mtype = [c \in Clients |-> 0]
    /\ numTotal = [c \in Clients |-> 0]
    /\ numMsgs = [c \in Clients |-> 0]
    /\ got = [c \in Clients |-> <<>>]
    /\ child = [c \in Clients |-> "none"]
    /\ offset = [c \in Clients |-> 0]
    /\ parent = [c \in Clients |-> FALSE]
    /\ faults = 0

-------------------------------------------------------------------------------
(* msgsnd() blocks until its bytes fit into the queue.                     *)

QueuedBytes(q) ==
    LET bytes[k \in 0..Len(q)] == IF k = 0 THEN 0 ELSE bytes[k - 1] + q[k].size
    IN bytes[Len(q)]

HasRoom(c, size) == QueuedBytes(cq[c]) + size <= MSGMNB

ServerHasRoom == (Len(serverQ) + 1) * REQ_MSG_SIZE <= MSGMNB

-------------------------------------------------------------------------------
(* The server's main program; it runs only while the handler does not.     *)

ServerAt(pc) == spc = pc /\ hpc = "off"

Sigaction ==
    /\ ServerAt("sigaction")
    /\ spc' = "msgget"
    /\ UNCHANGED <<sreq, errno, handlerVars, sigPending, serverQ, serverQExists,
                   clientVars, cq, cqState, childVars, faults>>

(* Mutant: the new server removes the old queue and creates it again.      *)
Msgget_Fresh ==
    /\ ServerAt("msgget")
    /\ serverQExists' = TRUE
    /\ serverQ' = <<>>
    /\ spc' = "msgrcv"
    /\ UNCHANGED <<sreq, errno, handlerVars, sigPending, clientVars, cq, cqState,
                   childVars, faults>>

(* IPC_CREAT: the queue of an earlier server is used again, as it is.      *)
Msgget ==
    /\ ServerAt("msgget")
    /\ serverQExists' = TRUE
    /\ spc' = "msgrcv"
    /\ UNCHANGED <<sreq, errno, handlerVars, sigPending, serverQ, clientVars, cq,
                   cqState, childVars, faults>>

Msgrcv ==
    /\ ServerAt("msgrcv")
    /\ serverQExists
    /\ serverQ # <<>>
    /\ sreq' = Head(serverQ)
    /\ serverQ' = Tail(serverQ)
    /\ spc' = "fork"
    /\ UNCHANGED <<errno, handlerVars, sigPending, serverQExists, clientVars, cq,
                   cqState, childVars, faults>>

(* msgrcv() returns -1: a handler interrupted it, or the queue is gone.    *)
MsgrcvFails ==
    /\ \/ ServerAt("interrupted") /\ errno' = "EINTR"
       \/ ServerAt("msgrcv") /\ ~serverQExists /\ errno' = "EIDRM"
    /\ spc' = "errcheck"
    /\ UNCHANGED <<sreq, handlerVars, sigPending, serverQ, serverQExists,
                   clientVars, cq, cqState, childVars, faults>>

(* Mutant: every failure of msgrcv ends the loop.                          *)
CheckErrno_NoRetry ==
    /\ ServerAt("errcheck")
    /\ spc' = "down"
    /\ serverQ' = <<>> /\ serverQExists' = FALSE
    /\ child' = [c \in Clients |-> IF child[c] = "zombie" THEN "gone" ELSE child[c]]
    /\ parent' = [c \in Clients |-> FALSE]
    /\ UNCHANGED <<sreq, errno, handlerVars, sigPending, clientVars, cq, cqState,
                   offset, faults>>

(* Only EINTR is tried again; otherwise the loop ends and the queue is     *)
(* removed with whatever it holds.                                         *)
CheckErrno ==
    /\ ServerAt("errcheck")
    /\ IF errno = "EINTR"
       THEN /\ spc' = "msgrcv"
            /\ UNCHANGED <<serverQ, serverQExists, childVars>>
       ELSE /\ spc' = "down"
            /\ serverQ' = <<>> /\ serverQExists' = FALSE
            /\ child' = [c \in Clients |-> IF child[c] = "zombie" THEN "gone" ELSE child[c]]
            /\ parent' = [c \in Clients |-> FALSE]
            /\ UNCHANGED offset
    /\ UNCHANGED <<sreq, errno, handlerVars, sigPending, clientVars, cq, cqState, faults>>

(* The child gets a copy of the request.                                   *)
Fork ==
    /\ ServerAt("fork")
    /\ child' = [child EXCEPT ![sreq] = "open"]
    /\ parent' = [parent EXCEPT ![sreq] = TRUE]
    /\ spc' = "msgrcv"
    /\ UNCHANGED <<sreq, errno, handlerVars, sigPending, serverQ, serverQExists,
                   clientVars, cq, cqState, offset, faults>>

(* fork() returns -1: the request is dropped and the client not told.      *)
ForkFails ==
    /\ ServerAt("fork")
    /\ faults < MaxFaults
    /\ faults' = faults + 1
    /\ errno' = "EAGAIN"
    /\ spc' = "msgrcv"
    /\ UNCHANGED <<sreq, handlerVars, sigPending, serverQ, serverQExists,
                   clientVars, cq, cqState, childVars>>

ServerMain == Sigaction \/ Msgget \/ Msgrcv \/ MsgrcvFails \/ CheckErrno \/ Fork

-------------------------------------------------------------------------------
(* grimReaper(): SIGCHLD is blocked while it runs and pends at most once.  *)

Alive == spc \notin {"sigaction", "down", "killed"}

Deliver ==
    /\ Alive
    /\ sigPending /\ hpc = "off"
    /\ sigPending' = FALSE
    /\ hpc' = "waitpid"
    /\ savedErrno' = errno
    /\ \/ UNCHANGED spc
       \/ /\ spc = "msgrcv" /\ serverQExists /\ serverQ = <<>>
          /\ spc' = "interrupted"
    /\ UNCHANGED <<sreq, errno, serverQ, serverQExists, clientVars, cq, cqState,
                   childVars, faults>>

OwnChildren(state) == {c \in Clients : parent[c] /\ child[c] \in state}

(* Mutant: one waitpid per signal.                                         *)
ReapOne_Once ==
    /\ Alive /\ hpc = "waitpid"
    /\ \E c \in OwnChildren({"zombie"}) : child' = [child EXCEPT ![c] = "gone"]
    /\ hpc' = "restore"
    /\ UNCHANGED <<serverVars, savedErrno, sigPending, serverQ, serverQExists,
                   clientVars, cq, cqState, offset, parent, faults>>

ReapOne ==
    /\ Alive /\ hpc = "waitpid"
    /\ \E c \in OwnChildren({"zombie"}) : child' = [child EXCEPT ![c] = "gone"]
    /\ UNCHANGED <<serverVars, handlerVars, sigPending, serverQ, serverQExists,
                   clientVars, cq, cqState, offset, parent, faults>>

(* waitpid() finds no zombie; it sets errno when there is no child at all. *)
ReapDone ==
    /\ Alive /\ hpc = "waitpid"
    /\ OwnChildren({"zombie"}) = {}
    /\ errno' = IF OwnChildren(ChildState \ {"none", "gone"}) = {} THEN "ECHILD" ELSE errno
    /\ hpc' = "restore"
    /\ UNCHANGED <<spc, sreq, savedErrno, sigPending, serverQ, serverQExists,
                   clientVars, cq, cqState, childVars, faults>>

(* Mutant: the handler does not give errno back.                           *)
RestoreErrno_Forgotten ==
    /\ Alive /\ hpc = "restore"
    /\ hpc' = "off"
    /\ UNCHANGED <<serverVars, savedErrno, sigPending, serverQ, serverQExists,
                   clientVars, cq, cqState, childVars, faults>>

RestoreErrno ==
    /\ Alive /\ hpc = "restore"
    /\ errno' = savedErrno
    /\ hpc' = "off"
    /\ UNCHANGED <<spc, sreq, savedErrno, sigPending, serverQ, serverQExists,
                   clientVars, cq, cqState, childVars, faults>>

Handler == Deliver \/ ReapOne \/ ReapDone \/ RestoreErrno

-------------------------------------------------------------------------------
(* serveRequest() in the child.                                            *)

(* The child's exit: a zombie and a signal, or nothing if it is an orphan. *)
ChildExits(c) ==
    /\ child' = [child EXCEPT ![c] = IF parent[c] THEN "zombie" ELSE "gone"]
    /\ sigPending' = (sigPending \/ parent[c])

ChildUnchanged == <<serverVars, handlerVars, serverQ, serverQExists, clientVars,
                    cqState, parent>>

ChildOpen(c) ==
    /\ child[c] = "open"
    /\ child' = [child EXCEPT ![c] = IF FileBytes[c] = -1 THEN "failure" ELSE "data"]
    /\ UNCHANGED <<ChildUnchanged, sigPending, cq, offset, faults>>

(* The failure message, or the child's failure when the queue is gone.     *)
ChildSendFailure(c) ==
    /\ child[c] = "failure"
    /\ \/ /\ cqState[c] = "live" /\ HasRoom(c, REQ_MSG_SIZE)
          /\ cq' = [cq EXCEPT ![c] = Append(@, [mtype |-> RESP_MT_FAILURE,
                                                size |-> REQ_MSG_SIZE, off |-> 0])]
       \/ /\ cqState[c] = "removed"
          /\ UNCHANGED cq
    /\ ChildExits(c)
    /\ UNCHANGED <<ChildUnchanged, offset, faults>>

(* Mutant: the buffer is always sent in full, as if read() had filled it.   *)
ChunkBytes_Full(c, off) == RESP_MSG_SIZE

ChunkBytes(c, off) ==
    IF FileBytes[c] - off < RESP_MSG_SIZE THEN FileBytes[c] - off ELSE RESP_MSG_SIZE

(* Mutant: the same chunk is read again.                                   *)
ChildSendData_Again(c) ==
    /\ child[c] = "data"
    /\ offset[c] < FileBytes[c]
    /\ LET n == ChunkBytes(c, offset[c]) IN
        /\ cqState[c] = "live" /\ HasRoom(c, n)
        /\ cq' = [cq EXCEPT ![c] = Append(@, [mtype |-> RESP_MT_DATA,
                                              size |-> n, off |-> offset[c]])]
    /\ UNCHANGED <<ChildUnchanged, sigPending, child, offset, faults>>

(* One round of the loop: read a chunk and send it; the loop ends when the *)
(* send fails.                                                             *)
ChildSendData(c) ==
    /\ child[c] = "data"
    /\ offset[c] < FileBytes[c]
    /\ LET n == ChunkBytes(c, offset[c]) IN
        \/ /\ cqState[c] = "live" /\ HasRoom(c, n)
           /\ cq' = [cq EXCEPT ![c] = Append(@, [mtype |-> RESP_MT_DATA,
                                                 size |-> n, off |-> offset[c]])]
           /\ offset' = [offset EXCEPT ![c] = @ + n]
           /\ UNCHANGED child
        \/ /\ cqState[c] = "removed"
           /\ child' = [child EXCEPT ![c] = "end"]
           /\ offset' = [offset EXCEPT ![c] = @ + n]
           /\ UNCHANGED cq
    /\ UNCHANGED <<ChildUnchanged, sigPending, faults>>

(* read() returns 0.                                                       *)
ChildEndOfFile(c) ==
    /\ child[c] = "data"
    /\ offset[c] = FileBytes[c]
    /\ child' = [child EXCEPT ![c] = "end"]
    /\ UNCHANGED <<ChildUnchanged, sigPending, cq, offset, faults>>

(* read() returns -1: the loop ends as it does at the end of the file.     *)
ChildReadFails(c) ==
    /\ child[c] = "data"
    /\ faults < MaxFaults
    /\ faults' = faults + 1
    /\ child' = [child EXCEPT ![c] = "end"]
    /\ UNCHANGED <<ChildUnchanged, sigPending, cq, offset>>

(* Mutant: the child waits for its client's queue instead of giving up.    *)
ChildSendEnd_Retry(c) ==
    /\ child[c] = "end"
    /\ cqState[c] = "live" /\ HasRoom(c, REQ_MSG_SIZE)
    /\ cq' = [cq EXCEPT ![c] = Append(@, [mtype |-> StackAddress,
                                          size |-> REQ_MSG_SIZE, off |-> 0])]
    /\ ChildExits(c)
    /\ UNCHANGED <<ChildUnchanged, offset, faults>>

(* resp is prepared as RESP_MT_END, but the address of the parameter req   *)
(* is passed: the message type the client sees is the pointer itself.      *)
ChildSendEnd(c) ==
    /\ child[c] = "end"
    /\ \/ /\ cqState[c] = "live" /\ HasRoom(c, REQ_MSG_SIZE)
          /\ cq' = [cq EXCEPT ![c] = Append(@, [mtype |-> StackAddress,
                                                size |-> REQ_MSG_SIZE, off |-> 0])]
       \/ /\ cqState[c] = "removed"
          /\ UNCHANGED cq
    /\ ChildExits(c)
    /\ UNCHANGED <<ChildUnchanged, offset, faults>>

ChildStep(c) ==
    \/ ChildOpen(c) \/ ChildSendFailure(c) \/ ChildSendData(c)
    \/ ChildEndOfFile(c) \/ ChildSendEnd(c)

-------------------------------------------------------------------------------
(* The client.                                                             *)

ClientGoto(c, pc) == cpc' = [cpc EXCEPT ![c] = pc]

ClientUnchanged == <<serverVars, handlerVars, sigPending, serverQExists, childVars, faults>>

(* Without a server queue the client exits; the user runs it again later.  *)
ClientMsgget(c) ==
    /\ cpc[c] = "msgget"
    /\ serverQExists
    /\ ClientGoto(c, "create")
    /\ UNCHANGED <<ClientUnchanged, serverQ, cq, cqState, mtype, numTotal, numMsgs, got>>

(* The private queue, and atexit(removeQueue).                             *)
ClientCreate(c) ==
    /\ cpc[c] = "create"
    /\ cqState' = [cqState EXCEPT ![c] = "live"]
    /\ ClientGoto(c, "msgsnd")
    /\ UNCHANGED <<ClientUnchanged, serverQ, cq, mtype, numTotal, numMsgs, got>>

ClientMsgsnd(c) ==
    /\ cpc[c] = "msgsnd"
    /\ \/ /\ serverQExists /\ ServerHasRoom
          /\ serverQ' = Append(serverQ, c)
          /\ ClientGoto(c, "msgrcv")
       \/ /\ ~serverQExists
          /\ ClientGoto(c, "exit")
          /\ UNCHANGED serverQ
    /\ UNCHANGED <<ClientUnchanged, cq, cqState, mtype, numTotal, numMsgs, got>>

(* What both calls of msgrcv() do with the message at the head.            *)
Receive(c, m) ==
    /\ cq' = [cq EXCEPT ![c] = Tail(@)]
    /\ mtype' = [mtype EXCEPT ![c] = m.mtype]
    /\ got' = [got EXCEPT ![c] = IF m.mtype = RESP_MT_DATA THEN Append(@, m.off) ELSE @]

ClientFirst(c) ==
    /\ cpc[c] = "msgrcv"
    /\ cq[c] # <<>>
    /\ LET m == Head(cq[c]) IN
        /\ m.mtype # RESP_MT_FAILURE
        /\ Receive(c, m)
        /\ numTotal' = [numTotal EXCEPT ![c] = m.size]
        /\ numMsgs' = [numMsgs EXCEPT ![c] = 1]
        /\ ClientGoto(c, IF m.mtype = RESP_MT_DATA THEN "more" ELSE "report")
    /\ UNCHANGED <<ClientUnchanged, serverQ, cqState>>

(* The failure message: the queue is removed here and again by removeQueue.*)
ClientRefused(c) ==
    /\ cpc[c] = "msgrcv"
    /\ cq[c] # <<>>
    /\ Head(cq[c]).mtype = RESP_MT_FAILURE
    /\ mtype' = [mtype EXCEPT ![c] = RESP_MT_FAILURE]
    /\ cq' = [cq EXCEPT ![c] = <<>>]
    /\ cqState' = [cqState EXCEPT ![c] = "removed"]
    /\ ClientGoto(c, "exit")
    /\ UNCHANGED <<ClientUnchanged, serverQ, numTotal, numMsgs, got>>

ClientNext(c) ==
    /\ cpc[c] = "more"
    /\ cq[c] # <<>>
    /\ LET m == Head(cq[c]) IN
        /\ Receive(c, m)
        /\ numTotal' = [numTotal EXCEPT ![c] = @ + m.size]
        /\ numMsgs' = [numMsgs EXCEPT ![c] = @ + 1]
        /\ ClientGoto(c, IF m.mtype = RESP_MT_DATA THEN "more" ELSE "report")
    /\ UNCHANGED <<ClientUnchanged, serverQ, cqState>>

(* exit() runs removeQueue().                                              *)
ClientExit(c) ==
    /\ cpc[c] \in {"report", "exit"}
    /\ cqState' = [cqState EXCEPT ![c] = "removed"]
    /\ cq' = [cq EXCEPT ![c] = <<>>]
    /\ ClientGoto(c, IF cpc[c] = "report" THEN "ok" ELSE "failed")
    /\ UNCHANGED <<ClientUnchanged, serverQ, mtype, numTotal, numMsgs, got>>

ClientStep(c) ==
    \/ ClientMsgget(c) \/ ClientCreate(c) \/ ClientMsgsnd(c) \/ ClientFirst(c)
    \/ ClientRefused(c) \/ ClientNext(c) \/ ClientExit(c)

-------------------------------------------------------------------------------
(* Faults.                                                                 *)

Ended(c) == cpc[c] \in {"ok", "failed", "killed"}

(* A client that dies by a signal leaves its queue in the kernel.          *)
ClientKilled(c) ==
    /\ ~Ended(c)
    /\ faults < MaxFaults
    /\ faults' = faults + 1
    /\ ClientGoto(c, "killed")
    /\ UNCHANGED <<serverVars, handlerVars, sigPending, serverQ, serverQExists, cq,
                   cqState, mtype, numTotal, numMsgs, got, childVars>>

(* The user removes the queue of a client that was killed (ipcrm).         *)
CleanUp(c) ==
    /\ cpc[c] = "killed"
    /\ cqState[c] = "live"
    /\ cqState' = [cqState EXCEPT ![c] = "removed"]
    /\ cq' = [cq EXCEPT ![c] = <<>>]
    /\ UNCHANGED <<ClientUnchanged, cpc, serverQ, mtype, numTotal, numMsgs, got>>

ChildKilled(c) ==
    /\ child[c] \in {"open", "data", "end", "failure"}
    /\ faults < MaxFaults
    /\ faults' = faults + 1
    /\ ChildExits(c)
    /\ UNCHANGED <<ChildUnchanged, cq, offset>>

(* The server dies: the request in its hands is lost, its queue stays, and *)
(* its children go on as orphans whose exit nobody has to collect.         *)
ServerKilled ==
    /\ spc \notin {"down", "killed"}
    /\ faults < MaxFaults
    /\ faults' = faults + 1
    /\ spc' = "killed"
    /\ sreq' = NoReq
    /\ hpc' = "off" /\ sigPending' = FALSE
    /\ child' = [c \in Clients |-> IF child[c] = "zombie" THEN "gone" ELSE child[c]]
    /\ parent' = [c \in Clients |-> FALSE]
    /\ UNCHANGED <<errno, savedErrno, serverQ, serverQExists, clientVars, cq,
                   cqState, offset>>

(* A new server is started in its place.  (Only while the old queue is     *)
(* there: after an ipcrm the clients would have to find the new one.)      *)
ServerRestart ==
    /\ spc = "killed"
    /\ serverQExists
    /\ spc' = "sigaction"
    /\ errno' = "0"
    /\ UNCHANGED <<sreq, handlerVars, sigPending, serverQ, serverQExists,
                   clientVars, cq, cqState, childVars, faults>>

(* Somebody removes the server's queue (ipcrm).                            *)
QueueRemoved ==
    /\ serverQExists
    /\ spc \notin {"sigaction", "msgget"}
    /\ faults < MaxFaults
    /\ faults' = faults + 1
    /\ serverQExists' = FALSE /\ serverQ' = <<>>
    /\ UNCHANGED <<serverVars, handlerVars, sigPending, clientVars, cq, cqState, childVars>>

Fault ==
    \/ ForkFails \/ ServerKilled \/ ServerRestart \/ QueueRemoved
    \/ \E c \in Clients : ClientKilled(c) \/ CleanUp(c) \/ ChildKilled(c) \/ ChildReadFails(c)

(* All clients have ended and the server waits for the next request.       *)
Idle ==
    /\ \A c \in Clients : Ended(c) /\ child[c] \in {"none", "gone"}
    /\ ServerAt("msgrcv") /\ ~sigPending
    /\ UNCHANGED vars

Next ==
    \/ ServerMain \/ Handler \/ Fault \/ Idle
    \/ \E c \in Clients : ChildStep(c) \/ ClientStep(c)

Spec == Init /\ [][Next]_vars

FairSpec ==
    /\ Spec
    /\ WF_vars(ServerMain) /\ WF_vars(Handler)
    /\ \A c \in Clients : WF_vars(ChildStep(c)) /\ WF_vars(ClientStep(c))

-------------------------------------------------------------------------------
(* Properties.                                                             *)

(* Every variable stays in its type, and no queue exceeds its limit.       *)
TypeOK ==
    /\ spc \in ServerPc /\ sreq \in Clients \cup {NoReq}
    /\ {errno, savedErrno} \subseteq {"0", "EINTR", "ECHILD", "EAGAIN", "EIDRM"}
    /\ hpc \in {"off", "waitpid", "restore"} /\ sigPending \in BOOLEAN
    /\ serverQ \in Seq(Clients) /\ Len(serverQ) * REQ_MSG_SIZE <= MSGMNB
    /\ serverQExists \in BOOLEAN
    /\ cpc \in [Clients -> ClientPc]
    /\ cqState \in [Clients -> {"none", "live", "removed"}]
    /\ \A c \in Clients : cq[c] \in Seq(Message) /\ QueuedBytes(cq[c]) <= MSGMNB
    /\ mtype \in [Clients -> {0, RESP_MT_FAILURE, RESP_MT_DATA, RESP_MT_END, StackAddress}]
    /\ numTotal \in [Clients -> Nat] /\ numMsgs \in [Clients -> Nat]
    /\ \A c \in Clients : got[c] \in Seq(Nat)
    /\ child \in [Clients -> ChildState] /\ offset \in [Clients -> Nat]
    /\ \A c \in Clients : offset[c] > 0 => offset[c] <= FileBytes[c]
    /\ parent \in [Clients -> BOOLEAN]
    /\ faults \in 0..MaxFaults

(* SIGCHLD is not queued, so children that end together may send one       *)
(* signal; still a zombie of the server always has a signal pending or a   *)
(* handler still looking for it (svmsg_file_server.c:4-12).                *)
ZombieIsNoticed ==
    \A c \in OwnChildren({"zombie"}) : sigPending \/ hpc = "waitpid"

(* The server leaves its loop only when its queue is gone: no signal at    *)
(* any moment, between msgrcv and the test of errno included, ends it.     *)
StopsOnlyWithoutQueue == [][spc' = "down" => spc = "down" \/ ~serverQExists]_vars

(* The request of c is somewhere: queued, in the server's hands, served by *)
(* a child, or answered by a message that ends the client's loop.          *)
Tracked(c) ==
    \/ \E i \in DOMAIN serverQ : serverQ[i] = c
    \/ spc = "fork" /\ sreq = c
    \/ child[c] \in {"open", "data", "end", "failure"}
    \/ \E i \in DOMAIN cq[c] : cq[c][i].mtype # RESP_MT_DATA

Forgotten == {c \in Clients : cpc[c] \in {"msgrcv", "more"} /\ ~Tracked(c)}

(* While the queue is there, a crash or a failing fork loses at most the   *)
(* one request that was being handled; restarts lose none.                 *)
LossIsBounded == serverQExists => Cardinality(Forgotten) <= faults

(* The offsets of the chunks of the file c asked for.                      *)
Offsets(c) ==
    IF FileBytes[c] <= 0 THEN <<>>
    ELSE [i \in 1..((FileBytes[c] - 1) \div RESP_MSG_SIZE + 1) |-> (i - 1) * RESP_MSG_SIZE]

(* What a client received and what is on its way is the front of its file, *)
(* chunk after chunk, whoever fails or is killed: no chunk is lost, sent   *)
(* twice or overtaken (svmsg_file_server.c:33-39).                         *)
InOrder ==
    \A c \in Clients :
        /\ \A i \in 1..Len(got[c]) :
               got[c][i] = (i - 1) * RESP_MSG_SIZE /\ got[c][i] < FileBytes[c]
        /\ \A i \in 1..Len(cq[c]) : cq[c][i].mtype = RESP_MT_DATA =>
               /\ cq[c][i].off = (Len(got[c]) + i - 1) * RESP_MSG_SIZE
               /\ cq[c][i].off < FileBytes[c]

(* Without faults every client gets its whole file, or the refusal when    *)
(* there is no such file, and the child that served it is collected.       *)
AllServed ==
    \A c \in Clients :
        <>(\/ faults > 0
           \/ /\ cpc[c] = IF FileBytes[c] = -1 THEN "failed" ELSE "ok"
              /\ got[c] = Offsets(c)
              /\ child[c] = "gone")

(* Whatever fails, a child whose client's queue is gone comes to its end:  *)
(* it does not stay blocked in msgsnd.                                     *)
ChildGivesUp ==
    \A c \in Clients :
        cqState[c] = "removed" ~> child[c] \in {"none", "zombie", "gone"}
===============================================================================

------------------------------ MODULE MCObjects ------------------------------
(***************************************************************************)
(* Small instances of four kinds of programs that meet only in an object   *)
(* the kernel keeps: shared memory, a file, message queues and datagrams.  *)
(* They share nothing else: a behaviour runs one kind, and the others stay *)
(* in one of their initial states.                                         *)
(***************************************************************************)
EXTENDS Integers, Sequences, TLC

CONSTANTS Creators, Writers, Readers, Text, Sizes, MaxSize, Page,
          Procs, Old, OldSize, BlockSize,
          Clients, None, Lengths, BUF_SIZE, MaxFaults,
          Senders, Receivers, Creatings, Sendings, Receivings, MaxText, Capacity

CONSTANTS w1, w2

MCText == w1 :> <<1, 1, 1>> @@ w2 :> <<2>>
MCLengths == w1 :> <<3, 1>> @@ w2 :> <<0>>
MCCreatings == {[creat |-> b, excl |-> b] : b \in BOOLEAN}
MCSendings == {[type |-> 0, len |-> 2, nowait |-> TRUE],
               [type |-> 1, len |-> 2, nowait |-> FALSE],
               [type |-> 2, len |-> 0, nowait |-> TRUE]}
MCReceivings == {[type |-> t, max |-> 1, noerror |-> t = 1, nowait |-> t # 0] :
                     t \in {-2, 0, 1}}

VARIABLES
    program,                                       \* the kind that runs
    shmPc, exists, size, mem, len, copied, printed, raced, whole, due,
    prog, filePc, file, off, at, n,
    net, cpc, i, answers, spc, caddr, buf, lost, duplicated, faults,
    posix, created, queue, toolPc, args, sent, taken

Shm   == INSTANCE PosixShm WITH pc <- shmPc
File  == INSTANCE SharedFile WITH pc <- filePc
Ucase == INSTANCE UcaseUdp
Queue == INSTANCE MsgQueueTools WITH exists <- created, pc <- toolPc

ASSUME ObjectsAssumption ==
    /\ Shm!ShmAssumption /\ File!SharedFileAssumption
    /\ Ucase!UcaseAssumption /\ Queue!QueueAssumption

shmVars   == <<shmPc, exists, size, mem, len, copied, printed, raced, whole, due>>
fileVars  == <<prog, filePc, file, off, at, n>>
ucaseVars == <<net, cpc, i, answers, spc, caddr, buf, lost, duplicated, faults>>
queueVars == <<posix, created, queue, toolPc, args, sent, taken>>
vars == <<program, shmVars, fileVars, ucaseVars, queueVars>>

Init ==
    /\ program \in {"shm", "file", "ucase", "queue"}
    /\ Shm!Init /\ File!Init /\ Ucase!Init /\ Queue!Init
    /\ program # "file" => \A p \in Procs : prog[p] = "append"
    /\ program # "queue" =>
           ~posix /\ \A p \in Queue!Tools :
               IF p \in Creators THEN args[p].creat ELSE args[p].type = 0

ShmRuns   == program = "shm" /\ UNCHANGED <<program, fileVars, ucaseVars, queueVars>>
FileRuns  == program = "file" /\ UNCHANGED <<program, shmVars, ucaseVars, queueVars>>
UcaseRuns == program = "ucase" /\ UNCHANGED <<program, shmVars, fileVars, queueVars>>
QueueRuns == program = "queue" /\ UNCHANGED <<program, shmVars, fileVars, ucaseVars>>

Next ==
    \/ ShmRuns /\ Shm!Next
    \/ FileRuns /\ File!Next
    \/ UcaseRuns /\ Ucase!Next
    \/ QueueRuns /\ Queue!Next

(* Programs that can run are run (those of the message queue, of which     *)
(* each takes two steps at most, until none can); the network owes nobody  *)
(* anything.                                                               *)
FairSpec ==
    /\ Init /\ [][Next]_vars
    /\ WF_vars(UcaseRuns /\ Ucase!ServerStep)
    /\ \A c \in Clients : WF_vars(UcaseRuns /\ Ucase!ClientStep(c))
    /\ WF_vars(QueueRuns /\ Queue!Next)

(* Every variable stays in its type.                                       *)
TypeOK == Shm!TypeOK /\ File!TypeOK /\ Ucase!TypeOK /\ Queue!TypeOK

(* Without synchronisation a text or block is damaged only by a process    *)
(* that came between another one's steps, and never otherwise: resizing    *)
(* and copying of the shared memory (pshm_write.c:27-48, pshm_read.c:23-42)*)
(* and lseek() and write() of the file (atomic_append.c:36-50).            *)
MixedOnlyIfRaced == Shm!MixedOnlyIfRaced /\ File!MixedOnlyIfRaced

(* Each client prints the answers to its own messages, in their order,     *)
(* unless the network duplicated one (i6d_ucase_cl.c:28-41); and a message *)
(* queue loses, doubles and cuts nothing but what a receiver's -e cuts     *)
(* (svmsg_send.c:73, svmsg_receive.c:81, pmsg_receive.c:66).               *)
MessagesIntact == Ucase!AnswersMatch /\ Queue!MessagesIntact

(* A client waits for ever only for a datagram of its own that was lost, or*)
(* for a server that has died (i6d_ucase_cl.c:34); sender and receiver of a*)
(* message queue wait for each other only if the receiver selects by type  *)
(* (svmsg_receive.c:59).                                                   *)
AllAnswered ==
    /\ program = "ucase" => Ucase!AllAnswered
    /\ program = "queue" => Queue!StuckOnlyBySelection
===============================================================================

---------------------------- MODULE MsgQueueTools ----------------------------
(***************************************************************************)
(* TLPI/chapter46/svmsg_create.c, svmsg_send.c and svmsg_receive.c, and    *)
(* chapter52/pmsg_create.c, pmsg_send.c and pmsg_receive.c: programs that  *)
(* create one message queue, put one message there, or take one, started   *)
(* in any order with any options.  The queue outlives them.                *)
(***************************************************************************)
EXTENDS Integers, Sequences, SequencesExt

CONSTANTS
    Creators, Senders, Receivers,
    Creatings,   \* command lines of creators
    Sendings,    \* of senders
    Receivings,  \* and of receivers
    MaxText,     \* longest message the queue or the program's buffer takes
    Capacity     \* messages the queue holds

QueueAssumption ==
    /\ Creators \cap Senders = {} /\ Creators \cap Receivers = {}
    /\ Senders \cap Receivers = {}
    /\ Creatings \subseteq [creat : BOOLEAN, excl : BOOLEAN]
    /\ Sendings \subseteq [type : Int, len : Nat, nowait : BOOLEAN]
    /\ Receivings \subseteq [type : Int, max : Nat, noerror : BOOLEAN, nowait : BOOLEAN]
    /\ MaxText \in Nat /\ Capacity \in Nat \ {0}

VARIABLES
    posix,       \* the programs of chapter 52
    exists, queue,
    pc,          \* "start", "waiting", or how the program ended
    args,        \* its command line
    sent,        \* the messages put into the queue, in that order
    taken        \* those taken from it, as their receivers saw them

vars == <<posix, exists, queue, pc, args, sent, taken>>

Tools == Creators \cup Senders \cup Receivers
Types == {s.type : s \in Sendings}

Init ==
    /\ posix \in BOOLEAN
    /\ exists = FALSE /\ queue = <<>>
    /\ pc = [p \in Tools |-> "start"]
    /\ \E c \in [Creators -> Creatings], s \in [Senders -> Sendings],
          r \in [Receivers -> Receivings] :
        args = [p \in Tools |-> IF p \in Creators THEN c[p]
                                ELSE IF p \in Senders THEN s[p] ELSE r[p]]
    /\ sent = <<>> /\ taken = <<>>

-------------------------------------------------------------------------------
Ends(p, how) == pc' = [pc EXCEPT ![p] = how]

(* msgget() or mq_open(): with O_EXCL the queue must be new.               *)
Opens(p, creat, excl) ==
    IF IF exists THEN creat /\ excl ELSE ~creat
    THEN Ends(p, "failed") /\ UNCHANGED exists
    ELSE Ends(p, "done") /\ exists' = TRUE

(* svmsg_create.c sets neither flags nor numKeyFlags before it adds to     *)
(* them: it may refuse its command line, create or not create, whatever it *)
(* was asked for, but -c and -x always take effect.                        *)
SvCreates(p) ==
    \/ Ends(p, "usage") /\ UNCHANGED exists
    \/ \E creat, excl \in BOOLEAN :
        /\ args[p].creat => creat
        /\ args[p].excl => excl
        /\ Opens(p, creat, excl)

PosixCreates(p) == Opens(p, args[p].creat, args[p].excl)

Create(p) ==
    /\ p \in Creators /\ pc[p] = "start"
    /\ IF posix THEN PosixCreates(p) ELSE SvCreates(p)
    /\ UNCHANGED <<posix, queue, args, sent, taken>>

(* The option loops of chapter 52 run while getopt() returns -1: without   *)
(* an option pmsg_send turns for ever and pmsg_receive shows its usage; -n *)
(* leaves the loop without effect.                                         *)
Spins(p) ==
    /\ posix /\ p \notin Creators /\ pc[p] = "start" /\ ~args[p].nowait
    /\ \/ p \in Senders /\ Ends(p, "spinning")
       \/ p \in Receivers /\ Ends(p, "usage")
    /\ UNCHANGED <<posix, exists, queue, args, sent, taken>>

Runs(p) == pc[p] = "waiting" \/ (pc[p] = "start" /\ (posix => args[p].nowait))
NoWait(p) == args[p].nowait /\ ~posix

WaitsOrFails(p) ==
    /\ IF NoWait(p) THEN Ends(p, "failed") ELSE pc[p] = "start" /\ Ends(p, "waiting")
    /\ UNCHANGED <<posix, exists, queue, args, sent, taken>>

Sendable(s) == args[s].len <= MaxText /\ (IF posix THEN 0 ELSE 1) <= args[s].type

(* No queue, a message too long, or a type that is not positive.           *)
Fails(p) ==
    /\ p \in Senders \cup Receivers /\ Runs(p)
    /\ \/ pc[p] = "start" /\ ~exists
       \/ p \in Senders /\ ~Sendable(p)
    /\ Ends(p, "failed")
    /\ UNCHANGED <<posix, exists, queue, args, sent, taken>>

Message(s) == [from |-> s, type |-> args[s].type, len |-> args[s].len]
Sends(s) == /\ s \in Senders /\ Runs(s) /\ exists
            /\ Sendable(s)

(* msgsnd() and mq_send().                                                 *)
Send(s) ==
    /\ Sends(s) /\ Len(queue) < Capacity
    /\ queue' = Append(queue, Message(s))
    /\ sent' = Append(sent, Message(s))
    /\ Ends(s, "done")
    /\ UNCHANGED <<posix, exists, args, taken>>

SendFull(s) == Sends(s) /\ Len(queue) = Capacity /\ WaitsOrFails(s)

(* Of the messages msgrcv() may take by type, and mq_receive() by priority,*)
(* the first.                                                              *)
Lowest(i) == \A j \in DOMAIN queue : queue[i].type <= queue[j].type
Highest(i) == \A j \in DOMAIN queue : queue[i].type >= queue[j].type
Selected(r) ==
    LET t == args[r].type
        ok == {i \in DOMAIN queue :
                  \/ posix /\ Highest(i)
                  \/ ~posix /\ \/ t = 0
                               \/ t > 0 /\ queue[i].type = t
                               \/ t < 0 /\ Lowest(i) /\ queue[i].type <= -t}
    IN {i \in ok : \A j \in ok : i <= j}

Receives(r) == r \in Receivers /\ Runs(r) /\ exists

(* mq_receive() always has room.                                           *)
TooLong(r, i) == ~posix /\ queue[i].len > args[r].max /\ ~args[r].noerror

Receive(r) ==
    /\ Receives(r)
    /\ \E i \in Selected(r) :
        IF TooLong(r, i)
        THEN /\ Ends(r, "failed")
             /\ UNCHANGED <<queue, taken>>
        ELSE /\ taken' = Append(taken, [by |-> r, msg |-> queue[i],
                    got |-> IF posix \/ queue[i].len <= args[r].max
                            THEN queue[i].len ELSE args[r].max])
             /\ queue' = RemoveAt(queue, i)
             /\ Ends(r, "done")
    /\ UNCHANGED <<posix, exists, args, sent>>

ReceiveNone(r) == Receives(r) /\ Selected(r) = {} /\ WaitsOrFails(r)

Step(p) == \/ Create(p) \/ Spins(p) \/ Fails(p)
           \/ Send(p) \/ SendFull(p) \/ Receive(p) \/ ReceiveNone(p)

Next == \E p \in Tools : Step(p)

Spec == Init /\ [][Next]_vars

-------------------------------------------------------------------------------
Messages == [from : Senders, type : Types, len : Nat]

TypeOK ==
    /\ posix \in BOOLEAN /\ exists \in BOOLEAN
    /\ queue \in Seq(Messages) /\ Len(queue) <= Capacity
    /\ pc \in [Tools -> {"start", "waiting", "spinning", "usage", "failed", "done"}]
    /\ sent \in Seq(Messages) /\ Len(sent) = Len(queue) + Len(taken)

SentBefore(m, n) == \E a, b \in DOMAIN sent : a < b /\ sent[a] = m /\ sent[b] = n

(* svmsg_send.c:73 and svmsg_receive.c:81: what a sender put is in the     *)
(* queue or with one receiver, whole unless that one used -e; a receive    *)
(* that fails takes nothing, and messages of one type are taken in the     *)
(* order in which they were put.                                           *)
MessagesIntact ==
    LET all == [i \in DOMAIN taken |-> taken[i].msg] \o queue IN
    /\ \A s \in Senders : pc[s] = "done" => \E i \in DOMAIN all : all[i].from = s
    /\ \A i \in DOMAIN all : \E a \in DOMAIN sent : all[i] = sent[a]
    /\ \A i, j \in DOMAIN all : i < j =>
           /\ all[i].from # all[j].from
           /\ all[i].type = all[j].type => SentBefore(all[i], all[j])
    /\ \A i \in DOMAIN taken :
           taken[i].got < taken[i].msg.len => args[taken[i].by].noerror

(* svmsg_receive.c:59-61: a sender and a receiver wait for each other for  *)
(* ever, the one for room and the other for its message, only if that      *)
(* receiver selects by type and the queue is full of what it does not want.*)
StuckOnlyBySelection ==
    []<>(\A s \in Senders, r \in Receivers :
             pc[s] = "waiting" /\ pc[r] = "waiting" =>
                 ~posix /\ args[r].type # 0 /\ Len(queue) = Capacity)
===============================================================================

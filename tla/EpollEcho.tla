------------------------------ MODULE EpollEcho ------------------------------
(***************************************************************************)
(* hplsp/chapter9/9_8_TCP_UDP.cpp: one thread that echoes what it gets on  *)
(* TCP connections and on a UDP socket of the same port.  All descriptors  *)
(* are edge-triggered: epoll reports one when something arrives at it, not *)
(* because something is left there.                                        *)
(*                                                                         *)
(* A TCP client is also the name of the descriptor of its connection, and  *)
(* data is counted in blocks of TCP_BUFFER_SIZE.                           *)
(***************************************************************************)
EXTENDS Integers, Sequences

CONSTANTS TcpClients,
          Datagrams,     \* the datagrams clients may send, each once
          Empty,         \* those that hold no byte
          MaxSend,       \* bound: blocks each TCP client sends
          SendBuffer,    \* bound: answers a connection holds until they are read
          Backlog        \* listen()'s limit

EchoAssumption ==
    /\ {"lfd", "udpfd", "none"} \cap TcpClients = {} /\ TcpClients \cap Datagrams = {}
    /\ Empty \subseteq Datagrams
    /\ MaxSend \in [TcpClients -> Nat] /\ SendBuffer \in Nat \ {0} /\ Backlog \in Nat \ {0}

VARIABLES
    state,      \* each connection: "out", "queued", "open", "closed"
    peer,       \* its client: "up", "half" closed, "gone", "probed" since, "reset"
    backlog,    \* connections accept() has not returned
    inbox,      \* blocks recv() has not returned
    outbox,     \* blocks the client has not read
    sent,       \* blocks the client has sent
    dgrams,     \* datagrams recvfrom() has not returned
    unsent,     \* datagrams not sent yet
    edges,      \* descriptors epoll_wait() will report
    evlist,     \* descriptors with an event still to be handled
    reading,    \* the connection of the event being handled, or "none"
    pc,         \* "wait", "events", "aborted", "sigpipe"
    behind      \* connections and datagrams that came behind another one for
                \* which no event is being handled

tcp == <<state, peer, backlog, inbox, outbox, sent>>
udp == <<dgrams, unsent>>
epoll == <<edges, evlist, reading>>
vars == <<tcp, udp, epoll, pc, behind>>

Fds == {"lfd", "udpfd"} \cup TcpClients
Dead == pc \in {"aborted", "sigpipe"}

Init ==
    /\ state = [c \in TcpClients |-> "out"]
    /\ peer = [c \in TcpClients |-> "up"]
    /\ inbox = [c \in TcpClients |-> 0] /\ outbox = inbox
    /\ sent = inbox
    /\ backlog = <<>> /\ dgrams = <<>>
    /\ unsent = Datagrams
    /\ edges = {} /\ evlist = {} /\ reading = "none" /\ pc = "wait" /\ behind = {}

-------------------------------------------------------------------------------
(* The kernel and the clients.                                             *)

Readable(f) ==
    \/ f = "lfd" /\ backlog # <<>>
    \/ f = "udpfd" /\ dgrams # <<>>
    \/ f \in TcpClients /\ state[f] = "open" /\ (inbox[f] > 0 \/ peer[f] # "up")

(* Something arrives at a connection: epoll knows it once it is accepted.  *)
Arrival(c) == edges' = IF state[c] = "open" THEN edges \cup {c} ELSE edges

(* x joins the queue of f, which the event being handled, if it is one of  *)
(* f, makes shorter by one: those that still wait then are before x.       *)
Joins(x, queue, f) ==
    behind' = IF queue = <<>> \/ (f \in evlist /\ Len(queue) = 1)
              THEN behind ELSE behind \cup {x}

Connected(c) == state[c] \in {"queued", "open"}

Connect(c) ==
    /\ state[c] = "out" /\ Len(backlog) < Backlog
    /\ state' = [state EXCEPT ![c] = "queued"]
    /\ backlog' = Append(backlog, c)
    /\ edges' = edges \cup {"lfd"}
    /\ Joins(c, backlog, "lfd")
    /\ UNCHANGED <<peer, inbox, outbox, sent, udp, evlist, reading, pc>>

SendBlock(c) ==
    /\ Connected(c) /\ peer[c] = "up" /\ sent[c] < MaxSend[c]
    /\ sent' = [sent EXCEPT ![c] = @ + 1]
    /\ inbox' = [inbox EXCEPT ![c] = @ + 1]
    /\ Arrival(c)
    /\ UNCHANGED <<state, peer, backlog, outbox, udp, evlist, reading, pc, behind>>

(* shutdown() of the sending half, close(), or the answer of a closed      *)
(* connection to more data.                                                *)
PeerBecomes(c, how) ==
    /\ Connected(c)
    /\ \/ how = "half" /\ peer[c] = "up"
       \/ how = "gone" /\ peer[c] \in {"up", "half"} /\ outbox[c] = 0
       \/ how = "reset" /\ peer[c] \in {"up", "half"} /\ outbox[c] > 0
       \/ how = "reset" /\ peer[c] = "probed"
    /\ peer' = [peer EXCEPT ![c] = how]
    /\ IF how = "gone" /\ peer[c] = "half" THEN UNCHANGED edges ELSE Arrival(c)
    /\ UNCHANGED <<state, backlog, inbox, outbox, sent, udp, evlist, reading, pc, behind>>

ReadAnswer(c) ==
    /\ outbox[c] > 0 /\ peer[c] \in {"up", "half"}
    /\ outbox' = [outbox EXCEPT ![c] = @ - 1]
    /\ UNCHANGED <<state, peer, backlog, inbox, sent, udp, epoll, pc, behind>>

SendDatagram(d) ==
    /\ d \in unsent
    /\ unsent' = unsent \ {d}
    /\ dgrams' = Append(dgrams, d)
    /\ edges' = edges \cup {"udpfd"}
    /\ Joins(d, dgrams, "udpfd")
    /\ UNCHANGED <<tcp, evlist, reading, pc>>

Client == \/ \E c \in TcpClients : \/ Connect(c) \/ SendBlock(c) \/ ReadAnswer(c)
                                   \/ \E how \in {"half", "gone", "reset"} : PeerBecomes(c, how)
          \/ \E d \in Datagrams : SendDatagram(d)

-------------------------------------------------------------------------------
(* The server: epoll_wait() and one case per kind of descriptor.           *)

(* What is not readable any more is not reported.                          *)
EpollWait ==
    /\ pc = "wait"
    /\ evlist' = {f \in edges : Readable(f)}
    /\ evlist' # {}
    /\ edges' = {} /\ pc' = "events"
    /\ UNCHANGED <<tcp, udp, reading>>

(* The events of one call may be in any order.                             *)
Event(f) == pc = "events" /\ reading = "none" /\ f \in evlist

NextEvent(f) ==
    /\ evlist' = evlist \ {f}
    /\ pc' = IF evlist' = {} THEN "wait" ELSE "events"
    /\ reading' = "none"

(* addfd() reports at once what the connection already holds.              *)
AddFd(c) ==
    edges' = IF inbox[c] > 0 \/ peer[c] # "up" THEN edges \cup {c} ELSE edges

Accept ==
    /\ Event("lfd")
    /\ LET cfd == Head(backlog) IN
        /\ state' = [state EXCEPT ![cfd] = "open"]
        /\ AddFd(cfd)
    /\ backlog' = Tail(backlog)
    /\ NextEvent("lfd")
    /\ UNCHANGED <<peer, inbox, outbox, sent, udp>>

(* Both results are asserted to be positive.                               *)
Recvfrom ==
    /\ Event("udpfd")
    /\ dgrams' = Tail(dgrams)
    /\ \/ /\ Head(dgrams) \in Empty
          /\ pc' = "aborted"
          /\ UNCHANGED <<evlist, reading>>
       \/ /\ Head(dgrams) \notin Empty
          /\ NextEvent("udpfd")
    /\ UNCHANGED <<tcp, unsent, edges>>

StartReading(c) ==
    /\ Event(c)
    /\ reading' = c
    /\ UNCHANGED <<tcp, udp, edges, evlist, pc>>

Reading(c) == pc = "events" /\ reading = c

(* send() to a client that left provokes a reset; to a reset connection it *)
(* fails or ends the process; without room it fails, which is not noticed. *)
Send(c) ==
    \/ /\ peer[c] = "reset" /\ pc' \in {"sigpipe", "events"}
       /\ UNCHANGED <<outbox, peer>>
    \/ /\ peer[c] \in {"gone", "probed"}
       /\ peer' = [peer EXCEPT ![c] = "probed"]
       /\ UNCHANGED <<outbox, pc>>
    \/ /\ peer[c] \in {"up", "half"}
       /\ outbox' = [outbox EXCEPT ![c] = IF @ < SendBuffer THEN @ + 1 ELSE @]
       /\ UNCHANGED <<peer, pc>>

(* Mutant: one block is read for each event.                               *)
X_EchoBlock(c) ==
    /\ Reading(c) /\ state[c] = "open" /\ inbox[c] > 0 /\ peer[c] \in {"up", "half"}
    /\ inbox' = [inbox EXCEPT ![c] = @ - 1]
    /\ outbox' = [outbox EXCEPT ![c] = IF @ < SendBuffer THEN @ + 1 ELSE @]
    /\ NextEvent(c)
    /\ UNCHANGED <<state, peer, backlog, sent, udp, edges>>

EchoBlock(c) ==
    /\ Reading(c) /\ state[c] = "open" /\ inbox[c] > 0
    /\ inbox' = [inbox EXCEPT ![c] = @ - 1]
    /\ Send(c)
    /\ UNCHANGED <<state, backlog, sent, udp, epoll>>

(* close() forgets the descriptor; answers under way still arrive.         *)
CloseConnection(c) ==
    /\ state' = [state EXCEPT ![c] = "closed"]
    /\ inbox' = [inbox EXCEPT ![c] = 0]
    /\ edges' = edges \ {c}
    /\ UNCHANGED <<peer, backlog, outbox, sent, udp>>

(* recv() returns 0: the loop goes on with a closed descriptor.            *)
EndOfInput(c) ==
    /\ Reading(c) /\ state[c] = "open" /\ inbox[c] = 0 /\ peer[c] # "up"
    /\ CloseConnection(c)
    /\ UNCHANGED <<evlist, reading, pc>>

(* recv() fails: a reset, or a descriptor that is closed already.          *)
RecvError(c) ==
    /\ Reading(c) /\ inbox[c] = 0
    /\ \/ /\ state[c] = "open" /\ peer[c] = "reset"
          /\ CloseConnection(c)
       \/ /\ state[c] = "closed"
          /\ UNCHANGED <<tcp, udp, edges>>
    /\ NextEvent(c)

(* Nothing left for now: the next arrival is a new edge.                   *)
WouldBlock(c) ==
    /\ Reading(c) /\ state[c] = "open" /\ inbox[c] = 0 /\ peer[c] = "up"
    /\ NextEvent(c)
    /\ UNCHANGED <<tcp, udp, edges>>

Server ==
    /\ \/ EpollWait \/ Accept \/ Recvfrom
       \/ \E c \in TcpClients : \/ StartReading(c) \/ EchoBlock(c) \/ EndOfInput(c)
                                \/ RecvError(c) \/ WouldBlock(c)
    /\ UNCHANGED behind

(* An end of the process ends its connections: nothing more is modelled.  *)
Next == ~Dead /\ (Server \/ Client)

Spec == Init /\ [][Next]_vars

-------------------------------------------------------------------------------
TypeOK ==
    /\ state \in [TcpClients -> {"out", "queued", "open", "closed"}]
    /\ peer \in [TcpClients -> {"up", "half", "gone", "probed", "reset"}]
    /\ backlog \in Seq({c \in TcpClients : state[c] = "queued"}) /\ Len(backlog) <= Backlog
    /\ \A c \in TcpClients : /\ sent[c] \in 0..MaxSend[c] /\ inbox[c] \in 0..sent[c]
                             /\ outbox[c] \in 0..SendBuffer
    /\ dgrams \in Seq(Datagrams) /\ unsent \subseteq Datagrams
    /\ edges \subseteq Fds /\ evlist \subseteq Fds
    /\ pc = "wait" => evlist = {} /\ reading = "none"
    /\ reading \in TcpClients \cup {"none"} /\ reading # "none" => reading \in evlist
    /\ pc \in {"wait", "events", "aborted", "sigpipe"}
    /\ behind \subseteq TcpClients \cup Datagrams

(* Lines 102-117: reading until recv() would block, an edge-triggered      *)
(* server never waits with data or an end of input left in a connection it *)
(* will not be told of again.                                              *)
TcpDrained ==
    \A c \in TcpClients :
        pc = "wait" /\ Readable(c) => c \in edges

(* Lines 81-92: a connection or a datagram waits, with nothing that would  *)
(* make the server take it, only if it came while another one was waiting  *)
(* that main was not about to take: both came within one event, or the     *)
(* other one was left over itself.                                         *)
StrandedOnlyByBurst ==
    /\ "lfd" \notin edges \cup evlist =>
           \A c \in TcpClients : state[c] = "queued" => c \in behind
    /\ "udpfd" \notin edges \cup evlist =>
           \A i \in DOMAIN dgrams : dgrams[i] \in behind

(* A connection whose client has ended is closed, unless the process ends. *)
EndsAreNoticed ==
    \A c \in TcpClients :
        (state[c] = "open" /\ peer[c] # "up") ~> (state[c] = "closed" \/ Dead)
=============================================================================

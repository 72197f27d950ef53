------------------------------- MODULE MCSockets -------------------------------
(***************************************************************************)
(* Small instances of four socket servers and their clients.  They share   *)
(* nothing: a behaviour runs one of them, and the others stay in one of    *)
(* their initial states.                                                   *)
(***************************************************************************)
EXTENDS Integers, Sequences, TLC

CONSTANTS Conns, MaxFds, MaxThreads, MaxSends,
          TcpClients, Datagrams, Empty, MaxSend, SendBuffer, Backlog,
          MaxOpen, Clients, Servers, Blocks, SocketRoom, MaxDeaths, None, Stale

CONSTANTS c1, c2, d1, d2, s1, s2

MCMaxSend == c1 :> 2 @@ c2 :> 0
MCMaxSend1 == c1 :> 1

VARIABLES
    program,                                       \* the one that runs
    conn, sends, unread, fin, backlog, file, armed, ready, mpc, evlist,
    fds_new, tpc, sockfd, given, closed, reused, failed,
    state, peer, echoBacklog, inbox, outbox, sent, dgrams, unsent, edges,
    echoEvents, reading, pc, behind,
    levelState, levelPeer, levelBacklog, levelInbox, levelSent, edge, evs, passedOver,
    path, spc, xfrBacklog, afd, output, cpc, size, taken, ending, sfd, socket, deaths

OneShot == INSTANCE EpollOneshot
Echo == INSTANCE EpollEcho WITH backlog <- echoBacklog, evlist <- echoEvents
Level == INSTANCE LevelTriggered WITH
    state <- levelState, peer <- levelPeer, backlog <- levelBacklog,
    inbox <- levelInbox, sent <- levelSent
Xfr  == INSTANCE UsXfr WITH backlog <- xfrBacklog

ASSUME SocketsAssumption ==
    /\ OneShot!EpollAssumption /\ Echo!EchoAssumption
    /\ Level!LevelAssumption /\ Xfr!UsXfrAssumption

oneShotVars == <<conn, sends, unread, fin, backlog, file, armed, ready, mpc,
                 evlist, fds_new, tpc, sockfd, given, closed, reused, failed>>
echoVars    == <<state, peer, echoBacklog, inbox, outbox, sent, dgrams, unsent,
                 edges, echoEvents, reading, pc, behind>>
levelVars   == <<levelState, levelPeer, levelBacklog, levelInbox, levelSent,
                 edge, evs, passedOver>>
xfrVars     == <<path, spc, xfrBacklog, afd, output, cpc, size, taken, ending,
                 sfd, socket, deaths>>
vars == <<program, oneShotVars, echoVars, levelVars, xfrVars>>

Init ==
    /\ program \in {"oneshot", "echo", "level", "us_xfr"}
    /\ OneShot!Init /\ Echo!Init /\ Level!Init /\ Xfr!Init
    /\ program # "us_xfr" => /\ path = None
                             /\ \A c, d \in Clients : size[c] = size[d]
                             /\ \A c \in Clients : ending[c] = "eof"

OneShotRuns ==
    program = "oneshot" /\ UNCHANGED <<program, echoVars, levelVars, xfrVars>>
EchoRuns ==
    program = "echo" /\ UNCHANGED <<program, oneShotVars, levelVars, xfrVars>>
LevelRuns ==
    program = "level" /\ UNCHANGED <<program, oneShotVars, echoVars, xfrVars>>
XfrRuns ==
    program = "us_xfr" /\ UNCHANGED <<program, oneShotVars, echoVars, levelVars>>

Next ==
    \/ OneShotRuns /\ OneShot!Next
    \/ EchoRuns /\ Echo!Next
    \/ LevelRuns /\ Level!Next
    \/ XfrRuns /\ Xfr!Next

Spec == Init /\ [][Next]_vars

(* The servers run; of the clients only those of us_xfr, which work off    *)
(* their input, have to.                                                   *)
FairSpec ==
    /\ Spec
    /\ WF_vars(EchoRuns /\ Echo!Server)
    /\ WF_vars(LevelRuns /\ Level!Server)
    /\ \A s \in Servers : WF_vars(XfrRuns /\ Xfr!ServerStep(s))
    /\ \A c \in Clients : WF_vars(XfrRuns /\ Xfr!ClientStep(c))

(* Every variable stays in its type.                                       *)
TypeOK == OneShot!TypeOK /\ Echo!TypeOK /\ Level!TypeOK /\ Xfr!TypeOK

(* Unless a thread read another one's socket, a number was used again under *)
(* a thread or no thread was found, no two threads have a socket, and none  *)
(* that can cause an event (9_4_EPOLLONESHOT.cpp:37 and 49-59); and input   *)
(* that arrives between the recv() that found nothing and the reset is      *)
(* found by the reset (lines 77-80).                                        *)
OneShotHolds == OneShot!OneShotHolds /\ OneShot!NotForgotten

(* "To ensure that the event will be trigered and only be trigered once"   *)
(* (9_4_EPOLLONESHOT.cpp:49): no two threads use one open socket.          *)
OneThreadPerSocket == OneShot!OneThreadPerSocket

(* No edge-triggered descriptor holds what no event will tell of: the echo *)
(* server reads each connection until recv() would block                   *)
(* (9_8_TCP_UDP.cpp:102-117).  The exceptions are a connection and a       *)
(* datagram that came while another one was waiting, as an event takes the *)
(* first one only (9_8_TCP_UDP.cpp:81-92, 9_3_epoll_LT_ET.cpp:48-50), and  *)
(* a connection for which no descriptor was left.                          *)
NothingUnread ==
    Echo!TcpDrained /\ Echo!StrandedOnlyByBurst /\ Level!StrandedOnlyByBurst

(* A connection whose client has ended or was reset is closed, unless the  *)
(* server ends (9_8_TCP_UDP.cpp:109-112, 9_3_epoll_LT_ET.cpp:55-60).       *)
EndsAreNoticed ==
    /\ program = "echo" => Echo!EndsAreNoticed
    /\ program = "level" => Level!EndsAreNoticed

(* A us_xfr server writes one client's input after the other's, never two  *)
(* of them mixed (us_xfr_sv.c:42-70).                                      *)
OneAfterTheOther == Xfr!OneAfterTheOther

(* What a client that reports success has read is written by its server,   *)
(* even one whose path another has taken, unless that server fails or some *)
(* client's input has an error (us_xfr_cl.c:28-43).                        *)
SuccessIsDelivered == program = "us_xfr" => Xfr!SuccessIsDelivered

(* "if(numRead == -1)" (us_xfr_cl.c:37-41): a client that cannot read its  *)
(* input ends with a failure.                                              *)
ReadErrorEnds == program = "us_xfr" => Xfr!ReadErrorEnds
===============================================================================

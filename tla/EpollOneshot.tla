----------------------------- MODULE EpollOneshot -----------------------------
(***************************************************************************)
(* hplsp/chapter9/9_4_EPOLLONESHOT.cpp: a server that hands every socket   *)
(* with input to a new thread.  A socket is registered edge-triggered and  *)
(* one-shot: after one event it is disarmed until its thread, having read  *)
(* everything, arms it again.  The threads get their socket through a      *)
(* variable of main, and descriptors are numbers that are used again.      *)
(***************************************************************************)
EXTENDS Integers, Sequences, FiniteSets, FiniteSetsExt

CONSTANTS Conns,        \* connections clients open
          MaxFds,       \* descriptors for connections: 1..MaxFds
          MaxThreads,   \* threads pthread_create() can make; none is joined
          MaxSends      \* bound: messages each client sends

LISTEN == 0
NONE == 0

EpollAssumption ==
    /\ NONE \notin Conns
    /\ MaxFds \in Nat \ {0} /\ MaxThreads \in Nat \ {0} /\ MaxSends \in Nat

VARIABLES
    conn,      \* each connection: "none", "queued", "open" or "closed"
    sends,     \* how many messages its client has sent
    unread,    \* how many of them the server has not read
    fin,       \* connections their clients have closed
    backlog,   \* connections waiting for accept()
    file,      \* what each descriptor refers to: a connection or NONE
    armed,     \* descriptors whose events epoll reports
    ready,     \* descriptors in epoll's ready list
    mpc,       \* main: "wait" or "event"
    evlist,    \* events main has still to handle
    fds_new,   \* main's variable that tells a new thread its socket
    tpc,       \* each thread: next statement
    sockfd,    \* what it read there
    given,     \* the descriptor it was created for
    closed,    \* threads that have closed their socket and still loop
    reused,    \* accept() has used the number of such a socket again
    failed     \* some pthread_create() failed

clientVars == <<conn, sends, unread, fin, backlog>>
epollVars  == <<armed, ready>>
mainVars   == <<mpc, evlist, fds_new, reused, failed>>
threadVars == <<tpc, sockfd, given, closed>>
vars == <<clientVars, file, epollVars, mainVars, threadVars>>

Fds == 1..MaxFds
Threads == 1..MaxThreads

Init ==
    /\ conn = [c \in Conns |-> "none"]
    /\ sends = [c \in Conns |-> 0]
    /\ unread = [c \in Conns |-> 0]
    /\ fin = {} /\ backlog = <<>>
    /\ file = [f \in Fds |-> NONE]
    /\ armed = {LISTEN} /\ ready = {}
    /\ mpc = "wait" /\ evlist = {} /\ fds_new = NONE
    /\ reused = FALSE /\ failed = FALSE
    /\ tpc = [t \in Threads |-> "none"]
    /\ sockfd = [t \in Threads |-> NONE]
    /\ given = [t \in Threads |-> NONE]
    /\ closed = {}

-------------------------------------------------------------------------------
(* The clients and what their packets do to epoll's ready list.            *)

(* The descriptor of an open connection is armed: it becomes ready.        *)
Edge(c) == ready' = ready \cup {f \in armed \cap Fds : file[f] = c}

Connect(c) ==
    /\ conn[c] = "none"
    /\ conn' = [conn EXCEPT ![c] = "queued"]
    /\ backlog' = Append(backlog, c)
    /\ ready' = ready \cup {LISTEN}
    /\ UNCHANGED <<sends, unread, fin, file, armed, mainVars, threadVars>>

Send(c) ==
    /\ conn[c] \in {"queued", "open"} /\ c \notin fin
    /\ sends[c] < MaxSends
    /\ sends' = [sends EXCEPT ![c] = @ + 1]
    /\ unread' = [unread EXCEPT ![c] = @ + 1]
    /\ Edge(c)
    /\ UNCHANGED <<conn, fin, backlog, file, armed, mainVars, threadVars>>

Finish(c) ==
    /\ conn[c] \in {"queued", "open"} /\ c \notin fin
    /\ fin' = fin \cup {c}
    /\ Edge(c)
    /\ UNCHANGED <<conn, sends, unread, backlog, file, armed, mainVars, threadVars>>

Client(c) == Connect(c) \/ Send(c) \/ Finish(c)

-------------------------------------------------------------------------------
(* main.                                                                   *)

Readable(f) == IF f = LISTEN THEN backlog # <<>>
               ELSE file[f] # NONE /\ (unread[file[f]] > 0 \/ file[f] \in fin)

(* epoll_wait() reports what is ready and still readable; edge-triggered,  *)
(* so the list is emptied, and one-shot, so connections are disarmed.      *)
EpollWait ==
    /\ mpc = "wait"
    /\ evlist' = {f \in ready : Readable(f)}
    /\ evlist' # {}
    /\ ready' = {}
    /\ armed' = armed \ (evlist' \ {LISTEN})
    /\ mpc' = "event"
    /\ UNCHANGED <<clientVars, file, fds_new, reused, failed, threadVars>>

Handled(e) ==
    /\ evlist' = evlist \ {e}
    /\ mpc' = IF evlist' = {} THEN "wait" ELSE "event"

FreeFds == {f \in Fds : file[f] = NONE}

(* One accept() for one event; the lowest free descriptor is taken, and    *)
(* adding it reports what has arrived already.                             *)
Accept ==
    /\ mpc = "event" /\ LISTEN \in evlist
    /\ Handled(LISTEN)
    /\ IF backlog # <<>> /\ FreeFds # {}
       THEN LET c == Head(backlog)
                f == Min(FreeFds) IN
            /\ backlog' = Tail(backlog)
            /\ conn' = [conn EXCEPT ![c] = "open"]
            /\ file' = [file EXCEPT ![f] = c]
            /\ armed' = armed \cup {f}
            /\ ready' = IF unread[c] > 0 \/ c \in fin THEN ready \cup {f} ELSE ready
            /\ reused' = (reused \/ \E t \in closed : sockfd[t] = f)
       ELSE UNCHANGED <<backlog, conn, file, armed, ready, reused>>
    /\ UNCHANGED <<sends, unread, fin, fds_new, failed, threadVars>>

(* The thread gets the address of fds_new, which the next event overwrites.*)
(* The result of pthread_create() is not looked at.                        *)
Dispatch(f) ==
    /\ mpc = "event" /\ f \in evlist \ {LISTEN}
    /\ Handled(f)
    /\ fds_new' = f
    /\ LET idle == {t \in Threads : tpc[t] = "none"} IN
        IF idle # {}
        THEN /\ tpc' = [tpc EXCEPT ![Min(idle)] = "args"]
             /\ given' = [given EXCEPT ![Min(idle)] = f]
             /\ UNCHANGED failed
        ELSE /\ failed' = TRUE
             /\ UNCHANGED <<tpc, given>>
    /\ UNCHANGED <<clientVars, file, epollVars, reused, sockfd, closed>>

Main == EpollWait \/ Accept \/ \E f \in Fds : Dispatch(f)

-------------------------------------------------------------------------------
(* worker.                                                                 *)

Goto(t, pc) == tpc' = [tpc EXCEPT ![t] = pc]

ReadArgs(t) ==
    /\ tpc[t] = "args"
    /\ sockfd' = [sockfd EXCEPT ![t] = fds_new]
    /\ Goto(t, "recv")
    /\ UNCHANGED <<clientVars, file, epollVars, mainVars, given, closed>>

(* Mutant: one recv() and no loop.                                         *)
Recv_Once(t) ==
    /\ tpc[t] = "recv"
    /\ file[sockfd[t]] # NONE
    /\ LET c == file[sockfd[t]] IN
        \/ /\ unread[c] > 0
           /\ unread' = [unread EXCEPT ![c] = @ - 1]
           /\ Goto(t, "done")
        \/ /\ unread[c] = 0 /\ c \in fin
           /\ Goto(t, "close")
           /\ UNCHANGED unread
        \/ /\ unread[c] = 0 /\ c \notin fin
           /\ Goto(t, "reset")
           /\ UNCHANGED unread
    /\ UNCHANGED <<conn, sends, fin, backlog, file, epollVars, mainVars, sockfd, given, closed>>

(* Mutant: a message is taken where none is left.                          *)
Recv_Minus(t) ==
    /\ tpc[t] = "recv"
    /\ file[sockfd[t]] # NONE
    /\ LET c == file[sockfd[t]] IN
        /\ c \notin fin
        /\ unread' = [unread EXCEPT ![c] = @ - 1]
        /\ Goto(t, "reset")
    /\ UNCHANGED <<conn, sends, fin, backlog, file, epollVars, mainVars, sockfd, given, closed>>

(* Data, end of file, or EAGAIN.  On a closed descriptor recv() fails with *)
(* EBADF, which the loop ignores: it spins until the number is used again. *)
Recv(t) ==
    /\ tpc[t] = "recv"
    /\ file[sockfd[t]] # NONE
    /\ LET c == file[sockfd[t]] IN
        \/ /\ unread[c] > 0
           /\ \E n \in 1..unread[c] : unread' = [unread EXCEPT ![c] = @ - n]
           /\ UNCHANGED tpc
        \/ /\ unread[c] = 0 /\ c \in fin
           /\ Goto(t, "close")
           /\ UNCHANGED unread
        \/ /\ unread[c] = 0 /\ c \notin fin
           /\ Goto(t, "reset")
           /\ UNCHANGED unread
    /\ UNCHANGED <<conn, sends, fin, backlog, file, epollVars, mainVars, sockfd, given, closed>>

(* close() also takes the descriptor out of epoll; the loop goes on.       *)
Close(t) ==
    /\ tpc[t] = "close"
    /\ LET f == sockfd[t] IN
        IF file[f] # NONE
        THEN /\ conn' = [conn EXCEPT ![file[f]] = "closed"]
             /\ file' = [file EXCEPT ![f] = NONE]
             /\ armed' = armed \ {f} /\ ready' = ready \ {f}
        ELSE UNCHANGED <<conn, file, epollVars>>
    /\ closed' = closed \cup {t}
    /\ Goto(t, "recv")
    /\ UNCHANGED <<sends, unread, fin, backlog, mainVars, sockfd, given>>

(* EPOLL_CTL_MOD arms the descriptor and looks at once whether there is    *)
(* input; then the thread ends.                                            *)
ResetOneshot(t) ==
    /\ tpc[t] = "reset"
    /\ LET f == sockfd[t] IN
        IF file[f] # NONE
        THEN /\ armed' = armed \cup {f}
             /\ ready' = IF Readable(f) THEN ready \cup {f} ELSE ready
        ELSE UNCHANGED epollVars
    /\ Goto(t, "done")
    /\ UNCHANGED <<clientVars, file, mainVars, sockfd, given, closed>>

Worker(t) == ReadArgs(t) \/ Recv(t) \/ Close(t) \/ ResetOneshot(t)

Next ==
    \/ Main
    \/ \E t \in Threads : Worker(t)
    \/ \E c \in Conns : Client(c)

Spec == Init /\ [][Next]_vars
-------------------------------------------------------------------------------
(* Properties.                                                             *)

(* Every variable stays in its type.                                       *)
TypeOK ==
    /\ conn \in [Conns -> {"none", "queued", "open", "closed"}]
    /\ sends \in [Conns -> 0..MaxSends] /\ unread \in [Conns -> 0..MaxSends]
    /\ fin \subseteq Conns /\ backlog \in Seq(Conns)
    /\ file \in [Fds -> Conns \cup {NONE}]
    /\ armed \subseteq Fds \cup {LISTEN} /\ ready \subseteq armed
    /\ mpc \in {"wait", "event"} /\ evlist \subseteq Fds \cup {LISTEN}
    /\ fds_new \in Fds \cup {NONE} /\ {reused, failed} \subseteq BOOLEAN
    /\ tpc \in [Threads -> {"none", "args", "recv", "close", "reset", "done"}]
    /\ sockfd \in [Threads -> Fds \cup {NONE}] /\ given \in [Threads -> Fds \cup {NONE}]
    /\ closed \subseteq Threads

(* Threads that are using descriptor f.                                    *)
Users(f) == {t \in Threads : tpc[t] \in {"recv", "close", "reset"} /\ sockfd[t] = f}

(* What the one-shot protocol cannot survive: a thread read another one's  *)
(* socket, the descriptor a thread closed and loops on was used again, or  *)
(* there was no thread for an event.                                       *)
Misread == \E t \in Threads : sockfd[t] \notin {NONE, given[t]}
Disturbed == Misread \/ reused \/ failed

(* Somebody is about to look at descriptor f.                              *)
Cared(f) ==
    \/ f \in ready \/ f \in evlist
    \/ \E t \in Threads : given[t] = f /\ tpc[t] \in {"args", "recv", "close", "reset"}

(* Undisturbed, a descriptor that can cause an event is not in anybody's   *)
(* hands, and never in those of two threads.                               *)
OneShotHolds ==
    ~Disturbed => \A f \in Fds :
        /\ \A t, u \in Users(f) : t = u
        /\ f \in armed => Users(f) = {} /\ f \notin evlist

(* Undisturbed, input is never forgotten: what arrives between the recv()  *)
(* that found nothing and the reset is found by the reset                  *)
(* (9_4_EPOLLONESHOT.cpp:77-80).                                           *)
NotForgotten == ~Disturbed => \A f \in Fds : Readable(f) => Cared(f)

(* "To ensure that the event will be trigered and only be trigered once"   *)
(* (9_4_EPOLLONESHOT.cpp:49): no two threads use one open socket.          *)
OneThreadPerSocket ==
    \A f \in Fds : file[f] # NONE => Cardinality(Users(f)) <= 1
===============================================================================

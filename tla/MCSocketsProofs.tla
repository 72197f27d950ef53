---------------------------- MODULE MCSocketsProofs ----------------------------
(***************************************************************************)
(* For any number of connections, descriptors, threads and messages: the   *)
(* one-shot protocol holds as long as nothing disturbs it.  For any number *)
(* of servers, clients and blocks: servers of us_xfr mix no inputs.  For   *)
(* any number of clients and datagrams: what the two epoll echo servers    *)
(* leave unread will cause an event.  The types of all four follow from    *)
(* the invariants those proofs need.                                       *)
(***************************************************************************)
EXTENDS MCSockets, WellFoundedInduction, TLAPS

(* 9_4_EPOLLONESHOT.cpp: a thread has a descriptor in its hands from the   *)
(* pthread_create() for it on.                                             *)
Holds(t, f) == given[t] = f /\ tpc[t] \in {"args", "recv", "close", "reset"}

OneShotTypes ==
    /\ file \in [OneShot!Fds -> Conns \cup {OneShot!NONE}]
    /\ unread \in [Conns -> Int] /\ backlog \in Seq(Conns)
    /\ ready \subseteq armed /\ armed \subseteq OneShot!Fds \cup {OneShot!LISTEN}
    /\ OneShot!LISTEN \in armed
    /\ evlist \subseteq OneShot!Fds \cup {OneShot!LISTEN}
    /\ mpc = "wait" => evlist = {}
    /\ tpc \in [OneShot!Threads -> {"none", "args", "recv", "close", "reset", "done"}]
    /\ sockfd \in [OneShot!Threads -> OneShot!Fds \cup {OneShot!NONE}]
    /\ given \in [OneShot!Threads -> OneShot!Fds \cup {OneShot!NONE}]
    /\ closed \subseteq OneShot!Threads
    /\ fds_new \in OneShot!Fds \cup {OneShot!NONE}

ThreadInv(t) ==
    /\ tpc[t] \in {"none", "args"} => sockfd[t] = OneShot!NONE
    /\ tpc[t] \in {"recv", "close", "reset"} => sockfd[t] \in OneShot!Fds
    /\ tpc[t] # "none" => fds_new \in OneShot!Fds /\ given[t] \in OneShot!Fds
    /\ t \in closed => tpc[t] \notin {"none", "args"}

(* An open descriptor is armed, or its event is in main's list, or one     *)
(* thread has it: that is where its input will be found.                   *)
FdInv(f) ==
    /\ f \in armed => /\ file[f] # OneShot!NONE /\ f \notin evlist
                      /\ \A t \in OneShot!Threads : ~Holds(t, f)
    /\ f \in evlist => /\ file[f] # OneShot!NONE
                       /\ \A t \in OneShot!Threads : ~Holds(t, f)
    /\ \A t, u \in OneShot!Threads : Holds(t, f) /\ Holds(u, f) => t = u
    /\ \A t \in OneShot!Threads : Holds(t, f) =>
           (file[f] = OneShot!NONE <=> t \in closed) /\ (t \in closed => tpc[t] = "recv")
    /\ file[f] # OneShot!NONE =>
           f \in armed \/ f \in evlist \/ \E t \in OneShot!Threads : Holds(t, f)
    /\ OneShot!Readable(f) =>
           f \in ready \/ f \in evlist \/ \E t \in OneShot!Threads : Holds(t, f)

OneShotInv ==
    /\ OneShotTypes
    /\ \A t \in OneShot!Threads : ThreadInv(t)
    /\ ~OneShot!Disturbed => \A f \in OneShot!Fds : FdInv(f)

LEMMA OneShotFacts ==
    /\ MaxFds \in Nat /\ MaxThreads \in Nat /\ OneShot!NONE \notin Conns
    /\ OneShot!Fds \subseteq Nat /\ OneShot!Threads \subseteq Nat
    /\ OneShot!NONE \notin OneShot!Fds /\ OneShot!LISTEN \notin OneShot!Fds
BY SocketsAssumption
DEF SocketsAssumption, OneShot!EpollAssumption, OneShot!Fds, OneShot!Threads,
    OneShot!NONE, OneShot!LISTEN

LEMMA OneShotMin ==
    ASSUME NEW S, S \subseteq Nat, S # {}
    PROVE  OneShot!Min(S) \in S
<1>1. PICK m \in S : \A k \in S : ~(<<k, m>> \in OpToRel(<, Nat))
  BY NatLessThanWellFounded, WFMin
<1>2. \A k \in S : k < m => <<k, m>> \in OpToRel(<, Nat)
  BY DEF OpToRel
<1>3. \A k, n \in Nat : ~(k < n) => n <= k
  OBVIOUS
<1>4. \A k \in S : m <= k
  BY <1>1, <1>2, <1>3, Zenon
<1> QED
  BY <1>4 DEF OneShot!Min

LEMMA OneShotInit == OneShot!Init => OneShotInv
<1> SUFFICES ASSUME OneShot!Init PROVE OneShotInv
  OBVIOUS
<1>1. OneShotTypes
  BY OneShotFacts DEF OneShot!Init, OneShotTypes, OneShot!LISTEN, OneShot!NONE
<1>2. \A t \in OneShot!Threads : ThreadInv(t)
  BY DEF OneShot!Init, ThreadInv
<1>3. \A f \in OneShot!Fds : FdInv(f)
  BY OneShotFacts DEF OneShot!Init, FdInv, Holds, OneShot!Readable
<1> QED
  BY <1>1, <1>2, <1>3 DEF OneShotInv

(* A disturbance is never undone: threads read their socket once.          *)
LEMMA DisturbanceStays ==
    ASSUME OneShotInv, OneShot!Next
    PROVE  /\ reused => reused'
           /\ failed => failed'
           /\ \A t \in OneShot!Threads : sockfd[t] # OneShot!NONE =>
                  sockfd'[t] = sockfd[t] /\ given'[t] = given[t]
<1> USE DEF OneShotInv, OneShotTypes, ThreadInv
<1>1. ASSUME UNCHANGED <<reused, failed, sockfd, given>>
      PROVE  /\ reused => reused'
             /\ failed => failed'
             /\ \A t \in OneShot!Threads : sockfd[t] # OneShot!NONE =>
                    sockfd'[t] = sockfd[t] /\ given'[t] = given[t]
  BY <1>1
<1>2. ASSUME NEW c \in Conns, OneShot!Client(c)
      PROVE  UNCHANGED <<reused, failed, sockfd, given>>
  BY <1>2
  DEF OneShot!Client, OneShot!Connect, OneShot!Send, OneShot!Finish, OneShot!mainVars,
      OneShot!threadVars
<1>3. CASE OneShot!EpollWait
  BY <1>1, <1>3 DEF OneShot!EpollWait, OneShot!threadVars
<1>4. CASE OneShot!Accept
  <2>1. reused => reused'
    BY <1>4 DEF OneShot!Accept
  <2>2. UNCHANGED <<failed, sockfd, given>>
    BY <1>4 DEF OneShot!Accept, OneShot!threadVars
  <2> QED
    BY <2>1, <2>2
<1>5. ASSUME NEW f \in OneShot!Fds, OneShot!Dispatch(f)
      PROVE  /\ reused => reused'
             /\ failed => failed'
             /\ \A t \in OneShot!Threads : sockfd[t] # OneShot!NONE =>
                    sockfd'[t] = sockfd[t] /\ given'[t] = given[t]
  <2> DEFINE idle == {t \in OneShot!Threads : tpc[t] = "none"}
             new == OneShot!Min(idle)
  <2>1. UNCHANGED <<reused, sockfd>>
    BY <1>5 DEF OneShot!Dispatch
  <2>2. CASE idle # {}
    <3>1. given' = [given EXCEPT ![new] = f] /\ UNCHANGED failed
      BY <1>5, <2>2 DEF OneShot!Dispatch
    <3>2. new \in idle
      BY <2>2, OneShotMin, OneShotFacts
    <3> HIDE DEF new
    <3> QED
      BY <2>1, <3>1, <3>2
  <2>3. CASE idle = {}
    <3>1. failed' = TRUE /\ UNCHANGED given
      BY <1>5, <2>3 DEF OneShot!Dispatch
    <3> QED
      BY <2>1, <3>1
  <2> QED
    BY <2>2, <2>3
<1>6. ASSUME NEW t \in OneShot!Threads, OneShot!ReadArgs(t)
      PROVE  /\ reused => reused'
             /\ failed => failed'
             /\ \A u \in OneShot!Threads : sockfd[u] # OneShot!NONE =>
                    sockfd'[u] = sockfd[u] /\ given'[u] = given[u]
  BY <1>6 DEF OneShot!ReadArgs, OneShot!mainVars
<1>7. ASSUME NEW t \in OneShot!Threads,
             OneShot!Recv(t) \/ OneShot!Close(t) \/ OneShot!ResetOneshot(t)
      PROVE  UNCHANGED <<reused, failed, sockfd, given>>
  BY <1>7 DEF OneShot!Recv, OneShot!Close, OneShot!ResetOneshot, OneShot!mainVars
<1> QED
  BY <1>1, <1>2, <1>3, <1>4, <1>5, <1>6, <1>7
  DEF OneShot!Next, OneShot!Main, OneShot!Worker

(* Undisturbed after a step means undisturbed before it, and threads that  *)
(* have read their socket read their own.                                  *)
LEMMA StillUndisturbed ==
    ASSUME OneShotInv, OneShot!Next, ~OneShot!Disturbed'
    PROVE  /\ ~OneShot!Disturbed /\ ~reused' /\ ~failed'
           /\ \A f \in OneShot!Fds : FdInv(f)
           /\ \A t \in OneShot!Threads : tpc[t] \in {"recv", "close", "reset"} =>
                  sockfd[t] = given[t]
           /\ \A t \in OneShot!Threads : sockfd'[t] \in {OneShot!NONE, given'[t]}
<1>1. ~OneShot!Misread' /\ ~reused' /\ ~failed'
  BY DEF OneShot!Disturbed
<1>2. \A t \in OneShot!Threads : sockfd'[t] \in {OneShot!NONE, given'[t]}
  BY <1>1 DEF OneShot!Misread, OneShot!Threads
<1>3. \A t \in OneShot!Threads : sockfd[t] \in {OneShot!NONE, given[t]}
  BY <1>2, DisturbanceStays
<1>4. ~OneShot!Disturbed
  BY <1>1, <1>3, DisturbanceStays DEF OneShot!Disturbed, OneShot!Misread
<1>5. \A t \in OneShot!Threads : tpc[t] \in {"recv", "close", "reset"} => sockfd[t] = given[t]
  BY <1>3, OneShotFacts DEF OneShotInv, ThreadInv
<1> QED
  BY <1>1, <1>2, <1>4, <1>5 DEF OneShotInv

LEMMA ClientSteps ==
    ASSUME OneShotInv, NEW c \in Conns, OneShot!Client(c)
    PROVE  OneShotInv'
<1>1. /\ UNCHANGED <<file, armed, evlist, tpc, sockfd, given, closed, mpc, fds_new>>
      /\ UNCHANGED <<reused, failed>>
  BY DEF OneShot!Client, OneShot!Connect, OneShot!Send, OneShot!Finish, OneShot!mainVars,
         OneShot!threadVars
<1>2. /\ ready \subseteq ready'
      /\ ready' \subseteq armed
      /\ backlog' \in Seq(Conns) /\ unread' \in [Conns -> Int]
      /\ \/ fin' = fin /\ unread' = unread
         \/ ready' = ready \cup {f \in armed \cap OneShot!Fds : file[f] = c}
      /\ \A d \in Conns : d # c => unread'[d] = unread[d] /\ (d \in fin' <=> d \in fin)
  <2>1. CASE OneShot!Connect(c)
    BY <2>1 DEF OneShot!Connect, OneShotInv, OneShotTypes
  <2>2. CASE OneShot!Send(c)
    BY <2>2 DEF OneShot!Send, OneShot!Edge, OneShotInv, OneShotTypes
  <2>3. CASE OneShot!Finish(c)
    BY <2>3 DEF OneShot!Finish, OneShot!Edge, OneShotInv, OneShotTypes
  <2> QED
    BY <2>1, <2>2, <2>3 DEF OneShot!Client
<1>3. OneShotTypes' /\ \A t \in OneShot!Threads : ThreadInv(t)'
  BY <1>1, <1>2 DEF OneShotInv, OneShotTypes, ThreadInv, OneShot!Fds, OneShot!Threads
<1>4. ASSUME ~OneShot!Disturbed', NEW f \in OneShot!Fds PROVE FdInv(f)'
  <2>1. FdInv(f)
    BY <1>1, <1>4 DEF OneShotInv, OneShot!Disturbed, OneShot!Misread
  <2>2. \A t : Holds(t, f)' <=> Holds(t, f)
    BY <1>1 DEF Holds
  <2>3. file[f] \in Conns \cup {OneShot!NONE}
    BY DEF OneShotInv, OneShotTypes
  <2>4. OneShot!Readable(f)' =>
            f \in ready' \/ f \in evlist' \/ \E t \in OneShot!Threads : Holds(t, f)'
    <3>1. CASE file[f] = c
      BY <1>1, <1>2, <2>1, <2>2, <3>1, OneShotFacts DEF FdInv, OneShot!Readable
    <3>2. CASE file[f] # c
      BY <1>1, <1>2, <2>1, <2>2, <2>3, <3>2, OneShotFacts DEF FdInv, OneShot!Readable
    <3> QED
      BY <3>1, <3>2
  <2> QED
    BY <1>1, <2>1, <2>2, <2>4 DEF FdInv
<1> QED
  BY <1>3, <1>4 DEF OneShotInv, OneShot!Fds, OneShot!Threads

LEMMA EpollWaitStep ==
    ASSUME OneShotInv, OneShot!EpollWait
    PROVE  OneShotInv'
<1>1. /\ UNCHANGED <<file, unread, fin, backlog, tpc, sockfd, given, closed, fds_new>>
      /\ UNCHANGED <<reused, failed>>
      /\ mpc = "wait" /\ mpc' = "event" /\ ready' = {} /\ evlist = {}
      /\ evlist' = {f \in ready : OneShot!Readable(f)}
      /\ armed' = armed \ (evlist' \ {OneShot!LISTEN})
  BY DEF OneShot!EpollWait, OneShot!clientVars, OneShot!threadVars, OneShotInv, OneShotTypes
<1>2. OneShotTypes' /\ \A t \in OneShot!Threads : ThreadInv(t)'
  BY <1>1 DEF OneShotInv, OneShotTypes, ThreadInv, OneShot!Fds, OneShot!Threads
<1>3. ASSUME ~OneShot!Disturbed', NEW f \in OneShot!Fds PROVE FdInv(f)'
  <2>1. FdInv(f)
    BY <1>1, <1>3 DEF OneShotInv, OneShot!Disturbed, OneShot!Misread
  <2>2. \A t : Holds(t, f)' <=> Holds(t, f)
    BY <1>1 DEF Holds
  <2>3. /\ f # OneShot!LISTEN /\ (OneShot!Readable(f)' <=> OneShot!Readable(f))
        /\ ready \subseteq armed
    BY <1>1, OneShotFacts DEF OneShot!Readable, OneShotInv, OneShotTypes
  <2> QED
    BY <1>1, <2>1, <2>2, <2>3 DEF FdInv
<1> QED
  BY <1>2, <1>3 DEF OneShotInv, OneShot!Fds, OneShot!Threads

LEMMA AcceptStep ==
    ASSUME OneShotInv, OneShot!Accept, OneShot!Next
    PROVE  OneShotInv'
<1>1. /\ UNCHANGED <<unread, fin, tpc, sockfd, given, closed, fds_new, failed>>
      /\ evlist' = evlist \ {OneShot!LISTEN}
      /\ mpc' = IF evlist' = {} THEN "wait" ELSE "event"
  BY DEF OneShot!Accept, OneShot!Handled, OneShot!threadVars
<1>2. CASE UNCHANGED <<backlog, conn, file, armed, ready, reused>>
  <2>1. OneShotTypes' /\ \A t \in OneShot!Threads : ThreadInv(t)'
    BY <1>1, <1>2 DEF OneShotInv, OneShotTypes, ThreadInv, OneShot!Fds, OneShot!Threads
  <2>2. ASSUME ~OneShot!Disturbed', NEW f \in OneShot!Fds PROVE FdInv(f)'
    <3>1. FdInv(f)
      BY <2>2, StillUndisturbed
    <3>2. \A t : Holds(t, f)' <=> Holds(t, f)
      BY <1>1 DEF Holds
    <3> QED
      BY <1>1, <1>2, <3>1, <3>2, OneShotFacts DEF FdInv, OneShot!Readable
  <2> QED
    BY <2>1, <2>2 DEF OneShotInv, OneShot!Fds, OneShot!Threads
<1>3. CASE backlog # <<>> /\ OneShot!FreeFds # {}
  <2> DEFINE c == Head(backlog)
             f == OneShot!Min(OneShot!FreeFds)
  <2>1. /\ backlog' = Tail(backlog) /\ file' = [file EXCEPT ![f] = c]
        /\ armed' = armed \cup {f}
        /\ ready' = IF unread[c] > 0 \/ c \in fin THEN ready \cup {f} ELSE ready
        /\ ~reused' => \A t \in closed : sockfd[t] # f
    BY <1>3 DEF OneShot!Accept
  <2>2. f \in OneShot!FreeFds
    BY <1>3, OneShotMin, OneShotFacts DEF OneShot!FreeFds
  <2> HIDE DEF f
  <2>3. f \in OneShot!Fds /\ file[f] = OneShot!NONE
    BY <2>2 DEF OneShot!FreeFds
  <2>4. c \in Conns /\ c # OneShot!NONE /\ backlog' \in Seq(Conns)
    BY <1>3, <2>1, OneShotFacts DEF OneShotInv, OneShotTypes
  <2> HIDE DEF c
  <2>5. OneShotTypes' /\ \A t \in OneShot!Threads : ThreadInv(t)'
    BY <1>1, <2>1, <2>3, <2>4
    DEF OneShotInv, OneShotTypes, ThreadInv, OneShot!Fds, OneShot!Threads
  <2>6. ASSUME ~OneShot!Disturbed', NEW g \in OneShot!Fds PROVE FdInv(g)'
    <3>1. /\ FdInv(g) /\ ~reused'
          /\ \A t \in OneShot!Threads : tpc[t] \in {"recv", "close", "reset"} =>
                 sockfd[t] = given[t]
      BY <2>6, StillUndisturbed
    <3>2. \A t : Holds(t, g)' <=> Holds(t, g)
      BY <1>1 DEF Holds
    <3>3. g # OneShot!LISTEN
      BY OneShotFacts
    <3>4. CASE g = f
      <4>1. \A t \in OneShot!Threads : ~Holds(t, f)
        <5>1. SUFFICES ASSUME NEW t \in OneShot!Threads, Holds(t, f) PROVE FALSE
          OBVIOUS
        <5>2. t \in closed
          BY <2>3, <3>1, <3>4, <5>1 DEF FdInv
        <5> QED
          BY <2>1, <3>1, <3>4, <5>1, <5>2 DEF Holds, FdInv
      <4>2. file'[f] = c
        BY <2>1, <2>3 DEF OneShotInv, OneShotTypes
      <4> QED
        BY <1>1, <2>1, <2>3, <2>4, <3>1, <3>2, <3>3, <3>4, <4>1, <4>2
        DEF FdInv, OneShot!Readable
    <3>5. CASE g # f
      <4>1. file'[g] = file[g]
        BY <2>1, <3>5 DEF OneShotInv, OneShotTypes
      <4> QED
        BY <1>1, <2>1, <3>1, <3>2, <3>3, <3>5, <4>1 DEF FdInv, OneShot!Readable
    <3> QED
      BY <3>4, <3>5
  <2> QED
    BY <2>5, <2>6 DEF OneShotInv, OneShot!Fds, OneShot!Threads
<1> QED
  BY <1>2, <1>3 DEF OneShot!Accept

LEMMA DispatchStep ==
    ASSUME OneShotInv, NEW e \in OneShot!Fds, OneShot!Dispatch(e), OneShot!Next
    PROVE  OneShotInv'
<1>1. /\ UNCHANGED <<file, unread, fin, backlog, armed, ready, sockfd, closed, reused>>
      /\ e \in evlist /\ evlist' = evlist \ {e} /\ fds_new' = e
      /\ mpc' = IF evlist' = {} THEN "wait" ELSE "event"
  BY DEF OneShot!Dispatch, OneShot!Handled, OneShot!clientVars, OneShot!epollVars
<1> DEFINE idle == {t \in OneShot!Threads : tpc[t] = "none"}
           new == OneShot!Min(idle)
<1>2. CASE idle # {}
  <2>1. tpc' = [tpc EXCEPT ![new] = "args"] /\ given' = [given EXCEPT ![new] = e]
    BY <1>2 DEF OneShot!Dispatch
  <2>2. new \in idle
    BY <1>2, OneShotMin, OneShotFacts
  <2> HIDE DEF new
  <2>3. /\ new \in OneShot!Threads /\ tpc[new] = "none"
        /\ tpc'[new] = "args" /\ given'[new] = e
        /\ \A t \in OneShot!Threads : t # new => tpc'[t] = tpc[t] /\ given'[t] = given[t]
    BY <2>1, <2>2 DEF OneShotInv, OneShotTypes
  <2>4. OneShotTypes'
    BY <1>1, <2>1, <2>3 DEF OneShotInv, OneShotTypes, OneShot!Fds, OneShot!Threads
  <2>5. ASSUME NEW t \in OneShot!Threads PROVE ThreadInv(t)'
    <3>1. ThreadInv(t)
      BY DEF OneShotInv
    <3>2. CASE t = new
      BY <1>1, <2>3, <3>1, <3>2 DEF ThreadInv, OneShot!Fds
    <3>3. CASE t # new
      BY <1>1, <2>3, <3>1, <3>3 DEF ThreadInv, OneShot!Fds
    <3> QED
      BY <3>2, <3>3
  <2>6. ASSUME ~OneShot!Disturbed', NEW f \in OneShot!Fds PROVE FdInv(f)'
    <3>1. FdInv(f)
      BY <2>6, StillUndisturbed
    <3>2. \A t \in OneShot!Threads : Holds(t, f)' <=> Holds(t, f) \/ (t = new /\ f = e)
      BY <2>3 DEF Holds
    <3>3. new \notin closed
      BY <2>3 DEF OneShotInv, ThreadInv
    <3>4. OneShot!Readable(f)' <=> OneShot!Readable(f)
      BY <1>1 DEF OneShot!Readable
    <3>5. CASE f = e
      BY <1>1, <2>3, <3>1, <3>2, <3>3, <3>4, <3>5 DEF FdInv
    <3>6. CASE f # e
      BY <1>1, <2>3, <3>1, <3>2, <3>4, <3>6 DEF FdInv
    <3> QED
      BY <3>5, <3>6
  <2> QED
    BY <2>4, <2>5, <2>6 DEF OneShotInv, OneShot!Fds, OneShot!Threads
<1>3. CASE idle = {}
  <2>1. failed' = TRUE /\ UNCHANGED <<tpc, given>>
    BY <1>3 DEF OneShot!Dispatch
  <2>2. OneShot!Disturbed'
    BY <2>1 DEF OneShot!Disturbed
  <2>3. OneShotTypes' /\ \A t \in OneShot!Threads : ThreadInv(t)'
    BY <1>1, <2>1 DEF OneShotInv, OneShotTypes, ThreadInv, OneShot!Fds, OneShot!Threads
  <2> QED
    BY <2>2, <2>3 DEF OneShotInv, OneShot!Fds, OneShot!Threads
<1> QED
  BY <1>2, <1>3

LEMMA WorkerStep ==
    ASSUME OneShotInv, NEW t \in OneShot!Threads, OneShot!Worker(t), OneShot!Next
    PROVE  OneShotInv'
<1>0. /\ OneShotTypes /\ ThreadInv(t)
      /\ tpc \in [OneShot!Threads -> {"none", "args", "recv", "close", "reset", "done"}]
  BY DEF OneShotInv, OneShotTypes
<1>1. CASE OneShot!ReadArgs(t)
  <2>1. /\ UNCHANGED <<file, unread, fin, backlog, armed, ready, mpc, evlist, fds_new>>
        /\ UNCHANGED <<given, closed>>
        /\ sockfd' = [sockfd EXCEPT ![t] = fds_new]
        /\ tpc[t] = "args" /\ tpc' = [tpc EXCEPT ![t] = "recv"]
    BY <1>1 DEF OneShot!ReadArgs, OneShot!Goto, OneShot!clientVars, OneShot!epollVars,
                OneShot!mainVars
  <2>2. OneShotTypes'
    BY <1>0, <2>1 DEF OneShotTypes, OneShot!Fds, OneShot!Threads
  <2>3. \A u \in OneShot!Threads : ThreadInv(u)'
    BY <1>0, <2>1 DEF OneShotInv, OneShotTypes, ThreadInv, OneShot!Fds
  <2>4. ASSUME ~OneShot!Disturbed', NEW f \in OneShot!Fds PROVE FdInv(f)'
    <3>1. FdInv(f)
      BY <2>4, StillUndisturbed
    <3>2. \A u \in OneShot!Threads : Holds(u, f)' <=> Holds(u, f)
      BY <1>0, <2>1 DEF Holds
    <3>3. OneShot!Readable(f)' <=> OneShot!Readable(f)
      BY <2>1 DEF OneShot!Readable
    <3> QED
      BY <2>1, <3>1, <3>2, <3>3 DEF FdInv
  <2> QED
    BY <2>2, <2>3, <2>4 DEF OneShotInv, OneShot!Fds, OneShot!Threads
<1>2. CASE OneShot!Recv(t)
  <2>1. /\ UNCHANGED <<file, fin, backlog, armed, ready, mpc, evlist, fds_new>>
        /\ UNCHANGED <<sockfd, given, closed>>
        /\ tpc[t] = "recv" /\ file[sockfd[t]] # OneShot!NONE
    BY <1>2 DEF OneShot!Recv, OneShot!epollVars, OneShot!mainVars
  <2>2. PICK to \in {"recv", "close", "reset"} : tpc' = [tpc EXCEPT ![t] = to]
    BY <1>0, <1>2, <2>1 DEF OneShot!Recv, OneShot!Goto
  <2>3. unread' \in [Conns -> Int] /\ \A c \in Conns : unread'[c] > 0 => unread[c] > 0
    <3>1. CASE unread' = unread
      BY <1>0, <3>1 DEF OneShotTypes
    <3>2. CASE \E n \in 1..unread[file[sockfd[t]]] :
                  /\ unread[file[sockfd[t]]] > 0
                  /\ unread' = [unread EXCEPT ![file[sockfd[t]]] = @ - n]
      <4>1. file[sockfd[t]] \in Conns
        BY <1>0, <2>1 DEF OneShotTypes, ThreadInv
      <4> QED
        BY <1>0, <3>2, <4>1 DEF OneShotTypes
    <3> QED
      BY <1>2, <3>1, <3>2 DEF OneShot!Recv
  <2>4. OneShotTypes'
    BY <1>0, <2>1, <2>2, <2>3 DEF OneShotTypes, OneShot!Fds, OneShot!Threads
  <2>6. ASSUME ~OneShot!Disturbed', NEW f \in OneShot!Fds PROVE FdInv(f)'
    <3>1. /\ \A g \in OneShot!Fds : FdInv(g)
          /\ sockfd[t] = given[t] /\ sockfd[t] \in OneShot!Fds
      BY <1>0, <2>1, <2>6, StillUndisturbed DEF ThreadInv
    <3>2. \A u \in OneShot!Threads : Holds(u, f)' <=> Holds(u, f)
      BY <1>0, <2>1, <2>2 DEF Holds
    <3>3. OneShot!Readable(f)' => OneShot!Readable(f)
      BY <1>0, <2>1, <2>3, OneShotFacts DEF OneShot!Readable, OneShotTypes
    <3>4. t \notin closed
      BY <2>1, <3>1 DEF FdInv, Holds
    <3>5. \A u \in OneShot!Threads : u # t => tpc'[u] = tpc[u]
      BY <1>0, <2>2
    <3>6. OneShot!Readable(f)' =>
              f \in ready' \/ f \in evlist' \/ \E u \in OneShot!Threads : Holds(u, f)'
      BY <2>1, <3>1, <3>2, <3>3 DEF FdInv
    <3> QED
      BY <2>1, <3>1, <3>2, <3>4, <3>5, <3>6 DEF FdInv
  <2>5. ASSUME NEW u \in OneShot!Threads PROVE ThreadInv(u)'
    BY <1>0, <2>1, <2>2 DEF OneShotInv, ThreadInv, OneShot!Fds
  <2> QED
    BY <2>4, <2>5, <2>6 DEF OneShotInv, OneShot!Fds, OneShot!Threads
<1>3. CASE OneShot!Close(t)
  <2> DEFINE g == sockfd[t]
  <2>1. /\ UNCHANGED <<unread, fin, backlog, mpc, evlist, fds_new, sockfd, given>>
        /\ tpc[t] = "close" /\ tpc' = [tpc EXCEPT ![t] = "recv"]
        /\ closed' = closed \cup {t} /\ g \in OneShot!Fds
    BY <1>0, <1>3 DEF OneShot!Close, OneShot!Goto, OneShot!mainVars, ThreadInv
  <2>2. /\ file' = [file EXCEPT ![g] = OneShot!NONE]
        /\ armed' = armed \ {g} \/ (armed' = armed /\ file[g] = OneShot!NONE)
        /\ ready' = ready \ {g} \/ (ready' = ready /\ file[g] = OneShot!NONE)
        /\ ready' \subseteq armed'
    <3>1. CASE file[g] # OneShot!NONE
      <4>1. /\ file' = [file EXCEPT ![g] = OneShot!NONE]
            /\ armed' = armed \ {g} /\ ready' = ready \ {g}
        BY <1>3, <3>1 DEF OneShot!Close
      <4>2. ready' \subseteq armed'
        BY <1>0, <4>1 DEF OneShotTypes
      <4> QED
        BY <4>1, <4>2
    <3>2. CASE file[g] = OneShot!NONE
      <4>1. UNCHANGED <<file, armed, ready>>
        BY <1>3, <3>2 DEF OneShot!Close, OneShot!epollVars
      <4>2. file = [file EXCEPT ![g] = OneShot!NONE]
        BY <1>0, <2>1, <3>2 DEF OneShotTypes
      <4> QED
        BY <1>0, <3>2, <4>1, <4>2 DEF OneShotTypes
    <3> QED
      BY <3>1, <3>2
  <2>3. OneShotTypes'
    BY <1>0, <2>1, <2>2, OneShotFacts DEF OneShotTypes, OneShot!Fds, OneShot!Threads
  <2>4. \A u \in OneShot!Threads : ThreadInv(u)'
    BY <1>0, <2>1 DEF OneShotInv, ThreadInv, OneShot!Fds
  <2>5. ASSUME ~OneShot!Disturbed', NEW f \in OneShot!Fds PROVE FdInv(f)'
    <3>1. FdInv(f) /\ g = given[t]
      BY <2>1, <2>5, StillUndisturbed
    <3>2. \A u \in OneShot!Threads : Holds(u, f)' <=> Holds(u, f)
      BY <1>0, <2>1 DEF Holds
    <3>3. CASE f = g
      <4>1. Holds(t, f) /\ file'[f] = OneShot!NONE
        BY <1>0, <2>1, <2>2, <3>1, <3>3 DEF Holds, OneShotTypes
      <4>2. f \notin armed' /\ f \notin evlist' /\ ~OneShot!Readable(f)'
        BY <2>1, <2>2, <3>1, <4>1, OneShotFacts DEF FdInv, OneShot!Readable
      <4>3. \A u \in OneShot!Threads : Holds(u, f) => u = t
        BY <3>1, <4>1 DEF FdInv
      <4>4. tpc'[t] = "recv" /\ t \in closed'
        BY <1>0, <2>1
      <4> QED
        BY <2>1, <3>1, <3>2, <4>1, <4>2, <4>3, <4>4 DEF FdInv
    <3>4. CASE f # g
      <4>1. /\ file'[f] = file[f] /\ (f \in armed' <=> f \in armed)
            /\ (f \in ready' <=> f \in ready) /\ ~Holds(t, f)
        BY <1>0, <2>2, <3>1, <3>4 DEF OneShotTypes, Holds
      <4>2. OneShot!Readable(f)' <=> OneShot!Readable(f)
        BY <2>1, <4>1, OneShotFacts DEF OneShot!Readable
      <4>3. \A u \in OneShot!Threads :
                u # t => tpc'[u] = tpc[u] /\ (u \in closed' <=> u \in closed)
        BY <1>0, <2>1
      <4> QED
        BY <2>1, <3>1, <3>2, <4>1, <4>2, <4>3 DEF FdInv
    <3> QED
      BY <3>3, <3>4
  <2> QED
    BY <2>3, <2>4, <2>5 DEF OneShotInv, OneShot!Fds, OneShot!Threads
<1>4. CASE OneShot!ResetOneshot(t)
  <2> DEFINE g == sockfd[t]
  <2>1. /\ UNCHANGED <<file, unread, fin, backlog, mpc, evlist, fds_new, sockfd, given>>
        /\ UNCHANGED closed
        /\ tpc[t] = "reset" /\ tpc' = [tpc EXCEPT ![t] = "done"] /\ g \in OneShot!Fds
    BY <1>0, <1>4 DEF OneShot!ResetOneshot, OneShot!Goto, OneShot!clientVars,
                      OneShot!mainVars, ThreadInv
  <2>2. \/ /\ file[g] # OneShot!NONE /\ armed' = armed \cup {g}
           /\ ready' = IF OneShot!Readable(g) THEN ready \cup {g} ELSE ready
        \/ file[g] = OneShot!NONE /\ UNCHANGED <<armed, ready>>
    BY <1>4 DEF OneShot!ResetOneshot, OneShot!epollVars
  <2>3. OneShotTypes'
    BY <1>0, <2>1, <2>2 DEF OneShotTypes, OneShot!Fds, OneShot!Threads
  <2>4. \A u \in OneShot!Threads : ThreadInv(u)'
    BY <1>0, <2>1 DEF OneShotInv, ThreadInv, OneShot!Fds
  <2>5. ASSUME ~OneShot!Disturbed', NEW f \in OneShot!Fds PROVE FdInv(f)'
    <3>1. FdInv(f) /\ g = given[t]
      BY <2>1, <2>5, StillUndisturbed
    <3>2. /\ \A u \in OneShot!Threads : Holds(u, f)' <=> Holds(u, f) /\ u # t
          /\ OneShot!Readable(f)' <=> OneShot!Readable(f)
      BY <1>0, <2>1 DEF Holds, OneShot!Readable
    <3>3. CASE f = g
      <4>1. Holds(t, f) /\ t \notin closed
        BY <1>0, <2>1, <3>1, <3>3 DEF Holds, FdInv
      <4>2. file[g] # OneShot!NONE
        BY <3>1, <3>3, <4>1 DEF FdInv
      <4>3. \A u \in OneShot!Threads : ~Holds(u, f)'
        BY <3>1, <3>2, <4>1 DEF FdInv
      <4> QED
        BY <2>1, <2>2, <3>1, <3>2, <3>3, <4>1, <4>2, <4>3 DEF FdInv
    <3>4. CASE f # g
      <4>1. /\ (f \in armed' <=> f \in armed) /\ (f \in ready' <=> f \in ready)
            /\ ~Holds(t, f)
        BY <2>2, <3>1, <3>4 DEF Holds
      <4> QED
        BY <2>1, <3>1, <3>2, <4>1 DEF FdInv
    <3> QED
      BY <3>3, <3>4
  <2> QED
    BY <2>3, <2>4, <2>5 DEF OneShotInv, OneShot!Fds, OneShot!Threads
<1> QED
  BY <1>1, <1>2, <1>3, <1>4 DEF OneShot!Worker

LEMMA OneShotStep == OneShotInv /\ OneShot!Next => OneShotInv'
BY ClientSteps, EpollWaitStep, AcceptStep, DispatchStep, WorkerStep
DEF OneShot!Next, OneShot!Main

LEMMA OneShotStands == OneShotInv /\ UNCHANGED oneShotVars => OneShotInv'
<1> SUFFICES ASSUME OneShotInv, UNCHANGED oneShotVars PROVE OneShotInv'
  OBVIOUS
<1>1. OneShotTypes' /\ \A t \in OneShot!Threads : ThreadInv(t)'
  BY DEF oneShotVars, OneShotInv, OneShotTypes, ThreadInv, OneShot!Fds, OneShot!Threads
<1>2. \A f : FdInv(f)' <=> FdInv(f)
  BY DEF oneShotVars, FdInv, Holds, OneShot!Readable, OneShot!Threads
<1>3. OneShot!Disturbed' <=> OneShot!Disturbed
  BY DEF oneShotVars, OneShot!Disturbed, OneShot!Misread, OneShot!Threads
<1> QED
  BY <1>1, <1>2, <1>3 DEF OneShotInv, OneShot!Fds, OneShot!Threads

LEMMA OneShotRight == OneShotInv => OneShot!OneShotHolds /\ OneShot!NotForgotten
<1> SUFFICES ASSUME OneShotInv, ~OneShot!Disturbed, NEW f \in OneShot!Fds
             PROVE  /\ \A t, u \in OneShot!Users(f) : t = u
                    /\ f \in armed => OneShot!Users(f) = {} /\ f \notin evlist
                    /\ OneShot!Readable(f) => OneShot!Cared(f)
  BY DEF OneShot!OneShotHolds, OneShot!NotForgotten
<1>1. FdInv(f)
  BY DEF OneShotInv
<1>2. \A t \in OneShot!Users(f) : t \in OneShot!Threads /\ Holds(t, f)
  BY OneShotFacts
  DEF OneShot!Users, Holds, OneShotInv, OneShot!Disturbed, OneShot!Misread, OneShot!Threads
<1>3. OneShot!Readable(f) => OneShot!Cared(f)
  BY <1>1 DEF FdInv, Holds, OneShot!Cared, OneShot!Threads
<1> QED
  BY <1>1, <1>2, <1>3 DEF FdInv

(* 9_4_EPOLLONESHOT.cpp:37 and 49-59, 77-80: unless a thread read another's*)
(* socket, a closed number was used again or no thread was to be had, one  *)
(* thread at most uses a descriptor, none while it can cause an event, and *)
(* input never lies there with nobody going to look, for any number of     *)
(* connections, descriptors and threads.                                   *)
THEOREM OneShotKept == FairSpec => []OneShotHolds
<1>1. Init => OneShotInv
  BY OneShotInit DEF Init
<1>2. OneShotInv /\ [Next]_vars => OneShotInv'
  BY OneShotStep, OneShotStands DEF Next, OneShotRuns, EchoRuns, LevelRuns, XfrRuns, vars
<1>3. OneShotInv => OneShotHolds
  BY OneShotRight DEF OneShotHolds
<1> QED
  BY <1>1, <1>2, <1>3, PTL DEF FairSpec, Spec

-------------------------------------------------------------------------------
(* us_xfr_sv.c: a client waits in one place of one backlog until it is     *)
(* served, nothing of it is written before, and while a server reads from  *)
(* it what it has written of it is the end of the output.                  *)
XfrTypes ==
    /\ xfrBacklog \in [Servers -> Seq(Clients)]
    /\ afd \in [Servers -> Clients \cup {None}]
    /\ output \in [Servers -> Seq(Clients)]
    /\ spc \in [Servers -> {"remove", "bind", "listen", "accept", "read", "failure"}]
    /\ cpc \in [Clients -> {"connect", "read", "write", "writeError", "success",
                            "failure", "sigpipe"}]

Waits(s) ==
    \A x \in 1..Len(xfrBacklog[s]) :
        /\ cpc[xfrBacklog[s][x]] # "connect" /\ xfrBacklog[s][x] # afd[s]
        /\ \A y \in 1..Len(output[s]) : output[s][y] # xfrBacklog[s][x]
        /\ \A z \in 1..Len(xfrBacklog[s]) : xfrBacklog[s][z] = xfrBacklog[s][x] => z = x

Serves(s) ==
    /\ spc[s] = "read" => afd[s] \in Clients
    /\ afd[s] \in Clients => cpc[afd[s]] # "connect"
    /\ \A y \in 1..Len(output[s]) : cpc[output[s][y]] # "connect"
    /\ spc[s] = "read" =>
           \A y \in 1..Len(output[s]) : output[s][y] = afd[s] =>
               \A z \in y..Len(output[s]) : output[s][z] = afd[s]

Apart(s) ==
    \A x, y \in 1..Len(output[s]) :
        x < y /\ output[s][x] = output[s][y] =>
            \A z \in x..y : output[s][z] = output[s][x]

XfrInv == XfrTypes /\ \A s \in Servers : Waits(s) /\ Serves(s) /\ Apart(s)

LEMMA XfrInit == Xfr!Init => XfrInv
<1> SUFFICES ASSUME Xfr!Init PROVE XfrInv
  OBVIOUS
<1>1. None \notin Clients
  BY SocketsAssumption DEF SocketsAssumption, Xfr!UsXfrAssumption
<1>2. XfrTypes
  BY DEF Xfr!Init, XfrTypes
<1> QED
  BY <1>1, <1>2 DEF Xfr!Init, XfrInv, Waits, Serves, Apart

(* What one server holds does not depend on the others.                    *)
LEMMA SameServer ==
    ASSUME NEW s \in Servers, XfrInv, XfrTypes',
           UNCHANGED <<xfrBacklog[s], afd[s], output[s]>>,
           spc'[s] = "read" => spc[s] = "read",
           \A c \in Clients : cpc'[c] = "connect" => cpc[c] = "connect"
    PROVE  Waits(s)' /\ Serves(s)' /\ Apart(s)'
<1>1. Waits(s) /\ Serves(s) /\ Apart(s) /\ XfrTypes
  BY DEF XfrInv
<1>2. /\ \A x \in 1..Len(xfrBacklog[s]) : xfrBacklog[s][x] \in Clients
      /\ \A x \in 1..Len(output[s]) : output[s][x] \in Clients
  BY <1>1 DEF XfrTypes
<1>3. Waits(s)'
  BY <1>1, <1>2 DEF Waits
<1>4. Serves(s)'
  BY <1>1, <1>2 DEF Serves
<1> QED
  BY <1>1, <1>3, <1>4 DEF Apart

LEMMA XfrStep == XfrInv /\ Xfr!Next => XfrInv'
<1> SUFFICES ASSUME XfrInv, Xfr!Next PROVE XfrInv'
  OBVIOUS
<1>t. XfrTypes /\ None \notin Clients
  BY SocketsAssumption DEF SocketsAssumption, Xfr!UsXfrAssumption, XfrInv
<1>1. ASSUME NEW s \in Servers, NEW next \in {"bind", "listen", "accept", "failure"},
             Xfr!SGoto(s, next), UNCHANGED <<xfrBacklog, afd, output, cpc>>
      PROVE  XfrInv'
  <2>1. XfrTypes' /\ \A r \in Servers : spc'[r] = "read" => spc[r] = "read"
    BY <1>t, <1>1 DEF XfrTypes, Xfr!SGoto
  <2> QED
    BY <1>1, <2>1, SameServer DEF XfrInv
<1>2. ASSUME NEW s \in Servers,
             Xfr!RemovePath(s) \/ Xfr!Bind(s) \/ Xfr!Listen(s)
      PROVE  XfrInv'
  BY <1>1, <1>2 DEF Xfr!RemovePath, Xfr!Bind, Xfr!Listen, Xfr!client
<1>d. ASSUME NEW s \in Servers, Xfr!ServerDies(s) PROVE XfrInv'
  BY <1>1, <1>d DEF Xfr!ServerDies, Xfr!client
<1>3. ASSUME NEW s \in Servers, Xfr!Accept(s) PROVE XfrInv'
  <2> DEFINE c == Head(xfrBacklog[s])
  <2>1. /\ xfrBacklog[s] # <<>> /\ afd' = [afd EXCEPT ![s] = c]
        /\ xfrBacklog' = [xfrBacklog EXCEPT ![s] = Tail(xfrBacklog[s])]
        /\ spc' = [spc EXCEPT ![s] = "read"] /\ UNCHANGED <<output, cpc>>
    BY <1>3 DEF Xfr!Accept, Xfr!SGoto, Xfr!client
  <2>2. /\ xfrBacklog[s] \in Seq(Clients) /\ c \in Clients
        /\ Tail(xfrBacklog[s]) \in Seq(Clients)
        /\ Len(Tail(xfrBacklog[s])) = Len(xfrBacklog[s]) - 1
        /\ \A x \in 1..Len(xfrBacklog[s]) - 1 : Tail(xfrBacklog[s])[x] = xfrBacklog[s][x + 1]
        /\ c = xfrBacklog[s][1] /\ Len(xfrBacklog[s]) \in Nat \ {0}
    BY <1>t, <2>1 DEF XfrTypes
  <2>3. XfrTypes'
    BY <1>t, <2>1, <2>2 DEF XfrTypes
  <2>4. Waits(s) /\ Serves(s) /\ Apart(s)
    BY DEF XfrInv
  <2>5. /\ afd'[s] = c /\ spc'[s] = "read" /\ xfrBacklog'[s] = Tail(xfrBacklog[s])
    BY <1>t, <2>1 DEF XfrTypes
  <2> HIDE DEF c
  <2>6. Waits(s)'
    <3>1. \A x \in 1..Len(xfrBacklog'[s]) :
              /\ x \in 1..Len(xfrBacklog[s]) - 1 /\ x + 1 \in 1..Len(xfrBacklog[s])
              /\ xfrBacklog'[s][x] = xfrBacklog[s][x + 1] /\ x + 1 # 1
      BY <2>2, <2>5
    <3>2. SUFFICES ASSUME NEW x \in 1..Len(xfrBacklog'[s])
                   PROVE  /\ cpc[xfrBacklog'[s][x]] # "connect" /\ xfrBacklog'[s][x] # c
                          /\ \A y \in 1..Len(output[s]) : output[s][y] # xfrBacklog'[s][x]
                          /\ \A z \in 1..Len(xfrBacklog'[s]) :
                                 xfrBacklog'[s][z] = xfrBacklog'[s][x] => z = x
      BY <2>1, <2>5 DEF Waits
    <3>3. 1 \in 1..Len(xfrBacklog[s])
      BY <2>2
    <3>4. /\ cpc[xfrBacklog[s][x + 1]] # "connect" /\ xfrBacklog[s][x + 1] # c
          /\ \A y \in 1..Len(output[s]) : output[s][y] # xfrBacklog[s][x + 1]
      BY <2>2, <2>4, <3>1, <3>3 DEF Waits
    <3>5. ASSUME NEW z \in 1..Len(xfrBacklog'[s]), xfrBacklog'[s][z] = xfrBacklog'[s][x]
          PROVE  z = x
      <4>1. \A v, y \in 1..Len(xfrBacklog[s]) : xfrBacklog[s][v] = xfrBacklog[s][y] => v = y
        BY <2>4 DEF Waits
      <4>2. z + 1 = x + 1
        BY <3>1, <3>5, <4>1, Zenon
      <4> QED
        BY <3>1, <4>2
    <3> QED
      BY <3>1, <3>4, <3>5
  <2>7. Serves(s)'
    <3>1. cpc[c] # "connect" /\ \A y \in 1..Len(output[s]) : output[s][y] # c
      BY <2>2, <2>4 DEF Waits
    <3> QED
      BY <2>1, <2>2, <2>4, <2>5, <3>1 DEF Serves
  <2>8. Apart(s)'
    BY <2>1, <2>4 DEF Apart
  <2>9. \A r \in Servers : r # s =>
            /\ UNCHANGED <<xfrBacklog[r], afd[r], output[r], spc[r]>>
    BY <1>t, <2>1 DEF XfrTypes
  <2> QED
    BY <2>1, <2>3, <2>6, <2>7, <2>8, <2>9, SameServer DEF XfrInv
<1>4. ASSUME NEW s \in Servers, Xfr!CopyBlock(s) PROVE XfrInv'
  <2>1. spc[s] = "read" /\ UNCHANGED <<xfrBacklog, afd, cpc>>
    BY <1>4 DEF Xfr!CopyBlock
  <2>2. CASE Xfr!SGoto(s, "failure") /\ UNCHANGED output
    <3>1. XfrTypes' /\ \A r \in Servers : spc'[r] = "read" => spc[r] = "read"
      BY <1>t, <2>1, <2>2 DEF XfrTypes, Xfr!SGoto
    <3> QED
      BY <2>1, <2>2, <3>1, SameServer DEF XfrInv
  <2>3. CASE output' = [output EXCEPT ![s] = Append(output[s], afd[s])] /\ UNCHANGED spc
    <3>1. Waits(s) /\ Serves(s) /\ Apart(s) /\ afd[s] \in Clients
      BY <2>1 DEF XfrInv, Serves
    <3>2. XfrTypes' /\ output'[s] = Append(output[s], afd[s])
      BY <1>t, <2>1, <2>3, <3>1 DEF XfrTypes
    <3>3. /\ Len(output[s]) \in Nat /\ Len(output'[s]) = Len(output[s]) + 1
          /\ output'[s][Len(output[s]) + 1] = afd[s]
          /\ \A y \in 1..Len(output[s]) : output'[s][y] = output[s][y]
      BY <1>t, <3>1, <3>2 DEF XfrTypes
    <3>4. \A y \in 1..Len(output'[s]) :
              y \in 1..Len(output[s]) \/ y = Len(output[s]) + 1
      BY <3>3
    <3>5. Waits(s)'
      BY <2>1, <2>3, <3>1, <3>3, <3>4 DEF Waits
    <3>6. ASSUME NEW y \in 1..Len(output'[s]), output'[s][y] = afd[s],
                 NEW z \in y..Len(output'[s])
          PROVE  output'[s][z] = afd[s]
      <4>1. CASE z = Len(output[s]) + 1
        BY <3>3, <4>1
      <4>2. CASE z # Len(output[s]) + 1
        <5>1. y \in 1..Len(output[s]) /\ z \in y..Len(output[s]) /\ z \in 1..Len(output[s])
          BY <3>3, <4>2
        <5> QED
          BY <2>1, <3>1, <3>3, <3>6, <5>1 DEF Serves
      <4> QED
        BY <4>1, <4>2
    <3>7. Serves(s)'
      <4>1. \A y \in 1..Len(output'[s]) : cpc[output'[s][y]] # "connect"
        BY <3>1, <3>3, <3>4 DEF Serves
      <4> QED
        BY <2>1, <2>3, <3>1, <3>6, <4>1 DEF Serves
    <3>8. ASSUME NEW x \in 1..Len(output'[s]), NEW y \in 1..Len(output'[s]), x < y,
                 output'[s][x] = output'[s][y], NEW z \in x..y
          PROVE  output'[s][z] = output'[s][x]
      <4>1. CASE y = Len(output[s]) + 1
        <5>1. output'[s][x] = afd[s] /\ z \in x..Len(output'[s])
          BY <3>3, <3>8, <4>1
        <5> QED
          BY <3>6, <5>1
      <4>2. CASE y # Len(output[s]) + 1
        <5>1. /\ x \in 1..Len(output[s]) /\ y \in 1..Len(output[s])
              /\ z \in 1..Len(output[s])
          BY <3>3, <3>8, <4>2
        <5>2. output[s][z] = output[s][x]
          BY <3>1, <3>3, <3>8, <5>1 DEF Apart
        <5> QED
          BY <3>3, <5>1, <5>2
      <4> QED
        BY <4>1, <4>2
    <3>9. Apart(s)'
      BY <3>8 DEF Apart
    <3>10. \A r \in Servers : r # s => UNCHANGED <<xfrBacklog[r], afd[r], output[r], spc[r]>>
      BY <1>t, <2>1, <2>3 DEF XfrTypes
    <3> QED
      BY <2>1, <3>2, <3>5, <3>7, <3>9, <3>10, SameServer DEF XfrInv
  <2> QED
    BY <1>4, <2>2, <2>3 DEF Xfr!CopyBlock
<1>5. ASSUME NEW s \in Servers, Xfr!CloseAfd(s) PROVE XfrInv'
  <2>1. /\ afd' = [afd EXCEPT ![s] = None] /\ UNCHANGED <<xfrBacklog, output, cpc>>
        /\ spc' = [spc EXCEPT ![s] = "accept"]
    BY <1>5 DEF Xfr!CloseAfd, Xfr!SGoto, Xfr!client
  <2>2. XfrTypes' /\ afd'[s] = None /\ spc'[s] = "accept"
    BY <1>t, <2>1 DEF XfrTypes
  <2>3. Waits(s) /\ Serves(s) /\ Apart(s)
    BY DEF XfrInv
  <2>4. \A x \in 1..Len(xfrBacklog[s]) : xfrBacklog[s][x] \in Clients
    BY <1>t DEF XfrTypes
  <2>5. Waits(s)'
    BY <1>t, <2>1, <2>2, <2>3, <2>4 DEF Waits
  <2>6. Serves(s)' /\ Apart(s)'
    BY <1>t, <2>1, <2>2, <2>3 DEF Serves, Apart
  <2>7. \A r \in Servers : r # s => UNCHANGED <<xfrBacklog[r], afd[r], output[r], spc[r]>>
    BY <1>t, <2>1 DEF XfrTypes
  <2> QED
    BY <2>1, <2>2, <2>5, <2>6, <2>7, SameServer DEF XfrInv
<1>6. ASSUME NEW c \in Clients, NEW s \in Servers, Xfr!ConnectTo(c, s) PROVE XfrInv'
  <2>1. /\ xfrBacklog' = [xfrBacklog EXCEPT ![s] = Append(xfrBacklog[s], c)]
        /\ cpc[c] = "connect" /\ cpc' = [cpc EXCEPT ![c] = "read"]
        /\ UNCHANGED <<spc, afd, output>>
    BY <1>6 DEF Xfr!ConnectTo, Xfr!CGoto
  <2>2. XfrTypes' /\ xfrBacklog'[s] = Append(xfrBacklog[s], c)
    BY <1>t, <2>1 DEF XfrTypes
  <2>3. \A d \in Clients : cpc'[d] = "connect" => cpc[d] = "connect"
    BY <1>t, <2>1 DEF XfrTypes
  <2>4. Waits(s) /\ Serves(s) /\ Apart(s)
    BY DEF XfrInv
  <2>5. /\ Len(xfrBacklog[s]) \in Nat /\ Len(xfrBacklog'[s]) = Len(xfrBacklog[s]) + 1
        /\ xfrBacklog'[s][Len(xfrBacklog[s]) + 1] = c
        /\ \A x \in 1..Len(xfrBacklog[s]) : /\ xfrBacklog'[s][x] = xfrBacklog[s][x]
                                            /\ xfrBacklog[s][x] \in Clients
        /\ \A y \in 1..Len(output[s]) : output[s][y] \in Clients
    BY <1>t, <2>2 DEF XfrTypes
  <2>6. \A x \in 1..Len(xfrBacklog'[s]) :
            x \in 1..Len(xfrBacklog[s]) \/ x = Len(xfrBacklog[s]) + 1
    BY <2>5
  <2>7. /\ \A x \in 1..Len(xfrBacklog[s]) : xfrBacklog[s][x] # c
        /\ \A y \in 1..Len(output[s]) : output[s][y] # c
        /\ c # afd[s] /\ cpc'[c] # "connect"
    BY <1>t, <2>1, <2>4 DEF Waits, Serves, XfrTypes
  <2>8. Waits(s)'
    <3>1. \A x \in 1..Len(xfrBacklog'[s]) :
              /\ cpc'[xfrBacklog'[s][x]] # "connect" /\ xfrBacklog'[s][x] # afd[s]
              /\ \A y \in 1..Len(output[s]) : output[s][y] # xfrBacklog'[s][x]
      BY <2>3, <2>4, <2>5, <2>6, <2>7 DEF Waits
    <3>2. ASSUME NEW x \in 1..Len(xfrBacklog'[s]), NEW z \in 1..Len(xfrBacklog'[s]),
                 xfrBacklog'[s][z] = xfrBacklog'[s][x]
          PROVE  z = x
      <4>1. CASE x = Len(xfrBacklog[s]) + 1
        BY <2>5, <2>6, <2>7, <3>2, <4>1
      <4>2. CASE x # Len(xfrBacklog[s]) + 1
        BY <2>4, <2>5, <2>6, <2>7, <3>2, <4>2 DEF Waits
      <4> QED
        BY <4>1, <4>2
    <3> QED
      BY <2>1, <3>1, <3>2 DEF Waits
  <2>9. Serves(s)' /\ Apart(s)'
    BY <2>1, <2>3, <2>4, <2>5 DEF Serves, Apart
  <2>10. \A r \in Servers : r # s => UNCHANGED <<xfrBacklog[r], afd[r], output[r], spc[r]>>
    BY <1>t, <2>1 DEF XfrTypes
  <2> QED
    BY <2>2, <2>3, <2>8, <2>9, <2>10, SameServer DEF XfrInv
<1>7. ASSUME NEW c \in Clients, NEW next, Xfr!CGoto(c, next),
             next \in {"read", "write", "writeError", "success", "failure", "sigpipe"},
             UNCHANGED <<xfrBacklog, afd, output, spc>>
      PROVE  XfrInv'
  <2>1. XfrTypes' /\ \A d \in Clients : cpc'[d] = "connect" => cpc[d] = "connect"
    BY <1>t, <1>7 DEF XfrTypes, Xfr!CGoto
  <2> QED
    BY <1>7, <2>1, SameServer DEF XfrInv
<1>8. ASSUME NEW c \in Clients, ~\E s \in Servers : Xfr!ConnectTo(c, s),
             Xfr!ClientStep(c) \/ Xfr!ClientDies(c)
      PROVE  XfrInv'
  BY <1>7, <1>8
  DEF Xfr!ClientStep, Xfr!ConnectFails, Xfr!ReadBlock, Xfr!WriteBlock, Xfr!EndOfFile,
      Xfr!ReadFails, Xfr!WriteFails, Xfr!ClientDies, Xfr!server
<1> QED
  BY <1>2, <1>3, <1>4, <1>5, <1>6, <1>8, <1>d DEF Xfr!Next, Xfr!ServerStep

LEMMA XfrStands == XfrInv /\ UNCHANGED Xfr!vars => XfrInv'
<1> SUFFICES ASSUME XfrInv, UNCHANGED Xfr!vars PROVE XfrInv'
  OBVIOUS
<1>1. UNCHANGED <<xfrBacklog, afd, output, spc, cpc>>
  BY DEF Xfr!vars, Xfr!server, Xfr!client
<1>2. XfrTypes'
  BY <1>1 DEF XfrInv, XfrTypes
<1> QED
  BY <1>1, <1>2, SameServer DEF XfrInv

(* us_xfr_sv.c:42-70: a server that serves one client after the other does *)
(* not mix their inputs, for any number of servers, clients and blocks and *)
(* whatever of the servers fails or takes the path from another.           *)
THEOREM InputsApart == FairSpec => []OneAfterTheOther
<1>1. Init => XfrInv
  BY XfrInit DEF Init
<1>2. XfrInv /\ [Next]_vars => XfrInv'
  <2>1. UNCHANGED xfrVars => UNCHANGED Xfr!vars
    BY DEF xfrVars, Xfr!vars, Xfr!server, Xfr!client
  <2> QED
    BY <2>1, XfrStep, XfrStands DEF Next, OneShotRuns, EchoRuns, LevelRuns, XfrRuns, vars
<1>3. XfrInv => OneAfterTheOther
  BY DEF XfrInv, Apart, OneAfterTheOther, Xfr!OneAfterTheOther
<1> QED
  BY <1>1, <1>2, <1>3, PTL DEF FairSpec, Spec

-------------------------------------------------------------------------------
(* A queue that holds every member of a set once.                          *)
Lists(q, S) ==
    /\ q \in Seq(S)
    /\ \A x \in S : \E i \in 1..Len(q) : q[i] = x
    /\ \A i, k \in 1..Len(q) : q[i] = q[k] => i = k

LEMMA ListsEmpty ==
    ASSUME NEW q, NEW S, Lists(q, S)
    PROVE  /\ q = <<>> <=> S = {}
           /\ Len(q) \in Nat
BY DEF Lists

LEMMA NothingListed == Lists(<<>>, {})
BY DEF Lists

LEMMA ListsAppend ==
    ASSUME NEW q, NEW S, NEW x, Lists(q, S), x \notin S
    PROVE  /\ Lists(Append(q, x), S \cup {x})
           /\ Append(q, x) # <<>> /\ Len(Append(q, x)) = Len(q) + 1
           /\ Head(Append(q, x)) = IF q = <<>> THEN x ELSE Head(q)
<1> DEFINE T == S \cup {x}
           r == Append(q, x)
<1>1. q \in Seq(S) /\ q \in Seq(T) /\ x \in T
  BY DEF Lists
<1>2. /\ r \in Seq(T) /\ Len(q) \in Nat /\ Len(r) = Len(q) + 1
      /\ \A i \in 1..Len(q) : r[i] = q[i] /\ q[i] \in S
      /\ r[Len(q) + 1] = x /\ r # <<>>
  <2>1. \A i \in 1..Len(q) : q[i] \in S
    BY <1>1
  <2>2. /\ r \in Seq(T) /\ Len(q) \in Nat /\ Len(r) = Len(q) + 1
        /\ \A i \in 1..Len(q) : r[i] = q[i]
        /\ r[Len(q) + 1] = x
    BY <1>1
  <2>3. r # <<>>
    BY <2>2
  <2> QED
    BY <2>1, <2>2, <2>3
<1>3. Head(r) = IF q = <<>> THEN x ELSE Head(q)
  BY <1>1
<1> HIDE DEF r
<1>4. /\ \A i \in 1..Len(q) : i \in 1..Len(r)
      /\ Len(q) + 1 \in 1..Len(r)
      /\ \A i \in 1..Len(r) : i \in 1..Len(q) \/ i = Len(q) + 1
  BY <1>2
<1>5. \A y \in T : \E i \in 1..Len(r) : r[i] = y
  BY <1>2, <1>4 DEF Lists
<1>6. ASSUME NEW i \in 1..Len(r), NEW k \in 1..Len(r), r[i] = r[k]
      PROVE  i = k
  <2>1. \A j \in 1..Len(q) : r[j] # x
    BY <1>2
  <2>2. \A j, l \in 1..Len(q) : r[j] = r[l] => j = l
    BY <1>2 DEF Lists
  <2> QED
    BY <1>2, <1>4, <1>6, <2>1, <2>2
<1>7. Lists(r, T)
  BY <1>2, <1>5, <1>6 DEF Lists
<1> QED
  BY <1>2, <1>3, <1>7 DEF r

LEMMA ListsTail ==
    ASSUME NEW q, NEW S, Lists(q, S), q # <<>>
    PROVE  /\ Head(q) \in S /\ Lists(Tail(q), S \ {Head(q)})
           /\ Len(Tail(q)) = Len(q) - 1
<1> DEFINE h == Head(q)
           r == Tail(q)
<1>1. /\ q \in Seq(S) /\ h \in S /\ h = q[1] /\ r \in Seq(S)
      /\ Len(q) \in Nat \ {0} /\ Len(r) = Len(q) - 1
      /\ \A i \in 1..Len(r) : r[i] = q[i + 1]
  BY DEF Lists
<1> HIDE DEF h, r
<1>2. /\ \A i \in 1..Len(r) : i + 1 \in 1..Len(q) /\ i + 1 # 1 /\ i \in Int
      /\ \A i \in 1..Len(q) : i # 1 => i - 1 \in 1..Len(r) /\ (i - 1) + 1 = i
      /\ 1 \in 1..Len(q)
  BY <1>1
<1>3. \A i, k \in 1..Len(q) : q[i] = q[k] => i = k
  BY DEF Lists
<1>4. \A i \in 1..Len(r) : r[i] \in S \ {h}
  <2> SUFFICES ASSUME NEW i \in 1..Len(r) PROVE r[i] \in S \ {h}
    OBVIOUS
  <2>1. q[i + 1] # q[1]
    BY <1>2, <1>3, Zenon
  <2> QED
    BY <1>1, <2>1
<1>5. r \in Seq(S \ {h})
  BY <1>1, <1>4
<1>6. \A x \in S \ {h} : \E i \in 1..Len(r) : r[i] = x
  <2> SUFFICES ASSUME NEW x \in S \ {h} PROVE \E i \in 1..Len(r) : r[i] = x
    OBVIOUS
  <2>1. PICK i \in 1..Len(q) : q[i] = x
    BY DEF Lists
  <2>2. i - 1 \in 1..Len(r) /\ (i - 1) + 1 = i
    BY <1>1, <1>2, <2>1
  <2>3. r[i - 1] = x
    BY <1>1, <2>1, <2>2
  <2> QED
    BY <2>2, <2>3
<1>7. ASSUME NEW i \in 1..Len(r), NEW k \in 1..Len(r), r[i] = r[k] PROVE i = k
  <2>1. q[i + 1] = q[k + 1]
    BY <1>1, <1>7
  <2>2. i + 1 = k + 1
    BY <1>2, <1>3, <2>1, Zenon
  <2> QED
    BY <1>2, <2>2
<1>8. Lists(r, S \ {h})
  BY <1>5, <1>6, <1>7 DEF Lists
<1> QED
  BY <1>1, <1>8 DEF h, r

-------------------------------------------------------------------------------
(* 9_3_epoll_LT_ET.cpp: the backlog holds each connection that waits once, *)
(* and all but the first of them came while another was waiting.           *)
LevelTypes ==
    /\ levelState \in [TcpClients -> {"out", "queued", "open", "closed"}]
    /\ levelPeer \in [TcpClients -> {"up", "ended", "reset"}]
    /\ levelInbox \in [TcpClients -> Nat] /\ levelSent \in [TcpClients -> Nat]
    /\ edge \in BOOLEAN /\ passedOver \subseteq TcpClients

LevelCounts(c) == levelSent[c] <= MaxSend[c] /\ levelInbox[c] <= levelSent[c]

LevelQueued == {c \in TcpClients : levelState[c] = "queued"}

LevelBacklog ==
    /\ Lists(levelBacklog, LevelQueued) /\ Len(levelBacklog) <= Backlog
    /\ \A c \in LevelQueued : c # Head(levelBacklog) => c \in passedOver

LevelEvents ==
    /\ evs \subseteq Level!Open \cup {"lfd"}
    /\ "lfd" \in evs => levelBacklog # <<>>

LevelInv ==
    /\ LevelTypes /\ LevelBacklog /\ LevelEvents
    /\ \A c \in TcpClients : LevelCounts(c)
    /\ Level!StrandedOnlyByBurst

LEMMA LevelConstants ==
    /\ "lfd" \notin TcpClients /\ MaxSend \in [TcpClients -> Nat]
    /\ Backlog \in Nat \ {0} /\ MaxOpen \in Nat
BY SocketsAssumption DEF SocketsAssumption, Level!LevelAssumption

LEMMA LevelInit == Level!Init => LevelInv
<1> SUFFICES ASSUME Level!Init PROVE LevelInv
  OBVIOUS
<1>1. LevelTypes
  BY DEF Level!Init, LevelTypes
<1>2. LevelQueued = {} /\ levelBacklog = <<>> /\ evs = {}
  BY DEF Level!Init, LevelQueued
<1>3. Len(levelBacklog) = 0
  BY <1>2
<1>4. LevelBacklog
  BY <1>2, <1>3, NothingListed, LevelConstants DEF LevelBacklog
<1>5. LevelEvents
  BY <1>2 DEF LevelEvents
<1>6. \A c \in TcpClients : LevelCounts(c)
  BY LevelConstants DEF Level!Init, LevelCounts
<1>7. Level!StrandedOnlyByBurst
  BY <1>2 DEF Level!StrandedOnlyByBurst, LevelQueued
<1> QED
  BY <1>1, <1>4, <1>5, <1>6, <1>7 DEF LevelInv

(* Steps that leave the backlog and the listening socket alone.            *)
LEMMA LevelFrame ==
    ASSUME LevelInv, LevelTypes', \A c \in TcpClients : LevelCounts(c)',
           UNCHANGED <<levelBacklog, edge, passedOver>>,
           LevelQueued' = LevelQueued,
           evs' \subseteq (evs \cap Level!Open') \cup {"lfd"},
           "lfd" \in evs' <=> "lfd" \in evs
    PROVE  LevelInv'
<1>1. LevelBacklog'
  BY DEF LevelInv, LevelBacklog
<1>2. LevelEvents'
  BY DEF LevelInv, LevelEvents
<1>3. Level!StrandedOnlyByBurst'
  BY DEF LevelInv, Level!StrandedOnlyByBurst, LevelQueued
<1> QED
  BY <1>1, <1>2, <1>3 DEF LevelInv

LEMMA LevelConnect ==
    ASSUME LevelInv, NEW c \in TcpClients, Level!Connect(c)
    PROVE  LevelInv'
<1>1. /\ levelState[c] = "out" /\ Len(levelBacklog) < Backlog
      /\ levelState' = [levelState EXCEPT ![c] = "queued"]
      /\ levelBacklog' = Append(levelBacklog, c)
      /\ edge' = TRUE
      /\ passedOver' = IF levelBacklog = <<>> THEN passedOver ELSE passedOver \cup {c}
      /\ UNCHANGED <<levelPeer, levelInbox, levelSent, evs>>
  BY DEF Level!Connect
<1>2. LevelTypes' /\ \A d \in TcpClients : LevelCounts(d)'
  BY <1>1 DEF LevelInv, LevelTypes, LevelCounts
<1>3. /\ LevelQueued' = LevelQueued \cup {c} /\ c \notin LevelQueued
      /\ Level!Open' = Level!Open
  BY <1>1 DEF LevelInv, LevelTypes, LevelQueued, Level!Open
<1>4. Lists(levelBacklog, LevelQueued)
      /\ \A d \in LevelQueued : d # Head(levelBacklog) => d \in passedOver
  BY DEF LevelInv, LevelBacklog
<1>5. /\ Lists(levelBacklog', LevelQueued') /\ levelBacklog' # <<>>
      /\ Len(levelBacklog') = Len(levelBacklog) + 1
      /\ Head(levelBacklog') = IF levelBacklog = <<>> THEN c ELSE Head(levelBacklog)
  BY <1>1, <1>3, <1>4, ListsAppend
<1>6. Len(levelBacklog') <= Backlog
  BY <1>1, <1>4, <1>5, ListsEmpty, LevelConstants
<1>7. \A d \in LevelQueued' : d # Head(levelBacklog') => d \in passedOver'
  BY <1>1, <1>3, <1>4, <1>5, ListsEmpty
<1>8. LevelBacklog'
  BY <1>5, <1>6, <1>7 DEF LevelBacklog
<1>9. LevelEvents'
  BY <1>1, <1>3, <1>5 DEF LevelInv, LevelEvents
<1>10. Level!StrandedOnlyByBurst'
  BY <1>1 DEF Level!StrandedOnlyByBurst
<1> QED
  BY <1>2, <1>8, <1>9, <1>10 DEF LevelInv

LEMMA LevelAccept ==
    ASSUME LevelInv, Level!Accept
    PROVE  LevelInv'
<1> DEFINE h == Head(levelBacklog)
<1>1. /\ "lfd" \in evs /\ evs' = evs \ {"lfd"}
      /\ \/ /\ levelState' = [levelState EXCEPT ![h] = "open"]
            /\ levelBacklog' = Tail(levelBacklog)
            /\ UNCHANGED passedOver
         \/ /\ passedOver' = passedOver \cup {h}
            /\ UNCHANGED <<levelState, levelBacklog>>
      /\ UNCHANGED <<levelPeer, levelInbox, levelSent, edge>>
  BY DEF Level!Accept
<1>2. /\ Lists(levelBacklog, LevelQueued) /\ levelBacklog # <<>>
      /\ \A d \in LevelQueued : d # h => d \in passedOver
  BY <1>1 DEF LevelInv, LevelBacklog, LevelEvents
<1>3. /\ h \in LevelQueued /\ Lists(Tail(levelBacklog), LevelQueued \ {h})
      /\ Len(Tail(levelBacklog)) = Len(levelBacklog) - 1
      /\ Len(levelBacklog) \in Nat /\ h \in TcpClients
  <2>1. Len(levelBacklog) \in Nat
    BY <1>2, ListsEmpty
  <2>2. /\ h \in LevelQueued /\ Lists(Tail(levelBacklog), LevelQueued \ {h})
        /\ Len(Tail(levelBacklog)) = Len(levelBacklog) - 1
    BY <1>2, ListsTail
  <2> QED
    BY <2>1, <2>2 DEF LevelQueued
<1> HIDE DEF h
<1>4. LevelTypes' /\ \A d \in TcpClients : LevelCounts(d)'
  BY <1>1, <1>3 DEF LevelInv, LevelTypes, LevelCounts
<1>5. /\ Level!Open \subseteq Level!Open'
      /\ \/ /\ LevelQueued' = LevelQueued \ {h} /\ levelBacklog' = Tail(levelBacklog)
         \/ LevelQueued' = LevelQueued /\ levelBacklog' = levelBacklog
  BY <1>1, <1>3 DEF LevelInv, LevelTypes, LevelQueued, Level!Open
<1>6. Lists(levelBacklog', LevelQueued')
  <2>1. CASE LevelQueued' = LevelQueued \ {h} /\ levelBacklog' = Tail(levelBacklog)
    BY <1>3, <2>1
  <2>2. CASE LevelQueued' = LevelQueued /\ levelBacklog' = levelBacklog
    BY <1>2, <2>2
  <2> QED
    BY <1>5, <2>1, <2>2
<1>7. Len(levelBacklog') <= Backlog
  <2>1. Len(levelBacklog) <= Backlog
    BY DEF LevelInv, LevelBacklog
  <2>2. Len(levelBacklog') \in {Len(levelBacklog), Len(levelBacklog) - 1}
    BY <1>1, <1>3
  <2> QED
    BY <1>3, <2>1, <2>2, LevelConstants
<1>8. \A d \in LevelQueued' : d \in passedOver'
  BY <1>1, <1>2, <1>3 DEF LevelQueued, LevelInv, LevelTypes
<1>9. LevelBacklog'
  BY <1>6, <1>7, <1>8 DEF LevelBacklog
<1>10. LevelEvents'
  <2>1. "lfd" \notin evs' /\ evs \subseteq Level!Open \cup {"lfd"}
    BY <1>1 DEF LevelInv, LevelEvents
  <2> QED
    BY <1>1, <1>5, <2>1 DEF LevelEvents
<1>11. Level!StrandedOnlyByBurst'
  BY <1>8 DEF Level!StrandedOnlyByBurst, LevelQueued
<1> QED
  BY <1>4, <1>9, <1>10, <1>11 DEF LevelInv

LEMMA LevelWait ==
    ASSUME LevelInv, Level!EpollWait
    PROVE  LevelInv'
<1>1. /\ evs = {} /\ edge' = FALSE
      /\ evs' = {c \in Level!Open : Level!Readable(c)}
                  \cup (IF edge /\ levelBacklog # <<>> THEN {"lfd"} ELSE {})
      /\ UNCHANGED <<levelState, levelPeer, levelBacklog, levelInbox, levelSent, passedOver>>
  BY DEF Level!EpollWait
<1>2. LevelTypes' /\ LevelQueued' = LevelQueued /\ \A d \in TcpClients : LevelCounts(d)'
  BY <1>1 DEF LevelInv, LevelTypes, LevelCounts, LevelQueued
<1>3. LevelBacklog'
  BY <1>1, <1>2 DEF LevelInv, LevelBacklog
<1>4. "lfd" \in evs' => edge /\ levelBacklog # <<>>
  BY <1>1, LevelConstants DEF Level!Open
<1>5. LevelEvents'
  BY <1>1, <1>4 DEF LevelEvents, Level!Open
<1>6. LevelQueued # {} => levelBacklog # <<>>
  BY ListsEmpty DEF LevelInv, LevelBacklog
<1>7. Level!StrandedOnlyByBurst'
  <2>1. SUFFICES ASSUME NEW c \in LevelQueued, "lfd" \notin evs' PROVE c \in passedOver
    BY <1>1 DEF Level!StrandedOnlyByBurst, LevelQueued
  <2>2. ~edge
    BY <1>1, <1>6, <2>1
  <2> QED
    BY <1>1, <2>1, <2>2 DEF LevelInv, Level!StrandedOnlyByBurst, LevelQueued
<1> QED
  BY <1>2, <1>3, <1>5, <1>7 DEF LevelInv

LEMMA LevelStep == LevelInv /\ Level!Next => LevelInv'
<1> SUFFICES ASSUME LevelInv, Level!Next PROVE LevelInv'
  OBVIOUS
<1> USE LevelConstants
<1>1. ASSUME NEW c \in TcpClients, Level!SendBlock(c) PROVE LevelInv'
  <2>1. /\ levelSent[c] < MaxSend[c]
        /\ levelSent' = [levelSent EXCEPT ![c] = @ + 1]
        /\ levelInbox' = [levelInbox EXCEPT ![c] = @ + 1]
        /\ UNCHANGED <<levelState, levelPeer, levelBacklog, edge, evs, passedOver>>
    BY <1>1 DEF Level!SendBlock
  <2>2. LevelTypes' /\ \A d \in TcpClients : LevelCounts(d)'
    BY <2>1 DEF LevelInv, LevelTypes, LevelCounts
  <2>3. LevelQueued' = LevelQueued /\ Level!Open' = Level!Open
    BY <2>1 DEF LevelQueued, Level!Open
  <2>4. evs' \subseteq (evs \cap Level!Open') \cup {"lfd"}
    BY <2>1, <2>3 DEF LevelInv, LevelEvents
  <2> QED
    BY <2>1, <2>2, <2>3, <2>4, LevelFrame
<1>2. ASSUME NEW c \in TcpClients, NEW how \in {"ended", "reset"},
             levelPeer' = [levelPeer EXCEPT ![c] = how],
             evs' \subseteq evs, "lfd" \in evs' <=> "lfd" \in evs,
             UNCHANGED <<levelState, levelBacklog, levelInbox, levelSent, edge, passedOver>>
      PROVE  LevelInv'
  <2>1. LevelTypes' /\ \A d \in TcpClients : LevelCounts(d)'
    BY <1>2 DEF LevelInv, LevelTypes, LevelCounts
  <2>2. LevelQueued' = LevelQueued /\ Level!Open' = Level!Open
    BY <1>2 DEF LevelQueued, Level!Open
  <2>3. evs' \subseteq (evs \cap Level!Open') \cup {"lfd"}
    BY <1>2, <2>2 DEF LevelInv, LevelEvents
  <2> QED
    BY <1>2, <2>1, <2>2, <2>3, LevelFrame
<1>3. ASSUME NEW c \in TcpClients, NEW how \in {"ended", "reset"}, Level!PeerBecomes(c, how)
      PROVE  LevelInv'
  BY <1>2, <1>3 DEF Level!PeerBecomes
<1>4. ASSUME NEW c \in TcpClients, Level!RecvError(c) PROVE LevelInv'
  BY <1>2, <1>4 DEF Level!RecvError
<1>5. ASSUME NEW c \in TcpClients, Level!RecvBlock(c) PROVE LevelInv'
  <2>1. /\ levelInbox[c] > 0 /\ levelInbox' = [levelInbox EXCEPT ![c] = @ - 1]
        /\ evs' = evs \ {c}
        /\ UNCHANGED <<levelState, levelPeer, levelBacklog, levelSent, edge, passedOver>>
    BY <1>5 DEF Level!RecvBlock
  <2>2. LevelTypes' /\ \A d \in TcpClients : LevelCounts(d)'
    BY <2>1 DEF LevelInv, LevelTypes, LevelCounts
  <2>3. LevelQueued' = LevelQueued /\ Level!Open' = Level!Open
    BY <2>1 DEF LevelQueued, Level!Open
  <2>4. evs' \subseteq (evs \cap Level!Open') \cup {"lfd"}
    BY <2>1, <2>3 DEF LevelInv, LevelEvents
  <2> QED
    BY <2>1, <2>2, <2>3, <2>4, LevelFrame
<1>6. ASSUME NEW c \in TcpClients, Level!RecvEnd(c) PROVE LevelInv'
  <2>1. /\ c \in evs /\ evs' = evs \ {c}
        /\ levelState' = [levelState EXCEPT ![c] = "closed"]
        /\ UNCHANGED <<levelPeer, levelBacklog, levelInbox, levelSent, edge, passedOver>>
    BY <1>6 DEF Level!RecvEnd
  <2>2. c \in Level!Open
    BY <2>1 DEF LevelInv, LevelEvents
  <2>3. LevelTypes' /\ \A d \in TcpClients : LevelCounts(d)'
    BY <2>1 DEF LevelInv, LevelTypes, LevelCounts
  <2>4. LevelQueued' = LevelQueued /\ Level!Open' = Level!Open \ {c}
    BY <2>1, <2>2 DEF LevelInv, LevelTypes, LevelQueued, Level!Open
  <2>5. evs' \subseteq (evs \cap Level!Open') \cup {"lfd"}
    BY <2>1, <2>4 DEF LevelInv, LevelEvents
  <2> QED
    BY <2>1, <2>3, <2>4, <2>5, LevelFrame
<1> QED
  BY <1>1, <1>3, <1>4, <1>5, <1>6, LevelConnect, LevelAccept, LevelWait
  DEF Level!Next, Level!Server, Level!Client

LEMMA LevelStands == LevelInv /\ UNCHANGED levelVars => LevelInv'
<1> SUFFICES ASSUME LevelInv, UNCHANGED levelVars PROVE LevelInv'
  OBVIOUS
<1>1. UNCHANGED <<levelState, levelPeer, levelBacklog, levelInbox, levelSent, edge, evs,
                  passedOver>>
  BY DEF levelVars
<1>2. LevelTypes' /\ \A c \in TcpClients : LevelCounts(c)'
  BY <1>1 DEF LevelInv, LevelTypes, LevelCounts
<1>3. LevelQueued' = LevelQueued /\ Level!Open' = Level!Open
  BY <1>1 DEF LevelQueued, Level!Open
<1>4. evs' \subseteq (evs \cap Level!Open') \cup {"lfd"}
  BY <1>1, <1>3 DEF LevelInv, LevelEvents
<1> QED
  BY <1>1, <1>2, <1>3, <1>4, LevelFrame

LEMMA LevelTyped == LevelInv => Level!TypeOK
<1> SUFFICES ASSUME LevelInv PROVE Level!TypeOK
  OBVIOUS
<1>1. levelBacklog \in Seq(LevelQueued) /\ Len(levelBacklog) <= Backlog
  BY DEF LevelInv, LevelBacklog, Lists
<1>2. \A c \in TcpClients :
          levelSent[c] \in 0..MaxSend[c] /\ levelInbox[c] \in 0..levelSent[c]
  BY LevelConstants DEF LevelInv, LevelTypes, LevelCounts
<1> QED
  BY <1>1, <1>2 DEF LevelInv, LevelTypes, LevelEvents, LevelQueued, Level!TypeOK

-------------------------------------------------------------------------------
(* 9_8_TCP_UDP.cpp: the backlog and the datagrams that wait are each there *)
(* once, the events main handles are those of readable descriptors, and a  *)
(* readable connection has an edge or an event.                            *)
EchoTypes ==
    /\ state \in [TcpClients -> {"out", "queued", "open", "closed"}]
    /\ peer \in [TcpClients -> {"up", "half", "gone", "probed", "reset"}]
    /\ inbox \in [TcpClients -> Nat] /\ outbox \in [TcpClients -> Nat]
    /\ sent \in [TcpClients -> Nat]
    /\ unsent \subseteq Datagrams
    /\ edges \subseteq Echo!Fds /\ echoEvents \subseteq Echo!Fds
    /\ reading \in TcpClients \cup {"none"}
    /\ pc \in {"wait", "events", "aborted", "sigpipe"}
    /\ behind \subseteq TcpClients \cup Datagrams

EchoCounts(c) ==
    sent[c] <= MaxSend[c] /\ inbox[c] <= sent[c] /\ outbox[c] <= SendBuffer

EchoQueued == {c \in TcpClients : state[c] = "queued"}

EchoBacklog == Lists(echoBacklog, EchoQueued) /\ Len(echoBacklog) <= Backlog

EchoDatagrams == \E D \in SUBSET (Datagrams \ unsent) : Lists(dgrams, D)

EchoInHand ==
    /\ pc = "wait" => echoEvents = {} /\ reading = "none"
    /\ reading # "none" => reading \in echoEvents
    /\ "lfd" \in echoEvents => echoBacklog # <<>>
    /\ "udpfd" \in echoEvents /\ ~Echo!Dead => dgrams # <<>>

EchoReported ==
    \A c \in TcpClients : Echo!Readable(c) => c \in edges \cup echoEvents

(* The events of f that are known or being handled: so many of the queue   *)
(* will be taken, and the others came behind another one.                  *)
Pending(f) == (IF f \in edges THEN 1 ELSE 0) + (IF f \in echoEvents THEN 1 ELSE 0)

EchoServed(q, f) == \A i \in 1..Len(q) : i > Pending(f) => q[i] \in behind

EchoStranded == EchoServed(echoBacklog, "lfd") /\ EchoServed(dgrams, "udpfd")

EchoInv ==
    /\ EchoTypes /\ EchoBacklog /\ EchoDatagrams /\ EchoInHand
    /\ \A c \in TcpClients : EchoCounts(c)
    /\ EchoReported /\ EchoStranded

LEMMA EchoConstants ==
    /\ "lfd" \notin TcpClients /\ "udpfd" \notin TcpClients /\ "none" \notin TcpClients
    /\ MaxSend \in [TcpClients -> Nat] /\ SendBuffer \in Nat \ {0} /\ Backlog \in Nat \ {0}
BY SocketsAssumption DEF SocketsAssumption, Echo!EchoAssumption

LEMMA EchoInit == Echo!Init => EchoInv
<1> SUFFICES ASSUME Echo!Init PROVE EchoInv
  OBVIOUS
<1>1. /\ state = [c \in TcpClients |-> "out"] /\ peer = [c \in TcpClients |-> "up"]
      /\ inbox = [c \in TcpClients |-> 0] /\ outbox = inbox /\ sent = inbox
      /\ echoBacklog = <<>> /\ dgrams = <<>> /\ unsent = Datagrams
      /\ edges = {} /\ echoEvents = {} /\ reading = "none" /\ pc = "wait" /\ behind = {}
  BY DEF Echo!Init
<1>2. EchoTypes
  BY <1>1 DEF EchoTypes
<1>3. EchoQueued = {} /\ Len(echoBacklog) = 0
  BY <1>1 DEF EchoQueued
<1>4. EchoBacklog /\ EchoDatagrams
  BY <1>1, <1>3, NothingListed, EchoConstants DEF EchoBacklog, EchoDatagrams
<1>5. EchoInHand /\ EchoReported /\ EchoStranded
  BY <1>1, EchoConstants
  DEF EchoInHand, EchoReported, EchoStranded, EchoServed, Echo!Readable
<1>6. \A c \in TcpClients : EchoCounts(c)
  BY <1>1, EchoConstants DEF EchoCounts
<1> QED
  BY <1>2, <1>4, <1>5, <1>6 DEF EchoInv

(* The server changes nothing about how a connection or a datagram came.   *)
LEMMA EchoJoins ==
    ASSUME Echo!Next
    PROVE  \/ behind' = behind
           \/ \E c \in TcpClients : Echo!Connect(c)
           \/ \E d \in Datagrams : Echo!SendDatagram(d)
BY DEF Echo!Next, Echo!Server, Echo!Client, Echo!SendBlock, Echo!PeerBecomes,
       Echo!ReadAnswer

LEMMA EchoTypesStep ==
    ASSUME EchoInv, Echo!Next
    PROVE  EchoTypes' /\ \A c \in TcpClients : EchoCounts(c)'
<1>0. EchoTypes /\ \A c \in TcpClients : EchoCounts(c)
  BY DEF EchoInv
<1> USE EchoConstants DEF EchoTypes, EchoCounts, Echo!Fds, Echo!tcp, Echo!udp, Echo!epoll
<1>1. ASSUME NEW c \in TcpClients, Echo!Connect(c)
      PROVE  EchoTypes' /\ \A d \in TcpClients : EchoCounts(d)'
  BY <1>0, <1>1 DEF Echo!Connect, Echo!Joins
<1>2. ASSUME NEW c \in TcpClients, Echo!SendBlock(c)
      PROVE  EchoTypes' /\ \A d \in TcpClients : EchoCounts(d)'
  <2>1. /\ sent[c] < MaxSend[c]
        /\ sent' = [sent EXCEPT ![c] = @ + 1] /\ inbox' = [inbox EXCEPT ![c] = @ + 1]
        /\ edges' \subseteq edges \cup {c}
        /\ UNCHANGED <<state, peer, outbox, unsent, echoEvents, reading, pc, behind>>
    BY <1>2 DEF Echo!SendBlock, Echo!Arrival
  <2>2. EchoTypes'
    BY <1>0, <2>1
  <2> QED
    BY <1>0, <2>1, <2>2
<1>3. ASSUME NEW c \in TcpClients, NEW how \in {"half", "gone", "reset"},
             Echo!PeerBecomes(c, how)
      PROVE  EchoTypes' /\ \A d \in TcpClients : EchoCounts(d)'
  BY <1>0, <1>3 DEF Echo!PeerBecomes, Echo!Arrival
<1>4. ASSUME NEW c \in TcpClients, Echo!ReadAnswer(c)
      PROVE  EchoTypes' /\ \A d \in TcpClients : EchoCounts(d)'
  BY <1>0, <1>4 DEF Echo!ReadAnswer
<1>5. ASSUME NEW d \in Datagrams, Echo!SendDatagram(d)
      PROVE  EchoTypes' /\ \A c \in TcpClients : EchoCounts(c)'
  BY <1>0, <1>5 DEF Echo!SendDatagram, Echo!Joins
<1>6. CASE Echo!EpollWait /\ UNCHANGED behind
  BY <1>0, <1>6 DEF Echo!EpollWait
<1>7. CASE Echo!Accept /\ UNCHANGED behind
  <2>1. Head(echoBacklog) \in TcpClients
    <3>1. echoBacklog # <<>> /\ Lists(echoBacklog, EchoQueued)
      BY <1>7 DEF Echo!Accept, Echo!Event, EchoInv, EchoInHand, EchoBacklog
    <3> QED
      BY <3>1, ListsTail DEF EchoQueued
  <2>2. /\ UNCHANGED <<peer, inbox, outbox, sent, unsent>> /\ reading' = "none"
        /\ state' = [state EXCEPT ![Head(echoBacklog)] = "open"]
        /\ pc' \in {"wait", "events"} /\ echoEvents' \subseteq echoEvents
        /\ edges' \subseteq edges \cup {Head(echoBacklog)}
    BY <1>7 DEF Echo!Accept, Echo!AddFd, Echo!NextEvent
  <2> QED
    BY <1>0, <1>7, <2>1, <2>2
<1>8. CASE Echo!Recvfrom /\ UNCHANGED behind
  BY <1>0, <1>8 DEF Echo!Recvfrom, Echo!NextEvent
<1>9. ASSUME NEW c \in TcpClients, Echo!StartReading(c), UNCHANGED behind
      PROVE  EchoTypes' /\ \A d \in TcpClients : EchoCounts(d)'
  BY <1>0, <1>9 DEF Echo!StartReading
<1>10. ASSUME NEW c \in TcpClients, Echo!EchoBlock(c), UNCHANGED behind
       PROVE  EchoTypes' /\ \A d \in TcpClients : EchoCounts(d)'
  <2>1. /\ inbox[c] > 0 /\ inbox' = [inbox EXCEPT ![c] = @ - 1]
        /\ UNCHANGED <<state, sent, unsent, edges, echoEvents, reading>>
        /\ peer' = [peer EXCEPT ![c] = "probed"] \/ peer' = peer
        /\ \/ outbox' = [outbox EXCEPT ![c] = IF @ < SendBuffer THEN @ + 1 ELSE @]
           \/ outbox' = outbox
        /\ pc' \in {pc, "sigpipe", "events"}
    BY <1>10 DEF Echo!EchoBlock, Echo!Send
  <2>2. EchoTypes'
    BY <1>0, <1>10, <2>1
  <2> QED
    BY <1>0, <2>1, <2>2
<1>11. ASSUME NEW c \in TcpClients,
              Echo!EndOfInput(c) \/ Echo!RecvError(c) \/ Echo!WouldBlock(c),
              UNCHANGED behind
       PROVE  EchoTypes' /\ \A d \in TcpClients : EchoCounts(d)'
  <2>1. /\ UNCHANGED <<peer, outbox, sent, unsent>>
        /\ \/ /\ state' = [state EXCEPT ![c] = "closed"]
              /\ inbox' = [inbox EXCEPT ![c] = 0]
           \/ UNCHANGED <<state, inbox>>
        /\ edges' \subseteq edges /\ echoEvents' \subseteq echoEvents
        /\ reading' \in {reading, "none"} /\ pc' \in {pc, "wait", "events"}
    BY <1>11 DEF Echo!EndOfInput, Echo!RecvError, Echo!WouldBlock, Echo!CloseConnection,
                 Echo!NextEvent
  <2> QED
    BY <1>0, <1>11, <2>1
<1> QED
  BY <1>1, <1>2, <1>3, <1>4, <1>5, <1>6, <1>7, <1>8, <1>9, <1>10, <1>11
  DEF Echo!Next, Echo!Server, Echo!Client

(* The steps that move nothing into or out of the backlog.                 *)
LEMMA EchoOthers ==
    ASSUME EchoTypes, Echo!Next, ~Echo!Accept, \A c \in TcpClients : ~Echo!Connect(c)
    PROVE  /\ echoBacklog' = echoBacklog
           /\ \A c \in TcpClients : \/ state'[c] = state[c]
                                    \/ state[c] = "open" /\ state'[c] = "closed"
<1> USE DEF Echo!tcp, EchoTypes
<1>1. ASSUME NEW c \in TcpClients,
             \/ Echo!SendBlock(c) \/ Echo!ReadAnswer(c) \/ Echo!StartReading(c)
             \/ Echo!EchoBlock(c) \/ Echo!WouldBlock(c)
             \/ \E how \in {"half", "gone", "reset"} : Echo!PeerBecomes(c, how)
      PROVE  UNCHANGED <<state, echoBacklog>>
  BY <1>1 DEF Echo!SendBlock, Echo!ReadAnswer, Echo!StartReading, Echo!EchoBlock,
              Echo!WouldBlock, Echo!PeerBecomes
<1>2. ASSUME \/ Echo!EpollWait \/ Echo!Recvfrom
             \/ \E d \in Datagrams : Echo!SendDatagram(d)
      PROVE  UNCHANGED <<state, echoBacklog>>
  BY <1>2 DEF Echo!EpollWait, Echo!Recvfrom, Echo!SendDatagram
<1>3. ASSUME NEW c \in TcpClients, Echo!EndOfInput(c) \/ Echo!RecvError(c)
      PROVE  /\ echoBacklog' = echoBacklog
             /\ \/ state' = state
                \/ state[c] = "open" /\ state' = [state EXCEPT ![c] = "closed"]
  BY <1>3 DEF Echo!EndOfInput, Echo!RecvError, Echo!CloseConnection
<1> QED
  BY <1>1, <1>2, <1>3 DEF Echo!Next, Echo!Server, Echo!Client

LEMMA EchoConnected ==
    ASSUME EchoInv, NEW c \in TcpClients, Echo!Connect(c)
    PROVE  /\ echoBacklog' = Append(echoBacklog, c) /\ echoBacklog' # <<>>
           /\ EchoBacklog'
<1>1. /\ state[c] = "out" /\ Len(echoBacklog) < Backlog
      /\ state' = [state EXCEPT ![c] = "queued"]
      /\ echoBacklog' = Append(echoBacklog, c)
  BY DEF Echo!Connect
<1>2. EchoQueued' = EchoQueued \cup {c} /\ c \notin EchoQueued
  BY <1>1 DEF EchoInv, EchoTypes, EchoQueued
<1>3. Lists(echoBacklog, EchoQueued) /\ Len(echoBacklog) \in Nat
  BY ListsEmpty DEF EchoInv, EchoBacklog
<1>4. /\ Lists(echoBacklog', EchoQueued') /\ echoBacklog' # <<>>
      /\ Len(echoBacklog') = Len(echoBacklog) + 1
  BY <1>1, <1>2, <1>3, ListsAppend
<1> QED
  BY <1>1, <1>3, <1>4, EchoConstants DEF EchoBacklog

LEMMA EchoAccepts ==
    ASSUME EchoInv, Echo!Accept
    PROVE  /\ Head(echoBacklog) \in EchoQueued
           /\ state' = [state EXCEPT ![Head(echoBacklog)] = "open"]
           /\ state'[Head(echoBacklog)] = "open"
           /\ EchoBacklog'
<1> DEFINE h == Head(echoBacklog)
<1>1. /\ state' = [state EXCEPT ![h] = "open"] /\ echoBacklog' = Tail(echoBacklog)
      /\ "lfd" \in echoEvents
  BY DEF Echo!Accept, Echo!Event
<1>2. echoBacklog # <<>> /\ Lists(echoBacklog, EchoQueued) /\ Len(echoBacklog) <= Backlog
  BY <1>1 DEF EchoInv, EchoInHand, EchoBacklog
<1>3. /\ h \in EchoQueued /\ Lists(echoBacklog', EchoQueued \ {h})
      /\ Len(echoBacklog') = Len(echoBacklog) - 1
  BY <1>1, <1>2, ListsTail
<1>4. Len(echoBacklog) \in Nat
  BY <1>2, ListsEmpty
<1> HIDE DEF h
<1>5. EchoQueued' = EchoQueued \ {h} /\ state'[h] = "open"
  BY <1>1, <1>3 DEF EchoInv, EchoTypes, EchoQueued
<1>6. EchoBacklog'
  BY <1>2, <1>3, <1>4, <1>5, EchoConstants DEF EchoBacklog
<1> QED
  BY <1>1, <1>3, <1>5, <1>6 DEF h

LEMMA EchoBacklogStep == EchoInv /\ Echo!Next => EchoBacklog'
<1> SUFFICES ASSUME EchoInv, Echo!Next, ~Echo!Accept, \A c \in TcpClients : ~Echo!Connect(c)
             PROVE  EchoBacklog'
  BY EchoConnected, EchoAccepts
<1>1. echoBacklog' = echoBacklog /\ EchoQueued' = EchoQueued
  BY EchoOthers DEF EchoInv, EchoQueued
<1> QED
  BY <1>1 DEF EchoInv, EchoBacklog

LEMMA EchoReceives ==
    ASSUME EchoInv, Echo!Recvfrom
    PROVE  /\ dgrams' = Tail(dgrams) /\ dgrams # <<>> /\ dgrams \in Seq(Datagrams)
           /\ EchoDatagrams'
<1>1. /\ dgrams' = Tail(dgrams) /\ unsent' = unsent /\ dgrams # <<>>
  BY DEF Echo!Recvfrom, Echo!Event, EchoInv, EchoInHand, Echo!Dead
<1>2. PICK D \in SUBSET (Datagrams \ unsent) : Lists(dgrams, D)
  BY DEF EchoInv, EchoDatagrams
<1> DEFINE h == Head(dgrams)
<1>3. h \in D /\ Lists(dgrams', D \ {h})
  BY <1>1, <1>2, ListsTail
<1> HIDE DEF h
<1>4. EchoDatagrams'
  BY <1>1, <1>2, <1>3 DEF EchoDatagrams
<1>5. dgrams \in Seq(Datagrams)
  BY <1>2 DEF Lists
<1> QED
  BY <1>1, <1>4, <1>5

(* Only the arrival and the reading of a datagram change the queue.        *)
LEMMA EchoQuiet ==
    ASSUME Echo!Next, ~Echo!Recvfrom, \A d \in Datagrams : ~Echo!SendDatagram(d)
    PROVE  UNCHANGED <<dgrams, unsent>>
<1> USE DEF Echo!udp
<1>1. ASSUME NEW c \in TcpClients,
             \/ Echo!Connect(c) \/ Echo!SendBlock(c) \/ Echo!ReadAnswer(c)
             \/ Echo!StartReading(c) \/ Echo!EchoBlock(c) \/ Echo!WouldBlock(c)
             \/ \E how \in {"half", "gone", "reset"} : Echo!PeerBecomes(c, how)
      PROVE  UNCHANGED <<dgrams, unsent>>
  BY <1>1 DEF Echo!Connect, Echo!SendBlock, Echo!ReadAnswer, Echo!StartReading,
              Echo!EchoBlock, Echo!WouldBlock, Echo!PeerBecomes
<1>2. ASSUME Echo!EpollWait \/ Echo!Accept PROVE UNCHANGED <<dgrams, unsent>>
  BY <1>2 DEF Echo!EpollWait, Echo!Accept
<1>3. ASSUME NEW c \in TcpClients, Echo!EndOfInput(c) \/ Echo!RecvError(c)
      PROVE  UNCHANGED <<dgrams, unsent>>
  BY <1>3 DEF Echo!EndOfInput, Echo!RecvError, Echo!CloseConnection
<1> QED
  BY <1>1, <1>2, <1>3 DEF Echo!Next, Echo!Server, Echo!Client

LEMMA EchoSends ==
    ASSUME EchoInv, NEW d \in Datagrams, Echo!SendDatagram(d)
    PROVE  EchoDatagrams' /\ dgrams' # <<>>
<1>1. d \in unsent /\ dgrams' = Append(dgrams, d) /\ unsent' = unsent \ {d}
  BY DEF Echo!SendDatagram
<1>2. PICK D \in SUBSET (Datagrams \ unsent) : Lists(dgrams, D)
  BY DEF EchoInv, EchoDatagrams
<1>3. Lists(dgrams', D \cup {d}) /\ dgrams' # <<>>
  BY <1>1, <1>2, ListsAppend
<1>4. D \cup {d} \in SUBSET (Datagrams \ unsent')
  BY <1>1, <1>2
<1> QED
  BY <1>3, <1>4 DEF EchoDatagrams

LEMMA EchoDatagramsStep == EchoInv /\ Echo!Next => EchoDatagrams'
<1> SUFFICES ASSUME EchoInv, Echo!Next, ~Echo!Recvfrom,
                    \A d \in Datagrams : ~Echo!SendDatagram(d)
             PROVE  EchoDatagrams'
  BY EchoReceives, EchoSends
<1>1. UNCHANGED <<dgrams, unsent>>
  BY EchoQuiet
<1> QED
  BY <1>1 DEF EchoInv, EchoDatagrams

(* What a step does to the edges and events.                               *)
LEMMA EchoEdges ==
    ASSUME EchoInv, Echo!Next
    PROVE  \/ /\ Echo!EpollWait
           \/ /\ edges \subseteq edges' /\ UNCHANGED <<echoEvents, reading>>
              /\ pc' = pc
           \/ /\ Echo!Accept \/ Echo!Recvfrom
              /\ edges \subseteq edges'
           \/ \E c \in TcpClients :
                 /\ Echo!Reading(c)
                 /\ edges' \in {edges, edges \ {c}}
                 /\ \/ UNCHANGED <<echoEvents, reading>> /\ pc' # "wait"
                    \/ Echo!NextEvent(c)
           \/ \E c \in TcpClients : Echo!StartReading(c)
<1> USE DEF Echo!epoll
<1>1. ASSUME NEW c \in TcpClients,
             \/ Echo!Connect(c) \/ Echo!SendBlock(c) \/ Echo!ReadAnswer(c)
             \/ \E how \in {"half", "gone", "reset"} : Echo!PeerBecomes(c, how)
      PROVE  edges \subseteq edges' /\ UNCHANGED <<echoEvents, reading, pc>>
  BY <1>1 DEF Echo!Connect, Echo!SendBlock, Echo!ReadAnswer, Echo!PeerBecomes, Echo!Arrival
<1>2. ASSUME NEW d \in Datagrams, Echo!SendDatagram(d)
      PROVE  edges \subseteq edges' /\ UNCHANGED <<echoEvents, reading, pc>>
  BY <1>2 DEF Echo!SendDatagram
<1>3. Echo!Accept => edges \subseteq edges'
  BY DEF Echo!Accept, Echo!AddFd
<1>4. Echo!Recvfrom => edges \subseteq edges'
  BY DEF Echo!Recvfrom
<1>5. ASSUME NEW c \in TcpClients, Echo!EchoBlock(c)
      PROVE  Echo!Reading(c) /\ UNCHANGED <<edges, echoEvents, reading>> /\ pc' # "wait"
  BY <1>5 DEF Echo!EchoBlock, Echo!Send, Echo!Reading
<1>6. ASSUME NEW c \in TcpClients, Echo!EndOfInput(c)
      PROVE  /\ Echo!Reading(c) /\ edges' = edges \ {c}
             /\ UNCHANGED <<echoEvents, reading>> /\ pc' # "wait"
  BY <1>6 DEF Echo!EndOfInput, Echo!CloseConnection, Echo!Reading
<1>7. ASSUME NEW c \in TcpClients, Echo!RecvError(c) \/ Echo!WouldBlock(c)
      PROVE  /\ Echo!Reading(c) /\ edges' \in {edges, edges \ {c}} /\ Echo!NextEvent(c)
  BY <1>7 DEF Echo!RecvError, Echo!WouldBlock, Echo!CloseConnection
<1> QED
  BY <1>1, <1>2, <1>3, <1>4, <1>5, <1>6, <1>7 DEF Echo!Next, Echo!Server, Echo!Client

LEMMA EchoInHandStep == EchoInv /\ Echo!Next => EchoInHand'
<1> SUFFICES ASSUME EchoInv, Echo!Next PROVE EchoInHand'
  OBVIOUS
<1>0. EchoInHand /\ ~Echo!Dead /\ EchoTypes
  BY DEF EchoInv, Echo!Next
<1>1. ("lfd" \in echoEvents /\ ~Echo!Accept => echoBacklog' # <<>>)
      /\ ("udpfd" \in echoEvents /\ ~Echo!Recvfrom => dgrams' # <<>>)
  <2>1. CASE Echo!Accept \/ \E c \in TcpClients : Echo!Connect(c)
    <3>1. ~Echo!Accept => echoBacklog' # <<>>
      BY <2>1, EchoConnected
    <3>2. UNCHANGED dgrams
      BY <2>1 DEF Echo!Accept, Echo!Connect, Echo!udp
    <3> QED
      BY <1>0, <3>1, <3>2 DEF EchoInHand
  <2>2. CASE ~Echo!Accept /\ \A c \in TcpClients : ~Echo!Connect(c)
    <3>1. UNCHANGED echoBacklog
      BY <1>0, <2>2, EchoOthers
    <3>2. ~Echo!Recvfrom => dgrams' = dgrams \/ dgrams' # <<>>
      BY EchoQuiet, EchoSends
    <3> QED
      BY <1>0, <3>1, <3>2 DEF EchoInHand
  <2> QED
    BY <2>1, <2>2
<1>2. CASE Echo!EpollWait
  <2>1. /\ pc' = "events" /\ reading' = "none" /\ UNCHANGED <<echoBacklog, dgrams>>
        /\ echoEvents' = {f \in edges : Echo!Readable(f)}
    BY <1>0, <1>2 DEF Echo!EpollWait, Echo!tcp, Echo!udp, EchoInHand
  <2> QED
    BY <2>1, EchoConstants DEF EchoInHand, Echo!Readable
<1>3. CASE UNCHANGED <<echoEvents, reading>> /\ pc' = pc
  <2>1. (~Echo!Accept /\ ~Echo!Recvfrom) \/ echoEvents' # echoEvents \/ Echo!Dead'
    BY DEF Echo!Accept, Echo!Recvfrom, Echo!Event, Echo!NextEvent, Echo!Dead
  <2> QED
    BY <1>0, <1>1, <1>3, <2>1 DEF EchoInHand, Echo!Dead
<1>4. CASE Echo!Accept
  <2>1. /\ echoEvents' = echoEvents \ {"lfd"} /\ reading' = "none"
        /\ pc' = IF echoEvents' = {} THEN "wait" ELSE "events"
        /\ UNCHANGED dgrams
    BY <1>4 DEF Echo!Accept, Echo!NextEvent, Echo!udp
  <2> QED
    BY <1>0, <2>1 DEF EchoInHand
<1>5. CASE Echo!Recvfrom
  <2>1. /\ UNCHANGED echoBacklog /\ reading = "none"
        /\ \/ pc' = "aborted" /\ UNCHANGED <<echoEvents, reading>>
           \/ /\ echoEvents' = echoEvents \ {"udpfd"} /\ reading' = "none"
              /\ pc' = IF echoEvents' = {} THEN "wait" ELSE "events"
    BY <1>5 DEF Echo!Recvfrom, Echo!NextEvent, Echo!tcp, Echo!Event
  <2> QED
    BY <1>0, <2>1 DEF EchoInHand, Echo!Dead
<1>6. ASSUME NEW c \in TcpClients, Echo!Reading(c),
             (UNCHANGED <<echoEvents, reading>> /\ pc' # "wait") \/ Echo!NextEvent(c)
      PROVE  EchoInHand'
  <2>1. ~Echo!Accept /\ ~Echo!Recvfrom
    BY <1>6, EchoConstants DEF Echo!Reading, Echo!Accept, Echo!Recvfrom, Echo!Event
  <2>2. \/ UNCHANGED <<echoEvents, reading>> /\ pc' # "wait"
        \/ /\ echoEvents' = echoEvents \ {c} /\ reading' = "none"
           /\ pc' = IF echoEvents' = {} THEN "wait" ELSE "events"
    BY <1>6 DEF Echo!NextEvent
  <2> QED
    BY <1>0, <1>1, <2>1, <2>2 DEF EchoInHand
<1>7. ASSUME NEW c \in TcpClients, Echo!StartReading(c) PROVE EchoInHand'
  <2>1. /\ pc = "events" /\ c \in echoEvents /\ reading' = c /\ UNCHANGED <<echoEvents, pc>>
        /\ UNCHANGED <<echoBacklog, dgrams>>
    BY <1>7 DEF Echo!StartReading, Echo!Event, Echo!tcp, Echo!udp
  <2> QED
    BY <1>0, <2>1 DEF EchoInHand, Echo!Dead
<1> QED
  BY <1>2, <1>3, <1>4, <1>5, <1>6, <1>7, EchoEdges

(* What makes a connection readable gives it an edge; an event is given up *)
(* only for a connection that has nothing left, or is closed.              *)
LEMMA EchoReportedStep == EchoInv /\ Echo!Next => EchoReported'
<1> SUFFICES ASSUME EchoInv, Echo!Next, NEW c \in TcpClients, Echo!Readable(c)'
             PROVE  c \in edges' \cup echoEvents'
  BY DEF EchoReported
<1>0. /\ EchoTypes /\ EchoInHand /\ c # "lfd" /\ c # "udpfd" /\ c # "none"
      /\ Echo!Readable(c) => c \in edges \cup echoEvents
  BY EchoConstants DEF EchoInv, EchoReported
<1>r. /\ Echo!Readable(c) <=> state[c] = "open" /\ (inbox[c] > 0 \/ peer[c] # "up")
      /\ state'[c] = "open" /\ (inbox'[c] > 0 \/ peer'[c] # "up")
  BY <1>0 DEF Echo!Readable
<1>1. CASE Echo!EpollWait
  <2>1. /\ UNCHANGED <<state, inbox, peer>> /\ echoEvents = {}
        /\ echoEvents' = {f \in edges : Echo!Readable(f)}
    BY <1>0, <1>1 DEF Echo!EpollWait, Echo!tcp, EchoInHand
  <2>2. Echo!Readable(c)
    BY <1>r, <2>1
  <2> QED
    BY <1>0, <2>1, <2>2
<1>2. ASSUME NEW d \in TcpClients, Echo!Connect(d) PROVE c \in edges' \cup echoEvents'
  <2>1. /\ state' = [state EXCEPT ![d] = "queued"] /\ UNCHANGED <<inbox, peer, echoEvents>>
        /\ edges \subseteq edges'
    BY <1>2 DEF Echo!Connect
  <2>2. Echo!Readable(c)
    BY <1>0, <1>r, <2>1 DEF EchoTypes
  <2> QED
    BY <1>0, <2>1, <2>2
<1>3. ASSUME NEW d \in TcpClients, Echo!SendBlock(d) PROVE c \in edges' \cup echoEvents'
  <2>1. /\ UNCHANGED <<state, peer, echoEvents>> /\ edges \subseteq edges'
        /\ inbox' = [inbox EXCEPT ![d] = @ + 1]
        /\ state[d] = "open" => d \in edges'
    BY <1>3 DEF Echo!SendBlock, Echo!Arrival
  <2>2. CASE c = d
    BY <1>r, <2>1, <2>2
  <2>3. CASE c # d
    BY <1>0, <1>r, <2>1, <2>3 DEF EchoTypes
  <2> QED
    BY <2>2, <2>3
<1>4. ASSUME NEW d \in TcpClients, NEW how \in {"half", "gone", "reset"},
             Echo!PeerBecomes(d, how)
      PROVE  c \in edges' \cup echoEvents'
  <2>1. /\ UNCHANGED <<state, inbox, echoEvents>> /\ edges \subseteq edges'
        /\ peer' = [peer EXCEPT ![d] = how]
        /\ state[d] = "open" => d \in edges' \/ peer[d] # "up"
    BY <1>4 DEF Echo!PeerBecomes, Echo!Arrival
  <2>2. CASE c = d
    BY <1>0, <1>r, <2>1, <2>2
  <2>3. CASE c # d
    BY <1>0, <1>r, <2>1, <2>3 DEF EchoTypes
  <2> QED
    BY <2>2, <2>3
<1>5. ASSUME UNCHANGED <<state, inbox, peer, edges, echoEvents>>
      PROVE  c \in edges' \cup echoEvents'
  BY <1>0, <1>r, <1>5
<1>6. ASSUME NEW d \in TcpClients, Echo!ReadAnswer(d) \/ Echo!StartReading(d)
      PROVE  c \in edges' \cup echoEvents'
  BY <1>5, <1>6 DEF Echo!ReadAnswer, Echo!StartReading, Echo!tcp, Echo!epoll
<1>7. ASSUME NEW d \in Datagrams, Echo!SendDatagram(d) PROVE c \in edges' \cup echoEvents'
  <2>1. UNCHANGED <<state, inbox, peer, echoEvents>> /\ edges \subseteq edges'
    BY <1>7 DEF Echo!SendDatagram, Echo!tcp
  <2> QED
    BY <1>0, <1>r, <2>1
<1>8. CASE Echo!Accept
  <2> DEFINE h == Head(echoBacklog)
  <2>1. /\ state' = [state EXCEPT ![h] = "open"] /\ UNCHANGED <<inbox, peer>>
        /\ echoEvents' = echoEvents \ {"lfd"}
        /\ edges' = IF inbox[h] > 0 \/ peer[h] # "up" THEN edges \cup {h} ELSE edges
    BY <1>8 DEF Echo!Accept, Echo!AddFd, Echo!NextEvent
  <2>2. CASE c = h
    BY <1>r, <2>1, <2>2
  <2>3. CASE c # h
    BY <1>0, <1>r, <2>1, <2>3 DEF EchoTypes
  <2> QED
    BY <2>2, <2>3
<1>9. CASE Echo!Recvfrom
  <2>1. /\ UNCHANGED <<state, inbox, peer, edges>>
        /\ echoEvents' = echoEvents \/ echoEvents' = echoEvents \ {"udpfd"}
    BY <1>9 DEF Echo!Recvfrom, Echo!tcp, Echo!NextEvent
  <2> QED
    BY <1>0, <1>r, <2>1
<1>10. ASSUME NEW d \in TcpClients, Echo!EchoBlock(d) PROVE c \in edges' \cup echoEvents'
  <2>1. /\ UNCHANGED <<state, edges, echoEvents>> /\ reading = d
        /\ inbox' = [inbox EXCEPT ![d] = @ - 1]
        /\ peer' = peer \/ peer' = [peer EXCEPT ![d] = "probed"]
    BY <1>10 DEF Echo!EchoBlock, Echo!Send, Echo!epoll, Echo!Reading
  <2>4. d \in echoEvents
    BY <1>0, <2>1, EchoConstants DEF EchoInHand
  <2>2. CASE c = d
    BY <2>1, <2>2, <2>4
  <2>3. CASE c # d
    BY <1>0, <1>r, <2>1, <2>3 DEF EchoTypes
  <2> QED
    BY <2>2, <2>3
<1>11. ASSUME NEW d \in TcpClients, Echo!EndOfInput(d) \/ Echo!RecvError(d) \/ Echo!WouldBlock(d)
       PROVE  c \in edges' \cup echoEvents'
  <2>1. /\ inbox[d] = 0 /\ UNCHANGED peer
        /\ echoEvents \ {d} \subseteq echoEvents' /\ edges \ {d} \subseteq edges'
        /\ \/ state' = [state EXCEPT ![d] = "closed"] /\ inbox' = [inbox EXCEPT ![d] = 0]
           \/ state[d] = "closed" /\ UNCHANGED <<state, inbox>>
           \/ peer[d] = "up" /\ UNCHANGED <<state, inbox>>
    BY <1>11 DEF Echo!EndOfInput, Echo!RecvError, Echo!WouldBlock, Echo!CloseConnection,
                 Echo!NextEvent, Echo!tcp
  <2>2. c # d
    BY <1>0, <1>r, <2>1 DEF EchoTypes
  <2> QED
    BY <1>0, <1>r, <2>1, <2>2 DEF EchoTypes
<1> QED
  BY <1>1, <1>2, <1>3, <1>4, <1>6, <1>7, <1>8, <1>9, <1>10, <1>11
  DEF Echo!Next, Echo!Server, Echo!Client

(* How a queue is served when its head is taken, when something joins it,  *)
(* and when it stays: n events are pending before the step, m after it.    *)
LEMMA ServedTail ==
    \A S, B, q, n, m :
        /\ q \in Seq(S) /\ q # <<>> /\ n \in Nat /\ m \in Nat /\ m + 1 >= n
        /\ \A i \in 1..Len(q) : i > n => q[i] \in B
        => \A i \in 1..Len(Tail(q)) : i > m => Tail(q)[i] \in B
<1> SUFFICES ASSUME NEW S, NEW B, NEW q, NEW n, NEW m,
                    q \in Seq(S), q # <<>>, n \in Nat, m \in Nat, m + 1 >= n,
                    \A i \in 1..Len(q) : i > n => q[i] \in B,
                    NEW i \in 1..Len(Tail(q)), i > m
             PROVE  Tail(q)[i] \in B
  OBVIOUS
<1>1. Len(Tail(q)) = Len(q) - 1 /\ Len(q) \in Nat /\ Tail(q)[i] = q[i + 1]
  OBVIOUS
<1>2. i + 1 \in 1..Len(q) /\ i + 1 > n
  BY <1>1
<1> QED
  BY <1>1, <1>2

LEMMA ServedAppend ==
    \A S, B, q, x, n, m :
        /\ q \in Seq(S) /\ n \in Nat /\ m \in Nat /\ m >= n
        /\ x \in B \/ m > Len(q)
        /\ \A i \in 1..Len(q) : i > n => q[i] \in B
        => \A i \in 1..Len(Append(q, x)) : i > m => Append(q, x)[i] \in B
<1> SUFFICES ASSUME NEW S, NEW B, NEW q, NEW x, NEW n, NEW m,
                    q \in Seq(S), n \in Nat, m \in Nat, m >= n,
                    x \in B \/ m > Len(q),
                    \A i \in 1..Len(q) : i > n => q[i] \in B,
                    NEW i \in 1..Len(Append(q, x)), i > m
             PROVE  Append(q, x)[i] \in B
  OBVIOUS
<1>1. Len(Append(q, x)) = Len(q) + 1 /\ Len(q) \in Nat
  OBVIOUS
<1>2. CASE i \in 1..Len(q)
  BY <1>2
<1>3. CASE i = Len(q) + 1
  BY <1>1, <1>3
<1> QED
  BY <1>1, <1>2, <1>3

(* A connection or a datagram is left without an event only behind another.*)
LEMMA EchoStrandedStep == EchoInv /\ Echo!Next => EchoStranded'
<1> SUFFICES ASSUME EchoInv, Echo!Next PROVE EchoStranded'
  OBVIOUS
<1>0. /\ EchoStranded /\ EchoTypes /\ EchoInHand
      /\ "lfd" \notin TcpClients /\ "udpfd" \notin TcpClients
  BY EchoConstants DEF EchoInv
<1>1. behind \subseteq behind'
  BY EchoJoins DEF Echo!Connect, Echo!SendDatagram, Echo!Joins
<1>2. \A f : Pending(f) \in Nat /\ Pending(f)' \in Nat
  BY DEF Pending
<1>3. ASSUME NEW f \in {"lfd", "udpfd"}, ~(f = "lfd" /\ Echo!Accept),
             ~(f = "udpfd" /\ Echo!Recvfrom)
      PROVE  Pending(f)' >= Pending(f) \/ (Echo!EpollWait /\ ~Echo!Readable(f))
  <2>1. CASE Echo!EpollWait
    BY <1>0, <2>1 DEF Echo!EpollWait, EchoInHand, Pending
  <2>2. CASE edges \subseteq edges' /\ UNCHANGED echoEvents
    BY <2>2 DEF Pending
  <2>3. CASE Echo!Accept /\ edges \subseteq edges'
    BY <1>3, <2>3 DEF Echo!Accept, Echo!NextEvent, Pending
  <2>4. CASE Echo!Recvfrom /\ edges \subseteq edges'
    BY <1>3, <2>4 DEF Echo!Recvfrom, Echo!NextEvent, Pending
  <2>5. ASSUME NEW c \in TcpClients, edges' \in {edges, edges \ {c}},
               UNCHANGED echoEvents \/ Echo!NextEvent(c)
        PROVE  Pending(f)' >= Pending(f)
    <3>1. f # c
      BY <1>0, <1>3
    <3>2. (f \in edges' <=> f \in edges) /\ (f \in echoEvents' <=> f \in echoEvents)
      BY <2>5, <3>1 DEF Echo!NextEvent
    <3> QED
      BY <3>2 DEF Pending
  <2>6. ASSUME NEW c \in TcpClients, Echo!StartReading(c)
        PROVE  Pending(f)' >= Pending(f)
    BY <2>6 DEF Echo!StartReading, Pending
  <2> QED
    BY <2>1, <2>2, <2>3, <2>4, <2>5, <2>6, EchoEdges
<1>4. ASSUME NEW f, NEW q, Pending(f)' >= Pending(f) \/ q = <<>>, EchoServed(q, f)
      PROVE  \A i \in 1..Len(q) : i > Pending(f)' => q[i] \in behind'
  BY <1>1, <1>2, <1>4 DEF EchoServed
<1>5. EchoServed(echoBacklog, "lfd")'
  <2>0. /\ \A i \in 1..Len(echoBacklog) : i > Pending("lfd") => echoBacklog[i] \in behind'
        /\ echoBacklog \in Seq(EchoQueued)
    BY <1>0, <1>1 DEF EchoStranded, EchoServed, EchoInv, EchoBacklog, Lists
  <2>1. CASE Echo!Accept
    <3>1. /\ echoBacklog' = Tail(echoBacklog) /\ echoBacklog # <<>>
          /\ Pending("lfd")' + 1 >= Pending("lfd")
      BY <1>0, <2>1 DEF Echo!Accept, Echo!Event, Echo!NextEvent, Echo!AddFd, EchoInHand, Pending
    <3> QED
      BY <1>2, <2>0, <3>1, ServedTail DEF EchoServed
  <2>2. ASSUME NEW c \in TcpClients, Echo!Connect(c)
        PROVE  EchoServed(echoBacklog, "lfd")'
    <3>1. /\ echoBacklog' = Append(echoBacklog, c)
          /\ Pending("lfd")' >= Pending("lfd")
          /\ \/ echoBacklog = <<>> /\ Pending("lfd")' >= 1
             \/ Len(echoBacklog) = 1 /\ Pending("lfd")' = 2
             \/ c \in behind'
      BY <2>2 DEF Echo!Connect, Echo!Joins, Pending
    <3>2. c \in behind' \/ Pending("lfd")' > Len(echoBacklog)
      BY <1>2, <3>1
    <3>3. Pending("lfd") \in Nat /\ Pending("lfd")' \in Nat
      BY <1>2
    <3>4. \A i \in 1..Len(echoBacklog') : i > Pending("lfd")' => echoBacklog'[i] \in behind'
      <4> HIDE DEF Pending
      <4> QED
        BY <2>0, <3>1, <3>2, <3>3, ServedAppend
    <3> QED
      BY <3>4 DEF EchoServed
  <2>3. CASE ~Echo!Accept /\ \A c \in TcpClients : ~Echo!Connect(c)
    <3>1. echoBacklog' = echoBacklog
      BY <1>0, <2>3, EchoOthers
    <3>2. Pending("lfd")' >= Pending("lfd") \/ echoBacklog = <<>>
      BY <1>3, <2>3 DEF Echo!Readable
    <3> QED
      BY <1>0, <1>4, <3>1, <3>2 DEF EchoStranded, EchoServed
  <2> QED
    BY <2>1, <2>2, <2>3
<1>6. EchoServed(dgrams, "udpfd")'
  <2>0. /\ \A i \in 1..Len(dgrams) : i > Pending("udpfd") => dgrams[i] \in behind'
        /\ dgrams \in Seq(Datagrams)
    BY <1>0, <1>1 DEF EchoStranded, EchoServed, EchoInv, EchoDatagrams, Lists
  <2>1. CASE Echo!Recvfrom
    <3>1. dgrams' = Tail(dgrams) /\ dgrams # <<>>
      BY <2>1, EchoReceives
    <3>2. Pending("udpfd")' + 1 >= Pending("udpfd")
      BY <2>1 DEF Echo!Recvfrom, Echo!NextEvent, Pending
    <3> QED
      BY <1>2, <2>0, <3>1, <3>2, ServedTail DEF EchoServed
  <2>2. ASSUME NEW d \in Datagrams, Echo!SendDatagram(d)
        PROVE  EchoServed(dgrams, "udpfd")'
    <3>1. /\ dgrams' = Append(dgrams, d)
          /\ Pending("udpfd")' >= Pending("udpfd")
          /\ \/ dgrams = <<>> /\ Pending("udpfd")' >= 1
             \/ Len(dgrams) = 1 /\ Pending("udpfd")' = 2
             \/ d \in behind'
      BY <2>2 DEF Echo!SendDatagram, Echo!Joins, Pending
    <3>2. d \in behind' \/ Pending("udpfd")' > Len(dgrams)
      BY <1>2, <3>1
    <3>3. Pending("udpfd") \in Nat /\ Pending("udpfd")' \in Nat
      BY <1>2
    <3>4. \A i \in 1..Len(dgrams') : i > Pending("udpfd")' => dgrams'[i] \in behind'
      <4> HIDE DEF Pending
      <4> QED
        BY <2>0, <3>1, <3>2, <3>3, ServedAppend
    <3> QED
      BY <3>4 DEF EchoServed
  <2>3. CASE ~Echo!Recvfrom /\ \A d \in Datagrams : ~Echo!SendDatagram(d)
    <3>1. dgrams' = dgrams
      BY <2>3, EchoQuiet
    <3>2. Pending("udpfd")' >= Pending("udpfd") \/ dgrams = <<>>
      BY <1>3, <2>3 DEF Echo!Readable
    <3> QED
      BY <1>0, <1>4, <3>1, <3>2 DEF EchoStranded, EchoServed
  <2> QED
    BY <2>1, <2>2, <2>3
<1> QED
  BY <1>5, <1>6 DEF EchoStranded

LEMMA EchoStep == EchoInv /\ Echo!Next => EchoInv'
BY EchoTypesStep, EchoBacklogStep, EchoDatagramsStep, EchoInHandStep, EchoReportedStep,
   EchoStrandedStep
DEF EchoInv

LEMMA EchoStands == EchoInv /\ UNCHANGED echoVars => EchoInv'
<1> SUFFICES ASSUME EchoInv, UNCHANGED echoVars PROVE EchoInv'
  OBVIOUS
<1>1. UNCHANGED <<state, peer, echoBacklog, inbox, outbox, sent, dgrams, unsent, edges,
                  echoEvents, reading, pc, behind>>
  BY DEF echoVars
<1>2. EchoTypes' /\ \A c \in TcpClients : EchoCounts(c)'
  BY <1>1 DEF EchoInv, EchoTypes, EchoCounts, Echo!Fds
<1>3. EchoBacklog' /\ EchoDatagrams'
  BY <1>1 DEF EchoInv, EchoBacklog, EchoDatagrams, EchoQueued
<1>4. EchoInHand' /\ EchoReported'
  BY <1>1 DEF EchoInv, EchoInHand, EchoReported, Echo!Dead, Echo!Readable
<1>5. EchoStranded'
  BY <1>1 DEF EchoInv, EchoStranded, EchoServed, Pending
<1> QED
  BY <1>2, <1>3, <1>4, <1>5 DEF EchoInv

LEMMA EchoRight ==
    ASSUME EchoInv
    PROVE  Echo!TypeOK /\ Echo!TcpDrained /\ Echo!StrandedOnlyByBurst
<1>1. EchoTypes /\ EchoBacklog /\ EchoDatagrams /\ EchoInHand /\ EchoReported /\ EchoStranded
  BY DEF EchoInv
<1>2. Echo!TypeOK
  <2>1. echoBacklog \in Seq(EchoQueued) /\ Len(echoBacklog) <= Backlog
    BY <1>1 DEF EchoBacklog, Lists
  <2>2. dgrams \in Seq(Datagrams)
    BY <1>1 DEF EchoDatagrams, Lists
  <2>3. \A c \in TcpClients : /\ sent[c] \in 0..MaxSend[c] /\ inbox[c] \in 0..sent[c]
                              /\ outbox[c] \in 0..SendBuffer
    BY EchoConstants DEF EchoInv, EchoTypes, EchoCounts
  <2> QED
    BY <1>1, <2>1, <2>2, <2>3 DEF EchoTypes, EchoInHand, EchoQueued, Echo!TypeOK
<1>3. Echo!TcpDrained
  BY <1>1 DEF EchoInHand, EchoReported, Echo!TcpDrained
<1>4. Echo!StrandedOnlyByBurst
  <2>1. ASSUME "lfd" \notin edges \cup echoEvents, NEW c \in TcpClients, state[c] = "queued"
        PROVE  c \in behind
    <3>1. PICK i \in 1..Len(echoBacklog) : echoBacklog[i] = c
      BY <1>1, <2>1 DEF EchoBacklog, EchoQueued, Lists
    <3>2. i > Pending("lfd")
      BY <2>1 DEF Pending
    <3> QED
      BY <1>1, <3>1, <3>2 DEF EchoStranded, EchoServed
  <2>2. ASSUME "udpfd" \notin edges \cup echoEvents, NEW i \in DOMAIN dgrams
        PROVE  dgrams[i] \in behind
    <3>1. i \in 1..Len(dgrams)
      BY <1>1, <2>2 DEF EchoDatagrams, Lists
    <3>2. i > Pending("udpfd")
      BY <2>2, <3>1 DEF Pending
    <3> QED
      BY <1>1, <3>1, <3>2 DEF EchoStranded, EchoServed
  <2> QED
    BY <2>1, <2>2 DEF Echo!StrandedOnlyByBurst
<1> QED
  BY <1>2, <1>3, <1>4

(* No edge-triggered descriptor holds what no event will tell of: the echo *)
(* server has read each connection until recv() would block whenever it    *)
(* waits (9_8_TCP_UDP.cpp:102-117), and a connection or a datagram is left *)
(* in its queue only if it came while another one was waiting              *)
(* (9_8_TCP_UDP.cpp:81-92, 9_3_epoll_LT_ET.cpp:48-50), or no descriptor    *)
(* was left for it, for any number of clients and datagrams.               *)
THEOREM NothingStaysUnread == FairSpec => []NothingUnread
<1>1. Init => EchoInv /\ LevelInv
  BY EchoInit, LevelInit DEF Init
<1>2. EchoInv /\ LevelInv /\ [Next]_vars => EchoInv' /\ LevelInv'
  BY EchoStep, EchoStands, LevelStep, LevelStands
  DEF Next, OneShotRuns, EchoRuns, LevelRuns, XfrRuns, vars
<1>3. EchoInv /\ LevelInv => NothingUnread
  BY EchoRight DEF LevelInv, NothingUnread
<1> QED
  BY <1>1, <1>2, <1>3, PTL DEF FairSpec, Spec

-------------------------------------------------------------------------------
(* The rest of the types of the one-shot server: nothing is read twice.    *)
OneShotCounted ==
    /\ conn \in [Conns -> {"none", "queued", "open", "closed"}]
    /\ sends \in [Conns -> 0..MaxSends]
    /\ \A c \in Conns : unread[c] \in 0..sends[c]
    /\ fin \subseteq Conns /\ mpc \in {"wait", "event"}
    /\ reused \in BOOLEAN /\ failed \in BOOLEAN

LEMMA CountedInit == OneShot!Init => OneShotCounted
<1> SUFFICES ASSUME OneShot!Init PROVE OneShotCounted
  OBVIOUS
<1>1. 0 \in 0..MaxSends /\ 0 \in 0..0
  BY SocketsAssumption DEF SocketsAssumption, OneShot!EpollAssumption
<1>2. conn \in [Conns -> {"none", "queued", "open", "closed"}]
  BY DEF OneShot!Init
<1>3. sends \in [Conns -> 0..MaxSends] /\ \A c \in Conns : unread[c] = 0 /\ sends[c] = 0
  BY <1>1 DEF OneShot!Init
<1>4. fin \subseteq Conns /\ mpc = "wait" /\ reused \in BOOLEAN /\ failed \in BOOLEAN
  BY DEF OneShot!Init
<1> QED
  BY <1>1, <1>2, <1>3, <1>4 DEF OneShotCounted

LEMMA CountedFrame ==
    ASSUME OneShotCounted, UNCHANGED <<conn, sends, unread, fin>>,
           mpc' \in {"wait", "event"}, reused' \in BOOLEAN, failed' \in BOOLEAN
    PROVE  OneShotCounted'
BY DEF OneShotCounted

LEMMA CountedStep == OneShotInv /\ OneShotCounted /\ OneShot!Next => OneShotCounted'
<1> SUFFICES ASSUME OneShotInv, OneShotCounted, OneShot!Next PROVE OneShotCounted'
  OBVIOUS
<1>0. /\ MaxSends \in Nat /\ mpc \in {"wait", "event"}
      /\ reused \in BOOLEAN /\ failed \in BOOLEAN
      /\ unread \in [Conns -> Int] /\ backlog \in Seq(Conns)
      /\ file \in [OneShot!Fds -> Conns \cup {OneShot!NONE}]
  BY SocketsAssumption
  DEF SocketsAssumption, OneShot!EpollAssumption, OneShotCounted, OneShotInv, OneShotTypes
<1> USE DEF OneShot!clientVars, OneShot!mainVars
<1>1. ASSUME NEW c \in Conns, OneShot!Connect(c) PROVE OneShotCounted'
  BY <1>1 DEF OneShot!Connect, OneShotCounted
<1>2. ASSUME NEW c \in Conns, OneShot!Send(c) PROVE OneShotCounted'
  <2>1. /\ sends[c] < MaxSends /\ sends' = [sends EXCEPT ![c] = @ + 1]
        /\ unread' = [unread EXCEPT ![c] = @ + 1]
        /\ UNCHANGED <<conn, fin, mpc, reused, failed>>
    BY <1>2 DEF OneShot!Send
  <2>2. sends[c] \in 0..MaxSends /\ sends[c] + 1 \in 0..MaxSends
    BY <1>0, <2>1 DEF OneShotCounted
  <2>3. sends' \in [Conns -> 0..MaxSends]
    BY <2>1, <2>2 DEF OneShotCounted
  <2>4. \A d \in Conns : unread'[d] \in 0..sends'[d]
    BY <1>0, <2>1, <2>2 DEF OneShotCounted
  <2> QED
    BY <2>1, <2>3, <2>4 DEF OneShotCounted
<1>3. ASSUME NEW c \in Conns, OneShot!Finish(c) PROVE OneShotCounted'
  BY <1>3 DEF OneShot!Finish, OneShotCounted
<1>4. CASE OneShot!EpollWait
  BY <1>0, <1>4, CountedFrame DEF OneShot!EpollWait
<1>5. CASE OneShot!Accept
  <2>1. /\ UNCHANGED <<sends, unread, fin, failed>> /\ mpc' \in {"wait", "event"}
        /\ \/ conn' = conn
           \/ backlog # <<>> /\ conn' = [conn EXCEPT ![Head(backlog)] = "open"]
    BY <1>5 DEF OneShot!Accept, OneShot!Handled
  <2>2. reused' \in BOOLEAN
    <3>1. \/ reused' = reused
          \/ reused' = (reused \/ \E t \in closed : sockfd[t] = OneShot!Min(OneShot!FreeFds))
      BY <1>5 DEF OneShot!Accept
    <3> QED
      BY <1>0, <3>1
  <2>3. backlog # <<>> => Head(backlog) \in Conns
    BY <1>0
  <2>4. conn' \in [Conns -> {"none", "queued", "open", "closed"}]
    BY <2>1, <2>3 DEF OneShotCounted
  <2> QED
    BY <2>1, <2>2, <2>4 DEF OneShotCounted
<1>6. ASSUME NEW f \in OneShot!Fds, OneShot!Dispatch(f) PROVE OneShotCounted'
  <2>1. /\ UNCHANGED <<conn, sends, unread, fin, reused>> /\ mpc' \in {"wait", "event"}
        /\ failed' \in {failed, TRUE}
    BY <1>6 DEF OneShot!Dispatch, OneShot!Handled
  <2> QED
    BY <1>0, <2>1, CountedFrame
<1>7. ASSUME NEW t \in OneShot!Threads, OneShot!ReadArgs(t) \/ OneShot!ResetOneshot(t)
      PROVE  OneShotCounted'
  BY <1>0, <1>7, CountedFrame DEF OneShot!ReadArgs, OneShot!ResetOneshot
<1>8. ASSUME NEW t \in OneShot!Threads, OneShot!Recv(t) PROVE OneShotCounted'
  <2>1. /\ UNCHANGED <<conn, sends, fin, mpc, reused, failed>>
        /\ tpc[t] = "recv" /\ file[sockfd[t]] # OneShot!NONE
    BY <1>8 DEF OneShot!Recv
  <2>2. CASE unread' = unread
    BY <2>1, <2>2 DEF OneShotCounted
  <2>3. CASE \E n \in 1..unread[file[sockfd[t]]] :
                 unread' = [unread EXCEPT ![file[sockfd[t]]] = @ - n]
    <3>1. file[sockfd[t]] \in Conns
      BY <1>0, <2>1 DEF OneShotInv, ThreadInv
    <3>2. \A d \in Conns : unread'[d] \in 0..sends[d]
      BY <1>0, <2>3, <3>1 DEF OneShotCounted
    <3> QED
      BY <2>1, <3>2 DEF OneShotCounted
  <2> QED
    BY <1>8, <2>2, <2>3 DEF OneShot!Recv
<1>9. ASSUME NEW t \in OneShot!Threads, OneShot!Close(t) PROVE OneShotCounted'
  <2>1. /\ UNCHANGED <<sends, unread, fin, mpc, reused, failed>> /\ tpc[t] = "close"
        /\ \/ conn' = conn
           \/ /\ file[sockfd[t]] # OneShot!NONE
              /\ conn' = [conn EXCEPT ![file[sockfd[t]]] = "closed"]
    BY <1>9 DEF OneShot!Close
  <2>2. sockfd[t] \in OneShot!Fds
    BY <2>1 DEF OneShotInv, ThreadInv
  <2>3. conn' \in [Conns -> {"none", "queued", "open", "closed"}]
    BY <1>0, <2>1, <2>2 DEF OneShotCounted
  <2> QED
    BY <2>1, <2>3 DEF OneShotCounted
<1> QED
  BY <1>1, <1>2, <1>3, <1>4, <1>5, <1>6, <1>7, <1>8, <1>9
  DEF OneShot!Next, OneShot!Main, OneShot!Worker, OneShot!Client

LEMMA OneShotTyped == OneShotInv /\ OneShotCounted => OneShot!TypeOK
<1> SUFFICES ASSUME OneShotInv, OneShotCounted PROVE OneShot!TypeOK
  OBVIOUS
<1>1. unread \in [Conns -> 0..MaxSends]
  <2>1. ASSUME NEW c \in Conns PROVE unread[c] \in 0..MaxSends
    <3>1. sends[c] \in 0..MaxSends /\ unread[c] \in 0..sends[c] /\ MaxSends \in Nat
      BY SocketsAssumption
      DEF SocketsAssumption, OneShot!EpollAssumption, OneShotCounted
    <3> QED
      BY <3>1
  <2> QED
    BY <2>1 DEF OneShotInv, OneShotTypes
<1> QED
  BY <1>1 DEF OneShotInv, OneShotTypes, OneShotCounted, OneShot!TypeOK

-------------------------------------------------------------------------------
(* The rest of the types of us_xfr: whoever waits at a server, or is read  *)
(* from, is connected to it.                                               *)
XfrCounted ==
    /\ path \in Servers \cup {None, Stale}
    /\ size \in [Clients -> Blocks] /\ taken \in [Clients -> Nat]
    /\ \A c \in Clients : taken[c] <= size[c]
    /\ ending \in [Clients -> {"eof", "error"}]
    /\ socket \in [Clients -> 0..SocketRoom]
    /\ deaths \in 0..MaxDeaths

Connected(s) ==
    /\ \A x \in 1..Len(xfrBacklog[s]) : sfd[xfrBacklog[s][x]] = s
    /\ afd[s] # None => sfd[afd[s]] = s
    /\ spc[s] \in {"remove", "bind", "listen", "accept"} => afd[s] = None

XfrTyped ==
    /\ XfrCounted
    /\ sfd \in [Clients -> Servers \cup {None}]
    /\ \A s \in Servers : Connected(s)

LEMMA XfrConstants ==
    /\ None \notin Clients /\ None \notin Servers
    /\ Blocks \subseteq Nat /\ SocketRoom \in Nat \ {0} /\ MaxDeaths \in Nat
BY SocketsAssumption DEF SocketsAssumption, Xfr!UsXfrAssumption

LEMMA XfrTypedInit == Xfr!Init => XfrTyped
<1> SUFFICES ASSUME Xfr!Init PROVE XfrTyped
  OBVIOUS
<1>1. XfrCounted
  <2>1. /\ path \in Servers \cup {None, Stale} /\ size \in [Clients -> Blocks]
        /\ ending \in [Clients -> {"eof", "error"}]
    BY DEF Xfr!Init
  <2>2. 0 \in 0..SocketRoom /\ 0 \in 0..MaxDeaths
    BY XfrConstants
  <2>3. taken \in [Clients -> Nat] /\ socket \in [Clients -> 0..SocketRoom] /\ deaths = 0
    BY <2>2 DEF Xfr!Init
  <2>4. \A c \in Clients : taken[c] = 0 /\ size[c] \in Nat
    BY <2>1, XfrConstants DEF Xfr!Init
  <2> QED
    BY <2>1, <2>2, <2>3, <2>4 DEF XfrCounted
<1>2. \A s \in Servers : Connected(s)
  BY DEF Xfr!Init, Connected
<1> QED
  BY <1>1, <1>2 DEF Xfr!Init, XfrTyped

LEMMA XfrCountedStep == XfrInv /\ XfrTyped /\ Xfr!Next => XfrCounted'
<1> SUFFICES ASSUME XfrInv, XfrTyped, Xfr!Next PROVE XfrCounted'
  OBVIOUS
<1>0. XfrCounted /\ XfrTypes
  BY DEF XfrInv, XfrTyped
<1> USE XfrConstants DEF XfrCounted, Xfr!server, Xfr!client
<1>1. ASSUME NEW s \in Servers, Xfr!RemovePath(s) \/ Xfr!Bind(s) \/ Xfr!Listen(s) \/ Xfr!Accept(s)
                                \/ Xfr!CloseAfd(s), UNCHANGED deaths
      PROVE  XfrCounted'
  BY <1>0, <1>1 DEF Xfr!RemovePath, Xfr!Bind, Xfr!Listen, Xfr!Accept, Xfr!CloseAfd
<1>2. ASSUME NEW s \in Servers, Xfr!CopyBlock(s), UNCHANGED deaths PROVE XfrCounted'
  <2>1. /\ afd[s] \in Clients /\ socket[afd[s]] > 0
        /\ socket' = [socket EXCEPT ![afd[s]] = @ - 1]
        /\ UNCHANGED <<path, size, taken, ending, deaths>>
    BY <1>2 DEF Xfr!CopyBlock, XfrInv, Serves
  <2>2. socket \in [Clients -> 0..SocketRoom] /\ SocketRoom \in Nat
    BY <1>0
  <2> HIDE DEF XfrCounted
  <2>3. socket[afd[s]] - 1 \in 0..SocketRoom
    BY <2>1, <2>2
  <2>4. socket' \in [Clients -> 0..SocketRoom]
    BY <2>1, <2>2, <2>3
  <2> USE DEF XfrCounted
  <2> QED
    BY <1>0, <2>1, <2>4
<1>3. ASSUME NEW s \in Servers, Xfr!ServerDies(s) PROVE XfrCounted'
  BY <1>0, <1>3 DEF Xfr!ServerDies
<1>4. ASSUME NEW c \in Clients, UNCHANGED deaths,
             \/ \E s \in Servers : Xfr!ConnectTo(c, s)
             \/ Xfr!ConnectFails(c) \/ Xfr!EndOfFile(c) \/ Xfr!ReadFails(c) \/ Xfr!WriteFails(c)
      PROVE  XfrCounted'
  BY <1>0, <1>4
  DEF Xfr!ConnectTo, Xfr!ConnectFails, Xfr!EndOfFile, Xfr!ReadFails, Xfr!WriteFails
<1>5. ASSUME NEW c \in Clients, Xfr!ReadBlock(c), UNCHANGED deaths PROVE XfrCounted'
  <2>1. /\ taken[c] < size[c] /\ taken' = [taken EXCEPT ![c] = @ + 1]
        /\ UNCHANGED <<path, size, ending, socket, deaths>>
    BY <1>5 DEF Xfr!ReadBlock
  <2>2. taken[c] \in Nat /\ size[c] \in Nat
    BY <1>0
  <2>3. taken' \in [Clients -> Nat] /\ taken'[c] <= size[c]
        /\ \A d \in Clients : d # c => taken'[d] = taken[d]
    BY <1>0, <2>1, <2>2
  <2> QED
    BY <1>0, <2>1, <2>3
<1>6. ASSUME NEW c \in Clients, Xfr!WriteBlock(c), UNCHANGED deaths PROVE XfrCounted'
  <2>1. /\ UNCHANGED <<path, size, taken, ending, deaths>>
        /\ \/ UNCHANGED socket
           \/ socket[c] < SocketRoom /\ socket' = [socket EXCEPT ![c] = @ + 1]
    BY <1>6 DEF Xfr!WriteBlock
  <2>2. socket[c] < SocketRoom => socket[c] + 1 \in 0..SocketRoom
    BY <1>0
  <2>3. socket' \in [Clients -> 0..SocketRoom]
    BY <1>0, <2>1, <2>2
  <2> QED
    BY <1>0, <2>1, <2>3
<1>7. ASSUME NEW c \in Clients, Xfr!ClientDies(c) PROVE XfrCounted'
  BY <1>0, <1>7 DEF Xfr!ClientDies
<1> QED
  BY <1>1, <1>2, <1>3, <1>4, <1>5, <1>6, <1>7 DEF Xfr!Next, Xfr!ServerStep, Xfr!ClientStep

LEMMA ConnectedFrame ==
    ASSUME XfrTypes, NEW s \in Servers, Connected(s),
           UNCHANGED <<xfrBacklog[s], afd[s], sfd>>,
           spc'[s] \in {"remove", "bind", "listen", "accept"} =>
               spc[s] \in {"remove", "bind", "listen", "accept"}
    PROVE  Connected(s)'
BY DEF Connected

LEMMA ConnectedStep == XfrInv /\ XfrTyped /\ Xfr!Next =>
                           /\ sfd' \in [Clients -> Servers \cup {None}]
                           /\ \A s \in Servers : Connected(s)'
<1> SUFFICES ASSUME XfrInv, XfrTyped, Xfr!Next
             PROVE  /\ sfd' \in [Clients -> Servers \cup {None}]
                    /\ \A s \in Servers : Connected(s)'
  OBVIOUS
<1> DEFINE Waiting == {"remove", "bind", "listen", "accept"}
           Done == /\ sfd' \in [Clients -> Servers \cup {None}]
                   /\ \A s \in Servers : Connected(s)'
<1>0. /\ XfrTypes /\ None \notin Clients
      /\ sfd \in [Clients -> Servers \cup {None}]
      /\ \A s \in Servers : Waits(s) /\ Serves(s) /\ Connected(s)
  BY XfrConstants DEF XfrInv, XfrTyped
<1>1. ASSUME NEW s \in Servers, NEW next, Xfr!SGoto(s, next),
             next \in Waiting => spc[s] \in Waiting,
             UNCHANGED <<xfrBacklog, afd, sfd>>
      PROVE  Done
  <2>1. \A r \in Servers : spc'[r] \in Waiting => spc[r] \in Waiting
    BY <1>0, <1>1 DEF XfrTypes, Xfr!SGoto
  <2> QED
    BY <1>0, <1>1, <2>1, ConnectedFrame
<1>2. ASSUME NEW s \in Servers,
             Xfr!RemovePath(s) \/ Xfr!Bind(s) \/ Xfr!Listen(s) \/ Xfr!ServerDies(s)
      PROVE  Done
  <2> HIDE DEF Done
  <2> QED
    BY <1>1, <1>2 DEF Xfr!RemovePath, Xfr!Bind, Xfr!Listen, Xfr!ServerDies, Xfr!client
<1>3. ASSUME NEW s \in Servers, Xfr!Accept(s) PROVE Done
  <2> DEFINE c == Head(xfrBacklog[s])
  <2>1. /\ xfrBacklog[s] # <<>> /\ afd' = [afd EXCEPT ![s] = c]
        /\ xfrBacklog' = [xfrBacklog EXCEPT ![s] = Tail(xfrBacklog[s])]
        /\ spc' = [spc EXCEPT ![s] = "read"] /\ UNCHANGED sfd
    BY <1>3 DEF Xfr!Accept, Xfr!SGoto, Xfr!client
  <2>2. /\ xfrBacklog[s] \in Seq(Clients) /\ c = xfrBacklog[s][1]
        /\ Len(xfrBacklog[s]) \in Nat \ {0}
        /\ Len(Tail(xfrBacklog[s])) = Len(xfrBacklog[s]) - 1
        /\ \A x \in 1..Len(xfrBacklog[s]) - 1 : Tail(xfrBacklog[s])[x] = xfrBacklog[s][x + 1]
    BY <1>0, <2>1 DEF XfrTypes
  <2> HIDE DEF c
  <2>3. /\ afd'[s] = c /\ spc'[s] = "read" /\ xfrBacklog'[s] = Tail(xfrBacklog[s])
    BY <1>0, <2>1 DEF XfrTypes
  <2>4. \A x \in 1..Len(xfrBacklog[s]) : sfd[xfrBacklog[s][x]] = s
    BY <1>0 DEF Connected
  <2>5. Connected(s)'
    <3>1. \A x \in 1..Len(xfrBacklog'[s]) : /\ x + 1 \in 1..Len(xfrBacklog[s])
                                            /\ xfrBacklog'[s][x] = xfrBacklog[s][x + 1]
      BY <2>2, <2>3
    <3>2. 1 \in 1..Len(xfrBacklog[s])
      BY <2>2
    <3> QED
      BY <2>1, <2>2, <2>3, <2>4, <3>1, <3>2 DEF Connected
  <2>6. \A r \in Servers : r # s => UNCHANGED <<xfrBacklog[r], afd[r], spc[r]>>
    BY <1>0, <2>1 DEF XfrTypes
  <2> QED
    BY <1>0, <2>1, <2>5, <2>6, ConnectedFrame
<1>4. ASSUME NEW s \in Servers, Xfr!CopyBlock(s) PROVE Done
  <2>1. UNCHANGED <<xfrBacklog, afd, sfd>> /\ (UNCHANGED spc \/ Xfr!SGoto(s, "failure"))
    BY <1>4 DEF Xfr!CopyBlock
  <2>2. CASE UNCHANGED spc
    BY <1>0, <2>1, <2>2, ConnectedFrame
  <2> QED
    BY <1>1, <2>1, <2>2
<1>5. ASSUME NEW s \in Servers, Xfr!CloseAfd(s) PROVE Done
  <2>1. /\ afd' = [afd EXCEPT ![s] = None] /\ UNCHANGED <<xfrBacklog, sfd>>
        /\ spc' = [spc EXCEPT ![s] = "accept"]
    BY <1>5 DEF Xfr!CloseAfd, Xfr!SGoto, Xfr!client
  <2>2. Connected(s)'
    BY <1>0, <2>1 DEF Connected, XfrTypes
  <2>3. \A r \in Servers : r # s => UNCHANGED <<xfrBacklog[r], afd[r], spc[r]>>
    BY <1>0, <2>1 DEF XfrTypes
  <2> QED
    BY <1>0, <2>1, <2>2, <2>3, ConnectedFrame
<1>6. ASSUME NEW c \in Clients, NEW s \in Servers, Xfr!ConnectTo(c, s) PROVE Done
  <2>1. /\ xfrBacklog' = [xfrBacklog EXCEPT ![s] = Append(xfrBacklog[s], c)]
        /\ cpc[c] = "connect" /\ sfd' = [sfd EXCEPT ![c] = s]
        /\ UNCHANGED <<spc, afd>>
    BY <1>6 DEF Xfr!ConnectTo
  <2>2. sfd' \in [Clients -> Servers \cup {None}] /\ sfd'[c] = s
        /\ \A d \in Clients : d # c => sfd'[d] = sfd[d]
    BY <1>0, <2>1
  <2>3. \A r \in Servers :
            /\ \A x \in 1..Len(xfrBacklog[r]) : xfrBacklog[r][x] \in Clients \ {c}
            /\ afd[r] \in (Clients \ {c}) \cup {None}
    BY <1>0, <2>1 DEF Waits, Serves, XfrTypes
  <2>4. /\ Len(xfrBacklog[s]) \in Nat /\ Len(xfrBacklog'[s]) = Len(xfrBacklog[s]) + 1
        /\ xfrBacklog'[s][Len(xfrBacklog[s]) + 1] = c
        /\ \A x \in 1..Len(xfrBacklog[s]) : xfrBacklog'[s][x] = xfrBacklog[s][x]
    BY <1>0, <2>1 DEF XfrTypes
  <2>5. \A x \in 1..Len(xfrBacklog'[s]) :
            x \in 1..Len(xfrBacklog[s]) \/ x = Len(xfrBacklog[s]) + 1
    BY <2>4
  <2>6. Connected(s)'
    BY <1>0, <2>1, <2>2, <2>3, <2>4, <2>5 DEF Connected
  <2>7. ASSUME NEW r \in Servers, r # s PROVE Connected(r)'
    <3>1. UNCHANGED <<xfrBacklog[r], afd[r], spc[r]>>
      BY <1>0, <2>1, <2>7 DEF XfrTypes
    <3> QED
      BY <1>0, <2>2, <2>3, <3>1 DEF Connected
  <2> QED
    BY <2>2, <2>6, <2>7
<1>7. ASSUME NEW c \in Clients, ~\E s \in Servers : Xfr!ConnectTo(c, s),
             Xfr!ClientStep(c) \/ Xfr!ClientDies(c)
      PROVE  Done
  <2>1. UNCHANGED <<xfrBacklog, afd, spc, sfd>>
    BY <1>7
    DEF Xfr!ClientStep, Xfr!ConnectFails, Xfr!ReadBlock, Xfr!WriteBlock, Xfr!EndOfFile,
        Xfr!ReadFails, Xfr!WriteFails, Xfr!ClientDies, Xfr!server
  <2> QED
    BY <1>0, <2>1, ConnectedFrame
<1> QED
  <2> HIDE DEF Done
  <2>1. Done
    BY <1>2, <1>3, <1>4, <1>5, <1>6, <1>7 DEF Xfr!Next, Xfr!ServerStep
  <2> QED
    BY <2>1 DEF Done

LEMMA XfrTypedStands == XfrTyped /\ UNCHANGED xfrVars => XfrTyped'
<1> SUFFICES ASSUME XfrTyped, UNCHANGED xfrVars PROVE XfrTyped'
  OBVIOUS
<1>1. UNCHANGED <<path, spc, xfrBacklog, afd, size, taken, ending, sfd, socket, deaths>>
  BY DEF xfrVars
<1>2. XfrCounted'
  BY <1>1 DEF XfrTyped, XfrCounted
<1>3. \A s \in Servers : Connected(s)'
  BY <1>1 DEF XfrTyped, Connected
<1> QED
  BY <1>1, <1>2, <1>3 DEF XfrTyped

LEMMA XfrTypesRight == XfrInv /\ XfrTyped => Xfr!TypeOK
<1> SUFFICES ASSUME XfrInv, XfrTyped PROVE Xfr!TypeOK
  OBVIOUS
<1>1. XfrTypes /\ XfrCounted /\ None \notin Clients
      /\ \A s \in Servers : Serves(s) /\ Connected(s)
  BY XfrConstants DEF XfrInv, XfrTyped
<1>2. ASSUME NEW s \in Servers
      PROVE  /\ spc[s] \in {"remove", "bind", "listen", "accept", "read", "failure"}
             /\ xfrBacklog[s] \in Seq({c \in Clients : sfd[c] = s})
             /\ afd[s] \in {c \in Clients : sfd[c] = s} \cup {None}
             /\ output[s] \in Seq(Clients)
             /\ spc[s] = "read" => afd[s] # None
             /\ spc[s] = "accept" => afd[s] = None
  <2>1. xfrBacklog[s] \in Seq(Clients)
    BY <1>1 DEF XfrTypes
  <2>2. \A x \in 1..Len(xfrBacklog[s]) : xfrBacklog[s][x] \in {c \in Clients : sfd[c] = s}
    BY <1>1, <2>1 DEF Connected
  <2>3. xfrBacklog[s] \in Seq({c \in Clients : sfd[c] = s})
    BY <2>1, <2>2
  <2>4. afd[s] \in {c \in Clients : sfd[c] = s} \cup {None}
    BY <1>1 DEF XfrTypes, Connected
  <2> QED
    BY <1>1, <2>3, <2>4 DEF XfrTypes, Serves, Connected
<1>3. ASSUME NEW c \in Clients
      PROVE  /\ size[c] \in Blocks /\ taken[c] \in 0..size[c] /\ ending[c] \in {"eof", "error"}
             /\ sfd[c] \in Servers \cup {None} /\ socket[c] \in 0..SocketRoom
  BY <1>1, XfrConstants DEF XfrCounted, XfrTyped
<1> QED
  BY <1>1, <1>2, <1>3 DEF XfrTypes, XfrCounted, Xfr!TypeOK

(* All four programs keep their variables in their types, for any number   *)
(* of clients, servers, descriptors, threads and messages: no backlog is   *)
(* longer than listen() allows and holds a connection twice, no event is   *)
(* without its descriptor, and no more is read than was sent.              *)
THEOREM TypesKept == FairSpec => []TypeOK
<1> DEFINE Inv == /\ OneShotInv /\ OneShotCounted /\ EchoInv /\ LevelInv
                  /\ XfrInv /\ XfrTyped
<1>1. Init => Inv
  BY OneShotInit, CountedInit, EchoInit, LevelInit, XfrInit, XfrTypedInit DEF Init
<1>2. OneShotCounted /\ UNCHANGED oneShotVars => OneShotCounted'
  BY DEF oneShotVars, OneShotCounted
<1>3. XfrInv /\ UNCHANGED xfrVars => XfrInv'
  <2>1. UNCHANGED xfrVars => UNCHANGED Xfr!vars
    BY DEF xfrVars, Xfr!vars, Xfr!server, Xfr!client
  <2> QED
    BY <2>1, XfrStands
<1>4. XfrInv /\ XfrTyped /\ Xfr!Next => XfrTyped'
  BY XfrCountedStep, ConnectedStep DEF XfrTyped
<1>5. Inv /\ [Next]_vars => Inv'
  <2> SUFFICES ASSUME Inv, [Next]_vars PROVE Inv'
    OBVIOUS
  <2>1. OneShotInv' /\ OneShotCounted'
    BY <1>2, OneShotStep, OneShotStands, CountedStep
    DEF Next, OneShotRuns, EchoRuns, LevelRuns, XfrRuns, vars
  <2>2. EchoInv' /\ LevelInv'
    BY EchoStep, EchoStands, LevelStep, LevelStands
    DEF Next, OneShotRuns, EchoRuns, LevelRuns, XfrRuns, vars
  <2>3. XfrInv' /\ XfrTyped'
    BY <1>3, <1>4, XfrStep, XfrTypedStands
    DEF Next, OneShotRuns, EchoRuns, LevelRuns, XfrRuns, vars
  <2> QED
    BY <2>1, <2>2, <2>3
<1>6. Inv => TypeOK
  BY OneShotTyped, EchoRight, LevelTyped, XfrTypesRight DEF TypeOK
<1> HIDE DEF Inv
<1> QED
  BY <1>1, <1>5, <1>6, PTL DEF FairSpec, Spec
===============================================================================

--------------------------- MODULE FifoSeqnumProofs ---------------------------
(***************************************************************************)
(* For any number of clients, any ints as lengths, any limit of            *)
(* descriptors and number of deaths: the ranges of a run of the server     *)
(* whose seqNum never went back are disjoint, and an open() waits only for *)
(* somebody who is about to come or dead.                                  *)
(***************************************************************************)
EXTENDS FifoSeqnum, TLAPS

(* A client that has not sent its request; the request the server works on;*)
(* the requests that still lie in the FIFO.                                *)
Early(c) == cpc[c] \in {"open", "waitServer", "mkfifo", "write"}
Opening == spc \in {"openClient", "waitClient"}
Serving == Opening \/ spc = "write"
Pending(c) == Queued(c) \/ (Serving /\ req = c)

(* Every client asks once: its request is in one place at most.            *)
AskedInv ==
    /\ Serving => req \in Clients /\ ~Queued(req)
    /\ \A i, k \in 1..Len(requests) : requests[i] = requests[k] => i = k
    /\ \A c \in Clients : Pending(c) => ~Early(c)

(* Until the server has opened its FIFO a client is about to open it, or   *)
(* waits, or is dead; where the server waits, the client does not.         *)
WaitInv ==
    /\ \A c \in Clients : Queued(c) \/ (Opening /\ req = c) =>
           cpc[c] \in {"openOwn", "opening", "unopened", "killed"}
    /\ spc = "waitClient" => cpc[req] # "opening" /\ FdFree
    /\ \A c \in Clients : cpc[c] = "opening" => clientFifo[c]

(* A request to this run is on its way until the client is passed over,    *)
(* which happens for want of a name or of a descriptor.                    *)
AwaitInv ==
    \A c \in Clients :
        cpc[c] \in {"openOwn", "opening"} /\ serverFd[c] = run /\ ServerUp =>
            Queued(c) \/ (Opening /\ req = c) \/ ~FdFree \/ ~clientFifo[c]

(* What has been granted lies below seqNum, and was granted in turn, as    *)
(* long as seqNum has only grown.                                          *)
GrantInv ==
    /\ run \notin wentBack => seqNum >= 0
    /\ \A g \in granted :
        /\ g.run = run /\ run \notin wentBack => g.upTo <= seqNum
        /\ ~Pending(g.client) /\ ~Early(g.client)
    /\ \A g, h \in granted : g # h =>
        /\ g.client # h.client
        /\ g.run = h.run /\ g.run \notin wentBack =>
               \/ g.upTo <= h.upTo - SeqLen[h.client]
               \/ h.upTo <= g.upTo - SeqLen[g.client]

Granted(c, n) == \E g \in granted : g.client = c /\ g.upTo = n

(* What a client has read, or will, was granted to it.                     *)
AnswerInv ==
    \A c \in Clients :
        /\ rsp[c] # <<>> => \E n \in IntRange : rsp[c] = <<n>> /\ Granted(c, n)
        /\ \A i \in 1..Len(answer[c]) : Granted(c, answer[c][i])

IInv == /\ TypeOK /\ AskedInv /\ WaitsOnlyForDead /\ WaitInv /\ AwaitInv
        /\ GrantInv /\ AnswerInv

-------------------------------------------------------------------------------
LEMMA InitInv == Init => IInv
<1> SUFFICES ASSUME Init PROVE IInv
    OBVIOUS
<1> USE FifoAssumption DEF Init
<1>1. TypeOK
    <2>1. <<>> \in Seq(IntRange) /\ <<>> \in Seq(Clients)
        OBVIOUS
    <2>2. answer \in [Clients -> Seq(IntRange)] /\ rsp \in [Clients -> Seq(IntRange)]
        BY <2>1
    <2>3. /\ cpc \in [Clients -> ClientPc] /\ serverFd \in [Clients -> 0..run]
          /\ clientFifo \in [Clients -> BOOLEAN]
        BY DEF ClientPc
    <2>4. run \in 1..MaxFaults + 1 /\ faults \in 0..MaxFaults /\ serverFifo \in 0..run
        OBVIOUS
    <2>5. /\ requests \in Seq(Clients) /\ wentBack \subseteq 1..run
          /\ granted \subseteq [client : Clients, run : 1..run, upTo : IntRange]
        BY <2>1
    <2>6. /\ spc \in ServerPc /\ req \in Clients \cup {NoReq} /\ seqNum \in IntRange
          /\ fds \subseteq Clients
        BY DEF ServerPc, IntRange
    <2> QED
        BY <2>2, <2>3, <2>4, <2>5, <2>6 DEF TypeOK
<1>2. AskedInv
    BY DEF AskedInv, Serving, Opening, Queued, Pending
<1>3. WaitInv /\ AwaitInv /\ WaitsOnlyForDead
    BY DEF WaitInv, AwaitInv, WaitsOnlyForDead, Exited, Queued, Opening
<1>4. GrantInv /\ AnswerInv
    BY DEF GrantInv, AnswerInv
<1> QED
    BY <1>1, <1>2, <1>3, <1>4 DEF IInv

(* A read from a FIFO, which takes its first element, or a write.          *)
LEMMA TailFacts ==
    ASSUME NEW S, NEW s \in Seq(S), s # <<>>
    PROVE  /\ Tail(s) \in Seq(S) /\ Head(s) = s[1] /\ s[1] \in S
           /\ Len(s) \in Nat \ {0} /\ Len(Tail(s)) = Len(s) - 1
           /\ \A i \in 1..Len(s) - 1 : Tail(s)[i] = s[i + 1]
OBVIOUS

LEMMA AppendFacts ==
    ASSUME NEW S, NEW s \in Seq(S), NEW x \in S
    PROVE  /\ Append(s, x) \in Seq(S)
           /\ Len(s) \in Nat /\ Len(Append(s, x)) = Len(s) + 1
           /\ \A i \in 1..Len(s) : Append(s, x)[i] = s[i]
           /\ Append(s, x)[Len(s) + 1] = x
OBVIOUS

LEMMA AppendNotEmpty ==
    ASSUME NEW S, NEW s \in Seq(S), NEW x \in S
    PROVE  Append(s, x) # <<>>
<1>1. Len(Append(s, x)) = Len(s) + 1 /\ Len(s) \in Nat
    BY AppendFacts
<1>2. ASSUME NEW t, t = <<>>, Len(t) = Len(s) + 1 PROVE FALSE
    <2>1. Len(t) = 0
        BY <1>2
    <2> QED
        BY <1>1, <1>2, <2>1
<1> QED
    BY <1>1, <1>2

LEMMA QueuedAppend ==
    ASSUME NEW d \in Clients, requests \in Seq(Clients), requests' = Append(requests, d)
    PROVE  \A c : Queued(c)' => Queued(c) \/ c = d
<1> SUFFICES ASSUME NEW c, NEW i \in 1..Len(requests'), requests'[i] = c, c # d
             PROVE  Queued(c)
    BY DEF Queued
<1>1. i \in 1..Len(requests) /\ requests[i] = c
    BY AppendFacts
<1> QED
    BY <1>1 DEF Queued

LEMMA WrapFacts ==
    ASSUME NEW a \in IntRange, NEW b \in IntRange
    PROVE  /\ Wrap(a + b) \in IntRange
           /\ a >= 0 /\ Wrap(a + b) >= a => Wrap(a + b) = a + b
BY FifoAssumption DEF IntRange, Wrap

LEMMA TypeStep == IInv /\ [Next]_vars => TypeOK'
<1> SUFFICES ASSUME IInv, [Next]_vars PROVE TypeOK'
    OBVIOUS
<1>0. TypeOK /\ AskedInv
    BY DEF IInv
<1> USE FifoAssumption, <1>0 DEF TypeOK, ServerPc, ClientPc, ServerGoto, ClientGoto,
        srvVars, cliVars, fifoVars, OneFault
<1>g. ASSUME ServerGone
      PROVE  /\ requests' \in Seq(Clients) /\ fds' \subseteq Clients
             /\ faults' \in 0..MaxFaults
             /\ UNCHANGED <<run, req, seqNum, granted, wentBack, cliVars>>
    <2>1. <<>> \in Seq(Clients)
        OBVIOUS
    <2> QED
        BY <1>g, <2>1 DEF ServerGone
<1>1. CASE Mkfifo
    BY <1>1 DEF Mkfifo
<1>2. CASE MkfifoFails
    BY <1>2 DEF MkfifoFails
<1>3. CASE OpenBegins
    <2>1. cpc' \in [Clients -> ClientPc]
        BY <1>3 DEF OpenBegins
    <2>2. spc' \in ServerPc
        BY <1>3 DEF OpenBegins
    <2> QED
        BY <1>3, <2>1, <2>2 DEF OpenBegins
<1>4. CASE OpenDummy \/ OpenFails
    BY <1>4 DEF OpenDummy, OpenFails
<1>5. CASE ReadRequest
    <2>1. requests # <<>> => Head(requests) \in Clients /\ Tail(requests) \in Seq(Clients)
        BY TailFacts
    <2>2. req' \in Clients /\ requests' \in Seq(Clients) /\ spc' = "openClient"
        BY <1>5, <2>1 DEF ReadRequest
    <2> QED
        BY <1>5, <2>2 DEF ReadRequest
<1>6. CASE OpenClient
    <2>1. cpc' \in [Clients -> ClientPc] /\ fds' \subseteq Clients /\ spc' \in ServerPc
        BY <1>6 DEF OpenClient, AskedInv, Serving, Opening
    <2> QED
        BY <1>6, <2>1 DEF OpenClient
<1>7. CASE OpenClientWaits \/ OpenClientFails
    BY <1>7 DEF OpenClientWaits, OpenClientFails
<1>8. CASE WriteResponse
    <2>1. req \in Clients /\ SeqLen[req] \in IntRange
        BY <1>8 DEF WriteResponse, AskedInv, Serving
    <2>0. seqNum' \in IntRange
        BY <1>8, <2>1, WrapFacts DEF WriteResponse
    <2>2. answer' \in [Clients -> Seq(IntRange)]
        <3>1. Append(answer[req], seqNum') \in Seq(IntRange)
            BY <2>0, <2>1, AppendFacts
        <3>2. answer' = [answer EXCEPT ![req] = Append(answer[req], seqNum')]
              \/ answer' = answer
            BY <1>8 DEF WriteResponse
        <3> QED
            BY <2>1, <3>1, <3>2
    <2>3. granted' \subseteq [client : Clients, run : 1..run, upTo : IntRange]
        <3>1. [client |-> req, run |-> run, upTo |-> seqNum']
                  \in [client : Clients, run : 1..run, upTo : IntRange]
            BY <2>0, <2>1
        <3>2. \/ granted' = granted \cup {[client |-> req, run |-> run, upTo |-> seqNum']}
              \/ granted' = granted
            BY <1>8 DEF WriteResponse
        <3> QED
            BY <3>1, <3>2
    <2>4. wentBack' \subseteq 1..run /\ spc' \in ServerPc
        BY <1>8 DEF WriteResponse
    <2>5. UNCHANGED <<run, req, fds, fifoVars, cpc, serverFd, clientFifo, rsp, faults>>
        BY <1>8 DEF WriteResponse
    <2> QED
        BY <2>0, <2>2, <2>3, <2>4, <2>5
<1>9. ASSUME NEW c \in Clients, OpenServer(c)  PROVE  TypeOK'
    <2>1. /\ serverFd' \in [Clients -> 0..run] /\ cpc' \in [Clients -> ClientPc]
          /\ spc' \in ServerPc
        BY <1>9 DEF OpenServer
    <2> QED
        BY <1>9, <2>1 DEF OpenServer
<1>10. ASSUME NEW c \in Clients, OpenServerWaits(c)  PROVE  TypeOK'
    <2>1. serverFd' \in [Clients -> 0..run] /\ cpc' \in [Clients -> ClientPc]
        BY <1>10 DEF OpenServerWaits
    <2> QED
        BY <1>10, <2>1 DEF OpenServerWaits
<1>11. ASSUME NEW c \in Clients,
              OpenServerFails(c) \/ OpenOwnWaits(c) \/ ClientMkfifo(c)
       PROVE  TypeOK'
    <2>1. cpc' \in [Clients -> ClientPc] /\ clientFifo' \in [Clients -> BOOLEAN]
        BY <1>11 DEF OpenServerFails, OpenOwnWaits, ClientMkfifo
    <2> QED
        BY <1>11, <2>1 DEF OpenServerFails, OpenOwnWaits, ClientMkfifo
<1>12. ASSUME NEW c \in Clients, OpenOwnRefused(c) \/ OpenOwnFails(c)
       PROVE  TypeOK'
    <2>1. cpc' \in [Clients -> ClientPc] /\ clientFifo' \in [Clients -> BOOLEAN]
        BY <1>12 DEF OpenOwnRefused, OpenOwnFails, ClientFails
    <2>2. faults' \in 0..MaxFaults
        BY <1>12 DEF OpenOwnRefused, OpenOwnFails
    <2> QED
        BY <1>12, <2>1, <2>2 DEF OpenOwnRefused, OpenOwnFails
<1>20. ASSUME NEW c \in Clients, ClientKilled(c) \/ ClientMkfifoFails(c)
       PROVE  TypeOK'
    <2>1. cpc' \in [Clients -> ClientPc]
        BY <1>20 DEF ClientKilled, ClientMkfifoFails
    <2>2. faults' \in 0..MaxFaults
        BY <1>20 DEF ClientKilled, ClientMkfifoFails
    <2> QED
        BY <1>20, <2>1, <2>2 DEF ClientKilled, ClientMkfifoFails
<1>13. ASSUME NEW c \in Clients, OpenOwnMeets(c)  PROVE  TypeOK'
    <2>1. cpc' \in [Clients -> ClientPc] /\ fds' \subseteq Clients /\ spc' \in ServerPc
        BY <1>13 DEF OpenOwnMeets
    <2> QED
        BY <1>13, <2>1 DEF OpenOwnMeets
<1>14. ASSUME NEW c \in Clients, WriteRequest(c)  PROVE  TypeOK'
    <2>1. Append(requests, c) \in Seq(Clients)
        BY AppendFacts
    <2>2. requests' \in Seq(Clients) /\ cpc' \in [Clients -> ClientPc]
        BY <1>14, <2>1 DEF WriteRequest
    <2> QED
        BY <1>14, <2>2 DEF WriteRequest
<1>15. ASSUME NEW c \in Clients, ReadResponse(c)  PROVE  TypeOK'
    <2>1. answer[c] # <<>> => /\ <<Head(answer[c])>> \in Seq(IntRange)
                              /\ Tail(answer[c]) \in Seq(IntRange)
        BY TailFacts
    <2>2. cpc' \in [Clients -> ClientPc] /\ clientFifo' \in [Clients -> BOOLEAN]
        BY <1>15 DEF ReadResponse, ClientFails
    <2>3. rsp' \in [Clients -> Seq(IntRange)]
        BY <1>15, <2>1 DEF ReadResponse
    <2>4. answer' \in [Clients -> Seq(IntRange)]
        BY <1>15, <2>1 DEF ReadResponse
    <2> QED
        BY <1>15, <2>2, <2>3, <2>4 DEF ReadResponse
<1>16. CASE Interrupted
    <2>1. serverFifo' \in 0..run /\ spc' \in ServerPc
        BY <1>16 DEF Interrupted
    <2>2. ServerGone
        BY <1>16 DEF Interrupted
    <2> QED
        BY <1>g, <2>1, <2>2
<1>17. CASE Killed
    BY <1>17, <1>g DEF Killed
<1>18. CASE Restart
    <2>1. run' \in 1..MaxFaults + 1 /\ run \in Nat /\ run' = run + 1 /\ 1..run \subseteq 1..run'
          /\ 0..run \subseteq 0..run'
        BY <1>18 DEF Restart
    <2>2. /\ serverFifo' \in 0..run' /\ serverFd' \in [Clients -> 0..run']
          /\ wentBack' \subseteq 1..run'
        BY <1>18, <2>1 DEF Restart
    <2>3. granted' \subseteq [client : Clients, run : 1..run', upTo : IntRange]
        BY <1>18, <2>1 DEF Restart
    <2>4. seqNum' \in IntRange
        BY <1>18 DEF Restart, IntRange
    <2> QED
        BY <1>18, <2>1, <2>2, <2>3, <2>4 DEF Restart
<1>19. CASE Idle \/ UNCHANGED vars
    BY <1>19 DEF Idle, vars
<1> QED
    BY <1>1, <1>2, <1>3, <1>4, <1>5, <1>6, <1>7, <1>8, <1>9, <1>10, <1>11, <1>12, <1>13,
       <1>14, <1>15, <1>16, <1>17, <1>18, <1>19, <1>20
    DEF Next, ServerStep, ClientStep, Fault

(* Every other step than a read from the server's FIFO, a write to it, and *)
(* the end of the server leaves the FIFO alone and takes no request up;    *)
(* nobody goes back to before its request.                                 *)
Quiet == /\ requests' = requests /\ (Serving' => Serving /\ req' = req)
         /\ \A c \in Clients : Early(c)' => Early(c)

LEMMA QuietStep ==
    ASSUME IInv, [Next]_vars
    PROVE  \/ Quiet \/ ReadRequest \/ Interrupted \/ Killed
           \/ \E d \in Clients : WriteRequest(d)
<1> USE DEF IInv, TypeOK, ServerPc, ClientPc, ServerGoto, ClientGoto, srvVars, cliVars,
        fifoVars, Early, Serving, Opening, Quiet
<1>1. CASE Mkfifo \/ MkfifoFails \/ OpenFails \/ OpenDummy \/ WriteResponse
    BY <1>1 DEF Mkfifo, MkfifoFails, OpenFails, OpenDummy, WriteResponse
<1>2. CASE OpenBegins
    BY <1>2 DEF OpenBegins, Waiting
<1>3. CASE OpenClient \/ OpenClientWaits \/ OpenClientFails
    BY <1>3 DEF OpenClient, OpenClientWaits, OpenClientFails
<1>4. ASSUME NEW d \in Clients,
             \/ OpenServer(d) \/ OpenServerWaits(d) \/ OpenServerFails(d)
             \/ ClientMkfifo(d) \/ ClientMkfifoFails(d) \/ ClientKilled(d)
      PROVE  Quiet
    BY <1>4 DEF OpenServer, OpenServerWaits, OpenServerFails, ClientMkfifo,
        ClientMkfifoFails, ClientKilled
<1>5. ASSUME NEW d \in Clients,
             \/ OpenOwnMeets(d) \/ OpenOwnWaits(d) \/ OpenOwnRefused(d)
             \/ OpenOwnFails(d)
      PROVE  Quiet
    BY <1>5 DEF OpenOwnMeets, OpenOwnWaits, OpenOwnRefused, OpenOwnFails, ClientFails
<1>6. ASSUME NEW d \in Clients, ReadResponse(d)
      PROVE  Quiet
    BY <1>6 DEF ReadResponse, ClientFails
<1>7. CASE Restart \/ Idle \/ UNCHANGED vars
    BY <1>7 DEF Restart, Idle, vars
<1> QED
    BY <1>1, <1>2, <1>3, <1>4, <1>5, <1>6, <1>7
    DEF Next, ServerStep, ClientStep, Fault

(* Requests are put into the FIFO by clients that had not asked yet, and   *)
(* taken from it one by one.                                               *)
LEMMA PendingStep ==
    ASSUME IInv, [Next]_vars
    PROVE  \A c \in Clients :
               /\ Early(c)' => Early(c)
               /\ Pending(c)' => (Pending(c) \/ Early(c)) /\ ~Early(c)'
<1> USE DEF IInv, TypeOK, ServerPc, ClientPc, ServerGoto, ClientGoto, srvVars, cliVars,
        fifoVars, Early, Serving, Opening
<1>1. CASE Quiet
    BY <1>1 DEF Quiet, AskedInv, Pending, Queued
<1>2. CASE ReadRequest
    BY <1>2, TailFacts DEF ReadRequest, AskedInv, Pending, Queued
<1>3. ASSUME NEW d \in Clients, WriteRequest(d)
      PROVE  \A c \in Clients :
                 /\ Early(c)' => Early(c)
                 /\ Pending(c)' => (Pending(c) \/ Early(c)) /\ ~Early(c)'
    <2>1. cpc[d] = "write" /\ cpc'[d] \in {"openOwn", "killed"} /\ UNCHANGED <<spc, req>>
          /\ \A c \in Clients \ {d} : cpc'[c] = cpc[c]
        BY <1>3 DEF WriteRequest
    <2>2. requests' = requests \/ requests' = Append(requests, d)
        BY <1>3 DEF WriteRequest
    <2>3. \A c \in Clients : Queued(c)' => Queued(c) \/ c = d
        BY <2>2, QueuedAppend DEF Queued
    <2> QED
        BY <2>1, <2>3 DEF AskedInv, Pending
<1>4. CASE Interrupted \/ Killed
    BY <1>4 DEF Interrupted, Killed, ServerGone, Pending, Queued
<1> QED
    BY <1>1, <1>2, <1>3, <1>4, QuietStep

LEMMA AskedStep == IInv /\ [Next]_vars => AskedInv'
<1> SUFFICES ASSUME IInv, [Next]_vars PROVE AskedInv'
    OBVIOUS
<1> USE DEF IInv, TypeOK, ServerPc, ServerGoto, srvVars, cliVars, fifoVars, Serving,
        Opening, AskedInv
<1>1. \A c \in Clients : Pending(c)' => ~Early(c)'
    BY PendingStep
<1> DEFINE Once == /\ Serving' => req' \in Clients /\ ~Queued(req)'
                   /\ \A i, k \in 1..Len(requests') : requests'[i] = requests'[k] => i = k
<1>0. SUFFICES Once
    BY <1>1
<1>2. Quiet => Once
    BY DEF Quiet, Queued
<1>3. CASE ReadRequest
    <2>x. requests # <<>> /\ requests' = Tail(requests) /\ req' = Head(requests)
        BY <1>3 DEF ReadRequest
    <2>t. /\ Head(requests) = requests[1] /\ requests[1] \in Clients
          /\ Len(requests) \in Nat \ {0} /\ Len(Tail(requests)) = Len(requests) - 1
          /\ \A i \in 1..Len(requests) - 1 : Tail(requests)[i] = requests[i + 1]
        BY <2>x, TailFacts
    <2>1. /\ req' = requests[1] /\ requests[1] \in Clients
          /\ Len(requests) \in Nat \ {0} /\ Len(requests') = Len(requests) - 1
          /\ \A i \in 1..Len(requests) - 1 : requests'[i] = requests[i + 1]
        BY <2>x, <2>t
    <2>2. \A i \in 1..Len(requests') :
              i + 1 \in 1..Len(requests) /\ requests'[i] = requests[i + 1] /\ i + 1 # 1
        BY <2>1
    <2>3. ~Queued(req)'
        <3>1. 1 \in 1..Len(requests)
            BY <2>1
        <3>2. ASSUME NEW i \in 1..Len(requests'), requests'[i] = req'  PROVE  FALSE
            BY <2>1, <2>2, <3>1, <3>2
        <3> QED
            BY <3>2 DEF Queued
    <2>4. ASSUME NEW i \in 1..Len(requests'), NEW k \in 1..Len(requests'),
                 requests'[i] = requests'[k]
          PROVE  i = k
        <3>1. /\ i + 1 \in 1..Len(requests) /\ k + 1 \in 1..Len(requests)
              /\ requests[i + 1] = requests[k + 1]
            BY <2>2, <2>4
        <3>2. i + 1 = k + 1
            BY <3>1
        <3>3. i \in Int /\ k \in Int
            BY <2>1
        <3> QED
            BY <3>2, <3>3
    <2> QED
        BY <2>1, <2>3, <2>4
<1>4. ASSUME NEW d \in Clients, WriteRequest(d)  PROVE  Once
    <2>1. cpc[d] = "write" /\ UNCHANGED <<spc, req>>
        BY <1>4 DEF WriteRequest
    <2>2. ~Queued(d) /\ (Serving => req # d)
        BY <2>1 DEF Pending, Early
    <2>3. CASE requests' = requests
        BY <2>1, <2>3 DEF Queued
    <2>4. CASE requests' = Append(requests, d)
        <3>1. Serving' => req' \in Clients /\ ~Queued(req)'
            BY <2>1, <2>2, <2>4, QueuedAppend
        <3>2. ASSUME NEW i \in 1..Len(requests'), NEW k \in 1..Len(requests'),
                     requests'[i] = requests'[k]
              PROVE  i = k
            <4>1. \A m \in 1..Len(requests') :
                      \/ m \in 1..Len(requests) /\ requests'[m] = requests[m]
                      \/ m = Len(requests) + 1 /\ requests'[m] = d
                BY <2>4, AppendFacts
            <4> QED
                BY <2>2, <3>2, <4>1 DEF Queued
        <3> QED
            BY <3>1, <3>2
    <2> QED
        BY <1>4, <2>3, <2>4 DEF WriteRequest
<1>5. CASE Interrupted \/ Killed
    BY <1>5 DEF Interrupted, Killed, ServerGone
<1> QED
    BY <1>2, <1>3, <1>4, <1>5, QuietStep

LEMMA WaitStep == IInv /\ [Next]_vars => WaitInv'
<1> SUFFICES ASSUME IInv, [Next]_vars PROVE WaitInv'
    OBVIOUS
<1> USE DEF IInv, TypeOK, ServerPc, ClientPc, ServerGoto, ClientGoto, srvVars, cliVars,
        fifoVars, WaitInv, Opening, FdFree
<1>1. CASE ReadRequest
    BY <1>1, TailFacts DEF ReadRequest, Queued
<1>2. ASSUME NEW d \in Clients, WriteRequest(d)  PROVE  WaitInv'
    <2>1. /\ cpc'[d] \in {"openOwn", "killed"} /\ UNCHANGED <<spc, req, fds, clientFifo>>
          /\ \A c \in Clients \ {d} : cpc'[c] = cpc[c]
        BY <1>2 DEF WriteRequest
    <2>2. requests' = requests \/ requests' = Append(requests, d)
        BY <1>2 DEF WriteRequest
    <2>3. \A c \in Clients : Queued(c)' => Queued(c) \/ c = d
        BY <2>2, QueuedAppend DEF Queued
    <2>4. spc = "waitClient" => req \in Clients
        BY DEF AskedInv, Serving
    <2> QED
        BY <2>1, <2>3, <2>4
<1>3. CASE Mkfifo \/ MkfifoFails \/ OpenFails \/ OpenDummy \/ WriteResponse
    BY <1>3 DEF Mkfifo, MkfifoFails, OpenFails, OpenDummy, WriteResponse, Queued
<1>4. CASE OpenBegins
    BY <1>4 DEF OpenBegins, Waiting, Queued
<1>5. CASE OpenClient
    BY <1>5 DEF OpenClient, Queued, AskedInv, Serving
<1>6. CASE OpenClientWaits \/ OpenClientFails
    BY <1>6 DEF OpenClientWaits, OpenClientFails, Queued, AskedInv, Serving
<1>7. ASSUME NEW d \in Clients,
             \/ OpenServer(d) \/ OpenServerWaits(d) \/ OpenServerFails(d)
             \/ ClientMkfifo(d) \/ ClientMkfifoFails(d) \/ ClientKilled(d)
      PROVE  WaitInv'
    <2>1. /\ UNCHANGED <<requests, req, fds>> /\ (Opening' => spc' = spc)
          /\ \A c \in Clients : cpc'[c] = "opening" => cpc[c] = "opening"
        BY <1>7 DEF OpenServer, OpenServerWaits, OpenServerFails, ClientMkfifo,
            ClientMkfifoFails, ClientKilled
    <2>2. \A c \in Clients : clientFifo[c] => clientFifo'[c]
        BY <1>7 DEF OpenServer, OpenServerWaits, OpenServerFails, ClientMkfifo,
            ClientMkfifoFails, ClientKilled
    <2>3. \A c \in Clients : cpc[c] \in {"openOwn", "opening", "unopened", "killed"} =>
              cpc'[c] \in {"openOwn", "opening", "unopened", "killed"}
        BY <1>7 DEF OpenServer, OpenServerWaits, OpenServerFails, ClientMkfifo,
            ClientMkfifoFails, ClientKilled
    <2>4. spc = "waitClient" => req \in Clients
        BY DEF AskedInv, Serving
    <2> QED
        BY <2>1, <2>2, <2>3, <2>4 DEF Queued
<1>8. ASSUME NEW d \in Clients, OpenOwnWaits(d) \/ OpenOwnRefused(d) \/ OpenOwnFails(d)
      PROVE  WaitInv'
    <2>1. /\ UNCHANGED <<spc, req, fds, requests>>
          /\ cpc[d] = "openOwn" /\ cpc'[d] \in {"opening", "unopened"}
          /\ cpc'[d] = "opening" => clientFifo'[d] /\ ~(spc = "waitClient" /\ req = d)
        BY <1>8 DEF OpenOwnWaits, OpenOwnRefused, OpenOwnFails, ClientFails
    <2>2. \A c \in Clients \ {d} : cpc'[c] = cpc[c] /\ clientFifo'[c] = clientFifo[c]
        BY <1>8 DEF OpenOwnWaits, OpenOwnRefused, OpenOwnFails, ClientFails
    <2>3. spc = "waitClient" => req \in Clients
        BY DEF AskedInv, Serving
    <2>4. \A c \in Clients : Queued(c)' <=> Queued(c)
        BY <2>1 DEF Queued
    <2>5. \A c \in Clients : Queued(c)' \/ (Opening' /\ req' = c) =>
              cpc'[c] \in {"openOwn", "opening", "unopened", "killed"}
        BY <2>1, <2>2, <2>4
    <2>6. spc' = "waitClient" => cpc'[req'] # "opening" /\ Cardinality(fds') < MaxFds
        BY <2>1, <2>2, <2>3
    <2>7. \A c \in Clients : cpc'[c] = "opening" => clientFifo'[c]
        BY <2>1, <2>2
    <2> QED
        BY <2>5, <2>6, <2>7
<1>12. ASSUME NEW d \in Clients, OpenOwnMeets(d)
      PROVE  WaitInv'
    <2>1. /\ spc = "waitClient" /\ spc' = "write" /\ req = d /\ UNCHANGED <<requests, clientFifo>>
          /\ \A c \in Clients \ {d} : cpc'[c] = cpc[c]
          /\ cpc'[d] = "read"
        BY <1>12 DEF OpenOwnMeets
    <2>2. ~Queued(d)
        BY <2>1 DEF AskedInv, Serving
    <2> QED
        BY <2>1, <2>2 DEF Queued
<1>9. ASSUME NEW d \in Clients, ReadResponse(d)
      PROVE  WaitInv'
    <2>1. /\ UNCHANGED <<spc, req, fds, requests>>
          /\ cpc[d] = "read" /\ cpc'[d] \in {"done", "failed"}
        BY <1>9 DEF ReadResponse, ClientFails
    <2>2. \A c \in Clients \ {d} : cpc'[c] = cpc[c] /\ clientFifo'[c] = clientFifo[c]
        BY <1>9 DEF ReadResponse, ClientFails
    <2>3. spc = "waitClient" => req \in Clients
        BY DEF AskedInv, Serving
    <2>4. \A c \in Clients : Queued(c)' <=> Queued(c)
        BY <2>1 DEF Queued
    <2>5. \A c \in Clients : Queued(c)' \/ (Opening' /\ req' = c) =>
              cpc'[c] \in {"openOwn", "opening", "unopened", "killed"}
        BY <2>1, <2>2, <2>4
    <2>6. spc' = "waitClient" => cpc'[req'] # "opening" /\ Cardinality(fds') < MaxFds
        BY <2>1, <2>2, <2>3
    <2>0. \A c \in Clients : cpc[c] = "opening" => clientFifo[c]
        OBVIOUS
    <2>7. \A c \in Clients : cpc'[c] = "opening" => clientFifo'[c]
        <3> HIDE DEF IInv, TypeOK, WaitInv
        <3> QED
            BY <2>0, <2>1, <2>2
    <2> QED
        BY <2>5, <2>6, <2>7
<1>10. CASE Interrupted \/ Killed
    BY <1>10 DEF Interrupted, Killed, ServerGone, Queued
<1>11. CASE Restart \/ Idle \/ UNCHANGED vars
    BY <1>11 DEF Restart, Idle, vars, Queued
<1> QED
    BY <1>1, <1>2, <1>3, <1>4, <1>5, <1>6, <1>7, <1>8, <1>9, <1>10, <1>11, <1>12
    DEF Next, ServerStep, ClientStep, Fault

(* A request leaves the FIFO only into the server's hands, and these only  *)
(* when its client is served or passed over.                               *)
LEMMA AwaitStep == IInv /\ [Next]_vars => AwaitInv'
<1> SUFFICES ASSUME IInv, [Next]_vars PROVE AwaitInv'
    OBVIOUS
<1> USE DEF IInv, TypeOK, ServerPc, ClientPc, ServerGoto, ClientGoto, srvVars, cliVars,
        fifoVars, AwaitInv, Opening, FdFree, ServerUp
<1>1. CASE ReadRequest
    <2>1. /\ requests # <<>> /\ requests' = Tail(requests) /\ req' = Head(requests)
          /\ spc = "read" /\ spc' = "openClient"
          /\ UNCHANGED <<run, fds, cpc, serverFd, clientFifo>>
        BY <1>1 DEF ReadRequest
    <2>2. /\ req' = requests[1] /\ Len(requests) \in Nat /\ Len(requests') = Len(requests) - 1
          /\ \A i \in 1..Len(requests) - 1 : requests'[i] = requests[i + 1]
        BY <2>1, TailFacts
    <2>3. ASSUME NEW c \in Clients, Queued(c)  PROVE  Queued(c)' \/ req' = c
        <3>1. PICK i \in 1..Len(requests) : requests[i] = c
            BY <2>3 DEF Queued
        <3>2. CASE i = 1
            BY <2>2, <3>1, <3>2
        <3>3. CASE i # 1
            <4>1. i - 1 \in 1..Len(requests) - 1 /\ (i - 1) + 1 = i
                BY <2>2, <3>1, <3>3
            <4>2. i - 1 \in 1..Len(requests') /\ requests'[i - 1] = c
                BY <2>2, <3>1, <4>1
            <4> QED
                BY <4>2 DEF Queued
        <3> QED
            BY <3>2, <3>3
    <2> QED
        BY <2>1, <2>3
<1>2. ASSUME NEW d \in Clients, WriteRequest(d)  PROVE  AwaitInv'
    <2>1. /\ UNCHANGED <<spc, run, req, fds, serverFd, clientFifo>>
          /\ \A c \in Clients \ {d} : cpc'[c] = cpc[c]
        BY <1>2 DEF WriteRequest
    <2>2. \/ requests' = requests /\ cpc'[d] = "killed"
          \/ requests' = Append(requests, d)
        BY <1>2 DEF WriteRequest
    <2>3. \A c \in Clients : Queued(c) => Queued(c)'
        <3>1. CASE requests' = requests
            BY <3>1 DEF Queued
        <3>2. CASE requests' = Append(requests, d)
            <4>1. Len(requests) \in Nat /\ Len(requests') = Len(requests) + 1
                  /\ \A i \in 1..Len(requests) : requests'[i] = requests[i]
                BY <3>2, AppendFacts
            <4>2. \A i \in 1..Len(requests) : i \in 1..Len(requests')
                BY <4>1
            <4> QED
                BY <4>1, <4>2 DEF Queued
        <3> QED
            BY <2>2, <3>1, <3>2
    <2>4. requests' = Append(requests, d) => Queued(d)'
        <3>1. SUFFICES ASSUME requests' = Append(requests, d) PROVE Queued(d)'
            OBVIOUS
        <3>2. Len(requests) \in Nat /\ Len(requests') = Len(requests) + 1
              /\ requests'[Len(requests) + 1] = d
            BY <3>1, AppendFacts
        <3>3. Len(requests) + 1 \in 1..Len(requests')
            BY <3>2
        <3> QED
            BY <3>2, <3>3 DEF Queued
    <2> QED
        BY <2>1, <2>2, <2>3, <2>4
<1>3. CASE Mkfifo \/ MkfifoFails \/ OpenFails \/ OpenDummy \/ WriteResponse
    BY <1>3 DEF Mkfifo, MkfifoFails, OpenFails, OpenDummy, WriteResponse, Queued
<1>4. CASE OpenBegins
    BY <1>4 DEF OpenBegins, Waiting, Queued
<1>5. CASE OpenClient
    BY <1>5 DEF OpenClient, Queued, AskedInv, Serving
<1>6. CASE OpenClientWaits \/ OpenClientFails
    BY <1>6 DEF OpenClientWaits, OpenClientFails, Queued
<1>7. ASSUME NEW d \in Clients,
             \/ OpenServer(d) \/ OpenServerWaits(d) \/ OpenServerFails(d)
             \/ ClientMkfifo(d) \/ ClientMkfifoFails(d) \/ ClientKilled(d)
      PROVE  AwaitInv'
    <2>1. /\ UNCHANGED <<requests, run, req, fds>>
          /\ spc' = spc \/ (spc = "opening" /\ spc' = "dummy")
        BY <1>7 DEF OpenServer, OpenServerWaits, OpenServerFails, ClientMkfifo,
            ClientMkfifoFails, ClientKilled
    <2>2. \A c \in Clients :
              cpc'[c] \in {"openOwn", "opening"} => /\ cpc'[c] = cpc[c]
                                                   /\ serverFd'[c] = serverFd[c]
                                                   /\ clientFifo'[c] = clientFifo[c]
        BY <1>7 DEF OpenServer, OpenServerWaits, OpenServerFails, ClientMkfifo,
            ClientMkfifoFails, ClientKilled
    <2> QED
        BY <2>1, <2>2 DEF Queued
<1>8. ASSUME NEW d \in Clients,
             \/ OpenOwnWaits(d) \/ OpenOwnRefused(d) \/ OpenOwnFails(d) \/ ReadResponse(d)
      PROVE  AwaitInv'
    <2>1. UNCHANGED <<requests, spc, run, req, fds, serverFd>>
        BY <1>8 DEF OpenOwnWaits, OpenOwnRefused, OpenOwnFails, ReadResponse
    <2>2. \A c \in Clients :
              cpc'[c] \in {"openOwn", "opening"} => /\ cpc[c] \in {"openOwn", "opening"}
                                                   /\ clientFifo'[c] = clientFifo[c]
        BY <1>8 DEF OpenOwnWaits, OpenOwnRefused, OpenOwnFails, ReadResponse, ClientFails
    <2> QED
        BY <2>1, <2>2 DEF Queued
<1>9. ASSUME NEW d \in Clients, OpenOwnMeets(d)
      PROVE  AwaitInv'
    <2>1. /\ UNCHANGED <<requests, run, req, serverFd, clientFifo>>
          /\ spc = "waitClient" /\ req = d /\ cpc'[d] = "read"
          /\ \A c \in Clients \ {d} : cpc'[c] = cpc[c]
        BY <1>9 DEF OpenOwnMeets
    <2>2. Cardinality(fds) < MaxFds
        BY <2>1 DEF WaitInv
    <2> QED
        BY <2>1, <2>2 DEF Queued
<1>10. CASE Interrupted \/ Killed
    BY <1>10 DEF Interrupted, Killed
<1>11. CASE Restart
    BY <1>11 DEF Restart
<1>12. CASE Idle \/ UNCHANGED vars
    BY <1>12 DEF Idle, vars, Queued
<1> QED
    BY <1>1, <1>2, <1>3, <1>4, <1>5, <1>6, <1>7, <1>8, <1>9, <1>10, <1>11, <1>12
    DEF Next, ServerStep, ClientStep, Fault

(* What WaitsOnlyForDead says of clients that read, and of names.          *)
LEMMA DeadStep == IInv /\ [Next]_vars => WaitsOnlyForDead'
<1> SUFFICES ASSUME IInv, [Next]_vars PROVE WaitsOnlyForDead'
    OBVIOUS
<1> DEFINE NameGone == \A c \in Clients : Exited(c) => ~clientFifo[c]
           ReadInv == \A c \in Clients :
               cpc[c] = "read" /\ c \in fds /\ answer[c] = <<>> => spc = "write" /\ req = c
<1>1. ASSUME NameGone', ReadInv', WaitInv', AwaitInv', AskedInv'
      PROVE  WaitsOnlyForDead'
    BY <1>1 DEF WaitsOnlyForDead, WaitInv, AwaitInv, AskedInv, Opening, Serving, InHand
<1>2. WaitInv' /\ AwaitInv' /\ AskedInv'
    BY WaitStep, AwaitStep, AskedStep
<1>3. NameGone /\ ReadInv
    BY DEF IInv, WaitsOnlyForDead
<1> SUFFICES NameGone' /\ ReadInv'
    BY <1>1, <1>2
<1> USE <1>3 DEF IInv, TypeOK, ServerPc, ClientPc, ServerGoto, ClientGoto, srvVars, cliVars,
        fifoVars, Exited
<1>4. CASE Mkfifo \/ MkfifoFails \/ OpenFails \/ OpenDummy \/ ReadRequest
    BY <1>4 DEF Mkfifo, MkfifoFails, OpenFails, OpenDummy, ReadRequest
<1>5. CASE OpenBegins
    BY <1>5 DEF OpenBegins, Waiting
<1>6. CASE OpenClient
    BY <1>6 DEF OpenClient, AskedInv, Serving, Opening
<1>7. CASE OpenClientWaits \/ OpenClientFails
    BY <1>7 DEF OpenClientWaits, OpenClientFails
<1>8. CASE WriteResponse
    <2>1. /\ UNCHANGED <<cpc, clientFifo, fds>> /\ req \in Clients
          /\ \A c \in Clients \ {req} : answer'[c] = answer[c]
        BY <1>8 DEF WriteResponse, AskedInv, Serving
    <2>2. cpc[req] = "read" => answer'[req] # <<>>
        <3>1. seqNum' \in IntRange
            BY TypeStep
        <3>2. Append(answer[req], seqNum') # <<>>
            <4>1. answer[req] \in Seq(IntRange)
                BY <2>1
            <4> QED
                BY <3>1, <4>1, AppendNotEmpty
        <3> QED
            BY <1>8, <2>1, <3>2 DEF WriteResponse
    <2>3. spc = "write"
        BY <1>8 DEF WriteResponse
    <2> QED
        BY <2>1, <2>2, <2>3
<1>9. ASSUME NEW d \in Clients,
             \/ OpenServer(d) \/ OpenServerWaits(d) \/ OpenServerFails(d)
             \/ ClientMkfifo(d) \/ ClientMkfifoFails(d) \/ ClientKilled(d)
      PROVE  NameGone' /\ ReadInv'
    <2>1. /\ UNCHANGED <<req, fds, answer>> /\ (spc = "write" => spc' = spc)
          /\ \A c \in Clients : cpc'[c] = "read" \/ Exited(c)' =>
                 cpc'[c] = cpc[c] /\ clientFifo'[c] = clientFifo[c]
        BY <1>9 DEF OpenServer, OpenServerWaits, OpenServerFails, ClientMkfifo,
            ClientMkfifoFails, ClientKilled
    <2> QED
        BY <2>1
<1>10. ASSUME NEW d \in Clients,
             OpenOwnWaits(d) \/ OpenOwnRefused(d) \/ OpenOwnFails(d) \/ WriteRequest(d)
      PROVE  NameGone' /\ ReadInv'
    <2>1. /\ UNCHANGED <<spc, req, fds, answer>>
          /\ \A c \in Clients : cpc'[c] = "read" => cpc[c] = "read"
        BY <1>10 DEF OpenOwnWaits, OpenOwnRefused, OpenOwnFails, ClientFails, WriteRequest
    <2>2. \A c \in Clients : Exited(c)' => ~clientFifo'[c]
        BY <1>10 DEF OpenOwnWaits, OpenOwnRefused, OpenOwnFails, ClientFails, WriteRequest
    <2> QED
        BY <2>1, <2>2
<1>11. ASSUME NEW d \in Clients, OpenOwnMeets(d)
      PROVE  NameGone' /\ ReadInv'
    BY <1>11 DEF OpenOwnMeets
<1>12. ASSUME NEW d \in Clients, ReadResponse(d)
      PROVE  NameGone' /\ ReadInv'
    <2>1. /\ UNCHANGED <<spc, req, fds>> /\ cpc'[d] \in {"done", "failed"} /\ ~clientFifo'[d]
        BY <1>12 DEF ReadResponse, ClientFails
    <2>2. \A c \in Clients \ {d} : /\ cpc'[c] = cpc[c] /\ clientFifo'[c] = clientFifo[c]
                                   /\ answer'[c] = answer[c]
        BY <1>12 DEF ReadResponse, ClientFails
    <2> QED
        BY <2>1, <2>2
<1>13. CASE Interrupted \/ Killed
    BY <1>13 DEF Interrupted, Killed, ServerGone
<1>14. CASE Restart \/ Idle \/ UNCHANGED vars
    BY <1>14 DEF Restart, Idle, vars, ServerUp
<1> QED
    BY <1>4, <1>5, <1>6, <1>7, <1>8, <1>9, <1>10, <1>11, <1>12, <1>13, <1>14
    DEF Next, ServerStep, ClientStep, Fault

(* Of the steps only WriteResponse grants; a run counts from 0 again, and  *)
(* its numbers are compared with no other's.                               *)
LEMMA GrantStep == IInv /\ [Next]_vars => GrantInv'
<1> SUFFICES ASSUME IInv, [Next]_vars PROVE GrantInv'
    OBVIOUS
<1> USE DEF IInv, TypeOK, ServerGoto, ClientGoto, srvVars, cliVars, fifoVars, GrantInv
<1>1. \A g \in granted : ~Pending(g.client)' /\ ~Early(g.client)'
    BY PendingStep
<1>t. run' \in Nat /\ seqNum' \in IntRange
    BY FifoAssumption, TypeStep
<1>2. CASE UNCHANGED <<granted, wentBack, run, seqNum>>
    BY <1>1, <1>2
<1>3. CASE WriteResponse
    <2>1. /\ spc = "write" /\ spc' = "read" /\ req \in Clients /\ Pending(req)
          /\ ~Queued(req) /\ ~Early(req)
        BY <1>3 DEF WriteResponse, AskedInv, Serving, Pending
    <2>2. /\ run' = run /\ seqNum' = Wrap(seqNum + SeqLen[req]) /\ SeqLen[req] \in IntRange
          /\ wentBack' = (IF seqNum' < seqNum THEN wentBack \cup {run} ELSE wentBack)
          /\ UNCHANGED <<requests, cpc>>
        BY <1>3, <2>1, FifoAssumption DEF WriteResponse
    <2>a. ASSUME run \notin wentBack'
          PROVE  /\ run \notin wentBack /\ seqNum >= 0 /\ seqNum' >= seqNum
                 /\ seqNum' = seqNum + SeqLen[req]
        <3>1. run \notin wentBack /\ ~(seqNum' < seqNum)
            BY <2>a, <2>2
        <3>2. seqNum >= 0 /\ seqNum' >= seqNum
            BY <1>t, <3>1 DEF IntRange
        <3> QED
            BY <2>2, <3>1, <3>2, WrapFacts
    <2>b. run' \notin wentBack' => seqNum' >= 0
        BY <1>t, <2>2, <2>a DEF IntRange
    <2>c. \A r : r \notin wentBack' => r \notin wentBack
        BY <2>2
    <2>3. ASSUME NEW c \in Clients, c = req  PROVE  ~Pending(c)' /\ ~Early(c)'
        <3>1. Queued(c)' => Queued(c)
            BY <2>2 DEF Queued
        <3>2. ~Serving'
            BY <2>1 DEF Serving, Opening
        <3> QED
            BY <2>1, <2>2, <2>3, <3>1, <3>2 DEF Pending, Early
    <2>d. \A g \in granted : g.run = run' /\ run' \notin wentBack' => g.upTo <= seqNum'
        BY <1>t, <2>2, <2>a DEF IntRange
    <2>4. CASE granted' = granted
        BY <1>1, <2>4, <2>b, <2>c, <2>d
    <2>5. CASE granted' = granted \cup {[client |-> req, run |-> run, upTo |-> seqNum']}
        <3> DEFINE new == [client |-> req, run |-> run, upTo |-> seqNum']
        <3>1. \A g \in granted : g.client # req
            BY <2>1
        <3>2. \A g \in granted' : g.run = run' /\ run' \notin wentBack' => g.upTo <= seqNum'
            BY <2>d, <2>5, <1>t DEF IntRange
        <3>3. \A g \in granted : g.run = new.run /\ new.run \notin wentBack' =>
                                    g.upTo <= new.upTo - SeqLen[new.client]
            <4>1. SUFFICES ASSUME NEW g \in granted, g.run = run, run \notin wentBack'
                           PROVE  g.upTo <= seqNum' - SeqLen[req]
                OBVIOUS
            <4>2. g.upTo <= seqNum /\ seqNum' = seqNum + SeqLen[req]
                BY <2>a, <4>1
            <4> QED
                BY <2>2, <4>2 DEF IntRange
        <3>4. \A g \in granted' : ~Pending(g.client)' /\ ~Early(g.client)'
            <4> TAKE g \in granted'
            <4>1. g \in granted \/ g.client = req
                BY <2>5
            <4> QED
                BY <1>1, <2>1, <2>3, <4>1
        <3>5. \A g, h \in granted' : g # h =>
                  /\ g.client # h.client
                  /\ g.run = h.run /\ g.run \notin wentBack' =>
                         \/ g.upTo <= h.upTo - SeqLen[h.client]
                         \/ h.upTo <= g.upTo - SeqLen[g.client]
            BY <2>5, <2>c, <3>1, <3>3
        <3> QED
            BY <2>b, <3>2, <3>4, <3>5
    <2> QED
        BY <1>3, <2>4, <2>5 DEF WriteResponse
<1>4. CASE Restart
    <2>1. run' = run + 1 /\ seqNum' = 0 /\ UNCHANGED <<granted, wentBack>>
        BY <1>4 DEF Restart
    <2>2. \A g \in granted : g.run # run'
        BY <2>1, FifoAssumption
    <2> QED
        BY <1>1, <2>1, <2>2
<1>5. CASE Mkfifo \/ MkfifoFails \/ OpenBegins \/ OpenFails \/ OpenDummy \/ ReadRequest
    BY <1>2, <1>5 DEF Mkfifo, MkfifoFails, OpenBegins, OpenFails, OpenDummy, ReadRequest
<1>6. CASE OpenClient \/ OpenClientWaits \/ OpenClientFails
    BY <1>2, <1>6 DEF OpenClient, OpenClientWaits, OpenClientFails
<1>7. CASE Interrupted \/ Killed \/ Idle \/ UNCHANGED vars
    BY <1>2, <1>7 DEF Interrupted, Killed, ServerGone, Idle, vars
<1>8. ASSUME NEW c \in Clients,
             ClientStep(c) \/ ClientKilled(c) \/ ClientMkfifoFails(c) \/ OpenOwnFails(c)
      PROVE  GrantInv'
    BY <1>2, <1>8 DEF ClientStep, OpenServer, OpenServerWaits, OpenServerFails, ClientMkfifo,
        WriteRequest, OpenOwnMeets, OpenOwnWaits, OpenOwnRefused, ReadResponse, ClientKilled,
        ClientMkfifoFails, OpenOwnFails
<1> QED
    BY <1>3, <1>4, <1>5, <1>6, <1>7, <1>8 DEF Next, ServerStep, Fault

LEMMA AnswerStep == IInv /\ [Next]_vars => AnswerInv'
<1> SUFFICES ASSUME IInv, [Next]_vars PROVE AnswerInv'
    OBVIOUS
<1> USE DEF IInv, TypeOK, ServerGoto, ClientGoto, srvVars, cliVars, fifoVars, AnswerInv
<1> DEFINE Given(c, n) == \E g \in granted' : g.client = c /\ g.upTo = n
           AllGiven == \A c \in Clients :
                           /\ rsp'[c] # <<>> => \E n \in IntRange : rsp'[c] = <<n>> /\ Given(c, n)
                           /\ \A i \in 1..Len(answer'[c]) : Given(c, answer'[c][i])
<1>0. SUFFICES AllGiven
    BY DEF Granted
<1>1. granted \subseteq granted' => \A c, n : Granted(c, n) => Given(c, n)
    BY DEF Granted
<1>2. CASE UNCHANGED <<granted, rsp, answer>>
    BY <1>1, <1>2
<1>3. CASE WriteResponse /\ cpc[req] = "read"
    <2>a. req \in Clients /\ seqNum' \in IntRange
        BY <1>3, TypeStep DEF WriteResponse, AskedInv, Serving
    <2>b. /\ granted' = granted \cup {[client |-> req, run |-> run, upTo |-> seqNum']}
          /\ answer' = [answer EXCEPT ![req] = Append(answer[req], seqNum')]
          /\ UNCHANGED rsp
        BY <1>3 DEF WriteResponse
    <2>1. /\ req \in Clients /\ seqNum' \in IntRange /\ granted \subseteq granted'
          /\ answer' = [answer EXCEPT ![req] = Append(answer[req], seqNum')]
          /\ UNCHANGED rsp
        BY <2>a, <2>b
    <2>2. Given(req, seqNum')
        <3>1. [client |-> req, run |-> run, upTo |-> seqNum'] \in granted'
            BY <2>b
        <3> QED
            BY <3>1
    <2>3. answer'[req] = Append(answer[req], seqNum') /\ answer[req] \in Seq(IntRange)
        BY <2>1
    <2>4. \A i \in 1..Len(answer'[req]) : Given(req, answer'[req][i])
        <3>1. \A i \in 1..Len(answer'[req]) :
                  \/ i \in 1..Len(answer[req]) /\ answer'[req][i] = answer[req][i]
                  \/ answer'[req][i] = seqNum'
            <4>1. /\ Len(Append(answer[req], seqNum')) = Len(answer[req]) + 1
                  /\ Len(answer[req]) \in Nat
                  /\ \A i \in 1..Len(answer[req]) :
                         Append(answer[req], seqNum')[i] = answer[req][i]
                  /\ Append(answer[req], seqNum')[Len(answer[req]) + 1] = seqNum'
                BY <2>1, <2>3, AppendFacts
            <4> QED
                BY <2>3, <4>1
        <3> HIDE DEF Given
        <3> QED
            BY <1>1, <2>1, <2>2, <3>1
    <2>5. \A c \in Clients \ {req} : answer'[c] = answer[c]
        BY <2>1
    <2> HIDE DEF Given
    <2> QED
        BY <1>0, <1>1, <2>1, <2>4, <2>5
<1>4. ASSUME NEW c \in Clients, ReadResponse(c)  PROVE  AllGiven
    <2>1. granted' = granted
        BY <1>4 DEF ReadResponse
    <2>2. CASE answer[c] # <<>> /\ rsp' = [rsp EXCEPT ![c] = <<Head(answer[c])>>]
               /\ answer' = [answer EXCEPT ![c] = Tail(@)]
        <3>1. /\ answer[c][1] \in IntRange /\ rsp'[c] = <<answer[c][1]>>
              /\ 1 \in 1..Len(answer[c])
              /\ \A i \in 1..Len(answer'[c]) :
                     i + 1 \in 1..Len(answer[c]) /\ answer'[c][i] = answer[c][i + 1]
            <4>1. /\ Head(answer[c]) = answer[c][1] /\ Len(answer[c]) \in Nat \ {0}
                  /\ answer[c][1] \in IntRange
                  /\ Len(Tail(answer[c])) = Len(answer[c]) - 1
                  /\ \A i \in 1..Len(answer[c]) - 1 : Tail(answer[c])[i] = answer[c][i + 1]
                BY <2>2, TailFacts
            <4>2. rsp'[c] = <<Head(answer[c])>> /\ answer'[c] = Tail(answer[c])
                BY <2>2
            <4> QED
                BY <4>1, <4>2
        <3>2. /\ Given(c, answer[c][1])
              /\ \A i \in 1..Len(answer'[c]) : Given(c, answer'[c][i])
            <4> HIDE DEF Given
            <4> QED
                BY <1>1, <2>1, <3>1
        <3>3. \A d \in Clients \ {c} : rsp'[d] = rsp[d] /\ answer'[d] = answer[d]
            BY <2>2
        <3> HIDE DEF Given
        <3>4. rsp'[c] # <<>> => \E n \in IntRange : rsp'[c] = <<n>> /\ Given(c, n)
            BY <3>1, <3>2
        <3>5. ASSUME NEW d \in Clients \ {c}
              PROVE  /\ rsp'[d] # <<>> => \E n \in IntRange : rsp'[d] = <<n>> /\ Given(d, n)
                     /\ \A i \in 1..Len(answer'[d]) : Given(d, answer'[d][i])
            <4>1. /\ rsp[d] # <<>> => \E n \in IntRange : rsp[d] = <<n>> /\ Granted(d, n)
                  /\ \A i \in 1..Len(answer[d]) : Granted(d, answer[d][i])
                OBVIOUS
            <4> QED
                BY <1>1, <2>1, <3>3, <4>1
        <3>6. ASSUME NEW d \in Clients
              PROVE  /\ rsp'[d] # <<>> => \E n \in IntRange : rsp'[d] = <<n>> /\ Given(d, n)
                     /\ \A i \in 1..Len(answer'[d]) : Given(d, answer'[d][i])
            <4>1. CASE d = c
                BY <3>2, <3>4, <4>1
            <4>2. CASE d # c
                BY <3>5, <4>2
            <4> QED
                BY <4>1, <4>2
        <3> QED
            BY <3>6
    <2> QED
        BY <1>2, <1>4, <2>1, <2>2 DEF ReadResponse
<1>5. CASE Mkfifo \/ MkfifoFails \/ OpenBegins \/ OpenFails \/ OpenDummy \/ ReadRequest
           \/ OpenClient \/ OpenClientWaits \/ OpenClientFails
    BY <1>2, <1>5 DEF Mkfifo, MkfifoFails, OpenBegins, OpenFails, OpenDummy, ReadRequest,
        OpenClient, OpenClientWaits, OpenClientFails
<1>6. CASE WriteResponse /\ cpc[req] # "read"
    BY <1>2, <1>6 DEF WriteResponse
<1>7. CASE Interrupted \/ Killed \/ Restart \/ Idle \/ UNCHANGED vars
    BY <1>2, <1>7 DEF Interrupted, Killed, ServerGone, Restart, Idle, vars
<1>8. ASSUME NEW c \in Clients,
             \/ OpenServer(c) \/ OpenServerWaits(c) \/ OpenServerFails(c)
             \/ ClientMkfifo(c) \/ WriteRequest(c) \/ OpenOwnMeets(c) \/ OpenOwnWaits(c)
             \/ OpenOwnRefused(c)
             \/ ClientKilled(c) \/ ClientMkfifoFails(c) \/ OpenOwnFails(c)
      PROVE  AllGiven
    BY <1>2, <1>8 DEF OpenServer, OpenServerWaits, OpenServerFails, ClientMkfifo,
        WriteRequest, OpenOwnMeets, OpenOwnWaits, OpenOwnRefused, ClientKilled,
        ClientMkfifoFails, OpenOwnFails
<1> QED
    BY <1>3, <1>4, <1>5, <1>6, <1>7, <1>8 DEF Next, ServerStep, ClientStep, Fault

LEMMA Invariance == Spec => []IInv
<1>1. IInv /\ [Next]_vars => IInv'
    BY TypeStep, AskedStep, DeadStep, WaitStep, AwaitStep, GrantStep, AnswerStep DEF IInv
<1> QED
    BY InitInv, <1>1, PTL DEF Spec

-------------------------------------------------------------------------------
(* Every variable stays in its type, and seqNum and the answers stay ints, *)
(* however many clients there are, whatever they ask for, and however      *)
(* often the server is started again.                                      *)
THEOREM TypeCorrect == Spec => []TypeOK
<1>1. IInv => TypeOK
    BY DEF IInv
<1> QED
    BY <1>1, Invariance, PTL

(* fifo_seqnum_server.c:86-88: no number is handed out twice by a run of   *)
(* the server whose seqNum never went back, no client is answered twice,   *)
(* and what a client reads was granted to it.                              *)
THEOREM NumbersUnique == Spec => []RangesDisjoint
<1>1. IInv => RangesDisjoint
    <2> SUFFICES ASSUME IInv PROVE RangesDisjoint
        OBVIOUS
    <2>1. ASSUME NEW g \in granted, NEW h \in granted, g # h
          PROVE  /\ g.client # h.client
                 /\ g.run = h.run /\ g.run \notin wentBack => Range(g) \cap Range(h) = {}
        <3>1. /\ g.upTo \in Int /\ h.upTo \in Int
              /\ SeqLen[g.client] \in Int /\ SeqLen[h.client] \in Int
            <4>1. \A n \in IntRange : n \in Int
                BY FifoAssumption DEF IntRange
            <4>2. /\ g \in [client : Clients, run : 1..run, upTo : IntRange]
                  /\ h \in [client : Clients, run : 1..run, upTo : IntRange]
                BY <2>1 DEF IInv, TypeOK
            <4> QED
                BY <4>1, <4>2, FifoAssumption
        <3> QED
            BY <2>1, <3>1 DEF IInv, GrantInv, Range
    <2>2. ASSUME NEW c \in Clients, rsp[c] # <<>>
          PROVE  \E g \in granted : g.client = c /\ rsp[c] = <<g.upTo>>
        BY <2>2 DEF IInv, AnswerInv, Granted
    <2> QED
        BY <2>1, <2>2 DEF RangesDisjoint
<1> QED
    BY <1>1, Invariance, PTL

(* fifo_seqnum_server.c:78, fifo_seqnum_client.c:64-72: the server's       *)
(* open() waits only for a client that is about to come or is dead, and a  *)
(* client waits for the server it has asked only while its request is on   *)
(* the way to be answered or no descriptor is left.                        *)
THEOREM OnlyDeathBlocks == Spec => []WaitsOnlyForDead
<1>1. IInv => WaitsOnlyForDead
    BY DEF IInv
<1> QED
    BY <1>1, Invariance, PTL
===============================================================================

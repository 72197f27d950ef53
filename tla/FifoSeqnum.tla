------------------------------ MODULE FifoSeqnum ------------------------------
(***************************************************************************)
(* TLPI/chapter44/FIFO_SERVER_CLIENT: an iterative server that hands out   *)
(* ranges of sequence numbers.  Requests arrive on a well-known FIFO; each *)
(* client creates a FIFO of its own for the answer.  Opening a FIFO waits  *)
(* for the other end, which is where this protocol can hang.               *)
(***************************************************************************)
EXTENDS Integers, Sequences, FiniteSets

CONSTANTS Clients,
          NoReq,         \* not a client
          MaxInt,        \* the largest int
          SeqLen,        \* what each client asks for: any int, atoi(argv[1])
          MaxFds,        \* bound: descriptors the server can open for clients
          MaxFaults      \* bound: deaths, failing calls, and restarts

IntRange == -(MaxInt + 1)..MaxInt

ASSUME FifoAssumption ==
    /\ NoReq \notin Clients
    /\ MaxInt \in Nat
    /\ SeqLen \in [Clients -> IntRange]
    /\ MaxFds \in Nat /\ MaxFaults \in Nat

VARIABLES
    spc,         \* server: next statement, or the open() it waits in
    run,         \* which run of the server this is
    req,         \* the request in the server's hands
    seqNum,
    fds,         \* clients whose FIFO the server has open; it never closes one
    serverFifo,  \* the run that made the FIFO with the well-known name, 0: none
    requests,    \* what this run's FIFO holds
    cpc,         \* each client: next statement, the open() it waits in, or its end
    serverFd,    \* the run whose FIFO the client has open or waits for, 0: none
    clientFifo,  \* the client's FIFO has its name
    answer,      \* its contents
    rsp,         \* what the client read
    granted,     \* every answer written, with the run of the server
    wentBack,    \* runs whose seqNum has once become smaller
    faults

srvVars  == <<spc, run, req, seqNum, fds, granted, wentBack>>
fifoVars == <<serverFifo, requests>>
cliVars  == <<cpc, serverFd, clientFifo, answer, rsp>>
vars == <<srvVars, fifoVars, cliVars, faults>>

ServerPc == {"mkfifo", "open", "opening", "dummy", "read", "openClient", "waitClient",
             "write", "exited", "killed"}
ClientPc == {"open", "waitServer", "mkfifo", "write", "openOwn", "opening", "read",
             "done", "failed", "unopened", "refused", "killed"}

Init ==
    /\ spc = "mkfifo" /\ run = 1 /\ req = NoReq /\ seqNum = 0 /\ fds = {}
    /\ serverFifo = 0 /\ requests = <<>>
    /\ cpc = [c \in Clients |-> "open"]
    /\ serverFd = [c \in Clients |-> 0]
    /\ clientFifo = [c \in Clients |-> FALSE]
    /\ answer = [c \in Clients |-> <<>>]
    /\ rsp = [c \in Clients |-> <<>>]
    /\ granted = {} /\ wentBack = {}
    /\ faults = 0

OneFault == faults < MaxFaults /\ faults' = faults + 1

-------------------------------------------------------------------------------
(* The server.                                                             *)

ServerUp == spc \notin {"exited", "killed"}

ServerGoto(pc) == spc' = pc /\ UNCHANGED run

(* An existing FIFO, the one a killed server left, makes the server exit.  *)
Mkfifo ==
    /\ spc = "mkfifo"
    /\ IF serverFifo # 0
       THEN ServerGoto("exited") /\ UNCHANGED serverFifo
       ELSE ServerGoto("open") /\ serverFifo' = run
    /\ UNCHANGED <<req, seqNum, fds, granted, wentBack, requests, cliVars, faults>>

(* Any other failure of mkfifo() is not looked at.                         *)
MkfifoFails ==
    /\ spc = "mkfifo"
    /\ serverFifo = 0
    /\ OneFault
    /\ ServerGoto("open")
    /\ UNCHANGED <<req, seqNum, fds, granted, wentBack, fifoVars, cliVars>>

(* open(O_RDONLY) waits for a writer.  Clients that already wait in their  *)
(* open() of this FIFO are found, and go on.                               *)
Waiting == {c \in Clients : cpc[c] = "waitServer" /\ serverFd[c] = run}

OpenBegins ==
    /\ spc = "open"
    /\ serverFifo = run
    /\ ServerGoto(IF Waiting = {} THEN "opening" ELSE "dummy")
    /\ cpc' = [c \in Clients |-> IF c \in Waiting THEN "mkfifo" ELSE cpc[c]]
    /\ UNCHANGED <<req, seqNum, fds, granted, wentBack, fifoVars, serverFd, clientFifo,
                   answer, rsp, faults>>

OpenFails ==
    /\ spc = "open"
    /\ serverFifo # run
    /\ ServerGoto("exited")
    /\ UNCHANGED <<req, seqNum, fds, granted, wentBack, fifoVars, cliVars, faults>>

(* The server's own write end, so that read() never meets an end of file.  *)
OpenDummy ==
    /\ spc = "dummy"
    /\ ServerGoto("read")
    /\ UNCHANGED <<req, seqNum, fds, granted, wentBack, fifoVars, cliVars, faults>>

ReadRequest ==
    /\ spc = "read"
    /\ requests # <<>>
    /\ req' = Head(requests)
    /\ requests' = Tail(requests)
    /\ ServerGoto("openClient")
    /\ UNCHANGED <<seqNum, fds, granted, wentBack, serverFifo, cliVars, faults>>

FdFree == Cardinality(fds) < MaxFds

(* open(O_WRONLY) of the client's FIFO finds a client that waits in its    *)
(* own open(): both calls return.                                          *)
OpenClient ==
    /\ spc = "openClient"
    /\ clientFifo[req] /\ FdFree
    /\ cpc[req] = "opening"
    /\ fds' = fds \cup {req}
    /\ cpc' = [cpc EXCEPT ![req] = "read"]
    /\ ServerGoto("write")
    /\ UNCHANGED <<req, seqNum, granted, wentBack, fifoVars, serverFd, clientFifo,
                   answer, rsp, faults>>

(* Otherwise it waits for the FIFO it has found, under whatever name or    *)
(* none: only an open() of the client (see OpenOwnMeets) ends that.        *)
OpenClientWaits ==
    /\ spc = "openClient"
    /\ clientFifo[req] /\ FdFree
    /\ cpc[req] # "opening"
    /\ ServerGoto("waitClient")
    /\ UNCHANGED <<req, seqNum, fds, granted, wentBack, fifoVars, cliVars, faults>>

(* It fails when there is no such name or no descriptor is left: the       *)
(* client is passed over.                                                  *)
OpenClientFails ==
    /\ spc = "openClient"
    /\ ~clientFifo[req] \/ ~FdFree
    /\ ServerGoto("read")
    /\ UNCHANGED <<req, seqNum, fds, granted, wentBack, fifoVars, cliVars, faults>>

(* Mutant: seqNum is an unsigned int.                                      *)
Wrap_Unsigned(n) == n % (2 * (MaxInt + 1))

(* The sum of two ints; in an overflow the compiler's add wraps round.     *)
Wrap(n) ==
    IF n > MaxInt THEN n - 2 * (MaxInt + 1)
    ELSE IF n < -(MaxInt + 1) THEN n + 2 * (MaxInt + 1)
    ELSE n

(* Mutant: the numbers are handed out twice.                               *)
WriteResponse_NoAdvance ==
    /\ spc = "write"
    /\ LET upTo == Wrap(seqNum + SeqLen[req]) IN
        /\ answer' = [answer EXCEPT ![req] = Append(@, upTo)]
        /\ granted' = granted \cup {[client |-> req, run |-> run, upTo |-> upTo]}
    /\ ServerGoto("read")
    /\ UNCHANGED <<req, seqNum, fds, wentBack, fifoVars, cpc, serverFd, clientFifo, rsp,
                   faults>>

(* SIGPIPE is ignored, so a client that left is noticed by the result of   *)
(* write() only, after the numbers were taken.                             *)
WriteResponse ==
    /\ spc = "write"
    /\ seqNum' = Wrap(seqNum + SeqLen[req])
    /\ wentBack' = IF seqNum' < seqNum THEN wentBack \cup {run} ELSE wentBack
    /\ IF cpc[req] = "read"
       THEN /\ answer' = [answer EXCEPT ![req] = Append(@, seqNum')]
            /\ granted' = granted \cup {[client |-> req, run |-> run, upTo |-> seqNum']}
       ELSE UNCHANGED <<answer, granted>>
    /\ ServerGoto("read")
    /\ UNCHANGED <<req, fds, fifoVars, cpc, serverFd, clientFifo, rsp, faults>>

ServerStep ==
    \/ Mkfifo \/ OpenBegins \/ OpenFails \/ OpenDummy \/ ReadRequest
    \/ OpenClient \/ OpenClientWaits \/ OpenClientFails \/ WriteResponse

-------------------------------------------------------------------------------
(* The clients.                                                            *)

ClientGoto(c, pc) == cpc' = [cpc EXCEPT ![c] = pc]

(* This run has the FIFO's read end, or waits in the open() of it.         *)
ServerReads == spc \notin {"mkfifo", "open", "exited", "killed"}

(* open(O_WRONLY) of the server's FIFO finds its reader; a reader that     *)
(* still waits in its own open() goes on as well.                          *)
OpenServer(c) ==
    /\ cpc[c] = "open"
    /\ serverFifo = run /\ ServerReads
    /\ serverFd' = [serverFd EXCEPT ![c] = run]
    /\ ServerGoto(IF spc = "opening" THEN "dummy" ELSE spc)
    /\ ClientGoto(c, "mkfifo")
    /\ UNCHANGED <<req, seqNum, fds, granted, wentBack, fifoVars, clientFifo, answer, rsp,
                   faults>>

(* Nobody reads it yet, or any more: the client waits for that FIFO.       *)
OpenServerWaits(c) ==
    /\ cpc[c] = "open"
    /\ serverFifo # 0 /\ ~(serverFifo = run /\ ServerReads)
    /\ serverFd' = [serverFd EXCEPT ![c] = serverFifo]
    /\ ClientGoto(c, "waitServer")
    /\ UNCHANGED <<srvVars, fifoVars, clientFifo, answer, rsp, faults>>

(* There is no such name: the client exits.                                *)
OpenServerFails(c) ==
    /\ cpc[c] = "open"
    /\ serverFifo = 0
    /\ ClientGoto(c, "refused")
    /\ UNCHANGED <<srvVars, fifoVars, serverFd, clientFifo, answer, rsp, faults>>

(* Mutant: the request is sent before the FIFO for the answer is made.     *)
ClientMkfifo_Late(c) ==
    \/ /\ cpc[c] = "mkfifo"
       /\ serverFd[c] = run /\ ServerUp
       /\ requests' = Append(requests, c)
       /\ ClientGoto(c, "openOwn")
       /\ UNCHANGED <<srvVars, serverFifo, serverFd, clientFifo, answer, rsp, faults>>
    \/ /\ cpc[c] = "openOwn" /\ ~clientFifo[c]
       /\ clientFifo' = [clientFifo EXCEPT ![c] = TRUE]
       /\ UNCHANGED <<srvVars, fifoVars, cpc, serverFd, answer, rsp, faults>>

(* mkfifo() of the client's own FIFO, and atexit(removeFifo).              *)
ClientMkfifo(c) ==
    /\ cpc[c] = "mkfifo"
    /\ clientFifo' = [clientFifo EXCEPT ![c] = TRUE]
    /\ ClientGoto(c, "write")
    /\ UNCHANGED <<srvVars, fifoVars, serverFd, answer, rsp, faults>>

(* Only EEXIST is looked at: after another failure the client goes on.     *)
ClientMkfifoFails(c) ==
    /\ cpc[c] = "mkfifo"
    /\ OneFault
    /\ ClientGoto(c, "write")
    /\ UNCHANGED <<srvVars, fifoVars, serverFd, clientFifo, answer, rsp>>

(* Nobody reads the FIFO of a run that is over: SIGPIPE kills the client.  *)
WriteRequest(c) ==
    /\ cpc[c] = "write"
    /\ IF serverFd[c] = run /\ ServerUp
       THEN /\ requests' = Append(requests, c)
            /\ ClientGoto(c, "openOwn")
       ELSE /\ ClientGoto(c, "killed")
            /\ UNCHANGED requests
    /\ UNCHANGED <<srvVars, serverFifo, serverFd, clientFifo, answer, rsp, faults>>

(* open(O_RDONLY) of its own FIFO finds the server in its open() of it:    *)
(* both calls return.                                                      *)
OpenOwnMeets(c) ==
    /\ cpc[c] = "openOwn" /\ clientFifo[c]
    /\ spc = "waitClient" /\ req = c
    /\ fds' = fds \cup {c}
    /\ ServerGoto("write")
    /\ ClientGoto(c, "read")
    /\ UNCHANGED <<req, seqNum, granted, wentBack, fifoVars, serverFd, clientFifo, answer,
                   rsp, faults>>

(* Otherwise it waits for the server, see OpenClient.                      *)
OpenOwnWaits(c) ==
    /\ cpc[c] = "openOwn" /\ clientFifo[c]
    /\ ~(spc = "waitClient" /\ req = c)
    /\ ClientGoto(c, "opening")
    /\ UNCHANGED <<srvVars, fifoVars, serverFd, clientFifo, answer, rsp, faults>>

(* Mutant: removeFifo() is not registered with atexit.                     *)
ClientFails_NoAtexit(c, pc) ==
    /\ ClientGoto(c, pc)
    /\ UNCHANGED clientFifo

(* exit() runs removeFifo(): the name goes, a server that waits stays.     *)
ClientFails(c, pc) ==
    /\ ClientGoto(c, pc)
    /\ clientFifo' = [clientFifo EXCEPT ![c] = FALSE]

(* There is no FIFO after all, or open() fails for another reason.         *)
OpenOwnRefused(c) ==
    /\ cpc[c] = "openOwn" /\ ~clientFifo[c]
    /\ ClientFails(c, "unopened")
    /\ UNCHANGED <<srvVars, fifoVars, serverFd, answer, rsp, faults>>

OpenOwnFails(c) ==
    /\ cpc[c] = "openOwn"
    /\ OneFault
    /\ ClientFails(c, "unopened")
    /\ UNCHANGED <<srvVars, fifoVars, serverFd, answer, rsp>>

sizeofRequest == 8
sizeofResponse == 4

(* read() asks for a response and gets one, or 0 bytes when the server is  *)
(* gone; the result is compared with the size of a request.                *)
ReadResponse(c) ==
    /\ cpc[c] = "read"
    /\ \/ /\ answer[c] # <<>>
          /\ rsp' = [rsp EXCEPT ![c] = <<Head(answer[c])>>]
          /\ answer' = [answer EXCEPT ![c] = Tail(@)]
          /\ ClientFails(c, IF sizeofResponse = sizeofRequest THEN "done" ELSE "failed")
       \/ /\ answer[c] = <<>> /\ c \notin fds
          /\ ClientFails(c, "failed")
          /\ UNCHANGED <<rsp, answer>>
    /\ UNCHANGED <<srvVars, fifoVars, serverFd, faults>>

ClientStep(c) ==
    \/ OpenServer(c) \/ OpenServerWaits(c) \/ OpenServerFails(c)
    \/ ClientMkfifo(c) \/ WriteRequest(c)
    \/ OpenOwnMeets(c) \/ OpenOwnWaits(c) \/ OpenOwnRefused(c) \/ ReadResponse(c)

-------------------------------------------------------------------------------
(* Deaths.                                                                 *)

Exited(c) == cpc[c] \in {"done", "failed", "unopened"}

Ended(c) == Exited(c) \/ cpc[c] \in {"refused", "killed"}

(* SIGINT or SIGKILL: the client has no handler, its FIFO stays.           *)
ClientKilled(c) ==
    /\ ~Ended(c)
    /\ OneFault
    /\ ClientGoto(c, "killed")
    /\ UNCHANGED <<srvVars, fifoVars, serverFd, clientFifo, answer, rsp>>

(* What ends with the server process: its descriptors and, since it was    *)
(* the only reader, the contents of its FIFO.                              *)
ServerGone ==
    /\ ServerUp
    /\ OneFault
    /\ fds' = {} /\ requests' = <<>>
    /\ UNCHANGED <<run, req, seqNum, granted, wentBack, cliVars>>

(* SIGINT: the handler removes the name, also one that another run left.   *)
Interrupted ==
    /\ ServerGone
    /\ spc' = "exited"
    /\ serverFifo' = 0

Killed ==
    /\ ServerGone
    /\ spc' = "killed"
    /\ UNCHANGED serverFifo

(* The server is started again, and counts from 0 again.                   *)
Restart ==
    /\ ~ServerUp
    /\ run <= MaxFaults
    /\ spc' = "mkfifo"
    /\ run' = run + 1
    /\ seqNum' = 0 /\ req' = NoReq
    /\ UNCHANGED <<fds, granted, wentBack, fifoVars, cliVars, faults>>

Fault ==
    \/ MkfifoFails \/ Interrupted \/ Killed \/ Restart
    \/ \E c \in Clients : ClientKilled(c) \/ ClientMkfifoFails(c) \/ OpenOwnFails(c)

(* The server waits for the next request.                                  *)
Idle ==
    /\ \A c \in Clients : Ended(c)
    /\ spc = "read" /\ requests = <<>>
    /\ UNCHANGED vars

Next ==
    \/ ServerStep \/ Fault \/ Idle
    \/ \E c \in Clients : ClientStep(c)

Spec == Init /\ [][Next]_vars

FairSpec == Spec /\ WF_vars(ServerStep) /\ \A c \in Clients : WF_vars(ClientStep(c))

-------------------------------------------------------------------------------
(* Properties.                                                             *)

(* Every variable stays in its type; seqNum and the answers stay ints,     *)
(* whatever the clients ask for.                                           *)
TypeOK ==
    /\ spc \in ServerPc /\ run \in 1..MaxFaults + 1
    /\ req \in Clients \cup {NoReq}
    /\ seqNum \in IntRange /\ fds \subseteq Clients
    /\ serverFifo \in 0..run
    /\ requests \in Seq(Clients)
    /\ cpc \in [Clients -> ClientPc]
    /\ serverFd \in [Clients -> 0..run]
    /\ clientFifo \in [Clients -> BOOLEAN]
    /\ answer \in [Clients -> Seq(IntRange)]
    /\ rsp \in [Clients -> Seq(IntRange)]
    /\ granted \subseteq [client : Clients, run : 1..run, upTo : IntRange]
    /\ wentBack \subseteq 1..run
    /\ faults \in 0..MaxFaults

(* The numbers of an answer: upTo is the last of them.                     *)
Range(g) == (g.upTo - SeqLen[g.client] + 1)..g.upTo

(* fifo_seqnum_server.c:86-88: two answers of one run of the server never  *)
(* share a number, unless a negative length or an overflow has once made   *)
(* its seqNum smaller; nobody is answered twice, and what a client reads   *)
(* is what was granted to it.                                              *)
RangesDisjoint ==
    /\ \A g, h \in granted : g # h =>
        /\ g.client # h.client
        /\ g.run = h.run /\ g.run \notin wentBack => Range(g) \cap Range(h) = {}
    /\ \A c \in Clients :
        rsp[c] # <<>> => \E g \in granted : g.client = c /\ rsp[c] = <<g.upTo>>

InHand(c) == spc = "openClient" /\ req = c
Queued(c) == \E i \in 1..Len(requests) : requests[i] = c

(* Who waits in an open() or read(), and for what.  The server waits for a *)
(* client that is about to open its FIFO, was killed, or failed to open it *)
(* while the server was waiting already: a client that has exited has left *)
(* no name for a server to begin with.  A client waits for the server of   *)
(* the run it has asked only while its request is on the way to be         *)
(* answered, or because no descriptor was left.                            *)
WaitsOnlyForDead ==
    /\ spc = "waitClient" => cpc[req] \in {"openOwn", "unopened", "killed"}
    /\ \A c \in Clients :
        /\ Exited(c) => ~clientFifo[c]
        /\ cpc[c] = "opening" /\ serverFd[c] = run /\ ServerUp =>
               Queued(c) \/ InHand(c) \/ ~FdFree
        /\ cpc[c] = "read" /\ c \in fds /\ answer[c] = <<>> => spc = "write" /\ req = c

(* Without faults every client gets its answer, unless it came before      *)
(* there was a FIFO, or the server, which closes no client's FIFO, has no  *)
(* descriptor left.                                                        *)
AnsweredUnlessExhausted ==
    \A c \in Clients :
        <>(faults > 0 \/ rsp[c] # <<>> \/ cpc[c] = "refused" \/ Cardinality(fds) = MaxFds)
===============================================================================

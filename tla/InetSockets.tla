------------------------------ MODULE InetSockets ------------------------------
(***************************************************************************)
(* TLPI/chapter59/inet_sockets.c: inetConnect(), inetListen() and          *)
(* inetBind(), called one after the other by a process that keeps what     *)
(* they return and tries again when they fail.                             *)
(***************************************************************************)
EXTENDS Integers

CONSTANTS
    MaxAddrs,     \* addresses getaddrinfo() may return
    MaxCalls,     \* bound: calls of the process
    MaxFds        \* its limit of descriptors

InetAssumption == {MaxAddrs, MaxCalls, MaxFds} \subseteq Nat

VARIABLES
    pc,           \* the next call, "idle" between two operations, "crashed"
    op,           \* "connect", "listen" or "bind"
    calls,        \* operations so far
    addrs,        \* length of the list getaddrinfo() returned
    rp,           \* position in it
    open,         \* descriptors: the call that made each of them
    returned,     \* those the process got
    deaf,         \* calls whose listen() failed
    ret           \* what the last operation returned: 0 is success

vars == <<pc, op, calls, addrs, rp, open, returned, deaf, ret>>

Init ==
    /\ pc = "idle" /\ op = "connect" /\ calls = 0
    /\ addrs = 0 /\ rp = 1
    /\ open = [c \in 1..MaxCalls |-> 0]
    /\ returned = {} /\ deaf = {} /\ ret = -1

-------------------------------------------------------------------------------
Goes(to) == pc' = to
NumOpen == LET sum[c \in 0..MaxCalls] == IF c = 0 THEN 0 ELSE sum[c - 1] + open[c]
           IN sum[MaxCalls]
Close == open' = [open EXCEPT ![calls] = @ - 1]

Return(value) ==
    /\ Goes("idle") /\ ret' = value
    /\ returned' = IF value = 0 THEN returned \cup {calls} ELSE returned

Call(o) ==
    /\ pc = "idle" /\ calls < MaxCalls
    /\ op' = o /\ calls' = calls + 1 /\ rp' = 1
    /\ Goes("getaddrinfo")
    /\ UNCHANGED <<addrs, open, returned, deaf, ret>>

(* inetConnect() goes on when getaddrinfo() fails, with an uninitialised   *)
(* list, which may happen to be empty; inetPassiveSocket() returns.        *)
Getaddrinfo ==
    /\ pc = "getaddrinfo"
    /\ \/ /\ addrs' \in 1..MaxAddrs
          /\ Goes("socket") /\ UNCHANGED <<returned, ret>>
       \/ /\ op = "connect" /\ pc' \in {"socket", "crashed"}
          /\ addrs' = 0
          /\ UNCHANGED <<returned, ret>>
       \/ /\ op # "connect" /\ Return(-1)
          /\ UNCHANGED addrs
    /\ UNCHANGED <<op, calls, rp, open, deaf>>

(* The end of the list is the failure of the operation.                    *)
EndOfList ==
    /\ pc = "socket" /\ rp > addrs
    /\ Return(-1)
    /\ UNCHANGED <<op, calls, addrs, rp, open, deaf>>

Socket ==
    /\ pc = "socket" /\ rp <= addrs
    /\ \/ /\ NumOpen < MaxFds
          /\ open' = [open EXCEPT ![calls] = @ + 1]
          /\ Goes(CASE op = "connect" -> "connect"
                    [] op = "listen" -> "setsockopt"
                    [] OTHER -> "bind")
          /\ UNCHANGED rp
       \/ rp' = rp + 1 /\ UNCHANGED <<pc, open>>
    /\ UNCHANGED <<op, calls, addrs, returned, deaf, ret>>

Setsockopt ==
    /\ pc = "setsockopt"
    /\ \/ Goes("bind") /\ UNCHANGED <<open, returned, ret>>
       \/ Close /\ Return(-1)
    /\ UNCHANGED <<op, calls, addrs, rp, deaf>>

(* Mutant: an address that does not answer keeps its socket.               *)
NextAddress_Open ==
    /\ Goes("socket") /\ rp' = rp + 1
    /\ UNCHANGED <<open, returned, ret>>

(* connect() or bind() fails: the socket is closed, and the next address   *)
(* has its turn.                                                           *)
NextAddress ==
    /\ Close /\ Goes("socket") /\ rp' = rp + 1
    /\ UNCHANGED <<returned, ret>>

Connect ==
    /\ pc = "connect"
    /\ \/ Return(0) /\ UNCHANGED <<rp, open>>
       \/ NextAddress
    /\ UNCHANGED <<op, calls, addrs, deaf>>

Bind ==
    /\ pc = "bind"
    /\ \/ op = "listen" /\ Goes("listen") /\ UNCHANGED <<rp, open, returned, ret>>
       \/ op = "bind" /\ Return(0) /\ UNCHANGED <<rp, open>>
       \/ NextAddress
    /\ UNCHANGED <<op, calls, addrs, deaf>>

(* When listen() fails the socket stays open, and nobody has it.           *)
Listen ==
    /\ pc = "listen"
    /\ \/ Return(0) /\ UNCHANGED deaf
       \/ Return(-1) /\ deaf' = deaf \cup {calls}
    /\ UNCHANGED <<op, calls, addrs, rp, open>>

Next ==
    \/ \E o \in {"connect", "listen", "bind"} : Call(o)
    \/ Getaddrinfo \/ EndOfList \/ Socket \/ Setsockopt \/ Connect \/ Bind \/ Listen

Spec == Init /\ [][Next]_vars

-------------------------------------------------------------------------------
TypeOK ==
    /\ pc \in {"idle", "getaddrinfo", "socket", "setsockopt", "connect", "bind",
               "listen", "crashed"}
    /\ op \in {"connect", "listen", "bind"} /\ calls \in 0..MaxCalls
    /\ addrs \in 0..MaxAddrs /\ rp \in 1..MaxAddrs + 1
    /\ open \in [1..MaxCalls -> 0..MaxFds] /\ NumOpen <= MaxFds
    /\ returned \subseteq 1..calls /\ deaf \subseteq 1..calls /\ ret \in {-1, 0}

(* Lines 31-57 and 83-124: an operation leaves one socket open when it     *)
(* returns it, or when listen() failed, and none otherwise, however many   *)
(* addresses it tried and calls failed.                                    *)
NothingLeaks ==
    pc = "idle" =>
        /\ ret = 0 => calls \in returned
        /\ \A c \in 1..calls : open[c] = IF c \in returned \cup deaf THEN 1 ELSE 0
===============================================================================

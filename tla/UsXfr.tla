-------------------------------- MODULE UsXfr --------------------------------
(***************************************************************************)
(* TLPI/chapter57, us_xfr_sv.c and us_xfr_cl.c: clients send their         *)
(* standard input over a UNIX stream socket to a server that writes it to  *)
(* its standard output, one client after the other.  A server may be       *)
(* started while another runs: it takes the socket's path away from it.    *)
(*                                                                         *)
(* Data is counted in blocks of BUF_SIZE.                                  *)
(***************************************************************************)
EXTENDS Integers, Sequences, SequencesExt, FiniteSets

CONSTANTS Clients, Servers,
          Blocks,       \* bound: the sizes of inputs, in blocks
          SocketRoom,   \* bound: blocks a socket holds
          MaxDeaths,    \* bound: processes that are killed
          None, Stale   \* no path, and one left over from an earlier run

UsXfrAssumption ==
    /\ {None, Stale} \cap (Servers \cup Clients) = {} /\ None # Stale
    /\ Blocks \subseteq Nat /\ SocketRoom \in Nat \ {0} /\ MaxDeaths \in Nat

VARIABLES
    path,      \* the server whose socket SV_SOCK_PATH names
    spc,       \* each server: next call, or how it ended
    backlog,   \* connections accept() has not returned
    afd,       \* the client a server reads from
    output,    \* what it has written: the owners of the blocks
    cpc,       \* each client: next call, or how it ended
    size,      \* blocks in its input
    taken,     \* blocks it has read
    ending,    \* what read() returns after them: "eof" or "error"
    sfd,       \* the server it is connected to
    socket,    \* blocks sent to the server and not read
    deaths     \* processes killed so far

server == <<path, spc, backlog, afd, output>>
client == <<cpc, size, taken, ending, sfd, socket>>
vars == <<server, client, deaths>>

Init ==
    /\ path \in {None, Stale}
    /\ spc = [s \in Servers |-> "remove"]
    /\ backlog = [s \in Servers |-> <<>>]
    /\ afd = [s \in Servers |-> None]
    /\ output = [s \in Servers |-> <<>>]
    /\ cpc = [c \in Clients |-> "connect"]
    /\ size \in [Clients -> Blocks]
    /\ taken = [c \in Clients |-> 0]
    /\ ending \in [Clients -> {"eof", "error"}]
    /\ sfd = [c \in Clients |-> None]
    /\ socket = [c \in Clients |-> 0]
    /\ deaths = 0

Listening(s) == spc[s] \in {"accept", "read"}
ClientEnded(c) == cpc[c] \in {"success", "failure", "sigpipe"}

-------------------------------------------------------------------------------
(* us_xfr_sv.c                                                             *)

SGoto(s, next) == spc' = [spc EXCEPT ![s] = next]

RemovePath(s) ==
    /\ spc[s] = "remove" /\ SGoto(s, "bind")
    /\ path' = None
    /\ UNCHANGED <<backlog, afd, output, client>>

Bind(s) ==
    /\ spc[s] = "bind"
    /\ \/ path = None /\ path' = s /\ SGoto(s, "listen")
       \/ path # None /\ SGoto(s, "failure") /\ UNCHANGED path
    /\ UNCHANGED <<backlog, afd, output, client>>

Listen(s) ==
    /\ spc[s] = "listen" /\ SGoto(s, "accept")
    /\ UNCHANGED <<path, backlog, afd, output, client>>

Accept(s) ==
    /\ spc[s] = "accept" /\ backlog[s] # <<>>
    /\ afd' = [afd EXCEPT ![s] = Head(backlog[s])]
    /\ backlog' = [backlog EXCEPT ![s] = Tail(@)]
    /\ SGoto(s, "read")
    /\ UNCHANGED <<path, output, client>>

(* Mutant: the loop is left when a read returns less than a full buffer.   *)
X_CopyBlock(s) ==
    /\ spc[s] = "read" /\ socket[afd[s]] > 0
    /\ socket' = [socket EXCEPT ![afd[s]] = @ - 1]
    /\ output' = [output EXCEPT ![s] = Append(@, afd[s])]
    /\ \/ UNCHANGED <<spc, afd>>
       \/ SGoto(s, "accept") /\ afd' = [afd EXCEPT ![s] = None]
    /\ UNCHANGED <<path, backlog, cpc, size, taken, ending, sfd>>

(* A block is read and written, unless the standard output takes no more.  *)
CopyBlock(s) ==
    /\ spc[s] = "read" /\ socket[afd[s]] > 0
    /\ socket' = [socket EXCEPT ![afd[s]] = @ - 1]
    /\ \/ output' = [output EXCEPT ![s] = Append(@, afd[s])] /\ UNCHANGED spc
       \/ SGoto(s, "failure") /\ UNCHANGED output
    /\ UNCHANGED <<path, backlog, afd, cpc, size, taken, ending, sfd>>

(* Mutant: accept() again although the client may send more.               *)
X_CloseAfd(s) ==
    /\ spc[s] = "read" /\ socket[afd[s]] = 0
    /\ afd' = [afd EXCEPT ![s] = None]
    /\ backlog' = [backlog EXCEPT ![s] = IF ClientEnded(afd[s]) THEN @ ELSE Append(@, afd[s])]
    /\ SGoto(s, "accept")
    /\ UNCHANGED <<path, output, client>>

(* The end of the stream: the client has ended and all of it is read.      *)
CloseAfd(s) ==
    /\ spc[s] = "read" /\ socket[afd[s]] = 0 /\ ClientEnded(afd[s])
    /\ afd' = [afd EXCEPT ![s] = None]
    /\ SGoto(s, "accept")
    /\ UNCHANGED <<path, backlog, output, client>>

ServerStep(s) ==
    /\ \/ RemovePath(s) \/ Bind(s) \/ Listen(s)
       \/ Accept(s) \/ CopyBlock(s) \/ CloseAfd(s)
    /\ UNCHANGED deaths

(* A signal, or a failure of any other call; the kernel closes the sockets.*)
ServerDies(s) ==
    /\ spc[s] # "failure" /\ SGoto(s, "failure")
    /\ deaths < MaxDeaths /\ deaths' = deaths + 1
    /\ UNCHANGED <<path, backlog, afd, output, client>>

-------------------------------------------------------------------------------
(* us_xfr_cl.c                                                             *)

CGoto(c, next) == cpc' = [cpc EXCEPT ![c] = next]

(* connect() fails without a path or a listening server behind it; more    *)
(* clients than the backlog of 5 holds are not modelled.                   *)
ConnectTo(c, s) ==
    /\ cpc[c] = "connect"
    /\ path = s /\ Listening(s)
    /\ backlog' = [backlog EXCEPT ![s] = Append(@, c)]
    /\ sfd' = [sfd EXCEPT ![c] = s]
    /\ CGoto(c, "read")
    /\ UNCHANGED <<path, spc, afd, output, size, taken, ending, socket>>

ConnectFails(c) ==
    /\ cpc[c] = "connect"
    /\ \A s \in Servers : path = s => ~Listening(s)
    /\ CGoto(c, "failure")
    /\ UNCHANGED <<server, size, taken, ending, sfd, socket>>

ReadBlock(c) ==
    /\ cpc[c] = "read" /\ taken[c] < size[c]
    /\ taken' = [taken EXCEPT ![c] = @ + 1]
    /\ CGoto(c, "write")
    /\ UNCHANGED <<server, size, ending, sfd, socket>>

(* A server that has ended takes its sockets with it.                      *)
WriteBlock(c) ==
    /\ cpc[c] = "write"
    /\ \/ /\ spc[sfd[c]] = "failure"
          /\ CGoto(c, "sigpipe") /\ UNCHANGED socket
       \/ /\ spc[sfd[c]] # "failure" /\ socket[c] < SocketRoom
          /\ socket' = [socket EXCEPT ![c] = @ + 1]
          /\ CGoto(c, "read")
    /\ UNCHANGED <<server, size, taken, ending, sfd>>

EndOfFile(c) ==
    /\ cpc[c] = "read" /\ taken[c] = size[c] /\ ending[c] = "eof"
    /\ CGoto(c, "success")
    /\ UNCHANGED <<server, size, taken, ending, sfd, socket>>

(* numRead is a size_t: a result of -1 is more than 0.                     *)
ReadFails(c) ==
    /\ cpc[c] = "read" /\ taken[c] = size[c] /\ ending[c] = "error"
    /\ CGoto(c, "writeError")
    /\ UNCHANGED <<server, size, taken, ending, sfd, socket>>

(* write() fails for a length of SIZE_MAX, and its -1, converted for the   *)
(* comparison, equals numRead: the loop goes on.                           *)
WriteFails(c) ==
    /\ cpc[c] = "writeError"
    /\ CGoto(c, "read")
    /\ UNCHANGED <<server, size, taken, ending, sfd, socket>>

ClientStep(c) ==
    /\ \/ \E s \in Servers : ConnectTo(c, s)
       \/ ConnectFails(c) \/ ReadBlock(c) \/ WriteBlock(c)
       \/ EndOfFile(c) \/ ReadFails(c) \/ WriteFails(c)
    /\ UNCHANGED deaths

(* What it has sent is still there to be read.                             *)
ClientDies(c) ==
    /\ ~ClientEnded(c) /\ CGoto(c, "failure")
    /\ deaths < MaxDeaths /\ deaths' = deaths + 1
    /\ UNCHANGED <<server, size, taken, ending, sfd, socket>>

Next == \/ \E s \in Servers : ServerStep(s) \/ ServerDies(s)
        \/ \E c \in Clients : ClientStep(c) \/ ClientDies(c)

Spec == Init /\ [][Next]_vars
-------------------------------------------------------------------------------
TypeOK ==
    /\ path \in Servers \cup {None, Stale}
    /\ \A s \in Servers :
        /\ spc[s] \in {"remove", "bind", "listen", "accept", "read", "failure"}
        /\ backlog[s] \in Seq({c \in Clients : sfd[c] = s})
        /\ afd[s] \in {c \in Clients : sfd[c] = s} \cup {None}
        /\ output[s] \in Seq(Clients)
        /\ spc[s] = "read" => afd[s] # None
        /\ spc[s] = "accept" => afd[s] = None
    /\ \A c \in Clients :
        /\ cpc[c] \in {"connect", "read", "write", "writeError", "success", "failure", "sigpipe"}
        /\ size[c] \in Blocks /\ taken[c] \in 0..size[c] /\ ending[c] \in {"eof", "error"}
        /\ sfd[c] \in Servers \cup {None} /\ socket[c] \in 0..SocketRoom
    /\ deaths \in 0..MaxDeaths

(* Lines 42-70 of us_xfr_sv.c: what a server writes is one client's input  *)
(* after the other's, never two of them mixed.                             *)
OneAfterTheOther ==
    \A s \in Servers : \A i, j \in 1..Len(output[s]) :
        i < j /\ output[s][i] = output[s][j] =>
            \A k \in i..j : output[s][k] = output[s][i]

(* Lines 28-43 of us_xfr_cl.c: what a client that reports success has read *)
(* is written by its server, even one whose path another has taken, unless *)
(* that server fails; provided no client's input has an error.             *)
SuccessIsDelivered ==
    \A c \in Clients, s \in Servers :
        cpc[c] = "success" /\ sfd[c] = s /\ (\A d \in Clients : ending[d] = "eof")
            ~> \/ spc[s] = "failure"
               \/ Len(SelectSeq(output[s], LAMBDA d : d = c)) = size[c]

(* Lines 37-41 of us_xfr_cl.c: a client that cannot read its input ends    *)
(* with a failure.                                                         *)
ReadErrorEnds ==
    \A c \in Clients : cpc[c] = "writeError" ~> ClientEnded(c)
=============================================================================

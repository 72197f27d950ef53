---------------------------- MODULE LevelTriggered ----------------------------
(***************************************************************************)
(* hplsp/chapter9/9_3_epoll_LT_ET.cpp with lt(), as main() calls it: an    *)
(* edge-triggered listening socket and level-triggered connections, of     *)
(* which each event reads BUF_SIZE - 1 bytes, a block, at most.  Nothing is*)
(* set to non-blocking.  A client is also the name of its connection.      *)
(***************************************************************************)
EXTENDS Integers, Sequences, FiniteSets

CONSTANTS TcpClients,
          MaxSend,       \* bound: blocks each client sends
          Backlog,       \* listen()'s limit
          MaxOpen        \* connections the process has descriptors for

LevelAssumption ==
    /\ "lfd" \notin TcpClients /\ MaxSend \in [TcpClients -> Nat]
    /\ Backlog \in Nat \ {0} /\ MaxOpen \in Nat

VARIABLES
    state,       \* each connection: "out", "queued", "open", "closed"
    peer,        \* its client: "up", "ended", "reset"
    backlog,     \* connections accept() has not returned
    inbox,       \* blocks recv() has not returned
    sent,        \* blocks the client has sent
    edge,        \* epoll_wait() will report the listening socket
    evs,         \* descriptors with an event still to be handled
    passedOver   \* connections that found another one waiting, or for which
                 \* accept() failed

vars == <<state, peer, backlog, inbox, sent, edge, evs, passedOver>>

Open == {c \in TcpClients : state[c] = "open"}
Readable(c) == inbox[c] > 0 \/ peer[c] # "up"

Init ==
    /\ state = [c \in TcpClients |-> "out"]
    /\ peer = [c \in TcpClients |-> "up"]
    /\ backlog = <<>>
    /\ inbox = [c \in TcpClients |-> 0] /\ sent = inbox
    /\ edge = FALSE /\ evs = {} /\ passedOver = {}

-------------------------------------------------------------------------------
(* The kernel and the clients.                                             *)

Connect(c) ==
    /\ state[c] = "out" /\ Len(backlog) < Backlog
    /\ state' = [state EXCEPT ![c] = "queued"]
    /\ backlog' = Append(backlog, c)
    /\ edge' = TRUE
    /\ passedOver' = IF backlog = <<>> THEN passedOver ELSE passedOver \cup {c}
    /\ UNCHANGED <<peer, inbox, sent, evs>>

SendBlock(c) ==
    /\ state[c] \in {"queued", "open"} /\ peer[c] = "up" /\ sent[c] < MaxSend[c]
    /\ sent' = [sent EXCEPT ![c] = @ + 1]
    /\ inbox' = [inbox EXCEPT ![c] = @ + 1]
    /\ UNCHANGED <<state, peer, backlog, edge, evs, passedOver>>

(* Its end, or its reset, is read after its data.                          *)
PeerBecomes(c, how) ==
    /\ state[c] \in {"queued", "open"} /\ peer[c] = "up"
    /\ peer' = [peer EXCEPT ![c] = how]
    /\ UNCHANGED <<state, backlog, inbox, sent, edge, evs, passedOver>>

Client == \E c \in TcpClients : \/ Connect(c) \/ SendBlock(c)
                                \/ \E how \in {"ended", "reset"} : PeerBecomes(c, how)

-------------------------------------------------------------------------------
(* The server.                                                             *)

(* Connections are reported whenever they are readable, the listening      *)
(* socket once for all that came since.                                    *)
EpollWait ==
    /\ evs = {}
    /\ evs' = {c \in Open : Readable(c)}
                \cup (IF edge /\ backlog # <<>> THEN {"lfd"} ELSE {})
    /\ evs' # {}
    /\ edge' = FALSE
    /\ UNCHANGED <<state, peer, backlog, inbox, sent, passedOver>>

(* One accept() for one event; when it fails, add_fd(-1) fails as well.    *)
Accept ==
    /\ "lfd" \in evs
    /\ evs' = evs \ {"lfd"}
    /\ LET cfd == Head(backlog) IN
        IF Cardinality(Open) < MaxOpen
        THEN /\ state' = [state EXCEPT ![cfd] = "open"]
             /\ backlog' = Tail(backlog)
             /\ UNCHANGED passedOver
        ELSE /\ passedOver' = passedOver \cup {cfd}
             /\ UNCHANGED <<state, backlog>>
    /\ UNCHANGED <<peer, inbox, sent, edge>>

(* recv(): a block, 0, or -1, which counts as data and uses up the error:  *)
(* the next recv() returns 0.                                              *)
RecvBlock(c) ==
    /\ c \in evs /\ inbox[c] > 0
    /\ inbox' = [inbox EXCEPT ![c] = @ - 1]
    /\ evs' = evs \ {c}
    /\ UNCHANGED <<state, peer, backlog, sent, edge, passedOver>>

RecvError(c) ==
    /\ c \in evs /\ inbox[c] = 0 /\ peer[c] = "reset"
    /\ peer' = [peer EXCEPT ![c] = "ended"]
    /\ evs' = evs \ {c}
    /\ UNCHANGED <<state, backlog, inbox, sent, edge, passedOver>>

(* Mutant: the connection is left open.                                    *)
X_RecvEnd(c) ==
    /\ c \in evs /\ inbox[c] = 0 /\ peer[c] = "ended"
    /\ evs' = evs \ {c}
    /\ UNCHANGED <<state, peer, backlog, inbox, sent, edge, passedOver>>

RecvEnd(c) ==
    /\ c \in evs /\ inbox[c] = 0 /\ peer[c] = "ended"
    /\ state' = [state EXCEPT ![c] = "closed"]
    /\ evs' = evs \ {c}
    /\ UNCHANGED <<peer, backlog, inbox, sent, edge, passedOver>>

Server == \/ EpollWait \/ Accept
          \/ \E c \in TcpClients : RecvBlock(c) \/ RecvError(c) \/ RecvEnd(c)

Next == Server \/ Client

Spec == Init /\ [][Next]_vars

-------------------------------------------------------------------------------
TypeOK ==
    /\ state \in [TcpClients -> {"out", "queued", "open", "closed"}]
    /\ peer \in [TcpClients -> {"up", "ended", "reset"}]
    /\ backlog \in Seq({c \in TcpClients : state[c] = "queued"}) /\ Len(backlog) <= Backlog
    /\ \A c \in TcpClients : sent[c] \in 0..MaxSend[c] /\ inbox[c] \in 0..sent[c]
    /\ edge \in BOOLEAN /\ evs \subseteq Open \cup {"lfd"}
    /\ "lfd" \in evs => backlog # <<>>
    /\ passedOver \subseteq TcpClients

(* Lines 48-50 and 128: a connection waits for accept(), with nothing that *)
(* would make the server call it, only if it came while another was        *)
(* waiting, or if no descriptor was left for it.                           *)
StrandedOnlyByBurst ==
    \A c \in TcpClients :
        state[c] = "queued" /\ ~edge /\ "lfd" \notin evs => c \in passedOver

(* Lines 55-60: a connection whose client has ended or was reset is closed.*)
EndsAreNoticed ==
    \A c \in TcpClients :
        (state[c] = "open" /\ peer[c] # "up") ~> (state[c] = "closed")
===============================================================================

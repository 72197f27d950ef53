------------------------------- MODULE UcaseUdp -------------------------------
(***************************************************************************)
(* TLPI/chapter59/i6d_ucase_sv.c and i6d_ucase_cl.c: a server that sends   *)
(* each datagram back in upper case, and clients that wait for the answer  *)
(* to one message before they send the next.  Datagrams are lost,          *)
(* duplicated and overtake each other; neither side has a timeout or can   *)
(* tell which message an answer is for.                                    *)
(***************************************************************************)
EXTENDS Integers, Sequences, BagsExt, Bags

CONSTANTS
    Clients, None,
    Lengths,      \* the lengths of each client's messages
    BUF_SIZE,
    MaxFaults     \* bound: datagrams lost or duplicated, and deaths of the server

UcaseAssumption ==
    /\ None \notin Clients
    /\ Lengths \in [Clients -> Seq(Nat)]
    /\ BUF_SIZE \in Nat \ {0} /\ MaxFaults \in Nat

VARIABLES
    net,          \* datagrams on their way or in a socket's buffer
    cpc, i,       \* each client: "send", "recv", "done"; its current message
    answers,      \* the datagrams it printed
    spc,          \* "recv", "send", "dead"
    caddr, buf,   \* the server's address and buffer
    lost, duplicated,    \* clients one of whose datagrams was
    faults

vars == <<net, cpc, i, answers, spc, caddr, buf, lost, duplicated, faults>>

(* A datagram holds message k of some client, or its upper case; "client"  *)
(* is where it comes from, or goes to.                                     *)
Datagram(kind, c, k, n) == [kind |-> kind, client |-> c, text |-> <<c, k>>, len |-> n]
Datagrams == [kind : {"request", "answer"}, client : Clients,
              text : Clients \X Nat, len : Nat]
Received(len) == IF len < BUF_SIZE THEN len ELSE BUF_SIZE
Expected(c, k) == Datagram("answer", c, k, Received(Lengths[c][k]))
Nothing == Datagram("request", None, 0, 0)

Init ==
    /\ net = EmptyBag
    /\ cpc = [c \in Clients |-> IF Lengths[c] = <<>> THEN "done" ELSE "send"]
    /\ i = [c \in Clients |-> 1]
    /\ answers = [c \in Clients |-> <<>>]
    /\ spc = "recv" /\ caddr = None /\ buf = Nothing
    /\ lost = {} /\ duplicated = {} /\ faults = 0

-------------------------------------------------------------------------------
Put(d) == net' = BagAdd(net, d)
Take(d) == net' = BagRemove(net, d)

(* The network.  A datagram nobody has room for is lost as well.           *)
Lose(d) ==
    /\ faults < MaxFaults /\ BagIn(d, net)
    /\ Take(d)
    /\ lost' = lost \cup {d.client} /\ faults' = faults + 1
    /\ UNCHANGED <<cpc, i, answers, spc, caddr, buf, duplicated>>

Duplicate(d) ==
    /\ faults < MaxFaults /\ BagIn(d, net)
    /\ Put(d)
    /\ duplicated' = duplicated \cup {d.client} /\ faults' = faults + 1
    /\ UNCHANGED <<cpc, i, answers, spc, caddr, buf, lost>>

-------------------------------------------------------------------------------
(* Client.                                                                 *)

Sendto(c) ==
    /\ cpc[c] = "send"
    /\ Put(Datagram("request", c, i[c], Lengths[c][i[c]]))
    /\ cpc' = [cpc EXCEPT ![c] = "recv"]
    /\ UNCHANGED <<i, answers, spc, caddr, buf, lost, duplicated, faults>>

(* Mutant: the loop variable is not advanced.                              *)
Recvfrom_Again(c, d) ==
    /\ cpc[c] = "recv" /\ BagIn(d, net) /\ d.kind = "answer" /\ d.client = c
    /\ Take(d)
    /\ answers' = [answers EXCEPT ![c] = Append(@, d)]
    /\ cpc' = [cpc EXCEPT ![c] = "send"]
    /\ UNCHANGED <<i, spc, caddr, buf, lost, duplicated, faults>>

(* recvfrom() takes whatever came; the answer is cut to the buffer.        *)
Recvfrom(c, d) ==
    /\ cpc[c] = "recv" /\ BagIn(d, net) /\ d.kind = "answer" /\ d.client = c
    /\ Take(d)
    /\ answers' = [answers EXCEPT ![c] = Append(@, [d EXCEPT !.len = Received(@)])]
    /\ i' = [i EXCEPT ![c] = @ + 1]
    /\ cpc' = [cpc EXCEPT ![c] = IF i[c] = Len(Lengths[c]) THEN "done" ELSE "send"]
    /\ UNCHANGED <<spc, caddr, buf, lost, duplicated, faults>>

-------------------------------------------------------------------------------
(* Server.                                                                 *)

(* Mutant: an empty datagram is not answered, as if 0 were the end of input*)
ServerRecvfrom_Empty(d) ==
    /\ spc = "recv" /\ BagIn(d, net) /\ d.kind = "request"
    /\ Take(d)
    /\ caddr' = d.client
    /\ buf' = [d EXCEPT !.len = Received(@)]
    /\ spc' = IF d.len = 0 THEN "recv" ELSE "send"
    /\ UNCHANGED <<cpc, i, answers, lost, duplicated, faults>>

ServerRecvfrom(d) ==
    /\ spc = "recv" /\ BagIn(d, net) /\ d.kind = "request"
    /\ Take(d)
    /\ caddr' = d.client
    /\ buf' = [d EXCEPT !.len = Received(@)]
    /\ spc' = "send"
    /\ UNCHANGED <<cpc, i, answers, lost, duplicated, faults>>

(* Mutant: the answer goes to some client, as if caddr were not set again. *)
ServerSendto_First ==
    /\ spc = "send"
    /\ \E c \in Clients : Put([buf EXCEPT !.kind = "answer", !.client = c])
    /\ spc' = "recv"
    /\ UNCHANGED <<cpc, i, answers, caddr, buf, lost, duplicated, faults>>

(* toupper(), and sendto() to where the datagram came from.                *)
ServerSendto ==
    /\ spc = "send"
    /\ Put([buf EXCEPT !.kind = "answer", !.client = caddr])
    /\ spc' = "recv"
    /\ UNCHANGED <<cpc, i, answers, caddr, buf, lost, duplicated, faults>>

(* recvfrom() or sendto() fails, or the server is killed.                  *)
ServerDies ==
    /\ spc # "dead" /\ faults < MaxFaults
    /\ spc' = "dead" /\ faults' = faults + 1
    /\ UNCHANGED <<net, cpc, i, answers, caddr, buf, lost, duplicated>>

ClientStep(c) == Sendto(c) \/ \E d \in BagToSet(net) : Recvfrom(c, d)
ServerStep == ServerSendto \/ \E d \in BagToSet(net) : ServerRecvfrom(d)

Next ==
    \/ \E c \in Clients : ClientStep(c)
    \/ ServerStep \/ ServerDies
    \/ \E d \in BagToSet(net) : Lose(d) \/ Duplicate(d)

Spec == Init /\ [][Next]_vars

-------------------------------------------------------------------------------
TypeOK ==
    /\ BagToSet(net) \subseteq Datagrams
    /\ cpc \in [Clients -> {"send", "recv", "done"}]
    /\ \A c \in Clients : /\ i[c] \in 1..Len(Lengths[c]) + 1
                          /\ answers[c] \in Seq(Datagrams) /\ Len(answers[c]) = i[c] - 1
    /\ spc \in {"recv", "send", "dead"} /\ caddr \in Clients \cup {None}
    /\ lost \cup duplicated \subseteq Clients /\ faults \in 0..MaxFaults

(* Lines 28-41 of the client: "Response k" is message k in upper case, cut *)
(* to BUF_SIZE, unless one of this client's datagrams was duplicated; loss,*)
(* reordering and other clients confuse no answer, and a client never gets *)
(* another one's.                                                          *)
AnswersMatch ==
    \A c \in Clients : \A k \in DOMAIN answers[c] :
        /\ answers[c][k].text[1] = c
        /\ c \notin duplicated => answers[c][k] = Expected(c, k)

(* Line 34: a client waits for ever only for a datagram of its own that was*)
(* lost, or for a server that has died.                                    *)
AllAnswered ==
    \A c \in Clients : <>(cpc[c] = "done" \/ c \in lost \/ spc = "dead")
===============================================================================

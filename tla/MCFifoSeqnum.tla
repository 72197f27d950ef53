---------------------------- MODULE MCFifoSeqnum ----------------------------
(* Three clients.  The lengths differ so that ranges could overlap; one of *)
(* them is negative, and two of them together exceed an int of four bits.  *)
EXTENDS FifoSeqnum, TLC

CONSTANTS c1, c2, c3

MCClients == {c1, c2, c3}
MCSeqLen == c1 :> 3 @@ c2 :> -1 @@ c3 :> 5
===============================================================================

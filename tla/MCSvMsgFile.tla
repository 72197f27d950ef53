----------------------------- MODULE MCSvMsgFile -----------------------------
(* Instances of SvMsgFile.  The real message sizes; MSGMNB is lowered so    *)
(* that one request or one full data message fills a queue.                 *)
EXTENDS SvMsgFile, TLC

CONSTANTS c1, c2

MCClients == {c1, c2}

(* A file of two chunks, the second one short, and a missing file.          *)
MCFileBytes == c1 :> 12000 @@ c2 :> -1
===============================================================================

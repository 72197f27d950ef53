----------------------------- MODULE SlotTransfer -----------------------------
(***************************************************************************)
(* What the shared-memory transfer of TLPI/chapter48 promises: bytes of    *)
(* Input travel in order through one slot of Capacity bytes.  A new chunk  *)
(* is taken only when the last one was delivered completely, and the end   *)
(* of the input is announced once, after everything was delivered.         *)
(***************************************************************************)
EXTENDS Naturals, Sequences

CONSTANTS Input,      \* the bytes to transfer, in order
          Capacity    \* bytes the slot can hold

VARIABLES taken,      \* how many bytes of Input entered the slot so far
          delivered,  \* the bytes that came out
          eof         \* "no", "sent" (announced) or "seen" (received)

vars == <<taken, delivered, eof>>

Init == taken = 0 /\ delivered = <<>> /\ eof = "no"

Take ==
    /\ eof = "no"
    /\ taken = Len(delivered)
    /\ \E n \in 1..Capacity : /\ taken + n <= Len(Input)
                              /\ taken' = taken + n
    /\ UNCHANGED <<delivered, eof>>

(* Some or all of the bytes in the slot come out.                          *)
Deliver ==
    /\ \E k \in Len(delivered) + 1 .. taken : delivered' = SubSeq(Input, 1, k)
    /\ UNCHANGED <<taken, eof>>

SendEof ==
    /\ eof = "no"
    /\ taken = Len(Input)
    /\ Len(delivered) = taken
    /\ eof' = "sent"
    /\ UNCHANGED <<taken, delivered>>

SeeEof ==
    /\ eof = "sent"
    /\ eof' = "seen"
    /\ UNCHANGED <<taken, delivered>>

Next == Take \/ Deliver \/ SendEof \/ SeeEof

Spec == Init /\ [][Next]_vars
===============================================================================

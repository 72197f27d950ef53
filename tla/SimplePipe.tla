------------------------------ MODULE SimplePipe ------------------------------
(***************************************************************************)
(* TLPI/chapter44/simple_pipe.c: a parent writes its argument into a pipe  *)
(* and its child copies it to the standard output.                         *)
(***************************************************************************)
EXTENDS Integers, FiniteSetsExt

CONSTANTS
    Length,      \* of the argument
    Room,        \* bytes the pipe holds
    BufSize

SimplePipeAssumption == Length \in Nat /\ {Room, BufSize} \subseteq Nat \ {0}

VARIABLES
    parentPc, childPc,
    ends,        \* the ends of the pipe each process has open
    left,        \* bytes the parent still has to write
    content,     \* bytes in the pipe
    copied,      \* bytes the child has written out
    lost         \* bytes it has read but could not write out

vars == <<parentPc, childPc, ends, left, content, copied, lost>>

Ended(pc) == pc \in {"done", "failed", "SIGPIPE"}
HasOpen(e) == \E p \in {"parent", "child"} : e \in ends[p]

Init ==
    /\ parentPc = "fork" /\ childPc = "none"
    /\ ends = [p \in {"parent", "child"} |-> IF p = "parent" THEN {"read", "write"} ELSE {}]
    /\ left = Length /\ content = 0 /\ copied = 0 /\ lost = 0

-------------------------------------------------------------------------------
Fork ==
    /\ parentPc = "fork"
    /\ \/ /\ parentPc' = "close" /\ childPc' = "close"
          /\ ends' = [ends EXCEPT !["child"] = ends["parent"]]
       \/ /\ parentPc' = "failed"
          /\ ends' = [ends EXCEPT !["parent"] = {}]
          /\ UNCHANGED childPc
    /\ UNCHANGED <<left, content, copied, lost>>

ParentClosesRead ==
    /\ parentPc = "close" /\ parentPc' = "write"
    /\ ends' = [ends EXCEPT !["parent"] = @ \ {"read"}]
    /\ UNCHANGED <<childPc, left, content, copied, lost>>

(* write() goes on when there is room again; a pipe without a reader is a  *)
(* SIGPIPE.                                                                *)
ParentWrites ==
    /\ parentPc = "write" /\ left > 0
    /\ IF HasOpen("read")
       THEN \E n \in 1..Min({left, Room - content}) :
                /\ left' = left - n /\ content' = content + n
                /\ UNCHANGED <<parentPc, ends>>
       ELSE /\ parentPc' = "SIGPIPE" /\ ends' = [ends EXCEPT !["parent"] = {}]
            /\ UNCHANGED <<left, content>>
    /\ UNCHANGED <<childPc, copied, lost>>

(* A write() that is stopped returns what it has written so far.           *)
ParentPartWrites ==
    /\ parentPc = "write" /\ left \in 1..Length - 1
    /\ parentPc' = "partWrite"
    /\ UNCHANGED <<childPc, ends, left, content, copied, lost>>

ParentClosesWrite ==
    /\ parentPc = "partWrite" \/ (parentPc = "write" /\ left = 0)
    /\ parentPc' = "wait"
    /\ ends' = [ends EXCEPT !["parent"] = {}]
    /\ UNCHANGED <<childPc, left, content, copied, lost>>

(* wait() is called without its argument: it waits all the same.           *)
ParentWaits ==
    /\ parentPc = "wait" /\ Ended(childPc)
    /\ parentPc' = "done"
    /\ UNCHANGED <<childPc, ends, left, content, copied, lost>>

ChildClosesWrite ==
    /\ childPc = "close" /\ childPc' = "read"
    /\ ends' = [ends EXCEPT !["child"] = @ \ {"write"}]
    /\ UNCHANGED <<parentPc, left, content, copied, lost>>

(* Nobody looks at what the child's write() returns.                       *)
ChildCopies ==
    /\ childPc = "read" /\ content > 0
    /\ LET numRead == Min({content, BufSize}) IN
        \E n \in 0..numRead :
            /\ content' = content - numRead
            /\ copied' = copied + n /\ lost' = lost + (numRead - n)
    /\ UNCHANGED <<parentPc, childPc, ends, left>>

(* read() returns 0 when no process has the write end.                     *)
ChildMeetsEnd ==
    /\ childPc = "read" /\ content = 0 /\ ~HasOpen("write")
    /\ childPc' = "done"
    /\ ends' = [ends EXCEPT !["child"] = {}]
    /\ UNCHANGED <<parentPc, left, content, copied, lost>>

ChildFails ==
    /\ childPc = "read"
    /\ childPc' = "failed"
    /\ ends' = [ends EXCEPT !["child"] = {}]
    /\ UNCHANGED <<parentPc, left, content, copied, lost>>

Parent == Fork \/ ParentClosesRead \/ ParentWrites \/ ParentClosesWrite \/ ParentWaits
Child == ChildClosesWrite \/ ChildCopies \/ ChildMeetsEnd

Next == Parent \/ ParentPartWrites \/ Child \/ ChildFails

Spec == Init /\ [][Next]_vars

-------------------------------------------------------------------------------
TypeOK ==
    /\ parentPc \in {"fork", "close", "write", "partWrite", "wait", "done", "failed",
                    "SIGPIPE"}
    /\ childPc \in {"none", "close", "read", "done", "failed"}
    /\ \A p \in {"parent", "child"} : ends[p] \subseteq {"read", "write"}
    /\ content \in 0..Room /\ left + content + copied + lost = Length

(* Lines 26-80: nobody keeps an end for which the other would wait, and a  *)
(* parent that ends well leaves nothing in the pipe: unless its write() or *)
(* one of the child's was cut short, all of its argument has been copied.  *)
AllEnd ==
    /\ <>(Ended(parentPc) /\ childPc \in {"none", "done", "failed"})
    /\ [](parentPc = "done" /\ childPc = "done" =>
              content = 0 /\ (left = 0 /\ lost = 0 => copied = Length))
===============================================================================

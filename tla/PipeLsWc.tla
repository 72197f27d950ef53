------------------------------- MODULE PipeLsWc -------------------------------
(***************************************************************************)
(* TLPI/chapter44/pipe_ls_wc.c: a parent, a child that becomes ls with its *)
(* standard output on a pipe and one that becomes wc -l with its standard  *)
(* input on it.  wc ends when no process has the write end open any more.  *)
(***************************************************************************)
EXTENDS Integers, Sequences, FiniteSets, FiniteSetsExt

CONSTANTS Lines,      \* how many lines ls writes
          Capacity,   \* bound: lines the pipe holds
          MaxFd       \* descriptors are 0..MaxFd

PipeAssumption ==
    /\ Lines \in Nat /\ Capacity \in Nat \ {0}
    /\ MaxFd \in Nat /\ MaxFd >= 4

VARIABLES
    pc,        \* each process: next statement, or how it ended
    fds,       \* each process: what its descriptors refer to
    pfd,       \* the pipe's descriptors, read and write end
    pipe,      \* what is in the pipe
    count,     \* lines wc has read
    reaped,    \* children wait() has returned
    faults     \* calls that have failed

vars == <<pc, fds, pfd, pipe, count, reaped, faults>>

Procs == {"parent", "ls", "wc"}
Children == {"ls", "wc"}
NONE == "none"

STDIN == 0
STDOUT == 1
STDERR == 2

(* The parent may have been started with some standard descriptors closed. *)
Init ==
    /\ pc = [p \in Procs |-> IF p = "parent" THEN "pipe" ELSE NONE]
    /\ \E given \in SUBSET {STDIN, STDOUT, STDERR} :
        fds = [p \in Procs |-> [f \in 0..MaxFd |->
                 IF p = "parent" /\ f \in given THEN "tty" ELSE NONE]]
    /\ pfd = <<-1, -1>>
    /\ pipe = <<>> /\ count = 0
    /\ reaped = {} /\ faults = {}

-------------------------------------------------------------------------------
(* The kernel.                                                             *)

Ended(p) == pc[p] \in {"success", "failure", "sigpipe"}

HasOpen(end) == \E p \in Procs : \E f \in 0..MaxFd : fds[p][f] = end

Goto(p, next) == pc' = [pc EXCEPT ![p] = next]

CloseFd(p, f) == fds' = [fds EXCEPT ![p][f] = NONE]

(* The end of a process closes its descriptors.                            *)
Ends(p, how) ==
    /\ Goto(p, how)
    /\ fds' = [fds EXCEPT ![p] = [f \in 0..MaxFd |-> NONE]]

-------------------------------------------------------------------------------
(* The parent.                                                             *)

Pipe ==
    /\ pc["parent"] = "pipe"
    /\ LET free == {f \in 0..MaxFd : fds["parent"][f] = NONE}
           r == Min(free)
           w == Min(free \ {r}) IN
        /\ pfd' = <<r, w>>
        /\ fds' = [fds EXCEPT !["parent"][r] = "R", !["parent"][w] = "W"]
    /\ Goto("parent", "forkLs")
    /\ UNCHANGED <<pipe, count, reaped, faults>>

(* A failing fork() ends the parent at once, whatever its first child does.*)
Fork(child, at, next) ==
    /\ pc["parent"] = at
    /\ \/ /\ pc' = [pc EXCEPT !["parent"] = next, ![child] = "close"]
          /\ fds' = [fds EXCEPT ![child] = fds["parent"]]
          /\ UNCHANGED faults
       \/ /\ Ends("parent", "failure")
          /\ faults' = faults \cup {at}
    /\ UNCHANGED <<pfd, pipe, count, reaped>>

ForkLs == Fork("ls", "forkLs", "forkWc")
ForkWc == Fork("wc", "forkWc", "closeRead")

ParentClosesRead ==
    /\ pc["parent"] = "closeRead"
    /\ CloseFd("parent", pfd[1])
    /\ Goto("parent", "closeWrite")
    /\ UNCHANGED <<pfd, pipe, count, reaped, faults>>

(* Mutant: the parent keeps its write end.                                 *)
ParentClosesWrite_Not ==
    /\ pc["parent"] = "closeWrite"
    /\ Goto("parent", "wait")
    /\ UNCHANGED <<fds, pfd, pipe, count, reaped, faults>>

ParentClosesWrite ==
    /\ pc["parent"] = "closeWrite"
    /\ CloseFd("parent", pfd[2])
    /\ Goto("parent", "wait")
    /\ UNCHANGED <<pfd, pipe, count, reaped, faults>>

(* Mutant: wait() does not block.                                          *)
Wait_NoHang ==
    /\ pc["parent"] = "wait"
    /\ \E c \in Children \ reaped : reaped' = reaped \cup {c}
    /\ IF reaped' = Children
       THEN Ends("parent", "success")
       ELSE UNCHANGED <<pc, fds>>
    /\ UNCHANGED <<pfd, pipe, count, faults>>

(* The two calls of wait(), for any child each.                            *)
Wait ==
    /\ pc["parent"] = "wait"
    /\ \E c \in Children \ reaped :
        /\ Ended(c)
        /\ reaped' = reaped \cup {c}
    /\ IF reaped' = Children
       THEN Ends("parent", "success")
       ELSE UNCHANGED <<pc, fds>>
    /\ UNCHANGED <<pfd, pipe, count, faults>>

Parent == Pipe \/ ForkLs \/ ForkWc \/ ParentClosesRead \/ ParentClosesWrite \/ Wait

-------------------------------------------------------------------------------
(* The children, up to exec.                                               *)

(* The pipe's descriptor a child does not need, and the one it needs, with *)
(* the standard descriptor that becomes it.                                *)
Unneeded(c) == IF c = "ls" THEN pfd[1] ELSE pfd[2]
Needed(c)   == IF c = "ls" THEN pfd[2] ELSE pfd[1]
Standard(c) == IF c = "ls" THEN STDOUT ELSE STDIN

CloseUnneeded(c) ==
    /\ pc[c] = "close"
    /\ CloseFd(c, Unneeded(c))
    /\ Goto(c, "dup2")
    /\ UNCHANGED <<pfd, pipe, count, reaped, faults>>

(* dup2() and close(), unless the descriptor is already the right one.     *)
Dup2(c) ==
    /\ pc[c] = "dup2"
    /\ fds' = IF Needed(c) = Standard(c) THEN fds
              ELSE [fds EXCEPT ![c] = [@ EXCEPT ![Standard(c)] = fds[c][Needed(c)],
                                                ![Needed(c)] = NONE]]
    /\ Goto(c, "exec")
    /\ UNCHANGED <<pfd, pipe, count, reaped, faults>>

Exec(c) ==
    /\ pc[c] = "exec"
    /\ \/ Goto(c, "run") /\ UNCHANGED faults
       \/ Goto(c, "message") /\ faults' = faults \cup {c}
    /\ UNCHANGED <<fds, pfd, pipe, count, reaped>>

(* A line written to the pipe, or the death of its writer.                 *)
WriteLine(c, line, next) ==
    \/ /\ HasOpen("R") /\ Len(pipe) < Capacity
       /\ pipe' = Append(pipe, line)
       /\ Goto(c, next) /\ UNCHANGED fds
    \/ /\ ~HasOpen("R")
       /\ Ends(c, "sigpipe")
       /\ UNCHANGED pipe

(* The message of a failing exec is printed to standard output: that of ls *)
(* is the pipe.                                                            *)
Message(c) ==
    /\ pc[c] = "message"
    /\ IF fds[c][STDOUT] = "W"
       THEN WriteLine(c, 0, "exit")
       ELSE Goto(c, "exit") /\ UNCHANGED <<fds, pipe>>
    /\ UNCHANGED <<pfd, count, reaped, faults>>

ExitFailure(c) ==
    /\ pc[c] = "exit"
    /\ Ends(c, "failure")
    /\ UNCHANGED <<pfd, pipe, count, reaped, faults>>

Child(c) == CloseUnneeded(c) \/ Dup2(c) \/ Exec(c) \/ Message(c) \/ ExitFailure(c)

-------------------------------------------------------------------------------
(* ls and wc.  A line that ls writes is its number.                        *)

LastLine == IF pipe = <<>> THEN count ELSE pipe[Len(pipe)]

LsWrites ==
    /\ pc["ls"] = "run"
    /\ fds["ls"][STDOUT] = "W"
    /\ LastLine < Lines
    /\ WriteLine("ls", LastLine + 1, "run")
    /\ UNCHANGED <<pfd, count, reaped, faults>>

LsEnds ==
    /\ pc["ls"] = "run"
    /\ LastLine = Lines \/ fds["ls"][STDOUT] # "W"
    /\ Ends("ls", "success")
    /\ UNCHANGED <<pfd, pipe, count, reaped, faults>>

WcReads ==
    /\ pc["wc"] = "run"
    /\ fds["wc"][STDIN] = "R" /\ pipe # <<>>
    /\ count' = count + 1
    /\ pipe' = Tail(pipe)
    /\ UNCHANGED <<pc, fds, pfd, reaped, faults>>

WcEnds ==
    /\ pc["wc"] = "run"
    /\ \/ fds["wc"][STDIN] = "R" /\ pipe = <<>> /\ ~HasOpen("W")
       \/ fds["wc"][STDIN] # "R"
    /\ Ends("wc", "success")
    /\ UNCHANGED <<pfd, pipe, count, reaped, faults>>

Programs == LsWrites \/ LsEnds \/ WcReads \/ WcEnds

Next == Parent \/ Programs \/ \E c \in Children : Child(c)

Spec == Init /\ [][Next]_vars

-------------------------------------------------------------------------------
(* Properties.                                                             *)

(* Every variable stays in its type; only what has ended is reaped.        *)
TypeOK ==
    /\ pc \in [Procs -> {NONE, "pipe", "forkLs", "forkWc", "closeRead", "closeWrite",
                         "wait", "close", "dup2", "exec", "run", "message", "exit",
                         "success", "failure", "sigpipe"}]
    /\ fds \in [Procs -> [0..MaxFd -> {"tty", "R", "W", NONE}]]
    /\ pfd \in (-1..MaxFd) \X (-1..MaxFd)
    /\ pipe \in Seq(0..Lines) /\ Len(pipe) <= Capacity
    /\ count \in Nat /\ reaped \subseteq {c \in Children : Ended(c)}
    /\ faults \subseteq {"forkLs", "forkWc", "ls", "wc"}

(* A program runs with its end of the pipe as its standard descriptor and  *)
(* with no other descriptor of the pipe, whichever standard descriptors    *)
(* were closed at the start (pipe_ls_wc.c:29, 62).                         *)
PlumbedRight ==
    \A c \in Children : pc[c] = "run" =>
        LET end == IF c = "ls" THEN "W" ELSE "R" IN
        /\ {f \in 0..MaxFd : fds[c][f] \in {"R", "W"}} = {Standard(c)}
        /\ fds[c][Standard(c)] = end

(* All processes end: nobody keeps a write end for which wc would wait.    *)
(* Unless a call failed every line has then been counted.                  *)
AllEnd ==
    <>(/\ \A p \in Procs : Ended(p) \/ (p \in Children /\ pc[p] = NONE)
       /\ faults = {} => count = Lines)
===============================================================================

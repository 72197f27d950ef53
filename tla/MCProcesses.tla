------------------------------ MODULE MCProcesses ------------------------------
(***************************************************************************)
(* Small instances of seven demonstrations of processes, files and         *)
(* descriptors.  They share nothing: a behaviour runs one of them, and the *)
(* others stay in one of their initial states.                             *)
(***************************************************************************)
EXTENDS Integers, Sequences

CONSTANTS Lines, Capacity, MaxFd, None, argc, BUF_SIZE, Sources, OldFiles,
          OpenMax, Closed, Other, Length, Room, BufSize,
          MaxAddrs, MaxCalls, MaxFds

VARIABLES
    program,                                       \* the one that runs
    pipePc, pipeFds, pfd, pipe, count, pipeReaped, faults,
    flags, daemonPc, session, daemonFds, fd, mask, cwd,
    waitPc, j, numDead, reaped,
    prog, src, old, exists, same, copyPc, dst, out, inOff, outOff, buf, open, failed,
    dupPc, table, before, testFd, newFd, dupRet,
    parentPc, childPc, ends, left, content, copied, lost,
    inetPc, op, calls, addrs, rp, inetOpen, returned, deaf, ret

Pipe   == INSTANCE PipeLsWc WITH pc <- pipePc, fds <- pipeFds, reaped <- pipeReaped
Daemon == INSTANCE BecomeDaemon WITH pc <- daemonPc, fds <- daemonFds
Waits  == INSTANCE MultiWait WITH pc <- waitPc
Copy   == INSTANCE FileCopy WITH pc <- copyPc
Dup    == INSTANCE Dup2 WITH pc <- dupPc, fd <- testFd, ret <- dupRet
Simple == INSTANCE SimplePipe
Inet   == INSTANCE InetSockets WITH pc <- inetPc, open <- inetOpen

ASSUME ProcessesAssumption ==
    /\ Pipe!PipeAssumption /\ Daemon!DaemonAssumption
    /\ Waits!MultiWaitAssumption /\ Copy!CopyAssumption
    /\ Dup!DupAssumption /\ Simple!SimplePipeAssumption /\ Inet!InetAssumption

(* All inputs of up to two and a half blocks over a hole, -1 (in blocks, as *)
(* a file system makes them), a zero and a letter.                         *)
MCBlocks == {<<-1, -1>>} \cup [1..2 -> {0, 7}]
MCSources ==
    {<<>>, <<7>>} \cup {b \o t : b \in MCBlocks, t \in MCBlocks \cup {<<>>, <<0>>, <<7>>}}
        \cup {b \o t \o <<0>> : b \in MCBlocks, t \in MCBlocks}
MCOldFiles == {<<>>, <<5>>, <<5, 5, 5, 5, 5, 5>>}

pipeVars   == <<pipePc, pipeFds, pfd, pipe, count, pipeReaped, faults>>
daemonVars == <<flags, daemonPc, session, daemonFds, fd, mask, cwd>>
waitVars   == <<waitPc, j, numDead, reaped>>
copyVars   == <<prog, src, old, exists, same, copyPc, dst, out, inOff, outOff,
                buf, open, failed>>
dupVars    == <<dupPc, table, before, testFd, newFd, dupRet>>
simpleVars == <<parentPc, childPc, ends, left, content, copied, lost>>
inetVars   == <<inetPc, op, calls, addrs, rp, inetOpen, returned, deaf, ret>>
vars == <<program, pipeVars, daemonVars, waitVars, copyVars, dupVars, simpleVars, inetVars>>

(* Where a program that does not run may start in several states it starts *)
(* in one of them.                                                         *)
Init ==
    /\ program \in {"pipe_ls_wc", "become_daemon", "multi_wait", "copy", "dup",
                   "simple_pipe", "inet_sockets"}
    /\ Waits!Init /\ Simple!Init /\ Inet!Init
    /\ Pipe!Init
    /\ program # "pipe_ls_wc" => \A f \in {0, 1, 2} : pipeFds["parent"][f] = "tty"
    /\ Daemon!Init
    /\ program # "become_daemon" =>
           flags = {} /\ daemonFds["parent"] = [f \in Daemon!Fds |-> None]
    /\ Copy!Init
    /\ program # "copy" => prog = "copy" /\ src = <<>> /\ ~exists
    /\ Dup!Init
    /\ program # "dup" => table = [f \in Dup!Fds |-> Closed]

(* Only the variables of one program may change.                           *)
Runs(name, others) == program = name /\ UNCHANGED <<program, others>>

PipeRuns ==
    Runs("pipe_ls_wc", <<daemonVars, waitVars, copyVars,
                         dupVars, simpleVars, inetVars>>)
DaemonRuns ==
    Runs("become_daemon", <<pipeVars, waitVars, copyVars,
                            dupVars, simpleVars, inetVars>>)
WaitsRuns ==
    Runs("multi_wait", <<pipeVars, daemonVars, copyVars,
                         dupVars, simpleVars, inetVars>>)
CopyRuns ==
    Runs("copy", <<pipeVars, daemonVars, waitVars,
                   dupVars, simpleVars, inetVars>>)
DupRuns ==
    Runs("dup", <<pipeVars, daemonVars, waitVars,
                  copyVars, simpleVars, inetVars>>)
SimpleRuns ==
    Runs("simple_pipe", <<pipeVars, daemonVars, waitVars,
                          copyVars, dupVars, inetVars>>)
InetRuns ==
    Runs("inet_sockets", <<pipeVars, daemonVars, waitVars,
                           copyVars, dupVars, simpleVars>>)

Next ==
    \/ PipeRuns /\ Pipe!Next
    \/ DaemonRuns /\ Daemon!Next
    \/ WaitsRuns /\ Waits!Next
    \/ CopyRuns /\ Copy!Next
    \/ DupRuns /\ Dup!Next
    \/ SimpleRuns /\ Simple!Next
    \/ InetRuns /\ Inet!Next

(* Every process that can run is run.                                      *)
FairSpec ==
    /\ Init /\ [][Next]_vars
    /\ WF_vars(PipeRuns /\ Pipe!Parent)
    /\ \A c \in Pipe!Children : WF_vars(PipeRuns /\ Pipe!Child(c))
    /\ WF_vars(PipeRuns /\ (Pipe!LsWrites \/ Pipe!LsEnds))
    /\ WF_vars(PipeRuns /\ (Pipe!WcReads \/ Pipe!WcEnds))
    /\ \A p \in Waits!Procs : WF_vars(WaitsRuns /\ Waits!Step(p))
    /\ WF_vars(SimpleRuns /\ Simple!Parent) /\ WF_vars(SimpleRuns /\ Simple!Child)

(* Every variable stays in its type; only ended children are reaped, and   *)
(* descriptors that are used are open.                                     *)
TypeOK ==
    /\ Pipe!TypeOK /\ Daemon!TypeOK /\ Waits!TypeOK /\ Copy!TypeOK
    /\ Dup!TypeOK /\ Simple!TypeOK /\ Inet!TypeOK

(* Whatever failed before, whichever descriptors were open at the start:   *)
(* ls and wc have their end of the pipe as their standard descriptor and   *)
(* no other one of the pipe (pipe_ls_wc.c:29 and 62); the daemon has no    *)
(* terminal and cannot get one (become_daemon.c:21), the call returns in   *)
(* one process, and there with the files its flags ask for (lines 28-42,   *)
(* all but what is said of /dev/null); my_dup2() makes a copy at newFd and *)
(* touches nothing else (dup.c:32-67); and the address loops leave open    *)
(* what they return, or could not listen to, and nothing else              *)
(* (inet_sockets.c:31-57 and 83-124).                                      *)
DescriptorsRight ==
    /\ Pipe!PlumbedRight
    /\ Daemon!NoTerminal /\ Daemon!ReturnsOnce /\ Daemon!FlagsObeyed
    /\ Dup!LikeDup2 /\ Inet!NothingLeaks

(* "reopen stdin, stdout, and stderr to /dev/null" (become_daemon.h:8-9):  *)
(* so they are when becomeDaemon() has returned a success.                 *)
ReopensStandard == Daemon!ReopensStandard

(* All processes end: nobody keeps a write end for which wc or the child   *)
(* would wait (pipe_ls_wc.c:84-93, simple_pipe.c:26-80), and parents of all*)
(* generations reap what they wait for (multi_wait.c:42).                  *)
AllEnd ==
    /\ program = "pipe_ls_wc" => Pipe!AllEnd
    /\ program = "multi_wait" => Waits!AllEnd
    /\ program = "simple_pipe" => Simple!AllEnd

(* A process that says "No more children - bye!" (multi_wait.c:47) has no  *)
(* descendant left, unless a fork() failed below it.                       *)
ByeMeansAlone == Waits!ByeMeansAlone

(* Whatever fails, the output of copy and tee is right as far as it was    *)
(* written, and so is what tee sent to its standard output (copy.c:67,     *)
(* tee.c:57-66).  A program that ends with success after calls that all    *)
(* succeeded has copied everything (copy.c:64-79, tee.c:57-66), but for    *)
(* two things the programs do: cp_hole leaves what an old file had where   *)
(* the input has zeros (cp_hole.c:36 and 52), and copy empties an input    *)
(* that is its output as well (copy.c:41 and 57).                          *)
CopyRight == Copy!CopiesAll /\ Copy!WrittenIsRight
===============================================================================

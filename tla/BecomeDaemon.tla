----------------------------- MODULE BecomeDaemon -----------------------------
(***************************************************************************)
(* TLPI/chapter37/become_daemon.c: becomeDaemon(flags) forks twice, leaves *)
(* the session, resets umask and directory, closes the files and is to     *)
(* open /dev/null as the standard descriptors.  The caller is "parent";    *)
(* the one that returns from a call without failure is "grandchild".       *)
(***************************************************************************)
EXTENDS Integers, FiniteSets, FiniteSetsExt

CONSTANTS MaxFd,    \* descriptors are 0..MaxFd
          None

DaemonAssumption ==
    /\ MaxFd \in Nat /\ MaxFd >= 3
    /\ None \notin {"fork1", "setsid", "fork2", "umask", "close", "open", "dupIn",
                    "dupOut", "dupErr", "ok", "error", "exited", "inherited", "null"}

VARIABLES
    flags,     \* the argument: a set of the BD_... values
    pc,        \* each process: next call, "ok" or "error" returned, "exited"
    session,   \* the leader of its session; only the shell's has a terminal
    fds,       \* each process: what its descriptors refer to
    fd,        \* the local of that name, in the grandchild
    mask, cwd  \* the grandchild's umask and working directory

vars == <<flags, pc, session, fds, fd, mask, cwd>>

Procs == {"parent", "child", "grandchild"}
Flags == {"NO_UMASK0", "NO_CHDIR", "NO_CLOSE_FILES", "NO_REOPEN_STD_FDS"}
Fds == 0..MaxFd

STDIN_FILENO == 0
STDOUT_FILENO == 1
STDERR_FILENO == 2

Init ==
    /\ flags \in SUBSET Flags
    /\ pc = [p \in Procs |-> IF p = "parent" THEN "fork1" ELSE None]
    /\ session = [p \in Procs |-> IF p = "parent" THEN "shell" ELSE None]
    /\ \E open \in SUBSET Fds :
        fds = [p \in Procs |-> [f \in Fds |-> IF f \in open THEN "inherited" ELSE None]]
    /\ fd = -1 /\ mask = "inherited" /\ cwd = "inherited"

-------------------------------------------------------------------------------
Goto(p, next) == pc' = [pc EXCEPT ![p] = next]

(* The parent of a fork() exits; a failing fork() returns to the caller.   *)
Fork(p, new, at, next) ==
    /\ pc[p] = at
    /\ \/ /\ pc' = [pc EXCEPT ![p] = "exited", ![new] = next]
          /\ session' = [session EXCEPT ![new] = session[p]]
          /\ fds' = [fds EXCEPT ![new] = fds[p]]
       \/ /\ Goto(p, "error")
          /\ UNCHANGED <<session, fds>>
    /\ UNCHANGED <<flags, fd, mask, cwd>>

(* A child leads no process group: setsid() succeeds.                      *)
Setsid ==
    /\ pc["child"] = "setsid" /\ Goto("child", "fork2")
    /\ session' = [session EXCEPT !["child"] = "child"]
    /\ UNCHANGED <<flags, fds, fd, mask, cwd>>

Reset ==
    /\ pc["grandchild"] = "umask" /\ Goto("grandchild", "close")
    /\ mask' = IF "NO_UMASK0" \in flags THEN mask ELSE "0"
    /\ cwd' = IF "NO_CHDIR" \in flags THEN cwd ELSE "/"
    /\ UNCHANGED <<flags, session, fds, fd>>

CloseFiles ==
    /\ pc["grandchild"] = "close"
    /\ fds' = IF "NO_CLOSE_FILES" \in flags THEN fds
              ELSE [fds EXCEPT !["grandchild"] = [f \in Fds |-> None]]
    /\ Goto("grandchild", IF "NO_REOPEN_STD_FDS" \in flags THEN "ok" ELSE "open")
    /\ UNCHANGED <<flags, session, fd, mask, cwd>>

(* close(STDIN_FILENO) and open("/dev/null"), which finds the lowest free  *)
(* descriptor or, unnoticed, no device.                                    *)
OpenNull ==
    /\ pc["grandchild"] = "open" /\ Goto("grandchild", "dupIn")
    /\ LET closed == [fds["grandchild"] EXCEPT ![STDIN_FILENO] = None]
           low == Min({f \in Fds : closed[f] = None}) IN
        \/ /\ fd' = low
           /\ fds' = [fds EXCEPT !["grandchild"] = [closed EXCEPT ![low] = "null"]]
        \/ fd' = -1 /\ fds' = [fds EXCEPT !["grandchild"] = closed]
    /\ UNCHANGED <<flags, session, mask, cwd>>

(* dup2(old, new) returns new, or -1 if one of them is no descriptor or    *)
(* old is not open; either is compared with fd, which may be -1 too.       *)
Dup2(old, new, at, next) ==
    /\ pc["grandchild"] = at
    /\ IF new \in Fds /\ fds["grandchild"][old] # None
       THEN /\ fds' = [fds EXCEPT !["grandchild"][new] = fds["grandchild"][old]]
            /\ Goto("grandchild", IF fd = new THEN next ELSE "error")
       ELSE /\ UNCHANGED fds
            /\ Goto("grandchild", IF fd = -1 THEN next ELSE "error")
    /\ UNCHANGED <<flags, session, fd, mask, cwd>>

Next ==
    \/ Fork("parent", "child", "fork1", "setsid")
    \/ Setsid
    \/ Fork("child", "grandchild", "fork2", "umask")
    \/ Reset
    \/ CloseFiles
    \/ OpenNull
    \/ Dup2(STDIN_FILENO, fd, "dupIn", "dupOut")
    \/ Dup2(STDOUT_FILENO, STDIN_FILENO, "dupOut", "dupErr")
    \/ Dup2(STDERR_FILENO, STDIN_FILENO, "dupErr", "ok")

Spec == Init /\ [][Next]_vars

Returned(p) == pc[p] \in {"ok", "error"}

-------------------------------------------------------------------------------
TypeOK ==
    /\ flags \subseteq Flags
    /\ pc \in [Procs -> {"fork1", "setsid", "fork2", "umask", "close", "open", "dupIn",
                         "dupOut", "dupErr", "ok", "error", "exited", None}]
    /\ session \in [Procs -> Procs \cup {"shell", None}]
    /\ fds \in [Procs -> [Fds -> {"inherited", "null", None}]]
    /\ fd \in {-1} \cup Fds
    /\ pc["grandchild"] \in {"dupIn", "dupOut", "dupErr"} /\ fd # -1 =>
           fds["grandchild"][fd] # None
    /\ mask \in {"inherited", "0"} /\ cwd \in {"inherited", "/"}

(* Line 21, "Ensure we are not session leader": a process that goes on     *)
(* after the second fork() is in a session without a terminal and cannot   *)
(* get one, for it does not lead the session.                              *)
NoTerminal ==
    \A p \in Procs :
        pc[p] \in {"umask", "close", "open", "dupIn", "dupOut", "dupErr", "ok"} =>
            session[p] \notin {"shell", p}

(* The caller goes on once, whichever fork() fails (lines 11-26).          *)
ReturnsOnce == \A p, q \in Procs : Returned(p) /\ Returned(q) => p = q

(* What becomeDaemon() has done when it returns in the new process, with   *)
(* success or not: files that are to be kept are, but for stdin if the     *)
(* standard descriptors are reopened, and nothing else is left open        *)
(* (become_daemon.h:6-10).                                                 *)
FlagsObeyed ==
    LET own == fds["grandchild"]
        given == fds["parent"] IN
    Returned("grandchild") =>
        /\ "NO_CLOSE_FILES" \in flags =>
               /\ \A f \in Fds \ {STDIN_FILENO} : own[f] = given[f]
               /\ "NO_REOPEN_STD_FDS" \in flags => own[STDIN_FILENO] = given[STDIN_FILENO]
        /\ "NO_CLOSE_FILES" \notin flags => \A f \in Fds : own[f] # "inherited"
        /\ mask = "0" <=> "NO_UMASK0" \notin flags
        /\ cwd = "/" <=> "NO_CHDIR" \notin flags

(* "reopen stdin, stdout, and stderr to /dev/null" (become_daemon.h:8-9):  *)
(* what a success means to a caller that asked for it.  The code does not  *)
(* agree: dup2() has its arguments the other way round (lines 48-53).      *)
ReopensStandard ==
    pc["grandchild"] = "ok" /\ "NO_REOPEN_STD_FDS" \notin flags =>
        \A f \in {STDIN_FILENO, STDOUT_FILENO, STDERR_FILENO} : fds["grandchild"][f] = "null"
=============================================================================

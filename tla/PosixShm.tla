------------------------------- MODULE PosixShm -------------------------------
(***************************************************************************)
(* TLPI/chapter54/pshm_create.c, pshm_write.c and pshm_read.c: programs    *)
(* that create, fill and print one POSIX shared memory object, started in  *)
(* any order and at any time, without synchronisation.  The object is      *)
(* memory in pages; what lies in the last page past the object's end can   *)
(* be stored to and stays there, what lies in a later page cannot.         *)
(***************************************************************************)
EXTENDS Integers, Sequences, FiniteSetsExt

CONSTANTS
    Creators, Writers, Readers,
    Text,      \* the string of each writer
    Sizes,     \* sizes the creators may be given
    MaxSize,   \* the largest size anybody asks for
    Page       \* bytes of a page

ShmAssumption ==
    /\ Creators \cap Writers = {} /\ Creators \cap Readers = {}
    /\ Writers \cap Readers = {}
    /\ Text \in [Writers -> Seq(Nat \ {0})]
    /\ MaxSize \in Nat /\ \A w \in Writers : Len(Text[w]) <= MaxSize
    /\ Sizes \subseteq 0..MaxSize /\ Page \in Nat \ {0}

VARIABLES
    pc,        \* each process: its next call, or how it ended
    exists,    \* the name has been created
    size,      \* of the object
    mem,       \* the memory of its pages
    len,       \* the size a process mapped
    copied,    \* bytes memcpy() has stored
    printed,   \* what a reader wrote to its output
    raced,     \* processes another one came between
    whole,     \* what the object holds if its last writer was not disturbed
    due        \* what it held when a reader printed

vars == <<pc, exists, size, mem, len, copied, printed, raced, whole, due>>

Programs == Creators \cup Writers \cup Readers
Pages(n) == (n + Page - 1) \div Page
Zeros == [i \in 1..Page * Pages(MaxSize) |-> 0]
Content == SubSeq(mem, 1, size)
Mixed == <<-1>>      \* no text: nobody knows what the object holds

(* From its ftruncate() to its last store, or from fstat() to write(), a   *)
(* process relies on nobody else's changing the object.                    *)
InWindow(p) == pc[p] \in {"mmap", "memcpy", "write"}

Init ==
    /\ pc = [p \in Programs |-> "shm_open"]
    /\ exists = FALSE /\ size = 0 /\ mem = Zeros
    /\ len = [p \in Programs |-> 0]
    /\ copied = [w \in Writers |-> 0]
    /\ printed = [r \in Readers |-> <<>>]
    /\ raced = {} /\ whole = <<>>
    /\ due = [r \in Readers |-> <<>>]

-------------------------------------------------------------------------------
Goes(p, to) == pc' = [pc EXCEPT ![p] = to]
Disturbs(p) == raced' = raced \cup {q \in Programs \ {p} : InWindow(q)}

(* ftruncate(): bytes that are cut off are gone; when the object grows,    *)
(* those stored past its end before may show or may have been cleared.     *)
Resize(n) ==
    /\ size' = n
    /\ \/ /\ n >= size
          /\ mem' = mem
       \/ mem' = [i \in DOMAIN mem |-> IF i <= n /\ i <= size THEN mem[i] ELSE 0]

(* shm_open() with flags and size of the command line.  Its failure, which *)
(* is not checked, makes ftruncate(-1, ...) fail.                          *)
Create(p) ==
    /\ pc[p] = "shm_open"
    /\ \E creat, excl \in BOOLEAN :
        IF IF exists THEN ~(creat /\ excl) ELSE creat
        THEN Goes(p, "ftruncate") /\ exists' = TRUE
        ELSE Goes(p, "failed") /\ UNCHANGED exists
    /\ UNCHANGED <<size, mem, len, copied, printed, raced, whole, due>>

(* An existing object is resized too; what a disturbed writer stored past  *)
(* its end may show.  mmap() of nothing fails.                             *)
CreatorResizes(p) ==
    /\ p \in Creators /\ pc[p] = "ftruncate"
    /\ \E n \in Sizes :
        /\ Resize(n)
        /\ Goes(p, IF n = 0 THEN "failed" ELSE "done")
        /\ whole' = IF whole = Mixed \/ raced \cap Writers # {} THEN Mixed
                    ELSE [i \in 1..n |-> IF i <= Len(whole) THEN whole[i] ELSE 0]
    /\ Disturbs(p)
    /\ UNCHANGED <<exists, len, copied, printed, due>>

(* Without O_CREAT there must be an object.                                *)
Open(p) ==
    /\ pc[p] = "shm_open"
    /\ Goes(p, IF ~exists THEN "failed"
               ELSE IF p \in Writers THEN "ftruncate" ELSE "fstat")
    /\ UNCHANGED <<exists, size, mem, len, copied, printed, raced, whole, due>>

WriterResizes(w) ==
    /\ w \in Writers /\ pc[w] = "ftruncate"
    /\ Resize(Len(Text[w]))
    /\ len' = [len EXCEPT ![w] = Len(Text[w])]
    /\ Goes(w, "mmap")
    /\ whole' = Mixed
    /\ Disturbs(w)
    /\ UNCHANGED <<exists, copied, printed, due>>

(* The size is taken from fstat(); a writer may be at work already.        *)
Fstat(r) ==
    /\ pc[r] = "fstat"
    /\ len' = [len EXCEPT ![r] = size]
    /\ Goes(r, "mmap")
    /\ raced' = IF whole = Mixed THEN raced \cup {r} ELSE raced
    /\ UNCHANGED <<exists, size, mem, copied, printed, whole, due>>

(* mmap(), of as many bytes as the process believes there are, and close().*)
Mmap(p) ==
    /\ pc[p] = "mmap"
    /\ Goes(p, IF len[p] = 0 THEN "failed"
               ELSE IF p \in Writers THEN "memcpy" ELSE "write")
    /\ whole' = IF p \in Writers /\ len[p] = 0 /\ p \notin raced THEN <<>> ELSE whole
    /\ UNCHANGED <<exists, size, mem, len, copied, printed, raced, due>>

(* memcpy(), byte by byte; a page that is gone is a SIGBUS.                *)
Store(w) ==
    LET i == copied[w] + 1 IN
    /\ pc[w] = "memcpy"
    /\ IF i > Page * Pages(size)
       THEN Goes(w, "SIGBUS") /\ UNCHANGED <<mem, copied, raced, whole>>
       ELSE /\ mem' = [mem EXCEPT ![i] = Text[w][i]]
            /\ copied' = [copied EXCEPT ![w] = i]
            /\ Disturbs(w)
            /\ IF i = len[w] THEN Goes(w, "done") ELSE UNCHANGED pc
            /\ whole' = IF i = len[w] /\ w \notin raced THEN Text[w] ELSE Mixed
    /\ UNCHANGED <<exists, size, len, printed, due>>

(* write() from the mapping stops at a page that is gone.                  *)
WriteOut(r) ==
    /\ pc[r] = "write"
    /\ printed' = [printed EXCEPT ![r] =
           SubSeq(mem, 1, Min({len[r], Page * Pages(size)}))]
    /\ due' = [due EXCEPT ![r] = whole]
    /\ Goes(r, "done")
    /\ UNCHANGED <<exists, size, mem, len, copied, raced, whole>>

Next ==
    \/ \E p \in Creators : Create(p) \/ CreatorResizes(p)
    \/ \E p \in Writers \cup Readers : Open(p) \/ Mmap(p)
    \/ \E w \in Writers : WriterResizes(w) \/ Store(w)
    \/ \E r \in Readers : Fstat(r) \/ WriteOut(r)

Spec == Init /\ [][Next]_vars

-------------------------------------------------------------------------------
TypeOK ==
    /\ pc \in [Programs -> {"shm_open", "ftruncate", "fstat", "mmap", "memcpy",
                         "write", "done", "failed", "SIGBUS"}]
    /\ size \in 0..MaxSize
    /\ mem \in [1..Page * Pages(MaxSize) -> Nat]
    /\ \A w \in Writers : copied[w] <= len[w]
    /\ \A r \in Readers : Len(printed[r]) <= len[r]

(* pshm_read.c:23-42 and pshm_write.c:27-48: whatever creators, writers    *)
(* and readers do, a process that nobody came between reads and leaves one *)
(* text, of the right length, and nothing of an older one; only a process  *)
(* whose object was resized under it meets a page that is gone.            *)
MixedOnlyIfRaced ==
    /\ whole # Mixed => Content = whole
    /\ \A p \in Programs \ raced :
           /\ pc[p] # "SIGBUS"
           /\ p \in Readers /\ pc[p] = "done" => printed[p] = due[p]
===============================================================================

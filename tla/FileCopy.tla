------------------------------- MODULE FileCopy -------------------------------
(***************************************************************************)
(* TLPI/chapter4: copy.c, tee.c and cp_hole.c, which read a file block by  *)
(* block and write it to another one.  They differ in how they open the    *)
(* output, in what they do with a block of zeros and with errors.          *)
(***************************************************************************)
EXTENDS Integers, Sequences, SequencesExt

CONSTANTS BUF_SIZE,
          Sources,     \* contents of the input
          OldFiles     \* contents of an output file that exists already

(* A file is a sequence of bytes; a byte inside a hole reads as 0.         *)
HOLE == -1
Bytes == {HOLE} \cup Nat

CopyAssumption ==
    /\ BUF_SIZE \in Nat \ {0}
    /\ Sources \subseteq Seq(Bytes) /\ OldFiles \subseteq Seq(Bytes)

VARIABLES
    prog,       \* the program that runs
    src, old,   \* the input, and the output file before
    exists,     \* the output file existed
    same,       \* and it was the input itself, by this or another name
    pc,         \* next statement, or how the program ended
    dst, out,   \* the output file and, of tee, the standard output
    inOff, outOff,
    buf,
    open,       \* the open descriptors
    failed      \* some call has failed

inputs == <<prog, src, old, exists, same>>
vars == <<inputs, pc, dst, out, inOff, outOff, buf, open, failed>>

Programs == {"copy", "cp_hole", "tee", "tee_append"}
Ended == pc \in {"success", "failure"}

(* "tee -a f < f" is left out: it reads what it appends and does not end.  *)
Init ==
    /\ prog \in Programs /\ src \in Sources
    /\ exists \in BOOLEAN /\ same \in BOOLEAN
    /\ same => exists /\ prog # "tee_append"
    /\ old \in IF same THEN {src} ELSE IF exists THEN OldFiles ELSE {<<>>}
    /\ pc = "open" /\ dst = old /\ out = <<>>
    /\ inOff = 0 /\ outOff = 0 /\ buf = <<>>
    /\ open = {"stdin", "input"}
    /\ failed = FALSE

-------------------------------------------------------------------------------
(* What the calls do to a file.                                            *)

AsRead(f) == [i \in DOMAIN f |-> IF f[i] = HOLE THEN 0 ELSE f[i]]

Min2(a, b) == IF a < b THEN a ELSE b

Max2(a, b) == IF a > b THEN a ELSE b

(* Bytes written at an offset; a gap behind the end becomes a hole.        *)
WriteAt(f, off, data) ==
    LET size == IF data = <<>> THEN Len(f) ELSE Max2(off + Len(data), Len(f)) IN
    [i \in 1..size |->
        CASE i \in off + 1..off + Len(data) -> data[i - off]
          [] i \notin off + 1..off + Len(data) /\ i <= Len(f) -> f[i]
          [] OTHER -> HOLE]

Truncated(f, len) == [i \in 1..len |-> IF i <= Len(f) THEN f[i] ELSE HOLE]

-------------------------------------------------------------------------------

(* exit() with a failure, after a call that failed.                        *)
Fail == failed' = TRUE /\ pc' = "failure"

(* Only copy empties an existing file; only tee -a needs one.              *)
OpenOutput ==
    /\ pc = "open"
    /\ \/ /\ prog = "tee_append" => exists
          /\ open' = open \cup {"output"}
          /\ pc' = "read"
          /\ dst' = IF prog = "copy" THEN <<>> ELSE dst
          /\ outOff' = IF prog = "tee_append" THEN Len(dst) ELSE 0
          /\ UNCHANGED failed
       \/ Fail /\ UNCHANGED <<open, dst, outOff>>
    /\ UNCHANGED <<inputs, out, inOff, buf>>

(* What a read() finds: of a program that copies a file to itself, what it *)
(* has made of the file.                                                   *)
Input == IF same THEN dst ELSE src

(* A terminal or a pipe, tee's input, may give less than asked for.        *)
ReadSizes ==
    LET most == Min2(BUF_SIZE, Len(Input) - inOff) IN
    IF prog \in {"tee", "tee_append"} THEN 1..most ELSE {most} \ {0}

Read ==
    /\ pc = "read"
    /\ \E n \in ReadSizes :
        /\ buf' = SubSeq(AsRead(Input), inOff + 1, inOff + n)
        /\ inOff' = inOff + n
    /\ pc' = "write"
    /\ UNCHANGED <<inputs, dst, out, outOff, open, failed>>

(* End of file, or an error, upon which only copy gives up.                *)
ReadEnds ==
    /\ pc = "read"
    /\ \/ inOff = Len(Input) /\ pc' = "end" /\ UNCHANGED failed
       \/ failed' = TRUE /\ pc' = IF prog = "copy" THEN "failure" ELSE "end"
    /\ UNCHANGED <<inputs, dst, out, inOff, outOff, buf, open>>

Zeros(b) == \A i \in DOMAIN b : b[i] = 0

SkipsZeros == prog = "cp_hole" /\ Zeros(buf)

SkipHole ==
    /\ pc = "write"
    /\ SkipsZeros
    /\ outOff' = outOff + Len(buf)
    /\ pc' = "read"
    /\ UNCHANGED <<inputs, dst, out, inOff, buf, open, failed>>

(* Mutant: the number of bytes written is not looked at.                   *)
WriteBlock_Unchecked ==
    /\ pc = "write"
    /\ ~SkipsZeros
    /\ \E n \in 0..Len(buf) :
        /\ dst' = WriteAt(dst, outOff, SubSeq(buf, 1, n))
        /\ outOff' = outOff + n
    /\ pc' = "read"
    /\ UNCHANGED <<inputs, out, inOff, buf, open, failed>>

(* write() takes all of the block, or a part of it when the disk is full.  *)
WriteBlock ==
    /\ pc = "write"
    /\ ~SkipsZeros
    /\ \E n \in 0..Len(buf) :
        /\ dst' = WriteAt(dst, outOff, SubSeq(buf, 1, n))
        /\ outOff' = outOff + n
        /\ IF prog \in {"copy", "cp_hole"}
           THEN /\ IF n = Len(buf) THEN pc' = "read" /\ UNCHANGED failed ELSE Fail
                /\ UNCHANGED out
           ELSE \E k \in 0..Len(buf) :
                    /\ out' = out \o SubSeq(buf, 1, k)
                    /\ IF n = Len(buf) /\ k = n
                       THEN pc' = "read" /\ UNCHANGED failed ELSE Fail
    /\ UNCHANGED <<inputs, inOff, buf, open>>

(* cp_hole sets the size to where it got; copy closes its input and, in    *)
(* place of the output, the descriptor whose number is "outputFd == -1".   *)
Finish ==
    /\ pc = "end"
    /\ open' = CASE prog = "copy"    -> open \ {"input", "stdin"}
                 [] prog = "cp_hole" -> open
                 [] OTHER            -> open \ {"output"}
    /\ dst' = IF prog = "cp_hole" THEN Truncated(dst, outOff) ELSE dst
    /\ pc' = "success"
    /\ UNCHANGED <<inputs, out, inOff, outOff, buf, failed>>

Next == OpenOutput \/ Read \/ ReadEnds \/ SkipHole \/ WriteBlock \/ Finish

Spec == Init /\ [][Next]_vars

-------------------------------------------------------------------------------
(* Properties.                                                             *)

(* Every variable stays in its type.                                       *)
TypeOK ==
    /\ prog \in Programs /\ src \in Sources /\ exists \in BOOLEAN /\ same \in BOOLEAN
    /\ pc \in {"open", "read", "write", "end", "success", "failure"}
    /\ dst \in Seq(Bytes) /\ out \in Seq(Nat) /\ buf \in Seq(Nat)
    /\ Len(buf) <= BUF_SIZE /\ inOff \in 0..Len(src)
    /\ outOff <= Len(old) + Len(src)
    /\ open \subseteq {"stdin", "input", "output"} /\ failed \in BOOLEAN

Rest(f, n) == SubSeq(f, n + 1, Len(f))

(* What the output should be: the input, before the rest of a longer old   *)
(* file (tee) or behind the old file (tee -a).                             *)
Expected ==
    CASE prog \in {"copy", "cp_hole"} -> AsRead(src)
      [] prog = "tee"        -> AsRead(src) \o Rest(AsRead(old), Len(src))
      [] prog = "tee_append" -> AsRead(old) \o AsRead(src)

(* cp_hole opens without O_TRUNC (line 36) and moves over blocks of zeros  *)
(* (line 52): a byte of its output is that of the input or, only where the *)
(* input has a zero, the one an old file had there.                        *)
CopiedOrOld(i) ==
    \/ AsRead(dst)[i] = AsRead(src)[i]
    \/ AsRead(src)[i] = 0 /\ i <= Len(old) /\ AsRead(dst)[i] = AsRead(old)[i]

(* copy opens its own input with O_TRUNC: nothing is left to be copied.    *)
Emptied == same /\ prog = "copy"

(* copy never succeeds with less than what is expected, unless it emptied  *)
(* its own input, the others only after a call that failed, and of tee     *)
(* both outputs are that.  Of cp_hole the size is right even when the      *)
(* input ends in a hole or the old file was longer (cp_hole.c:75).         *)
CopiesAll ==
    pc = "success" /\ (failed => prog = "copy") /\ ~Emptied =>
        /\ prog # "cp_hole" => AsRead(dst) = Expected
        /\ prog = "cp_hole" =>
               Len(dst) = Len(src) /\ \A i \in 1..Len(src) : CopiedOrOld(i)
        /\ prog \in {"tee", "tee_append"} => out = AsRead(src)

(* Whatever fails, what has been written so far is right: the output of    *)
(* copy and tee up to their offset is a prefix of what is expected, tee's  *)
(* standard output is one of the input, and cp_hole's bytes up to its      *)
(* offset are copied or old ones.                                          *)
WrittenIsRight ==
    pc # "open" =>
        /\ prog # "cp_hole" =>
               SubSeq(AsRead(dst), 1, outOff) = SubSeq(Expected, 1, outOff)
        /\ prog = "cp_hole" => \A i \in 1..Min2(outOff, Len(dst)) : CopiedOrOld(i)
        /\ out = SubSeq(AsRead(src), 1, Len(out))
===============================================================================

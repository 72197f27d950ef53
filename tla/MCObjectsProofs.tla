---------------------------- MODULE MCObjectsProofs ----------------------------
(***************************************************************************)
(* For any number of processes, clients, messages, texts, sizes and pages: *)
(* programs that meet in a shared memory object or a file without          *)
(* synchronisation damage each other's data only if one of them came       *)
(* between another one's steps; a datagram server and a message queue mix  *)
(* nothing up; and every variable stays in its type.                       *)
(***************************************************************************)
EXTENDS MCObjects, TLAPS

-------------------------------------------------------------------------------
(* atomic_append.c and file_append_5.2.c: types and property together are  *)
(* inductive.  The file never shrinks, so an offset inside a block was     *)
(* taken before the block was written.                                     *)

(* The file after a write() of k bytes at pos.                             *)
Written(pos, k, p) ==
    [x \in 1..(IF pos + k > Len(file) THEN pos + k ELSE Len(file)) |->
        IF x > pos /\ x <= pos + k THEN p ELSE file[x]]

(* A write() that starts at or before the end leaves no hole.              *)
LEMMA WrittenFile ==
    ASSUME File!TypeOK, NEW p \in Procs, NEW pos \in Nat, pos <= Len(file),
           NEW k \in Nat
    PROVE  /\ Written(pos, k, p) \in Seq(Procs \cup {Old})
           /\ Len(Written(pos, k, p)) >= Len(file)
           /\ Len(Written(pos, k, p)) >= pos + k
           /\ \A x \in 1..Len(file) : ~(x > pos /\ x <= pos + k) =>
                  Written(pos, k, p)[x] = file[x]
           /\ \A x \in pos + 1..pos + k : Written(pos, k, p)[x] = p
<1> DEFINE m == IF pos + k > Len(file) THEN pos + k ELSE Len(file)
<1>1. /\ file \in Seq(Procs \cup {Old}) /\ Len(file) \in Nat
      /\ \A x \in 1..Len(file) : file[x] \in Procs \cup {Old}
    BY DEF File!TypeOK
<1>2. m \in Nat /\ m >= Len(file) /\ m >= pos + k
    BY <1>1
<1>3. \A x \in 1..m : Written(pos, k, p)[x] \in Procs \cup {Old}
    BY <1>1 DEF Written
<1>4. Written(pos, k, p) \in [1..m -> Procs \cup {Old}]
    BY <1>3 DEF Written
<1>5. Written(pos, k, p) \in Seq(Procs \cup {Old}) /\ Len(Written(pos, k, p)) = m
    BY <1>2, <1>4
<1>6. \A x \in 1..Len(file) : ~(x > pos /\ x <= pos + k) =>
          Written(pos, k, p)[x] = file[x]
    BY <1>1, <1>2 DEF Written
<1>7. \A x \in pos + 1..pos + k : Written(pos, k, p)[x] = p
    BY <1>2 DEF Written
<1> QED
    BY <1>2, <1>5, <1>6, <1>7

(* Only a write() changes the file.                                        *)
LEMMA FileStep ==
    ASSUME File!SharedFileAssumption, File!TypeOK, File!MixedOnlyIfRaced, [File!Next]_fileVars
    PROVE  File!TypeOK' /\ File!MixedOnlyIfRaced'
<1>1. CASE UNCHANGED fileVars
    BY <1>1 DEF File!TypeOK, File!MixedOnlyIfRaced, File!Done, fileVars
<1>2. ASSUME NEW p \in Procs, File!Fails(p)  PROVE  File!TypeOK' /\ File!MixedOnlyIfRaced'
    BY <1>2 DEF File!Fails, File!TypeOK, File!MixedOnlyIfRaced, File!Done
<1>3. ASSUME NEW p \in Procs, File!Seek(p)  PROVE  File!TypeOK' /\ File!MixedOnlyIfRaced'
    <2>1. Len(file) \in Nat
        BY DEF File!TypeOK
    <2>2. File!TypeOK'
        BY <1>3, <2>1 DEF File!Seek, File!TypeOK
    <2>3. File!Done' = File!Done /\ p \notin File!Done /\ \A q \in Procs \ {p} : off'[q] = off[q]
        BY <1>3 DEF File!Seek, File!TypeOK, File!Done
    <2>4. File!MixedOnlyIfRaced'
        BY <1>3, <2>3 DEF File!Seek, File!TypeOK, File!MixedOnlyIfRaced, File!Done
    <2> QED
        BY <2>2, <2>4
<1>4. ASSUME NEW p \in Procs, File!Write(p)  PROVE  File!TypeOK' /\ File!MixedOnlyIfRaced'
    <2> DEFINE pos == File!Position(p)
    <2>1. pos \in Nat /\ pos <= Len(file)
        BY DEF File!TypeOK, File!Position
    <2>2. PICK k \in 1..BlockSize : /\ file' = Written(pos, k, p)
                                    /\ n' = [n EXCEPT ![p] = k]
        BY <1>4 DEF File!Write, Written
    <2>3. k \in Nat
        BY File!SharedFileAssumption DEF File!SharedFileAssumption
    <2>4. /\ file' \in Seq(Procs \cup {Old})
          /\ Len(file') \in Nat /\ Len(file) \in Nat
          /\ Len(file') >= Len(file) /\ Len(file') >= pos + k
          /\ \A x \in 1..Len(file) : ~(x > pos /\ x <= pos + k) => file'[x] = file[x]
          /\ \A x \in pos + 1..pos + k : file'[x] = p
        <3>1. /\ Written(pos, k, p) \in Seq(Procs \cup {Old})
              /\ Len(Written(pos, k, p)) >= Len(file) /\ Len(Written(pos, k, p)) >= pos + k
              /\ \A x \in 1..Len(file) : ~(x > pos /\ x <= pos + k) =>
                     Written(pos, k, p)[x] = file[x]
              /\ \A x \in pos + 1..pos + k : Written(pos, k, p)[x] = p
            BY <2>1, <2>3, WrittenFile
        <3>2. Len(file) \in Nat /\ Len(Written(pos, k, p)) \in Nat
            BY <3>1 DEF File!TypeOK
        <3> HIDE DEF pos
        <3> QED
            BY <2>2, <3>1, <3>2, Zenon
    <2>5. /\ at' = [at EXCEPT ![p] = pos] /\ filePc' = [filePc EXCEPT ![p] = "done"]
          /\ prog' = prog /\ off' = off
        BY <1>4 DEF File!Write
    <2>6. File!TypeOK'
        BY <2>1, <2>2, <2>3, <2>4, <2>5 DEF File!TypeOK
    <2>7. File!Done' = File!Done \cup {p} /\ p \notin File!Done
        BY <1>4, <2>5 DEF File!Write, File!Done, File!TypeOK
    <2>8. ASSUME NEW q \in File!Done', NEW x \in at'[q] + 1..at'[q] + n'[q], file'[x] # q
          PROVE  \E r \in File!Done' \ {q} :
                     \/ prog'[r] = "head" /\ at'[q] < n'[r]
                     \/ prog'[r] = "seek" /\ off'[r] < at'[q] + n'[q]
        <3>1. q # p
            BY <2>2, <2>4, <2>5, <2>8 DEF File!TypeOK
        <3>2. q \in File!Done /\ q \in Procs /\ at'[q] = at[q] /\ n'[q] = n[q]
            BY <2>2, <2>5, <2>7, <2>8, <3>1 DEF File!TypeOK, File!Done
        <3>3. x \in 1..Len(file) /\ at[q] \in Nat /\ n[q] \in Nat
            BY <2>4, <2>8, <3>2 DEF File!TypeOK
        <3>4. CASE x > pos /\ x <= pos + k
            \* p overwrites the byte: not at the end, so it sought earlier.
            <4>1. pos < at[q] + n[q]
                BY <2>1, <2>8, <3>2, <3>3, <3>4
            <4>2. prog[p] # "append"
                BY <3>2, <4>1, <2>4 DEF File!Position, File!TypeOK
            <4>3. CASE prog[p] = "seek"
                BY <2>5, <2>7, <3>1, <3>2, <4>1, <4>3 DEF File!Position, File!Done
            <4>4. CASE prog[p] = "head"
                <5>1. off[p] = 0 /\ pos = 0
                    BY <4>4 DEF File!Position, File!TypeOK
                <5>2. at[q] < n'[p]
                    BY <2>2, <2>3, <2>8, <3>2, <3>3, <3>4, <5>1 DEF File!TypeOK
                <5> QED
                    BY <2>5, <2>7, <3>1, <3>2, <4>4, <5>2
            <4> QED
                BY <4>2, <4>3, <4>4 DEF File!TypeOK
        <3>5. CASE ~(x > pos /\ x <= pos + k)
            <4>1. file[x] # q
                BY <2>4, <2>8, <3>3, <3>5
            <4>2. PICK r \in File!Done \ {q} :
                      \/ prog[r] = "head" /\ at[q] < n[r]
                      \/ prog[r] = "seek" /\ off[r] < at[q] + n[q]
                BY <2>8, <3>2, <4>1 DEF File!MixedOnlyIfRaced
            <4>3. r # p /\ n'[r] = n[r]
                BY <2>2, <2>7, <4>2 DEF File!TypeOK, File!Done
            <4> QED
                BY <2>5, <2>7, <3>2, <4>2, <4>3
        <3> QED
            BY <3>4, <3>5
    <2>9. File!MixedOnlyIfRaced'
        BY <2>8 DEF File!MixedOnlyIfRaced
    <2> QED
        BY <2>6, <2>9
<1> QED
    BY <1>1, <1>2, <1>3, <1>4 DEF File!Next

LEMMA FileInit == File!Init /\ File!SharedFileAssumption => File!TypeOK /\ File!MixedOnlyIfRaced
<1> SUFFICES ASSUME File!Init, File!SharedFileAssumption
             PROVE  File!TypeOK /\ File!MixedOnlyIfRaced
    OBVIOUS
<1>1. file \in Seq(Procs \cup {Old}) /\ Len(file) = OldSize
    BY DEF File!SharedFileAssumption, File!Init
<1> QED
    BY <1>1
    DEF File!Init, File!TypeOK, File!MixedOnlyIfRaced, File!Done, File!SharedFileAssumption

-------------------------------------------------------------------------------
(* pshm_*.c: a process that nobody came between knows the object's size; a *)
(* writer among them, of whom there is one at a time, has stored what it   *)
(* has copied; and unless a writer was disturbed nothing lies behind the   *)
(* object's end.                                                           *)
Memory == Page * Shm!Pages(MaxSize)

ShmTypes ==
    /\ shmPc \in [Shm!Programs -> {"shm_open", "ftruncate", "fstat", "mmap", "memcpy",
                                   "write", "done", "failed", "SIGBUS"}]
    /\ size \in 0..MaxSize /\ mem \in [1..Memory -> Nat]
    /\ len \in [Shm!Programs -> Nat] /\ copied \in [Writers -> Nat]
    /\ DOMAIN printed = Readers /\ DOMAIN due = Readers
    /\ raced \subseteq Shm!Programs
    /\ \A p \in Shm!Programs :
           /\ shmPc[p] = "memcpy" => p \in Writers
           /\ shmPc[p] \in {"fstat", "write"} => p \in Readers
           /\ shmPc[p] \in {"ftruncate"} => p \notin Readers
           /\ shmPc[p] = "mmap" => p \notin Creators

WriterInv(w) ==
    /\ shmPc[w] \in {"mmap", "memcpy"} => len[w] = Len(Text[w])
    /\ shmPc[w] \in {"shm_open", "ftruncate", "mmap"} => copied[w] = 0
    /\ shmPc[w] = "memcpy" => copied[w] < len[w]
    /\ w \notin raced /\ shmPc[w] \in {"mmap", "memcpy"} =>
           /\ size = len[w] /\ whole = Shm!Mixed
           /\ \A b \in 1..copied[w] : mem[b] = Text[w][b]

ReaderInv(r) ==
    r \notin raced /\ shmPc[r] \in {"mmap", "write"} =>
        len[r] = size /\ whole # Shm!Mixed

Behind == raced \cap Writers = {} => \A b \in 1..Memory : b > size => mem[b] = 0

WholeInv ==
    whole # Shm!Mixed => /\ whole \in Seq(Nat) /\ Len(whole) = size
                         /\ \A b \in 1..size : mem[b] = whole[b]

Undisturbed ==
    \A p \in Shm!Programs \ raced :
        /\ shmPc[p] # "SIGBUS"
        /\ p \in Readers /\ shmPc[p] = "done" => printed[p] = due[p]

OneWriter ==
    \A v, w \in Writers \ raced :
        {shmPc[v], shmPc[w]} \subseteq {"mmap", "memcpy"} => v = w

ShmInv ==
    /\ ShmTypes /\ Behind /\ WholeInv /\ Undisturbed /\ OneWriter
    /\ \A w \in Writers : WriterInv(w)
    /\ \A r \in Readers : ReaderInv(r)

LEMMA ShmFacts ==
    /\ MaxSize \in Nat /\ Page \in Nat /\ Page > 0 /\ Sizes \subseteq 0..MaxSize
    /\ Creators \cap Writers = {} /\ Creators \cap Readers = {} /\ Writers \cap Readers = {}
    /\ Shm!Programs = Creators \cup Writers \cup Readers
    /\ \A w \in Writers : /\ Text[w] \in Seq(Nat) /\ Len(Text[w]) \in 0..MaxSize
                          /\ \A b \in 1..Len(Text[w]) : Text[w][b] \in Nat
<1>1. Shm!ShmAssumption
  BY ObjectsAssumption DEF ObjectsAssumption
<1>2. ASSUME NEW w \in Writers
      PROVE  /\ Text[w] \in Seq(Nat) /\ Len(Text[w]) \in 0..MaxSize
             /\ \A b \in 1..Len(Text[w]) : Text[w][b] \in Nat
  <2>1. Text[w] \in Seq(Nat \ {0}) /\ Len(Text[w]) <= MaxSize /\ MaxSize \in Nat
    BY <1>1 DEF Shm!ShmAssumption
  <2> QED
    BY <2>1
<1> QED
  BY <1>1, <1>2 DEF Shm!ShmAssumption, Shm!Programs

LEMMA RoundedUp == \A k, b \in Int : b > 0 => b * ((k + b - 1) \div b) >= k
BY Z3T(20)

(* The pages of an object have room for it.                                *)
LEMMA PagesEnough == \A k \in Nat : Page * Shm!Pages(k) \in Nat /\ Page * Shm!Pages(k) >= k
<1> TAKE k \in Nat
<1>1. Page \in Int /\ Page > 0 /\ k \in Int
  BY ShmFacts
<1>2. (k + Page - 1) \div Page \in Int
  BY <1>1
<1>3. Page * Shm!Pages(k) >= k
  BY <1>1, RoundedUp DEF Shm!Pages
<1>4. Page * Shm!Pages(k) \in Int
  BY <1>1, <1>2 DEF Shm!Pages
<1> QED
  BY <1>3, <1>4

LEMMA Room == Memory \in Nat /\ MaxSize <= Memory
BY ShmFacts, PagesEnough DEF Memory

LEMMA ShmInit == Shm!Init => ShmInv
BY ShmFacts, Room
DEF Shm!Init, ShmInv, ShmTypes, WriterInv, ReaderInv, Behind, WholeInv, Undisturbed, OneWriter,
    Shm!Zeros, Shm!Mixed, Memory

LEMMA ContentIsWhole == ShmInv /\ whole # Shm!Mixed => Shm!Content = whole
BY ShmFacts, Room DEF ShmInv, ShmTypes, WholeInv, Shm!Content

LEMMA ShmRight == ShmInv => Shm!MixedOnlyIfRaced
BY ContentIsWhole DEF ShmInv, Undisturbed, Shm!MixedOnlyIfRaced

LEMMA Resized ==
    ASSUME ShmTypes, Behind, NEW k \in 0..MaxSize, Shm!Resize(k)
    PROVE  /\ size' = k /\ mem' \in [1..Memory -> Nat]
           /\ \A b \in 1..Memory : b <= k /\ b <= size => mem'[b] = mem[b]
           /\ raced \cap Writers = {} =>
                  \A b \in 1..Memory : b > k \/ b > size => mem'[b] = 0
<1>1. size \in Nat /\ k \in Nat /\ Memory \in Nat /\ mem \in [1..Memory -> Nat]
  BY ShmFacts, Room DEF ShmTypes
<1>2. CASE k >= size /\ mem' = mem
  BY <1>1, <1>2 DEF Shm!Resize, Behind
<1>3. CASE mem' = [b \in DOMAIN mem |-> IF b <= k /\ b <= size THEN mem[b] ELSE 0]
  BY <1>1, <1>3 DEF Shm!Resize
<1> QED
  BY <1>2, <1>3 DEF Shm!Resize

(* Who is undisturbed after a step that disturbs the others in a window.   *)
LEMMA Disturbed ==
    ASSUME ShmTypes, NEW p \in Shm!Programs, Shm!Disturbs(p)
    PROVE  /\ raced \subseteq raced' /\ raced' \subseteq Shm!Programs
           /\ p \in raced' => p \in raced
           /\ \A q \in Shm!Programs \ raced' :
                  q # p => shmPc[q] \notin {"mmap", "memcpy", "write"}
BY DEF ShmTypes, Shm!Disturbs, Shm!InWindow

LEMMA ShmStep == ShmInv /\ Shm!Next => ShmInv'
<1> SUFFICES ASSUME ShmInv, Shm!Next PROVE ShmInv'
  OBVIOUS
<1>t. /\ ShmTypes /\ size \in Nat /\ MaxSize \in Nat /\ Memory \in Nat /\ size <= Memory
      /\ MaxSize <= Memory
  BY ShmFacts, Room DEF ShmInv, ShmTypes
<1>1. ASSUME NEW p \in Shm!Programs, NEW to \in {"ftruncate", "fstat", "failed"},
             shmPc[p] = "shm_open", Shm!Goes(p, to),
             to = "fstat" => p \in Readers, to = "ftruncate" => p \notin Readers,
             UNCHANGED <<size, mem, len, copied, printed, raced, whole, due>>
      PROVE  ShmInv'
  BY <1>1, ShmFacts
  DEF Shm!Goes, ShmInv, ShmTypes, WriterInv, ReaderInv, Behind, WholeInv, Undisturbed,
      OneWriter
<1>2. ASSUME NEW p \in Creators, Shm!Create(p) PROVE ShmInv'
  BY <1>1, <1>2, ShmFacts DEF Shm!Create
<1>3. ASSUME NEW p \in Writers \cup Readers, Shm!Open(p) PROVE ShmInv'
  BY <1>1, <1>3, ShmFacts DEF Shm!Open
<1>4. ASSUME NEW p \in Creators, Shm!CreatorResizes(p) PROVE ShmInv'
  <2>1. p \in Shm!Programs /\ p \notin Writers /\ p \notin Readers
    BY ShmFacts
  <2>2. PICK k \in Sizes :
            /\ Shm!Resize(k)
            /\ Shm!Goes(p, IF k = 0 THEN "failed" ELSE "done")
            /\ whole' = IF whole = Shm!Mixed \/ raced \cap Writers # {} THEN Shm!Mixed
                        ELSE [b \in 1..k |-> IF b <= Len(whole) THEN whole[b] ELSE 0]
    BY <1>4 DEF Shm!CreatorResizes
  <2>3. /\ k \in 0..MaxSize /\ Shm!Disturbs(p) /\ shmPc[p] = "ftruncate"
        /\ UNCHANGED <<len, copied, printed, due>>
    BY <1>4, ShmFacts DEF Shm!CreatorResizes
  <2>4. /\ size' = k /\ mem' \in [1..Memory -> Nat]
        /\ \A b \in 1..Memory : b <= k /\ b <= size => mem'[b] = mem[b]
        /\ raced \cap Writers = {} =>
               \A b \in 1..Memory : b > k \/ b > size => mem'[b] = 0
    BY <2>2, <2>3, Resized DEF ShmInv
  <2>5. /\ raced \subseteq raced' /\ raced' \subseteq Shm!Programs
        /\ p \in raced' => p \in raced
        /\ \A q \in Shm!Programs \ raced' :
               q # p => shmPc[q] \notin {"mmap", "memcpy", "write"}
    BY <1>t, <2>1, <2>3, Disturbed
  <2>6. ShmTypes'
    BY <2>1, <2>2, <2>3, <2>4, <2>5, ShmFacts DEF ShmInv, ShmTypes, Shm!Goes, Memory
  <2>7. Behind'
    BY <1>t, <2>4, <2>5 DEF Behind, Memory
  <2>8. WholeInv'
    <3>1. SUFFICES ASSUME whole' # Shm!Mixed PROVE WholeInv'
      BY DEF WholeInv, Shm!Mixed
    <3>2. /\ whole # Shm!Mixed /\ raced \cap Writers = {}
          /\ whole' = [b \in 1..k |-> IF b <= Len(whole) THEN whole[b] ELSE 0]
      BY <2>2, <3>1 DEF Shm!Mixed
    <3>3. /\ whole \in Seq(Nat) /\ Len(whole) = size
          /\ \A b \in 1..size : mem[b] = whole[b]
      BY <3>2 DEF ShmInv, WholeInv
    <3>4. k \in Nat /\ k <= Memory
      BY <1>t, <2>3
    <3>5. \A b \in 1..k : whole'[b] \in Nat /\ mem'[b] = whole'[b]
      BY <1>t, <2>4, <3>2, <3>3, <3>4
    <3>6. whole' \in [1..k -> Nat]
      BY <3>2, <3>5
    <3> QED
      BY <2>4, <3>4, <3>5, <3>6 DEF WholeInv
  <2>9. \A q \in Shm!Programs : q # p => shmPc'[q] = shmPc[q]
    BY <2>2 DEF Shm!Goes, ShmInv, ShmTypes
  <2>10. shmPc'[p] \in {"failed", "done"}
    BY <2>1, <2>2 DEF Shm!Goes, ShmInv, ShmTypes
  <2>11. \A w \in Writers : WriterInv(w)'
    BY <2>1, <2>3, <2>5, <2>9, ShmFacts DEF ShmInv, WriterInv
  <2>12. \A r \in Readers : ReaderInv(r)'
    BY <2>1, <2>3, <2>5, <2>9, ShmFacts DEF ShmInv, ReaderInv
  <2>13. Undisturbed'
    BY <2>1, <2>3, <2>5, <2>9, <2>10 DEF ShmInv, Undisturbed
  <2>14. OneWriter'
    BY <2>1, <2>5, <2>9, ShmFacts DEF ShmInv, OneWriter
  <2> QED
    BY <2>6, <2>7, <2>8, <2>11, <2>12, <2>13, <2>14 DEF ShmInv
<1>5. ASSUME NEW w \in Writers, Shm!WriterResizes(w) PROVE ShmInv'
  <2> DEFINE k == Len(Text[w])
  <2>1. w \in Shm!Programs /\ w \notin Readers /\ w \notin Creators /\ k \in 0..MaxSize
    BY ShmFacts
  <2>2. /\ Shm!Resize(k) /\ Shm!Goes(w, "mmap") /\ whole' = Shm!Mixed /\ Shm!Disturbs(w)
        /\ len' = [len EXCEPT ![w] = k] /\ shmPc[w] = "ftruncate"
        /\ UNCHANGED <<copied, printed, due>>
    BY <1>5 DEF Shm!WriterResizes
  <2>4. /\ size' = k /\ mem' \in [1..Memory -> Nat]
        /\ raced \cap Writers = {} =>
               \A b \in 1..Memory : b > k \/ b > size => mem'[b] = 0
    BY <2>1, <2>2, Resized DEF ShmInv
  <2>5. /\ raced \subseteq raced' /\ raced' \subseteq Shm!Programs
        /\ w \in raced' => w \in raced
        /\ \A q \in Shm!Programs \ raced' :
               q # w => shmPc[q] \notin {"mmap", "memcpy", "write"}
    BY <1>t, <2>1, <2>2, Disturbed
  <2>6. ShmTypes'
    BY <2>1, <2>2, <2>4, <2>5 DEF ShmInv, ShmTypes, Shm!Goes, Memory
  <2>7. Behind'
    BY <1>t, <2>4, <2>5 DEF Behind, Memory
  <2>8. WholeInv'
    BY <2>2 DEF WholeInv, Shm!Mixed
  <2>9. /\ \A q \in Shm!Programs : q # w => shmPc'[q] = shmPc[q] /\ len'[q] = len[q]
        /\ shmPc'[w] = "mmap" /\ len'[w] = k
    BY <2>1, <2>2 DEF Shm!Goes, ShmInv, ShmTypes
  <2>11. \A v \in Writers : WriterInv(v)'
    <3>1. WriterInv(w)'
      BY <2>1, <2>2, <2>4, <2>9 DEF ShmInv, WriterInv, Shm!Mixed
    <3>2. ASSUME NEW v \in Writers, v # w PROVE WriterInv(v)'
      <4>1. WriterInv(v) /\ v \in Shm!Programs
        BY ShmFacts DEF ShmInv
      <4>2. /\ shmPc'[v] = shmPc[v] /\ len'[v] = len[v] /\ copied' = copied
            /\ v \in raced' \/ shmPc[v] \notin {"mmap", "memcpy"}
        BY <2>2, <2>5, <2>9, <3>2, <4>1
      <4> QED
        BY <4>1, <4>2 DEF WriterInv
    <3> QED
      BY <3>1, <3>2
  <2>12. \A r \in Readers : ReaderInv(r)'
    BY <2>1, <2>2, <2>5, <2>9, ShmFacts DEF ShmInv, ReaderInv
  <2>13. Undisturbed'
    BY <2>1, <2>2, <2>5, <2>9 DEF ShmInv, Undisturbed
  <2>14. OneWriter'
    BY <2>1, <2>5, <2>9, ShmFacts DEF ShmInv, OneWriter
  <2> QED
    BY <2>6, <2>7, <2>8, <2>11, <2>12, <2>13, <2>14 DEF ShmInv
<1>6. ASSUME NEW r \in Readers, Shm!Fstat(r) PROVE ShmInv'
  BY <1>t, <1>6, ShmFacts
  DEF Shm!Fstat, Shm!Goes, ShmInv, ShmTypes, WriterInv, ReaderInv, Behind, WholeInv,
      Undisturbed, OneWriter
<1>7. ASSUME NEW p \in Writers \cup Readers, Shm!Mmap(p) PROVE ShmInv'
  <2>1. p \in Shm!Programs /\ p \notin Creators
    BY ShmFacts
  <2> DEFINE to == IF len[p] = 0 THEN "failed"
                   ELSE IF p \in Writers THEN "memcpy" ELSE "write"
  <2>2. /\ Shm!Goes(p, to) /\ to \in {"failed", "memcpy", "write"}
        /\ (to = "failed" <=> len[p] = 0)
        /\ to = "memcpy" => p \in Writers
        /\ to = "write" => p \in Readers
    BY <1>7 DEF Shm!Mmap
  <2> HIDE DEF to
  <2>3. shmPc[p] = "mmap" /\ UNCHANGED <<size, mem, len, copied, printed, raced, due>>
    BY <1>7 DEF Shm!Mmap
  <2>4. ShmTypes' /\ Behind'
    BY <2>1, <2>2, <2>3 DEF Shm!Goes, ShmInv, ShmTypes, Behind, Memory
  <2>5. /\ shmPc'[p] = to /\ \A q \in Shm!Programs : q # p => shmPc'[q] = shmPc[q]
        /\ len[p] \in Nat
    BY <2>1, <2>2 DEF Shm!Goes, ShmInv, ShmTypes
  <2>6. Undisturbed' /\ OneWriter'
    BY <2>1, <2>2, <2>3, <2>5, ShmFacts DEF ShmInv, Undisturbed, OneWriter
  <2>7. CASE whole' = whole
    <3>1. WholeInv'
      BY <2>3, <2>7 DEF ShmInv, WholeInv
    <3>2. ASSUME NEW w \in Writers PROVE WriterInv(w)'
      <4>1. WriterInv(w) /\ w \in Shm!Programs
        BY ShmFacts DEF ShmInv
      <4>2. CASE w = p
        BY <2>2, <2>3, <2>5, <2>7, <4>1, <4>2 DEF WriterInv
      <4>3. CASE w # p
        BY <2>3, <2>5, <2>7, <4>1, <4>3 DEF WriterInv
      <4> QED
        BY <4>2, <4>3
    <3>3. ASSUME NEW r \in Readers PROVE ReaderInv(r)'
      BY <2>3, <2>5, <2>7, ShmFacts DEF ShmInv, ReaderInv
    <3> QED
      BY <2>4, <2>6, <3>1, <3>2, <3>3 DEF ShmInv
  <2>8. CASE p \in Writers /\ len[p] = 0 /\ p \notin raced /\ whole' = <<>>
    <3>1. size = 0 /\ whole = Shm!Mixed
      BY <2>3, <2>8 DEF ShmInv, WriterInv
    <3>2. WholeInv'
      BY <2>3, <2>8, <3>1 DEF WholeInv
    <3>3. \A v \in Writers : v = p \/ v \in raced \/ shmPc[v] \notin {"mmap", "memcpy"}
      BY <2>3, <2>8 DEF ShmInv, OneWriter
    <3>4. ASSUME NEW w \in Writers PROVE WriterInv(w)'
      <4>1. WriterInv(w) /\ w \in Shm!Programs
        BY ShmFacts DEF ShmInv
      <4>2. CASE w = p
        BY <2>2, <2>3, <2>5, <2>8, <4>1, <4>2 DEF WriterInv
      <4>3. CASE w # p
        BY <2>3, <2>5, <3>3, <4>1, <4>3 DEF WriterInv
      <4> QED
        BY <4>2, <4>3
    <3>5. ASSUME NEW r \in Readers PROVE ReaderInv(r)'
      BY <2>3, <2>5, <2>8, <3>1, ShmFacts DEF ShmInv, ReaderInv, Shm!Mixed
    <3> QED
      BY <2>4, <2>6, <3>2, <3>4, <3>5 DEF ShmInv
  <2> QED
    BY <1>7, <2>7, <2>8 DEF Shm!Mmap
<1>8. ASSUME NEW w \in Writers, Shm!Store(w) PROVE ShmInv'
  <2> DEFINE x == copied[w] + 1
  <2>1. /\ w \in Shm!Programs /\ w \notin Readers /\ w \notin Creators
        /\ shmPc[w] = "memcpy" /\ WriterInv(w)
        /\ UNCHANGED <<size, len, printed, due>>
    BY <1>8, ShmFacts DEF ShmInv, Shm!Store
  <2>2. /\ len[w] = Len(Text[w]) /\ copied[w] \in Nat /\ len[w] \in Nat
        /\ x \in 1..len[w] /\ x \in 1..MaxSize /\ x \in 1..Memory
        /\ Text[w][x] \in Nat /\ Text[w] \in Seq(Nat)
    BY <1>t, <2>1, ShmFacts DEF ShmTypes, WriterInv
  <2>3. CASE /\ x > Page * Shm!Pages(size)
             /\ Shm!Goes(w, "SIGBUS") /\ UNCHANGED <<mem, copied, raced, whole>>
    <3>1. w \in raced
      <4>1. Page * Shm!Pages(size) \in Nat /\ Page * Shm!Pages(size) >= size
        BY <1>t, PagesEnough
      <4> QED
        BY <1>t, <2>1, <2>2, <2>3, <4>1 DEF WriterInv
    <3>2. shmPc'[w] = "SIGBUS" /\ \A q \in Shm!Programs : q # w => shmPc'[q] = shmPc[q]
      BY <2>1, <2>3 DEF Shm!Goes, ShmInv, ShmTypes
    <3>3. ShmTypes' /\ Behind' /\ WholeInv'
      BY <2>1, <2>3 DEF Shm!Goes, ShmInv, ShmTypes, Behind, WholeInv, Memory
    <3>4. \A v \in Writers : WriterInv(v)'
      BY <2>1, <2>3, <3>1, <3>2, ShmFacts DEF ShmInv, WriterInv
    <3>5. /\ \A r \in Readers : ReaderInv(r)'
          /\ Undisturbed' /\ OneWriter'
      BY <2>1, <2>3, <3>1, <3>2, ShmFacts DEF ShmInv, ReaderInv, Undisturbed, OneWriter
    <3> QED
      BY <3>3, <3>4, <3>5 DEF ShmInv
  <2>4. CASE /\ mem' = [mem EXCEPT ![x] = Text[w][x]]
             /\ copied' = [copied EXCEPT ![w] = x]
             /\ Shm!Disturbs(w)
             /\ IF x = len[w] THEN Shm!Goes(w, "done") ELSE UNCHANGED shmPc
             /\ whole' = IF x = len[w] /\ w \notin raced THEN Text[w] ELSE Shm!Mixed
    <3>1. /\ raced \subseteq raced' /\ raced' \subseteq Shm!Programs
          /\ w \in raced' => w \in raced
          /\ \A q \in Shm!Programs \ raced' :
                 q # w => shmPc[q] \notin {"mmap", "memcpy", "write"}
      BY <1>t, <2>1, <2>4, Disturbed
    <3>2. /\ shmPc'[w] = IF x = len[w] THEN "done" ELSE "memcpy"
          /\ \A q \in Shm!Programs : q # w => shmPc'[q] = shmPc[q]
          /\ shmPc' \in [Shm!Programs -> {"shm_open", "ftruncate", "fstat", "mmap",
                            "memcpy", "write", "done", "failed", "SIGBUS"}]
      BY <2>1, <2>4 DEF Shm!Goes, ShmInv, ShmTypes
    <3>3. /\ mem' \in [1..Memory -> Nat] /\ mem'[x] = Text[w][x]
          /\ \A b \in 1..Memory : b # x => mem'[b] = mem[b]
      BY <2>2, <2>4 DEF ShmInv, ShmTypes
    <3>4. /\ copied' \in [Writers -> Nat] /\ copied'[w] = x
          /\ \A v \in Writers : v # w => copied'[v] = copied[v]
      BY <2>2, <2>4 DEF ShmInv, ShmTypes
    <3>5. ShmTypes'
      BY <2>1, <3>1, <3>2, <3>3, <3>4 DEF ShmInv, ShmTypes, Memory
    <3>6. w \notin raced => /\ size = len[w]
                            /\ \A b \in 1..size : b <= x => mem'[b] = Text[w][b]
      <4>1. SUFFICES ASSUME w \notin raced
                     PROVE  /\ size = len[w]
                            /\ \A b \in 1..size : b <= x => mem'[b] = Text[w][b]
        OBVIOUS
      <4>2. size = len[w] /\ \A b \in 1..copied[w] : mem[b] = Text[w][b]
        BY <2>1, <4>1 DEF WriterInv
      <4>3. ASSUME NEW b \in 1..size, b <= x, b # x
            PROVE  b \in 1..copied[w] /\ b \in 1..Memory
        BY <1>t, <2>2, <4>3
      <4> QED
        BY <3>3, <4>2, <4>3
    <3>7. Behind'
      <4>1. raced' \cap Writers = {} => raced \cap Writers = {} /\ w \notin raced
        BY <3>1
      <4> QED
        BY <1>t, <2>1, <2>2, <3>3, <3>6, <4>1 DEF ShmInv, Behind, Memory
    <3>8. WholeInv'
      BY <1>t, <2>1, <2>2, <2>4, <3>6 DEF WholeInv, Shm!Mixed
    <3> HIDE DEF x
    <3>9. WriterInv(w)'
      <4>1. shmPc'[w] = "memcpy" => /\ x < len[w] /\ copied'[w] = x
                                    /\ whole' = Shm!Mixed
        BY <2>2, <2>4, <3>2, <3>4
      <4>2. shmPc'[w] = "memcpy" /\ w \notin raced' =>
                size = len[w] /\ \A b \in 1..x : mem'[b] = Text[w][b]
        <5>1. \A b \in 1..x : b \in 1..len[w] /\ b <= x
          BY <2>2
        <5> QED
          BY <3>1, <3>6, <5>1, Zenon
      <4> QED
        BY <2>1, <2>2, <3>1, <3>2, <4>1, <4>2 DEF WriterInv, Shm!Mixed
    <3>10. ASSUME NEW v \in Writers, v # w PROVE WriterInv(v)'
      <4>1. WriterInv(v) /\ v \in Shm!Programs
        BY ShmFacts DEF ShmInv
      <4>2. v \in raced' \/ shmPc[v] \notin {"mmap", "memcpy"}
        BY <3>1, <3>10, <4>1
      <4> QED
        BY <2>1, <3>2, <3>4, <3>10, <4>1, <4>2 DEF WriterInv
    <3>11. \A r \in Readers : ReaderInv(r)'
      BY <2>1, <3>1, <3>2, ShmFacts DEF ShmInv, ReaderInv
    <3>12. Undisturbed' /\ OneWriter'
      BY <2>1, <3>1, <3>2, ShmFacts DEF ShmInv, Undisturbed, OneWriter
    <3> QED
      BY <3>5, <3>7, <3>8, <3>9, <3>10, <3>11, <3>12 DEF ShmInv
  <2> QED
    BY <1>8, <2>3, <2>4 DEF Shm!Store
<1>9. ASSUME NEW r \in Readers, Shm!WriteOut(r) PROVE ShmInv'
  <2>1. r \in Shm!Programs /\ r \notin Writers /\ shmPc[r] = "write"
    BY <1>9, ShmFacts DEF Shm!WriteOut
  <2> DEFINE k == Shm!Min({len[r], Page * Shm!Pages(size)})
             out == SubSeq(mem, 1, k)
  <2>2. /\ Shm!Goes(r, "done") /\ printed' = [printed EXCEPT ![r] = out]
        /\ due' = [due EXCEPT ![r] = whole]
        /\ UNCHANGED <<size, mem, len, copied, raced, whole>>
    BY <1>9 DEF Shm!WriteOut
  <2>3. r \notin raced => out = whole
    <3>1. SUFFICES ASSUME r \notin raced PROVE out = whole
      OBVIOUS
    <3>2. len[r] = size /\ whole # Shm!Mixed
      BY <2>1, <3>1 DEF ShmInv, ReaderInv
    <3>3. Page * Shm!Pages(size) \in Nat /\ Page * Shm!Pages(size) >= size
      BY <1>t, PagesEnough
    <3>4. \A a, b \in Nat : b >= a => Shm!Min({a, b}) = a
      BY DEF Shm!Min
    <3>5. k = size
      BY <1>t, <3>2, <3>3, <3>4
    <3> QED
      BY <3>2, <3>5, ContentIsWhole DEF Shm!Content
  <2> HIDE DEF out
  <2>4. /\ shmPc'[r] = "done" /\ printed'[r] = out /\ due'[r] = whole
        /\ \A q \in Shm!Programs : q # r => shmPc'[q] = shmPc[q]
        /\ \A q \in Readers : q # r => printed'[q] = printed[q] /\ due'[q] = due[q]
    BY <2>1, <2>2 DEF Shm!Goes, ShmInv, ShmTypes
  <2>5. ShmTypes' /\ Behind' /\ WholeInv'
    BY <2>1, <2>2 DEF Shm!Goes, ShmInv, ShmTypes, Behind, WholeInv, Memory
  <2>6. /\ \A w \in Writers : WriterInv(w)'
        /\ \A q \in Readers : ReaderInv(q)'
    BY <2>1, <2>2, <2>4, ShmFacts DEF ShmInv, WriterInv, ReaderInv
  <2>7. Undisturbed' /\ OneWriter'
    BY <2>1, <2>2, <2>3, <2>4, ShmFacts DEF ShmInv, Undisturbed, OneWriter
  <2> QED
    BY <2>5, <2>6, <2>7 DEF ShmInv
<1> QED
  BY <1>2, <1>3, <1>4, <1>5, <1>6, <1>7, <1>8, <1>9 DEF Shm!Next

-------------------------------------------------------------------------------
LEMMA ShmStands == ShmInv /\ UNCHANGED shmVars => ShmInv'
BY DEF shmVars, ShmInv, ShmTypes, WriterInv, ReaderInv, Behind, WholeInv, Undisturbed,
       OneWriter, Memory

(* For any number of programs, texts and sizes: text in shared memory      *)
(* (pshm_write.c:27-48, pshm_read.c:23-42) and blocks of a file            *)
(* (atomic_append.c:36-50) are damaged only if another process came between*)
(* the steps of the one that wrote or read them.                           *)
THEOREM DamageOnlyByRace == FairSpec => []MixedOnlyIfRaced
<1> DEFINE Inv == ShmInv /\ File!TypeOK /\ File!MixedOnlyIfRaced
<1>1. File!SharedFileAssumption
  BY ObjectsAssumption DEF ObjectsAssumption
<1>2. Init => Inv
  BY <1>1, ShmInit, FileInit DEF Init
<1>3. Inv /\ [Next]_vars => Inv'
  <2> SUFFICES ASSUME Inv, [Next]_vars PROVE Inv'
    OBVIOUS
  <2>1. ShmInv'
    BY ShmStep, ShmStands DEF Next, ShmRuns, FileRuns, UcaseRuns, QueueRuns, vars
  <2>2. [File!Next]_fileVars
    BY DEF Next, ShmRuns, FileRuns, UcaseRuns, QueueRuns, vars
  <2> QED
    BY <1>1, <2>1, <2>2, FileStep
<1>4. Inv => MixedOnlyIfRaced
  BY ShmRight DEF MixedOnlyIfRaced
<1> QED
  BY <1>2, <1>3, <1>4, PTL DEF FairSpec

-------------------------------------------------------------------------------
(* The rest of the types of the shared memory programs: nobody copies, or  *)
(* prints, more than it has mapped.                                        *)
ShmSizes ==
    /\ \A w \in Writers : copied[w] <= len[w]
    /\ \A r \in Readers : IF shmPc[r] = "done" THEN Len(printed[r]) <= len[r]
                                               ELSE printed[r] = <<>>

LEMMA SizesInit == Shm!Init => ShmSizes
BY ShmFacts DEF Shm!Init, ShmSizes

LEMMA SizesFrame ==
    ASSUME ShmSizes, UNCHANGED <<len, copied, printed>>,
           \A r \in Readers : shmPc'[r] = "done" <=> shmPc[r] = "done"
    PROVE  ShmSizes'
BY DEF ShmSizes

LEMMA SizesStep == ShmInv /\ ShmSizes /\ Shm!Next => ShmSizes'
<1> SUFFICES ASSUME ShmInv, ShmSizes, Shm!Next PROVE ShmSizes'
  OBVIOUS
<1>0. ShmTypes /\ size \in Nat /\ Memory \in Nat
  BY ShmFacts, Room DEF ShmInv, ShmTypes
<1>1. ASSUME NEW p \in Shm!Programs, NEW to, Shm!Goes(p, to), UNCHANGED <<len, copied, printed>>,
             p \in Readers => to # "done" /\ shmPc[p] # "done"
      PROVE  ShmSizes'
  <2>1. \A r \in Readers : shmPc'[r] = "done" <=> shmPc[r] = "done"
    BY <1>0, <1>1, ShmFacts DEF Shm!Goes, ShmTypes
  <2> QED
    BY <1>1, <2>1, SizesFrame
<1>2. ASSUME NEW p \in Creators, Shm!Create(p) \/ Shm!CreatorResizes(p) PROVE ShmSizes'
  <2>1. p \in Shm!Programs /\ p \notin Readers
    BY ShmFacts
  <2>2. UNCHANGED <<len, copied, printed>> /\ \E to : Shm!Goes(p, to)
    BY <1>2 DEF Shm!Create, Shm!CreatorResizes
  <2> QED
    BY <1>1, <2>1, <2>2
<1>3. ASSUME NEW p \in Writers \cup Readers, Shm!Open(p) \/ Shm!Mmap(p) PROVE ShmSizes'
  <2>1. p \in Shm!Programs
    BY ShmFacts
  <2>2. /\ UNCHANGED <<len, copied, printed>> /\ shmPc[p] # "done"
        /\ \E to : Shm!Goes(p, to) /\ to # "done"
    BY <1>3 DEF Shm!Open, Shm!Mmap
  <2> QED
    BY <1>1, <2>1, <2>2
<1>4. ASSUME NEW w \in Writers, Shm!WriterResizes(w) PROVE ShmSizes'
  <2>1. /\ shmPc[w] = "ftruncate" /\ Shm!Goes(w, "mmap") /\ UNCHANGED <<copied, printed>>
        /\ len' = [len EXCEPT ![w] = Len(Text[w])]
    BY <1>4 DEF Shm!WriterResizes
  <2>2. w \in Shm!Programs /\ w \notin Readers /\ Len(Text[w]) \in Nat /\ copied[w] = 0
    BY <2>1, ShmFacts DEF ShmInv, WriterInv
  <2>3. \A v \in Writers : copied'[v] <= len'[v]
    BY <1>0, <2>1, <2>2, ShmFacts DEF ShmSizes, ShmTypes
  <2>4. \A r \in Readers : UNCHANGED <<shmPc[r], len[r], printed[r]>>
    BY <1>0, <2>1, <2>2, ShmFacts DEF Shm!Goes, ShmTypes
  <2> QED
    BY <2>3, <2>4 DEF ShmSizes
<1>5. ASSUME NEW w \in Writers, Shm!Store(w) PROVE ShmSizes'
  <2>1. /\ shmPc[w] = "memcpy" /\ UNCHANGED <<len, printed>>
        /\ copied' \in {copied, [copied EXCEPT ![w] = copied[w] + 1]}
        /\ \A r \in Readers : r # w => shmPc'[r] = shmPc[r]
    <3>1. /\ shmPc[w] = "memcpy" /\ UNCHANGED <<len, printed>>
          /\ \/ UNCHANGED copied /\ Shm!Goes(w, "SIGBUS")
             \/ /\ copied' = [copied EXCEPT ![w] = copied[w] + 1]
                /\ Shm!Goes(w, "done") \/ UNCHANGED shmPc
      BY <1>5 DEF Shm!Store
    <3>2. \A r \in Readers : r \in Shm!Programs
      BY ShmFacts
    <3> QED
      BY <1>0, <3>1, <3>2 DEF Shm!Goes, ShmTypes
  <2>2. /\ w \in Shm!Programs /\ w \notin Readers /\ copied[w] < len[w]
        /\ copied[w] \in Nat /\ len[w] \in Nat
    BY <1>0, <2>1, ShmFacts DEF ShmInv, WriterInv, ShmTypes
  <2>3. \A v \in Writers : copied'[v] <= len'[v]
    BY <1>0, <2>1, <2>2 DEF ShmSizes, ShmTypes
  <2>4. \A r \in Readers : UNCHANGED <<shmPc[r], len[r], printed[r]>>
    BY <1>0, <2>1, <2>2, ShmFacts DEF Shm!Goes, ShmTypes
  <2> QED
    BY <2>3, <2>4 DEF ShmSizes
<1>6. ASSUME NEW r \in Readers, Shm!Fstat(r) PROVE ShmSizes'
  <2>1. /\ shmPc[r] = "fstat" /\ Shm!Goes(r, "mmap") /\ UNCHANGED <<copied, printed>>
        /\ len' = [len EXCEPT ![r] = size]
    BY <1>6 DEF Shm!Fstat
  <2>2. r \in Shm!Programs /\ r \notin Writers
    BY ShmFacts
  <2>3. shmPc'[r] = "mmap" /\ \A q \in Readers : q # r => UNCHANGED <<shmPc[q], len[q]>>
    BY <1>0, <2>1, <2>2, ShmFacts DEF Shm!Goes, ShmTypes
  <2>4. \A w \in Writers : len'[w] = len[w]
    BY <1>0, <2>1, <2>2, ShmFacts DEF ShmTypes
  <2> QED
    BY <2>1, <2>3, <2>4 DEF ShmSizes
<1>7. ASSUME NEW r \in Readers, Shm!WriteOut(r) PROVE ShmSizes'
  <2> DEFINE k == Shm!Min({len[r], Page * Shm!Pages(size)})
             out == SubSeq(mem, 1, k)
  <2>1. /\ Shm!Goes(r, "done") /\ printed' = [printed EXCEPT ![r] = out]
        /\ UNCHANGED <<len, copied>>
    BY <1>7 DEF Shm!WriteOut
  <2>2. r \in Shm!Programs /\ len[r] \in Nat /\ Page * Shm!Pages(size) \in Nat
    BY <1>0, PagesEnough, ShmFacts DEF ShmTypes
  <2>3. \A a, b \in Nat : Shm!Min({a, b}) \in {a, b} /\ Shm!Min({a, b}) <= a
    BY DEF Shm!Min
  <2>4. k \in Nat /\ k <= len[r]
    BY <2>2, <2>3
  <2>5. Len(out) = k
    <3>1. mem \in Seq(Nat)
      BY <1>0 DEF ShmTypes
    <3> HIDE DEF k
    <3> QED
      BY <2>4, <3>1
  <2> HIDE DEF out, k
  <2>6. /\ shmPc'[r] = "done" /\ printed'[r] = out
        /\ \A q \in Readers : q # r => UNCHANGED <<shmPc[q], printed[q]>>
    BY <1>0, <2>1, <2>2, ShmFacts DEF Shm!Goes, ShmTypes
  <2> QED
    BY <2>1, <2>4, <2>5, <2>6 DEF ShmSizes
<1> QED
  BY <1>2, <1>3, <1>4, <1>5, <1>6, <1>7 DEF Shm!Next

LEMMA SizesStand == ShmSizes /\ UNCHANGED shmVars => ShmSizes'
BY DEF ShmSizes, shmVars

LEMMA ShmTyped == ShmInv /\ ShmSizes => Shm!TypeOK
<1> SUFFICES ASSUME ShmInv, ShmSizes PROVE Shm!TypeOK
  OBVIOUS
<1>1. /\ ShmTypes /\ \A w \in Writers : copied[w] <= len[w]
      /\ \A r \in Readers : Len(printed[r]) <= len[r]
  <2>1. \A r \in Readers : len[r] \in Nat /\ Len(<<>>) = 0
    BY ShmFacts DEF ShmInv, ShmTypes
  <2> QED
    BY <2>1 DEF ShmInv, ShmSizes
<1> QED
  BY <1>1 DEF ShmTypes, Shm!TypeOK, Memory

-------------------------------------------------------------------------------
(* i6d_ucase_sv.c and i6d_ucase_cl.c: whatever duplication does to others, *)
(* a client none of whose datagrams was duplicated has one of them at most *)
(* on its way or with the server, only while it waits, and that one is     *)
(* about its current message.                                              *)
Pending(d) ==
    /\ cpc[d.client] = "recv" /\ net[d] = 1
    /\ d = Ucase!Datagram("request", d.client, i[d.client], Lengths[d.client][i[d.client]])
       \/ d = Ucase!Expected(d.client, i[d.client])

Serving(c) == spc = "send" /\ caddr = c

UcaseTypes ==
    /\ DOMAIN net \subseteq Ucase!Datagrams
    /\ \A d \in DOMAIN net : net[d] \in Nat \ {0} /\ d.text[1] = d.client
    /\ cpc \in [Clients -> {"send", "recv", "done"}]
    /\ i \in [Clients -> Nat] /\ DOMAIN answers = Clients
    /\ \A c \in Clients : /\ i[c] \in 1..Len(Lengths[c]) + 1
                          /\ cpc[c] # "done" => i[c] \in 1..Len(Lengths[c])
    /\ spc \in {"recv", "send", "dead"} /\ caddr \in Clients \cup {None}
    /\ lost \cup duplicated \subseteq Clients /\ faults \in 0..MaxFaults

UcaseServed ==
    spc = "send" =>
        /\ buf \in Ucase!Datagrams /\ buf.kind = "request"
        /\ buf.client = caddr /\ buf.text[1] = caddr /\ caddr \in Clients

UcaseOne(c) ==
    c \notin duplicated =>
        /\ \A d \in DOMAIN net : d.client = c => Pending(d) /\ ~Serving(c)
        /\ \A d, e \in DOMAIN net : d.client = c /\ e.client = c => d = e
        /\ Serving(c) =>
               /\ cpc[c] = "recv"
               /\ buf = Ucase!Datagram("request", c, i[c], Ucase!Received(Lengths[c][i[c]]))

UcaseAnswered(c) ==
    /\ answers[c] \in Seq(Ucase!Datagrams) /\ Len(answers[c]) = i[c] - 1
    /\ \A k \in 1..Len(answers[c]) :
           /\ answers[c][k].text[1] = c
           /\ c \notin duplicated => answers[c][k] = Ucase!Expected(c, k)

UcaseInv ==
    /\ UcaseTypes /\ UcaseServed
    /\ \A c \in Clients : UcaseOne(c) /\ UcaseAnswered(c)

LEMMA UcaseConstants ==
    /\ None \notin Clients /\ MaxFaults \in Nat /\ BUF_SIZE \in Nat
    /\ \A c \in Clients : Lengths[c] \in Seq(Nat) /\ Len(Lengths[c]) \in Nat
BY ObjectsAssumption DEF ObjectsAssumption, Ucase!UcaseAssumption

LEMMA ReceivedSizes ==
    \A k \in Nat : /\ Ucase!Received(k) \in Nat
                   /\ Ucase!Received(Ucase!Received(k)) = Ucase!Received(k)
BY UcaseConstants DEF Ucase!Received

(* Datagrams, cut to a buffer or sent back.                                *)
Cut(d) == [d EXCEPT !.len = Ucase!Received(@)]
Answer(d, c) == [d EXCEPT !.kind = "answer", !.client = c]

LEMMA Made ==
    \A kind \in {"request", "answer"}, c \in Clients, k \in Nat, m \in Nat :
        LET d == Ucase!Datagram(kind, c, k, m) IN
        d \in Ucase!Datagrams /\ d.kind = kind /\ d.client = c /\ d.text[1] = c
BY DEF Ucase!Datagram, Ucase!Datagrams

LEMMA MadeCut ==
    \A kind, c, k, m, d : d = Ucase!Datagram(kind, c, k, m) =>
        Cut(d) = Ucase!Datagram(kind, c, k, Ucase!Received(m))
BY DEF Cut, Ucase!Datagram

LEMMA MadeAnswer ==
    \A kind, c, k, m, d : d = Ucase!Datagram(kind, c, k, m) =>
        Answer(d, c) = Ucase!Datagram("answer", c, k, m)
<1> SUFFICES ASSUME NEW kind, NEW c, NEW k, NEW m, NEW d, d = Ucase!Datagram(kind, c, k, m)
             PROVE  Answer(d, c) = Ucase!Datagram("answer", c, k, m)
  BY Zenon
<1>1. [d EXCEPT !.kind = "answer"] = Ucase!Datagram("answer", c, k, m)
  BY DEF Ucase!Datagram
<1>2. \A e : e = Ucase!Datagram("answer", c, k, m) => [e EXCEPT !.client = c] = e
  BY DEF Ucase!Datagram
<1> QED
  BY <1>1, <1>2, Zenon DEF Answer

LEMMA Altered ==
    \A d \in Ucase!Datagrams :
        /\ d.kind \in {"request", "answer"} /\ d.client \in Clients
        /\ Cut(d) \in Ucase!Datagrams /\ Cut(d).kind = d.kind
        /\ Cut(d).client = d.client /\ Cut(d).text = d.text
        /\ \A c \in Clients : /\ Answer(d, c) \in Ucase!Datagrams
                              /\ Answer(d, c).client = c /\ Answer(d, c).text = d.text
<1> SUFFICES ASSUME NEW d \in Ucase!Datagrams
             PROVE  /\ d.kind \in {"request", "answer"} /\ d.client \in Clients
                    /\ Cut(d) \in Ucase!Datagrams /\ Cut(d).kind = d.kind
                    /\ Cut(d).client = d.client /\ Cut(d).text = d.text
                    /\ \A c \in Clients :
                           /\ Answer(d, c) \in Ucase!Datagrams
                           /\ Answer(d, c).client = c /\ Answer(d, c).text = d.text
  BY Zenon
<1>1. d.kind \in {"request", "answer"} /\ d.client \in Clients /\ d.len \in Nat
  BY DEF Ucase!Datagrams
<1>2. \A m \in Nat : LET e == [d EXCEPT !.len = m] IN
          /\ e \in Ucase!Datagrams /\ e.kind = d.kind
          /\ e.client = d.client /\ e.text = d.text
  BY DEF Ucase!Datagrams
<1>3. ASSUME NEW c \in Clients
      PROVE  /\ Answer(d, c) \in Ucase!Datagrams
             /\ Answer(d, c).client = c /\ Answer(d, c).text = d.text
  BY DEF Answer, Ucase!Datagrams
<1>4. Ucase!Received(d.len) \in Nat
  BY <1>1, ReceivedSizes
<1> QED
  BY <1>1, <1>2, <1>3, <1>4, Zenon DEF Cut

LEMMA Added ==
    \A d : Ucase!Put(d) =>
        /\ d \in DOMAIN net'
        /\ \A e \in DOMAIN net' : e = d \/ (e \in DOMAIN net /\ net'[e] = net[e])
        /\ d \in DOMAIN net => net'[d] = net[d] + 1
        /\ d \notin DOMAIN net => net'[d] = 1
<1> SUFFICES ASSUME NEW d, Ucase!Put(d)
             PROVE  /\ d \in DOMAIN net'
                    /\ \A e \in DOMAIN net' : e = d \/ (e \in DOMAIN net /\ net'[e] = net[e])
                    /\ d \in DOMAIN net => net'[d] = net[d] + 1
                    /\ d \notin DOMAIN net => net'[d] = 1
  OBVIOUS
<1>1. CASE d \in DOMAIN net
  BY <1>1 DEF Ucase!Put, Ucase!BagAdd
<1>2. CASE d \notin DOMAIN net
  BY <1>2 DEF Ucase!Put, Ucase!BagAdd
<1> QED
  BY <1>1, <1>2

LEMMA Removed ==
    \A d \in DOMAIN net : Ucase!Take(d) =>
        /\ \A e \in DOMAIN net' : e \in DOMAIN net /\ (e # d => net'[e] = net[e])
        /\ d \in DOMAIN net' => net[d] # 1 /\ net'[d] = net[d] - 1
BY DEF Ucase!Take, Ucase!BagRemove

LEMMA UcaseInit == Ucase!Init => UcaseInv
<1> SUFFICES ASSUME Ucase!Init PROVE UcaseInv
  OBVIOUS
<1>1. DOMAIN net = {}
  <2>1. net = [e \in {} |-> 1]
    BY DEF Ucase!Init, Ucase!EmptyBag, Ucase!SetToBag
  <2>2. DOMAIN [e \in {} |-> 1] = {}
    OBVIOUS
  <2> QED
    BY <2>1, <2>2, Zenon
<1>2. /\ cpc = [c \in Clients |-> IF Lengths[c] = <<>> THEN "done" ELSE "send"]
      /\ i = [c \in Clients |-> 1] /\ answers = [c \in Clients |-> <<>>]
      /\ spc = "recv" /\ caddr = None /\ lost = {} /\ duplicated = {} /\ faults = 0
  BY DEF Ucase!Init
<1>3. \A c \in Clients : /\ Len(Lengths[c]) \in Nat
                         /\ Lengths[c] # <<>> => Len(Lengths[c]) > 0
  BY UcaseConstants
<1>4. UcaseTypes
  <2>1. cpc \in [Clients -> {"send", "recv", "done"}] /\ i \in [Clients -> Nat]
    BY <1>2
  <2>2. \A c \in Clients : /\ i[c] \in 1..Len(Lengths[c]) + 1
                           /\ cpc[c] # "done" => i[c] \in 1..Len(Lengths[c])
    BY <1>2, <1>3
  <2> QED
    BY <1>1, <1>2, <2>1, <2>2, UcaseConstants DEF UcaseTypes
<1>5. UcaseServed
  BY <1>2 DEF UcaseServed
<1>6. ASSUME NEW c \in Clients PROVE UcaseOne(c) /\ UcaseAnswered(c)
  BY <1>1, <1>2 DEF UcaseOne, UcaseAnswered, Serving
<1> QED
  BY <1>4, <1>5, <1>6 DEF UcaseInv

(* A client stays right unless a datagram of its own is added.             *)
LEMMA OneKept ==
    ASSUME NEW c \in Clients, UcaseOne(c), UNCHANGED <<cpc[c], i[c]>>,
           duplicated \subseteq duplicated',
           \A e \in DOMAIN net' : e.client = c /\ c \notin duplicated' =>
               e \in DOMAIN net /\ net'[e] = net[e],
           Serving(c)' => Serving(c) /\ buf' = buf
    PROVE  UcaseOne(c)'
<1> SUFFICES ASSUME c \notin duplicated' PROVE UcaseOne(c)'
  BY DEF UcaseOne
<1>1. c \notin duplicated
  OBVIOUS
<1>2. ASSUME NEW d \in DOMAIN net', d.client = c PROVE Pending(d)' /\ ~Serving(c)'
  <2>1. d \in DOMAIN net /\ net'[d] = net[d]
    BY <1>2
  <2> QED
    BY <1>1, <1>2, <2>1 DEF UcaseOne, Pending, Ucase!Datagram, Ucase!Expected
<1>3. \A d, e \in DOMAIN net' : d.client = c /\ e.client = c => d = e
  BY <1>1 DEF UcaseOne
<1>4. Serving(c)' =>
          /\ cpc'[c] = "recv"
          /\ buf' = Ucase!Datagram("request", c, i'[c], Ucase!Received(Lengths[c][i'[c]]))
  BY <1>1 DEF UcaseOne
<1> QED
  BY <1>2, <1>3, <1>4 DEF UcaseOne

LEMMA AnsweredKept ==
    ASSUME NEW c \in Clients, UcaseAnswered(c), UNCHANGED <<answers[c], i[c]>>,
           duplicated \subseteq duplicated'
    PROVE  UcaseAnswered(c)'
BY DEF UcaseAnswered

LEMMA UcaseStep == UcaseInv /\ Ucase!Next => UcaseInv'
<1> SUFFICES ASSUME UcaseInv, Ucase!Next PROVE UcaseInv'
  OBVIOUS
<1>0. /\ UcaseTypes /\ UcaseServed
      /\ \A c \in Clients : UcaseOne(c) /\ UcaseAnswered(c)
      /\ \A d \in DOMAIN net : d \in Ucase!Datagrams /\ d.client \in Clients
                               /\ net[d] \in Nat \ {0} /\ d.text[1] = d.client
  BY Altered DEF UcaseInv, UcaseTypes
<1>s. ASSUME UNCHANGED <<spc, caddr, buf>>
      PROVE  UcaseServed' /\ \A c \in Clients : Serving(c)' => Serving(c)
  BY <1>0, <1>s DEF UcaseServed, Serving
<1>n. ASSUME NEW d, Ucase!Put(d), d \in Ucase!Datagrams, d.text[1] = d.client
      PROVE  /\ DOMAIN net' \subseteq Ucase!Datagrams
             /\ \A e \in DOMAIN net' : net'[e] \in Nat \ {0} /\ e.text[1] = e.client
  BY <1>0, <1>n, Added
<1>o. ASSUME NEW d \in DOMAIN net, Ucase!Take(d)
      PROVE  /\ DOMAIN net' \subseteq Ucase!Datagrams
             /\ \A e \in DOMAIN net' : net'[e] \in Nat \ {0} /\ e.text[1] = e.client
  BY <1>0, <1>o, Removed
<1>k. ASSUME NEW d \in DOMAIN net, Ucase!Take(d), d.client \notin duplicated,
             NEW e \in DOMAIN net', e.client = d.client
      PROVE  FALSE
  <2>1. e \in DOMAIN net /\ (e = d => net[d] # 1)
    BY <1>k, Removed
  <2>2. d = e /\ net[d] = 1
    BY <1>0, <1>k, <2>1 DEF UcaseOne, Pending
  <2> QED
    BY <2>1, <2>2
<1>t. ASSUME NEW d \in DOMAIN net, Ucase!Take(d), NEW c \in Clients, NEW e \in DOMAIN net',
             e.client = c, c \notin duplicated
      PROVE  e \in DOMAIN net /\ net'[e] = net[e]
  BY <1>k, <1>t, Removed
<1>1. ASSUME NEW d \in DOMAIN net, Ucase!Lose(d) PROVE UcaseInv'
  <2>1. /\ Ucase!Take(d) /\ faults < MaxFaults /\ faults' = faults + 1
        /\ lost' = lost \cup {d.client}
        /\ UNCHANGED <<cpc, i, answers, spc, caddr, buf, duplicated>>
    BY <1>1 DEF Ucase!Lose
  <2>2. UcaseTypes'
    BY <1>0, <1>o, <2>1, UcaseConstants DEF UcaseTypes
  <2>3. ASSUME NEW c \in Clients PROVE UcaseOne(c)' /\ UcaseAnswered(c)'
    BY <1>0, <1>s, <1>t, <2>1, OneKept, AnsweredKept
  <2> QED
    BY <1>s, <2>1, <2>2, <2>3 DEF UcaseInv
<1>2. ASSUME NEW d \in DOMAIN net, Ucase!Duplicate(d) PROVE UcaseInv'
  <2>1. /\ Ucase!Put(d) /\ faults < MaxFaults /\ faults' = faults + 1
        /\ duplicated' = duplicated \cup {d.client}
        /\ UNCHANGED <<cpc, i, answers, spc, caddr, buf, lost>>
    BY <1>2 DEF Ucase!Duplicate
  <2>2. UcaseTypes'
    BY <1>0, <1>n, <2>1, UcaseConstants DEF UcaseTypes
  <2>3. \A c \in Clients : \A e \in DOMAIN net' : e.client = c /\ c \notin duplicated' =>
            e \in DOMAIN net /\ net'[e] = net[e]
    BY <2>1, Added
  <2>4. ASSUME NEW c \in Clients PROVE UcaseOne(c)' /\ UcaseAnswered(c)'
    BY <1>0, <1>s, <2>1, <2>3, OneKept, AnsweredKept
  <2> QED
    BY <1>s, <2>1, <2>2, <2>4 DEF UcaseInv
<1>3. ASSUME NEW c \in Clients, Ucase!Sendto(c) PROVE UcaseInv'
  <2> DEFINE m == Lengths[c][i[c]]
  <2>d. PICK d : d = Ucase!Datagram("request", c, i[c], m)
    OBVIOUS
  <2>1. /\ cpc[c] = "send" /\ Ucase!Put(d) /\ cpc' = [cpc EXCEPT ![c] = "recv"]
        /\ UNCHANGED <<i, answers, spc, caddr, buf, lost, duplicated, faults>>
    BY <1>3, <2>d DEF Ucase!Sendto
  <2>2. i[c] \in 1..Len(Lengths[c]) /\ i[c] \in Nat /\ m \in Nat
    BY <1>0, <2>1, UcaseConstants DEF UcaseTypes
  <2>3. d \in Ucase!Datagrams /\ d.client = c /\ d.text[1] = c
    BY <2>2, <2>d, Made
  <2>4. cpc' \in [Clients -> {"send", "recv", "done"}] /\ cpc'[c] = "recv"
        /\ \A b \in Clients : b # c => cpc'[b] = cpc[b]
    BY <1>0, <2>1 DEF UcaseTypes
  <2>5. UcaseTypes'
    <3>1. /\ DOMAIN net' \subseteq Ucase!Datagrams
          /\ \A e \in DOMAIN net' : net'[e] \in Nat \ {0} /\ e.text[1] = e.client
      BY <1>n, <2>1, <2>3
    <3>2. \A b \in Clients : cpc'[b] # "done" => i'[b] \in 1..Len(Lengths[b])
      BY <1>0, <2>1, <2>2, <2>4 DEF UcaseTypes
    <3> QED
      BY <1>0, <2>1, <2>4, <3>1, <3>2 DEF UcaseTypes
  <2>6. ASSUME NEW b \in Clients, b # c PROVE UcaseOne(b)'
    <3>1. \A e \in DOMAIN net' : e.client = b => e \in DOMAIN net /\ net'[e] = net[e]
      BY <2>1, <2>3, <2>6, Added
    <3> QED
      BY <1>0, <1>s, <2>1, <2>4, <2>6, <3>1, OneKept
  <2>7. ASSUME c \notin duplicated PROVE UcaseOne(c)'
    <3>1. (\A e \in DOMAIN net : e.client # c) /\ ~Serving(c)
      BY <1>0, <2>1, <2>7 DEF UcaseOne, Pending
    <3>2. \A e \in DOMAIN net' : e.client = c => e = d
      BY <2>1, <3>1, Added
    <3>3. net'[d] = 1
      BY <2>1, <2>3, <3>1, Added
    <3>4. Pending(d)'
      BY <2>1, <2>3, <2>4, <2>d, <3>3 DEF Pending
    <3> QED
      BY <2>1, <3>1, <3>2, <3>4, <1>s DEF UcaseOne
  <2>8. \A b \in Clients : UcaseOne(b)'
    BY <2>1, <2>6, <2>7 DEF UcaseOne
  <2>9. \A b \in Clients : UcaseAnswered(b)'
    BY <1>0, <2>1, AnsweredKept
  <2> QED
    BY <1>s, <2>1, <2>5, <2>8, <2>9 DEF UcaseInv
<1>4. ASSUME NEW c \in Clients, NEW d \in DOMAIN net, Ucase!Recvfrom(c, d) PROVE UcaseInv'
  <2>c. PICK got : got = Cut(d)
    OBVIOUS
  <2>1. /\ cpc[c] = "recv" /\ d.kind = "answer" /\ d.client = c /\ Ucase!Take(d)
        /\ answers' = [answers EXCEPT ![c] = Append(answers[c], got)]
        /\ i' = [i EXCEPT ![c] = i[c] + 1]
        /\ cpc' = [cpc EXCEPT ![c] = IF i[c] = Len(Lengths[c]) THEN "done" ELSE "send"]
        /\ UNCHANGED <<spc, caddr, buf, lost, duplicated, faults>>
    BY <1>4, <2>c DEF Ucase!Recvfrom, Cut
  <2>2. i[c] \in 1..Len(Lengths[c]) /\ i[c] \in Nat /\ Len(Lengths[c]) \in Nat
        /\ Lengths[c][i[c]] \in Nat
    BY <1>0, <2>1, UcaseConstants DEF UcaseTypes
  <2>3. got \in Ucase!Datagrams /\ got.text[1] = c
    BY <1>0, <2>1, <2>c, Altered
  <2>4. c \notin duplicated => got = Ucase!Expected(c, i[c])
    <3> SUFFICES ASSUME c \notin duplicated PROVE got = Ucase!Expected(c, i[c])
      OBVIOUS
    <3> DEFINE m == Lengths[c][i[c]]
    <3>1. Pending(d)
      BY <1>0, <2>1 DEF UcaseOne
    <3>2. Ucase!Datagram("request", c, i[c], m).kind = "request"
      BY DEF Ucase!Datagram
    <3>3. d = Ucase!Datagram("answer", c, i[c], Ucase!Received(m))
      BY <2>1, <3>1, <3>2 DEF Pending, Ucase!Expected
    <3> HIDE DEF m
    <3>4. /\ m \in Nat /\ Ucase!Received(m) \in Nat
          /\ Ucase!Received(Ucase!Received(m)) = Ucase!Received(m)
      BY <2>2, ReceivedSizes DEF m
    <3>5. got = Ucase!Datagram("answer", c, i[c], Ucase!Received(m))
      BY <2>c, <3>3, <3>4, MadeCut
    <3> QED
      BY <3>5 DEF m, Ucase!Expected
  <2>5. /\ cpc' \in [Clients -> {"send", "recv", "done"}] /\ i' \in [Clients -> Nat]
        /\ i'[c] = i[c] + 1 /\ cpc'[c] # "recv"
        /\ cpc'[c] # "done" => i[c] # Len(Lengths[c])
        /\ \A b \in Clients : b # c => UNCHANGED <<cpc[b], i[b]>>
    BY <1>0, <2>1, <2>2 DEF UcaseTypes
  <2>6. UcaseTypes'
    <3>1. /\ DOMAIN net' \subseteq Ucase!Datagrams
          /\ \A e \in DOMAIN net' : net'[e] \in Nat \ {0} /\ e.text[1] = e.client
      BY <1>o, <2>1
    <3>2. /\ i'[c] \in 1..Len(Lengths[c]) + 1
          /\ cpc'[c] # "done" => i'[c] \in 1..Len(Lengths[c])
      BY <2>2, <2>5
    <3>3. DOMAIN answers' = Clients
      BY <1>0, <2>1 DEF UcaseTypes
    <3> QED
      BY <1>0, <2>1, <2>5, <3>1, <3>2, <3>3 DEF UcaseTypes
  <2>7. ASSUME NEW b \in Clients, b # c PROVE UcaseOne(b)'
    BY <1>0, <1>s, <1>t, <2>1, <2>5, <2>7, OneKept
  <2>8. ASSUME c \notin duplicated PROVE UcaseOne(c)'
    <3>1. ~Serving(c)
      BY <1>0, <2>1, <2>8 DEF UcaseOne
    <3> QED
      BY <1>k, <1>s, <2>1, <2>8, <3>1 DEF UcaseOne
  <2>9. \A b \in Clients : UcaseOne(b)'
    BY <2>1, <2>7, <2>8 DEF UcaseOne
  <2>10. UcaseAnswered(c)'
    <3>1. /\ answers[c] \in Seq(Ucase!Datagrams) /\ Len(answers[c]) = i[c] - 1
          /\ answers'[c] = Append(answers[c], got)
      BY <1>0, <2>1 DEF UcaseAnswered, UcaseTypes
    <3>2. /\ answers'[c] \in Seq(Ucase!Datagrams) /\ Len(answers'[c]) = i[c]
          /\ \A k \in 1..Len(answers[c]) : answers'[c][k] = answers[c][k]
          /\ answers'[c][i[c]] = got
          /\ \A k \in 1..i[c] : k \in 1..Len(answers[c]) \/ k = i[c]
      BY <2>2, <2>3, <3>1
    <3> QED
      BY <1>0, <2>1, <2>2, <2>3, <2>4, <2>5, <3>2 DEF UcaseAnswered
  <2>11. ASSUME NEW b \in Clients, b # c PROVE UcaseAnswered(b)'
    <3>1. answers'[b] = answers[b]
      BY <1>0, <2>1, <2>11 DEF UcaseTypes
    <3> QED
      BY <1>0, <2>1, <2>5, <2>11, <3>1, AnsweredKept
  <2> QED
    BY <1>s, <2>1, <2>6, <2>9, <2>10, <2>11 DEF UcaseInv
<1>5. ASSUME NEW d \in DOMAIN net, Ucase!ServerRecvfrom(d) PROVE UcaseInv'
  <2> DEFINE c == d.client
             m == Lengths[c][i[c]]
  <2>1. /\ spc = "recv" /\ d.kind = "request" /\ Ucase!Take(d) /\ caddr' = c
        /\ buf' = Cut(d) /\ spc' = "send"
        /\ UNCHANGED <<cpc, i, answers, lost, duplicated, faults>>
    BY <1>5 DEF Ucase!ServerRecvfrom, Cut
  <2>2. c \in Clients /\ d \in Ucase!Datagrams /\ d.text[1] = c
    BY <1>0
  <2>3. UcaseTypes'
    BY <1>0, <1>o, <2>1, <2>2 DEF UcaseTypes
  <2>4. UcaseServed'
    BY <2>1, <2>2, Altered DEF UcaseServed
  <2>5. ASSUME NEW b \in Clients, b # c PROVE UcaseOne(b)'
    <3>1. ~Serving(b)'
      BY <2>1, <2>5 DEF Serving
    <3> QED
      BY <1>0, <1>t, <2>1, <2>5, <3>1, OneKept
  <2>6. ASSUME c \notin duplicated PROVE UcaseOne(c)'
    <3>1. Pending(d)
      BY <1>0, <2>2, <2>6 DEF UcaseOne
    <3>2. cpc[c] = "recv" /\ d = Ucase!Datagram("request", c, i[c], m)
      <4>1. Ucase!Expected(c, i[c]).kind = "answer"
        BY DEF Ucase!Expected, Ucase!Datagram
      <4> QED
        BY <2>1, <3>1, <4>1 DEF Pending
    <3>3. i[c] \in Nat /\ m \in Nat
      BY <1>0, <2>2, <3>2, UcaseConstants DEF UcaseTypes
    <3> HIDE DEF m, c
    <3>4. buf' = Ucase!Datagram("request", c, i[c], Ucase!Received(m))
      BY <2>1, <3>2, MadeCut
    <3>5. \A e \in DOMAIN net' : e.client # c
      BY <1>k, <2>1, <2>6 DEF c
    <3> QED
      BY <2>1, <2>2, <3>2, <3>4, <3>5 DEF UcaseOne, m
  <2>7. \A b \in Clients : UcaseOne(b)'
    BY <2>1, <2>2, <2>5, <2>6 DEF UcaseOne
  <2>8. \A b \in Clients : UcaseAnswered(b)'
    BY <1>0, <2>1, AnsweredKept
  <2> QED
    BY <2>3, <2>4, <2>7, <2>8 DEF UcaseInv
<1>6. CASE Ucase!ServerSendto
  <2>c. PICK c, a : c = caddr /\ a = Answer(buf, caddr)
    OBVIOUS
  <2>1. /\ spc = "send" /\ Ucase!Put(a) /\ spc' = "recv"
        /\ UNCHANGED <<cpc, i, answers, caddr, buf, lost, duplicated, faults>>
    BY <1>6, <2>c DEF Ucase!ServerSendto, Answer
  <2>2. c = caddr /\ c \in Clients /\ buf \in Ucase!Datagrams /\ buf.text[1] = c
    BY <1>0, <2>c, <2>1 DEF UcaseServed
  <2>3. a \in Ucase!Datagrams /\ a.client = c /\ a.text[1] = c
    BY <2>c, <2>2, Altered
  <2>4. c \notin duplicated =>
            cpc[c] = "recv" /\ a = Ucase!Expected(c, i[c])
    <3> SUFFICES ASSUME c \notin duplicated
                 PROVE  cpc[c] = "recv" /\ a = Ucase!Expected(c, i[c])
      OBVIOUS
    <3> DEFINE m == Ucase!Received(Lengths[c][i[c]])
    <3>1. cpc[c] = "recv" /\ buf = Ucase!Datagram("request", c, i[c], m)
      BY <1>0, <2>1, <2>2 DEF UcaseOne, Serving
    <3>2. i[c] \in Nat /\ m \in Nat
      <4>1. i[c] \in Nat /\ Lengths[c][i[c]] \in Nat
        BY <1>0, <2>2, <3>1, UcaseConstants DEF UcaseTypes
      <4> QED
        BY <4>1, ReceivedSizes
    <3> HIDE DEF m
    <3>3. a = Ucase!Datagram("answer", c, i[c], m)
      BY <2>c, <3>1, MadeAnswer
    <3> QED
      BY <3>1, <3>3 DEF Ucase!Expected, m
  <2>5. UcaseTypes'
    BY <1>0, <1>n, <2>1, <2>3 DEF UcaseTypes
  <2>6. \A b \in Clients : ~Serving(b)'
    BY <2>1 DEF Serving
  <2>7. ASSUME NEW b \in Clients, b # c PROVE UcaseOne(b)'
    <3>1. \A e \in DOMAIN net' : e.client = b => e \in DOMAIN net /\ net'[e] = net[e]
      BY <2>1, <2>3, <2>7, Added
    <3> QED
      BY <1>0, <2>1, <2>6, <2>7, <3>1, OneKept
  <2>8. ASSUME c \notin duplicated PROVE UcaseOne(c)'
    <3>1. \A e \in DOMAIN net : e.client # c
      BY <1>0, <2>1, <2>2, <2>8 DEF UcaseOne, Serving
    <3>2. \A e \in DOMAIN net' : e.client = c => e = a
      BY <2>1, <3>1, Added
    <3>3. net'[a] = 1
      BY <2>1, <2>3, <3>1, Added
    <3>4. Pending(a)'
      BY <2>1, <2>3, <2>4, <2>8, <3>3 DEF Pending
    <3> QED
      BY <2>2, <2>6, <3>2, <3>4 DEF UcaseOne
  <2>9. \A b \in Clients : UcaseOne(b)'
    BY <2>1, <2>7, <2>8 DEF UcaseOne
  <2>10. \A b \in Clients : UcaseAnswered(b)'
    BY <1>0, <2>1, AnsweredKept
  <2> QED
    BY <2>1, <2>5, <2>9, <2>10 DEF UcaseInv, UcaseServed
<1>7. CASE Ucase!ServerDies
  <2>1. /\ spc' = "dead" /\ faults < MaxFaults /\ faults' = faults + 1
        /\ UNCHANGED <<net, cpc, i, answers, caddr, buf, lost, duplicated>>
    BY <1>7 DEF Ucase!ServerDies
  <2>2. UcaseTypes' /\ UcaseServed'
    BY <1>0, <2>1, UcaseConstants DEF UcaseTypes, UcaseServed
  <2>3. \A b \in Clients : ~Serving(b)'
    BY <2>1 DEF Serving
  <2>4. ASSUME NEW b \in Clients PROVE UcaseOne(b)' /\ UcaseAnswered(b)'
    BY <1>0, <2>1, <2>3, OneKept, AnsweredKept
  <2> QED
    BY <2>2, <2>4 DEF UcaseInv
<1> QED
  BY <1>1, <1>2, <1>3, <1>4, <1>5, <1>6, <1>7
  DEF Ucase!Next, Ucase!ClientStep, Ucase!ServerStep, Ucase!BagToSet

LEMMA UcaseStands == UcaseInv /\ UNCHANGED ucaseVars => UcaseInv'
<1> SUFFICES ASSUME UcaseInv, UNCHANGED ucaseVars PROVE UcaseInv'
  OBVIOUS
<1>1. UNCHANGED <<net, cpc, i, answers, spc, caddr, buf, lost, duplicated, faults>>
  BY DEF ucaseVars
<1>2. UcaseTypes' /\ UcaseServed'
  BY <1>1 DEF UcaseInv, UcaseTypes, UcaseServed
<1>3. \A c \in Clients : UcaseOne(c)' /\ UcaseAnswered(c)'
  BY <1>1, OneKept, AnsweredKept DEF UcaseInv, Serving
<1> QED
  BY <1>2, <1>3 DEF UcaseInv

LEMMA UcaseRight == UcaseInv => Ucase!TypeOK /\ Ucase!AnswersMatch
<1> SUFFICES ASSUME UcaseInv PROVE Ucase!TypeOK /\ Ucase!AnswersMatch
  OBVIOUS
<1>1. UcaseTypes /\ \A c \in Clients : UcaseAnswered(c)
  BY DEF UcaseInv
<1>2. Ucase!TypeOK
  BY <1>1 DEF UcaseTypes, UcaseAnswered, Ucase!TypeOK, Ucase!BagToSet
<1>3. Ucase!AnswersMatch
  <2> SUFFICES ASSUME NEW c \in Clients, NEW k \in DOMAIN answers[c]
               PROVE  /\ answers[c][k].text[1] = c
                      /\ c \notin duplicated => answers[c][k] = Ucase!Expected(c, k)
    BY DEF Ucase!AnswersMatch
  <2>1. k \in 1..Len(answers[c])
    BY <1>1 DEF UcaseAnswered
  <2> QED
    BY <1>1, <2>1 DEF UcaseAnswered
<1> QED
  BY <1>2, <1>3

-------------------------------------------------------------------------------
(* Chapters 46 and 52: a program puts one message, or takes one.  What is  *)
(* in the queue is there in the order in which it was put; a message that  *)
(* was taken was put before all of its type that are still in the queue.   *)
Before(q, m, k) == \E a, b \in 1..Len(q) : a < b /\ q[a] = m /\ q[b] = k

QueueTypes ==
    /\ posix \in BOOLEAN /\ created \in BOOLEAN
    /\ toolPc \in [Queue!Tools -> {"start", "waiting", "spinning", "usage", "failed", "done"}]
    /\ \A s \in Senders : args[s] \in Sendings
    /\ \A r \in Receivers : args[r] \in Receivings
    /\ queue \in Seq(Queue!Messages) /\ sent \in Seq(Queue!Messages)
    /\ taken \in Seq([by : Receivers, msg : Queue!Messages, got : Nat])
    /\ Len(queue) <= Capacity /\ Len(sent) = Len(queue) + Len(taken)

SentOnce ==
    /\ \A a \in 1..Len(sent) : toolPc[sent[a].from] = "done"
    /\ \A a, b \in 1..Len(sent) : sent[a].from = sent[b].from => a = b
    /\ \A x \in 1..Len(queue) : \E a \in 1..Len(sent) : queue[x] = sent[a]
    /\ \A x \in 1..Len(taken) : \E a \in 1..Len(sent) : taken[x].msg = sent[a]
    /\ \A s \in Senders : toolPc[s] = "done" =>
           \/ \E x \in 1..Len(queue) : queue[x].from = s
           \/ \E x \in 1..Len(taken) : taken[x].msg.from = s

InOrder ==
    /\ \A x, y \in 1..Len(queue) : x < y => Before(sent, queue[x], queue[y])
    /\ \A x \in 1..Len(taken), y \in 1..Len(queue) :
           /\ taken[x].msg.from # queue[y].from
           /\ taken[x].msg.type = queue[y].type => Before(sent, taken[x].msg, queue[y])
    /\ \A x, y \in 1..Len(taken) : x < y =>
           /\ taken[x].msg.from # taken[y].msg.from
           /\ taken[x].msg.type = taken[y].msg.type =>
                  Before(sent, taken[x].msg, taken[y].msg)

Whole ==
    \A x \in 1..Len(taken) :
        taken[x].got < taken[x].msg.len => args[taken[x].by].noerror

QueueInv == QueueTypes /\ SentOnce /\ InOrder /\ Whole

LEMMA QueueConstants ==
    /\ Creators \cap Senders = {} /\ Creators \cap Receivers = {} /\ Senders \cap Receivers = {}
    /\ Capacity \in Nat \ {0}
    /\ Sendings \subseteq [type : Int, len : Nat, nowait : BOOLEAN]
    /\ Receivings \subseteq [type : Int, max : Nat, noerror : BOOLEAN, nowait : BOOLEAN]
BY ObjectsAssumption DEF ObjectsAssumption, Queue!QueueAssumption

(* Sequences: what Append() adds, and RemoveAt() takes out.                *)
LEMMA AppendAt ==
    ASSUME NEW S, NEW q \in Seq(S), NEW m \in S
    PROVE  /\ Append(q, m) \in Seq(S) /\ Len(Append(q, m)) = Len(q) + 1
           /\ \A x \in 1..Len(q) : Append(q, m)[x] = q[x]
           /\ Append(q, m)[Len(q) + 1] = m
           /\ \A x \in 1..Len(Append(q, m)) : x \in 1..Len(q) \/ x = Len(q) + 1
           /\ Len(q) \in Nat
OBVIOUS

LEMMA RemovedAt ==
    ASSUME NEW S, NEW q \in Seq(S), NEW k \in 1..Len(q), NEW r, r = Queue!RemoveAt(q, k)
    PROVE  /\ r \in Seq(S) /\ Len(r) = Len(q) - 1
           /\ \A x \in 1..Len(r) : (x < k => r[x] = q[x]) /\ (x >= k => r[x] = q[x + 1])
<1> DEFINE a == SubSeq(q, 1, k - 1)
           b == SubSeq(q, k + 1, Len(q))
<1>1. /\ a \in Seq(S) /\ Len(a) = k - 1 /\ \A x \in 1..k - 1 : a[x] = q[x]
  OBVIOUS
<1>2. /\ b \in Seq(S) /\ Len(b) = Len(q) - k /\ \A x \in 1..Len(q) - k : b[x] = q[x + k]
  OBVIOUS
<1> HIDE DEF a, b
<1>3. r = a \o b
  BY DEF a, b, Queue!RemoveAt
<1>4. Len(q) \in Nat /\ k \in Nat
  OBVIOUS
<1>5. /\ r \in Seq(S) /\ Len(r) = Len(a) + Len(b)
      /\ \A x \in 1..Len(a) + Len(b) : r[x] = IF x <= Len(a) THEN a[x] ELSE b[x - Len(a)]
  BY <1>1, <1>2, <1>3
<1>6. ASSUME NEW x \in 1..Len(q) - 1
      PROVE  (x < k => r[x] = q[x]) /\ (x >= k => r[x] = q[x + 1])
  <2>1. ASSUME x < k PROVE r[x] = q[x]
    <3>1. x \in 1..k - 1 /\ x \in 1..Len(a) + Len(b) /\ x <= Len(a)
      BY <1>1, <1>2, <1>4, <2>1
    <3> QED
      BY <1>1, <1>5, <3>1
  <2>2. ASSUME x >= k PROVE r[x] = q[x + 1]
    <3>1. x - (k - 1) \in 1..Len(q) - k /\ (x - (k - 1)) + k = x + 1
      BY <1>4, <2>2
    <3>2. r[x] = b[x - (k - 1)]
      <4>1. /\ x \in 1..Len(a) + Len(b) /\ ~(x <= Len(a)) /\ Len(a) = k - 1
        BY <1>1, <1>2, <1>4, <2>2
      <4> QED
        BY <1>5, <4>1
    <3> QED
      BY <1>2, <3>1, <3>2
  <2> QED
    BY <2>1, <2>2
<1> QED
  BY <1>1, <1>2, <1>4, <1>5, <1>6

LEMMA BeforeGrows ==
    ASSUME NEW S, NEW q \in Seq(S), NEW m \in S
    PROVE  /\ \A x, y : Before(q, x, y) => Before(Append(q, m), x, y)
           /\ \A a \in 1..Len(q) : Before(Append(q, m), q[a], m)
<1>1. /\ Len(Append(q, m)) = Len(q) + 1 /\ Len(q) \in Nat
      /\ \A x \in 1..Len(q) : Append(q, m)[x] = q[x]
      /\ Append(q, m)[Len(q) + 1] = m
  BY AppendAt
<1>2. \A x \in 1..Len(q) : x \in 1..Len(q) + 1 /\ x < Len(q) + 1
  BY <1>1
<1>3. Len(q) + 1 \in 1..Len(q) + 1
  BY <1>1
<1> HIDE DEF Before
<1>4. ASSUME NEW x, NEW y, Before(q, x, y) PROVE Before(Append(q, m), x, y)
  BY <1>1, <1>2, <1>4 DEF Before
<1>5. ASSUME NEW a \in 1..Len(q) PROVE Before(Append(q, m), q[a], m)
  BY <1>1, <1>2, <1>3 DEF Before
<1> QED
  BY <1>4, <1>5

LEMMA QueueInit == Queue!Init => QueueInv
<1> SUFFICES ASSUME Queue!Init PROVE QueueInv
  OBVIOUS
<1>1. /\ posix \in BOOLEAN /\ created = FALSE /\ queue = <<>> /\ sent = <<>> /\ taken = <<>>
      /\ toolPc = [p \in Queue!Tools |-> "start"]
  BY DEF Queue!Init
<1>2. PICK c \in [Creators -> Creatings], s \in [Senders -> Sendings],
           r \in [Receivers -> Receivings] :
          args = [p \in Queue!Tools |-> IF p \in Creators THEN c[p]
                                        ELSE IF p \in Senders THEN s[p] ELSE r[p]]
  BY DEF Queue!Init
<1>3. /\ \A p \in Senders : args[p] \in Sendings
      /\ \A p \in Receivers : args[p] \in Receivings
  BY <1>2, QueueConstants DEF Queue!Tools
<1>4. \A p \in Senders : p \in Queue!Tools
  BY DEF Queue!Tools
<1>5. QueueTypes
  <2>1. /\ <<>> \in Seq(Queue!Messages) /\ Len(<<>>) = 0
        /\ <<>> \in Seq([by : Receivers, msg : Queue!Messages, got : Nat])
    OBVIOUS
  <2>2. toolPc \in [Queue!Tools ->
                       {"start", "waiting", "spinning", "usage", "failed", "done"}]
    BY <1>1
  <2>3. Len(queue) <= Capacity /\ Len(sent) = Len(queue) + Len(taken)
    BY <1>1, <2>1, QueueConstants
  <2>4. /\ queue \in Seq(Queue!Messages) /\ sent \in Seq(Queue!Messages)
        /\ taken \in Seq([by : Receivers, msg : Queue!Messages, got : Nat])
    BY <1>1, <2>1, Zenon
  <2> QED
    BY <1>1, <1>3, <2>2, <2>3, <2>4 DEF QueueTypes
<1> QED
  BY <1>1, <1>4, <1>5 DEF QueueInv, SentOnce, InOrder, Whole

(* A step that leaves the messages alone, and does not end a sender well.  *)
LEMMA QueueQuiet ==
    ASSUME QueueInv, NEW p \in Queue!Tools, NEW how \in {"waiting", "spinning", "usage", "failed", "done"},
           toolPc[p] \in {"start", "waiting"}, Queue!Ends(p, how),
           p \in Senders => how # "done",
           UNCHANGED <<posix, queue, args, sent, taken>>, created' \in BOOLEAN
    PROVE  QueueInv'
<1>1. /\ QueueTypes /\ SentOnce /\ InOrder /\ Whole /\ toolPc' = [toolPc EXCEPT ![p] = how]
  BY DEF QueueInv, Queue!Ends
<1>2. QueueTypes'
  BY <1>1 DEF QueueTypes
<1>3. /\ \A s \in Senders : s \in Queue!Tools
      /\ toolPc \in [Queue!Tools -> {"start", "waiting", "spinning", "usage", "failed", "done"}]
  BY <1>1 DEF QueueTypes, Queue!Tools
<1>4. /\ \A s \in Senders : toolPc'[s] = "done" => toolPc[s] = "done"
      /\ \A s \in Queue!Tools : toolPc[s] = "done" => toolPc'[s] = "done"
  BY <1>1, <1>3
<1>5. \A a \in 1..Len(sent) : sent[a].from \in Queue!Tools
  <2>1. \A a \in 1..Len(sent) : sent[a] \in Queue!Messages
    BY <1>1 DEF QueueTypes
  <2> QED
    BY <1>3, <2>1 DEF Queue!Messages
<1>6. SentOnce'
  BY <1>1, <1>4, <1>5 DEF SentOnce
<1>7. InOrder' /\ Whole'
  BY <1>1 DEF InOrder, Whole
<1> QED
  BY <1>2, <1>6, <1>7 DEF QueueInv

(* The first of the messages a receiver may take is the first of its type. *)
LEMMA FirstOfType ==
    ASSUME QueueTypes, NEW r \in Receivers, NEW x \in Queue!Selected(r)
    PROVE  x \in 1..Len(queue) /\ \A y \in 1..Len(queue) : y < x => queue[y].type # queue[x].type
<1>1. /\ DOMAIN queue = 1..Len(queue) /\ Len(queue) \in Nat
      /\ \A y \in 1..Len(queue) : queue[y].type \in Int
  <2>1. queue \in Seq(Queue!Messages)
    BY DEF QueueTypes
  <2>2. \A m \in Queue!Messages : m.type \in Int
    BY QueueConstants DEF Queue!Messages, Queue!Types
  <2> QED
    BY <2>1, <2>2
<1>2. args[r].type \in Int
  BY QueueConstants DEF QueueTypes
<1>3. x \in DOMAIN queue /\ \A y \in DOMAIN queue : y < x => y \notin
          {k \in DOMAIN queue :
              \/ posix /\ Queue!Highest(k)
              \/ ~posix /\ \/ args[r].type = 0
                           \/ args[r].type > 0 /\ queue[k].type = args[r].type
                           \/ args[r].type < 0 /\ Queue!Lowest(k)
                              /\ queue[k].type <= -args[r].type}
  BY <1>1 DEF Queue!Selected
<1>4. \/ posix /\ Queue!Highest(x)
      \/ ~posix /\ \/ args[r].type = 0
                   \/ args[r].type > 0 /\ queue[x].type = args[r].type
                   \/ args[r].type < 0 /\ Queue!Lowest(x)
                      /\ queue[x].type <= -args[r].type
  BY DEF Queue!Selected
<1>5. SUFFICES ASSUME NEW y \in 1..Len(queue), y < x, queue[y].type = queue[x].type
               PROVE  FALSE
  BY <1>1, <1>3
<1>6. /\ Queue!Highest(x) => Queue!Highest(y)
      /\ Queue!Lowest(x) => Queue!Lowest(y)
  BY <1>5 DEF Queue!Highest, Queue!Lowest
<1> QED
  BY <1>1, <1>3, <1>4, <1>5, <1>6

LEMMA SendStep ==
    ASSUME QueueInv, NEW s \in Senders, Queue!Send(s)
    PROVE  QueueInv'
<1> DEFINE m == Queue!Message(s)
<1>0. QueueTypes /\ SentOnce /\ InOrder /\ Whole
  BY DEF QueueInv
<1>1. /\ Len(queue) < Capacity /\ queue' = Append(queue, m) /\ sent' = Append(sent, m)
      /\ toolPc' = [toolPc EXCEPT ![s] = "done"]
      /\ UNCHANGED <<posix, created, args, taken>> /\ toolPc[s] # "done"
  BY DEF Queue!Send, Queue!Sends, Queue!Runs, Queue!Ends
<1>2. m \in Queue!Messages /\ m.from = s
  <2>1. args[s] \in Sendings /\ args[s].len \in Nat
    BY <1>0, QueueConstants DEF QueueTypes
  <2> QED
    BY <2>1 DEF Queue!Message, Queue!Messages, Queue!Types
<1> HIDE DEF m
<1>3. /\ queue \in Seq(Queue!Messages) /\ sent \in Seq(Queue!Messages)
      /\ taken \in Seq([by : Receivers, msg : Queue!Messages, got : Nat])
      /\ \A p \in Senders \cup Receivers : p \in Queue!Tools
  BY <1>0 DEF QueueTypes, Queue!Tools
<1>4. /\ queue' \in Seq(Queue!Messages) /\ Len(queue') = Len(queue) + 1 /\ Len(queue) \in Nat
      /\ \A x \in 1..Len(queue) : queue'[x] = queue[x]
      /\ queue'[Len(queue) + 1] = m
      /\ \A x \in 1..Len(queue') : x \in 1..Len(queue) \/ x = Len(queue) + 1
  BY <1>1, <1>2, <1>3, AppendAt
<1>5. /\ sent' \in Seq(Queue!Messages) /\ Len(sent') = Len(sent) + 1 /\ Len(sent) \in Nat
      /\ \A x \in 1..Len(sent) : sent'[x] = sent[x]
      /\ sent'[Len(sent) + 1] = m
      /\ \A x \in 1..Len(sent') : x \in 1..Len(sent) \/ x = Len(sent) + 1
  BY <1>1, <1>2, <1>3, AppendAt
<1>6. /\ \A x, y : Before(sent, x, y) => Before(sent', x, y)
      /\ \A a \in 1..Len(sent) : Before(sent', sent[a], m)
  BY <1>1, <1>2, <1>3, BeforeGrows
<1>7. /\ \A a \in 1..Len(sent) : sent[a] \in Queue!Messages /\ sent[a].from \in Senders
      /\ \A x \in 1..Len(queue) : queue[x].from # s
      /\ \A x \in 1..Len(taken) : taken[x].msg.from # s
      /\ \A a \in 1..Len(sent) : sent[a].from # s
  <2>1. \A a \in 1..Len(sent) : sent[a] \in Queue!Messages /\ sent[a].from \in Senders
    <3>1. \A k \in Queue!Messages : k.from \in Senders
      BY DEF Queue!Messages
    <3> QED
      BY <1>3, <3>1
  <2>2. \A a \in 1..Len(sent) : sent[a].from # s
    BY <1>0, <1>1 DEF SentOnce
  <2>3. /\ \A x \in 1..Len(queue) : \E a \in 1..Len(sent) : queue[x] = sent[a]
        /\ \A x \in 1..Len(taken) : \E a \in 1..Len(sent) : taken[x].msg = sent[a]
    BY <1>0 DEF SentOnce
  <2> QED
    BY <2>1, <2>2, <2>3
<1>8. /\ toolPc'[s] = "done" /\ \A p \in Senders : p # s => toolPc'[p] = toolPc[p]
      /\ toolPc' \in [Queue!Tools ->
                        {"start", "waiting", "spinning", "usage", "failed", "done"}]
  BY <1>0, <1>1, <1>3 DEF QueueTypes
<1>9. QueueTypes'
  <2>1. Len(queue') <= Capacity /\ Len(sent') = Len(queue') + Len(taken')
    <3>1. Len(taken) \in Nat /\ Capacity \in Nat /\ Len(sent) = Len(queue) + Len(taken)
      BY <1>0, <1>3, QueueConstants DEF QueueTypes
    <3> QED
      BY <1>1, <1>4, <1>5, <3>1
  <2> QED
    BY <1>0, <1>1, <1>4, <1>5, <1>8, <2>1 DEF QueueTypes
<1> HIDE DEF Before
<1>10. SentOnce'
  <2>1. \A a \in 1..Len(sent') : toolPc'[sent'[a].from] = "done"
    BY <1>0, <1>2, <1>5, <1>7, <1>8 DEF SentOnce
  <2>2. \A a, b \in 1..Len(sent') : sent'[a].from = sent'[b].from => a = b
    BY <1>0, <1>2, <1>5, <1>7 DEF SentOnce
  <2>3. \A a \in 1..Len(sent) : a \in 1..Len(sent') /\ sent'[a] = sent[a]
    BY <1>5
  <2>4. Len(sent) + 1 \in 1..Len(sent') /\ Len(queue) + 1 \in 1..Len(queue')
    BY <1>4, <1>5
  <2>5. \A x \in 1..Len(queue') : \E a \in 1..Len(sent') : queue'[x] = sent'[a]
    BY <1>0, <1>4, <1>5, <2>3, <2>4 DEF SentOnce
  <2>6. \A x \in 1..Len(taken) : \E a \in 1..Len(sent') : taken[x].msg = sent'[a]
    BY <1>0, <2>3 DEF SentOnce
  <2>7. \A x \in 1..Len(queue) : x \in 1..Len(queue') /\ queue'[x] = queue[x]
    BY <1>4
  <2>8. ASSUME NEW p \in Senders, toolPc'[p] = "done"
        PROVE  \/ \E x \in 1..Len(queue') : queue'[x].from = p
               \/ \E x \in 1..Len(taken) : taken[x].msg.from = p
    <3>1. CASE p = s
      BY <1>2, <1>4, <2>4, <3>1
    <3>2. CASE p # s
      BY <1>0, <1>8, <2>7, <2>8, <3>2 DEF SentOnce
    <3> QED
      BY <3>1, <3>2
  <2> QED
    BY <1>1, <2>1, <2>2, <2>5, <2>6, <2>8 DEF SentOnce
<1>11. InOrder'
  <2>1. ASSUME NEW x \in 1..Len(queue'), NEW y \in 1..Len(queue'), x < y
        PROVE  Before(sent', queue'[x], queue'[y])
    <3>1. x \in 1..Len(queue)
      BY <1>4, <2>1
    <3>2. CASE y \in 1..Len(queue)
      BY <1>0, <1>4, <1>6, <2>1, <3>1, <3>2 DEF InOrder
    <3>3. CASE y = Len(queue) + 1
      BY <1>0, <1>4, <1>6, <3>1, <3>3 DEF SentOnce
    <3> QED
      BY <1>4, <3>2, <3>3
  <2>2. ASSUME NEW x \in 1..Len(taken), NEW y \in 1..Len(queue')
        PROVE  /\ taken[x].msg.from # queue'[y].from
               /\ taken[x].msg.type = queue'[y].type => Before(sent', taken[x].msg, queue'[y])
    <3>1. CASE y \in 1..Len(queue)
      BY <1>0, <1>4, <1>6, <3>1 DEF InOrder
    <3>2. CASE y = Len(queue) + 1
      BY <1>0, <1>2, <1>4, <1>6, <1>7, <3>2 DEF SentOnce
    <3> QED
      BY <1>4, <3>1, <3>2
  <2>3. \A x, y \in 1..Len(taken) : x < y =>
            /\ taken[x].msg.from # taken[y].msg.from
            /\ taken[x].msg.type = taken[y].msg.type =>
                   Before(sent', taken[x].msg, taken[y].msg)
    BY <1>0, <1>6 DEF InOrder
  <2> QED
    BY <1>1, <2>1, <2>2, <2>3 DEF InOrder
<1>12. Whole'
  BY <1>0, <1>1 DEF Whole
<1> QED
  BY <1>9, <1>10, <1>11, <1>12 DEF QueueInv

LEMMA ReceiveStep ==
    ASSUME QueueInv, NEW r \in Receivers, Queue!Receive(r)
    PROVE  QueueInv'
<1>0. /\ QueueTypes /\ SentOnce /\ InOrder /\ Whole
      /\ r \in Queue!Tools /\ r \notin Senders /\ toolPc[r] \in {"start", "waiting"}
  BY QueueConstants
  DEF QueueInv, Queue!Tools, Queue!Receive, Queue!Receives, Queue!Runs
<1>1. PICK k \in Queue!Selected(r) :
          IF Queue!TooLong(r, k)
          THEN Queue!Ends(r, "failed") /\ UNCHANGED <<queue, taken>>
          ELSE /\ taken' = Append(taken, [by |-> r, msg |-> queue[k],
                      got |-> IF posix \/ queue[k].len <= args[r].max
                              THEN queue[k].len ELSE args[r].max])
               /\ queue' = Queue!RemoveAt(queue, k)
               /\ Queue!Ends(r, "done")
  BY DEF Queue!Receive
<1>2. UNCHANGED <<posix, created, args, sent>>
  BY DEF Queue!Receive
<1>3. CASE Queue!TooLong(r, k)
  BY <1>0, <1>1, <1>2, <1>3, QueueQuiet DEF QueueTypes
<1>4. CASE ~Queue!TooLong(r, k)
  <2>1. PICK m, n0 : /\ m = queue[k]
                     /\ n0 = IF posix \/ m.len <= args[r].max THEN m.len ELSE args[r].max
    OBVIOUS
  <2>2. PICK t : t = [by |-> r, msg |-> m, got |-> n0]
    OBVIOUS
  <2>3. /\ taken' = Append(taken, t) /\ queue' = Queue!RemoveAt(queue, k)
        /\ toolPc' = [toolPc EXCEPT ![r] = "done"]
    BY <1>1, <1>4, <2>1, <2>2 DEF Queue!Ends
  <2>4. /\ k \in 1..Len(queue)
        /\ \A y \in 1..Len(queue) : y < k => queue[y].type # m.type
    BY <1>0, <2>1, FirstOfType
  <2>5. /\ queue \in Seq(Queue!Messages) /\ sent \in Seq(Queue!Messages)
        /\ taken \in Seq([by : Receivers, msg : Queue!Messages, got : Nat])
        /\ args[r] \in Receivings
    BY <1>0 DEF QueueTypes
  <2>6. m \in Queue!Messages /\ m.len \in Nat /\ m.from \in Senders
    <3>1. m \in Queue!Messages
      BY <2>1, <2>4, <2>5
    <3> QED
      BY <3>1 DEF Queue!Messages
  <2>7. /\ t \in [by : Receivers, msg : Queue!Messages, got : Nat]
        /\ t.by = r /\ t.msg = m /\ t.got = n0
        /\ n0 < m.len => args[r].noerror
    <3>1. args[r].max \in Nat
      BY <2>5, QueueConstants
    <3>2. n0 \in Nat
      BY <2>1, <2>6, <3>1
    <3>3. n0 < m.len => args[r].noerror
      BY <1>4, <2>1, <2>6, <3>1 DEF Queue!TooLong
    <3> QED
      BY <2>2, <2>6, <3>2, <3>3
  <2>8. /\ taken' \in Seq([by : Receivers, msg : Queue!Messages, got : Nat])
        /\ Len(taken') = Len(taken) + 1 /\ Len(taken) \in Nat
        /\ \A x \in 1..Len(taken) : taken'[x] = taken[x]
        /\ taken'[Len(taken) + 1] = t
        /\ \A x \in 1..Len(taken') : x \in 1..Len(taken) \/ x = Len(taken) + 1
    BY <2>3, <2>5, <2>7, AppendAt
  <2>9. /\ queue' \in Seq(Queue!Messages) /\ Len(queue') = Len(queue) - 1
        /\ \A x \in 1..Len(queue') : (x < k => queue'[x] = queue[x])
                                     /\ (x >= k => queue'[x] = queue[x + 1])
    BY <2>3, <2>4, <2>5, RemovedAt
  <2>10. Len(queue) \in Nat /\ k \in Nat
    BY <2>4, <2>5
  <2>11. \A x \in 1..Len(queue') : \E y \in 1..Len(queue) :
             y # k /\ queue'[x] = queue[y] /\ ((y = x /\ x < k) \/ (y = x + 1 /\ x >= k))
    <3> TAKE x \in 1..Len(queue')
    <3>1. CASE x < k
      <4>1. x \in 1..Len(queue) /\ x # k /\ queue'[x] = queue[x]
        BY <2>9, <2>10, <3>1
      <4> QED
        BY <3>1, <4>1
    <3>2. CASE x >= k
      <4>1. x + 1 \in 1..Len(queue) /\ x + 1 # k /\ queue'[x] = queue[x + 1]
        BY <2>9, <2>10, <3>2
      <4> QED
        BY <3>2, <4>1
    <3> QED
      BY <2>9, <2>10, <3>1, <3>2
  <2>12. \A y \in 1..Len(queue) : y # k => \E x \in 1..Len(queue') : queue'[x] = queue[y]
    <3> SUFFICES ASSUME NEW y \in 1..Len(queue), y # k
                 PROVE  \E x \in 1..Len(queue') : queue'[x] = queue[y]
      OBVIOUS
    <3>1. CASE y < k
      BY <2>4, <2>9, <2>10, <3>1
    <3>2. CASE y > k
      <4>1. y - 1 \in 1..Len(queue') /\ y - 1 >= k /\ (y - 1) + 1 = y
        BY <2>4, <2>9, <2>10, <3>2
      <4> QED
        BY <2>9, <4>1
    <3> QED
      BY <2>10, <3>1, <3>2
  <2>13. /\ \A p \in Senders : toolPc'[p] = toolPc[p]
         /\ toolPc' \in [Queue!Tools ->
                           {"start", "waiting", "spinning", "usage", "failed", "done"}]
    BY <1>0, <2>3 DEF QueueTypes, Queue!Tools
  <2> HIDE DEF Before
  <2>14. QueueTypes'
    <3>1. Len(queue') <= Capacity /\ Len(sent) = Len(queue') + Len(taken')
      BY <1>0, <2>8, <2>9, <2>10, QueueConstants DEF QueueTypes
    <3> QED
      BY <1>0, <1>2, <2>8, <2>9, <2>13, <3>1 DEF QueueTypes
  <2>15. SentOnce'
    <3>1. \A a \in 1..Len(sent) : sent[a].from \in Senders
      <4>1. \A x \in Queue!Messages : x.from \in Senders
        BY DEF Queue!Messages
      <4> QED
        BY <2>5, <4>1
    <3>2. \A a \in 1..Len(sent) : toolPc'[sent[a].from] = "done"
      BY <1>0, <2>13, <3>1 DEF SentOnce
    <3>3. \A x \in 1..Len(queue') : \E a \in 1..Len(sent) : queue'[x] = sent[a]
      BY <1>0, <2>11 DEF SentOnce
    <3>4. ASSUME NEW x \in 1..Len(taken')
          PROVE  \E a \in 1..Len(sent) : taken'[x].msg = sent[a]
      <4>1. CASE x \in 1..Len(taken)
        <5>1. taken'[x] = taken[x]
          BY <2>8, <4>1
        <5>2. \E a \in 1..Len(sent) : taken[x].msg = sent[a]
          BY <1>0, <4>1 DEF SentOnce
        <5> QED
          BY <5>1, <5>2
      <4>2. CASE x = Len(taken) + 1
        <5>1. \E a \in 1..Len(sent) : m = sent[a]
          BY <1>0, <2>1, <2>4 DEF SentOnce
        <5> QED
          BY <2>7, <2>8, <4>2, <5>1
      <4> QED
        BY <2>8, <4>1, <4>2
    <3>5. ASSUME NEW p \in Senders, toolPc'[p] = "done"
          PROVE  \/ \E x \in 1..Len(queue') : queue'[x].from = p
                 \/ \E x \in 1..Len(taken') : taken'[x].msg.from = p
      <4>1. CASE m.from = p
        <5>1. Len(taken) + 1 \in 1..Len(taken')
          BY <2>8
        <5> QED
          BY <2>7, <2>8, <4>1, <5>1
      <4>2. CASE m.from # p
        <5>1. \/ \E x \in 1..Len(queue) : x # k /\ queue[x].from = p
              \/ \E x \in 1..Len(taken) : taken[x].msg.from = p
          BY <1>0, <2>1, <2>13, <3>5, <4>2 DEF SentOnce
        <5>2. \A x \in 1..Len(taken) : x \in 1..Len(taken') /\ taken'[x] = taken[x]
          BY <2>8
        <5> QED
          BY <2>12, <5>1, <5>2
      <4> QED
        BY <4>1, <4>2
    <3> QED
      BY <1>0, <1>2, <3>2, <3>3, <3>4, <3>5 DEF SentOnce
  <2>16. \A y \in 1..Len(queue) : y # k => queue[y].from # m.from
    <3>1. \A a, b \in 1..Len(sent) : a < b => sent[a].from # sent[b].from
      <4>1. Len(sent) \in Nat
        BY <2>5
      <4> QED
        BY <1>0, <4>1 DEF SentOnce
    <3>2. \A x, y : Before(sent, x, y) => x.from # y.from
      BY <3>1 DEF Before
    <3> QED
      BY <1>0, <2>1, <2>4, <2>10, <3>2 DEF InOrder
  <2>17. InOrder'
    <3>1. ASSUME NEW x \in 1..Len(queue'), NEW y \in 1..Len(queue'), x < y
          PROVE  Before(sent, queue'[x], queue'[y])
      <4>1. PICK a \in 1..Len(queue) :
                queue'[x] = queue[a] /\ ((a = x /\ x < k) \/ (a = x + 1 /\ x >= k))
        BY <2>11
      <4>2. PICK b \in 1..Len(queue) :
                queue'[y] = queue[b] /\ ((b = y /\ y < k) \/ (b = y + 1 /\ y >= k))
        BY <2>11
      <4>3. a < b
        BY <2>9, <2>10, <3>1, <4>1, <4>2
      <4> QED
        BY <1>0, <4>1, <4>2, <4>3 DEF InOrder
    <3>2. ASSUME NEW x \in 1..Len(taken'), NEW y \in 1..Len(queue')
          PROVE  /\ taken'[x].msg.from # queue'[y].from
                 /\ taken'[x].msg.type = queue'[y].type =>
                        Before(sent, taken'[x].msg, queue'[y])
      <4>1. PICK b \in 1..Len(queue) :
                b # k /\ queue'[y] = queue[b] /\ ((b = y /\ y < k) \/ (b = y + 1 /\ y >= k))
        BY <2>11
      <4>2. CASE x \in 1..Len(taken)
        <5>1. /\ taken[x].msg.from # queue[b].from
              /\ taken[x].msg.type = queue[b].type => Before(sent, taken[x].msg, queue[b])
          BY <1>0, <4>1, <4>2 DEF InOrder
        <5>2. taken'[x] = taken[x]
          BY <2>8, <4>2
        <5> QED
          BY <4>1, <5>1, <5>2
      <4>3. CASE x = Len(taken) + 1
        <5>1. taken'[x].msg = m /\ m = queue[k] /\ m.from # queue[b].from
          BY <2>1, <2>7, <2>8, <2>16, <4>1, <4>3
        <5>2. m.type = queue[b].type => k < b
          BY <2>4, <2>10, <4>1
        <5> QED
          BY <1>0, <2>4, <4>1, <5>1, <5>2 DEF InOrder
      <4> QED
        BY <2>8, <4>2, <4>3
    <3>3. ASSUME NEW x \in 1..Len(taken'), NEW y \in 1..Len(taken'), x < y
          PROVE  /\ taken'[x].msg.from # taken'[y].msg.from
                 /\ taken'[x].msg.type = taken'[y].msg.type =>
                        Before(sent, taken'[x].msg, taken'[y].msg)
      <4>1. x \in 1..Len(taken)
        BY <2>8, <3>3
      <4>2. CASE y \in 1..Len(taken)
        BY <1>0, <2>8, <3>3, <4>1, <4>2 DEF InOrder
      <4>3. CASE y = Len(taken) + 1
        <5>1. taken'[y].msg = queue[k] /\ taken'[x] = taken[x]
          BY <2>1, <2>7, <2>8, <4>1, <4>3
        <5> QED
          BY <1>0, <2>4, <4>1, <5>1 DEF InOrder
      <4> QED
        BY <2>8, <4>2, <4>3
    <3> QED
      BY <1>2, <3>1, <3>2, <3>3 DEF InOrder
  <2>18. Whole'
    <3>1. ASSUME NEW x \in 1..Len(taken')
          PROVE  taken'[x].got < taken'[x].msg.len => args[taken'[x].by].noerror
      <4>1. CASE x \in 1..Len(taken)
        BY <1>0, <2>8, <4>1 DEF Whole
      <4>2. CASE x = Len(taken) + 1
        BY <2>7, <2>8, <4>2
      <4> QED
        BY <2>8, <4>1, <4>2
    <3> QED
      BY <1>2, <3>1 DEF Whole
  <2> QED
    BY <2>14, <2>15, <2>17, <2>18 DEF QueueInv
<1> QED
  BY <1>3, <1>4

LEMMA QueueStep == QueueInv /\ Queue!Next => QueueInv'
<1> SUFFICES ASSUME QueueInv, Queue!Next PROVE QueueInv'
  OBVIOUS
<1>0. QueueTypes
  BY DEF QueueInv
<1>1. PICK p \in Queue!Tools : Queue!Step(p)
  BY DEF Queue!Next
<1>2. CASE Queue!Create(p)
  <2>1. /\ p \in Creators /\ p \notin Senders /\ toolPc[p] = "start"
        /\ UNCHANGED <<posix, queue, args, sent, taken>>
    BY <1>2, QueueConstants DEF Queue!Create
  <2>2. /\ created' \in BOOLEAN
        /\ \/ Queue!Ends(p, "usage") \/ Queue!Ends(p, "failed") \/ Queue!Ends(p, "done")
    BY <1>0, <1>2 DEF Queue!Create, Queue!SvCreates, Queue!PosixCreates, Queue!Opens, QueueTypes
  <2> QED
    BY <2>1, <2>2, QueueQuiet
<1>3. CASE Queue!Spins(p)
  <2>1. /\ toolPc[p] = "start" /\ UNCHANGED <<posix, created, queue, args, sent, taken>>
        /\ Queue!Ends(p, "spinning") \/ Queue!Ends(p, "usage")
    BY <1>3 DEF Queue!Spins
  <2> QED
    BY <1>0, <2>1, QueueQuiet DEF QueueTypes
<1>4. CASE Queue!Fails(p)
  <2>1. /\ toolPc[p] \in {"start", "waiting"}
        /\ UNCHANGED <<posix, created, queue, args, sent, taken>> /\ Queue!Ends(p, "failed")
    BY <1>4 DEF Queue!Fails, Queue!Runs
  <2> QED
    BY <1>0, <2>1, QueueQuiet DEF QueueTypes
<1>5. CASE Queue!SendFull(p) \/ Queue!ReceiveNone(p)
  <2>1. /\ toolPc[p] \in {"start", "waiting"}
        /\ UNCHANGED <<posix, created, queue, args, sent, taken>>
        /\ Queue!Ends(p, "failed") \/ Queue!Ends(p, "waiting")
    BY <1>5 DEF Queue!SendFull, Queue!ReceiveNone, Queue!Sends, Queue!Receives, Queue!Runs,
                Queue!WaitsOrFails
  <2> QED
    BY <1>0, <2>1, QueueQuiet DEF QueueTypes
<1>6. CASE Queue!Send(p)
  BY <1>6, SendStep DEF Queue!Send, Queue!Sends
<1>7. CASE Queue!Receive(p)
  BY <1>7, ReceiveStep DEF Queue!Receive, Queue!Receives
<1> QED
  BY <1>1, <1>2, <1>3, <1>4, <1>5, <1>6, <1>7 DEF Queue!Step

LEMMA QueueStands == QueueInv /\ UNCHANGED queueVars => QueueInv'
<1> SUFFICES ASSUME QueueInv, UNCHANGED queueVars PROVE QueueInv'
  OBVIOUS
<1>1. UNCHANGED <<posix, created, queue, toolPc, args, sent, taken>>
  BY DEF queueVars
<1>2. QueueTypes' /\ Whole'
  BY <1>1 DEF QueueInv, QueueTypes, Whole
<1>3. SentOnce' /\ InOrder'
  BY <1>1 DEF QueueInv, SentOnce, InOrder
<1> QED
  BY <1>2, <1>3 DEF QueueInv

(* What stands where in two sequences joined.                              *)
LEMMA Joined ==
    \A S, s, t : s \in Seq(S) /\ t \in Seq(S) =>
        /\ DOMAIN (s \o t) = 1..Len(s) + Len(t)
        /\ \A x \in 1..Len(s) + Len(t) :
               /\ x <= Len(s) => (s \o t)[x] = s[x]
               /\ x > Len(s) => (s \o t)[x] = t[x - Len(s)]
<1> TAKE S, s, t
<1> SUFFICES ASSUME s \in Seq(S), t \in Seq(S)
             PROVE  /\ DOMAIN (s \o t) = 1..Len(s) + Len(t)
                    /\ \A x \in 1..Len(s) + Len(t) :
                           /\ x <= Len(s) => (s \o t)[x] = s[x]
                           /\ x > Len(s) => (s \o t)[x] = t[x - Len(s)]
  OBVIOUS
<1>1. s \o t \in Seq(S) /\ Len(s \o t) = Len(s) + Len(t)
  OBVIOUS
<1>2. \A x \in 1..Len(s) + Len(t) :
          (s \o t)[x] = IF x <= Len(s) THEN s[x] ELSE t[x - Len(s)]
  OBVIOUS
<1>3. Len(s) \in Nat
  OBVIOUS
<1> QED
  BY <1>1, <1>2, <1>3

LEMMA QueueRight == QueueInv => Queue!TypeOK /\ Queue!MessagesIntact
<1> SUFFICES ASSUME QueueInv PROVE Queue!TypeOK /\ Queue!MessagesIntact
  OBVIOUS
<1>1. QueueTypes /\ SentOnce /\ InOrder /\ Whole
  BY DEF QueueInv
<1>2. Queue!TypeOK
  BY <1>1 DEF QueueTypes, Queue!TypeOK
<1> DEFINE old == [x \in DOMAIN taken |-> taken[x].msg]
           all == old \o queue
<1>3. /\ DOMAIN taken = 1..Len(taken) /\ DOMAIN sent = 1..Len(sent)
      /\ Len(taken) \in Nat /\ Len(queue) \in Nat /\ Len(sent) \in Nat
      /\ queue \in Seq(Queue!Messages)
  BY <1>1 DEF QueueTypes
<1>4. old \in Seq(Queue!Messages) /\ Len(old) = Len(taken)
      /\ \A x \in 1..Len(taken) : old[x] = taken[x].msg
  <2>1. ASSUME NEW x \in 1..Len(taken) PROVE taken[x].msg \in Queue!Messages
    <3>1. \A T : taken \in Seq(T) => taken[x] \in T
      OBVIOUS
    <3>2. taken \in Seq([by : Receivers, msg : Queue!Messages, got : Nat])
      BY <1>1 DEF QueueTypes
    <3>3. \A M : \A t \in [by : Receivers, msg : M, got : Nat] : t.msg \in M
      OBVIOUS
    <3> QED
      BY <3>1, <3>2, <3>3, Zenon
  <2>2. old = [x \in 1..Len(taken) |-> taken[x].msg]
    BY <1>3
  <2> QED
    BY <1>3, <2>1, <2>2
<1> HIDE DEF old
<1>5. /\ DOMAIN all = 1..Len(taken) + Len(queue)
      /\ \A x \in 1..Len(taken) + Len(queue) :
             /\ x <= Len(taken) => all[x] = old[x]
             /\ x > Len(taken) => all[x] = queue[x - Len(taken)]
  <2>1. Len(old) \in Nat /\ Len(queue) \in Nat
    BY <1>3, <1>4
  <2> QED
    BY <1>3, <1>4, <2>1, Joined
<1> HIDE DEF all
<1>6. \A x \in DOMAIN all : \/ x \in 1..Len(taken) /\ all[x] = taken[x].msg
                            \/ /\ x > Len(taken) /\ x - Len(taken) \in 1..Len(queue)
                               /\ all[x] = queue[x - Len(taken)]
  BY <1>3, <1>4, <1>5
<1>7. /\ \A x \in 1..Len(taken) : x \in DOMAIN all /\ all[x] = taken[x].msg
      /\ \A x \in 1..Len(queue) : x + Len(taken) \in DOMAIN all /\ all[x + Len(taken)] = queue[x]
  <2>1. ASSUME NEW x \in 1..Len(taken) PROVE x \in DOMAIN all /\ all[x] = taken[x].msg
    <3>1. x \in 1..Len(taken) + Len(queue) /\ x <= Len(taken)
      BY <1>3
    <3> QED
      BY <1>4, <1>5, <3>1
  <2>2. ASSUME NEW x \in 1..Len(queue)
        PROVE  x + Len(taken) \in DOMAIN all /\ all[x + Len(taken)] = queue[x]
    <3>1. /\ x + Len(taken) \in 1..Len(taken) + Len(queue)
          /\ x + Len(taken) > Len(taken) /\ (x + Len(taken)) - Len(taken) = x
      BY <1>3
    <3> QED
      BY <1>5, <3>1
  <2> QED
    BY <2>1, <2>2
<1>8. \A s \in Senders : toolPc[s] = "done" => \E x \in DOMAIN all : all[x].from = s
  <2> SUFFICES ASSUME NEW s \in Senders, toolPc[s] = "done"
               PROVE  \E x \in DOMAIN all : all[x].from = s
    OBVIOUS
  <2>1. CASE \E x \in 1..Len(queue) : queue[x].from = s
    BY <1>7, <2>1
  <2>2. CASE \E x \in 1..Len(taken) : taken[x].msg.from = s
    BY <1>7, <2>2
  <2> QED
    BY <1>1, <2>1, <2>2 DEF SentOnce
<1>9. \A x \in DOMAIN all : \E a \in DOMAIN sent : all[x] = sent[a]
  <2> TAKE x \in DOMAIN all
  <2>1. CASE x \in 1..Len(taken) /\ all[x] = taken[x].msg
    BY <1>1, <1>3, <2>1 DEF SentOnce
  <2>2. CASE x - Len(taken) \in 1..Len(queue) /\ all[x] = queue[x - Len(taken)]
    BY <1>1, <1>3, <2>2 DEF SentOnce
  <2> QED
    BY <1>6, <2>1, <2>2
<1>10. \A x, y : Before(sent, x, y) => x.from # y.from /\ Queue!SentBefore(x, y)
  <2>1. \A a, b \in 1..Len(sent) : a < b => sent[a].from # sent[b].from
    BY <1>1, <1>3 DEF SentOnce
  <2> QED
    BY <1>3, <2>1 DEF Before, Queue!SentBefore
<1> HIDE DEF Before
<1>11. ASSUME NEW x \in DOMAIN all, NEW y \in DOMAIN all, x < y
       PROVE  /\ all[x].from # all[y].from
              /\ all[x].type = all[y].type => Queue!SentBefore(all[x], all[y])
  <2>1. CASE y \in 1..Len(taken)
    <3>1. x \in 1..Len(taken)
      BY <1>3, <1>5, <1>11, <2>1
    <3>2. all[x] = taken[x].msg /\ all[y] = taken[y].msg
      BY <1>7, <2>1, <3>1
    <3> QED
      BY <1>1, <1>10, <1>11, <2>1, <3>1, <3>2 DEF InOrder
  <2>2. CASE x \in 1..Len(taken) /\ y - Len(taken) \in 1..Len(queue)
    <3>1. all[x] = taken[x].msg /\ all[y] = queue[y - Len(taken)]
      <4>1. (y - Len(taken)) + Len(taken) = y
        BY <1>3, <1>5
      <4> QED
        BY <1>7, <2>2, <4>1
    <3> QED
      BY <1>1, <1>10, <2>2, <3>1 DEF InOrder
  <2>3. CASE x > Len(taken)
    <3> DEFINE a == x - Len(taken)
               b == y - Len(taken)
    <3>1. /\ a \in 1..Len(queue) /\ b \in 1..Len(queue) /\ a < b
          /\ all[x] = queue[a] /\ all[y] = queue[b]
      <4>1. /\ a \in 1..Len(queue) /\ b \in 1..Len(queue) /\ a < b
            /\ a + Len(taken) = x /\ b + Len(taken) = y
        BY <1>3, <1>5, <1>11, <2>3
      <4> QED
        BY <1>7, <4>1
    <3> HIDE DEF a, b
    <3> QED
      BY <1>1, <1>10, <3>1 DEF InOrder
  <2> QED
    BY <1>3, <1>6, <1>11, <2>1, <2>2, <2>3
<1>12. Queue!MessagesIntact
  BY <1>1, <1>3, <1>8, <1>9, <1>11 DEF Whole, Queue!MessagesIntact, all, old
<1> QED
  BY <1>2, <1>12

-------------------------------------------------------------------------------
(* Each client prints the answers to its own messages, in their order,     *)
(* unless a datagram of its own was duplicated (i6d_ucase_cl.c:28-41), and *)
(* a message queue loses, doubles and cuts nothing but what -e cuts        *)
(* (svmsg_send.c:73, svmsg_receive.c:81, pmsg_receive.c:66), for any number*)
(* of clients, programs and messages and whatever the network does.        *)
THEOREM NothingIsMixedUp == FairSpec => []MessagesIntact
<1>1. Init => UcaseInv /\ QueueInv
  BY UcaseInit, QueueInit DEF Init
<1>2. UcaseInv /\ QueueInv /\ [Next]_vars => UcaseInv' /\ QueueInv'
  BY UcaseStep, UcaseStands, QueueStep, QueueStands
  DEF Next, ShmRuns, FileRuns, UcaseRuns, QueueRuns, vars
<1>3. UcaseInv /\ QueueInv => MessagesIntact
  BY UcaseRight, QueueRight DEF MessagesIntact
<1> QED
  BY <1>1, <1>2, <1>3, PTL DEF FairSpec

(* Every variable stays in its type; with the types go what they relate:   *)
(* no process copies or prints more of the shared memory than it mapped,   *)
(* no offset lies behind the end of the file, as many answers as messages  *)
(* have been printed, and no message of a queue is missing.                *)
THEOREM TypesKept == FairSpec => []TypeOK
<1> DEFINE Inv == /\ ShmInv /\ ShmSizes /\ File!TypeOK /\ File!MixedOnlyIfRaced
                  /\ UcaseInv /\ QueueInv
<1>1. File!SharedFileAssumption
  BY ObjectsAssumption DEF ObjectsAssumption
<1>2. Init => Inv
  BY <1>1, ShmInit, SizesInit, FileInit, UcaseInit, QueueInit DEF Init
<1>3. Inv /\ [Next]_vars => Inv'
  <2> SUFFICES ASSUME Inv, [Next]_vars PROVE Inv'
    OBVIOUS
  <2>1. ShmInv' /\ ShmSizes'
    BY ShmStep, ShmStands, SizesStep, SizesStand
    DEF Next, ShmRuns, FileRuns, UcaseRuns, QueueRuns, vars
  <2>2. [File!Next]_fileVars
    BY DEF Next, ShmRuns, FileRuns, UcaseRuns, QueueRuns, vars
  <2>3. UcaseInv' /\ QueueInv'
    BY UcaseStep, UcaseStands, QueueStep, QueueStands
    DEF Next, ShmRuns, FileRuns, UcaseRuns, QueueRuns, vars
  <2> QED
    BY <1>1, <2>1, <2>2, <2>3, FileStep
<1>4. Inv => TypeOK
  BY ShmTyped, UcaseRight, QueueRight DEF TypeOK
<1> QED
  BY <1>2, <1>3, <1>4, PTL DEF FairSpec
===============================================================================

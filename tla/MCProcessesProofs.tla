--------------------------- MODULE MCProcessesProofs ---------------------------
(***************************************************************************)
(* For every number of arguments of multi_wait: a process that says that   *)
(* it has no more children has outlived its descendants of all generations.*)
(* For every number of descriptors, addresses and calls: each program has  *)
(* the descriptors it should have and no others.  For every input, old file*)
(* and block size: copy, tee and cp_hole write what they should.  And every*)
(* variable of the seven programs stays in its type.                       *)
(***************************************************************************)
EXTENDS MCProcesses, FiniteSetTheorems, WellFoundedInduction, TLAPS

LEMMA Arguments == argc \in Nat
BY ProcessesAssumption DEF ProcessesAssumption, Waits!MultiWaitAssumption

(* m may be the value of j at which p forks.                               *)
Above(p, m) == m \in 0..argc - 1 /\ \A k \in p : k < m

LEMMA Smallest ==
    ASSUME NEW S, S \subseteq Nat, S # {}
    PROVE  \E m \in S : \A k \in S : m <= k
<1>1. PICK m \in S : \A k \in S : ~(<<k, m>> \in OpToRel(<, Nat))
  BY NatLessThanWellFounded, WFMin
<1>2. \A k \in S : k < m => <<k, m>> \in OpToRel(<, Nat)
  BY DEF OpToRel
<1>3. \A k \in S : ~(k < m)
  BY <1>1, <1>2, Zenon
<1>4. \A k, n \in Nat : ~(k < n) => n <= k
  OBVIOUS
<1> QED
  BY <1>3, <1>4, Zenon

(* The child forked at m is p and m, and a child of p.                     *)
LEMMA ChildOfParent ==
    ASSUME NEW p \in Waits!Procs, NEW m, Above(p, m)
    PROVE  /\ p \cup {m} \in Waits!Procs \ {{}} /\ m \notin p
           /\ Waits!Parent(p \cup {m}) = p
<1>1. m \in Int /\ p \subseteq Int /\ m \notin p /\ p \cup {m} \in Waits!Procs
  BY Arguments DEF Above, Waits!Procs
<1>2. Waits!Max(p \cup {m}) = m
  <2>1. m \in p \cup {m} /\ \A y \in p \cup {m} : m >= y
    BY <1>1 DEF Above
  <2>2. ASSUME NEW x \in p \cup {m}, \A y \in p \cup {m} : x >= y  PROVE  x = m
    BY <1>1, <2>2 DEF Above
  <2> QED
    BY <2>1, <2>2 DEF Waits!Max
<1> QED
  BY <1>1, <1>2 DEF Waits!Parent

(* Descendants of q among the children of p.                               *)
LEMMA Ancestors ==
    ASSUME NEW p \in Waits!Procs, NEW m, Above(p, m), NEW q \in Waits!Procs,
           p \cup {m} \in Waits!Descendants(q)
    PROVE  q = p \/ p \in Waits!Descendants(q)
<1>1. q \subseteq p \cup {m} /\ q # p \cup {m}
      /\ \A i \in (p \cup {m}) \ q, k \in q : k < i
  BY DEF Waits!Descendants
<1>2. m \in Int /\ p \subseteq Int /\ q \subseteq Int
  BY Arguments DEF Above, Waits!Procs
<1>3. m \notin q
  <2>1. SUFFICES ASSUME m \in q PROVE FALSE
    OBVIOUS
  <2>2. PICK i \in p : i \notin q
    BY <1>1, <2>1
  <2>3. m < i /\ i < m
    BY <1>1, <2>1, <2>2 DEF Above
  <2> QED
    BY <1>2, <2>3
<1> QED
  BY <1>1, <1>3 DEF Waits!Descendants

(* Every descendant of p descends from a child of p.                       *)
LEMMA FirstStep ==
    ASSUME NEW p \in Waits!Procs, NEW d \in Waits!Descendants(p)
    PROVE  \E m : Above(p, m) /\ (d = p \cup {m} \/ d \in Waits!Descendants(p \cup {m}))
<1>1. /\ d \in Waits!Procs /\ p \subseteq d /\ d # p
      /\ \A i \in d \ p, k \in p : k < i
  BY DEF Waits!Descendants
<1>2. d \subseteq Nat /\ d \subseteq 0..argc - 1
  BY <1>1, Arguments DEF Waits!Procs
<1>3. PICK m \in d \ p : \A k \in d \ p : m <= k
  BY <1>1, <1>2, Smallest
<1>4. Above(p, m)
  BY <1>1, <1>2 DEF Above
<1>5. CASE d # p \cup {m}
  <2>1. p \cup {m} \subseteq d
    BY <1>1
  <2>2. ASSUME NEW i \in d \ (p \cup {m}), NEW k \in p \cup {m}  PROVE  k < i
    <3>1. i \in Nat /\ m \in Nat /\ m <= i /\ i # m
      BY <1>2, <1>3
    <3>2. k \in p \/ k = m
      OBVIOUS
    <3> QED
      BY <1>1, <3>1, <3>2
  <2> QED
    BY <1>1, <1>4, <1>5, <2>1, <2>2 DEF Waits!Descendants
<1> QED
  BY <1>4, <1>5

LEMMA Generations ==
    ASSUME NEW p \in Waits!Procs, NEW m, Above(p, m)
    PROVE  /\ p \cup {m} \in Waits!Descendants(p)
           /\ \A d \in Waits!Descendants(p \cup {m}) : d \in Waits!Descendants(p)
<1>1. p \cup {m} \in Waits!Procs /\ m \notin p
  BY ChildOfParent
<1>2. p \cup {m} \in Waits!Descendants(p)
  BY <1>1 DEF Waits!Descendants, Above
<1>3. ASSUME NEW d \in Waits!Descendants(p \cup {m})  PROVE  d \in Waits!Descendants(p)
  <2>1. /\ d \in Waits!Procs /\ p \cup {m} \subseteq d
        /\ \A i \in d \ (p \cup {m}), k \in p \cup {m} : k < i
    BY DEF Waits!Descendants
  <2>2. ASSUME NEW i \in d \ p, NEW k \in p  PROVE  k < i
    BY <2>1 DEF Above
  <2> QED
    BY <1>1, <2>1, <2>2 DEF Waits!Descendants
<1> QED
  BY <1>2, <1>3

-------------------------------------------------------------------------------
(* j counts upwards: children are forked at increasing values of j, and    *)
(* nobody is forked before its parent.                                     *)
WaitTypes ==
    /\ waitPc \in [Waits!Procs -> {"none", "loop", "sleep", "bye", "error"}]
    /\ j \in [Waits!Procs -> 0..argc]
    /\ reaped \subseteq {p \in Waits!Procs : Waits!Ended(p)}

CountsUp ==
    \A p \in Waits!Procs :
        /\ waitPc[p] = "loop" => \A k \in p : k < j[p]
        /\ waitPc[p] = "sleep" => j[p] < argc /\ \A k \in p : k <= j[p]

Lineage ==
    \A p \in Waits!Procs : \A d \in Waits!Descendants(p) :
        Waits!Forked(d) => Waits!Forked(p)

Fresh ==
    \A p \in Waits!Procs : \A m :
        Above(p, m) /\ Waits!Forked(p \cup {m}) => m < j[p]

FamilyInv == WaitTypes /\ CountsUp /\ Lineage /\ Fresh

WaitInv == FamilyInv /\ ByeMeansAlone

(* Steps that fork nobody.                                                 *)
LEMMA SameFamily ==
    ASSUME Lineage, Fresh, WaitTypes,
           \A q \in Waits!Procs : /\ Waits!Forked(q)' <=> Waits!Forked(q)
                                  /\ j'[q] \in 0..argc /\ j[q] <= j'[q]
    PROVE  Lineage' /\ Fresh'
<1>1. Lineage'
  BY DEF Lineage, Waits!Descendants
<1>2. Fresh'
  <2> SUFFICES ASSUME NEW p \in Waits!Procs, NEW m, Above(p, m), Waits!Forked(p \cup {m})'
               PROVE  m < j'[p]
    BY DEF Fresh, Above
  <2>1. p \cup {m} \in Waits!Procs
    BY ChildOfParent
  <2>2. m < j[p] /\ j[p] <= j'[p]
    BY <2>1 DEF Fresh
  <2>3. m \in Int /\ j[p] \in Int /\ j'[p] \in Int
    BY Arguments DEF WaitTypes, Above
  <2> QED
    BY <2>2, <2>3
<1> QED
  BY <1>1, <1>2

LEMMA Forking ==
    ASSUME FamilyInv, NEW p \in Waits!Procs, waitPc[p] = "loop", j[p] < argc
    PROVE  /\ Above(p, j[p]) /\ p \cup {j[p]} \in Waits!Procs /\ p \cup {j[p]} # p
           /\ waitPc[p \cup {j[p]}] = "none"
<1>1. Above(p, j[p])
  BY Arguments DEF FamilyInv, WaitTypes, CountsUp, Above
<1>2. p \cup {j[p]} \in Waits!Procs /\ p \cup {j[p]} # p
  BY <1>1, ChildOfParent
<1>3. ~Waits!Forked(p \cup {j[p]})
  <2>1. ~(j[p] < j[p])
    BY Arguments DEF FamilyInv, WaitTypes
  <2> QED
    BY <1>1, <2>1 DEF FamilyInv, Fresh
<1> QED
  BY <1>1, <1>2, <1>3 DEF Waits!Forked

LEMMA ForkKeepsFamily ==
    ASSUME FamilyInv, NEW p \in Waits!Procs, waitPc[p] = "loop", j[p] < argc,
           waitPc' = [waitPc EXCEPT ![p \cup {j[p]}] = "sleep"],
           j' = [j EXCEPT ![p \cup {j[p]}] = j[p], ![p] = @ + 1], UNCHANGED reaped
    PROVE  FamilyInv'
<1> DEFINE c == p \cup {j[p]}
<1>1. Above(p, j[p]) /\ c \in Waits!Procs /\ c # p /\ waitPc[c] = "none"
  BY Forking
<1> HIDE DEF c
<1>2. /\ WaitTypes /\ CountsUp /\ Lineage /\ Fresh
      /\ \A q \in Waits!Procs : j[q] \in 0..argc /\ (q \subseteq Int)
  BY Arguments DEF FamilyInv, WaitTypes, Waits!Procs
<1>3. /\ waitPc' = [waitPc EXCEPT ![c] = "sleep"]
      /\ j' = [j EXCEPT ![c] = j[p], ![p] = @ + 1]
  BY DEF c
<1>4. /\ waitPc'[c] = "sleep" /\ j'[c] = j[p] /\ j'[p] = j[p] + 1
      /\ waitPc'[p] = "loop"
      /\ \A q \in Waits!Procs \ {c} : waitPc'[q] = waitPc[q]
      /\ \A q \in Waits!Procs \ {c, p} : j'[q] = j[q]
  BY <1>1, <1>2, <1>3 DEF WaitTypes
<1>5. WaitTypes'
  <2>1. waitPc' \in [Waits!Procs -> {"none", "loop", "sleep", "bye", "error"}]
    BY <1>2, <1>3 DEF WaitTypes
  <2>2. j' \in [Waits!Procs -> 0..argc]
    <3>1. j[p] \in 0..argc /\ j[p] + 1 \in 0..argc
      BY <1>2, Arguments
    <3> QED
      BY <1>2, <1>3, <3>1 DEF WaitTypes
  <2>3. reaped' \subseteq {q \in Waits!Procs : Waits!Ended(q)'}
    BY <1>1, <1>2, <1>4 DEF WaitTypes, Waits!Ended
  <2> QED
    BY <2>1, <2>2, <2>3 DEF WaitTypes
<1>6. CountsUp'
  <2>1. \A k \in c : k <= j[p]
    BY <1>1, <1>2 DEF c, Above
  <2>2. \A k \in p : k < j[p] + 1
    BY <1>1, <1>2 DEF Above
  <2> QED
    BY <1>1, <1>2, <1>4, <2>1, <2>2 DEF CountsUp
<1>7. Lineage'
  <2> SUFFICES ASSUME NEW q \in Waits!Procs, NEW d \in Waits!Descendants(q),
                      Waits!Forked(d)'
               PROVE  Waits!Forked(q)'
    BY DEF Lineage, Waits!Descendants
  <2>0. d \in Waits!Procs
    BY DEF Waits!Descendants
  <2>1. CASE d = c
    <3>1. q = p \/ p \in Waits!Descendants(q)
      BY <1>1, <2>1, Ancestors DEF c
    <3>2. Waits!Forked(p)
      BY DEF Waits!Forked
    <3>3. Waits!Forked(q)
      BY <1>2, <3>1, <3>2 DEF Lineage
    <3> QED
      BY <1>4, <3>3 DEF Waits!Forked
  <2>2. CASE d # c
    <3>1. Waits!Forked(q)
      BY <1>2, <1>4, <2>0, <2>2 DEF Lineage, Waits!Forked
    <3> QED
      BY <1>4, <3>1 DEF Waits!Forked
  <2> QED
    BY <2>1, <2>2
<1>8. Fresh'
  <2> SUFFICES ASSUME NEW q \in Waits!Procs, NEW m, Above(q, m),
                      Waits!Forked(q \cup {m})'
               PROVE  m < j'[q]
    BY DEF Fresh, Above
  <2>0. m \in Int /\ q \cup {m} \in Waits!Procs
    BY ChildOfParent, Arguments DEF Above
  <2>1. CASE q \cup {m} = c
    <3>1. q = p
      BY <1>1, <2>1, ChildOfParent DEF c
    <3>2. m = j[p]
      BY <2>1, <3>1, ChildOfParent DEF c
    <3> QED
      BY <1>2, <1>4, <3>1, <3>2
  <2>2. CASE q \cup {m} # c
    <3>1. Waits!Forked(q \cup {m})
      BY <1>4, <2>0, <2>2 DEF Waits!Forked
    <3>2. m < j[q]
      BY <1>2, <3>1 DEF Fresh
    <3>3. q # c
      <4>1. Waits!Forked(q)
        BY <1>2, <3>1, Generations DEF Lineage
      <4> QED
        BY <1>1, <4>1 DEF Waits!Forked
    <3>4. j'[q] = j[q] \/ j'[q] = j[q] + 1
      BY <1>4, <3>3
    <3> QED
      BY <1>2, <2>0, <3>2, <3>4
  <2> QED
    BY <2>1, <2>2
<1> QED
  BY <1>5, <1>6, <1>7, <1>8 DEF FamilyInv

LEMMA FamilyStep ==
    ASSUME FamilyInv, NEW p \in Waits!Procs, Waits!Step(p)
    PROVE  FamilyInv'
<1>1. /\ WaitTypes /\ CountsUp /\ Lineage /\ Fresh
      /\ \A q \in Waits!Procs : j[q] \in 0..argc /\ (q \subseteq Int)
  BY Arguments DEF FamilyInv, WaitTypes, Waits!Procs
<1>2. CASE /\ waitPc[p] = "loop" /\ waitPc' = [waitPc EXCEPT ![p] = "error"]
           /\ UNCHANGED <<j, reaped>>
  <2>1. WaitTypes' /\ CountsUp'
    BY <1>1, <1>2 DEF WaitTypes, CountsUp, Waits!Ended
  <2>2. \A q \in Waits!Procs : /\ Waits!Forked(q)' <=> Waits!Forked(q)
                              /\ j'[q] \in 0..argc /\ j[q] <= j'[q]
    BY <1>1, <1>2 DEF WaitTypes, Waits!Forked
  <2> QED
    BY <1>1, <2>1, <2>2, SameFamily DEF FamilyInv
<1>3. CASE Waits!Fork(p)
  <2>1. CASE waitPc' = [waitPc EXCEPT ![p] = "error"] /\ UNCHANGED j
    BY <1>2, <1>3, <2>1 DEF Waits!Fork
  <2> QED
    BY <1>3, <2>1, ForkKeepsFamily DEF Waits!Fork
<1>4. CASE Waits!SleepOver(p)
  <2>1. /\ waitPc[p] = "sleep" /\ waitPc' = [waitPc EXCEPT ![p] = "loop"]
        /\ j' = [j EXCEPT ![p] = @ + 1] /\ UNCHANGED reaped
    BY <1>4 DEF Waits!SleepOver
  <2>2. j[p] + 1 \in 0..argc /\ \A k \in p : k < j[p] + 1
    BY <1>1, <2>1, Arguments DEF CountsUp
  <2>3. \A q \in Waits!Procs : j'[q] = IF q = p THEN j[q] + 1 ELSE j[q]
    BY <1>1, <2>1 DEF WaitTypes
  <2>4. WaitTypes' /\ CountsUp'
    BY <1>1, <2>1, <2>2 DEF WaitTypes, CountsUp, Waits!Ended
  <2>5. \A q \in Waits!Procs : /\ Waits!Forked(q)' <=> Waits!Forked(q)
                              /\ j'[q] \in 0..argc /\ j[q] <= j'[q]
    <3>1. \A q \in Waits!Procs : Waits!Forked(q)' <=> Waits!Forked(q)
      BY <1>1, <2>1 DEF WaitTypes, Waits!Forked
    <3>2. \A q \in Waits!Procs : j'[q] \in 0..argc /\ j[q] <= j'[q]
      BY <1>1, <2>2, <2>3, Arguments
    <3> QED
      BY <3>1, <3>2
  <2> QED
    BY <1>1, <2>4, <2>5, SameFamily DEF FamilyInv
<1>5. CASE Waits!WaitReturns(p)
  <2>1. WaitTypes' /\ CountsUp'
    BY <1>1, <1>5 DEF Waits!WaitReturns, Waits!Children, WaitTypes, CountsUp, Waits!Ended
  <2>2. \A q \in Waits!Procs : /\ Waits!Forked(q)' <=> Waits!Forked(q)
                              /\ j'[q] \in 0..argc /\ j[q] <= j'[q]
    BY <1>1, <1>5 DEF Waits!WaitReturns, Waits!Forked
  <2> QED
    BY <1>1, <2>1, <2>2, SameFamily DEF FamilyInv
<1>6. CASE Waits!NoMoreChildren(p)
  <2>1. WaitTypes' /\ CountsUp'
    BY <1>1, <1>6 DEF Waits!NoMoreChildren, WaitTypes, CountsUp, Waits!Ended
  <2>2. \A q \in Waits!Procs : /\ Waits!Forked(q)' <=> Waits!Forked(q)
                              /\ j'[q] \in 0..argc /\ j[q] <= j'[q]
    BY <1>1, <1>6 DEF WaitTypes, Waits!NoMoreChildren, Waits!Forked
  <2> QED
    BY <1>1, <2>1, <2>2, SameFamily DEF FamilyInv
<1> QED
  BY <1>3, <1>4, <1>5, <1>6 DEF Waits!Step

-------------------------------------------------------------------------------
(* The property for one process.                                           *)
Failed(q) == \E d \in Waits!Descendants(q) : waitPc[d] = "error"

Alone(q) ==
    waitPc[q] = "bye" =>
        \/ Failed(q)
        \/ \A d \in Waits!Descendants(q) :
               Waits!Forked(d) => waitPc[d] = "bye" /\ d \in reaped

(* What others do below a process that has ended.                          *)
LEMMA StaysAlone ==
    ASSUME FamilyInv, NEW q \in Waits!Procs, Alone(q), NEW p \in Waits!Procs,
           waitPc[p] \notin {"bye", "error", "none"}, waitPc'[q] = "bye" => waitPc[q] = "bye",
           reaped \subseteq reaped',
           \A d \in Waits!Procs \ {p} :
               \/ waitPc'[d] = waitPc[d]
               \/ /\ waitPc[d] = "none"
                  /\ \E m : Above(p, m) /\ d = p \cup {m}
    PROVE  Alone(q)'
<1> SUFFICES ASSUME waitPc'[q] = "bye", ~Failed(q)'
             PROVE  \A d \in Waits!Descendants(q) :
                        Waits!Forked(d)' => waitPc'[d] = "bye" /\ d \in reaped'
  BY DEF Alone, Failed, Waits!Descendants
<1>0. \A d \in Waits!Descendants(q) : d \in Waits!Procs
  BY DEF Waits!Descendants
<1>1. waitPc[q] = "bye" /\ q # p
  OBVIOUS
<1>2. ~Failed(q)
  <2> SUFFICES ASSUME NEW d \in Waits!Descendants(q), waitPc[d] = "error"  PROVE FALSE
    BY DEF Failed
  <2>1. waitPc'[d] = "error"
    BY <1>0
  <2> QED
    BY <2>1 DEF Failed, Waits!Descendants
<1>3. \A d \in Waits!Descendants(q) :
          Waits!Forked(d) => waitPc[d] = "bye" /\ d \in reaped
  BY <1>1, <1>2 DEF Alone
<1>4. p \notin Waits!Descendants(q)
  BY <1>3 DEF Waits!Forked
<1> SUFFICES ASSUME NEW d \in Waits!Descendants(q), Waits!Forked(d)'
             PROVE  waitPc'[d] = "bye" /\ d \in reaped'
  OBVIOUS
<1>5. ASSUME NEW m, Above(p, m), d = p \cup {m}  PROVE FALSE
  BY <1>1, <1>4, <1>5, Ancestors
<1>6. waitPc'[d] = waitPc[d]
  BY <1>0, <1>4, <1>5
<1> QED
  BY <1>3, <1>6 DEF Waits!Forked

(* A process without children that are not reaped.                         *)
LEMMA EndsAlone ==
    ASSUME FamilyInv, \A q \in Waits!Procs : Alone(q), NEW p \in Waits!Procs,
           Waits!NoMoreChildren(p)
    PROVE  Alone(p)'
<1>1. /\ Waits!Children(p) \subseteq reaped /\ reaped' = reaped
      /\ waitPc' = [waitPc EXCEPT ![p] = "bye"]
  BY DEF Waits!NoMoreChildren
<1>2. \A d \in Waits!Descendants(p) : d \in Waits!Procs /\ waitPc'[d] = waitPc[d]
  BY <1>1 DEF FamilyInv, WaitTypes, Waits!Descendants
<1> SUFFICES ASSUME ~Failed(p)', NEW d \in Waits!Descendants(p), Waits!Forked(d)'
             PROVE  waitPc'[d] = "bye" /\ d \in reaped'
  BY DEF Alone, Failed, Waits!Descendants
<1>3. \A e \in Waits!Descendants(p) : waitPc[e] # "error"
  BY <1>2 DEF Failed, Waits!Descendants
<1>4. Waits!Forked(d) /\ d \in Waits!Procs
  BY <1>2 DEF Waits!Forked
<1>5. PICK m : Above(p, m) /\ (d = p \cup {m} \/ d \in Waits!Descendants(p \cup {m}))
  BY FirstStep
<1> DEFINE c == p \cup {m}
<1>6. /\ c \in Waits!Procs \ {{}} /\ Waits!Parent(c) = p
      /\ c \in Waits!Descendants(p)
      /\ \A e \in Waits!Descendants(c) : e \in Waits!Descendants(p)
  BY <1>5, ChildOfParent, Generations
<1> HIDE DEF c
<1>7. Waits!Forked(c)
  BY <1>4, <1>5, <1>6 DEF c, FamilyInv, Lineage
<1>8. c \in reaped /\ waitPc[c] = "bye"
  <2>1. c \in Waits!Children(p)
    BY <1>6, <1>7 DEF Waits!Children, Waits!Main
  <2> QED
    BY <1>1, <1>3, <1>6, <2>1 DEF FamilyInv, WaitTypes, Waits!Ended
<1>9. CASE d = c
  BY <1>1, <1>2, <1>8, <1>9
<1>10. CASE d \in Waits!Descendants(c)
  <2>1. ~Failed(c)
    BY <1>3, <1>6 DEF Failed
  <2>2. waitPc[d] = "bye" /\ d \in reaped
    BY <1>4, <1>6, <1>8, <1>10, <2>1 DEF Alone
  <2> QED
    BY <1>1, <1>2, <2>2
<1> QED
  BY <1>5, <1>9, <1>10 DEF c

LEMMA AloneStep ==
    ASSUME FamilyInv, \A q \in Waits!Procs : Alone(q), NEW p \in Waits!Procs,
           Waits!Step(p), NEW q \in Waits!Procs
    PROVE  Alone(q)'
<1> USE DEF FamilyInv, WaitTypes
<1>1. CASE Waits!Fork(p)
  <2>1. CASE waitPc' = [waitPc EXCEPT ![p] = "error"]
    BY <1>1, <2>1, StaysAlone DEF Waits!Fork
  <2>2. CASE waitPc' = [waitPc EXCEPT ![p \cup {j[p]}] = "sleep"]
    <3>1. Above(p, j[p]) /\ waitPc[p \cup {j[p]}] = "none"
      BY <1>1, Forking DEF Waits!Fork
    <3>2. waitPc[p] = "loop" /\ reaped' = reaped
      BY <1>1 DEF Waits!Fork
    <3>3. \A d \in Waits!Procs :
              waitPc'[d] = IF d = p \cup {j[p]} THEN "sleep" ELSE waitPc[d]
      BY <2>2
    <3> QED
      BY <3>1, <3>2, <3>3, StaysAlone
  <2> QED
    BY <1>1, <2>1, <2>2 DEF Waits!Fork
<1>2. CASE Waits!SleepOver(p)
  BY <1>2, StaysAlone DEF Waits!SleepOver
<1>3. CASE Waits!WaitReturns(p)
  BY <1>3, StaysAlone DEF Waits!WaitReturns
<1>4. CASE Waits!NoMoreChildren(p)
  <2>1. CASE q = p
    BY <1>4, <2>1, EndsAlone
  <2>2. CASE q # p
    BY <1>4, <2>2, StaysAlone DEF Waits!NoMoreChildren
  <2> QED
    BY <2>1, <2>2
<1> QED
  BY <1>1, <1>2, <1>3, <1>4 DEF Waits!Step

-------------------------------------------------------------------------------
LEMMA WaitInit == Init => WaitInv
<1> SUFFICES ASSUME Waits!Init PROVE WaitInv
  BY DEF Init
<1>1. {} \in Waits!Procs /\ \A q \in Waits!Procs : waitPc[q] \in {"none", "loop"}
      /\ (waitPc[q] = "loop" <=> q = {})
  BY DEF Waits!Init, Waits!Procs, Waits!Main
<1>2. WaitTypes
  BY Arguments DEF Waits!Init, WaitTypes
<1>3. CountsUp
  BY <1>1 DEF CountsUp
<1>4. \A q \in Waits!Procs : Waits!Forked(q) <=> q = {}
  BY <1>1 DEF Waits!Forked
<1>5. Lineage
  BY <1>4 DEF Lineage, Waits!Descendants
<1>6. Fresh
  <2>1. ASSUME NEW p \in Waits!Procs, NEW m, Above(p, m)  PROVE  ~Waits!Forked(p \cup {m})
    <3>1. p \cup {m} \in Waits!Procs \ {{}}
      BY <2>1, ChildOfParent
    <3> QED
      BY <1>4, <3>1
  <2> QED
    BY <2>1 DEF Fresh
<1>7. ByeMeansAlone
  BY <1>1 DEF ByeMeansAlone, Waits!ByeMeansAlone
<1> QED
  BY <1>2, <1>3, <1>5, <1>6, <1>7 DEF WaitInv, FamilyInv

LEMMA WaitStep == WaitInv /\ [Next]_vars => WaitInv'
<1> SUFFICES ASSUME WaitInv, [Next]_vars PROVE WaitInv'
  OBVIOUS
<1>1. ByeMeansAlone <=> \A q \in Waits!Procs : Alone(q)
  BY DEF ByeMeansAlone, Waits!ByeMeansAlone, Alone, Failed
<1>2. ByeMeansAlone' <=> \A q \in Waits!Procs : Alone(q)'
  BY DEF ByeMeansAlone, Waits!ByeMeansAlone, Alone, Failed, Waits!Procs,
         Waits!Descendants, Waits!Forked
<1>3. CASE WaitsRuns /\ Waits!Next
  <2>1. PICK p \in Waits!Procs : Waits!Step(p)
    BY <1>3 DEF Waits!Next
  <2> QED
    BY <1>1, <1>2, <2>1, FamilyStep, AloneStep DEF WaitInv
<1>4. CASE UNCHANGED waitVars
  BY <1>4
  DEF waitVars, WaitInv, FamilyInv, WaitTypes, CountsUp, Lineage, Fresh, ByeMeansAlone,
      Waits!ByeMeansAlone, Waits!Ended, Waits!Forked, Waits!Descendants, Waits!Procs, Above
<1> QED
  BY <1>3, <1>4
  DEF Next, PipeRuns, DaemonRuns, CopyRuns, DupRuns, SimpleRuns, InetRuns, Runs, vars

(* A process that says "No more children - bye!" has no descendant left,   *)
(* running or zombie, unless a fork() failed below it, for every number of *)
(* arguments (multi_wait.c:39-60).                                         *)
THEOREM ByeIsAlone == FairSpec => []ByeMeansAlone
<1>1. WaitInv => ByeMeansAlone
  BY DEF WaitInv
<1> QED
  BY <1>1, WaitInit, WaitStep, PTL DEF FairSpec

-------------------------------------------------------------------------------
(* inet_sockets.c: the socket of the operation that runs is open from      *)
(* socket() to the close() or the return that follows.                     *)
InetInv ==
    /\ calls \in 0..MaxCalls /\ inetOpen \in [1..MaxCalls -> Int]
    /\ returned \cup deaf \subseteq 1..calls
    /\ inetPc # "idle" => calls \in 1..MaxCalls
    /\ \A c \in 1..MaxCalls : c > calls => inetOpen[c] = 0
    /\ \A c \in 1..MaxCalls : c < calls =>
           inetOpen[c] = IF c \in returned \cup deaf THEN 1 ELSE 0
    /\ inetPc # "idle" =>
           /\ calls \notin returned \cup deaf
           /\ inetPc \in {"getaddrinfo", "socket"} => inetOpen[calls] = 0
           /\ inetPc \in {"setsockopt", "connect", "bind", "listen"} => inetOpen[calls] = 1
    /\ inetPc \in {"idle", "getaddrinfo", "socket", "setsockopt", "connect", "bind",
                   "listen", "crashed"}
    /\ Inet!NothingLeaks

LEMMA InetInit == Inet!Init => InetInv
BY ProcessesAssumption
DEF ProcessesAssumption, Inet!InetAssumption, Inet!Init, InetInv, Inet!NothingLeaks

LEMMA InetStep == InetInv /\ Inet!Next => InetInv'
<1> SUFFICES ASSUME InetInv, Inet!Next PROVE InetInv'
  OBVIOUS
<1>m. MaxCalls \in Nat
  BY ProcessesAssumption DEF ProcessesAssumption, Inet!InetAssumption
<1> USE <1>m DEF InetInv, Inet!NothingLeaks, Inet!Goes, Inet!Return, Inet!Close
<1>1. ASSUME NEW o, Inet!Call(o)  PROVE InetInv'
  BY <1>1 DEF Inet!Call
<1>2. CASE Inet!Getaddrinfo
  BY <1>2 DEF Inet!Getaddrinfo
<1>3. CASE Inet!EndOfList
  BY <1>3 DEF Inet!EndOfList
<1>4. CASE Inet!Socket
  <2>1. CASE inetOpen' = inetOpen /\ inetPc' = inetPc
    BY <1>4, <2>1 DEF Inet!Socket
  <2>2. CASE /\ inetOpen' = [inetOpen EXCEPT ![calls] = @ + 1]
             /\ inetPc' \in {"setsockopt", "connect", "bind"}
    BY <1>4, <2>2 DEF Inet!Socket
  <2> QED
    BY <1>4, <2>1, <2>2 DEF Inet!Socket
<1>5. CASE Inet!Setsockopt
  BY <1>5 DEF Inet!Setsockopt
<1>6. CASE Inet!Connect
  BY <1>6 DEF Inet!Connect, Inet!NextAddress
<1>7. CASE Inet!Bind
  BY <1>7 DEF Inet!Bind, Inet!NextAddress
<1>8. CASE Inet!Listen
  BY <1>8 DEF Inet!Listen
<1> QED
  BY <1>1, <1>2, <1>3, <1>4, <1>5, <1>6, <1>7, <1>8 DEF Inet!Next

-------------------------------------------------------------------------------
(* dup.c: until my_dup2() is called test.txt is open.                      *)
DupInv ==
    /\ dupPc \in {"open", "dup", "dup2", "done", "failed"}
    /\ {table, before} \subseteq [Dup!Fds -> {Closed, Other, Dup!TestFile}]
    /\ dupPc \in {"open", "dup", "dup2"} => newFd = -1 /\ dupRet = -1
    /\ dupPc \in {"dup", "dup2"} => Dup!Valid(table, testFd)
    /\ newFd \in Int /\ dupRet \in {-1, newFd}
    /\ Dup!LikeDup2

LEMMA DupMin ==
    ASSUME NEW S, S \subseteq Nat, S # {}
    PROVE  Dup!Min(S) \in S /\ \A k \in S : Dup!Min(S) <= k
<1>1. \E m \in S : \A k \in S : m <= k
  BY Smallest
<1> QED
  BY <1>1 DEF Dup!Min

LEMMA FreeFacts ==
    ASSUME NEW t, NEW m \in Int, Dup!FreeFrom(t, m) # {}
    PROVE  /\ Dup!Min(Dup!FreeFrom(t, m)) \in Dup!Fds
           /\ t[Dup!Min(Dup!FreeFrom(t, m))] = Closed
           /\ m \in Dup!Fds /\ t[m] = Closed => Dup!Min(Dup!FreeFrom(t, m)) = m
<1> DEFINE S == Dup!FreeFrom(t, m)
           f == Dup!Min(S)
<1>1. OpenMax \in Nat
  BY ProcessesAssumption DEF ProcessesAssumption, Dup!DupAssumption
<1>2. S \subseteq Nat /\ S # {}
  BY <1>1 DEF Dup!FreeFrom, Dup!Fds
<1>3. f \in S /\ \A k \in S : f <= k
  BY <1>2, DupMin
<1> HIDE DEF f
<1>4. f \in Dup!Fds /\ f >= m /\ t[f] = Closed
  BY <1>3 DEF Dup!FreeFrom
<1>5. m \in Dup!Fds /\ t[m] = Closed => m \in S
  BY DEF Dup!FreeFrom
<1>6. ASSUME m \in S  PROVE f = m
  BY <1>1, <1>3, <1>4, <1>6 DEF Dup!Fds
<1> QED
  BY <1>4, <1>5, <1>6 DEF f

LEMMA DupInit == Dup!Init => DupInv
BY DEF Dup!Init, DupInv, Dup!LikeDup2

LEMMA DupStep == DupInv /\ Dup!Next => DupInv'
<1> SUFFICES ASSUME DupInv, Dup!Next PROVE DupInv'
  OBVIOUS
<1>m. /\ OpenMax \in Nat /\ Dup!Fds \subseteq Nat /\ -1 \notin Dup!Fds
      /\ Dup!TestFile # Closed
  BY ProcessesAssumption DEF ProcessesAssumption, Dup!DupAssumption, Dup!Fds
<1>1. CASE Dup!Open
  <2>1. before' = table /\ newFd' = -1 /\ dupRet' = -1
    BY <1>1 DEF Dup!Open, DupInv
  <2>2. CASE dupPc' = "failed" /\ table' = table
    BY <1>m, <2>1, <2>2 DEF DupInv, Dup!LikeDup2
  <2>3. CASE /\ Dup!FreeFrom(table, 0) # {} /\ testFd' = Dup!Min(Dup!FreeFrom(table, 0))
             /\ table' = [table EXCEPT ![testFd'] = Dup!TestFile] /\ dupPc' = "dup"
    <3>1. testFd' \in Dup!Fds
      BY <2>3, FreeFacts
    <3> QED
      BY <1>m, <2>1, <2>3, <3>1 DEF DupInv, Dup!LikeDup2, Dup!Valid
  <2> QED
    BY <1>1, <2>2, <2>3 DEF Dup!Open
<1>2. ASSUME NEW m \in Int, NEW f, f = Dup!Dupfd(table, testFd, m), f # -1
      PROVE  /\ f \in Dup!Fds /\ table[f] = Closed /\ Dup!Valid(table, testFd)
             /\ m \in Dup!Fds /\ (table[m] = Closed => f = m)
  BY <1>2, FreeFacts DEF Dup!Dupfd
<1>3. CASE Dup!MyDup
  <2> DEFINE f == Dup!Dupfd(table, testFd, 3)
  <2>1. /\ before' = table /\ newFd' = -1 /\ dupRet' = -1 /\ testFd' = testFd
        /\ table' = Dup!Copied(table, testFd, f)
        /\ dupPc' = (IF f = -1 THEN "failed" ELSE "dup2")
        /\ Dup!Valid(table, testFd)
    BY <1>3 DEF Dup!MyDup, DupInv
  <2>2. f # -1 => f \in Dup!Fds
    BY <1>2
  <2> HIDE DEF f
  <2>3. CASE f = -1
    BY <1>m, <2>1, <2>3 DEF DupInv, Dup!LikeDup2, Dup!Copied
  <2>4. CASE f # -1
    <3>1. table' = [table EXCEPT ![f] = table[testFd]] /\ f \in Dup!Fds
      BY <2>1, <2>2, <2>4 DEF Dup!Copied
    <3>2. testFd \in Dup!Fds /\ table[testFd] # Closed
      BY <2>1 DEF Dup!Valid
    <3>3. table' \in [Dup!Fds -> {Closed, Other, Dup!TestFile}] /\ table'[testFd] # Closed
      BY <3>1, <3>2 DEF DupInv
    <3> QED
      BY <1>m, <2>1, <2>4, <3>2, <3>3 DEF DupInv, Dup!LikeDup2, Dup!Valid
  <2> QED
    BY <2>3, <2>4
<1>4. CASE Dup!MyDup2
  <2>1. PICK n \in -1..OpenMax + 1 :
            /\ newFd' = n
            /\ table' = Dup!Copied(table, testFd,
                   IF Dup!Refused(table, n) THEN -1 ELSE Dup!Dupfd(table, testFd, n))
            /\ dupRet' = IF (IF Dup!Refused(table, n) THEN -1
                             ELSE Dup!Dupfd(table, testFd, n)) = n
                         THEN (IF Dup!Refused(table, n) THEN -1
                               ELSE Dup!Dupfd(table, testFd, n))
                         ELSE -1
    BY <1>4 DEF Dup!MyDup2
  <2> DEFINE f == IF Dup!Refused(table, n) THEN -1 ELSE Dup!Dupfd(table, testFd, n)
  <2>2. /\ before' = table /\ testFd' = testFd /\ newFd' = n /\ n \in Int
        /\ table' = Dup!Copied(table, testFd, f)
        /\ dupRet' = IF f = n THEN f ELSE -1
        /\ dupPc' \in {"failed", "done"}
        /\ table \in [Dup!Fds -> {Closed, Other, Dup!TestFile}]
    BY <1>4, <1>m, <2>1 DEF Dup!MyDup2, DupInv
  <2>3. CASE f = -1
    <3>1. table' = table /\ dupRet' = -1
      BY <2>2, <2>3 DEF Dup!Copied
    <3>2. n # -1 /\ n \in Dup!Fds => Dup!Valid(table, n)
      <4>1. SUFFICES ASSUME n \in Dup!Fds, table[n] = Closed PROVE FALSE
        BY DEF Dup!Valid
      <4>2. ~Dup!Refused(table, n)
        BY <1>m, <4>1 DEF Dup!Refused, Dup!Valid, Dup!Fds
      <4>3. Dup!Valid(table, testFd)
        BY <1>4 DEF Dup!MyDup2, DupInv
      <4>4. n \in Dup!FreeFrom(table, n)
        BY <1>m, <2>2, <4>1 DEF Dup!FreeFrom, Dup!Fds
      <4>5. Dup!Dupfd(table, testFd, n) = Dup!Min(Dup!FreeFrom(table, n))
        BY <4>1, <4>3, <4>4 DEF Dup!Dupfd
      <4>6. Dup!Min(Dup!FreeFrom(table, n)) = n
        BY <2>2, <4>1, <4>4, FreeFacts
      <4> QED
        BY <1>m, <2>3, <4>1, <4>2, <4>5, <4>6
    <3> QED
      BY <2>2, <3>1, <3>2 DEF DupInv, Dup!LikeDup2, Dup!Valid
  <2>4. CASE f # -1
    <3>1. ~Dup!Refused(table, n) /\ f = Dup!Dupfd(table, testFd, n)
      BY <2>4
    <3> HIDE DEF f
    <3>2. /\ f \in Dup!Fds /\ Dup!Valid(table, testFd) /\ n \in Dup!Fds
          /\ (table[n] = Closed => f = n)
      BY <1>2, <2>2, <2>4, <3>1
    <3>3. f = n
      BY <3>1, <3>2 DEF Dup!Refused, Dup!Valid
    <3>4. table' = [table EXCEPT ![n] = table[testFd]] /\ dupRet' = n
      BY <2>2, <2>4, <3>3 DEF Dup!Copied
    <3>5. table' \in [Dup!Fds -> {Closed, Other, Dup!TestFile}]
      BY <2>2, <3>2, <3>4 DEF Dup!Valid
    <3> QED
      BY <2>2, <3>2, <3>3, <3>4, <3>5 DEF DupInv, Dup!LikeDup2
  <2> QED
    BY <2>3, <2>4
<1> QED
  BY <1>1, <1>3, <1>4 DEF Dup!Next

-------------------------------------------------------------------------------
(* become_daemon.c: the child leads its session, the grandchild only is in *)
(* it.  Its open() finds descriptor 0 or nothing, each dup2() leaves it    *)
(* there, and the next one goes on if that is what the last one compared.  *)
DaemonPc == {"fork1", "setsid", "fork2", "umask", "close", "open", "dupIn", "dupOut",
             "dupErr", "ok", "error", "exited", None}

DaemonInv ==
    /\ daemonPc \in [Daemon!Procs -> DaemonPc]
    /\ session \in [Daemon!Procs -> Daemon!Procs \cup {"shell", None}]
    /\ daemonPc["parent"] \in {"fork1", "exited", "error"}
    /\ daemonPc["child"] \in {None, "setsid", "fork2", "exited", "error"}
    /\ daemonPc["child"] = "fork2" => session["child"] = "child"
    /\ daemonPc["grandchild"] # None => session["grandchild"] = "child"

Own(f) == daemonFds["grandchild"][f]

NullInv ==
    /\ daemonFds \in [Daemon!Procs -> [Daemon!Fds -> {"inherited", "null", None}]]
    /\ \A p \in Daemon!Procs : \A f \in Daemon!Fds :
           daemonFds[p][f] = "null" => p = "grandchild" /\ f = 0
    /\ daemonPc["grandchild"] \in {"open", "dupIn", "dupOut", "dupErr"} =>
           "NO_REOPEN_STD_FDS" \notin flags
    /\ daemonPc["grandchild"] \in {"dupIn", "dupOut", "dupErr"} => fd \in {-1, 0}

(* The generations follow each other, and from the second fork() on only   *)
(* what the flags say is changed.                                          *)
FilesObeyed ==
    /\ "NO_CLOSE_FILES" \in flags =>
           /\ \A f \in Daemon!Fds \ {0} : Own(f) = daemonFds["parent"][f]
           /\ daemonPc["grandchild"] = "open" \/ "NO_REOPEN_STD_FDS" \in flags =>
                  Own(0) = daemonFds["parent"][0]
    /\ "NO_CLOSE_FILES" \notin flags => \A f \in Daemon!Fds : Own(f) # "inherited"

ObeyedInv ==
    /\ daemonPc["parent"] # "exited" => daemonPc["child"] = None
    /\ daemonPc["child"] # "exited" => daemonPc["grandchild"] = None
    /\ daemonPc["child"] # None => daemonFds["child"] = daemonFds["parent"]
    /\ daemonPc["grandchild"] \in {None, "umask", "close", "open", "dupIn", "dupOut",
                                   "dupErr", "ok", "error"}
    /\ IF daemonPc["grandchild"] \in {None, "umask"}
       THEN mask = "inherited" /\ cwd = "inherited"
       ELSE /\ mask = "0" <=> "NO_UMASK0" \notin flags
            /\ cwd = "/" <=> "NO_CHDIR" \notin flags
    /\ daemonPc["grandchild"] \in {"umask", "close"} =>
           daemonFds["grandchild"] = daemonFds["parent"]
    /\ daemonPc["grandchild"] \notin {None, "umask", "close"} => FilesObeyed

LEMMA DaemonFacts ==
    /\ None \notin {"fork1", "setsid", "fork2", "umask", "close", "open", "dupIn",
                    "dupOut", "dupErr", "ok", "error", "exited", "inherited", "null"}
    /\ 0 \in Daemon!Fds /\ 1 \in Daemon!Fds /\ 2 \in Daemon!Fds
    /\ Daemon!Fds \subseteq Nat /\ -1 \notin Daemon!Fds
BY ProcessesAssumption DEF ProcessesAssumption, Daemon!DaemonAssumption, Daemon!Fds

LEMMA DaemonInit == Daemon!Init => DaemonInv
BY DaemonFacts DEF Daemon!Init, DaemonInv, DaemonPc, Daemon!Procs

LEMMA DaemonStep == DaemonInv /\ Daemon!Next => DaemonInv'
<1> SUFFICES ASSUME DaemonInv, Daemon!Next PROVE DaemonInv'
  OBVIOUS
<1> USE DaemonFacts DEF DaemonInv, DaemonPc, Daemon!Procs, Daemon!Goto
<1>1. CASE Daemon!Fork("parent", "child", "fork1", "setsid")
  BY <1>1 DEF Daemon!Fork
<1>2. CASE Daemon!Setsid
  BY <1>2 DEF Daemon!Setsid
<1>3. CASE Daemon!Fork("child", "grandchild", "fork2", "umask")
  BY <1>3 DEF Daemon!Fork
<1>4. CASE Daemon!Reset
  BY <1>4 DEF Daemon!Reset
<1>5. CASE Daemon!CloseFiles
  BY <1>5 DEF Daemon!CloseFiles
<1>6. CASE Daemon!OpenNull
  BY <1>6 DEF Daemon!OpenNull
<1>7. ASSUME NEW o, NEW t, NEW at \in {"dupIn", "dupOut", "dupErr"},
             NEW next \in {"dupOut", "dupErr", "ok"}, Daemon!Dup2(o, t, at, next)
      PROVE  DaemonInv'
  BY <1>7 DEF Daemon!Dup2
<1> QED
  BY <1>1, <1>2, <1>3, <1>4, <1>5, <1>6, <1>7 DEF Daemon!Next

LEMMA NullInit == Daemon!Init => NullInv
BY DaemonFacts DEF Daemon!Init, NullInv, Daemon!Procs

LEMMA ObeyedInit == Daemon!Init => ObeyedInv
BY DaemonFacts DEF Daemon!Init, ObeyedInv, Daemon!Procs

(* With descriptor 0 closed, open() finds that one.                        *)
LEMMA NullFirst ==
    ASSUME NullInv
    PROVE  Daemon!Min({f \in Daemon!Fds :
               [daemonFds["grandchild"] EXCEPT ![0] = None][f] = None}) = 0
<1> DEFINE free == {f \in Daemon!Fds :
                        [daemonFds["grandchild"] EXCEPT ![0] = None][f] = None}
<1>1. 0 \in free /\ free \subseteq Nat
  BY DaemonFacts DEF NullInv, Daemon!Procs
<1> HIDE DEF free
<1>2. \A x \in free : (\A y \in free : x <= y) <=> x = 0
  BY <1>1
<1>3. (CHOOSE x \in free : \A y \in free : x <= y) = 0
  BY <1>1, <1>2
<1> QED
  BY <1>3 DEF Daemon!Min, free

LEMMA NullStep == DaemonInv /\ NullInv /\ Daemon!Next => NullInv'
<1> SUFFICES ASSUME DaemonInv, NullInv, Daemon!Next PROVE NullInv'
  OBVIOUS
<1> USE DaemonFacts
    DEF NullInv, Daemon!Procs, Daemon!Goto,
        Daemon!STDIN_FILENO, Daemon!STDOUT_FILENO, Daemon!STDERR_FILENO
<1>t. daemonPc \in [Daemon!Procs -> DaemonPc]
  BY DEF DaemonInv
<1>1. CASE Daemon!Fork("parent", "child", "fork1", "setsid")
  BY <1>t, <1>1 DEF Daemon!Fork
<1>2. CASE Daemon!Setsid
  BY <1>t, <1>2 DEF Daemon!Setsid
<1>3. CASE Daemon!Fork("child", "grandchild", "fork2", "umask")
  BY <1>t, <1>3 DEF Daemon!Fork, DaemonInv
<1>4. CASE Daemon!Reset
  BY <1>t, <1>4 DEF Daemon!Reset
<1>5. CASE Daemon!CloseFiles
  BY <1>t, <1>5 DEF Daemon!CloseFiles
<1>6. CASE Daemon!OpenNull
  BY <1>t, <1>6, NullFirst DEF Daemon!OpenNull
<1>7. CASE Daemon!Dup2(0, fd, "dupIn", "dupOut")
  BY <1>t, <1>7 DEF Daemon!Dup2
<1>8. CASE Daemon!Dup2(1, 0, "dupOut", "dupErr")
  BY <1>t, <1>8 DEF Daemon!Dup2
<1>9. CASE Daemon!Dup2(2, 0, "dupErr", "ok")
  BY <1>t, <1>9 DEF Daemon!Dup2
<1> QED
  BY <1>1, <1>2, <1>3, <1>4, <1>5, <1>6, <1>7, <1>8, <1>9 DEF Daemon!Next

LEMMA ObeyedStep ==
    DaemonInv /\ NullInv /\ ObeyedInv /\ Daemon!Next => ObeyedInv'
<1> SUFFICES ASSUME DaemonInv, NullInv, ObeyedInv, Daemon!Next PROVE ObeyedInv'
  OBVIOUS
<1> USE DaemonFacts
    DEF ObeyedInv, FilesObeyed, Own, Daemon!Procs, Daemon!Goto,
        Daemon!STDIN_FILENO, Daemon!STDOUT_FILENO, Daemon!STDERR_FILENO
<1>t. /\ daemonPc \in [Daemon!Procs -> DaemonPc]
      /\ daemonFds \in [Daemon!Procs -> [Daemon!Fds -> {"inherited", "null", None}]]
  BY DEF DaemonInv, NullInv
<1>1. CASE Daemon!Fork("parent", "child", "fork1", "setsid")
  BY <1>t, <1>1 DEF Daemon!Fork
<1>2. CASE Daemon!Setsid
  BY <1>t, <1>2 DEF Daemon!Setsid
<1>3. CASE Daemon!Fork("child", "grandchild", "fork2", "umask")
  BY <1>t, <1>3 DEF Daemon!Fork, DaemonInv
<1>4. CASE Daemon!Reset
  BY <1>t, <1>4 DEF Daemon!Reset
<1>5. CASE Daemon!CloseFiles
  BY <1>t, <1>5 DEF Daemon!CloseFiles
<1>6. CASE Daemon!OpenNull
  BY <1>t, <1>6, NullFirst DEF Daemon!OpenNull, NullInv
<1>7. ASSUME NEW o \in {0, 1, 2}, NEW n \in {-1, 0},
             NEW at \in {"dupIn", "dupOut", "dupErr"},
             NEW next \in {"dupOut", "dupErr", "ok"}, Daemon!Dup2(o, n, at, next)
      PROVE  ObeyedInv'
  <2>1. "NO_REOPEN_STD_FDS" \notin flags /\ daemonPc["grandchild"] = at
    BY <1>7 DEF NullInv, Daemon!Dup2
  <2>2. \A f \in Daemon!Fds \ {0} : daemonFds'["grandchild"][f] = Own(f)
    BY <1>t, <1>7 DEF Daemon!Dup2
  <2>3. daemonFds'["grandchild"][0] \in {Own(0), Own(o)}
    BY <1>t, <1>7 DEF Daemon!Dup2
  <2>4. daemonPc'["grandchild"] \in {"dupOut", "dupErr", "ok", "error"}
    BY <1>t, <1>7 DEF Daemon!Dup2
  <2>5. /\ UNCHANGED <<flags, mask, cwd>>
        /\ \A p \in {"parent", "child"} :
               daemonPc'[p] = daemonPc[p] /\ daemonFds'[p] = daemonFds[p]
    BY <1>t, <1>7 DEF Daemon!Dup2
  <2>6. FilesObeyed'
    BY <2>1, <2>2, <2>3, <2>4, <2>5
  <2> QED
    BY <2>1, <2>4, <2>5, <2>6
<1>8. CASE Daemon!Dup2(0, fd, "dupIn", "dupOut")
  <2>1. fd \in {-1, 0}
    BY <1>8 DEF Daemon!Dup2, NullInv
  <2> QED
    BY <1>7, <1>8, <2>1
<1> QED
  BY <1>1, <1>2, <1>3, <1>4, <1>5, <1>6, <1>7, <1>8 DEF Daemon!Next

LEMMA DaemonRight ==
    DaemonInv /\ ObeyedInv =>
        Daemon!NoTerminal /\ Daemon!ReturnsOnce /\ Daemon!FlagsObeyed
<1> SUFFICES ASSUME DaemonInv, ObeyedInv
             PROVE  Daemon!NoTerminal /\ Daemon!ReturnsOnce /\ Daemon!FlagsObeyed
  OBVIOUS
<1>1. Daemon!NoTerminal
  BY DaemonFacts DEF DaemonInv, Daemon!NoTerminal, Daemon!Procs
<1>2. Daemon!ReturnsOnce
  BY DaemonFacts DEF ObeyedInv, Daemon!ReturnsOnce, Daemon!Returned, Daemon!Procs
<1>3. Daemon!FlagsObeyed
  BY DaemonFacts
  DEF ObeyedInv, FilesObeyed, Own, Daemon!FlagsObeyed, Daemon!Returned, Daemon!STDIN_FILENO
<1> QED
  BY <1>1, <1>2, <1>3

-------------------------------------------------------------------------------
(* pipe_ls_wc.c: which descriptors of the pipe a process has at each       *)
(* statement.                                                              *)
End(c) == IF c = "ls" THEN "W" ELSE "R"
PipeFds(c) == {f \in 0..MaxFd : pipeFds[c][f] \in {"R", "W"}}

Both(c) == /\ PipeFds(c) = {pfd[1], pfd[2]}
           /\ pipeFds[c][pfd[1]] = "R" /\ pipeFds[c][pfd[2]] = "W"
Only(c, f) == PipeFds(c) = {f} /\ pipeFds[c][f] = End(c)

PipePc == {"none", "pipe", "forkLs", "forkWc", "closeRead", "closeWrite", "wait",
           "close", "dup2", "exec", "run", "message", "exit", "success", "failure",
           "sigpipe"}

PipeTypes ==
    /\ pipePc \in [Pipe!Procs -> PipePc]
    /\ pipeFds \in [Pipe!Procs -> [0..MaxFd -> {"tty", "R", "W", "none"}]]
    /\ pipePc["parent"] # "pipe" => pfd \in (0..MaxFd) \X (0..MaxFd) /\ pfd[1] # pfd[2]

PipeInv ==
    /\ PipeTypes
    /\ pipePc["parent"] = "pipe" =>
           /\ PipeFds("parent") = {} /\ \A f \in 3..MaxFd : pipeFds["parent"][f] = "none"
           /\ \A c \in Pipe!Children : pipePc[c] = "none"
    /\ pipePc["parent"] \in {"forkLs", "forkWc"} => Both("parent")
    /\ \A c \in Pipe!Children :
           /\ pipePc[c] = "close" => Both(c)
           /\ pipePc[c] = "dup2" => Only(c, Pipe!Needed(c))
           /\ pipePc[c] \in {"exec", "run"} => Only(c, Pipe!Standard(c))
           /\ pipePc[c] \notin {"pipe", "forkLs", "forkWc"}

LEMMA DescriptorRange == MaxFd \in Nat /\ MaxFd >= 4
BY ProcessesAssumption DEF ProcessesAssumption, Pipe!PipeAssumption

LEMMA PipeMin ==
    ASSUME NEW S, S \subseteq Nat, S # {}
    PROVE  Pipe!Min(S) \in S
<1>1. \E m \in S : \A k \in S : m <= k
  BY Smallest
<1> QED
  BY <1>1 DEF Pipe!Min

LEMMA PipeInit == Pipe!Init => PipeInv
<1> SUFFICES ASSUME Pipe!Init PROVE PipeInv
  OBVIOUS
<1> USE DescriptorRange DEF Pipe!Procs, Pipe!Children, Pipe!NONE, Pipe!STDIN, Pipe!STDOUT,
           Pipe!STDERR
<1>1. pipePc = [p \in Pipe!Procs |-> IF p = "parent" THEN "pipe" ELSE "none"]
  BY DEF Pipe!Init
<1>2. PICK given \in SUBSET {0, 1, 2} :
          pipeFds = [p \in Pipe!Procs |-> [f \in 0..MaxFd |->
                       IF p = "parent" /\ f \in given THEN "tty" ELSE "none"]]
  BY DEF Pipe!Init
<1>3. PipeTypes
  BY <1>1, <1>2 DEF PipeTypes, PipePc
<1>4. PipeFds("parent") = {} /\ \A f \in 3..MaxFd : pipeFds["parent"][f] = "none"
  BY <1>2 DEF PipeFds
<1> QED
  BY <1>1, <1>3, <1>4 DEF PipeInv

(* A process whose descriptors do not change.                              *)
LEMMA SameFds ==
    ASSUME NEW c, pipeFds'[c] = pipeFds[c], pfd' = pfd
    PROVE  /\ Both(c) <=> Both(c)'
           /\ \A f : Only(c, f) <=> Only(c, f)'
BY DEF Both, Only, PipeFds

LEMMA PipeStep == PipeInv /\ Pipe!Next => PipeInv'
<1> SUFFICES ASSUME PipeInv, Pipe!Next PROVE PipeInv'
  OBVIOUS
<1>t. /\ PipeTypes /\ Pipe!Procs = {"parent", "ls", "wc"} /\ Pipe!Children = {"ls", "wc"}
      /\ DOMAIN pipeFds = Pipe!Procs /\ DOMAIN pipePc = Pipe!Procs
  BY DEF PipeInv, PipeTypes, Pipe!Procs, Pipe!Children
<1>1. CASE Pipe!Pipe
  <2> DEFINE free == {f \in 0..MaxFd : pipeFds["parent"][f] = Pipe!NONE}
             r == Pipe!Min(free)
             w == Pipe!Min(free \ {r})
  <2>1. /\ pipePc["parent"] = "pipe" /\ pipePc' = [pipePc EXCEPT !["parent"] = "forkLs"]
        /\ pfd' = <<r, w>>
        /\ pipeFds' = [pipeFds EXCEPT !["parent"][r] = "R", !["parent"][w] = "W"]
    BY <1>1 DEF Pipe!Pipe, Pipe!Goto
  <2>2. free \subseteq Nat /\ 3 \in free /\ 4 \in free
    BY <2>1, DescriptorRange DEF PipeInv, Pipe!NONE
  <2> HIDE DEF free
  <2>3. r \in free
    BY <2>2, PipeMin
  <2> HIDE DEF r
  <2>4. free \ {r} # {} /\ free \ {r} \subseteq Nat
    <3>1. 3 # r \/ 4 # r
      OBVIOUS
    <3> QED
      BY <2>2, <3>1
  <2>5. w \in free /\ w # r
    BY <2>4, PipeMin
  <2> HIDE DEF w
  <2>6. r \in 0..MaxFd /\ w \in 0..MaxFd
    BY <2>3, <2>5 DEF free
  <2>7. PipeTypes'
    BY <1>t, <2>1, <2>5, <2>6 DEF PipeTypes, PipePc
  <2>8. /\ pipeFds'["parent"] = [pipeFds["parent"] EXCEPT ![r] = "R", ![w] = "W"]
        /\ pipeFds["parent"] \in [0..MaxFd -> {"tty", "R", "W", "none"}]
        /\ PipeFds("parent") = {}
    BY <1>t, <2>1 DEF PipeTypes, PipeInv
  <2>9. Both("parent")'
    <3>1. PipeFds("parent")' = {r, w}
      BY <2>6, <2>8 DEF PipeFds
    <3> QED
      BY <2>1, <2>5, <2>6, <2>8, <3>1 DEF Both
  <2>10. \A c \in Pipe!Children : pipePc'[c] = "none"
    BY <1>t, <2>1 DEF PipeInv
  <2> QED
    BY <1>t, <2>1, <2>7, <2>9, <2>10 DEF PipeInv, PipeTypes
<1>2. ASSUME UNCHANGED pfd, PipeTypes',
             pipePc'["parent"] = "pipe" => pipePc' = pipePc /\ pipeFds' = pipeFds,
             pipePc'["parent"] \in {"forkLs", "forkWc"} => Both("parent")',
             \A c \in Pipe!Children :
                 \/ pipePc'[c] = pipePc[c] /\ pipeFds'[c] = pipeFds[c]
                 \/ /\ pipePc'[c] = "close" => Both(c)'
                    /\ pipePc'[c] = "dup2" => Only(c, Pipe!Needed(c))'
                    /\ pipePc'[c] \in {"exec", "run"} => Only(c, Pipe!Standard(c))'
                    /\ pipePc'[c] \notin {"pipe", "forkLs", "forkWc"}
      PROVE  PipeInv'
  <2>1. pipePc'["parent"] = "pipe" =>
            /\ PipeFds("parent")' = {} /\ \A f \in 3..MaxFd : pipeFds'["parent"][f] = "none"
            /\ \A c \in Pipe!Children : pipePc'[c] = "none"
    BY <1>2 DEF PipeInv, PipeFds
  <2>2. \A c \in Pipe!Children :
            /\ pipePc'[c] = "close" => Both(c)'
            /\ pipePc'[c] = "dup2" => Only(c, Pipe!Needed(c))'
            /\ pipePc'[c] \in {"exec", "run"} => Only(c, Pipe!Standard(c))'
            /\ pipePc'[c] \notin {"pipe", "forkLs", "forkWc"}
    BY <1>2, SameFds DEF PipeInv, Pipe!Needed, Pipe!Standard
  <2> QED
    BY <1>2, <2>1, <2>2 DEF PipeInv
<1>3. ASSUME NEW c \in Pipe!Children, NEW n \in PipePc \ {"pipe", "forkLs", "forkWc"},
             NEW g \in [0..MaxFd -> {"tty", "R", "W", "none"}],
             pipePc[c] # "none", UNCHANGED pfd,
             pipePc' = [pipePc EXCEPT ![c] = n], pipeFds' = [pipeFds EXCEPT ![c] = g],
             n = "close" => Both(c)',
             n = "dup2" => Only(c, Pipe!Needed(c))',
             n \in {"exec", "run"} => Only(c, Pipe!Standard(c))'
      PROVE  PipeInv'
  <2>1. c # "parent" /\ c \in Pipe!Procs
    BY <1>t, <1>3
  <2>2. PipeTypes'
    BY <1>t, <1>3, <2>1 DEF PipeTypes
  <2>3. /\ pipePc'["parent"] = pipePc["parent"] /\ pipePc["parent"] # "pipe"
        /\ pipeFds'["parent"] = pipeFds["parent"]
    BY <1>t, <1>3, <2>1 DEF PipeInv
  <2>4. pipePc'["parent"] \in {"forkLs", "forkWc"} => Both("parent")'
    BY <1>3, <2>3, SameFds DEF PipeInv
  <2>5. \A d \in Pipe!Children : d # c => pipePc'[d] = pipePc[d] /\ pipeFds'[d] = pipeFds[d]
    BY <1>t, <1>3
  <2>6. pipePc'[c] = n
    BY <1>t, <1>3, <2>1
  <2> QED
    BY <1>2, <1>3, <2>2, <2>3, <2>4, <2>5, <2>6
<1>4. ASSUME NEW n \in PipePc \ {"pipe"},
             NEW g \in [0..MaxFd -> {"tty", "R", "W", "none"}],
             pipePc["parent"] # "pipe", UNCHANGED pfd,
             pipePc' = [pipePc EXCEPT !["parent"] = n],
             pipeFds' = [pipeFds EXCEPT !["parent"] = g],
             n \notin {"forkLs", "forkWc"}
      PROVE  PipeInv'
  <2>1. PipeTypes'
    BY <1>t, <1>4 DEF PipeTypes
  <2>2. \A d \in Pipe!Children : pipePc'[d] = pipePc[d] /\ pipeFds'[d] = pipeFds[d]
    BY <1>t, <1>4
  <2>3. pipePc'["parent"] = n
    BY <1>t, <1>4
  <2> QED
    BY <1>2, <1>4, <2>1, <2>2, <2>3
<1> DEFINE Nothing == [f \in 0..MaxFd |-> Pipe!NONE]
<1>5. Nothing \in [0..MaxFd -> {"tty", "R", "W", "none"}]
  BY DEF Pipe!NONE
<1>6. \A p \in Pipe!Procs : /\ pipeFds[p] \in [0..MaxFd -> {"tty", "R", "W", "none"}]
                           /\ pipeFds = [pipeFds EXCEPT ![p] = pipeFds[p]]
                           /\ pipePc = [pipePc EXCEPT ![p] = pipePc[p]]
  BY <1>t DEF PipeTypes
<1>7. ASSUME NEW c \in Pipe!Children, NEW how \in {"success", "failure", "sigpipe"},
             pipePc[c] # "none", UNCHANGED pfd, Pipe!Ends(c, how)
      PROVE  PipeInv'
  <2>1. pipePc' = [pipePc EXCEPT ![c] = how] /\ pipeFds' = [pipeFds EXCEPT ![c] = Nothing]
    BY <1>7 DEF Pipe!Ends, Pipe!Goto
  <2> QED
    BY <1>3, <1>5, <1>7, <2>1 DEF PipePc
<1>8. ASSUME NEW how \in {"success", "failure"},
             pipePc["parent"] # "pipe", UNCHANGED pfd, Pipe!Ends("parent", how)
      PROVE  PipeInv'
  <2>1. /\ pipePc' = [pipePc EXCEPT !["parent"] = how]
        /\ pipeFds' = [pipeFds EXCEPT !["parent"] = Nothing]
    BY <1>8 DEF Pipe!Ends, Pipe!Goto
  <2> QED
    BY <1>4, <1>5, <1>8, <2>1 DEF PipePc
<1>9. ASSUME NEW c \in Pipe!Children, NEW at \in {"forkLs", "forkWc"},
             NEW next \in {"forkWc", "closeRead"}, Pipe!Fork(c, at, next)
      PROVE  PipeInv'
  <2>1. CASE Pipe!Ends("parent", "failure")
    BY <1>8, <1>9, <2>1 DEF Pipe!Fork
  <2>2. CASE /\ pipePc' = [pipePc EXCEPT !["parent"] = next, ![c] = "close"]
             /\ pipeFds' = [pipeFds EXCEPT ![c] = pipeFds["parent"]]
    <3>1. c # "parent" /\ c \in Pipe!Procs /\ "parent" \in Pipe!Procs
      BY <1>t, <1>9
    <3>2. pfd' = pfd /\ pipePc["parent"] = at /\ Both("parent")
      BY <1>9 DEF Pipe!Fork, PipeInv
    <3>3. /\ pipePc'["parent"] = next /\ pipePc'[c] = "close"
          /\ pipeFds'[c] = pipeFds["parent"] /\ pipeFds'["parent"] = pipeFds["parent"]
          /\ \A d \in Pipe!Children \ {c} :
                 pipePc'[d] = pipePc[d] /\ pipeFds'[d] = pipeFds[d]
      BY <1>t, <2>2, <3>1
    <3>4. PipeTypes'
      <4>1. pipePc' \in [Pipe!Procs -> PipePc]
        BY <1>t, <2>2, <3>1 DEF PipeTypes, PipePc
      <4>2. pipeFds' \in [Pipe!Procs -> [0..MaxFd -> {"tty", "R", "W", "none"}]]
        BY <1>t, <2>2, <3>1 DEF PipeTypes
      <4> QED
        BY <1>t, <3>2, <4>1, <4>2 DEF PipeTypes
    <3>5. Both("parent")' /\ Both(c)'
      BY <3>2, <3>3 DEF Both, PipeFds
    <3> QED
      BY <1>2, <3>2, <3>3, <3>4, <3>5
  <2> QED
    BY <1>9, <2>1, <2>2 DEF Pipe!Fork
<1>10. ASSUME NEW f, NEW at \in {"closeRead", "closeWrite"},
              NEW next \in {"closeWrite", "wait"}, pipePc["parent"] = at,
              UNCHANGED pfd, Pipe!CloseFd("parent", f), Pipe!Goto("parent", next)
       PROVE  PipeInv'
  <2> DEFINE g == [pipeFds["parent"] EXCEPT ![f] = Pipe!NONE]
  <2>1. g \in [0..MaxFd -> {"tty", "R", "W", "none"}]
    BY <1>t, <1>6 DEF Pipe!NONE
  <2>2. pipeFds' = [pipeFds EXCEPT !["parent"] = g]
    BY <1>10 DEF Pipe!CloseFd
  <2> QED
    BY <1>4, <1>10, <2>1, <2>2 DEF Pipe!Goto, PipePc
<1>11. CASE Pipe!Wait
  <2>1. CASE Pipe!Ends("parent", "success")
    BY <1>8, <1>11, <2>1 DEF Pipe!Wait
  <2>2. CASE UNCHANGED <<pipePc, pipeFds>>
    BY <1>2, <1>t, <1>11, <2>2, SameFds DEF Pipe!Wait, PipeTypes
  <2> QED
    BY <1>11, <2>1, <2>2 DEF Pipe!Wait
<1>12. ASSUME NEW c \in Pipe!Children, Pipe!CloseUnneeded(c) PROVE PipeInv'
  <2> DEFINE g == [pipeFds[c] EXCEPT ![Pipe!Unneeded(c)] = Pipe!NONE]
  <2>1. /\ pipePc[c] = "close" /\ pfd' = pfd /\ pipePc' = [pipePc EXCEPT ![c] = "dup2"]
        /\ pipeFds' = [pipeFds EXCEPT ![c] = g]
    BY <1>12 DEF Pipe!CloseUnneeded, Pipe!CloseFd, Pipe!Goto
  <2>2. g \in [0..MaxFd -> {"tty", "R", "W", "none"}] /\ c \in Pipe!Procs
    BY <1>t, <1>6 DEF Pipe!NONE
  <2>3. Both(c) /\ pfd \in (0..MaxFd) \X (0..MaxFd) /\ pfd[1] # pfd[2]
    BY <2>1 DEF PipeInv, PipeTypes
  <2>4. Only(c, Pipe!Needed(c))'
    <3>1. pipeFds'[c] = g
      BY <1>t, <2>1, <2>2
    <3>2. /\ pfd[1] \in 0..MaxFd /\ pfd[2] \in 0..MaxFd /\ pfd[1] # pfd[2]
          /\ pipeFds[c][pfd[1]] = "R" /\ pipeFds[c][pfd[2]] = "W"
          /\ \A f \in 0..MaxFd : pipeFds[c][f] \in {"R", "W"} => f \in {pfd[1], pfd[2]}
      BY <2>3 DEF Both, PipeFds
    <3>3. CASE c = "ls"
      <4>1. g = [pipeFds[c] EXCEPT ![pfd[1]] = "none"]
        BY <3>3 DEF Pipe!Unneeded, Pipe!NONE
      <4>2. {f \in 0..MaxFd : g[f] \in {"R", "W"}} = {pfd[2]} /\ g[pfd[2]] = "W"
        BY <1>6, <2>2, <3>2, <4>1
      <4> QED
        BY <2>1, <3>1, <3>3, <4>2 DEF Only, PipeFds, End, Pipe!Needed
    <3>4. CASE c = "wc"
      <4>1. g = [pipeFds[c] EXCEPT ![pfd[2]] = "none"]
        BY <3>4 DEF Pipe!Unneeded, Pipe!NONE
      <4>2. {f \in 0..MaxFd : g[f] \in {"R", "W"}} = {pfd[1]} /\ g[pfd[1]] = "R"
        BY <1>6, <2>2, <3>2, <4>1
      <4> QED
        BY <2>1, <3>1, <3>4, <4>2 DEF Only, PipeFds, End, Pipe!Needed
    <3> QED
      BY <1>t, <3>3, <3>4
  <2> QED
    BY <1>3, <2>1, <2>2, <2>4 DEF PipePc
<1>13. ASSUME NEW c \in Pipe!Children, Pipe!Dup2(c) PROVE PipeInv'
  <2> DEFINE n == Pipe!Needed(c)
             s == Pipe!Standard(c)
             g == IF n = s THEN pipeFds[c]
                  ELSE [pipeFds[c] EXCEPT ![s] = pipeFds[c][n], ![n] = Pipe!NONE]
  <2>1. pipePc[c] = "dup2" /\ pfd' = pfd /\ pipePc' = [pipePc EXCEPT ![c] = "exec"]
    BY <1>13 DEF Pipe!Dup2, Pipe!Goto
  <2>2. c \in Pipe!Procs /\ pipeFds[c] \in [0..MaxFd -> {"tty", "R", "W", "none"}]
    BY <1>t, <1>6
  <2>3. pipeFds' = [pipeFds EXCEPT ![c] = g]
    BY <1>6, <1>13, <2>2 DEF Pipe!Dup2
  <2>4. Only(c, n) /\ Pipe!Standard(c)' = s
    BY <2>1 DEF PipeInv, Pipe!Standard
  <2>5. s \in 0..MaxFd
    BY DescriptorRange DEF Pipe!Standard, Pipe!STDIN, Pipe!STDOUT
  <2> HIDE DEF n, s
  <2>6. n \in 0..MaxFd
    BY <2>4 DEF Only, PipeFds
  <2>7. g \in [0..MaxFd -> {"tty", "R", "W", "none"}]
    BY <2>2, <2>5, <2>6 DEF Pipe!NONE
  <2>8. pipeFds'[c] = g
    BY <1>t, <2>2, <2>3
  <2>9. {f \in 0..MaxFd : g[f] \in {"R", "W"}} = {s} /\ g[s] = End(c)
    BY <2>2, <2>4, <2>5, <2>6 DEF Only, PipeFds, End, Pipe!NONE
  <2> HIDE DEF g
  <2>10. Only(c, Pipe!Standard(c))'
    BY <2>4, <2>8, <2>9 DEF Only, PipeFds, End
  <2> QED
    BY <1>3, <2>1, <2>3, <2>7, <2>10 DEF PipePc
<1>14. ASSUME NEW c \in Pipe!Children, NEW n \in {"run", "message", "exit"},
              pipePc[c] \in {"exec", "run", "message"},
              pipePc[c] = "message" => n = "exit",
              UNCHANGED <<pfd, pipeFds>>, Pipe!Goto(c, n)
       PROVE  PipeInv'
  <2>1. pipeFds' = [pipeFds EXCEPT ![c] = pipeFds[c]] /\ pipePc' = [pipePc EXCEPT ![c] = n]
    BY <1>t, <1>6, <1>14 DEF Pipe!Goto
  <2>2. n = "run" => Only(c, Pipe!Standard(c))'
    BY <1>14 DEF PipeInv, Only, PipeFds, End, Pipe!Standard
  <2> QED
    BY <1>t, <1>3, <1>6, <1>14, <2>1, <2>2 DEF PipePc
<1>15. ASSUME NEW c \in Pipe!Children, Pipe!Exec(c) \/ Pipe!Message(c) \/ Pipe!ExitFailure(c)
       PROVE  PipeInv'
  <2>1. CASE Pipe!Exec(c)
    BY <1>14, <2>1 DEF Pipe!Exec
  <2>2. CASE Pipe!Message(c)
    BY <1>7, <1>14, <2>2 DEF Pipe!Message, Pipe!WriteLine
  <2>3. CASE Pipe!ExitFailure(c)
    BY <1>7, <2>3 DEF Pipe!ExitFailure
  <2> QED
    BY <1>15, <2>1, <2>2, <2>3
<1>16. CASE Pipe!Programs
  <2>1. CASE Pipe!LsWrites
    BY <1>t, <1>7, <1>14, <2>1 DEF Pipe!LsWrites, Pipe!WriteLine
  <2>2. CASE Pipe!LsEnds
    BY <1>t, <1>7, <2>2 DEF Pipe!LsEnds
  <2>3. CASE Pipe!WcReads
    BY <1>2, <1>t, <2>3, SameFds DEF Pipe!WcReads, PipeInv, PipeTypes
  <2>4. CASE Pipe!WcEnds
    BY <1>t, <1>7, <2>4 DEF Pipe!WcEnds
  <2> QED
    BY <1>16, <2>1, <2>2, <2>3, <2>4 DEF Pipe!Programs
<1>17. CASE Pipe!Parent
  <2>1. CASE Pipe!ForkLs \/ Pipe!ForkWc
    BY <1>t, <1>9, <2>1 DEF Pipe!ForkLs, Pipe!ForkWc
  <2>2. CASE Pipe!ParentClosesRead
    BY <1>10, <2>2 DEF Pipe!ParentClosesRead
  <2>3. CASE Pipe!ParentClosesWrite
    BY <1>10, <2>3 DEF Pipe!ParentClosesWrite
  <2> QED
    BY <1>1, <1>11, <1>17, <2>1, <2>2, <2>3 DEF Pipe!Parent
<1> QED
  BY <1>12, <1>13, <1>15, <1>16, <1>17 DEF Pipe!Next, Pipe!Child

LEMMA PipeRight == PipeInv => Pipe!PlumbedRight
BY DEF PipeInv, Only, PipeFds, End, Pipe!PlumbedRight

-------------------------------------------------------------------------------
(* The four programs together: one of them runs, the others stand still.   *)
DescriptorsInv == PipeInv /\ DaemonInv /\ NullInv /\ ObeyedInv /\ DupInv /\ InetInv

LEMMA PipeStands == PipeInv /\ UNCHANGED pipeVars => PipeInv'
BY DEF pipeVars, PipeInv, PipeTypes, Both, Only, PipeFds, End, Pipe!Needed, Pipe!Standard

LEMMA DaemonStands == DaemonInv /\ NullInv /\ UNCHANGED daemonVars => DaemonInv' /\ NullInv'
BY DEF daemonVars, DaemonInv, NullInv

LEMMA ObeyedStands == ObeyedInv /\ UNCHANGED daemonVars => ObeyedInv'
BY DEF daemonVars, ObeyedInv, FilesObeyed, Own

LEMMA DupStands == DupInv /\ UNCHANGED dupVars => DupInv'
BY DEF dupVars, DupInv, Dup!LikeDup2, Dup!Valid

LEMMA InetStands == InetInv /\ UNCHANGED inetVars => InetInv'
BY DEF inetVars, InetInv, Inet!NothingLeaks

LEMMA DescriptorsStep == DescriptorsInv /\ [Next]_vars => DescriptorsInv'
<1> SUFFICES ASSUME DescriptorsInv, [Next]_vars PROVE DescriptorsInv'
  OBVIOUS
<1> USE DEF DescriptorsInv
<1>1. PipeInv'
  BY PipeStep, PipeStands
  DEF Next, PipeRuns, DaemonRuns, WaitsRuns, CopyRuns, DupRuns, SimpleRuns, InetRuns, Runs, vars
<1>2. DaemonInv' /\ NullInv'
  BY DaemonStep, NullStep, DaemonStands
  DEF Next, PipeRuns, DaemonRuns, WaitsRuns, CopyRuns, DupRuns, SimpleRuns, InetRuns, Runs, vars
<1>3. ObeyedInv'
  BY ObeyedStep, ObeyedStands
  DEF Next, PipeRuns, DaemonRuns, WaitsRuns, CopyRuns, DupRuns, SimpleRuns, InetRuns, Runs, vars
<1>4. DupInv'
  BY DupStep, DupStands
  DEF Next, PipeRuns, DaemonRuns, WaitsRuns, CopyRuns, DupRuns, SimpleRuns, InetRuns, Runs, vars
<1>5. InetInv'
  BY InetStep, InetStands
  DEF Next, PipeRuns, DaemonRuns, WaitsRuns, CopyRuns, DupRuns, SimpleRuns, InetRuns, Runs, vars
<1> QED
  BY <1>1, <1>2, <1>3, <1>4, <1>5

(* For every number of descriptors, of addresses and of calls, and whatever*)
(* failed before: ls and wc have their end of the pipe as their standard   *)
(* descriptor and no other one of the pipe (pipe_ls_wc.c:29 and 62); the   *)
(* daemon cannot get a terminal (become_daemon.c:21), and it is the only   *)
(* process in which the call returns, with the files its flags ask for, or *)
(* /dev/null, open (lines 28-53); my_dup2() makes a copy at newFd, unless  *)
(* it is in use, and touches nothing else (dup.c:32-67); the address loops *)
(* leave open only what they return, or could not listen to                *)
(* (inet_sockets.c:31-57, 83-124).                                         *)
THEOREM DescriptorsKept == FairSpec => []DescriptorsRight
<1>1. Init => DescriptorsInv
  BY PipeInit, DaemonInit, NullInit, ObeyedInit, DupInit, InetInit DEF Init, DescriptorsInv
<1>2. DescriptorsInv => DescriptorsRight
  BY PipeRight, DaemonRight DEF DescriptorsInv, DescriptorsRight, DupInv, InetInv
<1> QED
  BY <1>1, <1>2, DescriptorsStep, PTL DEF FairSpec

-------------------------------------------------------------------------------
(* copy.c, tee.c and cp_hole.c: how far a program got in its input and its *)
(* output, and what the output holds up to there.  A hole reads as zeros.  *)
Byte(x) == IF x = Copy!HOLE THEN 0 ELSE x
Base == IF prog = "tee_append" THEN Len(old) ELSE 0

InputTypes ==
    /\ prog \in Copy!Programs /\ src \in Sources
    /\ exists \in BOOLEAN /\ same \in BOOLEAN
    /\ old \in OldFiles \cup {<<>>, src}
    /\ ~exists => old = <<>>
    /\ same => old = src /\ prog # "tee_append"

CopyTypes ==
    /\ InputTypes
    /\ copyPc \in {"open", "read", "write", "end", "success", "failure"}
    /\ dst \in Seq(Copy!Bytes) /\ out \in Seq(Nat) /\ buf \in Seq(Nat)
    /\ Len(buf) <= BUF_SIZE
    /\ inOff \in 0..Len(src) /\ outOff \in Nat
    /\ open \subseteq {"stdin", "input", "output"} /\ failed \in BOOLEAN

Offsets ==
    /\ copyPc = "open" => /\ dst = old /\ out = <<>> /\ inOff = 0 /\ outOff = 0
                          /\ buf = <<>>
    /\ outOff <= Base + inOff
    /\ copyPc \notin {"open", "failure"} => Base <= outOff
    /\ copyPc \in {"read", "end", "success"} => outOff = Base + inOff
    /\ copyPc = "write" =>
           /\ outOff + Len(buf) = Base + inOff
           /\ \A k \in 1..Len(buf) : buf[k] = Byte(src[outOff - Base + k])
    /\ copyPc \in {"end", "success"} /\ ~failed /\ (same => prog # "copy") =>
           inOff = Len(src)
    /\ prog = "copy" /\ copyPc # "failure" => ~failed

Gets ==
    /\ Len(out) <= Len(src)
    /\ \A k \in 1..Len(out) : out[k] = Byte(src[k])
    /\ prog \in {"tee", "tee_append"} /\ copyPc \notin {"open", "failure"} =>
           Len(out) = outOff - Base

(* Whatever the program does with the output it does at outOff.            *)
Prefix ==
    prog # "cp_hole" /\ copyPc # "open" =>
        /\ outOff <= Len(dst)
        /\ \A k \in 1..outOff :
               /\ k <= Base => Byte(dst[k]) = Byte(old[k])
               /\ k > Base => Byte(dst[k]) = Byte(src[k - Base])
        /\ prog = "copy" /\ copyPc # "failure" => Len(dst) = outOff
        /\ prog # "copy" =>
               /\ Len(old) <= Len(dst)
               /\ Len(dst) > Len(old) => Len(dst) = outOff
               /\ \A k \in outOff + 1..Len(old) : dst[k] = old[k]

(* What cp_hole has not come to is old; behind its output, up to where it  *)
(* got, the input has only zeros.                                          *)
RightAt(k) ==
    \/ Byte(dst[k]) = Byte(src[k])
    \/ Byte(src[k]) = 0 /\ k <= Len(old) /\ Byte(dst[k]) = Byte(old[k])

Sparse ==
    prog = "cp_hole" /\ copyPc # "open" =>
        /\ \A k \in 1..Len(dst) : k <= outOff => RightAt(k)
        /\ \A k \in 1..outOff : k > Len(dst) => Byte(src[k]) = 0
        /\ copyPc = "success" => Len(dst) = outOff
        /\ copyPc # "success" =>
               /\ Len(old) <= Len(dst)
               /\ Len(dst) > Len(old) => Len(dst) <= outOff
               /\ \A k \in 1..Len(old) : k > outOff => dst[k] = old[k]

(* A program that copies a file to itself still finds its input there, or  *)
(* nothing at all if it is copy.                                           *)
Itself ==
    same =>
        /\ prog = "copy" =>
               /\ copyPc # "write"
               /\ copyPc \in {"read", "end", "success"} => Len(dst) = 0 /\ inOff = 0
        /\ prog # "copy" /\ copyPc # "success" =>
               /\ Len(dst) = Len(src)
               /\ \A k \in 1..Len(src) : Byte(dst[k]) = Byte(src[k])

CopyInv == CopyTypes /\ Offsets /\ Gets /\ Prefix /\ Sparse /\ Itself

LEMMA CopyConstants ==
    /\ BUF_SIZE \in Nat \ {0}
    /\ Sources \subseteq Seq(Copy!Bytes) /\ OldFiles \subseteq Seq(Copy!Bytes)
    /\ Nat \subseteq Copy!Bytes /\ Copy!HOLE \in Copy!Bytes /\ Byte(Copy!HOLE) = 0
    /\ \A x \in Copy!Bytes : Byte(x) \in Nat
    /\ \A x \in Nat : Byte(x) = x
BY ProcessesAssumption
DEF ProcessesAssumption, Copy!CopyAssumption, Copy!Bytes, Copy!HOLE, Byte

LEMMA CopyFiles ==
    ASSUME CopyTypes
    PROVE  /\ src \in Seq(Copy!Bytes) /\ old \in Seq(Copy!Bytes)
           /\ Len(src) \in Nat /\ Len(old) \in Nat /\ Base \in Nat
           /\ Len(dst) \in Nat /\ Len(buf) \in Nat /\ Len(out) \in Nat
           /\ inOff \in Nat /\ inOff <= Len(src) /\ outOff \in Nat
<1>1. <<>> \in Seq(Copy!Bytes) /\ Len(<<>>) = 0
  OBVIOUS
<1>2. src \in Seq(Copy!Bytes) /\ old \in Seq(Copy!Bytes)
  <2>1. src \in Sources /\ old \in OldFiles \cup {<<>>, src}
    BY DEF CopyTypes, InputTypes
  <2>2. Sources \subseteq Seq(Copy!Bytes) /\ OldFiles \subseteq Seq(Copy!Bytes)
    BY CopyConstants
  <2> QED
    BY <1>1, <2>1, <2>2, Zenon
<1>3. /\ dst \in Seq(Copy!Bytes) /\ out \in Seq(Nat) /\ buf \in Seq(Nat)
      /\ inOff \in 0..Len(src) /\ outOff \in Nat
  BY Zenon DEF CopyTypes
<1>4. \A S : \A s \in Seq(S) : Len(s) \in Nat
  OBVIOUS
<1>5. /\ Len(src) \in Nat /\ Len(old) \in Nat /\ Len(dst) \in Nat
      /\ Len(buf) \in Nat /\ Len(out) \in Nat
  BY <1>2, <1>3, <1>4, Zenon
<1>6. Base \in Nat
  BY <1>5 DEF Base
<1> QED
  BY <1>1, <1>2, <1>3, <1>5, <1>6

-------------------------------------------------------------------------------
(* What a read, a write and a truncation make of a file.                   *)
LEMMA AsReadFacts ==
    ASSUME NEW f \in Seq(Copy!Bytes)
    PROVE  /\ Copy!AsRead(f) \in Seq(Nat) /\ Len(Copy!AsRead(f)) = Len(f)
           /\ \A k \in 1..Len(f) : Copy!AsRead(f)[k] = Byte(f[k])
<1> DEFINE g == Copy!AsRead(f)
<1>1. g = [k \in 1..Len(f) |-> Byte(f[k])]
  BY DEF Copy!AsRead, Byte
<1>2. \A k \in 1..Len(f) : Byte(f[k]) \in Nat
  <2>1. \A k \in 1..Len(f) : f[k] \in Copy!Bytes
    OBVIOUS
  <2> QED
    BY <2>1, CopyConstants
<1>3. Len(f) \in Nat
  OBVIOUS
<1> HIDE DEF g
<1>4. g \in [1..Len(f) -> Nat]
  BY <1>1, <1>2
<1>5. g \in Seq(Nat) /\ Len(g) = Len(f)
  BY <1>3, <1>4
<1>6. \A k \in 1..Len(f) : g[k] = Byte(f[k])
  BY <1>1
<1> QED
  BY <1>5, <1>6 DEF g

(* w is f after n bytes of d have been written at off.                     *)
Wrote(w, f, off, d, n) ==
    /\ w \in Seq(Copy!Bytes) /\ Len(w) \in Nat /\ Len(w) >= Len(f)
    /\ n = 0 => Len(w) = Len(f)
    /\ n > 0 => Len(w) >= off + n /\ (Len(w) > Len(f) => Len(w) = off + n)
    /\ \A k \in 1..Len(w) :
           /\ k > off /\ k <= off + n => w[k] = d[k - off]
           /\ ~(k > off /\ k <= off + n) /\ k <= Len(f) => w[k] = f[k]
           /\ ~(k > off /\ k <= off + n) /\ k > Len(f) => w[k] = Copy!HOLE

LEMMA WriteFacts ==
    ASSUME NEW f \in Seq(Copy!Bytes), NEW off \in Nat, NEW d \in Seq(Nat),
           NEW w, w = Copy!WriteAt(f, off, d)
    PROVE  Wrote(w, f, off, d, Len(d))
<1> DEFINE m == IF d = <<>> THEN Len(f) ELSE Copy!Max2(off + Len(d), Len(f))
           in(k) == k > off /\ k <= off + Len(d)
           At(k) == IF in(k) THEN d[k - off] ELSE IF k <= Len(f) THEN f[k] ELSE Copy!HOLE
<1>1. Len(f) \in Nat /\ Len(d) \in Nat /\ (d = <<>> <=> Len(d) = 0)
  OBVIOUS
<1>2. m \in Nat /\ m >= Len(f) /\ (Len(d) = 0 => m = Len(f))
      /\ (Len(d) > 0 => m >= off + Len(d) /\ (m > Len(f) => m = off + Len(d)))
  BY <1>1 DEF Copy!Max2
<1>3. w = [k \in 1..m |->
               CASE k \in off + 1..off + Len(d) -> d[k - off]
                 [] k \notin off + 1..off + Len(d) /\ k <= Len(f) -> f[k]
                 [] OTHER -> Copy!HOLE]
  BY DEF Copy!WriteAt
<1> HIDE DEF m
<1>4. \A k \in 1..m : (k \in off + 1..off + Len(d)) <=> in(k)
  BY <1>1, <1>2
<1>5. DOMAIN w = 1..m /\ \A k \in 1..m : w[k] = At(k)
  <2>1. DOMAIN w = 1..m
    BY <1>3
  <2>2. ASSUME NEW k \in 1..m PROVE w[k] = At(k)
    <3>1. w[k] = CASE k \in off + 1..off + Len(d) -> d[k - off]
                   [] k \notin off + 1..off + Len(d) /\ k <= Len(f) -> f[k]
                   [] OTHER -> Copy!HOLE
      BY <1>3
    <3>2. (k \in off + 1..off + Len(d)) <=> in(k)
      BY <1>4
    <3> HIDE DEF in
    <3> QED
      BY <3>1, <3>2
  <2> QED
    BY <2>1, <2>2
<1>6. \A k \in 1..m : At(k) \in Copy!Bytes
  <2> TAKE k \in 1..m
  <2>1. CASE in(k)
    <3>1. k - off \in 1..Len(d)
      BY <1>1, <1>2, <2>1
    <3>2. d[k - off] \in Nat
      BY <3>1
    <3> QED
      BY <2>1, <3>2, CopyConstants
  <2>2. CASE ~in(k) /\ k <= Len(f)
    <3>1. k \in 1..Len(f)
      BY <1>1, <1>2, <2>2
    <3>2. f[k] \in Copy!Bytes
      BY <3>1
    <3> HIDE DEF in
    <3> QED
      BY <2>2, <3>2
  <2>3. CASE ~in(k) /\ ~(k <= Len(f))
    <3> HIDE DEF in
    <3> QED
      BY <2>3, CopyConstants
  <2> QED
    BY <2>1, <2>2, <2>3
<1>7. w \in [1..m -> Copy!Bytes]
  <2>1. w = [k \in 1..m |-> w[k]]
    BY <1>3
  <2>2. \A k \in 1..m : w[k] \in Copy!Bytes
    <3> HIDE DEF At
    <3> QED
      BY <1>5, <1>6
  <2> QED
    BY <2>1, <2>2
<1>8. w \in Seq(Copy!Bytes) /\ Len(w) = m
  BY <1>2, <1>7
<1>9. \A k \in 1..m : /\ in(k) => w[k] = d[k - off]
                      /\ ~in(k) /\ k <= Len(f) => w[k] = f[k]
                      /\ ~in(k) /\ k > Len(f) => w[k] = Copy!HOLE
  <2>1. \A k \in 1..m : k > Len(f) => ~(k <= Len(f))
    BY <1>1, <1>2
  <2> HIDE DEF in
  <2> QED
    BY <1>5, <2>1
<1> QED
  BY <1>2, <1>8, <1>9 DEF Wrote

LEMMA TruncatedFacts ==
    ASSUME NEW f \in Seq(Copy!Bytes), NEW n \in Nat, NEW w, w = Copy!Truncated(f, n)
    PROVE  /\ w \in Seq(Copy!Bytes) /\ Len(w) = n
           /\ \A k \in 1..n : /\ k <= Len(f) => w[k] = f[k]
                              /\ k > Len(f) => w[k] = Copy!HOLE
<1>1. Len(f) \in Nat
  OBVIOUS
<1>2. w = [k \in 1..n |-> IF k <= Len(f) THEN f[k] ELSE Copy!HOLE]
  BY DEF Copy!Truncated
<1>3. \A k \in 1..n : w[k] \in Copy!Bytes
  <2> TAKE k \in 1..n
  <2>1. CASE k <= Len(f)
    <3>1. k \in 1..Len(f)
      BY <1>1, <2>1
    <3>2. f[k] \in Copy!Bytes
      BY <3>1
    <3> QED
      BY <1>2, <2>1, <3>2
  <2>2. CASE ~(k <= Len(f))
    BY <1>2, <2>2, CopyConstants
  <2> QED
    BY <2>1, <2>2
<1>4. w \in [1..n -> Copy!Bytes]
  BY <1>2, <1>3
<1>5. w \in Seq(Copy!Bytes) /\ Len(w) = n
  BY <1>4
<1>6. \A k \in 1..n : /\ k <= Len(f) => w[k] = f[k]
                      /\ k > Len(f) => w[k] = Copy!HOLE
  BY <1>1, <1>2
<1> QED
  BY <1>5, <1>6

(* A part of a sequence, and what stands behind n in it.                   *)
LEMMA PartFacts ==
    ASSUME NEW s \in Seq(Nat), NEW m \in Nat, NEW n \in Nat, m + n <= Len(s),
           NEW i, i = m + 1, NEW r, r = SubSeq(s, i, m + n)
    PROVE  /\ r \in Seq(Nat) /\ Len(r) = n
           /\ \A k \in 1..n : r[k] = s[m + k]
<1>1. \A k \in m + 1..m + n : s[k] \in Nat
  OBVIOUS
<1>2. r \in Seq(Nat) /\ Len(r) = n
  OBVIOUS
<1>3. ASSUME NEW k \in 1..n PROVE r[k] = s[m + k]
  <2>1. \A a, b \in Int : \A x \in 1..b - a + 1 : SubSeq(s, a, b)[x] = s[x + a - 1]
    OBVIOUS
  <2>2. m + 1 \in Int /\ m + n \in Int /\ k \in 1..(m + n) - (m + 1) + 1
        /\ k + (m + 1) - 1 = m + k
    OBVIOUS
  <2> QED
    BY <2>1, <2>2
<1> QED
  BY <1>2, <1>3

LEMMA Bases ==
    ASSUME CopyTypes
    PROVE  /\ prog = "tee_append" => Base = Len(old)
           /\ prog # "tee_append" => Base = 0
BY DEF Base

-------------------------------------------------------------------------------
(* One lemma for each call.                                                *)
LEMMA CopyInit == Copy!Init => CopyInv
<1> SUFFICES ASSUME Copy!Init PROVE CopyInv
  OBVIOUS
<1>1. /\ prog \in Copy!Programs /\ src \in Sources
      /\ exists \in BOOLEAN /\ same \in BOOLEAN
      /\ (same => exists /\ prog # "tee_append")
      /\ old \in (IF same THEN {src} ELSE IF exists THEN OldFiles ELSE {<<>>})
      /\ copyPc = "open" /\ dst = old /\ out = <<>> /\ inOff = 0 /\ outOff = 0
      /\ buf = <<>> /\ open = {"stdin", "input"} /\ failed = FALSE
  BY Zenon DEF Copy!Init
<1>t. InputTypes
  BY <1>1 DEF InputTypes
<1>2. \A S : <<>> \in Seq(S) /\ Len(<<>>) = 0
  OBVIOUS
<1>3. /\ dst \in Seq(Copy!Bytes) /\ src \in Seq(Copy!Bytes)
      /\ out \in Seq(Nat) /\ buf \in Seq(Nat) /\ Len(buf) = 0
  <2>1. Sources \subseteq Seq(Copy!Bytes) /\ OldFiles \subseteq Seq(Copy!Bytes)
    BY CopyConstants
  <2>2. src \in Sources /\ old \in OldFiles \cup {<<>>, src}
    BY <1>t DEF InputTypes
  <2> QED
    BY <1>1, <1>2, <2>1, <2>2, Zenon
<1>4. Len(buf) <= BUF_SIZE /\ inOff \in 0..Len(src) /\ outOff \in Nat
  <2>1. Len(src) \in Nat
    BY <1>3
  <2> QED
    BY <1>1, <1>3, <2>1, CopyConstants
<1>5. CopyTypes
  <2>1. /\ copyPc \in {"open", "read", "write", "end", "success", "failure"}
        /\ open \subseteq {"stdin", "input", "output"} /\ failed \in BOOLEAN
    BY <1>1
  <2> QED
    BY <1>1, <1>t, <1>3, <1>4, <2>1, Zenon DEF CopyTypes
<1>6. Base \in Nat /\ Len(src) \in Nat /\ Len(out) = 0
  BY <1>1, <1>2, <1>5, CopyFiles
<1>7. Itself
  BY <1>1 DEF Itself
<1> QED
  BY <1>1, <1>5, <1>6, <1>7 DEF CopyInv, Offsets, Gets, Prefix, Sparse

(* Nothing of the command line changes.                                    *)
LEMMA SameInputs ==
    ASSUME CopyTypes, UNCHANGED <<prog, src, old, exists, same>>
    PROVE  Base' = Base /\ InputTypes'
BY Zenon DEF CopyTypes, InputTypes, Base

LEMMA OpenStep == CopyInv /\ Copy!OpenOutput => CopyInv'
<1> SUFFICES ASSUME CopyInv, Copy!OpenOutput PROVE CopyInv'
  OBVIOUS
<1>1. CopyTypes /\ Offsets
  BY DEF CopyInv
<1>2. UNCHANGED <<prog, src, old, exists, same>> /\ UNCHANGED <<out, inOff, buf>>
  BY DEF Copy!OpenOutput, Copy!inputs
<1>3. /\ copyPc = "open" /\ dst = old /\ out = <<>> /\ inOff = 0 /\ outOff = 0
      /\ buf = <<>> /\ (prog = "copy" => ~failed)
  BY <1>1 DEF Offsets, Copy!OpenOutput
<1>4. /\ src \in Seq(Copy!Bytes) /\ old \in Seq(Copy!Bytes)
      /\ Len(src) \in Nat /\ Len(old) \in Nat /\ Base \in Nat
      /\ Len(out) = 0 /\ Len(buf) = 0
  BY <1>1, <1>3, CopyFiles
<1>t. same => old = src
  BY <1>1 DEF CopyTypes, InputTypes
<1>5. Base' = Base /\ InputTypes'
  BY <1>1, <1>2, SameInputs
<1>6. /\ prog = "tee_append" => Base = Len(old)
      /\ prog # "tee_append" => Base = 0
  BY <1>1, Bases
<1>7. CASE copyPc' # "failure"
  <2>1. /\ copyPc' = "read" /\ open' = open \cup {"output"} /\ failed' = failed
        /\ prog = "copy" => dst' = <<>>
        /\ prog # "copy" => dst' = dst
        /\ prog = "tee_append" => outOff' = Len(dst)
        /\ prog # "tee_append" => outOff' = 0
    BY <1>7 DEF Copy!OpenOutput, Copy!Fail
  <2>2. /\ outOff' = Base /\ dst' \in Seq(Copy!Bytes) /\ Len(dst') \in Nat
        /\ (prog = "copy" => Len(dst') = 0) /\ (prog # "copy" => dst' = old)
    <3>1. <<>> \in Seq(Copy!Bytes) /\ Len(<<>>) = 0
      OBVIOUS
    <3> QED
      BY <1>3, <1>4, <1>6, <2>1, <3>1
  <2>3. CopyTypes'
    <3>1. open' \subseteq {"stdin", "input", "output"} /\ failed' \in BOOLEAN
      BY <1>1, <2>1 DEF CopyTypes
    <3>2. out' \in Seq(Nat) /\ buf' \in Seq(Nat) /\ Len(buf') <= BUF_SIZE
      BY <1>1, <1>2 DEF CopyTypes
    <3>3. inOff' \in 0..Len(src') /\ outOff' \in Nat
      BY <1>2, <1>3, <1>4, <2>2
    <3>4. copyPc' \in {"open", "read", "write", "end", "success", "failure"}
      BY <2>1
    <3> QED
      BY <1>5, <2>2, <3>1, <3>2, <3>3, <3>4, Zenon DEF CopyTypes
  <2>4. Offsets' /\ Gets'
    BY <1>2, <1>3, <1>4, <1>5, <2>1, <2>2 DEF Offsets, Gets
  <2>5. Prefix'
    BY <1>2, <1>3, <1>4, <1>5, <1>6, <2>1, <2>2 DEF Prefix
  <2>6. Sparse'
    BY <1>2, <1>3, <1>4, <1>5, <1>6, <2>1, <2>2 DEF Sparse
  <2>7. Itself'
    BY <1>2, <1>3, <1>t, <2>1, <2>2 DEF Itself
  <2> QED
    BY <2>3, <2>4, <2>5, <2>6, <2>7 DEF CopyInv
<1>8. CASE copyPc' = "failure"
  <2>1. failed' = TRUE /\ UNCHANGED <<open, dst, outOff>>
    BY <1>8 DEF Copy!OpenOutput, Copy!Fail
  <2>2. CopyTypes'
    BY <1>1, <1>2, <1>5, <1>8, <2>1 DEF CopyTypes
  <2>3. Offsets' /\ Gets'
    BY <1>2, <1>3, <1>4, <1>5, <1>8, <2>1 DEF Offsets, Gets
  <2>4. Prefix' /\ Sparse'
    BY <1>2, <1>3, <1>4, <1>5, <1>8, <2>1 DEF Prefix, Sparse
  <2>5. Itself'
    BY <1>2, <1>3, <1>t, <1>8, <2>1 DEF Itself
  <2> QED
    BY <2>2, <2>3, <2>4, <2>5 DEF CopyInv
<1> QED
  BY <1>7, <1>8

(* What a read() finds in a file that is the output as well.               *)
LEMMA InputFacts ==
    ASSUME CopyInv, copyPc = "read"
    PROVE  /\ Copy!Input \in Seq(Copy!Bytes) /\ inOff <= Len(Copy!Input)
           /\ same /\ prog = "copy" => Len(Copy!Input) = 0
           /\ ~(same /\ prog = "copy") =>
                  /\ Len(Copy!Input) = Len(src)
                  /\ \A k \in 1..Len(src) : Byte(Copy!Input[k]) = Byte(src[k])
<1>1. CopyTypes /\ Itself
  BY DEF CopyInv
<1>2. src \in Seq(Copy!Bytes) /\ dst \in Seq(Copy!Bytes) /\ inOff <= Len(src)
  BY <1>1, CopyFiles DEF CopyTypes
<1>3. (same => Copy!Input = dst) /\ (~same => Copy!Input = src)
  BY DEF Copy!Input
<1>4. CASE same
  <2>1. Copy!Input = dst
    BY <1>3, <1>4
  <2>2. /\ prog = "copy" => Len(dst) = 0 /\ inOff = 0
        /\ prog # "copy" =>
               Len(dst) = Len(src) /\ \A k \in 1..Len(src) : Byte(dst[k]) = Byte(src[k])
    BY <1>1, <1>4 DEF Itself
  <2>3. prog = "copy" => inOff <= Len(dst)
    BY <2>2
  <2> QED
    BY <1>2, <1>4, <2>1, <2>2, <2>3
<1>5. CASE ~same
  BY <1>2, <1>3, <1>5
<1> QED
  BY <1>4, <1>5

LEMMA ReadStep == CopyInv /\ Copy!Read => CopyInv'
<1> SUFFICES ASSUME CopyInv, Copy!Read PROVE CopyInv'
  OBVIOUS
<1>1. CopyTypes /\ Offsets /\ Gets /\ Prefix /\ Sparse /\ Itself
  BY DEF CopyInv
<1>2. /\ UNCHANGED <<prog, src, old, exists, same>>
      /\ UNCHANGED <<dst, out, outOff, open, failed>>
      /\ copyPc = "read" /\ copyPc' = "write"
  BY DEF Copy!Read, Copy!inputs
<1> DEFINE f == Copy!Input
           s == Copy!AsRead(f)
<1>3. PICK n \in Copy!ReadSizes :
          /\ buf' = SubSeq(s, inOff + 1, inOff + n)
          /\ inOff' = inOff + n
  BY DEF Copy!Read
<1>4. /\ src \in Seq(Copy!Bytes) /\ Len(src) \in Nat /\ Base \in Nat
      /\ inOff \in Nat /\ inOff <= Len(src) /\ outOff \in Nat
  BY <1>1, CopyFiles
<1>i. /\ f \in Seq(Copy!Bytes) /\ Len(f) \in Nat /\ inOff <= Len(f)
      /\ same /\ prog = "copy" => Len(f) = 0
      /\ ~(same /\ prog = "copy") =>
             Len(f) = Len(src) /\ \A k \in 1..Len(src) : Byte(f[k]) = Byte(src[k])
  <2>1. f \in Seq(Copy!Bytes)
    BY <1>2, InputFacts
  <2> QED
    BY <1>2, <2>1, InputFacts
<1>n. n \in 1..BUF_SIZE /\ inOff + n <= Len(f)
  <2> DEFINE most == Copy!Min2(BUF_SIZE, Len(f) - inOff)
  <2>1. most \in Nat /\ most <= BUF_SIZE /\ inOff + most <= Len(f)
    BY <1>4, <1>i, CopyConstants DEF Copy!Min2
  <2>2. n \in 1..most \/ n \in {most} \ {0}
    BY <1>3 DEF Copy!ReadSizes
  <2> HIDE DEF most, f
  <2>3. BUF_SIZE \in Nat /\ Len(f) \in Nat /\ inOff \in Nat
    BY <1>4, <1>i, CopyConstants
  <2>4. n \in Nat /\ n >= 1 /\ n <= most
    BY <2>1, <2>2
  <2> QED
    BY <2>1, <2>3, <2>4
<1>5. n \in Nat /\ n <= BUF_SIZE /\ inOff + n <= Len(src) /\ ~(same /\ prog = "copy")
  BY <1>4, <1>i, <1>n, CopyConstants
<1>6. Base' = Base /\ InputTypes'
  BY <1>1, <1>2, SameInputs
<1>7. s \in Seq(Nat) /\ Len(s) = Len(src) /\ \A k \in 1..Len(src) : s[k] = Byte(src[k])
  <2> HIDE DEF f
  <2>1. s \in Seq(Nat) /\ Len(s) = Len(f) /\ \A k \in 1..Len(f) : s[k] = Byte(f[k])
    BY <1>i, AsReadFacts
  <2> HIDE DEF s
  <2> QED
    BY <1>5, <1>i, <2>1
<1> HIDE DEF s, f
<1>8. buf' \in Seq(Nat) /\ Len(buf') = n /\ \A k \in 1..n : buf'[k] = s[inOff + k]
  <2>1. PICK r : r = SubSeq(s, inOff + 1, inOff + n)
    OBVIOUS
  <2>2. inOff + n <= Len(s)
    BY <1>5, <1>7
  <2>3. r \in Seq(Nat) /\ Len(r) = n /\ \A k \in 1..n : r[k] = s[inOff + k]
    <3>1. s \in Seq(Nat) /\ inOff \in Nat /\ n \in Nat /\ inOff + n <= Len(s)
      BY <1>4, <1>5, <1>7, <2>2
    <3> QED
      BY <2>1, <3>1, PartFacts
  <2>4. buf' = r
    BY <1>3, <2>1
  <2> QED
    BY <2>3, <2>4, Zenon
<1>9. outOff = Base + inOff
  BY <1>1, <1>2 DEF Offsets
<1>10. \A k \in 1..n : buf'[k] = Byte(src[outOff - Base + k])
  <2> TAKE k \in 1..n
  <2>1. inOff + k \in 1..Len(src) /\ outOff - Base + k = inOff + k
    BY <1>4, <1>5, <1>9
  <2> QED
    BY <1>7, <1>8, <2>1
<1>11. CopyTypes'
  <2>1. /\ dst' \in Seq(Copy!Bytes) /\ out' \in Seq(Nat) /\ outOff' \in Nat
        /\ open' \subseteq {"stdin", "input", "output"} /\ failed' \in BOOLEAN
    BY <1>1, <1>2 DEF CopyTypes
  <2>2. inOff' \in 0..Len(src') /\ Len(buf') <= BUF_SIZE
    <3>1. Len(buf') = n /\ Len(src') = Len(src)
      BY <1>2, <1>8
    <3> QED
      BY <1>3, <1>4, <1>5, <3>1
  <2>3. copyPc' \in {"open", "read", "write", "end", "success", "failure"}
    BY <1>2
  <2> QED
    BY <1>6, <1>8, <2>1, <2>2, <2>3, Zenon DEF CopyTypes
<1>12. Offsets'
  <2>1. /\ outOff' <= Base' + inOff' /\ Base' <= outOff'
        /\ outOff' + Len(buf') = Base' + inOff'
    <3>1. Len(buf') = n /\ Base' = Base /\ outOff' = outOff
      BY <1>2, <1>6, <1>8
    <3> QED
      BY <1>3, <1>4, <1>5, <1>9, <3>1
  <2>2. \A k \in 1..Len(buf') : buf'[k] = Byte(src'[outOff' - Base' + k])
    BY <1>2, <1>6, <1>8, <1>10
  <2>3. prog' = "copy" => ~failed'
    BY <1>1, <1>2 DEF Offsets
  <2> QED
    BY <1>2, <2>1, <2>2, <2>3 DEF Offsets
<1>13. Gets' /\ Prefix'
  BY <1>1, <1>2, <1>6 DEF Gets, Prefix
<1>14. Sparse' /\ Itself'
  BY <1>1, <1>2, <1>5 DEF Sparse, RightAt, Itself
<1> QED
  BY <1>11, <1>12, <1>13, <1>14 DEF CopyInv

LEMMA ReadEndsStep == CopyInv /\ Copy!ReadEnds => CopyInv'
<1> SUFFICES ASSUME CopyInv, Copy!ReadEnds PROVE CopyInv'
  OBVIOUS
<1>1. CopyTypes /\ Offsets /\ Gets /\ Prefix /\ Sparse /\ Itself
  BY DEF CopyInv
<1>2. /\ UNCHANGED <<prog, src, old, exists, same>>
      /\ UNCHANGED <<dst, out, inOff, outOff, buf, open>>
      /\ copyPc = "read"
  BY DEF Copy!ReadEnds, Copy!inputs
<1>3. \/ /\ ~(same /\ prog = "copy") => inOff = Len(src)
         /\ copyPc' = "end" /\ failed' = failed
      \/ failed' = TRUE /\ prog = "copy" /\ copyPc' = "failure"
      \/ failed' = TRUE /\ prog # "copy" /\ copyPc' = "end"
  <2>1. ~(same /\ prog = "copy") => Len(Copy!Input) = Len(src)
    BY <1>2, InputFacts
  <2> QED
    BY <2>1 DEF Copy!ReadEnds
<1>4. Base' = Base /\ InputTypes'
  BY <1>1, <1>2, SameInputs
<1>5. CopyTypes'
  BY <1>1, <1>2, <1>3, <1>4 DEF CopyTypes
<1>6. Offsets'
  BY <1>1, <1>2, <1>3, <1>4 DEF Offsets
<1>7. Gets'
  BY <1>1, <1>2, <1>3, <1>4 DEF Gets
<1>8. Prefix'
  BY <1>1, <1>2, <1>3, <1>4 DEF Prefix
<1>9. Sparse'
  BY <1>1, <1>2, <1>3, <1>4 DEF Sparse, RightAt
<1>10. Itself'
  BY <1>1, <1>2, <1>3 DEF Itself
<1> QED
  BY <1>5, <1>6, <1>7, <1>8, <1>9, <1>10 DEF CopyInv

LEMMA SkipStep == CopyInv /\ Copy!SkipHole => CopyInv'
<1> SUFFICES ASSUME CopyInv, Copy!SkipHole PROVE CopyInv'
  OBVIOUS
<1>1. CopyTypes /\ Offsets /\ Gets /\ Sparse /\ Itself
  BY DEF CopyInv
<1>2. /\ UNCHANGED <<prog, src, old, exists, same>>
      /\ UNCHANGED <<dst, out, inOff, buf, open, failed>>
      /\ copyPc = "write" /\ copyPc' = "read" /\ outOff' = outOff + Len(buf)
      /\ prog = "cp_hole"
  BY DEF Copy!SkipHole, Copy!SkipsZeros, Copy!inputs
<1>3. /\ Len(src) \in Nat /\ Base = 0 /\ inOff \in Nat /\ outOff \in Nat
      /\ Len(buf) \in Nat /\ Len(dst) \in Nat /\ Len(old) \in Nat
  BY <1>1, <1>2, CopyFiles, Bases
<1>4. Base' = Base /\ InputTypes'
  BY <1>1, <1>2, SameInputs
<1>5. \A k \in 1..Len(buf) : buf[k] = 0 /\ buf[k] = Byte(src[outOff - Base + k])
  <2>1. DOMAIN buf = 1..Len(buf)
    BY <1>1 DEF CopyTypes
  <2>2. \A k \in DOMAIN buf : buf[k] = 0
    BY DEF Copy!SkipHole, Copy!SkipsZeros, Copy!Zeros
  <2> QED
    BY <1>1, <1>2, <2>1, <2>2 DEF Offsets
<1>6. outOff' = Base + inOff
  BY <1>1, <1>2 DEF Offsets
<1>7. CopyTypes'
  BY <1>1, <1>2, <1>3, <1>4 DEF CopyTypes
<1>8. Offsets'
  BY <1>1, <1>2, <1>3, <1>4, <1>6 DEF Offsets
<1>9. ASSUME NEW k \in Nat, k > outOff, k <= outOff' PROVE Byte(src[k]) = 0
  <2>1. k - outOff \in 1..Len(buf) /\ outOff - Base + (k - outOff) = k
    BY <1>2, <1>3, <1>9
  <2> QED
    BY <1>5, <2>1
<1>10. /\ \A k \in 1..Len(dst) : k <= outOff => RightAt(k)
       /\ \A k \in 1..outOff : k > Len(dst) => Byte(src[k]) = 0
       /\ Len(old) <= Len(dst)
       /\ Len(dst) > Len(old) => Len(dst) <= outOff
       /\ \A k \in 1..Len(old) : k > outOff => dst[k] = old[k]
  BY <1>1, <1>2 DEF Sparse
<1>11. ASSUME NEW k \in 1..Len(dst), k <= outOff' PROVE RightAt(k)
  <2>1. CASE k > outOff
    <3>1. k \in 1..Len(old)
      BY <1>3, <1>10, <2>1
    <3> QED
      BY <1>9, <1>10, <1>11, <2>1, <3>1 DEF RightAt
  <2> QED
    BY <1>3, <1>10, <2>1
<1>12. ASSUME NEW k \in 1..outOff', k > Len(dst) PROVE Byte(src[k]) = 0
  <2>1. CASE k > outOff
    BY <1>2, <1>3, <1>9, <2>1
  <2>2. CASE ~(k > outOff)
    <3>1. k \in 1..outOff
      BY <1>2, <1>3, <2>2
    <3> QED
      BY <1>10, <1>12, <3>1
  <2> QED
    BY <2>1, <2>2
<1>13. /\ Len(dst) > Len(old) => Len(dst) <= outOff'
       /\ \A k \in 1..Len(old) : k > outOff' => dst[k] = old[k]
  BY <1>2, <1>3, <1>10
<1>14. Sparse'
  BY <1>2, <1>10, <1>11, <1>12, <1>13 DEF Sparse, RightAt
<1>15. Gets' /\ Prefix' /\ Itself'
  BY <1>1, <1>2 DEF Gets, Prefix, Itself
<1> QED
  BY <1>7, <1>8, <1>14, <1>15 DEF CopyInv

(* A part d of the block, up to n bytes of it, at outOff.                  *)
LEMMA WrittenRight ==
    ASSUME CopyInv, copyPc = "write", NEW n \in 0..Len(buf),
           NEW w, w = Copy!WriteAt(dst, outOff, SubSeq(buf, 1, n))
    PROVE  /\ w \in Seq(Copy!Bytes) /\ Len(w) \in Nat /\ Len(w) >= Len(dst)
           /\ n = 0 => Len(w) = Len(dst)
           /\ n > 0 => /\ Len(w) >= outOff + n
                       /\ Len(w) > Len(dst) => Len(w) = outOff + n
           /\ \A k \in 1..Len(w) :
                  /\ k > outOff /\ k <= outOff + n => Byte(w[k]) = Byte(src[k - Base])
                  /\ ~(k > outOff /\ k <= outOff + n) /\ k <= Len(dst) => w[k] = dst[k]
                  /\ ~(k > outOff /\ k <= outOff + n) /\ k > Len(dst) => Byte(w[k]) = 0
<1> DEFINE d == SubSeq(buf, 1, n)
           in(k) == k > outOff /\ k <= outOff + n
<1>1. CopyTypes /\ Offsets
  BY DEF CopyInv
<1>2. /\ Len(buf) \in Nat /\ n \in Nat /\ n <= Len(buf) /\ outOff \in Nat
      /\ Base \in Nat /\ Len(dst) \in Nat
  BY <1>1, CopyFiles
<1>3. dst \in Seq(Copy!Bytes) /\ buf \in Seq(Nat)
  BY <1>1 DEF CopyTypes
<1>4. d \in Seq(Nat) /\ Len(d) = n /\ \A k \in 1..n : d[k] = buf[k]
  <2>1. 0 + 1 = 1 /\ 0 + n = n /\ 0 + n <= Len(buf) /\ 0 \in Nat /\ \A k \in 1..n : 0 + k = k
    BY <1>2
  <2>2. \A s \in Seq(Nat) : 0 + n <= Len(s) =>
            LET r == SubSeq(s, 1, 0 + n) IN
            r \in Seq(Nat) /\ Len(r) = n /\ \A k \in 1..n : r[k] = s[0 + k]
    BY <1>2, <2>1, PartFacts
  <2> QED
    BY <1>3, <2>1, <2>2
<1> HIDE DEF d
<1>5. w = Copy!WriteAt(dst, outOff, d)
  BY DEF d
<1>6. /\ w \in Seq(Copy!Bytes) /\ Len(w) \in Nat /\ Len(w) >= Len(dst)
      /\ n = 0 => Len(w) = Len(dst)
      /\ n > 0 => /\ Len(w) >= outOff + n
                  /\ Len(w) > Len(dst) => Len(w) = outOff + n
      /\ \A k \in 1..Len(w) :
             /\ in(k) => w[k] = d[k - outOff]
             /\ ~in(k) /\ k <= Len(dst) => w[k] = dst[k]
             /\ ~in(k) /\ k > Len(dst) => w[k] = Copy!HOLE
  <2>1. Wrote(w, dst, outOff, d, Len(d))
    BY <1>2, <1>3, <1>4, <1>5, WriteFacts
  <2>2. Wrote(w, dst, outOff, d, n)
    BY <1>4, <2>1
  <2> QED
    BY <2>2 DEF Wrote
<1>7. \A k \in 1..Len(buf) : buf[k] \in Nat /\ buf[k] = Byte(src[outOff - Base + k])
  BY <1>1, <1>3 DEF Offsets
<1>8. ASSUME NEW k \in 1..Len(w), in(k) PROVE Byte(w[k]) = Byte(src[k - Base])
  <2>1. /\ k - outOff \in 1..n /\ k - outOff \in 1..Len(buf)
        /\ outOff - Base + (k - outOff) = k - Base
    BY <1>2, <1>6, <1>8
  <2>2. w[k] = buf[k - outOff]
    BY <1>4, <1>6, <1>8, <2>1
  <2>3. buf[k - outOff] \in Nat /\ buf[k - outOff] = Byte(src[k - Base])
    BY <1>7, <2>1
  <2> QED
    BY <2>2, <2>3, CopyConstants
<1>9. ASSUME NEW k \in 1..Len(w), ~in(k), k > Len(dst) PROVE Byte(w[k]) = 0
  BY <1>6, <1>9, CopyConstants
<1> QED
  BY <1>6, <1>8, <1>9

LEMMA PrefixWritten ==
    ASSUME CopyInv, copyPc = "write", NEW n \in 0..Len(buf),
           dst' = Copy!WriteAt(dst, outOff, SubSeq(buf, 1, n)), outOff' = outOff + n,
           UNCHANGED <<prog, src, old, exists, same>>
    PROVE  Prefix'
<1> SUFFICES ASSUME prog # "cp_hole" PROVE Prefix'
  BY DEF Prefix
<1>1. CopyTypes /\ Offsets /\ Prefix
  BY DEF CopyInv
<1>2. /\ Len(dst) \in Nat /\ outOff \in Nat /\ n \in Nat /\ Len(old) \in Nat
      /\ Base \in Nat /\ Base' = Base
  BY <1>1, CopyFiles, SameInputs
<1>3. /\ Len(dst') \in Nat /\ Len(dst') >= Len(dst)
      /\ n = 0 => Len(dst') = Len(dst)
      /\ n > 0 => /\ Len(dst') >= outOff + n
                  /\ Len(dst') > Len(dst) => Len(dst') = outOff + n
      /\ \A k \in 1..Len(dst') :
             /\ k > outOff /\ k <= outOff + n => Byte(dst'[k]) = Byte(src[k - Base])
             /\ ~(k > outOff /\ k <= outOff + n) /\ k <= Len(dst) => dst'[k] = dst[k]
  BY WrittenRight
<1>4. /\ outOff <= Len(dst) /\ Base <= outOff
      /\ prog = "copy" => Len(dst) = outOff
      /\ prog # "copy" => /\ Len(old) <= Len(dst)
                          /\ Len(dst) > Len(old) => Len(dst) = outOff
                          /\ \A k \in outOff + 1..Len(old) : dst[k] = old[k]
  BY <1>1 DEF Offsets, Prefix
<1>5. outOff' <= Len(dst')
  BY <1>2, <1>3, <1>4
<1>6. ASSUME NEW k \in 1..outOff'
      PROVE  /\ k <= Base => Byte(dst'[k]) = Byte(old[k])
             /\ k > Base => Byte(dst'[k]) = Byte(src[k - Base])
  <2>1. k \in 1..Len(dst')
    BY <1>2, <1>3, <1>5
  <2>2. CASE k <= outOff
    <3>1. k \in 1..outOff /\ k <= Len(dst)
      BY <1>2, <1>4, <2>2
    <3>2. dst'[k] = dst[k]
      BY <1>2, <1>3, <2>1, <2>2, <3>1
    <3> QED
      BY <1>1, <3>1, <3>2 DEF Prefix
  <2>3. CASE ~(k <= outOff)
    BY <1>2, <1>3, <1>4, <2>1, <2>3
  <2> QED
    BY <2>2, <2>3
<1>7. prog = "copy" => Len(dst') = outOff'
  BY <1>2, <1>3, <1>4
<1>8. ASSUME prog # "copy"
      PROVE  Len(old) <= Len(dst') /\ (Len(dst') > Len(old) => Len(dst') = outOff')
  BY <1>2, <1>3, <1>4, <1>8
<1>9. ASSUME prog # "copy", NEW k \in outOff' + 1..Len(old) PROVE dst'[k] = old[k]
  <2>1. /\ k \in outOff + 1..Len(old) /\ k \in 1..Len(dst') /\ k <= Len(dst)
        /\ ~(k <= outOff + n)
    BY <1>2, <1>3, <1>4, <1>9
  <2> QED
    BY <1>3, <1>4, <1>9, <2>1
<1> QED
  BY <1>2, <1>5, <1>6, <1>7, <1>8, <1>9 DEF Prefix

LEMMA SparseWritten ==
    ASSUME CopyInv, copyPc = "write", NEW n \in 0..Len(buf),
           dst' = Copy!WriteAt(dst, outOff, SubSeq(buf, 1, n)), outOff' = outOff + n,
           UNCHANGED <<prog, src, old, exists, same>>, copyPc' # "success"
    PROVE  Sparse'
<1> SUFFICES ASSUME prog = "cp_hole" PROVE Sparse'
  BY DEF Sparse
<1>1. CopyTypes /\ Sparse
  BY DEF CopyInv
<1>2. /\ Len(dst) \in Nat /\ outOff \in Nat /\ n \in Nat /\ Base = 0
      /\ Len(old) \in Nat
  BY <1>1, CopyFiles, Bases
<1>3. /\ Len(dst') \in Nat /\ Len(dst') >= Len(dst)
      /\ n = 0 => Len(dst') = Len(dst)
      /\ n > 0 => /\ Len(dst') >= outOff + n
                  /\ Len(dst') > Len(dst) => Len(dst') = outOff + n
      /\ \A k \in 1..Len(dst') :
             /\ k > outOff /\ k <= outOff + n => Byte(dst'[k]) = Byte(src[k - Base])
             /\ ~(k > outOff /\ k <= outOff + n) /\ k <= Len(dst) => dst'[k] = dst[k]
             /\ ~(k > outOff /\ k <= outOff + n) /\ k > Len(dst) => Byte(dst'[k]) = 0
  BY WrittenRight
<1>4. /\ \A k \in 1..Len(dst) : k <= outOff => RightAt(k)
      /\ \A k \in 1..outOff : k > Len(dst) => Byte(src[k]) = 0
      /\ Len(old) <= Len(dst)
      /\ Len(dst) > Len(old) => Len(dst) <= outOff
      /\ \A k \in 1..Len(old) : k > outOff => dst[k] = old[k]
  BY <1>1 DEF Sparse
<1>5. /\ Len(old) <= Len(dst')
      /\ Len(dst') > Len(old) => Len(dst') <= outOff'
  BY <1>2, <1>3, <1>4
<1>6. ASSUME NEW k \in 1..Len(dst'), k <= outOff'
      PROVE  \/ Byte(dst'[k]) = Byte(src[k])
             \/ Byte(src[k]) = 0 /\ k <= Len(old) /\ Byte(dst'[k]) = Byte(old[k])
  <2>1. CASE k > outOff
    <3>1. k <= outOff + n /\ k - Base = k
      BY <1>2, <1>3, <1>6
    <3> QED
      BY <1>3, <2>1, <3>1
  <2>2. CASE ~(k > outOff) /\ k <= Len(dst)
    <3>1. k \in 1..Len(dst) /\ k <= outOff /\ dst'[k] = dst[k]
      BY <1>2, <1>3, <2>2
    <3> QED
      BY <1>4, <3>1 DEF RightAt
  <2>3. CASE ~(k > outOff) /\ k > Len(dst)
    <3>1. k \in 1..outOff /\ Byte(dst'[k]) = 0
      BY <1>2, <1>3, <2>3
    <3> QED
      BY <1>4, <2>3, <3>1
  <2> QED
    BY <1>2, <1>3, <2>1, <2>2, <2>3
<1>7. ASSUME NEW k \in 1..outOff', k > Len(dst') PROVE Byte(src[k]) = 0
  <2>1. k \in 1..outOff /\ k > Len(dst)
    BY <1>2, <1>3, <1>7
  <2> QED
    BY <1>4, <2>1
<1>8. ASSUME NEW k \in 1..Len(old), k > outOff' PROVE dst'[k] = old[k]
  <2>1. /\ k \in 1..Len(dst') /\ k <= Len(dst) /\ k > outOff
        /\ ~(k <= outOff + n)
    BY <1>2, <1>4, <1>5, <1>8
  <2> QED
    BY <1>3, <1>4, <2>1
<1> QED
  BY <1>5, <1>6, <1>7, <1>8 DEF Sparse, RightAt

(* What is written into the input itself is what stands there.             *)
LEMMA ItselfWritten ==
    ASSUME CopyInv, copyPc = "write", NEW n \in 0..Len(buf),
           dst' = Copy!WriteAt(dst, outOff, SubSeq(buf, 1, n)),
           UNCHANGED <<prog, src, old, exists, same>>, copyPc' \in {"read", "failure"}
    PROVE  Itself'
<1>1. CopyTypes /\ Offsets /\ Itself
  BY DEF CopyInv
<1> SUFFICES ASSUME same, prog # "copy"
             PROVE  /\ Len(dst') = Len(src)
                    /\ \A k \in 1..Len(src) : Byte(dst'[k]) = Byte(src[k])
  BY <1>1 DEF Itself
<1>2. /\ Len(dst) \in Nat /\ outOff \in Nat /\ n \in Nat /\ n <= Len(buf)
      /\ Len(buf) \in Nat /\ Len(src) \in Nat /\ inOff \in Nat /\ inOff <= Len(src)
  BY <1>1, CopyFiles
<1>3. Base = 0
  BY <1>1, Bases DEF CopyTypes, InputTypes
<1>4. /\ Len(dst) = Len(src)
      /\ \A k \in 1..Len(src) : Byte(dst[k]) = Byte(src[k])
      /\ outOff + Len(buf) = Base + inOff
  BY <1>1 DEF Itself, Offsets
<1>5. /\ Len(dst') \in Nat /\ Len(dst') >= Len(dst)
      /\ n = 0 => Len(dst') = Len(dst)
      /\ n > 0 => (Len(dst') > Len(dst) => Len(dst') = outOff + n)
      /\ \A k \in 1..Len(dst') :
             /\ k > outOff /\ k <= outOff + n => Byte(dst'[k]) = Byte(src[k - Base])
             /\ ~(k > outOff /\ k <= outOff + n) /\ k <= Len(dst) => dst'[k] = dst[k]
  BY WrittenRight
<1>6. Len(dst') = Len(src)
  BY <1>2, <1>3, <1>4, <1>5
<1>7. ASSUME NEW k \in 1..Len(src) PROVE Byte(dst'[k]) = Byte(src[k])
  <2>1. k \in 1..Len(dst') /\ k <= Len(dst) /\ k - Base = k
    BY <1>2, <1>3, <1>4, <1>6
  <2> QED
    BY <1>4, <1>5, <2>1
<1> QED
  BY <1>6, <1>7

LEMMA WriteStep == CopyInv /\ Copy!WriteBlock => CopyInv'
<1> SUFFICES ASSUME CopyInv, Copy!WriteBlock PROVE CopyInv'
  OBVIOUS
<1>1. CopyTypes /\ Offsets /\ Gets
  BY DEF CopyInv
<1>2. /\ UNCHANGED <<prog, src, old, exists, same>> /\ UNCHANGED <<inOff, buf, open>>
      /\ copyPc = "write"
  BY DEF Copy!WriteBlock, Copy!inputs
<1>3. PICK n \in 0..Len(buf) :
          /\ dst' = Copy!WriteAt(dst, outOff, SubSeq(buf, 1, n))
          /\ outOff' = outOff + n
          /\ IF prog \in {"copy", "cp_hole"}
             THEN /\ IF n = Len(buf) THEN copyPc' = "read" /\ failed' = failed
                                     ELSE failed' = TRUE /\ copyPc' = "failure"
                  /\ out' = out
             ELSE \E m \in 0..Len(buf) :
                      /\ out' = out \o SubSeq(buf, 1, m)
                      /\ IF n = Len(buf) /\ m = n
                         THEN copyPc' = "read" /\ failed' = failed
                         ELSE failed' = TRUE /\ copyPc' = "failure"
  BY DEF Copy!WriteBlock, Copy!Fail
<1>4. \/ copyPc' = "read" /\ failed' = failed /\ n = Len(buf)
      \/ copyPc' = "failure" /\ failed' = TRUE
  BY <1>3
<1>5. /\ Base \in Nat /\ inOff \in Nat /\ outOff \in Nat /\ n \in Nat /\ n <= Len(buf)
      /\ Len(buf) \in Nat /\ Len(out) \in Nat
  BY <1>1, CopyFiles
<1>6. Base' = Base
  BY <1>1, <1>2, SameInputs
<1>7. InputTypes'
  BY <1>1, <1>2, SameInputs
<1>8. buf \in Seq(Nat) /\ out \in Seq(Nat)
  BY <1>1 DEF CopyTypes
<1>9. ASSUME NEW m \in 0..Len(buf)
      PROVE  /\ SubSeq(buf, 1, m) \in Seq(Nat) /\ Len(SubSeq(buf, 1, m)) = m
             /\ \A k \in 1..m : SubSeq(buf, 1, m)[k] = buf[k]
  <2>1. 0 + 1 = 1 /\ 0 + m = m /\ m \in Nat /\ \A k \in 1..m : 0 + k = k
    BY <1>5
  <2>2. \A s \in Seq(Nat) : 0 + m <= Len(s) =>
            LET r == SubSeq(s, 1, 0 + m) IN
            r \in Seq(Nat) /\ Len(r) = m /\ \A k \in 1..m : r[k] = s[0 + k]
    BY <2>1, PartFacts
  <2> QED
    BY <1>5, <1>8, <2>1, <2>2
<1>10. /\ prog \in {"copy", "cp_hole"} => out' = out
       /\ prog \notin {"copy", "cp_hole"} =>
              \E m \in 0..Len(buf) :
                  /\ out' \in Seq(Nat) /\ Len(out') = Len(out) + m
                  /\ copyPc' = "read" => m = Len(buf)
                  /\ \A k \in 1..Len(out) + m :
                         /\ k <= Len(out) => out'[k] = out[k]
                         /\ k > Len(out) => out'[k] = buf[k - Len(out)]
  <2>1. CASE prog \in {"copy", "cp_hole"}
    BY <1>3, <2>1
  <2>2. CASE prog \notin {"copy", "cp_hole"}
    <3>1. PICK m \in 0..Len(buf) : /\ out' = out \o SubSeq(buf, 1, m)
                                   /\ copyPc' = "read" => m = Len(buf)
      BY <1>3, <2>2
    <3>2. PICK d : d = SubSeq(buf, 1, m)
      OBVIOUS
    <3>3. d \in Seq(Nat) /\ Len(d) = m /\ \A k \in 1..m : d[k] = buf[k]
      BY <1>9, <3>2
    <3>4. out' \in Seq(Nat) /\ Len(out') = Len(out) + m
      BY <1>8, <3>1, <3>2, <3>3
    <3>5. \A k \in 1..Len(out) + m : /\ k <= Len(out) => out'[k] = out[k]
                                     /\ k > Len(out) => out'[k] = d[k - Len(out)]
      <4>1. out' = out \o d
        BY <3>1, <3>2
      <4>2. \A k \in 1..Len(out) + Len(d) :
                (out \o d)[k] = IF k <= Len(out) THEN out[k] ELSE d[k - Len(out)]
        BY <1>8, <3>3
      <4>3. \A k \in 1..Len(out) + m : k > Len(out) => ~(k <= Len(out))
        BY <1>5
      <4> QED
        BY <3>3, <4>1, <4>2, <4>3
    <3>6. \A k \in 1..Len(out) + m : k > Len(out) => k - Len(out) \in 1..m
      BY <1>5
    <3> QED
      BY <2>2, <3>1, <3>3, <3>4, <3>5, <3>6
  <2> QED
    BY <2>1, <2>2
<1>o. out' \in Seq(Nat)
  BY <1>8, <1>10
<1>11. CopyTypes'
  <2>1. dst' \in Seq(Copy!Bytes)
    BY <1>2, <1>3, WrittenRight
  <2>2. outOff' \in Nat /\ inOff' \in 0..Len(src')
    BY <1>1, <1>2, <1>3, <1>5 DEF CopyTypes
  <2>3. buf' \in Seq(Nat) /\ Len(buf') <= BUF_SIZE
        /\ open' \subseteq {"stdin", "input", "output"}
    BY <1>1, <1>2 DEF CopyTypes
  <2>4. /\ copyPc' \in {"open", "read", "write", "end", "success", "failure"}
        /\ failed' \in BOOLEAN
    BY <1>1, <1>4 DEF CopyTypes
  <2> QED
    BY <1>7, <1>o, <2>1, <2>2, <2>3, <2>4, Zenon DEF CopyTypes
<1>12. Offsets'
  <2>1. /\ Base <= outOff /\ outOff + Len(buf) = Base + inOff
        /\ prog = "copy" => ~failed
    BY <1>1, <1>2 DEF Offsets
  <2>2. /\ outOff' <= Base' + inOff' /\ Base' <= outOff'
        /\ copyPc' = "read" => outOff' = Base' + inOff'
    BY <1>2, <1>3, <1>4, <1>5, <1>6, <2>1
  <2> QED
    BY <1>2, <1>4, <2>1, <2>2 DEF Offsets
<1>13. Gets'
  <2>1. CASE prog \in {"copy", "cp_hole"}
    BY <1>1, <1>2, <1>10, <2>1 DEF Gets
  <2>2. CASE prog \notin {"copy", "cp_hole"}
    <3>1. PICK m \in 0..Len(buf) :
              /\ Len(out') = Len(out) + m
              /\ copyPc' = "read" => m = Len(buf)
              /\ \A k \in 1..Len(out) + m :
                     /\ k <= Len(out) => out'[k] = out[k]
                     /\ k > Len(out) => out'[k] = buf[k - Len(out)]
      BY <1>10, <2>2
    <3>2. /\ Len(out) = outOff - Base /\ \A k \in 1..Len(out) : out[k] = Byte(src[k])
          /\ outOff + Len(buf) = Base + inOff
          /\ \A x \in 1..Len(buf) : buf[x] = Byte(src[outOff - Base + x])
      <4>1. prog \in {"tee", "tee_append"}
        BY <1>1, <2>2 DEF CopyTypes, InputTypes, Copy!Programs
      <4> QED
        BY <1>1, <1>2, <4>1 DEF Gets, Offsets
    <3>3. Len(out') <= Len(src) /\ (copyPc' = "read" => Len(out') = outOff' - Base)
      <4>1. inOff <= Len(src) /\ Len(src) \in Nat /\ m \in Nat /\ m <= Len(buf)
        BY <1>1, <1>5, CopyFiles
      <4>2. outOff' = outOff + n /\ (copyPc' = "read" => n = Len(buf))
        BY <1>3, <1>4
      <4> QED
        BY <1>5, <3>1, <3>2, <4>1, <4>2
    <3>4. ASSUME NEW k \in 1..Len(out') PROVE out'[k] = Byte(src[k])
      <4>1. CASE k <= Len(out)
        <5>1. k \in 1..Len(out) /\ out'[k] = out[k]
          BY <1>5, <3>1, <4>1
        <5> QED
          BY <3>2, <5>1
      <4>2. CASE ~(k <= Len(out))
        <5>1. /\ k - Len(out) \in 1..Len(buf)
              /\ outOff - Base + (k - Len(out)) = k
          BY <1>5, <3>1, <3>2, <4>2
        <5>2. out'[k] = buf[k - Len(out)]
          BY <1>5, <3>1, <4>2
        <5> QED
          BY <3>2, <5>1, <5>2
      <4> QED
        BY <4>1, <4>2
    <3> QED
      BY <1>2, <1>4, <1>6, <3>3, <3>4 DEF Gets
  <2> QED
    BY <2>1, <2>2
<1>14. Prefix' /\ Sparse' /\ Itself'
  <2>1. copyPc' # "success" /\ copyPc' \in {"read", "failure"}
    BY <1>4
  <2>2. Prefix' /\ Sparse'
    BY <1>2, <1>3, <2>1, PrefixWritten, SparseWritten
  <2>3. Itself'
    BY <1>2, <1>3, <2>1, ItselfWritten
  <2> QED
    BY <2>2, <2>3
<1> QED
  BY <1>11, <1>12, <1>13, <1>14 DEF CopyInv

LEMMA FinishStep == CopyInv /\ Copy!Finish => CopyInv'
<1> SUFFICES ASSUME CopyInv, Copy!Finish PROVE CopyInv'
  OBVIOUS
<1>1. CopyTypes /\ Offsets /\ Gets /\ Prefix /\ Sparse /\ Itself
  BY DEF CopyInv
<1>2. /\ UNCHANGED <<prog, src, old, exists, same>>
      /\ UNCHANGED <<out, inOff, outOff, buf, failed>>
      /\ copyPc = "end" /\ copyPc' = "success"
  BY DEF Copy!Finish, Copy!inputs
<1>3. /\ prog = "cp_hole" => dst' = Copy!Truncated(dst, outOff)
      /\ prog # "cp_hole" => dst' = dst
  BY DEF Copy!Finish
<1>4. open' \subseteq {"stdin", "input", "output"}
  <2>1. open \subseteq {"stdin", "input", "output"}
    BY <1>1 DEF CopyTypes
  <2>2. open' \subseteq open
    <3>1. CASE prog = "copy"
      BY <3>1 DEF Copy!Finish
    <3>2. CASE prog = "cp_hole"
      BY <3>2 DEF Copy!Finish
    <3>3. CASE prog # "copy" /\ prog # "cp_hole"
      BY <3>3 DEF Copy!Finish
    <3> QED
      BY <3>1, <3>2, <3>3
  <2> QED
    BY <2>1, <2>2
<1>5. Len(dst) \in Nat /\ outOff \in Nat
  BY <1>1, CopyFiles
<1>6. Base' = Base
  BY <1>1, <1>2, SameInputs
<1>7. /\ dst' \in Seq(Copy!Bytes)
      /\ prog = "cp_hole" =>
             /\ Len(dst') = outOff
             /\ \A k \in 1..outOff : /\ k <= Len(dst) => dst'[k] = dst[k]
                                     /\ k > Len(dst) => dst'[k] = Copy!HOLE
  <2>1. dst \in Seq(Copy!Bytes)
    BY <1>1 DEF CopyTypes
  <2>2. CASE prog = "cp_hole"
    <3>1. dst' = Copy!Truncated(dst, outOff)
      BY <1>3, <2>2
    <3> QED
      BY <1>5, <2>1, <3>1, TruncatedFacts
  <2>3. CASE prog # "cp_hole"
    BY <1>3, <2>1, <2>3
  <2> QED
    BY <2>2, <2>3
<1>8. CopyTypes'
  <2>1. InputTypes'
    BY <1>1, <1>2, SameInputs
  <2>2. /\ out' \in Seq(Nat) /\ buf' \in Seq(Nat) /\ Len(buf') <= BUF_SIZE
        /\ inOff' \in 0..Len(src') /\ outOff' \in Nat /\ failed' \in BOOLEAN
        /\ copyPc' \in {"open", "read", "write", "end", "success", "failure"}
    BY <1>1, <1>2 DEF CopyTypes
  <2> QED
    BY <1>4, <1>7, <2>1, <2>2, Zenon DEF CopyTypes
<1>9. Offsets' /\ Gets'
  BY <1>1, <1>2, <1>6 DEF Offsets, Gets
<1>10. Prefix'
  BY <1>1, <1>2, <1>3, <1>6 DEF Prefix
<1>11. Sparse'
  <2> SUFFICES ASSUME prog = "cp_hole", NEW k \in 1..outOff
               PROVE  \/ Byte(dst'[k]) = Byte(src[k])
                      \/ Byte(src[k]) = 0 /\ k <= Len(old) /\ Byte(dst'[k]) = Byte(old[k])
    BY <1>2, <1>5, <1>7 DEF Sparse, RightAt
  <2>1. CASE k <= Len(dst)
    <3>1. k \in 1..Len(dst) /\ k <= outOff /\ dst'[k] = dst[k]
      BY <1>5, <1>7, <2>1
    <3> QED
      BY <1>1, <1>2, <3>1 DEF Sparse, RightAt
  <2>2. CASE k > Len(dst)
    <3>1. Byte(src[k]) = 0
      BY <1>1, <1>2, <2>2 DEF Sparse
    <3> QED
      BY <1>7, <2>2, <3>1, CopyConstants
  <2> QED
    BY <1>5, <2>1, <2>2
<1>12. Itself'
  BY <1>1, <1>2, <1>3 DEF Itself
<1> QED
  BY <1>8, <1>9, <1>10, <1>11, <1>12 DEF CopyInv

LEMMA CopyStep == CopyInv /\ Copy!Next => CopyInv'
BY OpenStep, ReadStep, ReadEndsStep, SkipStep, WriteStep, FinishStep DEF Copy!Next

LEMMA CopyStands == CopyInv /\ UNCHANGED copyVars => CopyInv'
<1> SUFFICES ASSUME CopyInv, UNCHANGED copyVars PROVE CopyInv'
  OBVIOUS
<1>1. UNCHANGED <<prog, src, old, exists, same, copyPc, dst, out, inOff, outOff, buf, open, failed>>
  BY DEF copyVars
<1>2. Base' = Base
  BY <1>1 DEF Base
<1>3. CopyTypes' /\ Offsets' /\ Gets'
  BY <1>1, <1>2 DEF CopyInv, CopyTypes, InputTypes, Offsets, Gets
<1>4. Prefix' /\ Sparse' /\ Itself'
  BY <1>1, <1>2 DEF CopyInv, Prefix, Sparse, RightAt, Itself
<1> QED
  BY <1>3, <1>4 DEF CopyInv

LEMMA TwoParts ==
    \A s, t \in Seq(Nat) :
        s \o t \in Seq(Nat) /\ Len(s \o t) = Len(s) + Len(t) /\ Len(t) \in Nat
OBVIOUS

(* What CopyRight speaks of: the input and the old file, one after the     *)
(* other or one over the other.                                            *)
LEMMA ExpectedFacts ==
    ASSUME CopyTypes
    PROVE  /\ Copy!Expected \in Seq(Nat)
           /\ Len(Copy!Expected) >= Base + Len(src)
           /\ prog = "tee" => Len(Copy!Expected) = (IF Len(old) > Len(src) THEN Len(old)
                                                   ELSE Len(src))
           /\ prog # "tee" => Len(Copy!Expected) = Base + Len(src)
           /\ \A k \in 1..Len(Copy!Expected) :
                  /\ k <= Base => Copy!Expected[k] = Byte(old[k])
                  /\ k > Base /\ k <= Base + Len(src) =>
                         Copy!Expected[k] = Byte(src[k - Base])
                  /\ k > Base + Len(src) => prog = "tee" /\ Copy!Expected[k] = Byte(old[k])
<1> DEFINE e == Copy!Expected
           s == Copy!AsRead(src)
           o == Copy!AsRead(old)
<1>1. /\ src \in Seq(Copy!Bytes) /\ old \in Seq(Copy!Bytes)
      /\ Len(src) \in Nat /\ Len(old) \in Nat /\ Base \in Nat
  BY CopyFiles
<1>2. /\ s \in Seq(Nat) /\ Len(s) = Len(src)
      /\ \A k \in 1..Len(src) : s[k] = Byte(src[k])
  BY <1>1, AsReadFacts
<1>3. /\ o \in Seq(Nat) /\ Len(o) = Len(old)
      /\ \A k \in 1..Len(old) : o[k] = Byte(old[k])
  BY <1>1, AsReadFacts
<1>4. /\ prog = "tee_append" => Base = Len(old)
      /\ prog # "tee_append" => Base = 0
  BY Bases
<1>5. prog \in {"copy", "cp_hole", "tee", "tee_append"}
  BY DEF CopyTypes, InputTypes, Copy!Programs
<1>6. /\ prog \in {"copy", "cp_hole"} => e = s
      /\ prog = "tee" => e = s \o Copy!Rest(o, Len(src))
      /\ prog = "tee_append" => e = o \o s
  BY <1>5 DEF Copy!Expected
<1> HIDE DEF e, s, o
<1>7. CASE prog \in {"copy", "cp_hole"}
  <2>1. e = s /\ Base = 0
    BY <1>4, <1>6, <1>7
  <2>2. \A k \in 1..Len(e) : ~(k <= 0) /\ ~(k > 0 + Len(src)) /\ k - 0 = k /\ k \in 1..Len(src)
    BY <1>1, <1>2, <2>1
  <2> QED
    BY <1>1, <1>2, <1>7, <2>1, <2>2 DEF e
<1>8. CASE prog = "tee_append"
  <2>1. e = o \o s /\ Base = Len(old)
    BY <1>4, <1>6, <1>8
  <2>2. e \in Seq(Nat) /\ Len(e) = Len(old) + Len(src)
    BY <1>2, <1>3, <2>1, TwoParts
  <2>3. \A k \in 1..Len(old) + Len(src) :
            /\ k <= Len(old) => e[k] = o[k] /\ k \in 1..Len(old)
            /\ k > Len(old) => e[k] = s[k - Len(old)] /\ k - Len(old) \in 1..Len(src)
    <3>1. \A k \in 1..Len(o) + Len(s) :
              (o \o s)[k] = IF k <= Len(o) THEN o[k] ELSE s[k - Len(o)]
      BY <1>2, <1>3
    <3>2. \A k \in 1..Len(old) + Len(src) :
              /\ k <= Len(old) => k \in 1..Len(old)
              /\ k > Len(old) => ~(k <= Len(old)) /\ k - Len(old) \in 1..Len(src)
      BY <1>1
    <3> QED
      BY <1>2, <1>3, <2>1, <3>1, <3>2
  <2>4. \A k \in 1..Len(old) + Len(src) : ~(k > Len(old) + Len(src))
    BY <1>1
  <2>5. /\ e \in Seq(Nat) /\ Len(e) = Base + Len(src) /\ Len(e) >= Base + Len(src)
    BY <1>1, <2>1, <2>2
  <2>6. \A k \in 1..Len(e) :
            /\ k <= Base => e[k] = Byte(old[k])
            /\ k > Base => e[k] = Byte(src[k - Base])
            /\ ~(k > Base + Len(src))
    BY <1>2, <1>3, <2>1, <2>2, <2>3, <2>4
  <2> QED
    BY <1>8, <2>5, <2>6 DEF e
<1>9. CASE prog = "tee"
  <2> DEFINE r == Copy!Rest(o, Len(src))
  <2>1. e = s \o r /\ Base = 0
    BY <1>4, <1>6, <1>9
  <2>2. /\ r \in Seq(Nat)
        /\ Len(r) = IF Len(old) > Len(src) THEN Len(old) - Len(src) ELSE 0
        /\ \A k \in 1..Len(r) : r[k] = Byte(old[Len(src) + k])
    <3>1. r = SubSeq(o, Len(src) + 1, Len(old))
      BY <1>3 DEF Copy!Rest
    <3> HIDE DEF r
    <3>2. CASE Len(old) > Len(src)
      <4>1. PICK n \in Nat : n = Len(old) - Len(src) /\ Len(src) + n = Len(old)
        BY <1>1, <3>2
      <4>2. r \in Seq(Nat) /\ Len(r) = n /\ \A k \in 1..n : r[k] = o[Len(src) + k]
        <5>1. r = SubSeq(o, Len(src) + 1, Len(src) + n) /\ Len(src) + n <= Len(o)
          BY <1>1, <1>3, <3>1, <4>1
        <5> QED
          BY <1>1, <1>3, <5>1, PartFacts
      <4>3. \A k \in 1..n : Len(src) + k \in 1..Len(old)
        BY <1>1, <4>1
      <4> QED
        BY <1>3, <3>2, <4>1, <4>2, <4>3
    <3>3. CASE ~(Len(old) > Len(src))
      <4>1. r = <<>>
        BY <1>1, <1>3, <3>1, <3>3
      <4>2. <<>> \in Seq(Nat) /\ Len(<<>>) = 0 /\ 1..0 = {}
        OBVIOUS
      <4> QED
        BY <3>3, <4>1, <4>2
    <3> QED
      BY <3>2, <3>3
  <2> HIDE DEF r
  <2>3. Len(r) \in Nat /\ e \in Seq(Nat) /\ Len(e) = Len(src) + Len(r)
    <3>1. r \in Seq(Nat)
      BY <2>2
    <3> QED
      BY <1>2, <2>1, <3>1, TwoParts
  <2>4. Len(e) = IF Len(old) > Len(src) THEN Len(old) ELSE Len(src)
    BY <1>1, <2>2, <2>3
  <2>5. \A k \in 1..Len(src) + Len(r) :
            /\ k <= Len(src) => e[k] = s[k] /\ k \in 1..Len(src)
            /\ k > Len(src) => /\ e[k] = r[k - Len(src)] /\ k - Len(src) \in 1..Len(r)
                               /\ Len(src) + (k - Len(src)) = k
    <3>1. \A k \in 1..Len(s) + Len(r) :
              (s \o r)[k] = IF k <= Len(s) THEN s[k] ELSE r[k - Len(s)]
      BY <1>2, <2>2
    <3>2. \A k \in 1..Len(src) + Len(r) :
              /\ k <= Len(src) => k \in 1..Len(src)
              /\ k > Len(src) => /\ ~(k <= Len(src)) /\ k - Len(src) \in 1..Len(r)
                                 /\ Len(src) + (k - Len(src)) = k
      BY <1>1, <2>3
    <3> QED
      BY <1>2, <2>1, <3>1, <3>2
  <2>6. \A k \in 1..Len(e) :
            /\ ~(k <= 0) /\ k - 0 = k
            /\ k <= Len(src) => e[k] = Byte(src[k])
            /\ k > Len(src) => e[k] = Byte(old[k])
    <3>1. \A k \in 1..Len(src) + Len(r) : ~(k <= 0) /\ k - 0 = k
      BY <1>1, <2>3
    <3> QED
      BY <1>2, <2>2, <2>3, <2>5, <3>1
  <2>7. 0 + Len(src) = Len(src) /\ Len(e) >= Len(src)
    BY <1>1, <2>3
  <2> QED
    BY <1>9, <2>1, <2>3, <2>4, <2>6, <2>7 DEF e
<1> QED
  BY <1>5, <1>7, <1>8, <1>9

LEMMA SamePart ==
    ASSUME NEW s \in Seq(Nat), NEW t \in Seq(Nat), NEW n \in Nat,
           n <= Len(s), n <= Len(t), \A k \in 1..n : s[k] = t[k]
    PROVE  SubSeq(s, 1, n) = SubSeq(t, 1, n)
<1>1. /\ SubSeq(s, 1, n) = [k \in 1..n |-> s[k]]
      /\ SubSeq(t, 1, n) = [k \in 1..n |-> t[k]]
  OBVIOUS
<1> QED
  BY <1>1

LEMMA SameSequence ==
    ASSUME NEW s \in Seq(Nat), NEW t \in Seq(Nat), Len(s) = Len(t),
           \A k \in 1..Len(s) : s[k] = t[k]
    PROVE  s = t
<1>1. s = [k \in 1..Len(s) |-> s[k]] /\ t = [k \in 1..Len(t) |-> t[k]]
  OBVIOUS
<1> QED
  BY <1>1

LEMMA OutputPrefix ==
    ASSUME CopyInv, prog # "cp_hole", copyPc # "open"
    PROVE  SubSeq(Copy!AsRead(dst), 1, outOff) = SubSeq(Copy!Expected, 1, outOff)
<1>1. CopyTypes /\ Offsets /\ Prefix
  BY DEF CopyInv
<1>2. /\ Base \in Nat /\ Len(src) \in Nat /\ Len(dst) \in Nat /\ outOff \in Nat
      /\ inOff \in Nat /\ inOff <= Len(src)
  BY <1>1, CopyFiles
<1>3. PICK t : t = Copy!AsRead(dst)
  OBVIOUS
<1>4. t \in Seq(Nat) /\ Len(t) = Len(dst) /\ \A k \in 1..Len(dst) : t[k] = Byte(dst[k])
  <2>1. dst \in Seq(Copy!Bytes)
    BY <1>1 DEF CopyTypes
  <2> QED
    BY <1>3, <2>1, AsReadFacts
<1>5. PICK e : e = Copy!Expected
  OBVIOUS
<1>6. /\ e \in Seq(Nat) /\ Len(e) \in Nat /\ Len(e) >= Base + Len(src)
      /\ \A k \in 1..Len(e) :
             /\ k <= Base => e[k] = Byte(old[k])
             /\ k > Base /\ k <= Base + Len(src) => e[k] = Byte(src[k - Base])
  <2>1. /\ e \in Seq(Nat) /\ Len(e) >= Base + Len(src)
        /\ \A k \in 1..Len(e) :
               /\ k <= Base => e[k] = Byte(old[k])
               /\ k > Base /\ k <= Base + Len(src) => e[k] = Byte(src[k - Base])
    BY <1>1, <1>5, ExpectedFacts
  <2> QED
    BY <2>1
<1>7. outOff <= Len(dst) /\ outOff <= Base + Len(src) /\ outOff <= Len(e)
  <2>1. outOff <= Len(dst) /\ outOff <= Base + inOff
    BY <1>1 DEF Offsets, Prefix
  <2> QED
    BY <1>2, <1>6, <2>1
<1>8. ASSUME NEW k \in 1..outOff PROVE t[k] = e[k]
  <2>1. /\ k \in 1..Len(dst) /\ k \in 1..Len(e) /\ k <= Base + Len(src)
        /\ k <= Base \/ k > Base
    BY <1>2, <1>6, <1>7
  <2>2. /\ k <= Base => Byte(dst[k]) = Byte(old[k])
        /\ k > Base => Byte(dst[k]) = Byte(src[k - Base])
    BY <1>1 DEF Prefix
  <2> QED
    BY <1>4, <1>6, <2>1, <2>2
<1>9. SubSeq(t, 1, outOff) = SubSeq(e, 1, outOff)
  BY <1>2, <1>4, <1>6, <1>7, <1>8, SamePart
<1> QED
  BY <1>3, <1>5, <1>9

(* In the words of the model.                                              *)
LEMMA CopiedFacts ==
    ASSUME CopyTypes, NEW k \in Nat, k >= 1, k <= Len(dst), k <= Len(src), RightAt(k)
    PROVE  Copy!CopiedOrOld(k)
<1>1. /\ src \in Seq(Copy!Bytes) /\ old \in Seq(Copy!Bytes) /\ dst \in Seq(Copy!Bytes)
      /\ Len(src) \in Nat /\ Len(old) \in Nat /\ Len(dst) \in Nat
  BY CopyFiles DEF CopyTypes
<1>2. /\ Copy!AsRead(dst)[k] = Byte(dst[k])
      /\ Copy!AsRead(src)[k] = Byte(src[k])
  <2>1. k \in 1..Len(dst) /\ k \in 1..Len(src)
    BY <1>1
  <2> QED
    BY <1>1, <2>1, AsReadFacts
<1>3. k <= Len(old) => Copy!AsRead(old)[k] = Byte(old[k])
  <2>1. k <= Len(old) => k \in 1..Len(old)
    BY <1>1
  <2> QED
    BY <1>1, <2>1, AsReadFacts
<1> QED
  BY <1>2, <1>3, Zenon DEF RightAt, Copy!CopiedOrOld

LEMMA HolesRight ==
    ASSUME CopyInv, prog = "cp_hole", copyPc # "open",
           NEW i \in 1..Copy!Min2(outOff, Len(dst))
    PROVE  Copy!CopiedOrOld(i)
<1>1. CopyTypes /\ Offsets /\ Sparse
  BY DEF CopyInv
<1>2. /\ Len(src) \in Nat /\ Len(dst) \in Nat /\ outOff \in Nat
      /\ inOff \in Nat /\ inOff <= Len(src) /\ Base = 0 /\ outOff <= Base + inOff
  BY <1>1, CopyFiles, Bases DEF Offsets
<1>3. i \in Nat /\ i >= 1 /\ i <= outOff /\ i <= Len(dst) /\ i <= Len(src)
  BY <1>2 DEF Copy!Min2
<1>4. RightAt(i)
  BY <1>1, <1>2, <1>3 DEF Sparse
<1> QED
  BY <1>1, <1>3, <1>4, CopiedFacts

LEMMA TeeRight ==
    ASSUME CopyInv
    PROVE  out = SubSeq(Copy!AsRead(src), 1, Len(out))
<1>1. CopyTypes /\ Gets
  BY DEF CopyInv
<1>2. out \in Seq(Nat) /\ Len(out) \in Nat /\ src \in Seq(Copy!Bytes) /\ Len(src) \in Nat
  BY <1>1, CopyFiles DEF CopyTypes
<1>3. PICK s : s = Copy!AsRead(src)
  OBVIOUS
<1>4. s \in Seq(Nat) /\ Len(s) = Len(src) /\ \A k \in 1..Len(src) : s[k] = Byte(src[k])
  BY <1>2, <1>3, AsReadFacts
<1>5. Len(out) <= Len(s) /\ \A k \in 1..Len(out) : out[k] = s[k]
  <2>1. Len(out) <= Len(src) /\ \A k \in 1..Len(out) : out[k] = Byte(src[k])
    BY <1>1 DEF Gets
  <2>2. \A k \in 1..Len(out) : k \in 1..Len(src)
    BY <1>2, <2>1
  <2> QED
    BY <1>4, <2>1, <2>2
<1>6. SubSeq(out, 1, Len(out)) = SubSeq(s, 1, Len(out))
  BY <1>2, <1>4, <1>5, SamePart
<1>7. SubSeq(out, 1, Len(out)) = out
  BY <1>2
<1> QED
  BY <1>3, <1>6, <1>7

LEMMA CopyWritten == CopyInv => Copy!WrittenIsRight
BY OutputPrefix, HolesRight, TeeRight, Zenon DEF Copy!WrittenIsRight

LEMMA CopyAll == CopyInv => Copy!CopiesAll
<1> SUFFICES ASSUME CopyInv, copyPc = "success", failed => prog = "copy",
                    ~(same /\ prog = "copy")
             PROVE  /\ prog # "cp_hole" => Copy!AsRead(dst) = Copy!Expected
                    /\ prog = "cp_hole" =>
                           /\ Len(dst) = Len(src)
                           /\ \A i \in 1..Len(src) : Copy!CopiedOrOld(i)
                    /\ prog \in {"tee", "tee_append"} => out = Copy!AsRead(src)
  BY Zenon DEF Copy!CopiesAll, Copy!Emptied
<1>1. CopyTypes /\ Offsets /\ Gets /\ Prefix /\ Sparse
  BY DEF CopyInv
<1>2. /\ Base \in Nat /\ Len(src) \in Nat /\ Len(old) \in Nat /\ Len(dst) \in Nat
      /\ Len(out) \in Nat
      /\ src \in Seq(Copy!Bytes) /\ dst \in Seq(Copy!Bytes) /\ out \in Seq(Nat)
  BY <1>1, CopyFiles, Zenon DEF CopyTypes
<1>3. outOff = Base + Len(src)
  BY <1>1 DEF Offsets
<1>4. /\ prog = "tee_append" => Base = Len(old)
      /\ prog # "tee_append" => Base = 0
  BY <1>1, Bases
<1>5. prog = "cp_hole" => Len(dst) = Len(src)
  BY <1>1, <1>2, <1>3, <1>4 DEF Sparse
<1>6. ASSUME prog \in {"tee", "tee_append"} PROVE out = Copy!AsRead(src)
  <2>1. PICK s : s = Copy!AsRead(src)
    OBVIOUS
  <2>2. s \in Seq(Nat) /\ Len(s) = Len(src) /\ \A k \in 1..Len(src) : s[k] = Byte(src[k])
    BY <1>2, <2>1, AsReadFacts
  <2>3. Len(out) = outOff - Base /\ \A k \in 1..Len(out) : out[k] = Byte(src[k])
    BY <1>1, <1>6 DEF Gets
  <2>4. Len(out) = Len(s)
    BY <1>2, <1>3, <2>2, <2>3
  <2>5. out = s
    BY <1>2, <2>2, <2>3, <2>4, SameSequence
  <2> QED
    BY <2>1, <2>5
<1>7. ASSUME prog # "cp_hole" PROVE Copy!AsRead(dst) = Copy!Expected
  <2>1. PICK t : t = Copy!AsRead(dst)
    OBVIOUS
  <2>2. t \in Seq(Nat) /\ Len(t) = Len(dst) /\ \A k \in 1..Len(dst) : t[k] = Byte(dst[k])
    BY <1>2, <2>1, AsReadFacts
  <2>3. PICK e : e = Copy!Expected
    OBVIOUS
  <2>4. /\ e \in Seq(Nat)
        /\ prog = "tee" => Len(e) = (IF Len(old) > Len(src) THEN Len(old) ELSE Len(src))
        /\ prog # "tee" => Len(e) = Base + Len(src)
        /\ \A k \in 1..Len(e) :
               /\ k <= Base => e[k] = Byte(old[k])
               /\ k > Base /\ k <= Base + Len(src) => e[k] = Byte(src[k - Base])
               /\ k > Base + Len(src) => prog = "tee" /\ e[k] = Byte(old[k])
    BY <1>1, <2>3, ExpectedFacts
  <2>5. /\ outOff <= Len(dst)
        /\ prog = "copy" => Len(dst) = outOff
        /\ prog # "copy" => /\ Len(old) <= Len(dst)
                            /\ Len(dst) > Len(old) => Len(dst) = outOff
                            /\ \A k \in outOff + 1..Len(old) : dst[k] = old[k]
        /\ \A k \in 1..outOff :
               /\ k <= Base => Byte(dst[k]) = Byte(old[k])
               /\ k > Base => Byte(dst[k]) = Byte(src[k - Base])
    BY <1>1, <1>7 DEF Prefix
  <2>6. prog \in {"copy", "tee", "tee_append"}
    BY <1>1, <1>7 DEF CopyTypes, InputTypes, Copy!Programs
  <2>7. Len(t) = Len(e)
    BY <1>2, <1>3, <1>4, <2>2, <2>4, <2>5, <2>6
  <2>8. ASSUME NEW k \in 1..Len(t) PROVE t[k] = e[k]
    <3>1. k \in 1..Len(dst) /\ k \in 1..Len(e) /\ t[k] = Byte(dst[k])
      BY <2>2, <2>7
    <3>2. CASE k <= outOff
      <4>1. k \in 1..outOff /\ k <= Base + Len(src) /\ (k <= Base \/ k > Base)
        BY <1>2, <1>3, <3>1, <3>2
      <4> QED
        BY <2>4, <2>5, <3>1, <4>1
    <3>3. CASE ~(k <= outOff)
      <4>1. k > Base + Len(src)
        BY <1>2, <1>3, <3>1, <3>3
      <4>2. prog = "tee" /\ e[k] = Byte(old[k])
        BY <2>4, <3>1, <4>1
      <4>3. k \in outOff + 1..Len(old)
        <5>1. k \in Nat /\ k > outOff /\ k <= Len(e)
          BY <1>2, <1>3, <3>1, <3>3
        <5>2. Len(e) = IF Len(old) > Len(src) THEN Len(old) ELSE Len(src)
          BY <2>4, <4>2
        <5>3. Base = 0 /\ outOff = Len(src)
          BY <1>2, <1>3, <1>4, <4>2
        <5> QED
          BY <1>2, <5>1, <5>2, <5>3
      <4> QED
        BY <2>5, <3>1, <4>2, <4>3
    <3> QED
      BY <3>2, <3>3
  <2> QED
    BY <2>1, <2>2, <2>3, <2>4, <2>7, <2>8, SameSequence
<1>8. ASSUME prog = "cp_hole", NEW i \in 1..Len(src) PROVE Copy!CopiedOrOld(i)
  <2>1. Copy!Min2(outOff, Len(dst)) = Len(src)
    BY <1>2, <1>3, <1>4, <1>5, <1>8 DEF Copy!Min2
  <2> QED
    BY <1>8, <2>1, HolesRight
<1> QED
  BY <1>5, <1>6, <1>7, <1>8

LEMMA CopyTyped == CopyInv => Copy!TypeOK
<1> SUFFICES ASSUME CopyInv PROVE Copy!TypeOK
  OBVIOUS
<1>1. CopyTypes /\ Offsets
  BY DEF CopyInv
<1>2. outOff <= Len(old) + Len(src)
  <2>1. /\ Len(src) \in Nat /\ Len(old) \in Nat /\ inOff \in Nat /\ inOff <= Len(src)
        /\ outOff \in Nat /\ outOff <= Base + inOff
    BY <1>1, CopyFiles DEF Offsets
  <2>2. Base = 0 \/ Base = Len(old)
    BY <1>1, Bases
  <2> QED
    BY <2>1, <2>2
<1> QED
  BY <1>1, <1>2, Zenon DEF CopyTypes, InputTypes, Copy!TypeOK

-------------------------------------------------------------------------------
(* For every size of the blocks, every input and every output file, which  *)
(* may be the input itself, whatever each read() and write() takes: what   *)
(* copy and tee have written is right as far as it goes (copy.c:67,        *)
(* tee.c:57-66), what cp_hole has is a byte of the input or, where that    *)
(* has a zero, of the old file (cp_hole.c:36-57); and a program that ends  *)
(* with success after calls that all succeeded has gone through all of the *)
(* input (copy.c:64-79, tee.c:57-66, cp_hole.c:43-76), but for copy, when  *)
(* it has emptied its own input (copy.c:41, 57).                           *)
THEOREM CopiesAreRight == FairSpec => []CopyRight
<1>1. Init => CopyInv
  BY CopyInit DEF Init
<1>2. CopyInv /\ [Next]_vars => CopyInv'
  BY CopyStep, CopyStands
  DEF Next, PipeRuns, DaemonRuns, WaitsRuns, CopyRuns, DupRuns, SimpleRuns, InetRuns, Runs, vars
<1>3. CopyInv => CopyRight
  BY CopyWritten, CopyAll DEF CopyRight
<1> QED
  BY <1>1, <1>2, <1>3, PTL DEF FairSpec

-------------------------------------------------------------------------------
(* The types of the other programs, with what they need.                   *)

(* simple_pipe.c                                                           *)
SimpleTypes ==
    /\ Simple!TypeOK
    /\ ends \in [{"parent", "child"} -> SUBSET {"read", "write"}]
    /\ left \in Nat /\ copied \in Nat /\ lost \in Nat

LEMMA SimpleMin ==
    ASSUME NEW a \in Nat, NEW b \in Nat
    PROVE  /\ Simple!Min({a, b}) \in Nat
           /\ Simple!Min({a, b}) <= a /\ Simple!Min({a, b}) <= b
<1>1. PICK m \in {a, b} : \A k \in {a, b} : m <= k
  <2>1. CASE a <= b
    BY <2>1
  <2>2. CASE ~(a <= b)
    BY <2>2
  <2> QED
    BY <2>1, <2>2
<1>2. Simple!Min({a, b}) \in {a, b} /\ \A k \in {a, b} : Simple!Min({a, b}) <= k
  BY <1>1 DEF Simple!Min
<1> QED
  BY <1>2

LEMMA SimpleConstants == Length \in Nat /\ Room \in Nat \ {0} /\ BufSize \in Nat \ {0}
BY ProcessesAssumption DEF ProcessesAssumption, Simple!SimplePipeAssumption

LEMMA SimpleInit == Simple!Init => SimpleTypes
BY SimpleConstants DEF Simple!Init, SimpleTypes, Simple!TypeOK

(* Steps that move no byte.                                                *)
LEMMA SimpleQuiet ==
    ASSUME SimpleTypes, UNCHANGED <<left, content, copied, lost>>,
           parentPc' \in {"fork", "close", "write", "partWrite", "wait", "done", "failed",
                         "SIGPIPE"},
           childPc' \in {"none", "close", "read", "done", "failed"},
           ends' \in [{"parent", "child"} -> SUBSET {"read", "write"}]
    PROVE  SimpleTypes'
BY DEF SimpleTypes, Simple!TypeOK

LEMMA SimpleStep == SimpleTypes /\ Simple!Next => SimpleTypes'
<1> SUFFICES ASSUME SimpleTypes, Simple!Next PROVE SimpleTypes'
  OBVIOUS
<1>1. /\ parentPc \in {"fork", "close", "write", "partWrite", "wait", "done", "failed",
                       "SIGPIPE"}
      /\ childPc \in {"none", "close", "read", "done", "failed"}
      /\ ends \in [{"parent", "child"} -> SUBSET {"read", "write"}]
      /\ left \in Nat /\ copied \in Nat /\ lost \in Nat /\ content \in 0..Room
      /\ left + content + copied + lost = Length
  BY DEF SimpleTypes, Simple!TypeOK
<1>2. CASE Simple!Fork
  <2>1. /\ parentPc' \in {"close", "failed"} /\ childPc' \in {"close", childPc}
        /\ UNCHANGED <<left, content, copied, lost>>
        /\ \/ ends' = [ends EXCEPT !["child"] = ends["parent"]]
           \/ ends' = [ends EXCEPT !["parent"] = {}]
    BY <1>2 DEF Simple!Fork
  <2>2. ends' \in [{"parent", "child"} -> SUBSET {"read", "write"}]
    BY <1>1, <2>1
  <2> QED
    BY <1>1, <2>1, <2>2, SimpleQuiet
<1>3. CASE Simple!ParentClosesRead
  BY <1>1, <1>3, SimpleQuiet DEF Simple!ParentClosesRead
<1>4. CASE Simple!ParentWrites
  <2>1. CASE Simple!HasOpen("read")
    <3>1. PICK n \in 1..Simple!Min({left, Room - content}) :
              /\ left' = left - n /\ content' = content + n
              /\ UNCHANGED <<parentPc, childPc, ends, copied, lost>>
      BY <1>4, <2>1 DEF Simple!ParentWrites
    <3>2. Room - content \in Nat
      BY <1>1, SimpleConstants
    <3>3. n \in Nat /\ n <= left /\ n <= Room - content
      <4>1. PICK m : m = Simple!Min({left, Room - content})
        OBVIOUS
      <4>2. m \in Nat /\ m <= left /\ m <= Room - content
        BY <1>1, <3>2, <4>1, SimpleMin
      <4> QED
        BY <1>1, <3>1, <3>2, <4>1, <4>2
    <3>4. /\ left' \in Nat /\ content' \in 0..Room
          /\ left' + content' + copied' + lost' = Length
      BY <1>1, <3>1, <3>3, SimpleConstants
    <3> QED
      BY <1>1, <3>1, <3>4 DEF SimpleTypes, Simple!TypeOK
  <2>2. CASE ~Simple!HasOpen("read")
    BY <1>1, <1>4, <2>2, SimpleQuiet DEF Simple!ParentWrites
  <2> QED
    BY <2>1, <2>2
<1>5. CASE Simple!ParentPartWrites \/ Simple!ParentClosesWrite \/ Simple!ParentWaits
  BY <1>1, <1>5, SimpleQuiet
  DEF Simple!ParentPartWrites, Simple!ParentClosesWrite, Simple!ParentWaits
<1>6. CASE Simple!ChildClosesWrite \/ Simple!ChildMeetsEnd \/ Simple!ChildFails
  BY <1>1, <1>6, SimpleQuiet
  DEF Simple!ChildClosesWrite, Simple!ChildMeetsEnd, Simple!ChildFails
<1>7. CASE Simple!ChildCopies
  <2>1. PICK m : m = Simple!Min({content, BufSize})
    OBVIOUS
  <2>2. m \in Nat /\ m <= content
    <3>1. content \in Nat /\ BufSize \in Nat
      BY <1>1, SimpleConstants
    <3> QED
      BY <2>1, <3>1, SimpleMin
  <2>3. PICK n \in 0..m :
            /\ content' = content - m /\ copied' = copied + n /\ lost' = lost + (m - n)
            /\ UNCHANGED <<parentPc, childPc, ends, left>>
    BY <1>7, <2>1 DEF Simple!ChildCopies
  <2>4. /\ copied' \in Nat /\ lost' \in Nat /\ content' \in 0..Room
        /\ left' + content' + copied' + lost' = Length
    BY <1>1, <2>2, <2>3, SimpleConstants
  <2> QED
    BY <1>1, <2>3, <2>4 DEF SimpleTypes, Simple!TypeOK
<1> QED
  BY <1>2, <1>3, <1>4, <1>5, <1>6, <1>7 DEF Simple!Next, Simple!Parent, Simple!Child

LEMMA SimpleStands == SimpleTypes /\ UNCHANGED simpleVars => SimpleTypes'
BY DEF simpleVars, SimpleTypes, Simple!TypeOK

LEMMA SimpleTyped == SimpleTypes => Simple!TypeOK
BY DEF SimpleTypes

(* dup.c                                                                   *)
DupMore ==
    /\ testFd \in Dup!Fds \cup {-1} /\ newFd \in -1..OpenMax + 1
    /\ dupRet \in Dup!Fds \cup {-1}

LEMMA DupMoreInit == Dup!Init => DupMore
BY ProcessesAssumption DEF ProcessesAssumption, Dup!DupAssumption, Dup!Init, DupMore

LEMMA DupMoreStep == DupInv /\ DupMore /\ Dup!Next => DupMore'
<1> SUFFICES ASSUME DupInv, DupMore, Dup!Next PROVE DupMore'
  OBVIOUS
<1>1. dupRet' \in Dup!Fds \cup {-1}
  <2>1. DupInv'
    BY DupStep
  <2>2. Dup!LikeDup2' /\ dupRet' \in {-1, newFd'}
    BY <2>1 DEF DupInv
  <2> QED
    BY <2>2 DEF Dup!LikeDup2
<1>2. newFd' \in -1..OpenMax + 1
  BY DEF DupMore, Dup!Next, Dup!Open, Dup!MyDup, Dup!MyDup2
<1>3. testFd' \in Dup!Fds \cup {-1}
  <2>1. CASE testFd' = testFd
    BY <2>1 DEF DupMore
  <2>2. CASE testFd' # testFd
    <3>1. Dup!FreeFrom(table, 0) # {} /\ testFd' = Dup!Min(Dup!FreeFrom(table, 0))
      BY <2>2 DEF Dup!Next, Dup!Open, Dup!MyDup, Dup!MyDup2
    <3> QED
      BY <3>1, FreeFacts
  <2> QED
    BY <2>1, <2>2
<1> QED
  BY <1>1, <1>2, <1>3 DEF DupMore

LEMMA DupMoreStands == DupMore /\ UNCHANGED dupVars => DupMore'
BY DEF dupVars, DupMore

LEMMA DupTyped == DupInv /\ DupMore => Dup!TypeOK
BY DEF DupInv, DupMore, Dup!TypeOK

(* become_daemon.c: fd is open while it is used.                           *)
DaemonMore ==
    /\ flags \subseteq Daemon!Flags /\ fd \in {-1, 0}
    /\ daemonPc["grandchild"] \in {"dupIn", "dupOut", "dupErr"} /\ fd = 0 => Own(0) # None
    /\ mask \in {"inherited", "0"} /\ cwd \in {"inherited", "/"}

LEMMA DaemonMoreInit == Daemon!Init => DaemonMore
BY DaemonFacts DEF Daemon!Init, DaemonMore, Daemon!Procs

LEMMA DaemonMoreStep == DaemonInv /\ NullInv /\ DaemonMore /\ Daemon!Next => DaemonMore'
<1> SUFFICES ASSUME DaemonInv, NullInv, DaemonMore, Daemon!Next PROVE DaemonMore'
  OBVIOUS
<1> USE DaemonFacts
    DEF DaemonMore, Own, Daemon!Procs, Daemon!Goto,
        Daemon!STDIN_FILENO, Daemon!STDOUT_FILENO, Daemon!STDERR_FILENO
<1>1. /\ daemonPc \in [Daemon!Procs -> DaemonPc]
      /\ daemonFds \in [Daemon!Procs -> [Daemon!Fds -> {"inherited", "null", None}]]
  BY DEF DaemonInv, NullInv
<1>2. CASE Daemon!Fork("parent", "child", "fork1", "setsid")
  BY <1>1, <1>2 DEF Daemon!Fork
<1>3. CASE Daemon!Setsid
  BY <1>1, <1>3 DEF Daemon!Setsid
<1>4. CASE Daemon!Fork("child", "grandchild", "fork2", "umask")
  BY <1>1, <1>4 DEF Daemon!Fork
<1>5. CASE Daemon!Reset
  BY <1>1, <1>5 DEF Daemon!Reset
<1>6. CASE Daemon!CloseFiles
  BY <1>1, <1>6 DEF Daemon!CloseFiles
<1>7. CASE Daemon!OpenNull
  BY <1>1, <1>7, NullFirst DEF Daemon!OpenNull
<1>8. CASE Daemon!Dup2(0, fd, "dupIn", "dupOut")
  BY <1>1, <1>8 DEF Daemon!Dup2
<1>9. CASE Daemon!Dup2(1, 0, "dupOut", "dupErr")
  BY <1>1, <1>9 DEF Daemon!Dup2
<1>10. CASE Daemon!Dup2(2, 0, "dupErr", "ok")
  BY <1>1, <1>10 DEF Daemon!Dup2
<1> QED
  BY <1>2, <1>3, <1>4, <1>5, <1>6, <1>7, <1>8, <1>9, <1>10 DEF Daemon!Next

LEMMA DaemonMoreStands == DaemonMore /\ UNCHANGED daemonVars => DaemonMore'
BY DEF daemonVars, DaemonMore, Own

LEMMA DaemonTyped == DaemonInv /\ NullInv /\ DaemonMore => Daemon!TypeOK
<1> SUFFICES ASSUME DaemonInv, NullInv, DaemonMore PROVE Daemon!TypeOK
  OBVIOUS
<1>1. fd \in {-1} \cup Daemon!Fds
  BY DaemonFacts DEF DaemonMore
<1>2. daemonPc["grandchild"] \in {"dupIn", "dupOut", "dupErr"} /\ fd # -1 =>
          daemonFds["grandchild"][fd] # None
  BY DEF DaemonMore, Own
<1> QED
  BY <1>1, <1>2 DEF DaemonInv, DaemonPc, NullInv, DaemonMore, Daemon!TypeOK

(* pipe_ls_wc.c: who has been reaped does nothing any more.                *)
Faults == {"forkLs", "forkWc", "ls", "wc"}

PipeData ==
    /\ pfd \in (-1..MaxFd) \X (-1..MaxFd)
    /\ pipe \in Seq(0..Lines) /\ Len(pipe) <= Capacity
    /\ count \in Nat /\ faults \subseteq Faults

PipeReaped ==
    /\ pipeReaped \subseteq {"ls", "wc"} /\ \A c \in pipeReaped : Pipe!Ended(c)
    /\ pipePc["parent"] \in {"pipe", "forkLs", "forkWc"} => pipeReaped = {}

LEMMA PipeConstants == Lines \in Nat /\ Capacity \in Nat \ {0} /\ MaxFd \in Nat /\ MaxFd >= 4
BY ProcessesAssumption DEF ProcessesAssumption, Pipe!PipeAssumption

LEMMA PipeDataInit == Pipe!Init => PipeData /\ PipeReaped
<1> SUFFICES ASSUME Pipe!Init PROVE PipeData /\ PipeReaped
  OBVIOUS
<1>1. pfd = <<-1, -1>> /\ pipe = <<>> /\ count = 0 /\ pipeReaped = {} /\ faults = {}
  BY DEF Pipe!Init
<1>2. <<>> \in Seq(0..Lines) /\ Len(<<>>) = 0
  OBVIOUS
<1> QED
  BY <1>1, <1>2, PipeConstants DEF PipeData, PipeReaped, Faults

(* A step of p that reaps nobody.                                          *)
LEMMA PipeMoves ==
    ASSUME PipeInv, PipeReaped, NEW p \in {"parent", "ls", "wc"}, NEW n,
           pipePc' = [pipePc EXCEPT ![p] = n], ~Pipe!Ended(p), UNCHANGED pipeReaped,
           p = "parent" /\ n \in {"pipe", "forkLs", "forkWc"} => pipeReaped = {}
    PROVE  PipeReaped'
<1>1. DOMAIN pipePc = {"parent", "ls", "wc"}
  BY DEF PipeInv, PipeTypes, Pipe!Procs
<1>2. pipePc'[p] = n /\ \A q \in {"parent", "ls", "wc"} : q # p => pipePc'[q] = pipePc[q]
  BY <1>1
<1>3. \A c \in pipeReaped : c # p /\ c # "parent" /\ Pipe!Ended(c)
  BY DEF PipeReaped
<1>4. \A c \in pipeReaped : Pipe!Ended(c)'
  BY <1>2, <1>3 DEF PipeReaped, Pipe!Ended
<1> QED
  BY <1>2, <1>4 DEF PipeReaped

LEMMA PipeParentMoves ==
    PipeInv /\ PipeReaped /\ (Pipe!Pipe \/ Pipe!ForkLs \/ Pipe!ForkWc \/ Pipe!ParentClosesRead
                              \/ Pipe!ParentClosesWrite) => PipeReaped'
<1> SUFFICES ASSUME PipeInv, PipeReaped,
                    Pipe!Pipe \/ Pipe!ForkLs \/ Pipe!ForkWc \/ Pipe!ParentClosesRead
                        \/ Pipe!ParentClosesWrite
             PROVE  PipeReaped'
  OBVIOUS
<1>1. CASE Pipe!Pipe
  <2>1. /\ pipePc' = [pipePc EXCEPT !["parent"] = "forkLs"] /\ pipePc["parent"] = "pipe"
        /\ pipeReaped' = pipeReaped
    BY <1>1 DEF Pipe!Pipe, Pipe!Goto
  <2>2. pipeReaped = {} /\ ~Pipe!Ended("parent")
    BY <2>1 DEF PipeReaped, Pipe!Ended
  <2> QED
    BY <2>1, <2>2, PipeMoves
<1>2. CASE Pipe!ForkLs \/ Pipe!ForkWc
  <2>1. /\ pipePc["parent"] \in {"forkLs", "forkWc"} /\ pipeReaped' = pipeReaped
    BY <1>2 DEF Pipe!ForkLs, Pipe!ForkWc, Pipe!Fork
  <2>2. pipeReaped = {}
    BY <2>1 DEF PipeReaped
  <2> QED
    BY <2>1, <2>2 DEF PipeReaped
<1>3. CASE Pipe!ParentClosesRead
  <2>1. /\ pipePc' = [pipePc EXCEPT !["parent"] = "closeWrite"]
        /\ pipePc["parent"] = "closeRead" /\ pipeReaped' = pipeReaped
    BY <1>3 DEF Pipe!ParentClosesRead, Pipe!Goto
  <2>2. ~Pipe!Ended("parent")
    BY <2>1 DEF Pipe!Ended
  <2> QED
    BY <2>1, <2>2, PipeMoves
<1>4. CASE Pipe!ParentClosesWrite
  <2>1. /\ pipePc' = [pipePc EXCEPT !["parent"] = "wait"]
        /\ pipePc["parent"] = "closeWrite" /\ pipeReaped' = pipeReaped
    BY <1>4 DEF Pipe!ParentClosesWrite, Pipe!Goto
  <2>2. ~Pipe!Ended("parent")
    BY <2>1 DEF Pipe!Ended
  <2> QED
    BY <2>1, <2>2, PipeMoves
<1> QED
  BY <1>1, <1>2, <1>3, <1>4

LEMMA PipeWaits == PipeInv /\ PipeReaped /\ Pipe!Wait => PipeReaped'
<1> SUFFICES ASSUME PipeInv, PipeReaped, Pipe!Wait PROVE PipeReaped'
  OBVIOUS
<1>1. PICK c \in {"ls", "wc"} : Pipe!Ended(c) /\ pipeReaped' = pipeReaped \cup {c}
  BY DEF Pipe!Wait, Pipe!Children
<1>2. /\ pipePc["parent"] = "wait"
      /\ pipePc' = pipePc \/ pipePc' = [pipePc EXCEPT !["parent"] = "success"]
  BY DEF Pipe!Wait, Pipe!Ends, Pipe!Goto
<1>3. DOMAIN pipePc = {"parent", "ls", "wc"}
  BY DEF PipeInv, PipeTypes, Pipe!Procs
<1>4. /\ \A q \in {"ls", "wc"} : pipePc'[q] = pipePc[q]
      /\ pipePc'["parent"] \in {"wait", "success"}
  BY <1>2, <1>3
<1> QED
  BY <1>1, <1>4 DEF PipeReaped, Pipe!Ended

(* Steps of the children, before and after exec.                           *)
LEMMA PipeChildMoves ==
    ASSUME PipeInv, PipeReaped, NEW c \in {"ls", "wc"}, Pipe!Child(c)
    PROVE  PipeReaped'
<1>1. pipePc[c] \in {"close", "dup2", "exec", "message", "exit"} /\ pipeReaped' = pipeReaped
  BY DEF Pipe!Child, Pipe!CloseUnneeded, Pipe!Dup2, Pipe!Exec, Pipe!Message, Pipe!ExitFailure
<1>2. \E n : pipePc' = [pipePc EXCEPT ![c] = n]
  <2>1. CASE Pipe!Message(c)
    BY <2>1, Zenon DEF Pipe!Message, Pipe!WriteLine, Pipe!Ends, Pipe!Goto
  <2>2. CASE ~Pipe!Message(c)
    BY <2>2, Zenon DEF Pipe!Child, Pipe!CloseUnneeded, Pipe!Dup2, Pipe!Exec, Pipe!ExitFailure,
               Pipe!Ends, Pipe!Goto
  <2> QED
    BY <2>1, <2>2
<1>3. ~Pipe!Ended(c)
  BY <1>1 DEF Pipe!Ended
<1> QED
  BY <1>1, <1>2, <1>3, PipeMoves

LEMMA PipeProgramMoves == PipeInv /\ PipeReaped /\ Pipe!Programs => PipeReaped'
<1> SUFFICES ASSUME PipeInv, PipeReaped, Pipe!Programs PROVE PipeReaped'
  OBVIOUS
<1>1. pipeReaped' = pipeReaped
  BY DEF Pipe!Programs, Pipe!LsWrites, Pipe!LsEnds, Pipe!WcReads, Pipe!WcEnds
<1>2. CASE pipePc' = pipePc
  BY <1>1, <1>2 DEF PipeReaped, Pipe!Ended
<1>3. CASE pipePc' # pipePc
  <2>1. \E c \in {"ls", "wc"} : \E n : pipePc[c] = "run" /\ pipePc' = [pipePc EXCEPT ![c] = n]
    <3>1. CASE Pipe!LsWrites
      BY <3>1, Zenon DEF Pipe!LsWrites, Pipe!WriteLine, Pipe!Ends, Pipe!Goto
    <3>2. CASE Pipe!LsEnds
      BY <3>2, Zenon DEF Pipe!LsEnds, Pipe!Ends, Pipe!Goto
    <3>3. CASE Pipe!WcEnds
      BY <3>3, Zenon DEF Pipe!WcEnds, Pipe!Ends, Pipe!Goto
    <3>4. CASE Pipe!WcReads
      BY <1>3, <3>4 DEF Pipe!WcReads
    <3> QED
      BY <3>1, <3>2, <3>3, <3>4 DEF Pipe!Programs
  <2>2. PICK c \in {"ls", "wc"} :
            \E n : pipePc[c] = "run" /\ pipePc' = [pipePc EXCEPT ![c] = n]
    BY <2>1
  <2>3. ~Pipe!Ended(c)
    BY <2>2 DEF Pipe!Ended
  <2> QED
    BY <1>1, <2>2, <2>3, PipeMoves
<1> QED
  BY <1>2, <1>3

(* What is written into the pipe and taken from it.                        *)
LEMMA LineWritten ==
    ASSUME PipeData, NEW c, NEW line \in 0..Lines, NEW next, Pipe!WriteLine(c, line, next)
    PROVE  pipe' \in Seq(0..Lines) /\ Len(pipe') <= Capacity
<1>1. CASE pipe' = pipe
  BY <1>1 DEF PipeData
<1>2. CASE Len(pipe) < Capacity /\ pipe' = Append(pipe, line)
  <2>1. pipe \in Seq(0..Lines)
    BY DEF PipeData
  <2>2. pipe' \in Seq(0..Lines) /\ Len(pipe') = Len(pipe) + 1 /\ Len(pipe) \in Nat
    BY <1>2, <2>1
  <2> QED
    BY <1>2, <2>2, PipeConstants
<1> QED
  BY <1>1, <1>2 DEF Pipe!WriteLine

LEMMA PipeDataStep == PipeInv /\ PipeData /\ Pipe!Next => PipeData'
<1> SUFFICES ASSUME PipeInv, PipeData, Pipe!Next PROVE PipeData'
  OBVIOUS
<1>1. /\ pfd \in (-1..MaxFd) \X (-1..MaxFd)
      /\ pipe \in Seq(0..Lines) /\ Len(pipe) <= Capacity
      /\ count \in Nat /\ faults \subseteq Faults
  BY DEF PipeData
<1>2. CASE Pipe!Pipe
  <2>1. UNCHANGED <<pipe, count, faults>> /\ pipePc' = [pipePc EXCEPT !["parent"] = "forkLs"]
    BY <1>2 DEF Pipe!Pipe, Pipe!Goto
  <2>2. PipeInv' /\ pipePc'["parent"] = "forkLs"
    <3>1. "parent" \in DOMAIN pipePc
      BY DEF PipeInv, PipeTypes, Pipe!Procs
    <3> QED
      BY <2>1, <3>1, PipeStep
  <2>3. pfd' \in (0..MaxFd) \X (0..MaxFd)
    BY <2>2 DEF PipeInv, PipeTypes
  <2>4. pfd' \in (-1..MaxFd) \X (-1..MaxFd)
    BY <2>3, PipeConstants
  <2> QED
    BY <1>1, <2>1, <2>4 DEF PipeData
<1>3. CASE Pipe!ForkLs \/ Pipe!ForkWc \/ Pipe!ParentClosesRead \/ Pipe!ParentClosesWrite
           \/ Pipe!Wait
  <2>1. UNCHANGED <<pfd, pipe, count>> /\ faults' \subseteq Faults
    BY <1>1, <1>3 DEF Pipe!ForkLs, Pipe!ForkWc, Pipe!Fork, Pipe!ParentClosesRead,
                      Pipe!ParentClosesWrite, Pipe!Wait, Faults
  <2> QED
    BY <1>1, <2>1 DEF PipeData
<1>4. ASSUME NEW c \in Pipe!Children, Pipe!Child(c) PROVE PipeData'
  <2>1. UNCHANGED <<pfd, count>> /\ faults' \subseteq Faults
    BY <1>1, <1>4 DEF Pipe!Child, Pipe!CloseUnneeded, Pipe!Dup2, Pipe!Exec, Pipe!Message,
                      Pipe!ExitFailure, Pipe!Children, Faults
  <2>2. pipe' = pipe \/ Pipe!WriteLine(c, 0, "exit")
    BY <1>4 DEF Pipe!Child, Pipe!CloseUnneeded, Pipe!Dup2, Pipe!Exec, Pipe!Message,
                Pipe!ExitFailure
  <2>3. pipe' \in Seq(0..Lines) /\ Len(pipe') <= Capacity
    <3>1. 0 \in 0..Lines
      BY PipeConstants
    <3> QED
      BY <1>1, <2>2, <3>1, LineWritten
  <2> QED
    BY <1>1, <2>1, <2>3 DEF PipeData
<1>5. CASE Pipe!LsWrites
  <2>1. /\ UNCHANGED <<pfd, count, faults>> /\ Pipe!LastLine < Lines
        /\ Pipe!WriteLine("ls", Pipe!LastLine + 1, "run")
    BY <1>5 DEF Pipe!LsWrites
  <2>2. Pipe!LastLine \in Nat
    <3>1. CASE pipe = <<>>
      BY <1>1, <3>1 DEF Pipe!LastLine
    <3>2. CASE pipe # <<>>
      <4>1. \A S : \A s \in Seq(S) : s # <<>> => s[Len(s)] \in S
        <5>1. ASSUME NEW S, NEW s \in Seq(S), s # <<>>
              PROVE  Len(s) \in 1..Len(s) /\ s \in [1..Len(s) -> S]
          <6>1. Len(s) \in Nat /\ s \in [1..Len(s) -> S]
            OBVIOUS
          <6>2. Len(s) # 0
            BY <5>1
          <6> QED
            BY <6>1, <6>2
        <5> QED
          BY <5>1
      <4>2. pipe[Len(pipe)] \in 0..Lines
        BY <1>1, <3>2, <4>1, Zenon
      <4>3. \A n \in 0..Lines : n \in Nat
        BY PipeConstants
      <4>4. Pipe!LastLine = pipe[Len(pipe)]
        BY <3>2 DEF Pipe!LastLine
      <4> QED
        BY <4>2, <4>3, <4>4
    <3> QED
      BY <3>1, <3>2
  <2>3. PICK x : x = Pipe!LastLine + 1
    OBVIOUS
  <2>4. x \in 0..Lines
    BY <2>1, <2>2, <2>3, PipeConstants
  <2>5. pipe' \in Seq(0..Lines) /\ Len(pipe') <= Capacity
    BY <2>1, <2>3, <2>4, LineWritten
  <2> QED
    BY <1>1, <2>1, <2>5 DEF PipeData
<1>6. CASE Pipe!LsEnds \/ Pipe!WcEnds
  <2>1. UNCHANGED <<pfd, pipe, count, faults>>
    BY <1>6 DEF Pipe!LsEnds, Pipe!WcEnds
  <2> QED
    BY <1>1, <2>1 DEF PipeData
<1>7. CASE Pipe!WcReads
  <2>1. UNCHANGED <<pfd, faults>> /\ count' = count + 1 /\ pipe' = Tail(pipe) /\ pipe # <<>>
    BY <1>7 DEF Pipe!WcReads
  <2>2. Tail(pipe) \in Seq(0..Lines) /\ Len(Tail(pipe)) = Len(pipe) - 1 /\ Len(pipe) \in Nat
    BY <1>1, <2>1
  <2>3. pipe' \in Seq(0..Lines) /\ Len(pipe') <= Capacity
    BY <1>1, <2>1, <2>2, PipeConstants
  <2> QED
    BY <1>1, <2>1, <2>3 DEF PipeData
<1> QED
  BY <1>2, <1>3, <1>4, <1>5, <1>6, <1>7 DEF Pipe!Next, Pipe!Parent, Pipe!Programs

LEMMA PipeMoreStep ==
    PipeInv /\ PipeData /\ PipeReaped /\ Pipe!Next => PipeData' /\ PipeReaped'
BY PipeDataStep, PipeParentMoves, PipeWaits, PipeChildMoves, PipeProgramMoves
DEF Pipe!Next, Pipe!Parent, Pipe!Children

LEMMA PipeMoreStands ==
    PipeData /\ PipeReaped /\ UNCHANGED pipeVars => PipeData' /\ PipeReaped'
BY DEF pipeVars, PipeData, PipeReaped, Pipe!Ended

LEMMA PipeTyped == PipeInv /\ PipeData /\ PipeReaped => Pipe!TypeOK
BY DEF PipeInv, PipeTypes, PipePc, PipeData, PipeReaped, Faults, Pipe!TypeOK, Pipe!NONE,
       Pipe!Children

-------------------------------------------------------------------------------
(* inet_sockets.c: the number of open descriptors is the sum, over the     *)
(* calls, of those each has open; s[c] is the sum for the first c calls.   *)
Running(s, f) ==
    /\ s \in [0..MaxCalls -> Nat] /\ s[0] = 0
    /\ \A c \in 1..MaxCalls : s[c] = s[c - 1] + f[c]

TotalOf(f) == LET sum[c \in 0..MaxCalls] == IF c = 0 THEN 0 ELSE sum[c - 1] + f[c]
              IN sum[MaxCalls]

LEMMA NumOpenIs ==
    Inet!NumOpen = TotalOf(inetOpen) /\ (Inet!NumOpen)' = TotalOf(inetOpen')
BY DEF Inet!NumOpen, TotalOf

LEMMA InetConstants == MaxCalls \in Nat /\ MaxFds \in Nat /\ MaxAddrs \in Nat
BY ProcessesAssumption DEF ProcessesAssumption, Inet!InetAssumption

(* Induction on the numbers, from the fact that < is well founded.         *)
LEMMA Induction ==
    ASSUME NEW T, 0 \in T, \A n \in Nat : n \in T => n + 1 \in T
    PROVE  Nat \subseteq T
<1> SUFFICES ASSUME Nat \ T # {} PROVE FALSE
  OBVIOUS
<1>1. PICK m \in Nat \ T : \A k \in Nat \ T : m <= k
  <2>1. Nat \ T \subseteq Nat
    OBVIOUS
  <2> QED
    BY <2>1, Smallest
<1>2. m # 0 /\ m - 1 \in Nat /\ m - 1 + 1 = m /\ ~(m <= m - 1)
  BY <1>1
<1>3. m - 1 \in T
  BY <1>1, <1>2
<1> QED
  BY <1>1, <1>2, <1>3

LEMMA RunningExists ==
    ASSUME NEW f \in [1..MaxCalls -> Nat]
    PROVE  \E s : Running(s, f)
<1> DEFINE Ok(n, s) == /\ s \in [0..n -> Nat] /\ s[0] = 0
                       /\ \A k \in 1..n : s[k] = s[k - 1] + f[k]
           T == {n \in Nat : n <= MaxCalls => \E s : Ok(n, s)}
<1>1. 0 \in T
  <2>1. Ok(0, [k \in 0..0 |-> 0])
    OBVIOUS
  <2> QED
    BY <2>1, Zenon
<1>2. ASSUME NEW n \in Nat, n \in T PROVE n + 1 \in T
  <2>1. CASE ~(n + 1 <= MaxCalls)
    BY <2>1
  <2>2. CASE n + 1 <= MaxCalls
    <3>0. n <= MaxCalls
      BY <2>2, InetConstants
    <3>1. PICK s : Ok(n, s)
      BY <1>2, <3>0, Zenon
    <3> DEFINE t == [k \in 0..n + 1 |-> IF k = n + 1 THEN s[n] + f[n + 1] ELSE s[k]]
    <3>2. s[n] \in Nat /\ f[n + 1] \in Nat
      BY <2>2, <3>1, InetConstants
    <3>3. t \in [0..n + 1 -> Nat] /\ t[0] = 0
      BY <3>1, <3>2
    <3>4. ASSUME NEW k \in 1..n + 1 PROVE t[k] = t[k - 1] + f[k]
      <4>1. CASE k = n + 1
        BY <4>1
      <4>2. CASE k # n + 1
        BY <3>1, <4>2
      <4> QED
        BY <4>1, <4>2
    <3>5. Ok(n + 1, t)
      BY <3>3, <3>4
    <3>6. \E s_1 : Ok(n + 1, s_1)
      <4> HIDE DEF t, Ok
      <4> QED
        BY <3>5
    <3> HIDE DEF Ok
    <3> QED
      BY <3>6
  <2> QED
    BY <2>1, <2>2
<1>3. MaxCalls \in T
  <2> HIDE DEF T
  <2> QED
    BY <1>1, <1>2, Induction, InetConstants
<1>4. MaxCalls <= MaxCalls
  BY InetConstants
<1>5. PICK s : Ok(MaxCalls, s)
  BY <1>3, <1>4, Zenon
<1> QED
  BY <1>5 DEF Running

(* A running sum ends with the total.                                      *)
LEMMA TotalIs ==
    ASSUME NEW f, NEW s, Running(s, f)
    PROVE  TotalOf(f) = s[MaxCalls]
<1> DEFINE Def(g) == [c \in 0..MaxCalls |-> IF c = 0 THEN 0 ELSE g[c - 1] + f[c]]
           b == CHOOSE g : g = Def(g)
<1>1. s = Def(s)
  BY DEF Running
<1>2. b = Def(b)
  <2>1. \E g : g = Def(g)
    BY <1>1
  <2> QED
    BY <2>1, Zenon
<1>3. TotalOf(f) = b[MaxCalls]
  BY DEF TotalOf
<1> DEFINE T == {n \in Nat : n <= MaxCalls => b[n] = s[n]}
<1> HIDE DEF b
<1>4. 0 \in T
  BY <1>2, InetConstants DEF Running
<1>5. ASSUME NEW n \in Nat, n \in T PROVE n + 1 \in T
  <2>1. SUFFICES ASSUME n + 1 <= MaxCalls PROVE b[n + 1] = s[n + 1]
    OBVIOUS
  <2>2. b[n] = s[n] /\ n + 1 \in 1..MaxCalls /\ (n + 1) - 1 = n /\ n + 1 # 0
        /\ n + 1 \in 0..MaxCalls
    BY <1>5, <2>1, InetConstants
  <2>3. b[n + 1] = b[n] + f[n + 1]
    BY <1>2, <2>2
  <2>4. s[n + 1] = s[n] + f[n + 1]
    BY <2>2 DEF Running
  <2> QED
    BY <2>2, <2>3, <2>4
<1>6. MaxCalls \in T
  <2> HIDE DEF T
  <2> QED
    BY <1>4, <1>5, Induction, InetConstants
<1> QED
  BY <1>3, <1>6, InetConstants

(* A call that opens one more makes the total one more, and no call has    *)
(* more than the total.                                                    *)
LEMMA OneMore ==
    ASSUME NEW f \in [1..MaxCalls -> Nat], NEW k \in 1..MaxCalls
    PROVE  /\ TotalOf(f) \in Nat
           /\ f[k] <= TotalOf(f)
           /\ TotalOf([f EXCEPT ![k] = @ + 1]) = TotalOf(f) + 1
<1>1. PICK s : Running(s, f)
  BY RunningExists
<1>2. MaxCalls \in Nat /\ s \in [0..MaxCalls -> Nat] /\ TotalOf(f) = s[MaxCalls]
  BY <1>1, InetConstants, TotalIs DEF Running
<1>3. f[k] <= s[MaxCalls]
  <2> DEFINE T == {n \in Nat : k + n <= MaxCalls => f[k] <= s[k + n]}
  <2>1. 0 \in T
    BY <1>1, <1>2 DEF Running
  <2>2. ASSUME NEW n \in Nat, n \in T PROVE n + 1 \in T
    <3>1. SUFFICES ASSUME k + (n + 1) <= MaxCalls PROVE f[k] <= s[k + (n + 1)]
      OBVIOUS
    <3>2. f[k] <= s[k + n] /\ k + (n + 1) \in 1..MaxCalls /\ k + (n + 1) - 1 = k + n
      BY <1>2, <2>2, <3>1
    <3>3. s[k + (n + 1)] = s[k + n] + f[k + (n + 1)]
      BY <1>1, <3>2 DEF Running
    <3>4. s[k + n] \in Nat /\ f[k + (n + 1)] \in Nat /\ f[k] \in Nat
      BY <1>2, <3>2
    <3> QED
      BY <3>2, <3>3, <3>4
  <2>3. MaxCalls - k \in T
    <3>1. MaxCalls - k \in Nat
      BY <1>2
    <3> HIDE DEF T
    <3> QED
      BY <2>1, <2>2, <3>1, Induction
  <2> QED
    BY <1>2, <2>3
<1>4. TotalOf([f EXCEPT ![k] = @ + 1]) = s[MaxCalls] + 1
  <2> DEFINE g == [f EXCEPT ![k] = @ + 1]
             t == [c \in 0..MaxCalls |-> IF c < k THEN s[c] ELSE s[c] + 1]
  <2>1. t \in [0..MaxCalls -> Nat] /\ t[0] = 0 /\ t[MaxCalls] = s[MaxCalls] + 1
    BY <1>1, <1>2 DEF Running
  <2>2. ASSUME NEW c \in 1..MaxCalls PROVE t[c] = t[c - 1] + g[c]
    <3>1. s[c] = s[c - 1] + f[c] /\ s[c] \in Nat /\ s[c - 1] \in Nat /\ f[c] \in Nat
      BY <1>1, <1>2 DEF Running
    <3>2. g[c] = IF c = k THEN f[c] + 1 ELSE f[c]
      OBVIOUS
    <3>3. t[c] = (IF c < k THEN s[c] ELSE s[c] + 1)
      BY <1>2
    <3>4. t[c - 1] = (IF c - 1 < k THEN s[c - 1] ELSE s[c - 1] + 1)
      BY <1>2
    <3> QED
      BY <3>1, <3>2, <3>3, <3>4
  <2>3. Running(t, g)
    BY <2>1, <2>2 DEF Running
  <2>4. TotalOf(g) = t[MaxCalls]
    <3> HIDE DEF t, g
    <3> QED
      BY <2>3, TotalIs
  <2> QED
    BY <2>1, <2>4
<1> QED
  BY <1>2, <1>3, <1>4

LEMMA TotalOfNone == TotalOf([c \in 1..MaxCalls |-> 0]) = 0
<1>1. Running([c \in 0..MaxCalls |-> 0], [c \in 1..MaxCalls |-> 0])
  BY InetConstants DEF Running
<1> QED
  BY <1>1, TotalIs, InetConstants

InetMore ==
    /\ inetOpen \in [1..MaxCalls -> Nat] /\ TotalOf(inetOpen) <= MaxFds
    /\ op \in {"connect", "listen", "bind"} /\ ret \in {-1, 0}
    /\ addrs \in 0..MaxAddrs /\ rp \in 1..MaxAddrs + 1
    /\ inetPc \in {"setsockopt", "connect", "bind", "listen"} => rp <= addrs

LEMMA Reopened ==
    ASSUME NEW S, NEW f \in [S -> Nat], NEW k \in S, f[k] = 1
    PROVE  f = [[f EXCEPT ![k] = 0] EXCEPT ![k] = @ + 1]
<1> DEFINE g == [[f EXCEPT ![k] = 0] EXCEPT ![k] = @ + 1]
<1>1. g \in [S -> Nat] /\ \A c \in S : g[c] = f[c]
  OBVIOUS
<1>2. f = g
  <2> HIDE DEF g
  <2> QED
    BY <1>1
<1> QED
  BY <1>2, Zenon

LEMMA InetMoreInit == Inet!Init => InetMore
<1>1. Inet!Init => inetOpen = [c \in 1..MaxCalls |-> 0]
  BY DEF Inet!Init
<1> QED
  BY <1>1, TotalOfNone, InetConstants DEF Inet!Init, InetMore

(* The descriptors are the same, or one is opened below the limit, or the  *)
(* one of the call that runs is closed.                                    *)
LEMMA OpenOrClosed ==
    ASSUME InetInv, InetMore, calls \in 1..MaxCalls,
           \/ inetOpen' = inetOpen
           \/ Inet!NumOpen < MaxFds /\ inetOpen' = [inetOpen EXCEPT ![calls] = @ + 1]
           \/ inetOpen[calls] = 1 /\ inetOpen' = [inetOpen EXCEPT ![calls] = @ - 1]
    PROVE  inetOpen' \in [1..MaxCalls -> Nat] /\ TotalOf(inetOpen') <= MaxFds
<1>1. inetOpen \in [1..MaxCalls -> Nat] /\ TotalOf(inetOpen) <= MaxFds
  BY DEF InetMore
<1>2. TotalOf(inetOpen) \in Nat
  BY <1>1, OneMore
<1>3. CASE inetOpen' = inetOpen
  BY <1>1, <1>3
<1>4. CASE Inet!NumOpen < MaxFds /\ inetOpen' = [inetOpen EXCEPT ![calls] = @ + 1]
  <2>1. TotalOf(inetOpen') = TotalOf(inetOpen) + 1 /\ TotalOf(inetOpen) < MaxFds
    BY <1>1, <1>4, OneMore, NumOpenIs
  <2>2. inetOpen' \in [1..MaxCalls -> Nat]
    BY <1>1, <1>4
  <2> QED
    BY <1>2, <2>1, <2>2, InetConstants
<1>5. CASE inetOpen[calls] = 1 /\ inetOpen' = [inetOpen EXCEPT ![calls] = @ - 1]
  <2>0. inetOpen' = [inetOpen EXCEPT ![calls] = 0] /\ inetOpen[calls] = 1
    BY <1>5
  <2>1. inetOpen' \in [1..MaxCalls -> Nat]
    BY <1>1, <2>0
  <2>2. inetOpen = [inetOpen' EXCEPT ![calls] = @ + 1]
    BY <1>1, <2>0, Reopened
  <2>3. TotalOf(inetOpen') \in Nat /\ TotalOf([inetOpen' EXCEPT ![calls] = @ + 1]) = TotalOf(inetOpen') + 1
    BY <2>1, OneMore
  <2>4. TotalOf(inetOpen) = TotalOf(inetOpen') + 1
    BY <2>2, <2>3
  <2> QED
    BY <1>1, <1>2, <2>1, <2>3, <2>4, InetConstants
<1> QED
  BY <1>3, <1>4, <1>5

LEMMA InetMoreStep == InetInv /\ InetMore /\ Inet!Next => InetMore'
<1> SUFFICES ASSUME InetInv, InetMore, Inet!Next PROVE InetMore'
  OBVIOUS
<1>m. MaxAddrs \in Nat
  BY InetConstants
<1>1. ASSUME NEW o \in {"connect", "listen", "bind"}, Inet!Call(o)  PROVE InetMore'
  BY <1>m, <1>1 DEF Inet!Call, Inet!Goes, InetMore
<1>2. CASE Inet!Getaddrinfo
  BY <1>m, <1>2 DEF Inet!Getaddrinfo, Inet!Goes, Inet!Return, InetMore
<1>3. CASE Inet!EndOfList
  BY <1>m, <1>3 DEF Inet!EndOfList, Inet!Goes, Inet!Return, InetMore
<1>4. ASSUME /\ inetPc \in {"socket", "setsockopt", "connect", "bind", "listen"}
             /\ UNCHANGED <<op, addrs>>
             /\ ret' = ret \/ ret' \in {-1, 0}
             /\ rp' = rp \/ (rp <= addrs /\ rp' = rp + 1)
             /\ rp' # rp => inetPc' = "socket"
             /\ inetPc' = "socket" \/ inetPc' = "idle" \/ (rp' = rp /\ rp <= addrs)
             /\ \/ inetOpen' = inetOpen
                \/ Inet!NumOpen < MaxFds /\ inetOpen' = [inetOpen EXCEPT ![calls] = @ + 1]
                \/ inetOpen[calls] = 1 /\ inetOpen' = [inetOpen EXCEPT ![calls] = @ - 1]
      PROVE  InetMore'
  <2>1. calls \in 1..MaxCalls
    BY <1>4 DEF InetInv
  <2>2. inetOpen' \in [1..MaxCalls -> Nat] /\ TotalOf(inetOpen') <= MaxFds
    BY <1>4, <2>1, OpenOrClosed
  <2>3. addrs' \in 0..MaxAddrs /\ rp' \in 1..MaxAddrs + 1
        /\ op' \in {"connect", "listen", "bind"} /\ ret' \in {-1, 0}
    BY <1>m, <1>4 DEF InetMore
  <2>4. inetPc' \in {"setsockopt", "connect", "bind", "listen"} => rp' <= addrs'
    BY <1>4
  <2> QED
    BY <2>2, <2>3, <2>4 DEF InetMore
<1>5. CASE Inet!Socket
  BY <1>4, <1>5 DEF Inet!Socket, Inet!Goes, InetMore
<1>6. CASE Inet!Setsockopt
  BY <1>4, <1>6 DEF Inet!Setsockopt, Inet!Goes, Inet!Return, Inet!Close, InetInv, InetMore
<1>7. CASE Inet!Connect
  BY <1>4, <1>7 DEF Inet!Connect, Inet!NextAddress, Inet!Goes, Inet!Return, Inet!Close,
                    InetInv, InetMore
<1>8. CASE Inet!Bind
  BY <1>4, <1>8 DEF Inet!Bind, Inet!NextAddress, Inet!Goes, Inet!Return, Inet!Close,
                    InetInv, InetMore
<1>9. CASE Inet!Listen
  BY <1>4, <1>9 DEF Inet!Listen, Inet!Goes, Inet!Return, InetMore
<1> QED
  BY <1>1, <1>2, <1>3, <1>5, <1>6, <1>7, <1>8, <1>9 DEF Inet!Next

LEMMA InetMoreStands == InetMore /\ UNCHANGED inetVars => InetMore'
BY DEF inetVars, InetMore

LEMMA InetTyped == InetInv /\ InetMore => Inet!TypeOK
<1> SUFFICES ASSUME InetInv, InetMore PROVE Inet!TypeOK
  OBVIOUS
<1>1. inetOpen \in [1..MaxCalls -> 0..MaxFds]
  <2>1. ASSUME NEW c \in 1..MaxCalls PROVE inetOpen[c] \in 0..MaxFds
    <3>1. inetOpen \in [1..MaxCalls -> Nat] /\ TotalOf(inetOpen) <= MaxFds
      BY DEF InetMore
    <3>2. inetOpen[c] <= TotalOf(inetOpen) /\ TotalOf(inetOpen) \in Nat /\ inetOpen[c] \in Nat
      BY <3>1, OneMore
    <3> QED
      BY <3>1, <3>2, InetConstants
  <2> QED
    BY <2>1 DEF InetMore
<1> QED
  BY <1>1, NumOpenIs DEF InetInv, InetMore, Inet!TypeOK

-------------------------------------------------------------------------------
(* multi_wait.c: numDead counts the children that wait() has returned; a   *)
(* member of R that was forked by q is one of Dead(q, R).                  *)
Dead(q, R) == {c \in R \ {{}} : Waits!Parent(c) = q}

Counted ==
    /\ numDead \in [Waits!Procs -> Nat]
    /\ \A q \in Waits!Procs : numDead[q] = Cardinality(Dead(q, reaped))

(* The instance has its own name for the operator of FiniteSets.           *)
LEMMA SameCardinality == \A S : Waits!Cardinality(S) = Cardinality(S)
BY Zenon DEF Cardinality, Waits!Cardinality

LEMMA DeadFinite == \A q : \A R \in SUBSET Waits!Procs : IsFiniteSet(Dead(q, R))
<1>1. IsFiniteSet(0..argc - 1)
  <2>1. 0 \in Int /\ argc - 1 \in Int
    BY Arguments
  <2> QED
    BY <2>1, FS_Interval
<1>2. IsFiniteSet(Waits!Procs)
  BY <1>1, FS_SUBSET DEF Waits!Procs
<1>3. \A q : \A R \in SUBSET Waits!Procs : Dead(q, R) \in SUBSET Waits!Procs
  BY DEF Dead
<1> QED
  BY <1>2, <1>3, FS_Subset

(* One more process is returned to its parent.                             *)
LEMMA DeadGrows ==
    ASSUME NEW R \in SUBSET Waits!Procs, NEW p \in Waits!Procs,
           NEW c \in Waits!Procs \ {{}}, c \notin R, Waits!Parent(c) = p
    PROVE  /\ Cardinality(Dead(p, R \cup {c})) = Cardinality(Dead(p, R)) + 1
           /\ \A q : q # p => Dead(q, R \cup {c}) = Dead(q, R)
<1>1. Dead(p, R \cup {c}) = Dead(p, R) \cup {c} /\ c \notin Dead(p, R)
  BY DEF Dead
<1>2. \A q : q # p => Dead(q, R \cup {c}) = Dead(q, R)
  BY DEF Dead
<1>3. IsFiniteSet(Dead(p, R))
  BY DeadFinite
<1>4. Cardinality(Dead(p, R) \cup {c}) = Cardinality(Dead(p, R)) + 1
  BY <1>1, <1>3, FS_AddElement
<1> QED
  BY <1>1, <1>2, <1>4

LEMMA CountedInit == Waits!Init => Counted
<1> SUFFICES ASSUME Waits!Init PROVE Counted
  OBVIOUS
<1>1. \A q : Dead(q, {}) = {}
  BY DEF Dead
<1>2. reaped = {} /\ numDead = [p \in Waits!Procs |-> 0]
  BY DEF Waits!Init
<1> QED
  BY <1>1, <1>2, FS_EmptySet DEF Counted

LEMMA CountedStep == FamilyInv /\ Counted /\ Waits!Next => Counted'
<1> SUFFICES ASSUME FamilyInv, Counted, NEW p \in Waits!Procs, Waits!Step(p)
             PROVE  Counted'
  BY DEF Waits!Next
<1>1. CASE UNCHANGED <<numDead, reaped>>
  BY <1>1 DEF Counted
<1>2. CASE Waits!WaitReturns(p)
  <2>1. PICK c \in Waits!Children(p) \ reaped : reaped' = reaped \cup {c}
    BY <1>2 DEF Waits!WaitReturns
  <2>2. c \in Waits!Procs \ {{}} /\ c \notin reaped /\ Waits!Parent(c) = p
    BY <2>1 DEF Waits!Children, Waits!Main
  <2>3. reaped \in SUBSET Waits!Procs
    BY DEF FamilyInv, WaitTypes
  <2>4. /\ Cardinality(Dead(p, reaped')) = Cardinality(Dead(p, reaped)) + 1
        /\ \A q : q # p => Dead(q, reaped') = Dead(q, reaped)
    BY <2>1, <2>2, <2>3, DeadGrows
  <2>5. numDead' = [numDead EXCEPT ![p] = @ + 1]
    BY <1>2 DEF Waits!WaitReturns
  <2> QED
    BY <2>4, <2>5 DEF Counted
<1> QED
  BY <1>1, <1>2
  DEF Waits!Step, Waits!Fork, Waits!SleepOver, Waits!NoMoreChildren

LEMMA CountedStands == Counted /\ UNCHANGED waitVars => Counted'
BY DEF waitVars, Counted

LEMMA WaitTyped == FamilyInv /\ Counted => Waits!TypeOK
<1> SUFFICES ASSUME FamilyInv, Counted PROVE Waits!TypeOK
  OBVIOUS
<1>1. WaitTypes
  BY DEF FamilyInv
<1>2. ASSUME NEW q \in Waits!Procs
      PROVE  numDead[q] = Waits!Cardinality(Waits!Children(q) \cap reaped)
  <2>1. \A c \in reaped : c \in Waits!Procs /\ Waits!Forked(c)
    BY <1>1 DEF WaitTypes, Waits!Ended, Waits!Forked
  <2>2. Waits!Children(q) \cap reaped = Dead(q, reaped)
    BY <2>1 DEF Waits!Children, Waits!Main, Dead
  <2> QED
    BY <2>2, SameCardinality DEF Counted
<1> QED
  BY <1>1, <1>2 DEF WaitTypes, Waits!TypeOK

-------------------------------------------------------------------------------
(* What makes every program's types inductive, for the seven together.     *)
TypesInv ==
    /\ PipeInv /\ PipeData /\ PipeReaped
    /\ DaemonInv /\ NullInv /\ DaemonMore
    /\ FamilyInv /\ Counted
    /\ CopyInv
    /\ DupInv /\ DupMore
    /\ SimpleTypes
    /\ InetInv /\ InetMore

LEMMA WaitStands == FamilyInv /\ UNCHANGED waitVars => FamilyInv'
BY DEF waitVars, FamilyInv, WaitTypes, CountsUp, Lineage, Fresh, Waits!Ended, Waits!Forked

LEMMA TypesInit == Init => TypesInv
BY PipeInit, PipeDataInit, DaemonInit, NullInit, DaemonMoreInit, WaitInit, CountedInit,
   CopyInit, DupInit, DupMoreInit, SimpleInit, InetInit, InetMoreInit
DEF Init, TypesInv, WaitInv

LEMMA TypesStep == TypesInv /\ [Next]_vars => TypesInv'
<1> SUFFICES ASSUME TypesInv, [Next]_vars PROVE TypesInv'
  OBVIOUS
<1>1. /\ (PipeRuns /\ Pipe!Next) \/ UNCHANGED pipeVars
      /\ (DaemonRuns /\ Daemon!Next) \/ UNCHANGED daemonVars
      /\ (WaitsRuns /\ Waits!Next) \/ UNCHANGED waitVars
      /\ (CopyRuns /\ Copy!Next) \/ UNCHANGED copyVars
      /\ (DupRuns /\ Dup!Next) \/ UNCHANGED dupVars
      /\ (SimpleRuns /\ Simple!Next) \/ UNCHANGED simpleVars
      /\ (InetRuns /\ Inet!Next) \/ UNCHANGED inetVars
  BY DEF Next, PipeRuns, DaemonRuns, WaitsRuns, CopyRuns, DupRuns, SimpleRuns, InetRuns,
         Runs, vars
<1>2. PipeInv' /\ PipeData' /\ PipeReaped'
  BY <1>1, PipeStep, PipeStands, PipeDataStep, PipeMoreStep, PipeMoreStands, Zenon
  DEF TypesInv
<1>3. DaemonInv' /\ NullInv' /\ DaemonMore'
  BY <1>1, DaemonStep, NullStep, DaemonMoreStep, DaemonStands, DaemonMoreStands, Zenon
  DEF TypesInv
<1>4. FamilyInv' /\ Counted'
  <2>1. CASE Waits!Next
    <3>1. PICK p \in Waits!Procs : Waits!Step(p)
      BY <2>1 DEF Waits!Next
    <3>2. FamilyInv'
      BY <3>1, FamilyStep DEF TypesInv
    <3> QED
      BY <2>1, <3>2, CountedStep DEF TypesInv
  <2>2. CASE UNCHANGED waitVars
    BY <2>2, WaitStands, CountedStands DEF TypesInv
  <2> QED
    BY <1>1, <2>1, <2>2
<1>5. CopyInv'
  BY <1>1, CopyStep, CopyStands, Zenon DEF TypesInv
<1>6. DupInv' /\ DupMore'
  BY <1>1, DupStep, DupStands, DupMoreStep, DupMoreStands, Zenon DEF TypesInv
<1>7. SimpleTypes'
  BY <1>1, SimpleStep, SimpleStands, Zenon DEF TypesInv
<1>8. InetInv' /\ InetMore'
  BY <1>1, InetStep, InetStands, InetMoreStep, InetMoreStands, Zenon DEF TypesInv
<1> QED
  BY <1>2, <1>3, <1>4, <1>5, <1>6, <1>7, <1>8 DEF TypesInv

(* Every variable of the seven programs stays in its type; only ended      *)
(* children are reaped, each is counted once, and descriptors that are used*)
(* are open, for every value of the constants (multi_wait.c:42-58,         *)
(* inet_sockets.c:31-124).                                                 *)
THEOREM TypesKept == FairSpec => []TypeOK
<1>1. TypesInv => TypeOK
  BY PipeTyped, DaemonTyped, WaitTyped, CopyTyped, DupTyped, SimpleTyped, InetTyped, Zenon
  DEF TypesInv, TypeOK
<1> QED
  BY <1>1, TypesInit, TypesStep, PTL DEF FairSpec
===============================================================================

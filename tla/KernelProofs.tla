---------------------------- MODULE KernelProofs ----------------------------
(***************************************************************************)
(* Theorems about the kernel, for every set of threads, mutexes and        *)
(* condition variables, every assignment of priorities and every program:  *)
(* the types of its variables, and who owns a mutex and waits for it.      *)
(***************************************************************************)
EXTENDS KernelProperties, TLAPS, SequenceTheorems, WellFoundedInduction,
        FiniteSetTheorems

-----------------------------------------------------------------------------
(***************************************************************************)
(* Facts about the thread-list operators of KernelLists, for every list    *)
(* and every priority function: each operator returns a list of threads,   *)
(* and keeps exactly the nodes the C function keeps.  The library's        *)
(* induction theorems take an operator argument; the inductions below run  *)
(* on the least counterexample instead (MinNat).                           *)
(***************************************************************************)

(* Every non-empty set of naturals has a least element.                    *)
LEMMA MinNat ==
  ASSUME NEW S \in SUBSET Nat, S # {}
  PROVE  \E k \in S : \A j \in S : k <= j
<1>1. PICK x \in S : \A y \in S : ~(<<y, x>> \in OpToRel(<, Nat))
  BY WFMin, NatLessThanWellFounded
<1>2. \A y \in Nat : y < x => <<y, x>> \in OpToRel(<, Nat)
  BY Zenon DEF OpToRel
<1>3. \A y \in S : ~(y < x)
  BY <1>1, <1>2, Zenon
<1> QED
  BY <1>3

(* The walk of __thlist_add_pri stops inside the list.                     *)
LEMMA AddPosStops ==
  ASSUME NEW T, NEW list \in Seq(T), NEW from \in 0 .. Len(list), NEW th, NEW P
  PROVE  AddPos(list, from, th, P) \in StopSet(list, from, th, P)
<1> DEFINE S == StopSet(list, from, th, P)
<1>1. S \in SUBSET Nat /\ S # {}
  <2>1. Len(list) \in S
    BY DEF StopSet
  <2> QED
    BY <2>1 DEF StopSet
<1>2. \E k \in S : \A j \in S : k <= j
  <2> HIDE DEF S
  <2> QED BY <1>1, MinNat
<1> QED
  BY <1>2 DEF AddPos

(* Linking one node in keeps all the others.                               *)
LEMMA InsertAtProps ==
  ASSUME NEW T, NEW list \in Seq(T), NEW k \in 0 .. Len(list), NEW th \in T
  PROVE  /\ InsertAt(list, k + 1, th) \in Seq(T)
         /\ Len(InsertAt(list, k + 1, th)) = Len(list) + 1
         /\ \A i \in 1 .. (Len(list) + 1) :
              InsertAt(list, k + 1, th)[i] =
                IF i <= k THEN list[i] ELSE IF i = k + 1 THEN th ELSE list[i - 1]
<1> DEFINE a == SubSeq(list, 1, k)
           b == SubSeq(list, k + 1, Len(list))
<1>1. /\ a \in Seq(T) /\ Len(a) = k
      /\ \A i \in 1 .. k : a[i] = list[i]
  BY SubSeqProperties
<1>2. /\ b \in Seq(T) /\ Len(b) = Len(list) - k
      /\ \A i \in 1 .. (Len(list) - k) : b[i] = list[k + i]
  BY SubSeqProperties
<1>3. /\ <<th>> \in Seq(T) /\ Len(<<th>>) = 1 /\ <<th>>[1] = th
  OBVIOUS
<1> HIDE DEF a, b
<1> DEFINE e == a \o <<th>>
           c == e \o b
<1>4. /\ e \in Seq(T) /\ Len(e) = k + 1
      /\ \A i \in 1 .. (k + 1) : e[i] = IF i <= k THEN a[i] ELSE th
  BY <1>1, <1>3, ConcatProperties
<1> HIDE DEF e
<1>5. /\ c \in Seq(T) /\ Len(c) = Len(list) + 1
      /\ \A i \in 1 .. (Len(list) + 1) :
           c[i] = IF i <= k + 1 THEN e[i] ELSE b[i - (k + 1)]
  <2>1. e \in Seq(T) /\ b \in Seq(T)
    BY <1>2, <1>4
  <2>2. /\ c \in Seq(T) /\ Len(c) = Len(e) + Len(b)
        /\ \A i \in 1 .. (Len(e) + Len(b)) :
             c[i] = IF i <= Len(e) THEN e[i] ELSE b[i - Len(e)]
    BY <2>1, ConcatProperties
  <2>3. Len(e) = k + 1 /\ Len(e) + Len(b) = Len(list) + 1
    BY <1>2, <1>4
  <2> HIDE DEF c
  <2> QED
    BY <2>2, <2>3
<1>6. (k + 1) - 1 = k
  OBVIOUS
<1>7. InsertAt(list, k + 1, th) = c
  BY <1>6 DEF InsertAt, a, b, e
<1> HIDE DEF c
<1>8. ASSUME NEW i \in 1 .. (Len(list) + 1)
      PROVE  c[i] = IF i <= k THEN list[i]
                    ELSE IF i = k + 1 THEN th ELSE list[i - 1]
  <2>1. CASE i <= k
    <3>1. i \in 1 .. k /\ i \in 1 .. (k + 1) /\ i <= k + 1
      BY <2>1
    <3>2. c[i] = e[i] /\ e[i] = a[i] /\ a[i] = list[i]
      BY <2>1, <3>1, <1>1, <1>4, <1>5
    <3> QED BY <2>1, <3>2
  <2>2. CASE i = k + 1
    <3>1. c[i] = e[i] /\ e[i] = th
      BY <2>2, <1>4, <1>5
    <3> QED BY <2>2, <3>1
  <2>3. CASE ~(i <= k + 1)
    <3>1. i - (k + 1) \in 1 .. (Len(list) - k) /\ k + (i - (k + 1)) = i - 1
      BY <2>3
    <3>2. c[i] = b[i - (k + 1)] /\ b[i - (k + 1)] = list[i - 1]
      BY <2>3, <3>1, <1>2, <1>5
    <3> QED BY <2>3, <3>2
  <2> QED BY <2>1, <2>2, <2>3
<1> QED
  BY <1>5, <1>7, <1>8

(* The list new is list with th linked in behind its first k nodes.        *)
Inserted(T, new, list, k, th) ==
  /\ new \in Seq(T)
  /\ Len(new) = Len(list) + 1
  /\ \A i \in 1 .. (Len(list) + 1) :
       new[i] = IF i <= k THEN list[i] ELSE IF i = k + 1 THEN th ELSE list[i - 1]

LEMMA InsertAtInserts ==
  ASSUME NEW T, NEW list \in Seq(T), NEW k \in 0 .. Len(list), NEW th \in T
  PROVE  Inserted(T, InsertAt(list, k + 1, th), list, k, th)
BY InsertAtProps DEF Inserted

-----------------------------------------------------------------------------
(* What a list links, and that it links nobody twice.                      *)
Nodes(list) == {list[i] : i \in 1 .. Len(list)}
Once(list) == \A i, j \in 1 .. Len(list) : list[i] = list[j] => i = j

(* Linking th adds it to the nodes and disturbs no other link.             *)
LEMMA InsertLinks ==
  ASSUME NEW T, NEW list \in Seq(T), NEW k \in 0 .. Len(list), NEW th \in T
  PROVE  /\ Nodes(InsertAt(list, k + 1, th)) = Nodes(list) \cup {th}
         /\ Once(list) /\ th \notin Nodes(list)
              => Once(InsertAt(list, k + 1, th))
<1> DEFINE new == InsertAt(list, k + 1, th)
<1>0. Inserted(T, new, list, k, th)
  BY InsertAtInserts
<1>1. /\ new \in Seq(T)
      /\ Len(new) = Len(list) + 1
      /\ \A i \in 1 .. (Len(list) + 1) :
           new[i] = IF i <= k THEN list[i] ELSE IF i = k + 1 THEN th ELSE list[i - 1]
  BY ONLY <1>0 DEF Inserted
<1>2. Len(list) \in Nat
  OBVIOUS
<1> HIDE DEF new
<1>3. Nodes(new) \subseteq Nodes(list) \cup {th}
  <2> SUFFICES ASSUME NEW i \in 1 .. (Len(list) + 1)
      PROVE  new[i] \in Nodes(list) \cup {th}
      BY <1>1 DEF Nodes
  <2>1. CASE i <= k
    BY <1>1, <1>2, <2>1 DEF Nodes
  <2>2. CASE i = k + 1
    BY <1>1, <2>2
  <2>3. CASE i > k + 1
    <3>1. i - 1 \in 1 .. Len(list) /\ new[i] = list[i - 1]
      BY <1>1, <1>2, <2>3
    <3> QED BY <3>1 DEF Nodes
  <2> QED BY <2>1, <2>2, <2>3
<1>4. Nodes(list) \cup {th} \subseteq Nodes(new)
  <2>1. th \in Nodes(new)
    <3>1. k + 1 \in 1 .. (Len(list) + 1) /\ new[k + 1] = th
      BY <1>1, <1>2
    <3> QED BY <1>1, <3>1 DEF Nodes
  <2>2. ASSUME NEW i \in 1 .. Len(list)
        PROVE  list[i] \in Nodes(new)
    <3>1. CASE i <= k
      <4>1. i \in 1 .. (Len(list) + 1) /\ new[i] = list[i]
        BY <1>1, <1>2, <3>1
      <4> QED BY <1>1, <4>1 DEF Nodes
    <3>2. CASE i > k
      <4>1. i + 1 \in 1 .. (Len(list) + 1) /\ ~(i + 1 <= k) /\ i + 1 # k + 1
            /\ (i + 1) - 1 = i
        BY <1>2, <3>2
      <4>2. new[i + 1] = list[i]
        BY <1>1, <4>1
      <4> QED BY <1>1, <4>1, <4>2 DEF Nodes
    <3> QED BY <3>1, <3>2
  <2> QED BY <2>1, <2>2 DEF Nodes
<1>5. ASSUME Once(list), th \notin Nodes(list)
      PROVE  Once(new)
  <2>1. \A i \in 1 .. Len(list) : list[i] # th
    BY <1>5 DEF Nodes
  <2>2. ASSUME NEW i \in 1 .. (Len(list) + 1), NEW j \in 1 .. (Len(list) + 1),
               new[i] = new[j], i < j
        PROVE  FALSE
    <3>1. CASE j <= k
      <4>1. new[i] = list[i] /\ new[j] = list[j] /\ i \in 1 .. Len(list)
            /\ j \in 1 .. Len(list) /\ i # j
        BY <1>1, <1>2, <2>2, <3>1
      <4>2. list[i] = list[j]
        BY <2>2, <4>1
      <4> QED BY <1>5, <4>1, <4>2 DEF Once
    <3>2. CASE j = k + 1
      <4>1. new[i] = list[i] /\ new[j] = th /\ i \in 1 .. Len(list)
        BY <1>1, <1>2, <2>2, <3>2
      <4> QED BY <2>1, <2>2, <4>1
    <3>3. CASE j > k + 1
      <4>1. new[j] = list[j - 1] /\ j - 1 \in 1 .. Len(list)
        BY <1>1, <1>2, <3>3
      <4>2. CASE i <= k
        <5>1. new[i] = list[i] /\ i \in 1 .. Len(list) /\ i # j - 1
          BY <1>1, <1>2, <3>3, <4>2
        <5> QED BY <1>5, <2>2, <4>1, <5>1 DEF Once
      <4>3. CASE i = k + 1
        <5>1. new[i] = th
          BY <1>1, <4>3
        <5> QED BY <2>1, <2>2, <4>1, <5>1
      <4>4. CASE i > k + 1
        <5>1. new[i] = list[i - 1] /\ i - 1 \in 1 .. Len(list) /\ i - 1 # j - 1
          BY <1>1, <1>2, <2>2, <4>4
        <5> QED BY <1>5, <2>2, <4>1, <5>1 DEF Once
      <4> QED BY <4>2, <4>3, <4>4
    <3> QED BY <3>1, <3>2, <3>3
  <2> QED
    BY <1>1, <1>2, <2>2 DEF Once
<1> QED
  BY <1>3, <1>4, <1>5 DEF new

(* __thlist_add_pri links th, and nobody else.                             *)
LEMMA AddPriLinks ==
  ASSUME NEW T, NEW list \in Seq(T), NEW th \in T, NEW P
  PROVE  /\ AddPri(list, th, P) \in Seq(T)
         /\ Len(AddPri(list, th, P)) = Len(list) + 1
         /\ Nodes(AddPri(list, th, P)) = Nodes(list) \cup {th}
         /\ Once(list) /\ th \notin Nodes(list) => Once(AddPri(list, th, P))
<1> DEFINE k == AddPos(list, 0, th, P)
<1>1. k \in 0 .. Len(list)
  <2>1. Len(list) \in Nat
    OBVIOUS
  <2>2. k \in StopSet(list, 0, th, P)
    BY <2>1, AddPosStops
  <2> QED BY <2>2 DEF StopSet
<1>2. AddPri(list, th, P) = InsertAt(list, k + 1, th)
  BY DEF AddPri
<1> HIDE DEF k
<1>3. /\ InsertAt(list, k + 1, th) \in Seq(T)
      /\ Len(InsertAt(list, k + 1, th)) = Len(list) + 1
  BY <1>1, InsertAtProps
<1>4. /\ Nodes(InsertAt(list, k + 1, th)) = Nodes(list) \cup {th}
      /\ Once(list) /\ th \notin Nodes(list) => Once(InsertAt(list, k + 1, th))
  BY <1>1, InsertLinks
<1> QED
  BY <1>2, <1>3, <1>4

(* The nodes from behind position k on.                                    *)
LEMMA RestProps ==
  ASSUME NEW T, NEW list \in Seq(T), NEW k \in 1 .. Len(list)
  PROVE  /\ SubSeq(list, k + 1, Len(list)) \in Seq(T)
         /\ Len(SubSeq(list, k + 1, Len(list))) = Len(list) - k
         /\ \A i \in 1 .. (Len(list) - k) :
              SubSeq(list, k + 1, Len(list))[i] = list[k + i]
<1> DEFINE rest == SubSeq(list, k + 1, Len(list))
           n == Len(list) - k
<1>1. Len(list) \in Nat /\ k \in Nat /\ n \in Nat /\ n + k = Len(list)
  OBVIOUS
<1>2. /\ rest \in Seq(T) /\ Len(rest) = n
      /\ \A i \in 1 .. n : rest[i] = list[k + i]
  <2>1. \A i \in (k + 1) .. Len(list) : list[i] \in T
    OBVIOUS
  <2>2. k + 1 \in Int /\ Len(list) \in Int
    OBVIOUS
  <2>3. /\ rest \in Seq(T)
        /\ Len(rest) = IF k + 1 <= Len(list) THEN Len(list) - (k + 1) + 1 ELSE 0
        /\ \A i \in 1 .. (Len(list) - (k + 1) + 1) : rest[i] = list[(k + 1) + i - 1]
    BY <2>1, <2>2, SubSeqProperties
  <2>4. Len(rest) = n
    <3>1. Len(rest) = IF k + 1 <= Len(list) THEN Len(list) - (k + 1) + 1 ELSE 0
      BY <2>3
    <3>2. \A m \in Nat : \A i \in 1 .. m :
            m - (i + 1) + 1 = m - i /\ (~(i + 1 <= m) => m - i = 0)
      OBVIOUS
    <3>3. Len(list) - (k + 1) + 1 = n /\ (~(k + 1 <= Len(list)) => n = 0)
      BY <1>1, <3>2
    <3> HIDE DEF rest, n
    <3> QED BY <3>1, <3>3
  <2>5. ASSUME NEW i \in 1 .. n
        PROVE  rest[i] = list[k + i]
    <3>1. i \in 1 .. (Len(list) - (k + 1) + 1) /\ (k + 1) + i - 1 = k + i
      BY <1>1
    <3> QED BY <2>3, <3>1
  <2> QED BY <2>3, <2>4, <2>5
<1> QED
  BY <1>2

(* Taking the nodes from position k on: what the scheduler and a signal    *)
(* leave of a list.                                                        *)
LEMMA RestLinks ==
  ASSUME NEW T, NEW list \in Seq(T), NEW k \in 1 .. Len(list), Once(list)
  PROVE  /\ SubSeq(list, k + 1, Len(list)) \in Seq(T)
         /\ Nodes(SubSeq(list, k + 1, Len(list))) =
              Nodes(list) \ {list[i] : i \in 1 .. k}
         /\ Once(SubSeq(list, k + 1, Len(list)))
<1> DEFINE rest == SubSeq(list, k + 1, Len(list))
           n == Len(list) - k
<1>1. Len(list) \in Nat /\ k \in Nat /\ n \in Nat /\ n + k = Len(list)
  OBVIOUS
<1>2. /\ rest \in Seq(T) /\ Len(rest) = n
      /\ \A i \in 1 .. n : rest[i] = list[k + i]
  BY RestProps
<1> HIDE DEF rest, n
<1>3. Once(rest)
  <2> SUFFICES ASSUME NEW i \in 1 .. n, NEW j \in 1 .. n, rest[i] = rest[j]
      PROVE  i = j
      BY <1>2 DEF Once
  <2>1. k + i \in 1 .. Len(list) /\ k + j \in 1 .. Len(list)
    BY <1>1
  <2>2. k + i = k + j
    BY <1>2, <2>1 DEF Once
  <2> QED BY <1>1, <2>2
<1>4. Nodes(rest) \subseteq Nodes(list) \ {list[i] : i \in 1 .. k}
  <2> SUFFICES ASSUME NEW i \in 1 .. n
      PROVE  list[k + i] \in Nodes(list) \ {list[j] : j \in 1 .. k}
      BY <1>2 DEF Nodes
  <2>1. k + i \in 1 .. Len(list)
    BY <1>1
  <2>2. \A j \in 1 .. k : j \in 1 .. Len(list) /\ j # k + i
    BY <1>1
  <2> QED BY <2>1, <2>2 DEF Nodes, Once
<1>5. ASSUME NEW j \in 1 .. Len(list), list[j] \notin {list[i] : i \in 1 .. k}
      PROVE  list[j] \in Nodes(rest)
  <2>1. ~(j <= k)
    BY <1>5
  <2>2. j - k \in 1 .. n /\ k + (j - k) = j
    BY <1>1, <2>1
  <2>3. rest[j - k] = list[j]
    BY <1>2, <2>2
  <2> QED BY <1>2, <2>2, <2>3 DEF Nodes
<1> QED
  BY ZenonT(40), <1>2, <1>3, <1>4, <1>5 DEF Nodes, rest

(* Taking the head off.                                                    *)
LEMMA TailLinks ==
  ASSUME NEW T, NEW list \in Seq(T), list # <<>>, Once(list)
  PROVE  /\ Head(list) \in Nodes(list) /\ Head(list) \in T
         /\ Tail(list) \in Seq(T) /\ Once(Tail(list))
         /\ Nodes(Tail(list)) = Nodes(list) \ {Head(list)}
<1>1. 1 \in 1 .. Len(list) /\ Head(list) = list[1]
  OBVIOUS
<1>2. Tail(list) = SubSeq(list, 1 + 1, Len(list))
  BY TailIsSubSeq
<1>3. {list[i] : i \in 1 .. 1} = {Head(list)}
  BY <1>1
<1>4. /\ SubSeq(list, 1 + 1, Len(list)) \in Seq(T)
      /\ Nodes(SubSeq(list, 1 + 1, Len(list))) =
           Nodes(list) \ {list[i] : i \in 1 .. 1}
      /\ Once(SubSeq(list, 1 + 1, Len(list)))
  BY <1>1, RestLinks
<1>5. Head(list) \in Nodes(list) /\ Head(list) \in T
  BY <1>1 DEF Nodes
<1>6. /\ Tail(list) \in Seq(T) /\ Once(Tail(list))
      /\ Nodes(Tail(list)) = Nodes(list) \ {list[i] : i \in 1 .. 1}
  BY <1>2, <1>4
<1> QED
  BY <1>3, <1>5, <1>6

(* What removing the node at position k does to the others.                *)
LEMMA RemoveAtProps ==
  ASSUME NEW T, NEW list \in Seq(T), NEW k \in 1 .. Len(list)
  PROVE  /\ RemoveAt(list, k) \in Seq(T) /\ Len(RemoveAt(list, k)) = Len(list) - 1
         /\ \A i \in 1 .. (Len(list) - 1) :
              RemoveAt(list, k)[i] = IF i < k THEN list[i] ELSE list[i + 1]
<1> DEFINE a == SubSeq(list, 1, k - 1)
           b == SubSeq(list, k + 1, Len(list))
           new == a \o b
           n == Len(list) - 1
<1>1. Len(list) \in Nat /\ k \in Nat /\ k >= 1 /\ k <= Len(list) /\ n \in Nat
      /\ n = Len(list) - 1
  OBVIOUS
<1>2. /\ a \in Seq(T) /\ Len(a) = k - 1
      /\ \A i \in 1 .. (k - 1) : a[i] = list[i]
  <2>1. \A i \in 1 .. (k - 1) : list[i] \in T
    OBVIOUS
  <2>2. 1 \in Int /\ k - 1 \in Int
    OBVIOUS
  <2>3. /\ a \in Seq(T) /\ Len(a) = IF 1 <= k - 1 THEN (k - 1) - 1 + 1 ELSE 0
        /\ \A i \in 1 .. ((k - 1) - 1 + 1) : a[i] = list[1 + i - 1]
    BY <2>1, <2>2, SubSeqProperties
  <2> HIDE DEF a
  <2>4. ASSUME NEW i \in 1 .. (k - 1)
        PROVE  a[i] = list[i]
    <3>1. i \in 1 .. ((k - 1) - 1 + 1) /\ 1 + i - 1 = i
      OBVIOUS
    <3> QED BY <2>3, <3>1
  <2>5. Len(a) = k - 1
    BY <2>3
  <2> QED BY <2>3, <2>4, <2>5
<1>3. /\ b \in Seq(T) /\ Len(b) = Len(list) - k
      /\ \A i \in 1 .. (Len(list) - k) : b[i] = list[k + i]
  BY SubSeqProperties
<1> HIDE DEF a, b
<1>4. /\ new \in Seq(T) /\ Len(new) = n
      /\ \A i \in 1 .. n : new[i] = IF i < k THEN list[i] ELSE list[i + 1]
  <2>1. /\ new \in Seq(T) /\ Len(new) = Len(a) + Len(b)
        /\ \A i \in 1 .. Len(a) + Len(b) :
             new[i] = IF i <= Len(a) THEN a[i] ELSE b[i - Len(a)]
    BY <1>2, <1>3, ConcatProperties
  <2> HIDE DEF new
  <2>2. Len(a) + Len(b) = n
    BY <1>1, <1>2, <1>3
  <2>3. ASSUME NEW i \in 1 .. n
        PROVE  new[i] = IF i < k THEN list[i] ELSE list[i + 1]
    <3>1. CASE i < k
      <4>1. i <= Len(a) /\ i \in 1 .. (k - 1)
        BY <1>1, <1>2, <3>1
      <4> QED BY <1>2, <2>1, <2>2, <3>1, <4>1
    <3>2. CASE ~(i < k)
      <4>1. /\ ~(i <= Len(a)) /\ i - Len(a) \in 1 .. (Len(list) - k)
            /\ k + (i - Len(a)) = i + 1
        BY <1>1, <1>2, <3>2
      <4> QED BY <1>3, <2>1, <2>2, <3>2, <4>1
    <3> QED BY <3>1, <3>2
  <2> QED BY <2>1, <2>2, <2>3
<1>5. RemoveAt(list, k) = new
  BY DEF RemoveAt, a, b
<1> QED
  BY <1>4, <1>5

(* Removing the node at position k.                                        *)
LEMMA RemoveLinks ==
  ASSUME NEW T, NEW list \in Seq(T), NEW k \in 1 .. Len(list)
  PROVE  /\ RemoveAt(list, k) \in Seq(T)
         /\ Once(list) => /\ Nodes(RemoveAt(list, k)) = Nodes(list) \ {list[k]}
                          /\ Once(RemoveAt(list, k))
<1> DEFINE new == RemoveAt(list, k)
           n == Len(list) - 1
<1>1. Len(list) \in Nat /\ k \in Nat /\ k >= 1 /\ k <= Len(list) /\ n \in Nat
      /\ n = Len(list) - 1
  OBVIOUS
<1>2. /\ new \in Seq(T) /\ Len(new) = n
      /\ \A i \in 1 .. n : new[i] = IF i < k THEN list[i] ELSE list[i + 1]
  BY RemoveAtProps
<1> HIDE DEF new, n
<1> DEFINE from(i) == IF i < k THEN i ELSE i + 1
<1>3. \A i \in 1 .. n : /\ from(i) \in 1 .. Len(list) /\ from(i) # k
                        /\ new[i] = list[from(i)]
  BY <1>1, <1>2
<1>4. \A i, j \in 1 .. n : from(i) = from(j) => i = j
  BY <1>1
<1>5. \A j \in 1 .. Len(list) : j # k => \E i \in 1 .. n : from(i) = j
  <2> SUFFICES ASSUME NEW j \in 1 .. Len(list), j # k
      PROVE  \E i \in 1 .. n : from(i) = j
      OBVIOUS
  <2>1. CASE j < k
    BY <1>1, <2>1
  <2>2. CASE j > k
    <3>1. j - 1 \in 1 .. n /\ from(j - 1) = j
      BY <1>1, <2>2
    <3> QED BY <3>1
  <2> QED BY <1>1, <2>1, <2>2
<1> HIDE DEF from
<1>6. Once(list) => Once(new)
  <2> SUFFICES ASSUME Once(list), NEW i \in 1 .. n, NEW j \in 1 .. n, new[i] = new[j]
      PROVE  i = j
      BY <1>2 DEF Once
  <2>1. list[from(i)] = list[from(j)]
    BY <1>3
  <2>2. from(i) \in 1 .. Len(list) /\ from(j) \in 1 .. Len(list)
    BY <1>3
  <2>3. from(i) = from(j)
    BY <2>1, <2>2 DEF Once
  <2> QED BY <1>4, <2>3
<1>7. Once(list) => Nodes(new) = Nodes(list) \ {list[k]}
  <2> HAVE Once(list)
  <2>1. Nodes(new) \subseteq Nodes(list) \ {list[k]}
    BY SMTT(30), <1>2, <1>3 DEF Nodes, Once
  <2>2. ASSUME NEW j \in 1 .. Len(list), list[j] # list[k]
        PROVE  list[j] \in Nodes(new)
    <3>1. j # k
      BY <2>2
    <3>2. PICK i \in 1 .. n : from(i) = j
      BY <1>5, <3>1
    <3>3. new[i] = list[j]
      BY <1>3, <3>2
    <3> QED BY <1>2, <3>3 DEF Nodes
  <2> QED BY <2>1, <2>2 DEF Nodes
<1> QED
  BY <1>2, <1>6, <1>7 DEF new

(* The walk of __thlist_remove finds the first node that is th.            *)
LEMMA FirstAtFound ==
  ASSUME NEW T, NEW list \in Seq(T), NEW th, Contains(list, th)
  PROVE  FirstAt(list, th) \in 1 .. Len(list) /\ list[FirstAt(list, th)] = th
<1> DEFINE C == {i \in 1 .. Len(list) : list[i] = th}
<1>1. C \in SUBSET Nat /\ C # {}
  BY DEF Contains
<1>2. PICK k \in C : \A j \in C : k <= j
  <2> HIDE DEF C
  <2> QED BY <1>1, MinNat
<1>3. k \in 1 .. Len(list) /\ list[k] = th
  BY <1>2
<1>4. ASSUME NEW j \in 1 .. (k - 1), list[j] = th
      PROVE  FALSE
  <2>1. j \in 1 .. Len(list) /\ ~(k <= j)
    BY <1>3
  <2> QED BY <1>2, <1>4, <2>1
<1> QED
  BY <1>3, <1>4 DEF FirstAt

(* __thlist_remove takes th off the list, and nobody else.                 *)
LEMMA UnlinkLinks ==
  ASSUME NEW T, NEW list \in Seq(T), NEW th
  PROVE  /\ Unlink(list, th) \in Seq(T)
         /\ Once(list) => /\ Once(Unlink(list, th))
                          /\ Nodes(Unlink(list, th)) = Nodes(list) \ {th}
<1>1. CASE ~Contains(list, th)
  BY <1>1 DEF Contains, Unlink, Nodes
<1>2. CASE Contains(list, th)
  <2> DEFINE k == FirstAt(list, th)
  <2>1. k \in 1 .. Len(list) /\ list[k] = th
    BY <1>2, FirstAtFound
  <2>2. Unlink(list, th) = RemoveAt(list, k)
    BY <1>2 DEF Unlink
  <2> HIDE DEF k
  <2> QED
    BY <2>1, <2>2, RemoveLinks
<1> QED
  BY <1>1, <1>2

(* The function that SpliceRun defines by recursion exists: the moves of a *)
(* splice follow one from the other.                                       *)
LEMMA SpliceRunStep ==
  ASSUME NEW T, NEW dst \in Seq(T), NEW src \in Seq(T), NEW P
  PROVE  /\ SpliceRun(dst, src, P)[0] = [list |-> dst, from |-> 0]
         /\ \A i \in 1 .. Len(src) :
              SpliceRun(dst, src, P)[i] =
                SpliceStep(SpliceRun(dst, src, P)[i - 1], src[i], P)
<1> DEFINE base == [list |-> dst, from |-> 0]
           Run(f, n) == f = [i \in 0 .. n |->
                               IF i = 0 THEN base ELSE SpliceStep(f[i - 1], src[i], P)]
<1>1. \A n \in Nat : \E f : Run(f, n)
  <2> SUFFICES ASSUME NEW m \in Nat, ~ \E f : Run(f, m)
      PROVE  FALSE
      OBVIOUS
  <2> DEFINE C == {n \in Nat : ~ \E f : Run(f, n)}
  <2>1. C \in SUBSET Nat /\ C # {}
    OBVIOUS
  <2>2. PICK k \in C : \A j \in C : k <= j
    <3> HIDE DEF C
    <3> QED BY <2>1, MinNat
  <2>3. k \in Nat /\ (\A j \in Nat : j < k => j \notin C)
    BY <2>1, <2>2
  <2>4. CASE k = 0
    <3> DEFINE f == [i \in 0 .. 0 |-> base]
    <3>1. Run(f, 0)
      OBVIOUS
    <3> QED BY <2>2, <2>4, <3>1
  <2>5. CASE k # 0
    <3>1. k - 1 \in Nat /\ k - 1 \notin C
      <4>1. k - 1 \in Nat /\ k - 1 < k
        BY <2>3, <2>5
      <4> HIDE DEF C
      <4> QED BY <2>3, <4>1
    <3>2. PICK f : Run(f, k - 1)
      BY <3>1
    <3> DEFINE g == [i \in 0 .. k |-> IF i = k THEN SpliceStep(f[k - 1], src[k], P)
                                               ELSE f[i]]
               rhs == [i \in 0 .. k |->
                         IF i = 0 THEN base ELSE SpliceStep(g[i - 1], src[i], P)]
    <3>3. ASSUME NEW i \in 0 .. k
          PROVE  g[i] = rhs[i]
      <4>1. CASE i = 0
        <5>1. 0 \in 0 .. (k - 1)
          BY <2>3, <2>5
        <5>2. f[0] = base
          BY <3>2, <5>1
        <5> QED BY <4>1, <2>5, <5>2
      <4>2. CASE i = k
        <5>1. g[k - 1] = f[k - 1]
          BY <2>3, <2>5
        <5> QED BY <4>2, <2>5, <5>1
      <4>3. CASE i # 0 /\ i # k
        <5>1. i \in 0 .. (k - 1) /\ i - 1 \in 0 .. k /\ i - 1 # k
          BY <2>3, <4>3
        <5>2. f[i] = SpliceStep(f[i - 1], src[i], P)
          BY <3>2, <4>3, <5>1
        <5>3. g[i - 1] = f[i - 1]
          BY <5>1
        <5> QED BY <4>3, <5>2, <5>3
      <4> QED BY <4>1, <4>2, <4>3
    <3>4. g = rhs
      <4> HIDE DEF g
      <4>1. g = [i \in 0 .. k |-> g[i]]
        BY DEF g
      <4> QED BY <3>3, <4>1
    <3>5. Run(g, k)
      <4> HIDE DEF g
      <4> QED BY <3>4
    <3> QED BY <2>2, <3>5
  <2> QED BY <2>4, <2>5
<1>2. Len(src) \in Nat
  OBVIOUS
<1> DEFINE f == SpliceRun(dst, src, P)
<1>3. f = CHOOSE g : Run(g, Len(src))
  BY DEF SpliceRun
<1>4. Run(f, Len(src))
  <2> HIDE DEF f, Run
  <2> QED BY <1>1, <1>2, <1>3
<1> HIDE DEF f
<1>5. f[0] = base
  BY <1>2, <1>4
<1>6. ASSUME NEW i \in 1 .. Len(src)
      PROVE  f[i] = SpliceStep(f[i - 1], src[i], P)
  <2>1. i \in 0 .. Len(src) /\ i # 0
    BY <1>2
  <2> QED BY <1>4, <2>1
<1> QED
  BY <1>5, <1>6 DEF f

(* One move of a splice links one more thread.                             *)
LEMMA SpliceStepLinks ==
  ASSUME NEW T, NEW x, x.list \in Seq(T), x.from \in 0 .. Len(x.list),
         NEW th \in T, NEW P
  PROVE  /\ SpliceStep(x, th, P).list \in Seq(T)
         /\ SpliceStep(x, th, P).from \in 0 .. Len(SpliceStep(x, th, P).list)
         /\ Nodes(SpliceStep(x, th, P).list) = Nodes(x.list) \cup {th}
         /\ Once(x.list) /\ th \notin Nodes(x.list)
              => Once(SpliceStep(x, th, P).list)
<1> DEFINE k == AddPos(x.list, x.from, th, P)
           l == InsertAt(x.list, k + 1, th)
<1>1. k \in 0 .. Len(x.list)
  <2>1. k \in StopSet(x.list, x.from, th, P)
    BY AddPosStops
  <2> QED BY <2>1 DEF StopSet
<1>2. SpliceStep(x, th, P).list = l /\ SpliceStep(x, th, P).from = k + 1
  BY DEF SpliceStep
<1> HIDE DEF k
<1>3. l \in Seq(T) /\ Len(l) = Len(x.list) + 1
  <2> DEFINE xs == x.list
  <2>1. xs \in Seq(T) /\ k \in 0 .. Len(xs)
    BY <1>1
  <2> HIDE DEF xs
  <2>2. InsertAt(xs, k + 1, th) \in Seq(T) /\ Len(InsertAt(xs, k + 1, th)) = Len(xs) + 1
    BY <2>1, InsertAtProps
  <2> QED BY <2>2 DEF xs
<1>4. Nodes(l) = Nodes(x.list) \cup {th}
  BY <1>1, InsertLinks
<1>5. Once(x.list) /\ th \notin Nodes(x.list) => Once(l)
  BY <1>1, InsertLinks
<1>6. k + 1 \in 0 .. Len(l)
  <2> HIDE DEF l
  <2>1. Len(x.list) \in Nat
    OBVIOUS
  <2> QED BY <1>1, <1>3, <2>1
<1> QED
  BY <1>2, <1>3, <1>4, <1>5, <1>6

(* __thlist_splice_pri moves every thread of src, each of them once.       *)
LEMMA SpliceLinks ==
  ASSUME NEW T, NEW dst \in Seq(T), NEW src \in Seq(T), NEW P
  PROVE  /\ Splice(dst, src, P) \in Seq(T)
         /\ Nodes(Splice(dst, src, P)) = Nodes(dst) \cup Nodes(src)
         /\ Once(dst) /\ Once(src) /\ Nodes(dst) \cap Nodes(src) = {}
              => Once(Splice(dst, src, P))
<1> DEFINE f == SpliceRun(dst, src, P)
           Fresh == Once(dst) /\ Once(src) /\ Nodes(dst) \cap Nodes(src) = {}
           Sound(i) == /\ f[i].list \in Seq(T)
                       /\ f[i].from \in 0 .. Len(f[i].list)
                       /\ Nodes(f[i].list) = Nodes(dst) \cup {src[j] : j \in 1 .. i}
                       /\ Fresh => Once(f[i].list)
<1>1. Len(src) \in Nat
  OBVIOUS
<1>2. f[0] = [list |-> dst, from |-> 0]
  BY SpliceRunStep
<1>3. \A i \in 1 .. Len(src) : f[i] = SpliceStep(f[i - 1], src[i], P)
  <2> HIDE DEF f
  <2>1. /\ SpliceRun(dst, src, P)[0] = [list |-> dst, from |-> 0]
        /\ \A i \in 1 .. Len(src) :
              SpliceRun(dst, src, P)[i] =
                SpliceStep(SpliceRun(dst, src, P)[i - 1], src[i], P)
    BY SpliceRunStep
  <2> QED BY <2>1 DEF f
<1> HIDE DEF f
<1> USE DEF Fresh
<1>4. Sound(0)
  <2>1. f[0].list = dst /\ f[0].from = 0 /\ {src[j] : j \in 1 .. 0} = {}
    BY <1>2
  <2>2. Len(dst) \in Nat
    OBVIOUS
  <2> QED BY <2>1, <2>2
<1>5. ASSUME NEW i \in 1 .. Len(src), Sound(i - 1)
      PROVE  Sound(i)
  <2> DEFINE x == f[i - 1]
  <2>1. /\ x.list \in Seq(T) /\ x.from \in 0 .. Len(x.list)
        /\ Nodes(x.list) = Nodes(dst) \cup {src[j] : j \in 1 .. (i - 1)}
        /\ Fresh => Once(x.list)
    BY <1>5
  <2>2. src[i] \in T /\ (Fresh => src[i] \notin Nodes(x.list))
    <3>1. src[i] \in T /\ src[i] \in Nodes(src)
      BY DEF Nodes
    <3>2. ASSUME Fresh, NEW j \in 1 .. (i - 1)
          PROVE  src[j] # src[i]
      <4>1. j \in 1 .. Len(src) /\ j # i
        BY <1>1
      <4> QED BY <3>2, <4>1 DEF Once
    <3>3. src[i] \in T
      OBVIOUS
    <3>4. ASSUME Fresh, src[i] \in Nodes(x.list)
          PROVE  FALSE
      <4>1. src[i] \notin Nodes(dst)
        BY <3>1, <3>4
      <4>2. PICK j \in 1 .. (i - 1) : src[j] = src[i]
        BY <2>1, <3>4, <4>1
      <4> QED BY <3>2, <3>4, <4>2
    <3> QED BY <3>3, <3>4
  <2> HIDE DEF x
  <2>3. /\ SpliceStep(x, src[i], P).list \in Seq(T)
        /\ SpliceStep(x, src[i], P).from \in 0 .. Len(SpliceStep(x, src[i], P).list)
        /\ Nodes(SpliceStep(x, src[i], P).list) = Nodes(x.list) \cup {src[i]}
        /\ Fresh => Once(SpliceStep(x, src[i], P).list)
    <3>1. /\ SpliceStep(x, src[i], P).list \in Seq(T)
          /\ SpliceStep(x, src[i], P).from \in 0 .. Len(SpliceStep(x, src[i], P).list)
          /\ Nodes(SpliceStep(x, src[i], P).list) = Nodes(x.list) \cup {src[i]}
          /\ Once(x.list) /\ src[i] \notin Nodes(x.list)
               => Once(SpliceStep(x, src[i], P).list)
      BY <2>1, <2>2, SpliceStepLinks, Zenon
    <3>2. Fresh => Once(x.list) /\ src[i] \notin Nodes(x.list)
      BY <2>1, <2>2
    <3> QED BY <3>1, <3>2
  <2>4. f[i] = SpliceStep(x, src[i], P)
    BY <1>3 DEF x
  <2>5. {src[j] : j \in 1 .. i} = {src[j] : j \in 1 .. (i - 1)} \cup {src[i]}
    <3>1. 1 .. i = (1 .. (i - 1)) \cup {i}
      BY <1>1
    <3> QED BY <3>1
  <2> QED BY <2>1, <2>3, <2>4, <2>5
<1> HIDE DEF Sound
<1>6. \A i \in 0 .. Len(src) : Sound(i)
  <2> SUFFICES ASSUME NEW m \in 0 .. Len(src), ~Sound(m)
      PROVE  FALSE
      OBVIOUS
  <2> DEFINE C == {i \in 0 .. Len(src) : ~Sound(i)}
  <2>1. C \in SUBSET Nat /\ C # {}
    BY <1>1
  <2>2. PICK k \in C : \A j \in C : k <= j
    <3> HIDE DEF C
    <3> QED BY <2>1, MinNat
  <2>3. k \in 1 .. Len(src) /\ k - 1 \in 0 .. Len(src)
    BY <1>1, <1>4, <2>2
  <2>4. Sound(k - 1)
    <3>1. ~(k <= k - 1)
      BY <2>3
    <3> QED BY <2>2, <2>3, <3>1
  <2> QED BY <1>5, <2>2, <2>3, <2>4
<1>7. Sound(Len(src))
  BY <1>1, <1>6
<1>8. Splice(dst, src, P) = f[Len(src)].list
  BY DEF Splice, f
<1> QED
  BY <1>7, <1>8 DEF Sound, Nodes

-----------------------------------------------------------------------------
(* Order.  Nobody behind a node has a higher priority than that node.      *)
Descending(list, P) ==
  \A i, j \in 1 .. Len(list) : i < j => P[list[i]] >= P[list[j]]

(* A node linked between those that do not come after it and those that    *)
(* come behind it.                                                         *)
LEMMA InsertDescends ==
  ASSUME NEW T, NEW list \in Seq(T), NEW k \in 0 .. Len(list), NEW th \in T,
         NEW P \in [T -> Int], Descending(list, P),
         \A i \in 1 .. k : P[list[i]] >= P[th],
         \A i \in (k + 1) .. Len(list) : P[th] >= P[list[i]]
  PROVE  Descending(InsertAt(list, k + 1, th), P)
<1> DEFINE new == InsertAt(list, k + 1, th)
<1>0. Inserted(T, new, list, k, th)
  BY InsertAtInserts
<1>1. /\ new \in Seq(T)
      /\ Len(new) = Len(list) + 1
      /\ \A i \in 1 .. (Len(list) + 1) :
           new[i] = IF i <= k THEN list[i] ELSE IF i = k + 1 THEN th ELSE list[i - 1]
  BY ONLY <1>0 DEF Inserted
<1>2. Len(list) \in Nat
  OBVIOUS
<1> HIDE DEF new
<1>3. ASSUME NEW i \in 1 .. (Len(list) + 1), NEW j \in 1 .. (Len(list) + 1), i < j
      PROVE  P[new[i]] >= P[new[j]]
  <2>1. CASE j <= k
    <3>1. i <= k /\ i \in 1 .. Len(list) /\ j \in 1 .. Len(list)
      BY <1>2, <1>3, <2>1
    <3>2. new[i] = list[i]
      BY <1>1, <3>1
    <3>3. new[j] = list[j]
      BY <1>1, <2>1
    <3> QED BY <1>3, <3>1, <3>2, <3>3 DEF Descending
  <2>2. CASE j = k + 1
    <3>1. i \in 1 .. k /\ i <= k /\ ~ (j <= k)
      BY <1>2, <1>3, <2>2
    <3>2. new[i] = list[i]
      BY <1>1, <3>1
    <3>3. new[j] = th
      BY <1>1, <2>2, <3>1
    <3> QED BY <3>1, <3>2, <3>3
  <2>3. CASE j > k + 1
    <3>1. new[j] = list[j - 1] /\ j - 1 \in (k + 1) .. Len(list)
      BY <1>1, <1>2, <2>3
    <3>2. CASE i <= k
      <4>1. new[i] = list[i] /\ i \in 1 .. Len(list) /\ j - 1 \in 1 .. Len(list)
            /\ i < j - 1
        BY <1>1, <1>2, <2>3, <3>2
      <4> QED BY <3>1, <4>1 DEF Descending
    <3>3. CASE i = k + 1
      <4>1. new[i] = th
        BY <1>1, <3>3
      <4> QED BY <3>1, <4>1
    <3>4. CASE i > k + 1
      <4>1. new[i] = list[i - 1] /\ i - 1 \in 1 .. Len(list) /\ j - 1 \in 1 .. Len(list)
            /\ i - 1 < j - 1
        BY <1>1, <1>2, <1>3, <2>3, <3>4
      <4> QED BY <3>1, <4>1 DEF Descending
    <3> QED BY <3>2, <3>3, <3>4
  <2> QED BY <2>1, <2>2, <2>3
<1> QED
  BY <1>1, <1>3 DEF Descending, new

(* Where the walk of __thlist_add_pri stops: every node that it passed     *)
(* over is of the priority of th or above it, every other one below it.    *)
LEMMA AddPosSplits ==
  ASSUME NEW T, NEW list \in Seq(T), NEW from \in 0 .. Len(list), NEW th \in T,
         NEW P \in [T -> Int], Descending(list, P),
         \A i \in 1 .. from : P[list[i]] >= P[th]
  PROVE  /\ AddPos(list, from, th, P) \in from .. Len(list)
         /\ \A i \in 1 .. AddPos(list, from, th, P) : P[list[i]] >= P[th]
         /\ \A i \in (AddPos(list, from, th, P) + 1) .. Len(list) : P[th] > P[list[i]]
<1> DEFINE S == StopSet(list, from, th, P)
           k == AddPos(list, from, th, P)
<1>1. Len(list) \in Nat /\ from \in Nat
  OBVIOUS
<1>2. k \in S /\ \A j \in S : k <= j
  <2>1. Len(list) \in S
    BY <1>1 DEF StopSet
  <2>2. S \subseteq Nat
    BY <1>1 DEF StopSet
  <2>3. k = CHOOSE q \in S : \A j \in S : q <= j
    BY DEF AddPos
  <2> HIDE DEF S, k
  <2>4. \E q \in S : \A j \in S : q <= j
    BY <2>1, <2>2, MinNat
  <2> QED BY <2>3, <2>4
<1>3. k \in from .. Len(list) /\ (k = Len(list) \/ P[list[k + 1]] < P[th])
  BY <1>2 DEF StopSet
<1> HIDE DEF k
<1>4. ASSUME NEW i \in 1 .. k
      PROVE  P[list[i]] >= P[th]
  <2>1. CASE i <= from
    BY <2>1
  <2>2. CASE i > from
    <3>1. i - 1 \in from .. Len(list) /\ ~(k <= i - 1) /\ (i - 1) + 1 = i
          /\ i - 1 # Len(list)
      BY <1>1, <1>3, <2>2
    <3>2. i - 1 \notin S
      BY <1>2, <3>1
    <3>3. ~(P[list[i]] < P[th])
      BY <3>1, <3>2 DEF StopSet
    <3>4. list[i] \in T
      BY <1>1, <1>3
    <3> QED BY <3>3, <3>4
  <2> QED BY <1>1, <2>1, <2>2
<1>5. ASSUME NEW i \in (k + 1) .. Len(list)
      PROVE  P[th] > P[list[i]]
  <2>1. /\ k + 1 \in 1 .. Len(list) /\ i \in 1 .. Len(list) /\ P[list[k + 1]] < P[th]
        /\ (k + 1 = i \/ k + 1 < i)
    BY <1>1, <1>3
  <2>2. P[list[k + 1]] >= P[list[i]]
    <3>1. P[list[i]] \in Int
      BY <2>1
    <3> QED BY <2>1, <3>1 DEF Descending
  <2>3. list[k + 1] \in T /\ list[i] \in T
    BY <2>1
  <2> QED BY <2>1, <2>2, <2>3
<1> QED
  BY <1>3, <1>4, <1>5 DEF k

(* __thlist_add_pri keeps the order, of equals the one of their arrival.   *)
LEMMA AddPriDescends ==
  ASSUME NEW T, NEW list \in Seq(T), NEW th \in T, NEW P \in [T -> Int],
         Descending(list, P)
  PROVE  Descending(AddPri(list, th, P), P)
<1> DEFINE k == AddPos(list, 0, th, P)
<1>1. /\ k \in 0 .. Len(list)
      /\ \A i \in 1 .. k : P[list[i]] >= P[th]
      /\ \A i \in (k + 1) .. Len(list) : P[th] > P[list[i]]
  <2>1. 0 \in 0 .. Len(list) /\ \A i \in 1 .. 0 : P[list[i]] >= P[th]
    OBVIOUS
  <2> QED BY <2>1, AddPosSplits
<1>2. AddPri(list, th, P) = InsertAt(list, k + 1, th)
  BY DEF AddPri
<1> HIDE DEF k
<1>3. \A i \in (k + 1) .. Len(list) : P[th] >= P[list[i]]
  <2> SUFFICES ASSUME NEW i \in (k + 1) .. Len(list)
      PROVE  P[th] >= P[list[i]]
      OBVIOUS
  <2>1. list[i] \in T /\ P[th] > P[list[i]]
    BY <1>1
  <2> QED BY <2>1
<1> QED
  BY <1>1, <1>2, <1>3, InsertDescends

(* One move of a splice: no node that the walk has passed over comes       *)
(* before a node that is still to move.                                    *)
LEMMA SpliceStepDescends ==
  ASSUME NEW T, NEW x, x.list \in Seq(T), x.from \in 0 .. Len(x.list),
         NEW th \in T, NEW P \in [T -> Int], Descending(x.list, P),
         \A i \in 1 .. x.from : P[x.list[i]] >= P[th]
  PROVE  /\ Descending(SpliceStep(x, th, P).list, P)
         /\ \A i \in 1 .. SpliceStep(x, th, P).from :
              P[SpliceStep(x, th, P).list[i]] >= P[th]
<1> DEFINE xs == x.list
           k == AddPos(xs, x.from, th, P)
           l == InsertAt(xs, k + 1, th)
<1>0. xs \in Seq(T) /\ x.from \in 0 .. Len(xs) /\ Descending(xs, P)
      /\ \A i \in 1 .. x.from : P[xs[i]] >= P[th]
  OBVIOUS
<1>1. SpliceStep(x, th, P).list = l /\ SpliceStep(x, th, P).from = k + 1
  BY DEF SpliceStep
<1> HIDE DEF xs
<1>2. /\ k \in x.from .. Len(xs)
      /\ \A i \in 1 .. k : P[xs[i]] >= P[th]
      /\ \A i \in (k + 1) .. Len(xs) : P[th] > P[xs[i]]
  BY <1>0, AddPosSplits
<1> HIDE DEF k
<1>3. k \in 0 .. Len(xs) /\ Len(xs) \in Nat
  BY <1>0, <1>2
<1>4. \A i \in (k + 1) .. Len(xs) : P[th] >= P[xs[i]]
  <2> SUFFICES ASSUME NEW i \in (k + 1) .. Len(xs)
      PROVE  P[th] >= P[xs[i]]
      OBVIOUS
  <2>1. xs[i] \in T /\ P[th] > P[xs[i]]
    BY <1>0, <1>2, <1>3
  <2> QED BY <2>1
<1>5. Descending(l, P)
  BY <1>0, <1>2, <1>3, <1>4, InsertDescends
<1>6. \A i \in 1 .. (Len(xs) + 1) :
        l[i] = IF i <= k THEN xs[i] ELSE IF i = k + 1 THEN th ELSE xs[i - 1]
  BY <1>0, <1>3, InsertAtProps
<1> HIDE DEF l
<1>7. ASSUME NEW i \in 1 .. (k + 1)
      PROVE  P[l[i]] >= P[th]
  <2>1. CASE i <= k
    BY <1>2, <1>3, <1>6, <2>1
  <2>2. CASE i = k + 1
    BY <1>3, <1>6, <2>2
  <2> QED BY <1>3, <2>1, <2>2
<1> QED
  BY <1>1, <1>5, <1>7

(* __thlist_splice_pri merges two lists in order into one in order.        *)
LEMMA SpliceDescends ==
  ASSUME NEW T, NEW dst \in Seq(T), NEW src \in Seq(T), NEW P \in [T -> Int],
         Descending(dst, P), Descending(src, P)
  PROVE  Descending(Splice(dst, src, P), P)
<1> DEFINE f == SpliceRun(dst, src, P)
           Sound(i) == /\ f[i].list \in Seq(T)
                       /\ f[i].from \in 0 .. Len(f[i].list)
                       /\ Descending(f[i].list, P)
                       /\ i < Len(src) =>
                            \A j \in 1 .. f[i].from : P[f[i].list[j]] >= P[src[i + 1]]
<1>1. Len(src) \in Nat
  OBVIOUS
<1>2. f[0] = [list |-> dst, from |-> 0]
  BY SpliceRunStep
<1>3. \A i \in 1 .. Len(src) : f[i] = SpliceStep(f[i - 1], src[i], P)
  <2> HIDE DEF f
  <2>1. /\ SpliceRun(dst, src, P)[0] = [list |-> dst, from |-> 0]
        /\ \A i \in 1 .. Len(src) :
              SpliceRun(dst, src, P)[i] =
                SpliceStep(SpliceRun(dst, src, P)[i - 1], src[i], P)
    BY SpliceRunStep
  <2> QED BY <2>1 DEF f
<1> HIDE DEF f
<1>4. Sound(0)
  <2>1. f[0].list = dst /\ f[0].from = 0
    BY <1>2
  <2>2. Len(dst) \in Nat
    OBVIOUS
  <2> QED BY <2>1, <2>2
<1>5. ASSUME NEW i \in 1 .. Len(src), Sound(i - 1)
      PROVE  Sound(i)
  <2> DEFINE x == f[i - 1]
             y == SpliceStep(x, src[i], P)
  <2>1. /\ x.list \in Seq(T) /\ x.from \in 0 .. Len(x.list) /\ Descending(x.list, P)
        /\ \A j \in 1 .. x.from : P[x.list[j]] >= P[src[i]]
    <3>1. i - 1 < Len(src) /\ (i - 1) + 1 = i
      BY <1>1
    <3> QED BY <1>5, <3>1
  <2>2. src[i] \in T
    OBVIOUS
  <2> HIDE DEF x
  <2>3. y.list \in Seq(T) /\ y.from \in 0 .. Len(y.list)
    BY <2>1, <2>2, SpliceStepLinks, Zenon
  <2>4. Descending(y.list, P) /\ \A j \in 1 .. y.from : P[y.list[j]] >= P[src[i]]
    BY <2>1, <2>2, SpliceStepDescends, Zenon
  <2>5. ASSUME i < Len(src), NEW j \in 1 .. y.from
        PROVE  P[y.list[j]] >= P[src[i + 1]]
    <3> HIDE DEF y
    <3>1. i + 1 \in 1 .. Len(src) /\ i \in 1 .. Len(src) /\ i < i + 1
      BY <1>1, <2>5
    <3>2. P[src[i]] >= P[src[i + 1]]
      BY <3>1 DEF Descending
    <3>3. P[y.list[j]] >= P[src[i]]
      BY <2>4
    <3>4. P[src[i]] \in Int /\ P[src[i + 1]] \in Int
      BY <3>1
    <3>5. y.list[j] \in T
      BY <2>3
    <3>6. P[y.list[j]] \in Int
      BY <3>5
    <3> QED BY <3>2, <3>3, <3>4, <3>6
  <2>6. f[i] = y
    BY <1>3 DEF x
  <2> HIDE DEF y
  <2> QED BY <2>3, <2>4, <2>5, <2>6
<1> HIDE DEF Sound
<1>6. \A i \in 0 .. Len(src) : Sound(i)
  <2> SUFFICES ASSUME NEW m \in 0 .. Len(src), ~Sound(m)
      PROVE  FALSE
      OBVIOUS
  <2> DEFINE C == {i \in 0 .. Len(src) : ~Sound(i)}
  <2>1. C \in SUBSET Nat /\ C # {}
    BY <1>1
  <2>2. PICK k \in C : \A j \in C : k <= j
    <3> HIDE DEF C
    <3> QED BY <2>1, MinNat
  <2>3. k \in 1 .. Len(src) /\ k - 1 \in 0 .. Len(src)
    BY <1>1, <1>4, <2>2
  <2>4. Sound(k - 1)
    <3>1. ~(k <= k - 1)
      BY <2>3
    <3> QED BY <2>2, <2>3, <3>1
  <2> QED BY <1>5, <2>2, <2>3, <2>4
<1>7. Sound(Len(src))
  BY <1>1, <1>6
<1>8. Splice(dst, src, P) = f[Len(src)].list
  BY DEF Splice, f
<1> QED
  BY <1>7, <1>8 DEF Sound

(* The rest of a list is in order, and below what was taken off it.        *)
LEMMA RestDescends ==
  ASSUME NEW T, NEW list \in Seq(T), NEW k \in 1 .. Len(list), NEW P,
         Descending(list, P)
  PROVE  /\ Descending(SubSeq(list, k + 1, Len(list)), P)
         /\ \A u \in Nodes(SubSeq(list, k + 1, Len(list))) : P[list[k]] >= P[u]
<1> DEFINE rest == SubSeq(list, k + 1, Len(list))
           n == Len(list) - k
<1>1. Len(list) \in Nat /\ k \in Nat /\ n \in Nat /\ n + k = Len(list)
  OBVIOUS
<1>2. Len(rest) = n /\ \A i \in 1 .. n : rest[i] = list[k + i]
  BY ONLY list \in Seq(T), k \in 1 .. Len(list), RestProps
<1> HIDE DEF rest, n
<1>3. \A i \in 1 .. n : k + i \in 1 .. Len(list) /\ k < k + i
  BY <1>1
<1>4. \A i, j \in 1 .. n : i < j => k + i < k + j
  BY <1>1
<1>5. Descending(rest, P)
  BY <1>2, <1>3, <1>4 DEF Descending
<1>6. \A i \in 1 .. n : P[list[k]] >= P[rest[i]]
  BY <1>2, <1>3 DEF Descending
<1> QED
  BY <1>2, <1>5, <1>6 DEF Nodes, rest

(* Taking the head off.                                                    *)
LEMMA TailDescends ==
  ASSUME NEW T, NEW list \in Seq(T), list # <<>>, NEW P, Descending(list, P)
  PROVE  Descending(Tail(list), P)
<1>1. 1 \in 1 .. Len(list)
  OBVIOUS
<1>2. Tail(list) = SubSeq(list, 1 + 1, Len(list))
  BY TailIsSubSeq
<1> QED
  BY <1>1, <1>2, RestDescends

(* __thlist_remove keeps the order.                                        *)
LEMMA UnlinkDescends ==
  ASSUME NEW T, NEW list \in Seq(T), NEW th, NEW P, Descending(list, P)
  PROVE  Descending(Unlink(list, th), P)
<1>1. CASE ~Contains(list, th)
  BY <1>1 DEF Unlink
<1>2. CASE Contains(list, th)
  <2> DEFINE k == FirstAt(list, th)
             n == Len(list) - 1
             new == RemoveAt(list, k)
  <2>1. k \in 1 .. Len(list)
    BY <1>2, FirstAtFound
  <2>2. Unlink(list, th) = new
    BY <1>2 DEF Unlink
  <2> HIDE DEF k
  <2>3. n \in Nat /\ Len(list) \in Nat
    BY <2>1
  <2>4. Len(new) = n /\ \A i \in 1 .. n : new[i] = IF i < k THEN list[i] ELSE list[i + 1]
    BY <2>1, RemoveAtProps
  <2> HIDE DEF new, n
  <2>5. ASSUME NEW i \in 1 .. n, NEW j \in 1 .. n, i < j
        PROVE  P[new[i]] >= P[new[j]]
    <3> DEFINE from(h) == IF h < k THEN h ELSE h + 1
    <3>1. /\ from(i) \in 1 .. Len(list) /\ from(j) \in 1 .. Len(list)
          /\ from(i) < from(j) /\ new[i] = list[from(i)] /\ new[j] = list[from(j)]
      BY <2>1, <2>3, <2>4, <2>5 DEF n
    <3> HIDE DEF from
    <3> QED BY <3>1 DEF Descending
  <2> QED BY <2>2, <2>4, <2>5 DEF Descending
<1> QED
  BY <1>1, <1>2

(* Nobody in a list has a higher priority than its head.                   *)
LEMMA HeadLeads ==
  ASSUME NEW T, NEW list \in Seq(T), NEW P \in [T -> Int], Descending(list, P),
         NEW u \in Nodes(list)
  PROVE  P[Head(list)] >= P[u] /\ Head(list) \in T /\ u \in T /\ list # <<>>
<1>1. PICK i \in 1 .. Len(list) : u = list[i]
  BY DEF Nodes
<1>2. /\ Len(list) \in Nat /\ list # <<>> /\ Head(list) = list[1]
      /\ 1 \in 1 .. Len(list) /\ list[1] \in T /\ u \in T
  BY <1>1
<1>3. CASE i = 1
  BY <1>1, <1>2, <1>3
<1>4. CASE i # 1
  <2>1. 1 < i
    BY <1>2, <1>4
  <2>2. P[list[1]] >= P[list[i]]
    BY <1>2, <2>1 DEF Descending
  <2> QED BY <1>1, <1>2, <2>2
<1> QED
  BY <1>3, <1>4

-----------------------------------------------------------------------------
(* Types.                                                                  *)

(* The objects of a call are there as long as it needs them.               *)
CallObjects ==
  \A t \in Threads :
    /\ pc[t] \in {"lock", "trylock", "tryarm"} => mtx[t] # None
    /\ pc[t] \in {"condwait", "condarm", "condtimed"} => cnd[t] # None
    /\ pc[t] \in {"newtls", "join"} => peer[t] # None

TypeInv == TypeOK /\ CallObjects

(* The debug list loses threads, never gains one.                          *)
LEMMA CutIsSeq ==
  ASSUME NEW T, NEW list \in Seq(T), NEW th
  PROVE  CutAt(list, th) \in Seq(T)
<1>1. CASE ~Contains(list, th)
  BY <1>1 DEF CutAt
<1>2. CASE Contains(list, th)
  <2> DEFINE k == FirstAt(list, th)
  <2>1. k \in 1 .. Len(list)
    BY <1>2, FirstAtFound
  <2> HIDE DEF k
  <2>2. SubSeq(list, 1, k - 1) \in Seq(T)
    <3>1. \A i \in 1 .. (k - 1) : list[i] \in T
      BY <2>1
    <3>2. k - 1 \in Int
      BY <2>1
    <3> QED BY <3>1, <3>2, SubSeqProperties
  <2> QED BY <1>2, <2>2 DEF CutAt, k
<1> QED
  BY <1>1, <1>2

(* The variables the scheduler writes.                                     *)
RunTypes ==
  /\ th_cur \in Threads /\ th_ready \in Seq(Threads) /\ inlist \subseteq Threads
  /\ life \in [Threads -> {"unborn", "live", "freed"}]
  /\ all_threads \in Seq(Threads)
  /\ panic \in BOOLEAN

(* The memory of a thread is freed.                                        *)
LEMMA FreeTypes ==
  ASSUME TypeOK, NEW u \in Threads, Free(u)
  PROVE  /\ life' \in [Threads -> {"unborn", "live", "freed"}]
         /\ all_threads' \in Seq(Threads)
BY CutIsSeq DEF Free, TypeOK

(* The scheduler keeps the types, whatever it is given.                    *)
LEMMA ScheduleTypes ==
  ASSUME TypeOK, NEW r \in Seq(Threads), NEW il, il \subseteq Threads,
         NEW syscall, NEW ok, Schedule(r, il, syscall, ok)
  PROVE  RunTypes'
<1> DEFINE s == Parked(r, syscall)
           il1 == IF Parkable /\ ~syscall THEN il \cup {th_cur} ELSE il
           k == NextAt(s)
<1>0. th_cur \in Threads /\ life \in [Threads -> {"unborn", "live", "freed"}]
      /\ all_threads \in Seq(Threads)
  BY DEF TypeOK
<1>1. s \in Seq(Threads)
  BY <1>0, AddPriLinks DEF Parked
<1>2. il1 \subseteq Threads
  BY <1>0
<1>3. /\ panic' = (\/ Debug /\ ~(ok /\ ParkAsserts(il, syscall))
                   \/ Runnable(s) = {} \/ FreeCrashes)
      /\ IF Runnable(s) = {}
         THEN th_cur' = th_cur /\ th_ready' = s /\ inlist' = il1
         ELSE /\ th_cur' = s[k]
              /\ th_ready' = SubSeq(s, k + 1, Len(s))
              /\ inlist' = il1 \ {s[i] : i \in 1 .. k}
      /\ IF th_cur \in zombie' THEN Free(th_cur)
                               ELSE UNCHANGED <<life, all_threads>>
  BY DEF Schedule
<1> HIDE DEF s, il1
<1>4. CASE Runnable(s) = {}
  BY <1>0, <1>1, <1>2, <1>3, <1>4, FreeTypes DEF RunTypes
<1>5. CASE Runnable(s) # {}
  <2>1. k \in 1 .. Len(s)
    <3>1. Runnable(s) \in SUBSET Nat
      BY DEF Runnable
    <3>2. \E i \in Runnable(s) : \A j \in Runnable(s) : i <= j
      BY <1>5, <3>1, MinNat
    <3>3. k \in Runnable(s)
      BY <3>2 DEF NextAt
    <3> QED BY <3>3 DEF Runnable
  <2> HIDE DEF k
  <2>2. s[k] \in Threads
    BY <1>1, <2>1
  <2>3. SubSeq(s, k + 1, Len(s)) \in Seq(Threads)
    <3>1. \A i \in (k + 1) .. Len(s) : s[i] \in Threads
      BY <1>1, <2>1
    <3>2. k + 1 \in Int /\ Len(s) \in Int
      BY <1>1, <2>1
    <3> QED BY <3>1, <3>2, SubSeqProperties
  <2> QED
    BY <1>0, <1>2, <1>3, <1>5, <2>2, <2>3, FreeTypes DEF RunTypes
<1> QED
  BY <1>4, <1>5

(* Without a switch, and with the switch of a yield.                       *)
LEMMA ContinueTypes ==
  ASSUME TypeOK, NEW r \in Seq(Threads), NEW il, il \subseteq Threads,
         NEW ok, Continue(r, il, ok)
  PROVE  RunTypes'
BY DEF TypeOK, RunTypes, Continue

(* So does a call that may switch.                                         *)
LEMMA YieldTypes ==
  ASSUME TypeOK, NEW r \in Seq(Threads), NEW il, il \subseteq Threads,
         NEW ok, Yield(r, il, ok)
  PROVE  RunTypes'
<1>1. CASE Continue(r, il, ok)
  BY <1>1, ContinueTypes
<1>2. CASE Switch(AddPri(r, th_cur, pri'), il \cup {th_cur},
                  ok /\ th_cur \notin il)
  <2>1. th_cur \in Threads
    BY DEF TypeOK
  <2>2. AddPri(r, th_cur, pri') \in Seq(Threads)
    BY <2>1, AddPriLinks
  <2>3. il \cup {th_cur} \subseteq Threads
    BY <2>1
  <2> QED BY <1>2, <2>2, <2>3, ScheduleTypes DEF Switch
<1> QED
  BY <1>1, <1>2 DEF Yield

(* The other variables.                                                    *)
FlagTypes ==
  /\ th_count \in Int /\ tls \subseteq Threads /\ zombie \subseteq Threads
  /\ detached \subseteq Threads
  /\ waitforjoin \subseteq Threads /\ suspended \subseteq Threads
  /\ joiner \in [Threads -> Threads \cup {None}]
  /\ closed \in BOOLEAN

LockTypes ==
  /\ owner \in [Mutexes -> Threads \cup {None}]
  /\ counter \in [Mutexes -> 0 .. (CounterSpan - 1)]
  /\ original_pri \in [Mutexes -> Int]
  /\ held \in [Threads -> [Mutexes -> Nat]]

WaitTypes ==
  /\ pri \in [Threads -> Int]
  /\ waiting \in [Mutexes \cup Conds -> Seq(Threads)]

ClockTypes ==
  /\ timer \subseteq Threads /\ timeout \subseteq Threads
  /\ force \in BOOLEAN /\ isr \in BOOLEAN

CallTypes ==
  /\ pc \in [Threads -> PCs]
  /\ mtx \in [Threads -> Mutexes \cup {None}]
  /\ cnd \in [Threads -> Conds \cup {None}]
  /\ peer \in [Threads -> Threads \cup {None}]

(* The type invariant, by parts.                                           *)
LEMMA TypesSplit ==
  TypeInv <=> /\ RunTypes /\ FlagTypes /\ LockTypes /\ WaitTypes /\ ClockTypes
              /\ CallTypes /\ CallObjects
BY DEF TypeInv, TypeOK, RunTypes, FlagTypes, LockTypes, WaitTypes, ClockTypes,
       CallTypes

(* A call of the thread's own life moves at most the caller, to a place    *)
(* where it has no mutex and no condition variable.                        *)
Moves(t, where) ==
  /\ pc' = [pc EXCEPT ![t] = where]
  /\ \/ UNCHANGED mtx \/ mtx' = [mtx EXCEPT ![t] = None]
  /\ UNCHANGED cnd

(* Where the calls of a thread's life leave it.                            *)
LEMMA LifeMoves ==
  ASSUME NEW t \in Threads, Life(t)
  PROVE  \/ UNCHANGED <<pc, mtx, cnd, peer>>
         \/ /\ \E w \in {"user", "check", "yield", "dead", "sleep", "sleeparm"} :
                 Moves(t, w)
            /\ \/ UNCHANGED peer
               \/ peer' = [peer EXCEPT ![t] = None]
         \/ \E w \in {"newtls", "join"}, u \in Threads :
              Moves(t, w) /\ peer' = [peer EXCEPT ![t] = u]
BY ZenonT(40) DEF Life, Moves, Goto, callVars, KthreadNewInit, KthreadYield,
   KthreadYieldSwitch, KthreadExit, KthreadJoinResume, KthreadSleep,
   KthreadSleepSwitch, KthreadSleepResume, KthreadNew, KthreadSuspend,
   KthreadResume, KthreadDetach, KthreadKill, KthreadJoinExited,
   KthreadJoinWait, KthreadTryJoin, KthreadSetPri

(* The variables a call of the thread's own life changes.                  *)
LEMMA LifeKeepsOtherTypes ==
  ASSUME TypeInv, NEW t \in Threads, Life(t), KernelAssumption
  PROVE  /\ FlagTypes' /\ LockTypes' /\ WaitTypes' /\ ClockTypes'
         /\ CallTypes' /\ CallObjects'
<1>0. /\ FlagTypes /\ LockTypes /\ WaitTypes /\ ClockTypes
      /\ CallTypes /\ CallObjects
  BY TypesSplit
<1>1. CallTypes' /\ CallObjects'
  <2>1. CASE UNCHANGED <<pc, mtx, cnd, peer>>
    BY <1>0, <2>1 DEF CallTypes, CallObjects
  <2>2. ASSUME NEW w \in {"user", "check", "yield", "dead", "sleep", "sleeparm"},
               Moves(t, w), UNCHANGED peer \/ peer' = [peer EXCEPT ![t] = None]
        PROVE  CallTypes' /\ CallObjects'
    <3>1. w \in PCs
      BY DEF PCs, Enabled, Arming
    <3>2. CallTypes'
      BY <1>0, <2>2, <3>1 DEF CallTypes, Moves
    <3>3. CallObjects'
      BY <1>0, <2>2 DEF CallTypes, CallObjects, Moves
    <3> QED BY <3>2, <3>3
  <2>3. ASSUME NEW w \in {"newtls", "join"}, NEW u \in Threads,
               Moves(t, w), peer' = [peer EXCEPT ![t] = u]
        PROVE  CallTypes' /\ CallObjects'
    <3>1. w \in PCs
      BY DEF PCs, Enabled, Arming
    <3>2. CallTypes'
      BY <1>0, <2>3, <3>1 DEF CallTypes, Moves
    <3>3. CallObjects'
      BY <1>0, <2>3 DEF CallTypes, CallObjects, Moves, KernelAssumption
    <3> QED BY <3>2, <3>3
  <2> QED BY <2>1, <2>2, <2>3, LifeMoves
<1>2. UNCHANGED <<owner, counter, original_pri, held, waiting, force, isr>>
  BY Zenon DEF Life, mutexVars, isrVars, KthreadNewInit, KthreadYield,
     KthreadYieldSwitch, KthreadExit, KthreadJoinResume, KthreadSleep,
     KthreadSleepSwitch, KthreadSleepResume, KthreadNew, KthreadSuspend,
     KthreadResume, KthreadDetach, KthreadKill, KthreadJoinExited,
     KthreadJoinWait, KthreadTryJoin, KthreadSetPri
<1>3. UNCHANGED <<timer, timeout>> \/ (UNCHANGED timeout /\ timer' = timer \cup {t})
  BY Zenon DEF Life, timerVars, KthreadNewInit, KthreadYield,
     KthreadYieldSwitch, KthreadExit, KthreadJoinResume, KthreadSleep,
     KthreadSleepSwitch, KthreadSleepResume, KthreadNew, KthreadSuspend,
     KthreadResume, KthreadDetach, KthreadKill, KthreadJoinExited,
     KthreadJoinWait, KthreadTryJoin, KthreadSetPri
<1>4. UNCHANGED pri \/ \E u \in Threads, p \in Pris : pri' = [pri EXCEPT ![u] = p]
  BY Zenon DEF Life, KthreadNewInit, KthreadYield,
     KthreadYieldSwitch, KthreadExit, KthreadJoinResume, KthreadSleep,
     KthreadSleepSwitch, KthreadSleepResume, KthreadNew, KthreadSuspend,
     KthreadResume, KthreadDetach, KthreadKill, KthreadJoinExited,
     KthreadJoinWait, KthreadTryJoin, KthreadSetPri
<1>5. LockTypes' /\ WaitTypes' /\ ClockTypes'
  <2>1. WaitTypes'
    BY <1>0, <1>2, <1>4 DEF WaitTypes, KernelAssumption
  <2>2. LockTypes' /\ ClockTypes'
    BY <1>0, <1>2, <1>3 DEF LockTypes, ClockTypes
  <2> QED BY <2>1, <2>2
<1>6. FlagTypes'
  <2> USE DEF FlagTypes, flagVars
  <2>1. CASE KthreadNewInit(t)
    <3>1. peer[t] \in Threads
      BY <1>0, <2>1 DEF KthreadNewInit, At, CallTypes, CallObjects
    <3> QED BY <1>0, <2>1, <3>1 DEF KthreadNewInit
  <2>2. CASE \/ KthreadYield(t) \/ KthreadYieldSwitch(t) \/ KthreadJoinResume(t)
             \/ KthreadSleep(t) \/ KthreadSleepSwitch(t) \/ KthreadSleepResume(t)
    BY <1>0, <2>2 DEF KthreadYield, KthreadYieldSwitch, KthreadJoinResume,
       KthreadSleep, KthreadSleepSwitch, KthreadSleepResume
  <2>3. CASE KthreadExit(t)
    BY <1>0, <2>3 DEF KthreadExit, Terminate
  <2>4. ASSUME NEW u \in Threads, KthreadKill(t, u)
        PROVE  FlagTypes'
    BY <1>0, <2>4 DEF KthreadKill, Terminate
  <2>5. ASSUME NEW u \in Threads, KthreadNew(t, u) \/ KthreadSuspend(t, u)
               \/ KthreadResume(t, u) \/ KthreadDetach(t, u)
        PROVE  FlagTypes'
    BY <1>0, <2>5 DEF KthreadNew, KthreadSuspend, KthreadResume, KthreadDetach
  <2>6. ASSUME NEW u \in Threads, KthreadJoinWait(t, u)
        PROVE  FlagTypes'
    BY <1>0, <2>6 DEF KthreadJoinWait
  <2>7. ASSUME NEW u \in Threads, KthreadJoinExited(t, u) \/ KthreadTryJoin(t, u)
               \/ \E p \in Pris : KthreadSetPri(t, u, p)
        PROVE  FlagTypes'
    BY <1>0, <2>7 DEF KthreadJoinExited, KthreadTryJoin, KthreadSetPri
  <2> QED
    BY <2>1, <2>2, <2>3, <2>4, <2>5, <2>6, <2>7 DEF Life
<1> QED
  BY <1>1, <1>5, <1>6

(* The variables the scheduler writes in such a call.                      *)
LEMMA LifeKeepsRunTypes ==
  ASSUME TypeInv, NEW t \in Threads, Life(t), KernelAssumption
  PROVE  RunTypes'
<1> USE DEF TypeInv
<1>0. RunTypes
  BY TypesSplit
<1>1. CASE \/ KthreadNewInit(t) \/ KthreadYield(t) \/ KthreadJoinResume(t)
           \/ KthreadSleep(t) \/ KthreadSleepResume(t)
  BY <1>0, <1>1 DEF RunTypes, KthreadNewInit, KthreadYield, KthreadJoinResume,
     KthreadSleep, KthreadSleepResume, runVars
<1>2. CASE KthreadYieldSwitch(t)
  <2>1. AddPri(th_ready, t, pri) \in Seq(Threads)
    BY <1>0, AddPriLinks DEF RunTypes
  <2>2. inlist \cup {t} \subseteq Threads
    BY <1>0 DEF RunTypes
  <2> QED
    BY <1>2, <2>1, <2>2, ScheduleTypes DEF KthreadYieldSwitch, Switch
<1>3. ASSUME NEW u \in Threads
      PROVE  ReadyAfterKill(u) \in Seq(Threads) /\ InlistAfterKill(u) \subseteq Threads
  <2>1. joiner[u] # None => joiner[u] \in Threads
    BY DEF TypeOK
  <2>2. WakesJoiner(u) => AddPri(th_ready, joiner[u], pri) \in Seq(Threads)
    BY <1>0, <2>1, AddPriLinks DEF WakesJoiner, RunTypes
  <2> QED
    BY <1>0, <2>1, <2>2 DEF ReadyAfterKill, InlistAfterKill, RunTypes, WakesJoiner
<1>4. CASE KthreadExit(t)
  BY <1>3, <1>4, ScheduleTypes DEF KthreadExit, Switch
<1>5. CASE KthreadSleepSwitch(t)
  <2>1. inlist \cup {t} \subseteq Threads /\ th_ready \in Seq(Threads)
    BY <1>0 DEF RunTypes
  <2> QED
    BY <1>5, <2>1, ScheduleTypes DEF KthreadSleepSwitch, Switch
<1>6. ASSUME NEW u \in Threads,
             \/ KthreadSuspend(t, u) \/ KthreadResume(t, u) \/ KthreadDetach(t, u)
             \/ \E p \in Pris : KthreadSetPri(t, u, p)
      PROVE  RunTypes'
  BY <1>0, <1>6 DEF RunTypes, KthreadSuspend, KthreadResume, KthreadDetach,
     KthreadSetPri, runVars
<1>7. ASSUME NEW u \in Threads, KthreadJoinExited(t, u) \/ KthreadTryJoin(t, u)
      PROVE  RunTypes'
  <2>1. Free(u) \/ UNCHANGED <<life, all_threads>>
    BY <1>7 DEF KthreadJoinExited, KthreadTryJoin
  <2>2. /\ life' \in [Threads -> {"unborn", "live", "freed"}]
        /\ all_threads' \in Seq(Threads)
    BY <1>0, <2>1, FreeTypes DEF RunTypes
  <2>3. UNCHANGED <<th_cur, th_ready, inlist>> /\ panic' \in BOOLEAN
    BY <1>0, <1>7 DEF KthreadJoinExited, KthreadTryJoin, RunTypes
  <2> QED
    BY <1>0, <2>2, <2>3 DEF RunTypes
<1>8. ASSUME NEW u \in Threads, KthreadNew(t, u)
      PROVE  RunTypes'
  <2>1. AddPri(th_ready, u, pri) \in Seq(Threads)
    BY <1>0, AddPriLinks DEF RunTypes
  <2>2. <<u>> \o all_threads \in Seq(Threads)
    BY <1>0 DEF RunTypes
  <2> QED
    BY <1>0, <1>8, <2>1, <2>2 DEF RunTypes, KthreadNew
<1>9. ASSUME NEW u \in Threads, KthreadKill(t, u)
      PROVE  RunTypes'
  BY <1>3, <1>9, ContinueTypes DEF KthreadKill
<1>10. ASSUME NEW u \in Threads, KthreadJoinWait(t, u)
       PROVE  RunTypes'
  BY <1>0, <1>10, ScheduleTypes DEF KthreadJoinWait, Switch, RunTypes
<1> QED
  BY <1>1, <1>2, <1>4, <1>5, <1>6, <1>7, <1>8, <1>9, <1>10 DEF Life

(* A thread that goes on, at `where', with the objects it needs there.     *)
LEMMA GotoKeepsCallTypes ==
  ASSUME CallTypes, CallObjects, NEW t \in Threads, NEW where \in PCs,
         NEW m \in Mutexes \cup {None}, Goto(t, where, m), UNCHANGED peer,
         UNCHANGED cnd \/ \E c \in Conds \cup {None} : cnd' = [cnd EXCEPT ![t] = c],
         where \in {"lock", "trylock", "tryarm"} => m # None,
         where \in {"condwait", "condarm", "condtimed"} => cnd'[t] # None,
         where \notin {"newtls", "join"}
  PROVE  CallTypes' /\ CallObjects'
<1>1. CallTypes'
  BY DEF CallTypes, Goto
<1>2. CallObjects'
  BY DEF CallTypes, CallObjects, Goto
<1> QED
  BY <1>1, <1>2

(* A lock call returns.                                                    *)
LEMMA ReturnTypes ==
  ASSUME TypeInv, NEW t \in Threads, NEW m, ReturnLocked(t, m)
  PROVE  /\ CallTypes' /\ CallObjects' /\ FlagTypes' /\ WaitTypes' /\ RunTypes'
         /\ force' \in BOOLEAN /\ isr' \in BOOLEAN
<1>1. CallTypes /\ CallObjects /\ FlagTypes /\ WaitTypes /\ RunTypes /\ ClockTypes
  BY TypesSplit
<1>2. "user" \in PCs
  BY DEF PCs, Enabled
<1>3. /\ Goto(t, "user", None) /\ UNCHANGED peer
      /\ cnd' = [cnd EXCEPT ![t] = None]
  BY DEF ReturnLocked
<1>4. CallTypes' /\ CallObjects'
  BY <1>1, <1>2, <1>3, GotoKeepsCallTypes
<1>5. FlagTypes' /\ RunTypes'
  BY <1>1 DEF ReturnLocked, FlagTypes, RunTypes, flagVars, runVars
<1>6. WaitTypes' /\ force' \in BOOLEAN /\ isr' \in BOOLEAN
  BY <1>1 DEF ReturnLocked, WaitTypes, ClockTypes, isrVars
<1> QED
  BY <1>4, <1>5, <1>6

(* What is left of a step's types when the timers are known.               *)
StepTypes ==
  /\ RunTypes' /\ FlagTypes' /\ LockTypes' /\ WaitTypes'
  /\ force' \in BOOLEAN /\ isr' \in BOOLEAN /\ CallTypes' /\ CallObjects'

(* The types of a synchronisation call: only the timers are left.          *)
LEMMA StepTypesSuffice ==
  ASSUME StepTypes, timer' \subseteq Threads, timeout' \subseteq Threads
  PROVE  TypeInv'
<1>1. ClockTypes'
  BY DEF StepTypes, ClockTypes
<1>2. /\ RunTypes' /\ FlagTypes' /\ LockTypes' /\ WaitTypes' /\ ClockTypes'
      /\ CallTypes' /\ CallObjects'
  BY <1>1 DEF StepTypes
<1> QED
  BY <1>2 DEF TypeInv, TypeOK, RunTypes, FlagTypes, LockTypes, WaitTypes,
     ClockTypes, CallTypes

(* A round of waiting for a mutex.                                         *)
LEMMA WaitForMutexTypes ==
  ASSUME TypeInv, KernelAssumption, NEW t \in Threads, NEW m \in Mutexes,
         NEW where \in {"lock", "trylock"}, owner[m] # None,
         WaitForMutex(t, m, where)
  PROVE  StepTypes
<1>1. /\ CallTypes /\ CallObjects /\ FlagTypes /\ WaitTypes /\ RunTypes
      /\ ClockTypes /\ LockTypes
  BY TypesSplit
<1>2. owner[m] \in Threads
  BY <1>1 DEF LockTypes
<1>3. pri' \in [Threads -> Int]
  BY <1>1, <1>2 DEF WaitForMutex, Boost, WaitTypes
<1>4. AddPri(waiting[m], t, pri') \in Seq(Threads)
  <2>1. waiting[m] \in Seq(Threads)
    BY <1>1 DEF WaitTypes
  <2> QED BY <2>1, AddPriLinks
<1>5. WaitTypes'
  BY <1>1, <1>3, <1>4 DEF WaitForMutex, WaitTypes
<1>6. where \in PCs
  BY DEF PCs
<1>7. Goto(t, where, m) /\ UNCHANGED <<cnd, peer>>
  BY DEF WaitForMutex
<1>8. CallTypes' /\ CallObjects'
  <2>1. m # None
    BY DEF KernelAssumption
  <2> QED BY <1>1, <1>6, <1>7, <2>1, GotoKeepsCallTypes
<1>9. FlagTypes' /\ LockTypes' /\ force' \in BOOLEAN /\ isr' \in BOOLEAN
  <2>1. FlagTypes'
    BY <1>1 DEF WaitForMutex, FlagTypes, flagVars
  <2>2. LockTypes'
    BY <1>1 DEF WaitForMutex, LockTypes, mutexVars
  <2>3. force' \in BOOLEAN /\ isr' \in BOOLEAN
    BY <1>1 DEF WaitForMutex, ClockTypes, isrVars
  <2> QED BY <2>1, <2>2, <2>3
<1>10. RunTypes'
  <2>1. th_ready \in Seq(Threads) /\ inlist \cup {t} \subseteq Threads
    BY <1>1 DEF RunTypes
  <2> QED BY <2>1, ScheduleTypes DEF WaitForMutex, Switch, TypeInv
<1> QED
  BY <1>5, <1>8, <1>9, <1>10 DEF StepTypes

(* A mutex is granted.                                                     *)
LEMMA GrantTypes ==
  ASSUME TypeInv, KernelAssumption, NEW t \in Threads, NEW m \in Mutexes,
         Acquire(t, m) \/ Relock(t, m)
  PROVE  LockTypes'
<1>1. LockTypes /\ WaitTypes
  BY TypesSplit
<1>2. CASE Acquire(t, m)
  <2>1. 1 \in 0 .. (CounterSpan - 1)
    BY DEF KernelAssumption
  <2> QED BY <1>1, <1>2, <2>1 DEF Acquire, LockTypes, WaitTypes
<1>3. CASE Relock(t, m)
  <2>1. (counter[m] + 1) % CounterSpan \in 0 .. (CounterSpan - 1)
    BY <1>1 DEF LockTypes, KernelAssumption
  <2> QED BY <1>1, <1>3, <2>1 DEF Relock, LockTypes
<1> QED
  BY <1>2, <1>3

(* A lock call, from its start or from its wait.                           *)
LEMMA LockTypesKept ==
  ASSUME TypeInv, KernelAssumption, NEW t \in Threads, NEW m \in Mutexes,
         Lock(t, m) \/ LockLoop(t, m)
  PROVE  StepTypes
<1>1. CASE (Acquire(t, m) \/ Relock(t, m)) /\ ReturnLocked(t, m)
  BY <1>1, GrantTypes, ReturnTypes DEF StepTypes
<1>2. CASE owner[m] # None /\ WaitForMutex(t, m, "lock")
  BY <1>2, WaitForMutexTypes
<1> QED
  BY <1>1, <1>2 DEF Lock, LockLoop

(* The end of a wait on a condition variable.                              *)
LEMMA RewaitTypes ==
  ASSUME TypeInv, KernelAssumption, NEW t \in Threads, Rewait(t)
  PROVE  StepTypes
<1>1. CASE mtx[t] = None
  <2>1. ReturnLocked(t, None) /\ UNCHANGED mutexVars
    BY <1>1 DEF Rewait
  <2>2. LockTypes'
    BY <2>1, TypesSplit DEF LockTypes, mutexVars
  <2> QED BY <2>1, <2>2, ReturnTypes DEF StepTypes
<1>2. CASE mtx[t] # None
  <2>1. mtx[t] \in Mutexes
    BY <1>2, TypesSplit DEF CallTypes
  <2> QED BY <1>2, <2>1, LockTypesKept DEF Rewait
<1> QED
  BY <1>1, <1>2

(* kmutex_unlock_internal.                                                 *)
LEMMA ReleaseTypes ==
  ASSUME TypeInv, KernelAssumption, NEW t \in Threads, NEW m \in Mutexes,
         Release(t, m)
  PROVE  /\ owner' \in [Mutexes -> Threads \cup {None}]
         /\ counter' \in [Mutexes -> 0 .. (CounterSpan - 1)]
         /\ original_pri' \in [Mutexes -> Int]
         /\ pri' \in [Threads -> Int]
         /\ ReadyAfterRelease(m) \in Seq(Threads)
         /\ LeftWaiting(m) \in Seq(Threads)
<1>1. LockTypes /\ WaitTypes /\ RunTypes
  BY TypesSplit
<1>2. (counter[m] - 1) % CounterSpan \in 0 .. (CounterSpan - 1)
  BY <1>1 DEF LockTypes, KernelAssumption
<1>3. waiting[m] \in Seq(Threads) /\ th_ready \in Seq(Threads)
  BY <1>1 DEF WaitTypes, RunTypes
<1>4. Splice(th_ready, waiting[m], pri') \in Seq(Threads)
  BY <1>3, SpliceLinks
<1>5. ReadyAfterRelease(m) \in Seq(Threads) /\ LeftWaiting(m) \in Seq(Threads)
  BY <1>3, <1>4 DEF ReadyAfterRelease, LeftWaiting
<1>6. /\ owner' \in [Mutexes -> Threads \cup {None}]
      /\ counter' \in [Mutexes -> 0 .. (CounterSpan - 1)]
      /\ original_pri' \in [Mutexes -> Int]
      /\ pri' \in [Threads -> Int]
  BY <1>1, <1>2 DEF Release, LockTypes, WaitTypes
<1> QED
  BY <1>5, <1>6

(* kmutex_unlock.                                                          *)
LEMMA UnlockTypes ==
  ASSUME TypeInv, KernelAssumption, NEW t \in Threads, NEW m \in Mutexes,
         KmutexUnlock(t, m)
  PROVE  StepTypes
<1>0. /\ CallTypes /\ CallObjects /\ FlagTypes /\ WaitTypes /\ RunTypes
      /\ ClockTypes /\ LockTypes
  BY TypesSplit
<1>1. /\ Release(t, m) /\ held' = [held EXCEPT ![t][m] = held[t][m] - 1]
      /\ held[t][m] > 0
      /\ waiting' = [waiting EXCEPT ![m] = LeftWaiting(m)]
      /\ UNCHANGED <<flagVars, isrVars, callVars>>
  BY DEF KmutexUnlock
<1>2. PICK ok : \/ Yield(ReadyAfterRelease(m), inlist, ok)
                \/ Continue(ReadyAfterRelease(m), inlist, ok)
  BY DEF KmutexUnlock
<1>3. inlist \subseteq Threads /\ ReadyAfterRelease(m) \in Seq(Threads)
  BY <1>0, <1>1, ReleaseTypes DEF RunTypes
<1>4. RunTypes'
  BY <1>2, <1>3, YieldTypes, ContinueTypes DEF TypeInv
<1>5. WaitTypes'
  <2>1. LeftWaiting(m) \in Seq(Threads) /\ pri' \in [Threads -> Int]
    BY <1>1, ReleaseTypes
  <2> QED BY <1>0, <1>1, <2>1 DEF WaitTypes
<1>6. LockTypes'
  <2>1. held' \in [Threads -> [Mutexes -> Nat]]
    BY <1>0, <1>1 DEF LockTypes
  <2> QED BY <1>1, <2>1, ReleaseTypes DEF LockTypes
<1>7. FlagTypes' /\ force' \in BOOLEAN /\ isr' \in BOOLEAN
  BY <1>0, <1>1 DEF FlagTypes, ClockTypes, flagVars, isrVars
<1>8. CallTypes' /\ CallObjects'
  BY <1>0, <1>1 DEF CallTypes, CallObjects, callVars
<1> QED
  BY <1>4, <1>5, <1>6, <1>7, <1>8 DEF StepTypes

(* The first half of a wait on a condition variable.                       *)
LEMMA UnlockAndLinkTypes ==
  ASSUME TypeInv, KernelAssumption, NEW t \in Threads, NEW c \in Conds,
         NEW m \in Mutexes \cup {None}, UnlockAndLink(t, c, m)
  PROVE  LockTypes' /\ WaitTypes' /\ WaitReady(m) \in Seq(Threads)
<1>0. WaitTypes /\ LockTypes /\ RunTypes
  BY TypesSplit
<1>1. AddPri(waiting[c], t, pri') \in Seq(Threads)
      /\ AddPri(waiting[c], t, pri) \in Seq(Threads)
  <2>1. waiting[c] \in Seq(Threads)
    BY <1>0 DEF WaitTypes
  <2> QED BY <2>1, AddPriLinks
<1>2. CASE m = None
  <2>1. /\ waiting' = [waiting EXCEPT ![c] = AddPri(waiting[c], t, pri)]
        /\ UNCHANGED <<mutexVars, pri>>
    BY <1>2 DEF UnlockAndLink
  <2>2. LockTypes'
    BY <1>0, <2>1 DEF LockTypes, mutexVars
  <2>3. WaitTypes'
    BY <1>0, <1>1, <2>1 DEF WaitTypes
  <2> QED BY <1>0, <1>2, <2>2, <2>3 DEF WaitReady, RunTypes
<1>3. CASE m # None
  <2>1. /\ m \in Mutexes /\ Release(t, m)
        /\ held' = [held EXCEPT ![t][m] = 0]
        /\ waiting' = [waiting EXCEPT ![m] = LeftWaiting(m),
                                      ![c] = AddPri(waiting[c], t, pri')]
    BY <1>3 DEF UnlockAndLink
  <2>2. LeftWaiting(m) \in Seq(Threads) /\ pri' \in [Threads -> Int]
    BY <2>1, ReleaseTypes
  <2>3. WaitTypes'
    BY <1>0, <1>1, <2>1, <2>2 DEF WaitTypes
  <2>4. held' \in [Threads -> [Mutexes -> Nat]]
    BY <1>0, <2>1 DEF LockTypes
  <2>5. LockTypes'
    BY <2>1, <2>4, ReleaseTypes DEF LockTypes
  <2>6. WaitReady(m) \in Seq(Threads)
    BY <1>3, <2>1, ReleaseTypes DEF WaitReady
  <2> QED BY <2>3, <2>5, <2>6
<1> QED
  BY <1>2, <1>3

(* The start of a wait on a condition variable.                            *)
LEMMA CondWaitTypes ==
  ASSUME TypeInv, KernelAssumption, NEW t \in Threads, NEW c \in Conds,
         NEW m \in Mutexes \cup {None},
         KcondWait(t, c, m) \/ KcondWaitTimeout(t, c, m)
  PROVE  StepTypes
<1>0. /\ CallTypes /\ CallObjects /\ FlagTypes /\ RunTypes /\ ClockTypes
  BY TypesSplit
<1>1. UnlockAndLink(t, c, m) /\ UNCHANGED <<flagVars, isrVars, peer>>
      /\ cnd' = [cnd EXCEPT ![t] = c]
  BY DEF KcondWait, KcondWaitTimeout
<1>2. PICK where \in {"condwait", "condarm"} : Goto(t, where, m)
  BY DEF KcondWait, KcondWaitTimeout
<1>3. PICK ok : \/ Switch(WaitReady(m), inlist \cup {t}, ok)
                \/ Continue(WaitReady(m), inlist \cup {t}, ok)
  BY DEF KcondWait, KcondWaitTimeout
<1>4. LockTypes' /\ WaitTypes' /\ WaitReady(m) \in Seq(Threads)
  BY <1>1, UnlockAndLinkTypes
<1>5. RunTypes'
  <2>1. inlist \cup {t} \subseteq Threads
    BY <1>0 DEF RunTypes
  <2> QED BY <1>3, <1>4, <2>1, ScheduleTypes, ContinueTypes DEF Switch, TypeInv
<1>6. CallTypes' /\ CallObjects'
  <2>1. where \in PCs
    BY DEF PCs, Arming
  <2>2. cnd'[t] = c /\ c # None
    BY <1>0, <1>1 DEF CallTypes, KernelAssumption
  <2>3. CallTypes'
    BY <1>0, <1>1, <1>2, <2>1 DEF CallTypes, Goto
  <2>4. CallObjects'
    BY <1>0, <1>1, <1>2, <2>2 DEF CallTypes, CallObjects, Goto
  <2> QED BY <2>3, <2>4
<1>7. FlagTypes' /\ force' \in BOOLEAN /\ isr' \in BOOLEAN
  BY <1>0, <1>1 DEF FlagTypes, ClockTypes, flagVars, isrVars
<1> QED
  BY <1>4, <1>5, <1>6, <1>7 DEF StepTypes

(* Signals and broadcasts, by a thread or by a handler.                    *)
LEMMA CondWakeTypes ==
  ASSUME TypeInv, KernelAssumption, NEW c \in Conds,
         \/ \E t \in Threads : KcondSignal(t, c) \/ KcondBroadcast(t, c)
         \/ KcondSignalIsr(c) \/ KcondBroadcastIsr(c)
  PROVE  StepTypes
<1>0. /\ CallTypes /\ CallObjects /\ FlagTypes /\ RunTypes /\ ClockTypes
      /\ LockTypes /\ WaitTypes
  BY TypesSplit
<1> DEFINE w == waiting[c]
           r1 == AddPri(th_ready, Head(w), pri)
           r2 == Splice(th_ready, w, pri)
<1>1. w \in Seq(Threads) /\ w # <<>> /\ th_ready \in Seq(Threads)
  BY <1>0 DEF WaitTypes, RunTypes, KcondSignal, KcondBroadcast, KcondSignalIsr,
     KcondBroadcastIsr
<1>2. Tail(w) \in Seq(Threads) /\ Head(w) \in Threads
  BY <1>1
<1>3. r1 \in Seq(Threads)
  BY <1>1, <1>2, AddPriLinks
<1>4. r2 \in Seq(Threads)
  BY <1>1, SpliceLinks
<1>5. UNCHANGED <<flagVars, mutexVars, callVars, pri>>
      /\ (waiting' = Unlinked(c) \/ waiting' = [waiting EXCEPT ![c] = <<>>])
  BY Zenon DEF KcondSignal, KcondBroadcast, KcondSignalIsr, KcondBroadcastIsr
<1>6. /\ CallTypes' /\ CallObjects' /\ FlagTypes' /\ LockTypes'
  <2>1. CallTypes' /\ CallObjects'
    BY <1>0, <1>5 DEF CallTypes, CallObjects, callVars
  <2>2. FlagTypes' /\ LockTypes'
    BY <1>0, <1>5 DEF FlagTypes, LockTypes, flagVars, mutexVars
  <2> QED BY <2>1, <2>2
<1>7. WaitTypes'
  <2>1. \E x \in Seq(Threads) : waiting' = [waiting EXCEPT ![c] = x]
    <3>1. <<>> \in Seq(Threads) /\ Tail(waiting[c]) \in Seq(Threads)
      BY <1>2
    <3> QED BY <1>5, <3>1, Zenon DEF Unlinked
  <2> QED BY <1>0, <1>5, <2>1 DEF WaitTypes
<1>8. inlist \subseteq Threads
  BY <1>0 DEF RunTypes
<1>9. ASSUME NEW t \in Threads, KcondSignal(t, c) \/ KcondBroadcast(t, c)
      PROVE  RunTypes' /\ force' \in BOOLEAN /\ isr' \in BOOLEAN
  <2>1. PICK r \in {r1, r2} : Yield(r, inlist, TRUE) \/ Continue(r, inlist, TRUE)
    BY <1>9, Zenon DEF KcondSignal, KcondBroadcast
  <2>2. r \in Seq(Threads)
    BY <1>3, <1>4
  <2>3. RunTypes'
    BY <1>8, <2>1, <2>2, YieldTypes, ContinueTypes DEF TypeInv
  <2>4. UNCHANGED isrVars
    BY <1>9 DEF KcondSignal, KcondBroadcast
  <2> QED BY <1>0, <2>3, <2>4 DEF isrVars, ClockTypes
<1>10. ASSUME KcondSignalIsr(c) \/ KcondBroadcastIsr(c)
       PROVE  RunTypes' /\ force' \in BOOLEAN /\ isr' \in BOOLEAN
  <2>1. th_ready' \in {r1, r2}
        /\ UNCHANGED <<th_cur, inlist, panic, life, all_threads, isr>>
    BY <1>10, Zenon DEF KcondSignalIsr, KcondBroadcastIsr
  <2>2. force' \in BOOLEAN
    BY <1>10 DEF KcondSignalIsr, KcondBroadcastIsr
  <2> QED BY <1>0, <1>3, <1>4, <2>1, <2>2 DEF RunTypes, ClockTypes
<1> QED
  BY <1>6, <1>7, <1>9, <1>10 DEF StepTypes

(* Every call on a mutex or condition variable.                            *)
LEMMA SyncKeepsTypes ==
  ASSUME TypeInv, KernelAssumption, NEW t \in Threads, Sync(t)
  PROVE  TypeInv'
<1>0. /\ CallTypes /\ CallObjects /\ FlagTypes /\ RunTypes /\ ClockTypes
      /\ LockTypes /\ WaitTypes
  BY TypesSplit
<1>1. ASSUME StepTypes, timer' \subseteq Threads, timeout' \subseteq Threads
      PROVE  TypeInv'
  BY <1>1, StepTypesSuffice
<1>2. timer \subseteq Threads /\ timeout \subseteq Threads
  BY <1>0 DEF ClockTypes
<1>3. UNCHANGED timerVars => timer' \subseteq Threads /\ timeout' \subseteq Threads
  BY <1>2 DEF timerVars
<1>4. CASE KmutexLockResume(t)
  <2>1. mtx[t] \in Mutexes
    BY <1>0, <1>4 DEF KmutexLockResume, At, CallTypes, CallObjects
  <2> QED BY <1>1, <1>3, <1>4, <2>1, LockTypesKept DEF KmutexLockResume
<1>5. CASE KmutexTryLockLoop(t)
  <2> DEFINE m == mtx[t]
  <2>1. m \in Mutexes
    BY <1>0, <1>5 DEF KmutexTryLockLoop, At, CallTypes, CallObjects
  <2>2. timer' \subseteq Threads /\ timeout' \subseteq Threads
    BY <1>2, <1>5 DEF KmutexTryLockLoop, StopTimer, timerVars
  <2>3. CASE owner[m] # None /\ WaitForMutex(t, m, "trylock")
    BY <1>1, <2>1, <2>2, <2>3, WaitForMutexTypes
  <2>4. CASE Acquire(t, m) /\ ReturnLocked(t, m)
    BY <1>1, <2>1, <2>2, <2>4, GrantTypes, ReturnTypes DEF StepTypes
  <2>5. CASE /\ Goto(t, "user", None)
             /\ UNCHANGED <<runVars, flagVars, mutexVars, isrVars, cnd, peer,
                            pri, waiting>>
    <3>1. "user" \in PCs
      BY DEF PCs, Enabled
    <3>2. CallTypes' /\ CallObjects'
      BY <1>0, <2>5, <3>1, GotoKeepsCallTypes
    <3>3. RunTypes' /\ FlagTypes'
      BY <1>0, <2>5 DEF RunTypes, FlagTypes, runVars, flagVars
    <3>4. LockTypes' /\ WaitTypes' /\ force' \in BOOLEAN /\ isr' \in BOOLEAN
      BY <1>0, <2>5 DEF LockTypes, WaitTypes, ClockTypes, mutexVars, isrVars
    <3> QED BY <1>1, <2>2, <3>2, <3>3, <3>4 DEF StepTypes
  <2> QED BY <1>5, <2>3, <2>4, <2>5 DEF KmutexTryLockLoop
<1>6. CASE KcondWaitResume(t)
  BY <1>1, <1>3, <1>6, RewaitTypes DEF KcondWaitResume
<1>7. CASE KcondWaitTimeoutSwitch(t)
  <2>1. mtx[t] \in Mutexes \cup {None} /\ cnd[t] # None /\ "condtimed" \in PCs
    BY <1>0, <1>7 DEF KcondWaitTimeoutSwitch, At, CallTypes, CallObjects, PCs
  <2>2. CallTypes' /\ CallObjects'
    <3>1. Goto(t, "condtimed", mtx[t]) /\ UNCHANGED <<cnd, peer>>
      BY <1>7 DEF KcondWaitTimeoutSwitch
    <3>2. cnd'[t] # None
      BY <2>1, <3>1
    <3> QED BY <1>0, <2>1, <3>1, <3>2, GotoKeepsCallTypes
  <2>3. RunTypes'
    BY <1>0, <1>7, ScheduleTypes DEF KcondWaitTimeoutSwitch, Switch, TypeInv, RunTypes
  <2>4. FlagTypes' /\ LockTypes' /\ WaitTypes'
    BY <1>0, <1>7 DEF KcondWaitTimeoutSwitch, FlagTypes, LockTypes, WaitTypes,
       flagVars, mutexVars
  <2>5. force' \in BOOLEAN /\ isr' \in BOOLEAN /\ UNCHANGED timerVars
    BY <1>0, <1>7 DEF KcondWaitTimeoutSwitch, ClockTypes, isrVars
  <2> QED BY <1>1, <1>3, <2>2, <2>3, <2>4, <2>5 DEF StepTypes
<1>8. CASE KcondWaitTimeoutResume(t)
  <2>1. timer' \subseteq Threads /\ timeout' \subseteq Threads
    BY <1>2, <1>8 DEF KcondWaitTimeoutResume, StopTimer
  <2> QED BY <1>1, <1>8, <2>1, RewaitTypes DEF KcondWaitTimeoutResume
<1>9. ASSUME NEW m \in Mutexes, KmutexLock(t, m) \/ KmutexTryLock(t, m)
      PROVE  TypeInv'
  BY <1>1, <1>3, <1>9, LockTypesKept DEF KmutexLock, KmutexTryLock
<1>10. ASSUME NEW m \in Mutexes, KmutexUnlock(t, m)
       PROVE  TypeInv'
  BY <1>1, <1>3, <1>10, UnlockTypes DEF KmutexUnlock
<1>11. ASSUME NEW m \in Mutexes, KmutexTryLockStart(t, m)
       PROVE  TypeInv'
  <2>1. timer' \subseteq Threads /\ timeout' \subseteq Threads
    BY <1>2, <1>11 DEF KmutexTryLockStart
  <2>2. "tryarm" \in PCs /\ m # None
    BY DEF PCs, Arming, KernelAssumption
  <2>3. CallTypes' /\ CallObjects'
    BY <1>0, <1>11, <2>2, GotoKeepsCallTypes DEF KmutexTryLockStart
  <2>4. RunTypes' /\ FlagTypes'
    BY <1>0, <1>11 DEF KmutexTryLockStart, RunTypes, FlagTypes, runVars, flagVars
  <2>5. LockTypes' /\ WaitTypes' /\ force' \in BOOLEAN /\ isr' \in BOOLEAN
    BY <1>0, <1>11 DEF KmutexTryLockStart, LockTypes, WaitTypes, ClockTypes,
       mutexVars, isrVars
  <2> QED BY <1>1, <2>1, <2>3, <2>4, <2>5 DEF StepTypes
<1>12. ASSUME NEW c \in Conds, KcondSignal(t, c) \/ KcondBroadcast(t, c)
       PROVE  TypeInv'
  <2>1. UNCHANGED timerVars
    BY <1>12 DEF KcondSignal, KcondBroadcast
  <2> QED BY <1>1, <1>3, <1>12, <2>1, CondWakeTypes
<1>13. ASSUME NEW c \in Conds, NEW m \in Mutexes \cup {None},
              KcondWait(t, c, m) \/ KcondWaitTimeout(t, c, m)
       PROVE  TypeInv'
  <2>1. timer' \subseteq Threads /\ timeout' \subseteq Threads
    BY <1>2, <1>13 DEF KcondWait, KcondWaitTimeout, timerVars
  <2> QED BY <1>1, <1>13, <2>1, CondWaitTypes
<1> QED
  BY <1>4, <1>5, <1>6, <1>7, <1>8, <1>9, <1>10, <1>11, <1>12, <1>13 DEF Sync

(* Every step of the interrupt handler.                                    *)
LEMMA HandlerKeepsTypes ==
  ASSUME TypeInv, KernelAssumption, Handler
  PROVE  TypeInv'
<1>0. /\ CallTypes /\ CallObjects /\ FlagTypes /\ RunTypes /\ ClockTypes
      /\ LockTypes /\ WaitTypes
  BY TypesSplit
<1>1. ASSUME StepTypes, timer' \subseteq Threads, timeout' \subseteq Threads
      PROVE  TypeInv'
  BY <1>1, StepTypesSuffice
<1>2. timer \subseteq Threads /\ timeout \subseteq Threads
  BY <1>0 DEF ClockTypes
<1>3. CASE Interrupt \/ InterruptEnd
  <2>1. /\ UNCHANGED <<flagVars, mutexVars, timerVars, callVars, pri, waiting>>
        /\ force' \in BOOLEAN /\ isr' \in BOOLEAN
    BY <1>0, <1>3 DEF Interrupt, InterruptEnd, ClockTypes
  <2>2. RunTypes'
    <3>1. CASE UNCHANGED runVars
      BY <1>0, <3>1 DEF RunTypes, runVars
    <3>2. CASE Schedule(th_ready, inlist, FALSE, TRUE)
      BY <1>0, <3>2, ScheduleTypes DEF RunTypes, TypeInv
    <3> QED BY <1>3, <3>1, <3>2 DEF Interrupt, InterruptEnd
  <2>3. CallTypes' /\ CallObjects' /\ FlagTypes'
    BY <1>0, <2>1 DEF CallTypes, CallObjects, FlagTypes, callVars, flagVars
  <2>4. LockTypes' /\ WaitTypes'
    BY <1>0, <2>1 DEF LockTypes, WaitTypes, mutexVars
  <2>5. timer' \subseteq Threads /\ timeout' \subseteq Threads
    BY <1>2, <2>1 DEF timerVars
  <2> QED BY <1>1, <2>1, <2>2, <2>3, <2>4, <2>5 DEF StepTypes
<1>4. ASSUME NEW t \in Threads, TimerFire(t)
      PROVE  TypeInv'
  <2>1. /\ UNCHANGED <<th_cur, life, all_threads, flagVars, mutexVars, isr,
                       callVars, pri>>
        /\ force' = TRUE /\ timer' = timer \ {t}
        /\ timeout' \subseteq Threads /\ panic' \in BOOLEAN
    BY <1>2, <1>4 DEF TimerFire
  <2>2. RunTypes'
    <3>1. AddPri(th_ready, t, pri) \in Seq(Threads)
      BY <1>0, AddPriLinks DEF RunTypes
    <3>2. th_ready' \in Seq(Threads) /\ inlist' \subseteq Threads
      BY <1>0, <1>4, <3>1 DEF TimerFire, RunTypes
    <3> QED BY <1>0, <2>1, <3>2 DEF RunTypes
  <2>3. CallTypes' /\ CallObjects' /\ FlagTypes'
    BY <1>0, <2>1 DEF CallTypes, CallObjects, FlagTypes, callVars, flagVars
  <2>4. LockTypes' /\ force' \in BOOLEAN /\ isr' \in BOOLEAN
    BY <1>0, <2>1 DEF LockTypes, mutexVars, ClockTypes
  <2>5. WaitTypes'
    <3>1. \A l \in Mutexes \cup Conds : Unlink(waiting[l], t) \in Seq(Threads)
      BY <1>0, UnlinkLinks DEF WaitTypes
    <3>2. \/ waiting' = waiting
          \/ waiting' = [waiting EXCEPT ![FireList(t)] = Unlink(waiting[FireList(t)], t)]
      BY <1>4 DEF TimerFire
    <3>3. ASSUME NEW l, waiting' = [waiting EXCEPT ![l] = Unlink(waiting[l], t)]
          PROVE  waiting' \in [Mutexes \cup Conds -> Seq(Threads)]
      <4>1. CASE l \in Mutexes \cup Conds
        BY <1>0, <3>1, <3>3, <4>1 DEF WaitTypes
      <4>2. CASE l \notin Mutexes \cup Conds
        BY <1>0, <3>3, <4>2 DEF WaitTypes
      <4> QED BY <4>1, <4>2
    <3>4. waiting' \in [Mutexes \cup Conds -> Seq(Threads)]
      BY <1>0, <3>2, <3>3 DEF WaitTypes
    <3> QED BY <1>0, <2>1, <3>4 DEF WaitTypes
  <2> QED BY <1>1, <1>2, <2>1, <2>2, <2>3, <2>4, <2>5 DEF StepTypes
<1>5. ASSUME NEW c \in Conds, KcondSignalIsr(c) \/ KcondBroadcastIsr(c)
      PROVE  TypeInv'
  <2>1. UNCHANGED timerVars
    BY <1>5 DEF KcondSignalIsr, KcondBroadcastIsr
  <2> QED BY <1>1, <1>2, <1>5, <2>1, CondWakeTypes DEF timerVars
<1> QED
  BY <1>3, <1>4, <1>5 DEF Handler

(* Every step of the kernel.                                               *)
LEMMA NextKeepsTypes ==
  ASSUME TypeInv, KernelAssumption, [Next]_vars
  PROVE  TypeInv'
<1>0. /\ CallTypes /\ CallObjects /\ FlagTypes /\ RunTypes /\ ClockTypes
      /\ LockTypes /\ WaitTypes
  BY TypesSplit
<1>1. ASSUME NEW t \in Threads, Life(t)
      PROVE  TypeInv'
  <2>1. StepTypes
    BY <1>1, LifeKeepsRunTypes, LifeKeepsOtherTypes DEF StepTypes, ClockTypes
  <2>2. timer' \subseteq Threads /\ timeout' \subseteq Threads
    BY <1>1, LifeKeepsOtherTypes DEF ClockTypes
  <2> QED BY <2>1, <2>2, StepTypesSuffice
<1>2. ASSUME NEW t \in Threads, Sync(t)
      PROVE  TypeInv'
  BY <1>2, SyncKeepsTypes
<1>3. CASE KernelClose
  <2>1. RunTypes'
    <3>1. Free(Idle) /\ UNCHANGED <<th_cur, th_ready, inlist>> /\ panic' \in BOOLEAN
      BY <1>3 DEF KernelClose
    <3>2. /\ life' \in [Threads -> {"unborn", "live", "freed"}]
          /\ all_threads' \in Seq(Threads)
      BY <3>1, FreeTypes DEF TypeInv, KernelAssumption
    <3> QED BY <1>0, <3>1, <3>2 DEF RunTypes
  <2>2. FlagTypes'
    BY <1>0, <1>3 DEF KernelClose, FlagTypes, KernelAssumption
  <2>3. LockTypes' /\ WaitTypes' /\ CallTypes' /\ CallObjects'
    <3>1. LockTypes' /\ WaitTypes'
      BY <1>0, <1>3 DEF KernelClose, LockTypes, WaitTypes, mutexVars
    <3>2. CallTypes' /\ CallObjects'
      BY <1>0, <1>3 DEF KernelClose, CallTypes, CallObjects, callVars
    <3> QED BY <3>1, <3>2
  <2>4. force' \in BOOLEAN /\ isr' \in BOOLEAN
        /\ timer' \subseteq Threads /\ timeout' \subseteq Threads
    BY <1>0, <1>3 DEF KernelClose, ClockTypes, timerVars
  <2> QED BY <2>1, <2>2, <2>3, <2>4, StepTypesSuffice DEF StepTypes
<1>4. CASE Handler
  BY <1>4, HandlerKeepsTypes
<1>5. CASE UNCHANGED vars
  <2>1. UNCHANGED <<runVars, flagVars, mutexVars, timerVars, isrVars, callVars,
                    pri, waiting>>
    BY <1>5 DEF vars
  <2>2. RunTypes' /\ FlagTypes'
    BY <1>0, <2>1 DEF RunTypes, FlagTypes, runVars, flagVars
  <2>3. LockTypes' /\ WaitTypes'
    BY <1>0, <2>1 DEF LockTypes, WaitTypes, mutexVars
  <2>4. CallTypes' /\ CallObjects'
    BY <1>0, <2>1 DEF CallTypes, CallObjects, callVars
  <2>5. force' \in BOOLEAN /\ isr' \in BOOLEAN
        /\ timer' \subseteq Threads /\ timeout' \subseteq Threads
    BY <1>0, <2>1 DEF ClockTypes, timerVars, isrVars
  <2> QED BY <2>2, <2>3, <2>4, <2>5, StepTypesSuffice DEF StepTypes
<1> QED
  BY <1>1, <1>2, <1>3, <1>4, <1>5 DEF Next

(* kernel_init.                                                            *)
LEMMA InitTypes ==
  ASSUME KernelAssumption, Init
  PROVE  TypeInv
<1>1. RunTypes
  <2>1. <<Idle>> \in Seq(Threads) /\ <<Idle, Main>> \in Seq(Threads)
        /\ <<>> \in Seq(Threads)
    BY DEF KernelAssumption
  <2>2. life \in [Threads -> {"unborn", "live", "freed"}]
    BY DEF Init
  <2>3. th_ready \in Seq(Threads) /\ all_threads \in Seq(Threads)
    BY <2>1 DEF Init
  <2>4. th_cur \in Threads /\ inlist \subseteq Threads /\ panic \in BOOLEAN
    BY DEF Init, KernelAssumption
  <2> QED BY <2>2, <2>3, <2>4 DEF RunTypes
<1>2. FlagTypes
  <2>1. th_count \in Int /\ closed \in BOOLEAN
    <3>1. th_count = 2 /\ closed = FALSE
      BY DEF Init
    <3>2. th_count \in Int
      BY <3>1
    <3>3. closed \in BOOLEAN
      BY <3>1, Zenon
    <3> QED BY <3>2, <3>3
  <2>2. joiner \in [Threads -> Threads \cup {None}]
    BY DEF Init
  <2>3. {Main, Idle} \subseteq Threads
    BY DEF KernelAssumption
  <2>4. tls \subseteq Threads /\ detached \subseteq Threads
    BY <2>3 DEF Init
  <2>5. zombie \subseteq Threads /\ waitforjoin \subseteq Threads
        /\ suspended \subseteq Threads
    BY DEF Init
  <2> QED BY <2>1, <2>2, <2>4, <2>5 DEF FlagTypes
<1>5. LockTypes
  <2>1. 0 \in 0 .. (CounterSpan - 1)
    BY DEF KernelAssumption
  <2> QED BY <2>1 DEF Init, LockTypes
<1>3. WaitTypes /\ ClockTypes
  <2>1. <<>> \in Seq(Threads)
    OBVIOUS
  <2>2. waiting \in [Mutexes \cup Conds -> Seq(Threads)]
    BY <2>1 DEF Init
  <2> QED BY <2>2 DEF Init, WaitTypes, ClockTypes, KernelAssumption
<1>4. CallTypes /\ CallObjects
  BY DEF Init, CallTypes, CallObjects, PCs, Enabled
<1> QED
  BY <1>1, <1>2, <1>3, <1>4, <1>5, TypesSplit

(* Whatever the program calls and whatever interrupts it: the lists hold   *)
(* threads, a lock counter stays in its bit field, and every call has the  *)
(* objects it was given until it returns.                                  *)
THEOREM KernelTypesHold == Spec => []TypeOK
<1>1. Init => TypeInv
  BY KernelAssumption, InitTypes
<1>2. TypeInv /\ [Next]_vars => TypeInv'
  BY KernelAssumption, NextKeepsTypes
<1>3. TypeInv => TypeOK
  BY DEF TypeInv
<1> QED
  BY <1>1, <1>2, <1>3, PTL DEF Spec

-----------------------------------------------------------------------------
(* Mutexes.                                                                *)

(* The counter is a bit field: the program does not nest deeper than that. *)
Shallow == MaxHeld < CounterSpan

(* Inside a call that gets, or gets back, the mutex mtx[t].                *)
LockCalls == {"lock", "trylock", "tryarm"}
WaitCalls == {"condwait", "condarm", "condtimed"}

MutexTypes ==
  /\ owner \in [Mutexes -> Threads \cup {None}]
  /\ counter \in [Mutexes -> Nat]
  /\ held \in [Threads -> [Mutexes -> Nat]]
  /\ waiting = [l \in Mutexes \cup Conds |-> waiting[l]]
  /\ pc \in [Threads -> PCs]
  /\ mtx \in [Threads -> Mutexes \cup {None}]
  /\ cnd \in [Threads -> Conds \cup {None}]

(* A mutex has an owner exactly while somebody still has to unlock it.     *)
HoldersOwn ==
  \A t \in Threads, m \in Mutexes :
    /\ held[t][m] > 0 <=> owner[m] = t
    /\ held[t][m] <= MaxHeld

(* Who waits for a mutex does not hold it.                                 *)
WaitersDoNotHold ==
  \A t \in Threads :
    /\ pc[t] \in LockCalls => mtx[t] # None
    /\ pc[t] \in LockCalls \cup WaitCalls /\ mtx[t] # None =>
         held[t][mtx[t]] = 0

MutexInv ==
  /\ MutexTypes /\ HoldersOwn /\ WaitersDoNotHold
  /\ MutualExclusion /\ NoWaiterOnFreeMutex

-----------------------------------------------------------------------------
(* The steps that leave mutexes and waiting lists alone; a thread may go   *)
(* to a place where it is in no lock or wait call.                         *)
OtherPlaces == PCs \ (LockCalls \cup WaitCalls)

Elsewhere ==
  /\ UNCHANGED <<owner, counter, held, waiting>>
  /\ \/ UNCHANGED pc
     \/ \E t \in Threads, w \in OtherPlaces : pc' = [pc EXCEPT ![t] = w]
  /\ \/ UNCHANGED mtx
     \/ \E t \in Threads : /\ mtx' = [mtx EXCEPT ![t] = None]
                           /\ pc'[t] \in OtherPlaces
  /\ \/ UNCHANGED cnd
     \/ \E t \in Threads : cnd' = [cnd EXCEPT ![t] = None]

(* None of them breaks the invariant.                                      *)
LEMMA ElsewhereKeepsMutexInv ==
  ASSUME MutexInv, Elsewhere
  PROVE  MutexInv'
<1>1. MutexTypes'
  BY ZenonT(40) DEF MutexInv, MutexTypes, Elsewhere, OtherPlaces
<1>2. HoldersOwn' /\ MutualExclusion' /\ NoWaiterOnFreeMutex'
  BY DEF MutexInv, HoldersOwn, MutualExclusion, NoWaiterOnFreeMutex, Elsewhere
<1>3. WaitersDoNotHold'
  <2> SUFFICES ASSUME NEW t \in Threads
      PROVE  /\ pc'[t] \in LockCalls => mtx'[t] # None
             /\ pc'[t] \in LockCalls \cup WaitCalls /\ mtx'[t] # None =>
                  held'[t][mtx'[t]] = 0
      BY DEF WaitersDoNotHold
  <2>1. pc'[t] = pc[t] \/ pc'[t] \in OtherPlaces
    BY DEF MutexInv, MutexTypes, Elsewhere
  <2>2. mtx'[t] = mtx[t] \/ pc'[t] \in OtherPlaces
    BY DEF MutexInv, MutexTypes, Elsewhere
  <2> QED
    BY <2>1, <2>2 DEF MutexInv, WaitersDoNotHold, Elsewhere, OtherPlaces
<1> QED
  BY <1>1, <1>2, <1>3 DEF MutexInv

-----------------------------------------------------------------------------
(* The ways a step changes a mutex.                                        *)

(* Getting a free mutex.                                                   *)
LEMMA AcquireKeepsMutexInv ==
  ASSUME MutexInv, NEW t \in Threads, NEW m \in Mutexes,
         KernelAssumption, owner[m] = None,
         Acquire(t, m), ReturnLocked(t, m)
  PROVE  MutexInv'
<1>1. MutexTypes'
  BY DEF MutexInv, MutexTypes, Acquire, ReturnLocked, Goto, PCs, Enabled
<1>2. \A u \in Threads : held[u][m] = 0
  BY DEF MutexInv, MutexTypes, HoldersOwn, KernelAssumption
<1>3. /\ owner' = [owner EXCEPT ![m] = t]
      /\ counter' = [counter EXCEPT ![m] = 1]
      /\ held' = [held EXCEPT ![t][m] = 1]
      /\ pc' = [pc EXCEPT ![t] = "user"] /\ mtx' = [mtx EXCEPT ![t] = None]
      /\ UNCHANGED waiting
  BY DEF Acquire, ReturnLocked, Goto
<1>4. \A u \in Threads, l \in Mutexes :
        held'[u][l] = IF u = t /\ l = m THEN 1 ELSE held[u][l]
  BY <1>3 DEF MutexInv, MutexTypes
<1>5. HoldersOwn' /\ MutualExclusion'
  BY <1>2, <1>3, <1>4
     DEF MutexInv, MutexTypes, HoldersOwn, MutualExclusion, KernelAssumption
<1>6. NoWaiterOnFreeMutex'
  BY <1>3 DEF MutexInv, MutexTypes, NoWaiterOnFreeMutex, KernelAssumption
<1>7. WaitersDoNotHold'
  BY <1>3, <1>4
     DEF MutexInv, MutexTypes, WaitersDoNotHold, LockCalls, WaitCalls
<1> QED
  BY <1>1, <1>5, <1>6, <1>7 DEF MutexInv

(* Locking a recursive mutex once more.                                    *)
LEMMA RelockKeepsMutexInv ==
  ASSUME MutexInv, NEW t \in Threads, NEW m \in Mutexes,
         KernelAssumption, Shallow,
         owner[m] = t, held[t][m] < MaxHeld, Relock(t, m), ReturnLocked(t, m)
  PROVE  MutexInv'
<1>1. counter[m] = held[t][m] /\ counter[m] \in Nat /\ counter[m] < MaxHeld
  BY DEF MutexInv, MutexTypes, MutualExclusion
<1>2. (counter[m] + 1) % CounterSpan = counter[m] + 1
  BY <1>1 DEF Shallow, KernelAssumption
<1>3. /\ UNCHANGED <<owner, waiting>>
      /\ counter' = [counter EXCEPT ![m] = counter[m] + 1]
      /\ held' = [held EXCEPT ![t][m] = held[t][m] + 1]
      /\ pc' = [pc EXCEPT ![t] = "user"] /\ mtx' = [mtx EXCEPT ![t] = None]
  BY <1>2 DEF Relock, ReturnLocked, Goto
<1>4. MutexTypes'
  BY <1>3 DEF MutexInv, MutexTypes, ReturnLocked, PCs, Enabled
<1>5. \A u \in Threads, l \in Mutexes :
        held'[u][l] = IF u = t /\ l = m THEN held[t][m] + 1 ELSE held[u][l]
  BY <1>3 DEF MutexInv, MutexTypes
<1>6. HoldersOwn' /\ MutualExclusion'
  BY <1>1, <1>3, <1>5
     DEF MutexInv, MutexTypes, HoldersOwn, MutualExclusion, KernelAssumption
<1>7. NoWaiterOnFreeMutex'
  BY <1>3, <1>5 DEF MutexInv, MutexTypes, NoWaiterOnFreeMutex
<1>8. WaitersDoNotHold'
  BY <1>3, <1>5 DEF MutexInv, MutexTypes, WaitersDoNotHold, LockCalls, WaitCalls
<1> QED
  BY <1>4, <1>6, <1>7, <1>8 DEF MutexInv

(* Waiting for a mutex that somebody owns.                                 *)
LEMMA WaitForMutexKeepsMutexInv ==
  ASSUME MutexInv, NEW t \in Threads, NEW m \in Mutexes,
         NEW where \in LockCalls, KernelAssumption,
         owner[m] # None, held[t][m] = 0, WaitForMutex(t, m, where)
  PROVE  MutexInv'
<1>1. /\ UNCHANGED <<owner, counter, held, cnd>>
      /\ waiting' = [waiting EXCEPT ![m] = AddPri(waiting[m], t, pri')]
      /\ pc' = [pc EXCEPT ![t] = where] /\ mtx' = [mtx EXCEPT ![t] = m]
  BY DEF WaitForMutex, Goto, mutexVars
<1>2. MutexTypes'
  BY <1>1 DEF MutexInv, MutexTypes, PCs, LockCalls, Enabled, Arming
<1>3. HoldersOwn' /\ MutualExclusion'
  BY <1>1 DEF MutexInv, HoldersOwn, MutualExclusion
<1>4. NoWaiterOnFreeMutex'
  BY <1>1 DEF MutexInv, MutexTypes, NoWaiterOnFreeMutex
<1>5. WaitersDoNotHold'
  BY <1>1 DEF MutexInv, MutexTypes, WaitersDoNotHold, KernelAssumption
<1> QED
  BY <1>2, <1>3, <1>4, <1>5 DEF MutexInv

(* kmutex_unlock_internal by the owner: the last unlock takes everybody    *)
(* off the waiting list.                                                   *)
LEMMA ReleaseKeepsOwnership ==
  ASSUME MutexInv, NEW t \in Threads, NEW m \in Mutexes,
         KernelAssumption, Shallow, held[t][m] > 0,
         Release(t, m), held' = [held EXCEPT ![t][m] = held[t][m] - 1],
         \A l \in Mutexes :
           waiting'[l] = IF l = m THEN LeftWaiting(m) ELSE waiting[l]
  PROVE  /\ owner' \in [Mutexes -> Threads \cup {None}]
         /\ counter' \in [Mutexes -> Nat]
         /\ held' \in [Threads -> [Mutexes -> Nat]]
         /\ HoldersOwn' /\ MutualExclusion' /\ NoWaiterOnFreeMutex'
<1>1. /\ owner[m] = t /\ counter[m] = held[t][m]
      /\ counter[m] \in Nat \ {0} /\ counter[m] <= MaxHeld
  BY DEF MutexInv, MutexTypes, HoldersOwn, MutualExclusion
<1>2. (counter[m] - 1) % CounterSpan = counter[m] - 1
  BY <1>1 DEF Shallow, KernelAssumption
<1>3. /\ counter' = [counter EXCEPT ![m] = counter[m] - 1]
      /\ owner' = [owner EXCEPT ![m] = IF counter[m] = 1 THEN None ELSE t]
  BY <1>1, <1>2 DEF Release
<1>4. \A u \in Threads, l \in Mutexes :
        held'[u][l] = IF u = t /\ l = m THEN held[t][m] - 1 ELSE held[u][l]
  BY DEF MutexInv, MutexTypes
<1>5. HoldersOwn' /\ MutualExclusion'
  BY <1>1, <1>3, <1>4
     DEF MutexInv, MutexTypes, HoldersOwn, MutualExclusion, KernelAssumption
<1>6. NoWaiterOnFreeMutex'
  BY <1>1, <1>3
     DEF MutexInv, MutexTypes, NoWaiterOnFreeMutex, LeftWaiting, KernelAssumption
<1>7. /\ owner' \in [Mutexes -> Threads \cup {None}]
      /\ counter' \in [Mutexes -> Nat]
      /\ held' \in [Threads -> [Mutexes -> Nat]]
  BY <1>1, <1>3 DEF MutexInv, MutexTypes
<1> QED
  BY <1>5, <1>6, <1>7

(* Every lock attempt of kmutex_lock.                                      *)
LEMMA LockLoopKeepsMutexInv ==
  ASSUME MutexInv, NEW t \in Threads, NEW m \in Mutexes, KernelAssumption,
         held[t][m] = 0, LockLoop(t, m)
  PROVE  MutexInv'
BY AcquireKeepsMutexInv, WaitForMutexKeepsMutexInv DEF LockLoop, LockCalls

(* kmutex_lock, by the owner or by another thread.                         *)
LEMMA LockKeepsMutexInv ==
  ASSUME MutexInv, NEW t \in Threads, NEW m \in Mutexes,
         KernelAssumption, Shallow, MayLock(t, m), Lock(t, m)
  PROVE  MutexInv'
<1>1. CASE owner[m] = t
  <2>1. held[t][m] > 0 /\ held[t][m] < MaxHeld
    BY <1>1 DEF MutexInv, MutexTypes, HoldersOwn, MayLock
  <2> QED
    BY <1>1, <2>1, RelockKeepsMutexInv DEF Lock
<1>2. CASE owner[m] # t
  <2>1. held[t][m] = 0
    BY <1>2 DEF MutexInv, MutexTypes, HoldersOwn
  <2> QED
    BY <1>2, <2>1, LockLoopKeepsMutexInv DEF Lock
<1> QED
  BY <1>1, <1>2

(* The end of a wait on a condition variable.                              *)
LEMMA RewaitKeepsMutexInv ==
  ASSUME MutexInv, NEW t \in Threads, KernelAssumption, Shallow,
         pc[t] \in WaitCalls, Rewait(t)
  PROVE  MutexInv'
<1>1. CASE mtx[t] = None
  <2>1. "user" \in OtherPlaces
    BY DEF OtherPlaces, PCs, Enabled, LockCalls, WaitCalls
  <2>2. /\ UNCHANGED <<owner, counter, held, waiting>>
        /\ pc' = [pc EXCEPT ![t] = "user"] /\ mtx' = [mtx EXCEPT ![t] = None]
        /\ cnd' = [cnd EXCEPT ![t] = None]
    BY <1>1 DEF Rewait, ReturnLocked, Goto, mutexVars
  <2>3. pc'[t] \in OtherPlaces
    BY <2>1, <2>2 DEF MutexInv, MutexTypes
  <2>4. Elsewhere
    BY <2>1, <2>2, <2>3 DEF Elsewhere
  <2> QED
    BY <2>4, ElsewhereKeepsMutexInv
<1>2. CASE mtx[t] # None
  <2>1. mtx[t] \in Mutexes /\ MayLock(t, mtx[t])
    BY <1>2 DEF MutexInv, MutexTypes, WaitersDoNotHold, MayLock
  <2> QED
    BY <1>2, <2>1, LockKeepsMutexInv DEF Rewait
<1> QED
  BY <1>1, <1>2

-----------------------------------------------------------------------------
(* One lemma per group of actions.                                         *)

(* The calls that lock a mutex.                                            *)
LEMMA LockCallsKeepMutexInv ==
  ASSUME MutexInv, NEW t \in Threads, NEW m \in Mutexes,
         KernelAssumption, Shallow,
         \/ KmutexLock(t, m) \/ KmutexTryLock(t, m) \/ KmutexTryLockStart(t, m)
  PROVE  MutexInv'
<1>1. CASE KmutexLock(t, m) \/ KmutexTryLock(t, m)
  BY <1>1, LockKeepsMutexInv DEF KmutexLock, KmutexTryLock
<1>2. CASE KmutexTryLockStart(t, m)
  <2>1. /\ UNCHANGED <<owner, counter, held, cnd, waiting>>
        /\ pc' = [pc EXCEPT ![t] = "tryarm"] /\ mtx' = [mtx EXCEPT ![t] = m]
    BY <1>2 DEF KmutexTryLockStart, Goto, mutexVars
  <2>2. held[t][m] = 0
    BY <1>2 DEF KmutexTryLockStart, MutexInv, MutexTypes, HoldersOwn
  <2>3. MutexTypes'
    BY <2>1 DEF MutexInv, MutexTypes, PCs, Arming
  <2>4. HoldersOwn' /\ MutualExclusion' /\ NoWaiterOnFreeMutex'
    BY <2>1 DEF MutexInv, HoldersOwn, MutualExclusion, NoWaiterOnFreeMutex
  <2>5. WaitersDoNotHold'
    BY <2>1, <2>2 DEF MutexInv, MutexTypes, WaitersDoNotHold, KernelAssumption
  <2> QED
    BY <2>3, <2>4, <2>5 DEF MutexInv
<1> QED
  BY <1>1, <1>2

(* The calls that go on after a wait.                                      *)
LEMMA LockResumesKeepMutexInv ==
  ASSUME MutexInv, NEW t \in Threads, KernelAssumption, Shallow,
         \/ KmutexLockResume(t) \/ KmutexTryLockLoop(t)
         \/ KcondWaitResume(t) \/ KcondWaitTimeoutResume(t)
  PROVE  MutexInv'
<1>1. CASE KmutexLockResume(t)
  <2>1. pc[t] = "lock"
    BY <1>1 DEF KmutexLockResume, At
  <2>2. mtx[t] \in Mutexes /\ held[t][mtx[t]] = 0
    BY <2>1 DEF MutexInv, MutexTypes, WaitersDoNotHold, LockCalls
  <2> QED
    BY <1>1, <2>2, LockLoopKeepsMutexInv DEF KmutexLockResume
<1>2. CASE KmutexTryLockLoop(t)
  <2> DEFINE m == mtx[t]
  <2>1. pc[t] \in {"tryarm", "trylock"}
    BY <1>2 DEF KmutexTryLockLoop, At
  <2>2. m \in Mutexes /\ held[t][m] = 0
    BY <2>1 DEF MutexInv, MutexTypes, WaitersDoNotHold, LockCalls
  <2>3. CASE owner[m] # None /\ WaitForMutex(t, m, "trylock")
    BY <2>2, <2>3, WaitForMutexKeepsMutexInv DEF LockCalls
  <2>4. CASE owner[m] = None /\ Acquire(t, m) /\ ReturnLocked(t, m)
    BY <2>2, <2>4, AcquireKeepsMutexInv
  <2>5. CASE /\ Goto(t, "user", None)
             /\ UNCHANGED <<mutexVars, cnd, waiting>>
    <3>1. "user" \in OtherPlaces
      BY DEF OtherPlaces, PCs, Enabled, LockCalls, WaitCalls
    <3>2. pc'[t] = "user"
      BY <2>5 DEF Goto, MutexInv, MutexTypes
    <3>3. Elsewhere
      BY <2>5, <3>1, <3>2 DEF Elsewhere, Goto, mutexVars
    <3> QED
      BY <3>3, ElsewhereKeepsMutexInv
  <2> QED
    BY <1>2, <2>3, <2>4, <2>5 DEF KmutexTryLockLoop
<1>3. CASE KcondWaitResume(t) \/ KcondWaitTimeoutResume(t)
  <2>1. pc[t] \in WaitCalls /\ Rewait(t)
    BY <1>3 DEF KcondWaitResume, KcondWaitTimeoutResume, At, WaitCalls
  <2> QED
    BY <2>1, RewaitKeepsMutexInv
<1> QED
  BY <1>1, <1>2, <1>3

(* kmutex_unlock.                                                          *)
LEMMA UnlockKeepsMutexInv ==
  ASSUME MutexInv, NEW t \in Threads, NEW m \in Mutexes,
         KernelAssumption, Shallow, KmutexUnlock(t, m)
  PROVE  MutexInv'
<1>1. /\ held[t][m] > 0 /\ Release(t, m)
      /\ held' = [held EXCEPT ![t][m] = held[t][m] - 1]
      /\ waiting' = [waiting EXCEPT ![m] = LeftWaiting(m)]
      /\ UNCHANGED <<pc, mtx, cnd>> /\ pc[t] = "user"
  BY DEF KmutexUnlock, callVars, Caller, At
<1>2. /\ waiting' = [l \in Mutexes \cup Conds |-> waiting'[l]]
      /\ \A l \in Mutexes :
           waiting'[l] = IF l = m THEN LeftWaiting(m) ELSE waiting[l]
  BY <1>1 DEF MutexInv, MutexTypes
<1>3. /\ owner' \in [Mutexes -> Threads \cup {None}]
      /\ counter' \in [Mutexes -> Nat]
      /\ held' \in [Threads -> [Mutexes -> Nat]]
      /\ HoldersOwn' /\ MutualExclusion' /\ NoWaiterOnFreeMutex'
  BY <1>1, <1>2, ReleaseKeepsOwnership
<1>4. MutexTypes'
  BY <1>1, <1>2, <1>3 DEF MutexInv, MutexTypes
<1>5. WaitersDoNotHold'
  BY <1>1 DEF MutexInv, MutexTypes, WaitersDoNotHold, LockCalls, WaitCalls
<1> QED
  BY <1>3, <1>4, <1>5 DEF MutexInv

(* Linking the caller to a condition variable, the mutex released.         *)
LEMMA CondWaitsKeepMutexInv ==
  ASSUME MutexInv, NEW t \in Threads, NEW c \in Conds,
         NEW m \in Mutexes \cup {None}, KernelAssumption, Shallow,
         KcondWait(t, c, m) \/ KcondWaitTimeout(t, c, m)
  PROVE  MutexInv'
<1>1. PICK where \in WaitCalls :
        /\ pc' = [pc EXCEPT ![t] = where] /\ mtx' = [mtx EXCEPT ![t] = m]
        /\ cnd' = [cnd EXCEPT ![t] = c]
  BY DEF KcondWait, KcondWaitTimeout, Goto, WaitCalls
<1>2. UnlockAndLink(t, c, m) /\ pc[t] = "user"
  BY DEF KcondWait, KcondWaitTimeout, Caller, At
<1>3. pc' \in [Threads -> PCs] /\ mtx' \in [Threads -> Mutexes \cup {None}]
      /\ cnd' \in [Threads -> Conds \cup {None}]
  BY <1>1 DEF MutexInv, MutexTypes, PCs, WaitCalls, Arming
<1>4. c \notin Mutexes
  BY DEF KernelAssumption
<1>5. CASE m = None
  <2>1. /\ UNCHANGED <<owner, counter, held>>
        /\ waiting' = [waiting EXCEPT ![c] = AddPri(waiting[c], t, pri)]
    BY <1>2, <1>5 DEF UnlockAndLink, mutexVars
  <2>2. MutexTypes'
    BY <1>3, <2>1 DEF MutexInv, MutexTypes
  <2>3. HoldersOwn' /\ MutualExclusion' /\ NoWaiterOnFreeMutex'
    BY <1>4, <2>1
       DEF MutexInv, MutexTypes, HoldersOwn, MutualExclusion, NoWaiterOnFreeMutex
  <2>4. WaitersDoNotHold'
    BY <1>1, <1>5, <2>1
       DEF MutexInv, MutexTypes, WaitersDoNotHold, LockCalls, WaitCalls
  <2> QED
    BY <2>2, <2>3, <2>4 DEF MutexInv
<1>6. CASE m # None
  <2>1. /\ m \in Mutexes /\ held[t][m] = 1 /\ Release(t, m)
        /\ held' = [held EXCEPT ![t][m] = 0]
        /\ waiting' = [waiting EXCEPT ![m] = LeftWaiting(m),
                                      ![c] = AddPri(waiting[c], t, pri')]
    BY <1>2, <1>6 DEF UnlockAndLink
  <2>2. /\ held' = [held EXCEPT ![t][m] = held[t][m] - 1] /\ held[t][m] > 0
        /\ waiting' = [l \in Mutexes \cup Conds |-> waiting'[l]]
        /\ \A l \in Mutexes :
             waiting'[l] = IF l = m THEN LeftWaiting(m) ELSE waiting[l]
    <3>1. held' = [held EXCEPT ![t][m] = held[t][m] - 1] /\ held[t][m] > 0
      BY <2>1
    <3>2. DOMAIN waiting = Mutexes \cup Conds
      BY DEF MutexInv, MutexTypes
    <3>3. waiting' = [l \in Mutexes \cup Conds |-> waiting'[l]]
      BY <2>1, <3>2
    <3>4. \A l \in Mutexes :
            waiting'[l] = IF l = m THEN LeftWaiting(m) ELSE waiting[l]
      BY <1>4, <2>1, <3>2
    <3> QED
      BY <3>1, <3>3, <3>4
  <2>3. /\ owner' \in [Mutexes -> Threads \cup {None}]
        /\ counter' \in [Mutexes -> Nat]
        /\ held' \in [Threads -> [Mutexes -> Nat]]
        /\ HoldersOwn' /\ MutualExclusion' /\ NoWaiterOnFreeMutex'
    BY <2>1, <2>2, ReleaseKeepsOwnership
  <2>4. MutexTypes'
    BY <1>3, <2>2, <2>3 DEF MutexInv, MutexTypes
  <2>5. WaitersDoNotHold'
    BY <1>1, <2>1
       DEF MutexInv, MutexTypes, WaitersDoNotHold, LockCalls, WaitCalls
  <2> QED
    BY <2>3, <2>4, <2>5 DEF MutexInv
<1> QED
  BY <1>5, <1>6

(* The steps that only move waiters of a condition variable.               *)
LEMMA CondWakesKeepMutexInv ==
  ASSUME MutexInv, NEW c \in Conds, KernelAssumption,
         \/ \E t \in Threads : KcondSignal(t, c) \/ KcondBroadcast(t, c)
         \/ KcondSignalIsr(c) \/ KcondBroadcastIsr(c)
  PROVE  MutexInv'
<1>1. /\ UNCHANGED <<owner, counter, held, pc, mtx, cnd>>
      /\ waiting' = [waiting EXCEPT ![c] = waiting'[c]]
  BY DEF KcondSignal, KcondBroadcast, KcondSignalIsr, KcondBroadcastIsr,
         mutexVars, callVars, Unlinked, MutexInv, MutexTypes
<1>2. c \notin Mutexes
  BY DEF KernelAssumption
<1>3. MutexTypes'
  BY <1>1 DEF MutexInv, MutexTypes
<1>4. HoldersOwn' /\ MutualExclusion' /\ NoWaiterOnFreeMutex'
  <2>1. \A m \in Mutexes : waiting'[m] = waiting[m]
    BY <1>1, <1>2 DEF MutexInv, MutexTypes
  <2> QED
    BY <1>1, <2>1 DEF MutexInv, HoldersOwn, MutualExclusion, NoWaiterOnFreeMutex
<1>5. WaitersDoNotHold'
  BY <1>1 DEF MutexInv, WaitersDoNotHold
<1> QED
  BY <1>3, <1>4, <1>5 DEF MutexInv

(* A timer callback takes at most one waiter off a list.                   *)
LEMMA TimerFireKeepsMutexInv ==
  ASSUME MutexInv, NEW t \in Threads, KernelAssumption, TimerFire(t)
  PROVE  MutexInv'
<1>1. /\ UNCHANGED <<owner, counter, held, pc, mtx, cnd>>
      /\ \/ UNCHANGED waiting
         \/ waiting' = [waiting EXCEPT
                          ![FireList(t)] = Unlink(waiting[FireList(t)], t)]
  BY DEF TimerFire, mutexVars, callVars
<1>2. waiting' = [l \in Mutexes \cup Conds |-> waiting'[l]]
  BY <1>1 DEF MutexInv, MutexTypes
<1>3. \A m \in Mutexes : waiting[m] = <<>> => waiting'[m] = <<>>
  <2> SUFFICES ASSUME NEW m \in Mutexes, waiting[m] = <<>>
      PROVE  waiting'[m] = <<>>
      OBVIOUS
  <2>1. Unlink(<<>>, t) = <<>>
    BY DEF Unlink, Contains
  <2>2. DOMAIN waiting = Mutexes \cup Conds
    BY DEF MutexInv, MutexTypes
  <2>3. CASE FireList(t) = m
    BY <1>1, <2>1, <2>2, <2>3
  <2>4. CASE FireList(t) # m
    BY <1>1, <2>2, <2>4
  <2> QED
    BY <2>3, <2>4
<1>4. MutexTypes'
  BY <1>1, <1>2 DEF MutexInv, MutexTypes
<1>5. HoldersOwn' /\ MutualExclusion' /\ NoWaiterOnFreeMutex' /\ WaitersDoNotHold'
  BY <1>1, <1>3 DEF MutexInv, HoldersOwn, MutualExclusion, NoWaiterOnFreeMutex,
                    WaitersDoNotHold
<1> QED
  BY <1>4, <1>5 DEF MutexInv

(* The switch of kcond_wait_timeout goes from one wait place to another.   *)
LEMMA WaitSwitchKeepsMutexInv ==
  ASSUME MutexInv, NEW t \in Threads, KernelAssumption,
         KcondWaitTimeoutSwitch(t)
  PROVE  MutexInv'
<1>1. /\ UNCHANGED <<owner, counter, held, cnd, waiting>> /\ pc[t] = "condarm"
      /\ pc' = [pc EXCEPT ![t] = "condtimed"] /\ UNCHANGED mtx
  BY DEF KcondWaitTimeoutSwitch, At, Goto, mutexVars, MutexInv, MutexTypes
<1>2. MutexTypes'
  BY <1>1 DEF MutexInv, MutexTypes, PCs
<1>3. HoldersOwn' /\ MutualExclusion' /\ NoWaiterOnFreeMutex'
  BY <1>1 DEF MutexInv, HoldersOwn, MutualExclusion, NoWaiterOnFreeMutex
<1>4. WaitersDoNotHold'
  BY <1>1 DEF MutexInv, MutexTypes, WaitersDoNotHold, LockCalls, WaitCalls
<1> QED
  BY <1>2, <1>3, <1>4 DEF MutexInv

(* The steps of a thread's life, and the bracket of an interrupt.          *)
LEMMA LifeIsElsewhere ==
  ASSUME MutexInv, NEW t \in Threads, Life(t)
  PROVE  Elsewhere
<1> USE DEF mutexVars, callVars
<1>1. {"user", "newtls", "check", "yield", "join", "dead", "sleeparm", "sleep"}
        \subseteq OtherPlaces
  BY DEF OtherPlaces, PCs, Enabled, Arming, LockCalls, WaitCalls
<1>2. CASE \/ KthreadNewInit(t) \/ KthreadYield(t) \/ KthreadYieldSwitch(t)
           \/ KthreadExit(t) \/ KthreadJoinResume(t)
  BY <1>1, <1>2 DEF KthreadNewInit, KthreadYield, KthreadYieldSwitch,
     KthreadExit, KthreadJoinResume, Elsewhere
<1>3. CASE KthreadSleep(t) \/ KthreadSleepSwitch(t) \/ KthreadSleepResume(t)
  <2>1. PICK w \in {"sleeparm", "sleep", "user"} : Goto(t, w, None)
    BY <1>3 DEF KthreadSleep, KthreadSleepSwitch, KthreadSleepResume
  <2>2. pc'[t] \in OtherPlaces
    BY <1>1, <2>1 DEF Goto, MutexInv, MutexTypes
  <2>3. UNCHANGED <<owner, counter, held, waiting, cnd>>
    BY <1>3 DEF KthreadSleep, KthreadSleepSwitch, KthreadSleepResume
  <2> QED
    BY <1>1, <2>1, <2>2, <2>3 DEF Goto, Elsewhere
<1>4. ASSUME NEW u \in Threads,
             \/ KthreadNew(t, u) \/ KthreadSuspend(t, u) \/ KthreadResume(t, u)
             \/ KthreadDetach(t, u) \/ KthreadKill(t, u)
             \/ KthreadJoinExited(t, u) \/ KthreadJoinWait(t, u)
             \/ KthreadTryJoin(t, u) \/ \E p \in Pris : KthreadSetPri(t, u, p)
      PROVE  Elsewhere
  BY <1>1, <1>4 DEF KthreadNew, KthreadSuspend, KthreadResume, KthreadDetach,
     KthreadKill, KthreadJoinExited, KthreadJoinWait, KthreadTryJoin,
     KthreadSetPri, Elsewhere
<1> QED
  BY <1>2, <1>3, <1>4 DEF Life

(* Every step.                                                             *)
LEMMA NextKeepsMutexInv ==
  ASSUME MutexInv, KernelAssumption, Shallow, [Next]_vars
  PROVE  MutexInv'
<1>1. CASE UNCHANGED vars
  BY <1>1, ElsewhereKeepsMutexInv DEF vars, mutexVars, callVars, Elsewhere
<1>2. CASE KernelClose \/ Interrupt \/ InterruptEnd
  BY <1>2, ElsewhereKeepsMutexInv
     DEF KernelClose, Interrupt, InterruptEnd, mutexVars, callVars, Elsewhere
<1>3. ASSUME NEW t \in Threads, Life(t)
      PROVE  MutexInv'
  BY <1>3, LifeIsElsewhere, ElsewhereKeepsMutexInv
<1>4. ASSUME NEW t \in Threads, Sync(t)
      PROVE  MutexInv'
  BY <1>4, LockResumesKeepMutexInv, WaitSwitchKeepsMutexInv,
     LockCallsKeepMutexInv, UnlockKeepsMutexInv, CondWakesKeepMutexInv,
     CondWaitsKeepMutexInv DEF Sync
<1>5. CASE Handler
  BY <1>2, <1>5, TimerFireKeepsMutexInv, CondWakesKeepMutexInv DEF Handler
<1> QED
  BY <1>1, <1>2, <1>3, <1>4, <1>5 DEF Next

(* kernel_init.                                                            *)
LEMMA InitMutexInv ==
  ASSUME KernelAssumption, Init
  PROVE  MutexInv
BY DEF Init, KernelAssumption, MutexInv, MutexTypes, PCs, Enabled, HoldersOwn,
       WaitersDoNotHold, MutualExclusion, NoWaiterOnFreeMutex, LockCalls,
       WaitCalls

-----------------------------------------------------------------------------
(* A mutex belongs to the thread that was granted it: for any number of    *)
(* threads, mutexes and nested locks, whatever is preempted, killed or     *)
(* timed out, kmutex_lock, try_lock, unlock and the waits on condition     *)
(* variables never give it to two threads nor lose count of its locks.     *)
THEOREM MutualExclusionHolds ==
  ASSUME Shallow
  PROVE  Spec => []MutualExclusion
<1>1. Init => MutexInv
  BY KernelAssumption, InitMutexInv
<1>2. MutexInv /\ [Next]_vars => MutexInv'
  BY KernelAssumption, NextKeepsMutexInv
<1>3. MutexInv => MutualExclusion
  BY DEF MutexInv
<1> QED
  BY <1>1, <1>2, <1>3, PTL DEF Spec

(* Nobody is ever left on the waiting list of a mutex that no thread owns: *)
(* every unlock that frees a mutex makes all its waiters ready, and nobody *)
(* joins the list without an owner to wait for.                            *)
THEOREM NoWaiterIsLeftBehind ==
  ASSUME Shallow
  PROVE  Spec => []NoWaiterOnFreeMutex
<1>1. Init => MutexInv
  BY KernelAssumption, InitMutexInv
<1>2. MutexInv /\ [Next]_vars => MutexInv'
  BY KernelAssumption, NextKeepsMutexInv
<1>3. MutexInv => NoWaiterOnFreeMutex
  BY DEF MutexInv
<1> QED
  BY <1>1, <1>2, <1>3, PTL DEF Spec

-----------------------------------------------------------------------------
(***************************************************************************)
(* Theorems about the threads of the kernel: where each of them is linked, *)
(* which of them runs, and what happens to those that end.                 *)
(***************************************************************************)
Lists == Mutexes \cup Conds

(* The threads that only a timer refers to.                                *)
Sleepers == {t \in Threads : Asleep(t)}

Linked(u, r, w) == u \in Nodes(r) \/ \E l \in Lists : u \in Nodes(w[l])

(* The ready list r and the waiting lists w share no thread, and il is the *)
(* set of their threads and the sleeping ones, as.                         *)
Apart(r, w, il, as) ==
  /\ r \in Seq(Threads) /\ Once(r)
  /\ \A l \in Lists : w[l] \in Seq(Threads) /\ Once(w[l])
  /\ \A l \in Lists : Nodes(r) \cap Nodes(w[l]) = {}
  /\ \A l, k \in Lists : l # k => Nodes(w[l]) \cap Nodes(w[k]) = {}
  /\ as \subseteq il /\ il \subseteq Threads
  /\ \A u \in Threads : Linked(u, r, w) <=> u \in il \ as

(* The running thread is in a list only while it arms its timer (when it   *)
(* has joined the condition already or the timer has fired), nobody else   *)
(* arms one, and no handler runs then.                                     *)
RunningAlone ==
  /\ th_cur \in inlist <=>
       pc[th_cur] = "condarm" \/ (pc[th_cur] = "sleeparm" /\ th_cur \notin timer)
  /\ \A t \in Threads : pc[t] \in Arming => t = th_cur
  /\ isr => pc[th_cur] \in Enabled /\ ~closed

(* Who has a timer is in the call that started it.                         *)
TimersInCalls ==
  \A t \in timer :
    /\ pc[t] \in Arming \cup {"trylock", "condtimed", "sleep"}
    /\ pc[t] = "sleeparm" => t \notin inlist
    /\ ~Sleeps(t) => t \notin timeout

(* Nothing refers to a thread that was not created yet.                    *)
UnbornAside ==
  \A u \in Threads :
    life[u] = "unborn" => u \notin inlist \cup {th_cur} /\ pc[u] = "user"

(* A joiner is in no list until the thread it waits for has ended.         *)
JoinersAside ==
  /\ \A u \in Threads :
       joiner[u] # None /\ pc[u] # "dead" =>
         /\ pc[joiner[u]] = "join" /\ peer[joiner[u]] = u
         /\ joiner[u] \notin inlist \cup {th_cur}
  /\ \A t \in Threads :
       pc[t] = "join" => joiner[peer[t]] = t /\ life[peer[t]] # "unborn"
  /\ "kill" \in Calls => \A u \in Threads : joiner[u] = None

(* The idle thread is always there to run.                                 *)
IdleReady ==
  /\ Idle \notin suspended \cup waitforjoin /\ pc[Idle] = "user"
  /\ ~closed => Idle \notin zombie
  /\ th_cur = Idle \/ Idle \in Nodes(th_ready)

ThreadInv ==
  /\ TypeInv
  /\ Apart(th_ready, waiting, inlist, Sleepers)
  /\ RunningAlone /\ TimersInCalls /\ UnbornAside /\ JoinersAside /\ IdleReady


-----------------------------------------------------------------------------
(* Moving threads between the lists.                                       *)

(* A step that changes the ready list and one waiting list keeps the lists *)
(* apart if the threads new to the two were in no list.                    *)
LEMMA Relink ==
  ASSUME NEW r, NEW w, NEW il, NEW as, Apart(r, w, il, as),
         w \in [Lists -> Seq(Threads)],
         NEW l \in Lists, NEW r2 \in Seq(Threads), NEW x \in Seq(Threads),
         Once(r2), Once(x), Nodes(r2) \cap Nodes(x) = {},
         \A u \in Nodes(r2) \cup Nodes(x) :
           u \in Nodes(r) \cup Nodes(w[l]) \/ u \notin il \ as,
         NEW il2, NEW as2, as2 \subseteq il2, il2 \subseteq Threads,
         \A u \in Threads :
           u \in il2 \ as2 <=>
             \/ u \in Nodes(r2) \cup Nodes(x)
             \/ u \in il \ as /\ u \notin Nodes(r) \cup Nodes(w[l])
  PROVE  Apart(r2, [w EXCEPT ![l] = x], il2, as2)
<1> DEFINE w2 == [w EXCEPT ![l] = x]
<1>1. w2[l] = x /\ \A k \in Lists : k # l => w2[k] = w[k]
  OBVIOUS
<1>2. /\ \A k \in Lists : Once(w[k]) /\ w[k] \in Seq(Threads)
      /\ \A k \in Lists : Nodes(r) \cap Nodes(w[k]) = {}
      /\ \A j, k \in Lists : j # k => Nodes(w[j]) \cap Nodes(w[k]) = {}
      /\ \A u \in Threads : Linked(u, r, w) <=> u \in il \ as
  BY DEF Apart
<1>3. \A k \in Lists : Nodes(w[k]) \subseteq Threads
  BY <1>2 DEF Nodes
<1>4. Nodes(r2) \subseteq Threads /\ Nodes(x) \subseteq Threads
  BY DEF Nodes
<1>5. \A k \in Lists : k # l =>
        /\ Nodes(w[k]) \cap (Nodes(r) \cup Nodes(w[l])) = {}
        /\ Nodes(w[k]) \subseteq il \ as
  <2> SUFFICES ASSUME NEW k \in Lists, k # l, NEW u \in Nodes(w[k])
      PROVE  u \notin Nodes(r) \cup Nodes(w[l]) /\ u \in il \ as
      OBVIOUS
  <2>1. u \notin Nodes(r) \cup Nodes(w[l])
    BY <1>2
  <2>2. u \in Threads /\ Linked(u, r, w)
    BY <1>3 DEF Linked
  <2> QED BY <1>2, <2>1, <2>2
<1>6. \A k \in Lists : k # l => Nodes(w[k]) \cap (Nodes(r2) \cup Nodes(x)) = {}
  BY <1>5
<1> HIDE DEF w2
<1>7. \A k \in Lists : w2[k] \in Seq(Threads) /\ Once(w2[k])
  BY <1>1, <1>2
<1>8. \A k \in Lists : Nodes(r2) \cap Nodes(w2[k]) = {}
  BY <1>1, <1>6
<1>9. \A j, k \in Lists : j # k => Nodes(w2[j]) \cap Nodes(w2[k]) = {}
  <2> SUFFICES ASSUME NEW j \in Lists, NEW k \in Lists, j # k
      PROVE  Nodes(w2[j]) \cap Nodes(w2[k]) = {}
      OBVIOUS
  <2>1. CASE j = l
    BY <1>1, <1>6, <2>1
  <2>2. CASE k = l
    BY <1>1, <1>6, <2>2
  <2>3. CASE j # l /\ k # l
    BY <1>1, <1>2, <2>3
  <2> QED BY <2>1, <2>2, <2>3
<1>10. ASSUME NEW u \in Threads
       PROVE  Linked(u, r2, w2) <=> u \in il2 \ as2
  <2>1. Linked(u, r2, w2) <=>
          \/ u \in Nodes(r2) \cup Nodes(x)
          \/ \E k \in Lists : k # l /\ u \in Nodes(w[k])
    BY <1>1 DEF Linked
  <2>2. (\E k \in Lists : k # l /\ u \in Nodes(w[k])) =>
          u \in il \ as /\ u \notin Nodes(r) \cup Nodes(w[l])
    BY <1>5
  <2>3. u \in il \ as /\ u \notin Nodes(r) \cup Nodes(w[l]) =>
          \E k \in Lists : k # l /\ u \in Nodes(w[k])
    BY <1>2 DEF Linked
  <2> QED BY <2>1, <2>2, <2>3
<1> QED
  BY <1>7, <1>8, <1>9, <1>10 DEF Apart, w2

(* The same without a waiting list.                                        *)
LEMMA RelinkReady ==
  ASSUME NEW r, NEW w, NEW il, NEW as, Apart(r, w, il, as),
         NEW r2 \in Seq(Threads), Once(r2),
         \A u \in Nodes(r2) : u \in Nodes(r) \/ u \notin il \ as,
         NEW il2, NEW as2, as2 \subseteq il2, il2 \subseteq Threads,
         \A u \in Threads :
           u \in il2 \ as2 <=> u \in Nodes(r2) \/ (u \in il \ as /\ u \notin Nodes(r))
  PROVE  Apart(r2, w, il2, as2)
<1>1. /\ \A k \in Lists : Once(w[k]) /\ w[k] \in Seq(Threads)
      /\ \A k \in Lists : Nodes(r) \cap Nodes(w[k]) = {}
      /\ \A j, k \in Lists : j # k => Nodes(w[j]) \cap Nodes(w[k]) = {}
      /\ \A u \in Threads : Linked(u, r, w) <=> u \in il \ as
  BY DEF Apart
<1>2. \A k \in Lists : Nodes(w[k]) \subseteq Threads
  BY <1>1 DEF Nodes
<1>3. \A k \in Lists : Nodes(w[k]) \subseteq il \ as
  BY <1>1, <1>2 DEF Linked
<1>4. \A k \in Lists : Nodes(r2) \cap Nodes(w[k]) = {}
  BY <1>1, <1>3
<1>5. ASSUME NEW u \in Threads
      PROVE  Linked(u, r2, w) <=> u \in il2 \ as2
  BY <1>1, <1>3 DEF Linked
<1> QED
  BY <1>1, <1>4, <1>5 DEF Apart

(* What a list knows of its threads.                                       *)
LEMMA ApartNodes ==
  ASSUME NEW r, NEW w, NEW il, NEW as, Apart(r, w, il, as)
  PROVE  /\ Nodes(r) \subseteq il \ as /\ Nodes(r) \subseteq Threads
         /\ \A l \in Lists : Nodes(w[l]) \subseteq il \ as /\ Nodes(w[l]) \subseteq Threads
<1>1. Nodes(r) \subseteq Threads /\ \A l \in Lists : Nodes(w[l]) \subseteq Threads
  BY DEF Apart, Nodes
<1> QED
  BY <1>1 DEF Apart, Linked

(* __thlist_add_pri(&th_ready, t): t was in no list, or slept.             *)
LEMMA ReadyJoins ==
  ASSUME NEW r, NEW w, NEW il, NEW as, Apart(r, w, il, as), NEW P,
         NEW t \in Threads, t \notin il \/ t \in as
  PROVE  Apart(AddPri(r, t, P), w, il \cup {t}, as \ {t})
<1>1. r \in Seq(Threads) /\ Once(r) /\ as \subseteq il /\ il \subseteq Threads
  BY DEF Apart
<1>2. t \notin Nodes(r) /\ Nodes(r) \subseteq il \ as
  BY ApartNodes
<1>3. /\ AddPri(r, t, P) \in Seq(Threads) /\ Once(AddPri(r, t, P))
      /\ Nodes(AddPri(r, t, P)) = Nodes(r) \cup {t}
  BY <1>1, <1>2, AddPriLinks
<1>4. as \ {t} \subseteq il \cup {t} /\ il \cup {t} \subseteq Threads
  BY <1>1
<1>5. \A u \in Nodes(AddPri(r, t, P)) : u \in Nodes(r) \/ u \notin il \ as
  BY <1>3
<1>6. \A u \in Threads :
        u \in (il \cup {t}) \ (as \ {t}) <=>
          u \in Nodes(AddPri(r, t, P)) \/ (u \in il \ as /\ u \notin Nodes(r))
  BY <1>2, <1>3
<1> QED
  BY <1>3, <1>4, <1>5, <1>6, RelinkReady

(* t joins the waiting list l.                                             *)
LEMMA WaiterJoins ==
  ASSUME NEW r, NEW w, NEW il, NEW as, Apart(r, w, il, as), NEW P,
         w \in [Lists -> Seq(Threads)], NEW l \in Lists,
         NEW t \in Threads, t \notin il
  PROVE  Apart(r, [w EXCEPT ![l] = AddPri(w[l], t, P)], il \cup {t}, as)
<1> DEFINE x == AddPri(w[l], t, P)
<1>1. /\ r \in Seq(Threads) /\ Once(r) /\ as \subseteq il /\ il \subseteq Threads
      /\ w[l] \in Seq(Threads) /\ Once(w[l]) /\ Nodes(r) \cap Nodes(w[l]) = {}
  BY DEF Apart
<1>2. /\ t \notin Nodes(r) /\ t \notin Nodes(w[l])
      /\ Nodes(r) \subseteq il \ as /\ Nodes(w[l]) \subseteq il \ as
  BY ZenonT(40), ApartNodes
<1>3. x \in Seq(Threads) /\ Once(x) /\ Nodes(x) = Nodes(w[l]) \cup {t}
  BY <1>1, <1>2, AddPriLinks
<1> HIDE DEF x
<1>4. as \subseteq il \cup {t} /\ il \cup {t} \subseteq Threads
  BY <1>1
<1>5. Nodes(r) \cap Nodes(x) = {}
  BY <1>1, <1>2, <1>3
<1>6. \A u \in Nodes(r) \cup Nodes(x) :
        u \in Nodes(r) \cup Nodes(w[l]) \/ u \notin il \ as
  BY <1>3
<1>7. \A u \in Threads :
        u \in (il \cup {t}) \ as <=>
          \/ u \in Nodes(r) \cup Nodes(x)
          \/ u \in il \ as /\ u \notin Nodes(r) \cup Nodes(w[l])
  BY <1>1, <1>2, <1>3
<1>8. Apart(r, [w EXCEPT ![l] = x], il \cup {t}, as)
  BY <1>1, <1>3, <1>4, <1>5, <1>6, <1>7, Relink
<1> QED
  BY <1>8 DEF x

(* t is linked nowhere and only its timer knows it.                        *)
LEMMA SleeperJoins ==
  ASSUME NEW r, NEW w, NEW il, NEW as, Apart(r, w, il, as),
         NEW t \in Threads, t \notin il
  PROVE  Apart(r, w, il \cup {t}, as \cup {t})
BY DEF Apart

(* The head of waiting list l, and the others on it.                       *)
HeadOf(w, l) == Head(w[l])
RestOf(w, l) == Tail(w[l])

(* The head of a waiting list becomes ready.                               *)
LEMMA WaiterWakes ==
  ASSUME NEW r, NEW w, NEW il, NEW as, Apart(r, w, il, as), NEW P,
         w \in [Lists -> Seq(Threads)], NEW l \in Lists, w[l] # <<>>,
         NEW h, h = HeadOf(w, l), NEW x, x = RestOf(w, l)
  PROVE  /\ Apart(AddPri(r, h, P), [w EXCEPT ![l] = x], il, as)
         /\ h \in Threads
<1> DEFINE r2 == AddPri(r, h, P)
<1>1. /\ r \in Seq(Threads) /\ Once(r) /\ as \subseteq il /\ il \subseteq Threads
      /\ w[l] \in Seq(Threads) /\ Once(w[l]) /\ Nodes(r) \cap Nodes(w[l]) = {}
  BY DEF Apart
<1>2. /\ Nodes(r) \subseteq il \ as /\ Nodes(w[l]) \subseteq il \ as
  BY ZenonT(40), ApartNodes
<1>3. /\ h \in Nodes(w[l]) /\ h \in Threads
      /\ x \in Seq(Threads) /\ Once(x) /\ Nodes(x) = Nodes(w[l]) \ {h}
  BY <1>1, TailLinks DEF HeadOf, RestOf
<1>4. r2 \in Seq(Threads) /\ Nodes(r2) = Nodes(r) \cup {h}
      /\ (h \notin Nodes(r) => Once(r2))
  BY <1>1, <1>3, AddPriLinks
<1> HIDE DEF r2
<1>5. Once(r2) /\ Nodes(r2) \cap Nodes(x) = {}
  BY <1>1, <1>3, <1>4
<1>6. \A u \in Nodes(r2) \cup Nodes(x) :
        u \in Nodes(r) \cup Nodes(w[l]) \/ u \notin il \ as
  BY <1>3, <1>4
<1>7. \A u \in Threads :
        u \in il \ as <=>
          \/ u \in Nodes(r2) \cup Nodes(x)
          \/ u \in il \ as /\ u \notin Nodes(r) \cup Nodes(w[l])
  BY <1>2, <1>3, <1>4
<1>8. Apart(r2, [w EXCEPT ![l] = x], il, as)
  BY ZenonT(40), <1>1, <1>3, <1>4, <1>5, <1>6, <1>7, Relink
<1> QED
  BY <1>2, <1>3, <1>8 DEF r2

(* Everybody on a waiting list becomes ready.                              *)
LEMMA WaitersWake ==
  ASSUME NEW r, NEW w, NEW il, NEW as, Apart(r, w, il, as), NEW P,
         w \in [Lists -> Seq(Threads)], NEW l \in Lists
  PROVE  /\ Apart(Splice(r, w[l], P), [w EXCEPT ![l] = <<>>], il, as)
         /\ Nodes(r) \subseteq Nodes(Splice(r, w[l], P))
<1> DEFINE r2 == Splice(r, w[l], P)
           x == <<>>
<1>1. /\ r \in Seq(Threads) /\ Once(r) /\ as \subseteq il /\ il \subseteq Threads
      /\ w[l] \in Seq(Threads) /\ Once(w[l]) /\ Nodes(r) \cap Nodes(w[l]) = {}
  BY DEF Apart
<1>2. /\ Nodes(r) \subseteq il \ as /\ Nodes(w[l]) \subseteq il \ as
  BY ZenonT(40), ApartNodes
<1>3. r2 \in Seq(Threads) /\ Once(r2) /\ Nodes(r2) = Nodes(r) \cup Nodes(w[l])
  BY <1>1, SpliceLinks
<1>4. x \in Seq(Threads) /\ Once(x) /\ Nodes(x) = {}
  BY DEF Once, Nodes
<1> HIDE DEF x, r2
<1>5. Nodes(r2) \cap Nodes(x) = {}
  BY <1>4
<1>6. \A u \in Nodes(r2) \cup Nodes(x) :
        u \in Nodes(r) \cup Nodes(w[l]) \/ u \notin il \ as
  BY <1>3, <1>4
<1>7. \A u \in Threads :
        u \in il \ as <=>
          \/ u \in Nodes(r2) \cup Nodes(x)
          \/ u \in il \ as /\ u \notin Nodes(r) \cup Nodes(w[l])
  BY <1>2, <1>3, <1>4
<1>8. Apart(r2, [w EXCEPT ![l] = x], il, as)
  BY <1>1, <1>3, <1>4, <1>5, <1>6, <1>7, Relink
<1> QED
  BY <1>3, <1>8 DEF x, r2

(* A timer takes t off a waiting list and makes it ready.                  *)
LEMMA WaiterFires ==
  ASSUME NEW r, NEW w, NEW il, NEW as, Apart(r, w, il, as), NEW P,
         w \in [Lists -> Seq(Threads)], NEW l \in Lists,
         NEW t, t \in Nodes(w[l])
  PROVE  Apart(AddPri(r, t, P), [w EXCEPT ![l] = Unlink(w[l], t)], il, as)
<1> DEFINE x == Unlink(w[l], t)
           r2 == AddPri(r, t, P)
<1>1. /\ r \in Seq(Threads) /\ Once(r) /\ as \subseteq il /\ il \subseteq Threads
      /\ w[l] \in Seq(Threads) /\ Once(w[l]) /\ Nodes(r) \cap Nodes(w[l]) = {}
  BY DEF Apart
<1>2. /\ Nodes(r) \subseteq il \ as /\ Nodes(w[l]) \subseteq il \ as
      /\ t \in Threads
  BY ZenonT(40), ApartNodes
<1>3. x \in Seq(Threads) /\ Once(x) /\ Nodes(x) = Nodes(w[l]) \ {t}
  BY <1>1, UnlinkLinks
<1>4. r2 \in Seq(Threads) /\ Nodes(r2) = Nodes(r) \cup {t}
      /\ (t \notin Nodes(r) => Once(r2))
  BY <1>1, <1>2, AddPriLinks
<1> HIDE DEF x, r2
<1>5. Once(r2) /\ Nodes(r2) \cap Nodes(x) = {}
  BY <1>1, <1>3, <1>4
<1>6. \A u \in Nodes(r2) \cup Nodes(x) :
        u \in Nodes(r) \cup Nodes(w[l]) \/ u \notin il \ as
  BY <1>3, <1>4
<1>7. \A u \in Threads :
        u \in il \ as <=>
          \/ u \in Nodes(r2) \cup Nodes(x)
          \/ u \in il \ as /\ u \notin Nodes(r) \cup Nodes(w[l])
  BY <1>2, <1>3, <1>4
<1>8. Apart(r2, [w EXCEPT ![l] = x], il, as)
  BY <1>1, <1>3, <1>4, <1>5, <1>6, <1>7, Relink
<1> QED
  BY <1>8 DEF x, r2

(* The scheduler takes the first k threads off the ready list.             *)
LEMMA ReadyPops ==
  ASSUME NEW r, NEW w, NEW il, NEW as, Apart(r, w, il, as),
         NEW k \in 1 .. Len(r)
  PROVE  /\ Apart(SubSeq(r, k + 1, Len(r)), w, il \ {r[i] : i \in 1 .. k}, as)
         /\ Nodes(SubSeq(r, k + 1, Len(r))) = Nodes(r) \ {r[i] : i \in 1 .. k}
<1> DEFINE r2 == SubSeq(r, k + 1, Len(r))
           gone == {r[i] : i \in 1 .. k}
<1>1. r \in Seq(Threads) /\ Once(r) /\ as \subseteq il /\ il \subseteq Threads
  BY DEF Apart
<1>2. Nodes(r) \subseteq il \ as
  BY ApartNodes
<1>3. /\ r2 \in Seq(Threads) /\ Nodes(r2) = Nodes(r) \ gone
      /\ Once(r2)
  BY <1>1, RestLinks
<1>4. gone \subseteq Nodes(r)
  <2>1. \A i \in 1 .. k : i \in 1 .. Len(r)
    BY <1>1
  <2> QED BY <2>1 DEF Nodes
<1> HIDE DEF r2, gone
<1>5. as \subseteq il \ gone /\ il \ gone \subseteq Threads
  BY <1>1, <1>2, <1>4
<1>6. \A u \in Nodes(r2) : u \in Nodes(r) \/ u \notin il \ as
  BY <1>3
<1>7. \A u \in Threads :
        u \in (il \ gone) \ as <=>
          u \in Nodes(r2) \/ (u \in il \ as /\ u \notin Nodes(r))
  BY <1>2, <1>3, <1>4
<1>8. Apart(r2, w, il \ gone, as)
  BY <1>3, <1>5, <1>6, <1>7, RelinkReady
<1> QED
  BY <1>3, <1>8 DEF r2, gone

-----------------------------------------------------------------------------
(* The scheduler.                                                          *)

(* The threads it chooses from, and those in some list then.               *)
AfterPark(il, syscall) ==
  IF Parkable /\ ~syscall THEN il \cup {th_cur} ELSE il

(* What every switch achieves when the idle thread is there to fall back   *)
(* to: the lists stay apart, the thread that runs leaves them and may run, *)
(* and who is taken off unrun may not.                                     *)
Switched(w, il, as, syscall) ==
  /\ Apart(th_ready', w, inlist', as)
  /\ th_cur' \in Threads
  /\ th_cur' \notin inlist' /\ th_cur' \notin waitforjoin' \cup suspended'
  /\ th_cur' \in AfterPark(il, syscall) \ as
  /\ inlist' \subseteq AfterPark(il, syscall)
  /\ \A u \in AfterPark(il, syscall) :
       u \in inlist' \cup {th_cur'} \cup waitforjoin' \cup suspended'
  /\ th_cur' = Idle \/ Idle \in Nodes(th_ready')
  /\ IF th_cur \in zombie' THEN Free(th_cur) ELSE UNCHANGED <<life, all_threads>>

(* What the scheduler does as long as the idle thread is ready.            *)
LEMMA ScheduleSwitches ==
  ASSUME TypeInv, NEW r, NEW w, NEW il, NEW as, NEW syscall \in BOOLEAN, NEW ok,
         Apart(r, w, il, as), Schedule(r, il, syscall, ok),
         syscall \/ th_cur \notin il,
         Idle \notin waitforjoin' \cup suspended',
         Idle \in Nodes(r) \/ (th_cur = Idle /\ ~syscall /\ Parkable)
  PROVE  /\ Switched(w, il, as, syscall)
         /\ panic' => \/ Debug /\ ~(ok /\ ParkAsserts(il, syscall))
                      \/ FreeCrashes
<1> DEFINE s == Parked(r, syscall)
           il1 == AfterPark(il, syscall)
           k == NextAt(s)
           gone == {s[i] : i \in 1 .. k}
<1>1. th_cur \in Threads
  BY DEF TypeInv, TypeOK
<1>2. Apart(s, w, il1, as) /\ Idle \in Nodes(s)
  <2>1. CASE Parkable /\ ~syscall
    <3>1. th_cur \notin as /\ r \in Seq(Threads) /\ th_cur \notin il
      BY <2>1 DEF Apart
    <3>2. Apart(AddPri(r, th_cur, pri'), w, il \cup {th_cur}, as \ {th_cur})
      BY <1>1, <3>1, ReadyJoins
    <3>3. as \ {th_cur} = as
      BY <3>1
    <3>4. Nodes(AddPri(r, th_cur, pri')) = Nodes(r) \cup {th_cur}
      BY <1>1, <3>1, AddPriLinks
    <3>5. s = AddPri(r, th_cur, pri') /\ il1 = il \cup {th_cur}
      BY <2>1 DEF Parked, AfterPark
    <3>6. Idle \in Nodes(r) \cup {th_cur}
      OBVIOUS
    <3> QED BY <3>2, <3>3, <3>4, <3>5, <3>6
  <2>2. CASE ~(Parkable /\ ~syscall)
    BY <2>2 DEF Parked, AfterPark
  <2> QED BY <2>1, <2>2
<1>3. /\ panic' = (\/ Debug /\ ~(ok /\ ParkAsserts(il, syscall))
                   \/ Runnable(s) = {} \/ FreeCrashes)
      /\ IF Runnable(s) = {}
         THEN th_cur' = th_cur /\ th_ready' = s /\ inlist' = il1
         ELSE /\ th_cur' = s[k]
              /\ th_ready' = SubSeq(s, k + 1, Len(s))
              /\ inlist' = il1 \ gone
      /\ IF th_cur \in zombie' THEN Free(th_cur)
                               ELSE UNCHANGED <<life, all_threads>>
  BY DEF Schedule, AfterPark
<1> HIDE DEF s, il1
<1>4. PICK n \in 1 .. Len(s) : s[n] = Idle
  BY <1>2 DEF Nodes
<1>5. n \in Runnable(s)
  BY <1>4 DEF Runnable
<1>6. k \in Runnable(s) /\ \A j \in Runnable(s) : k <= j
  <2>1. Runnable(s) \in SUBSET Nat
    BY DEF Runnable
  <2>2. \E i \in Runnable(s) : \A j \in Runnable(s) : i <= j
    BY <1>5, <2>1, MinNat
  <2> QED BY <2>2 DEF NextAt
<1> HIDE DEF k
<1>7. k \in 1 .. Len(s) /\ s[k] \notin waitforjoin' \cup suspended' /\ k <= n
      /\ Len(s) \in Nat /\ s \in Seq(Threads) /\ Once(s)
  BY <1>2, <1>5, <1>6 DEF Runnable, Apart
<1>8. /\ th_cur' = s[k] /\ th_ready' = SubSeq(s, k + 1, Len(s))
      /\ inlist' = il1 \ gone
  BY <1>3, <1>5
<1>9. /\ Apart(th_ready', w, inlist', as)
      /\ Nodes(th_ready') = Nodes(s) \ gone
  BY <1>2, <1>7, <1>8, ReadyPops
<1>10. th_cur' \in gone /\ th_cur' \in Nodes(s) /\ th_cur' \in Threads
  BY <1>7, <1>8 DEF Nodes
<1>11. th_cur' \in il1 \ as
  BY ZenonT(40), <1>2, <1>10, ApartNodes
<1>12. th_cur' = Idle \/ Idle \in Nodes(th_ready')
  <2>1. CASE n = k
    BY <1>4, <1>8, <2>1
  <2>2. CASE n # k
    <3>1. \A i \in 1 .. k : i \in 1 .. Len(s) /\ i # n
      BY <1>4, <1>7, <2>2
    <3>2. Idle \notin gone
      BY <1>4, <1>7, <3>1 DEF Once
    <3> QED BY <1>2, <1>9, <3>2
  <2> QED BY <2>1, <2>2
<1>13. \A u \in il1 : u \in inlist' \cup {th_cur'} \cup waitforjoin' \cup suspended'
  <2> SUFFICES ASSUME NEW u \in gone, u # th_cur'
      PROVE  u \in waitforjoin' \cup suspended'
      BY <1>8
  <2>1. PICK i \in 1 .. k : u = s[i]
    OBVIOUS
  <2>2. i # k /\ i \in 1 .. Len(s) /\ ~(k <= i)
    BY <1>7, <1>8, <2>1
  <2>3. i \notin Runnable(s)
    BY <1>6, <2>2
  <2> QED BY <2>1, <2>2, <2>3 DEF Runnable
<1>14. th_cur' \notin inlist' /\ inlist' \subseteq il1
  BY <1>8, <1>10
<1>15. Switched(w, il, as, syscall)
  BY <1>3, <1>7, <1>8, <1>9, <1>10, <1>11, <1>12, <1>13, <1>14 DEF Switched, il1
<1> QED
  BY <1>3, <1>5, <1>15

-----------------------------------------------------------------------------
(* What a step does to the threads that are linked, sleep or run: none of  *)
(* them disappears without a reason, and none joins them but a new thread  *)
(* and the joiner of one that ends.                                        *)
Kept ==
  /\ th_cur' # th_cur => th_cur' \notin waitforjoin' \cup suspended'
  /\ \A u \in inlist \cup {th_cur} :
       \/ u \in inlist' \cup {th_cur'} \cup waitforjoin' \cup suspended' \cup zombie'
       \/ pc'[u] \in {"join", "dead"} /\ pc'[u] # pc[u]
  /\ \A u \in inlist' \cup {th_cur'} :
       \/ u \in inlist \cup {th_cur} \/ (life[u] = "unborn" /\ life'[u] = "live")
       \/ pc[th_cur] # "dead" /\ pc'[th_cur] = "dead" /\ u = joiner[th_cur]
  /\ pc[th_cur] # "dead" /\ pc'[th_cur] = "dead" =>
       /\ th_cur \notin inlist' \cup {th_cur'}
       /\ WakesJoiner(th_cur) =>
            joiner[th_cur] \in inlist' \cup {th_cur'} \cup waitforjoin' \cup suspended'
  /\ \A u \in Threads : life[u] = "unborn" /\ life'[u] # "unborn" => u \in inlist'
  /\ isr /\ life' # life => th_cur \notin inlist' \cup {th_cur'}

(* What a thread that runs may rely on.                                    *)
LEMMA RunnerFacts ==
  ASSUME ThreadInv, NEW t \in Threads, Runs(t)
  PROVE  /\ t = th_cur /\ t # Idle /\ ~isr
         /\ Idle \in Nodes(th_ready)
         /\ pc[t] \notin {"condarm", "sleeparm"} => t \notin inlist
         /\ \A u \in Threads : u # t => pc[u] \notin Arming
         /\ \A u \in Threads : joiner[u] # None /\ pc[u] # "dead" => joiner[u] # t
         /\ life[t] # "unborn"
         /\ pc[t] \in {"condarm", "sleeparm"} \/ t \notin Sleepers
<1>1. /\ t = th_cur /\ t # Idle /\ ~isr
  BY DEF Runs
<1>2. Idle \in Nodes(th_ready)
  BY <1>1 DEF ThreadInv, IdleReady
<1>3. pc[t] \notin {"condarm", "sleeparm"} => t \notin inlist
  BY <1>1 DEF ThreadInv, RunningAlone
<1>4. \A u \in Threads : u # t => pc[u] \notin Arming
  BY <1>1 DEF ThreadInv, RunningAlone
<1>5. \A u \in Threads : joiner[u] # None /\ pc[u] # "dead" => joiner[u] # t
  BY <1>1 DEF ThreadInv, JoinersAside
<1>6. life[t] # "unborn"
  BY <1>1 DEF ThreadInv, UnbornAside
<1>7. pc[t] \in {"condarm", "sleeparm"} \/ t \notin Sleepers
  BY <1>3 DEF ThreadInv, Apart
<1> QED
  BY <1>1, <1>2, <1>3, <1>4, <1>5, <1>6, <1>7

(* What a step of the running thread t that switches nothing leaves of the *)
(* other threads: it goes to `where', and only its own timer may change.   *)
Stays(t, where) ==
  /\ UNCHANGED <<th_cur, inlist, joiner, isr>>
  /\ pc' = [pc EXCEPT ![t] = where] /\ where \in Enabled \cup {"tryarm", "sleeparm"}
  /\ UNCHANGED peer \/ \E u \in Threads \cup {None} : peer' = [peer EXCEPT ![t] = u]
  /\ timer' \ {t} = timer \ {t} /\ timeout' \ {t} = timeout \ {t}
  /\ where = "sleeparm" => t \in timer'
  /\ t \in timer' => where \in Arming /\ (t \notin timeout' \/ where = "sleeparm")
  /\ \A u \in Threads : life'[u] = "unborn" <=> life[u] = "unborn"
  /\ Idle \notin suspended' \cup waitforjoin'
  /\ ~closed' => Idle \notin zombie'

(* A step that switches nothing.                                           *)
LEMMA StayKeepsInv ==
  ASSUME KernelAssumption, ThreadInv, TypeInv', NEW t \in Threads, Runs(t),
         pc[t] \notin {"condarm", "sleeparm", "dead"}, NEW where, Stays(t, where),
         Apart(th_ready', waiting', inlist, Sleepers),
         Idle \in Nodes(th_ready')
  PROVE  ThreadInv' /\ Kept
<1>1. /\ t = th_cur /\ t # Idle /\ ~isr /\ t \notin inlist /\ t \notin Sleepers
      /\ \A u \in Threads : u # t => pc[u] \notin Arming
      /\ \A u \in Threads : joiner[u] # None /\ pc[u] # "dead" => joiner[u] # t
      /\ life[t] # "unborn"
  BY RunnerFacts
<1>2. /\ pc \in [Threads -> PCs] /\ peer \in [Threads -> Threads \cup {None}]
      /\ joiner \in [Threads -> Threads \cup {None}] /\ timer \subseteq Threads
      /\ timer' \subseteq Threads
  BY DEF ThreadInv, TypeInv, TypeOK
<1>3. /\ pc'[t] = where /\ where \in Enabled \cup {"tryarm", "sleeparm"}
      /\ \A u \in Threads : u # t => pc'[u] = pc[u] /\ peer'[u] = peer[u]
  BY <1>2 DEF Stays
<1>4. where \notin {"join", "dead", "sleep", "trylock", "condtimed"}
  BY <1>3 DEF Enabled, Arming
<1>5. Apart(th_ready', waiting', inlist', Sleepers')
  <2>1. \A u \in Threads : u \in Sleepers' <=> u \in Sleepers
    BY <1>1, <1>3, <1>4 DEF Sleepers, Asleep, Stays
  <2>2. Sleepers' = Sleepers
    BY <2>1 DEF Sleepers
  <2> QED BY <2>2 DEF Stays
<1>6. RunningAlone'
  <2>1. th_cur' = t /\ isr' = isr /\ inlist' = inlist
    BY <1>1 DEF Stays
  <2>2. t \notin inlist'
    BY <1>1, <2>1
  <2>3. \A u \in Threads : pc'[u] \in Arming => u = th_cur'
    BY <1>1, <1>3, <2>1
  <2>4. pc'[t] # "condarm" /\ (pc'[t] = "sleeparm" => t \in timer')
    BY <1>3 DEF Stays, Enabled
  <2> QED BY <1>1, <2>1, <2>2, <2>3, <2>4 DEF RunningAlone
<1>7. TimersInCalls'
  <2> SUFFICES ASSUME NEW u \in timer'
      PROVE  /\ pc'[u] \in Arming \cup {"trylock", "condtimed", "sleep"}
             /\ pc'[u] = "sleeparm" => u \notin inlist'
             /\ pc'[u] \notin {"sleeparm", "sleep"} => u \notin timeout'
      BY DEF TimersInCalls, Sleeps
  <2>1. CASE u = t
    BY <1>1, <1>3, <2>1 DEF Stays
  <2>2. CASE u # t
    <3>1. u \in timer /\ u \in Threads /\ pc'[u] = pc[u]
          /\ (u \in timeout' <=> u \in timeout) /\ inlist' = inlist
      BY <1>2, <1>3, <2>2 DEF Stays
    <3>2. /\ pc[u] \in Arming \cup {"trylock", "condtimed", "sleep"}
          /\ pc[u] = "sleeparm" => u \notin inlist
          /\ pc[u] \notin {"sleeparm", "sleep"} => u \notin timeout
      BY <3>1 DEF ThreadInv, TimersInCalls, Sleeps
    <3> QED BY <3>1, <3>2
  <2> QED BY <2>1, <2>2
<1>8. UnbornAside'
  BY <1>1, <1>2, <1>3 DEF ThreadInv, UnbornAside, Stays
<1>9. JoinersAside'
  <2>1. ASSUME NEW u \in Threads, joiner'[u] # None, pc'[u] # "dead"
        PROVE  /\ pc'[joiner'[u]] = "join" /\ peer'[joiner'[u]] = u
               /\ joiner'[u] \notin inlist' \cup {th_cur'}
    <3>1. joiner'[u] = joiner[u] /\ joiner[u] \in Threads
      BY <1>2, <2>1 DEF Stays
    <3>2. CASE pc[u] # "dead"
      <4>1. /\ pc[joiner[u]] = "join" /\ peer[joiner[u]] = u
            /\ joiner[u] \notin inlist \cup {th_cur}
        BY <2>1, <3>1, <3>2 DEF ThreadInv, JoinersAside
      <4> QED BY <1>1, <1>3, <3>1, <4>1 DEF Stays
    <3>3. CASE pc[u] = "dead"
      BY <1>3, <2>1, <3>3
    <3> QED BY <3>2, <3>3
  <2>2. ASSUME NEW u \in Threads, pc'[u] = "join"
        PROVE  joiner'[peer'[u]] = u /\ life'[peer'[u]] # "unborn"
    <3>1. u # t /\ pc[u] = "join" /\ peer'[u] = peer[u]
      BY <1>3, <1>4, <2>2
    <3>2. peer[u] \in Threads
      BY <1>2, <3>1 DEF ThreadInv, TypeInv, CallObjects
    <3>3. joiner[peer[u]] = u /\ life[peer[u]] # "unborn"
      BY <3>1 DEF ThreadInv, JoinersAside
    <3> QED BY <3>1, <3>2, <3>3 DEF Stays
  <2>3. "kill" \in Calls => \A u \in Threads : joiner'[u] = None
    BY DEF ThreadInv, JoinersAside, Stays
  <2> QED BY <2>1, <2>2, <2>3 DEF JoinersAside
<1>10. IdleReady'
  <2>1. pc'[Idle] = "user"
    BY <1>1, <1>3 DEF KernelAssumption, ThreadInv, IdleReady
  <2> QED BY <2>1 DEF IdleReady, Stays
<1>11. Kept
  <2>1. pc[th_cur] # "dead" /\ pc'[th_cur] # "dead"
    BY <1>1, <1>3, <1>4
  <2>2. UNCHANGED <<th_cur, inlist>> /\ ~isr
        /\ \A u \in Threads : life'[u] = "unborn" <=> life[u] = "unborn"
    BY <1>1 DEF Stays
  <2> QED BY <2>1, <2>2 DEF Kept
<1> QED
  BY <1>5, <1>6, <1>7, <1>8, <1>9, <1>10, <1>11 DEF ThreadInv

(* The running thread goes to `where' and switches; it is in a list then,  *)
(* or only its timer knows it.                                             *)
Leaves(t, where) ==
  /\ UNCHANGED <<flagVars, isr>> /\ UNCHANGED peer
  /\ pc' = [pc EXCEPT ![t] = where]
  /\ where \in {"user", "lock", "trylock", "condwait", "condtimed", "sleep"}
  /\ timer' \ {t} = timer \ {t} /\ timeout' \ {t} = timeout \ {t}
  /\ t \in timer' => /\ where \in {"trylock", "condtimed", "sleep"}
                     /\ where # "sleep" => t \notin timeout'

(* KTHREAD_SWITCH by a thread that is linked or sleeps.                    *)
LEMMA LeaveKeepsInv ==
  ASSUME KernelAssumption, ThreadInv, TypeInv', NEW t \in Threads, Runs(t),
         pc[t] # "dead", NEW where, Leaves(t, where),
         NEW r, NEW ok, Apart(r, waiting', inlist \cup {t}, Sleepers'),
         Idle \in Nodes(r), Switch(r, inlist \cup {t}, ok)
  PROVE  /\ ThreadInv' /\ Kept
         /\ panic' => \/ Debug /\ ~ok
                      \/ FreeCrashes \/ t \in zombie \cup waitforjoin
<1>1. /\ t = th_cur /\ t # Idle /\ ~isr
      /\ Idle \in Nodes(th_ready)
      /\ \A u \in Threads : u # t => pc[u] \notin Arming
      /\ \A u \in Threads : joiner[u] # None /\ pc[u] # "dead" => joiner[u] # t
      /\ life[t] # "unborn"
  BY RunnerFacts
<1>2. /\ pc \in [Threads -> PCs] /\ peer \in [Threads -> Threads \cup {None}]
      /\ joiner \in [Threads -> Threads \cup {None}] /\ timer \subseteq Threads
      /\ life \in [Threads -> {"unborn", "live", "freed"}]
      /\ timer' \subseteq Threads /\ inlist \subseteq Threads
  BY DEF ThreadInv, TypeInv, TypeOK
<1>3. /\ pc'[t] = where
      /\ \A u \in Threads : u # t => pc'[u] = pc[u]
      /\ \A u \in Threads : pc'[u] = "dead" <=> pc[u] = "dead"
  BY <1>2 DEF Leaves
<1>4. /\ where \notin {"join", "dead"} \cup Arming
      /\ joiner' = joiner /\ peer' = peer /\ isr' = isr /\ closed' = closed
      /\ zombie' = zombie /\ suspended' = suspended /\ waitforjoin' = waitforjoin
  BY DEF Leaves, Arming, flagVars
<1>5. /\ Switched(waiting', inlist \cup {t}, Sleepers', TRUE)
      /\ panic' => \/ Debug /\ ~(ok /\ ParkAsserts(inlist \cup {t}, TRUE))
                   \/ FreeCrashes
  <2>1. Schedule(r, inlist \cup {t}, TRUE, ok)
    BY DEF Switch
  <2>2. Idle \notin waitforjoin' \cup suspended'
    BY <1>4 DEF ThreadInv, IdleReady
  <2> QED BY <2>1, <2>2, ScheduleSwitches DEF ThreadInv
<1>6. /\ Apart(th_ready', waiting', inlist', Sleepers')
      /\ th_cur' \in Threads /\ th_cur' \notin inlist'
      /\ th_cur' \notin waitforjoin' \cup suspended'
      /\ th_cur' \in (inlist \cup {t}) \ Sleepers' /\ inlist' \subseteq inlist \cup {t}
      /\ \A u \in inlist \cup {t} :
           u \in inlist' \cup {th_cur'} \cup waitforjoin' \cup suspended'
      /\ th_cur' = Idle \/ Idle \in Nodes(th_ready')
      /\ IF th_cur \in zombie' THEN Free(th_cur) ELSE UNCHANGED <<life, all_threads>>
  BY <1>5 DEF Switched, AfterPark
<1>7. \A u \in Threads : life'[u] = "unborn" <=> life[u] = "unborn"
  BY <1>1, <1>2, <1>6 DEF Free
<1>8. RunningAlone'
  <2>1. \A u \in Threads : pc'[u] \notin Arming
    BY <1>1, <1>3, <1>4
  <2>2. ~isr'
    BY <1>1, <1>4
  <2>3. pc'[th_cur'] \notin {"condarm", "sleeparm"}
    BY <1>6, <2>1 DEF Arming
  <2> QED BY <1>6, <2>1, <2>2, <2>3 DEF RunningAlone
<1>9. TimersInCalls'
  <2> SUFFICES ASSUME NEW u \in timer'
      PROVE  /\ pc'[u] \in Arming \cup {"trylock", "condtimed", "sleep"}
             /\ pc'[u] = "sleeparm" => u \notin inlist'
             /\ pc'[u] \notin {"sleeparm", "sleep"} => u \notin timeout'
      BY DEF TimersInCalls, Sleeps
  <2>1. CASE u = t
    BY <1>1, <1>3, <1>4, <2>1 DEF Leaves, Arming
  <2>2. CASE u # t
    <3>1. u \in timer /\ u \in Threads /\ pc'[u] = pc[u]
          /\ (u \in timeout' <=> u \in timeout)
      BY <1>2, <1>3, <2>2 DEF Leaves
    <3>2. /\ pc[u] \in Arming \cup {"trylock", "condtimed", "sleep"}
          /\ pc[u] # "sleeparm"
          /\ pc[u] \notin {"sleeparm", "sleep"} => u \notin timeout
      BY <1>1, <2>2, <3>1 DEF ThreadInv, TimersInCalls, Sleeps, Arming
    <3> QED BY <3>1, <3>2
  <2> QED BY <2>1, <2>2
<1>10. UnbornAside'
  BY <1>1, <1>3, <1>6, <1>7 DEF ThreadInv, UnbornAside
<1>11. JoinersAside'
  <2>1. ASSUME NEW u \in Threads, joiner[u] # None, pc[u] # "dead"
        PROVE  /\ pc'[joiner[u]] = "join" /\ peer[joiner[u]] = u
               /\ joiner[u] \notin inlist' \cup {th_cur'}
    <3>1. joiner[u] \in Threads /\ joiner[u] # t
      BY <1>1, <1>2, <2>1
    <3>2. /\ pc[joiner[u]] = "join" /\ peer[joiner[u]] = u
          /\ joiner[u] \notin inlist \cup {th_cur}
      BY <2>1 DEF ThreadInv, JoinersAside
    <3> QED BY <1>3, <1>6, <3>1, <3>2
  <2>2. ASSUME NEW u \in Threads, pc'[u] = "join"
        PROVE  joiner[peer[u]] = u /\ life'[peer[u]] # "unborn"
    <3>1. u # t /\ pc[u] = "join"
      BY <1>3, <1>4, <2>2
    <3>2. peer[u] \in Threads
      BY <1>2, <3>1 DEF ThreadInv, TypeInv, CallObjects
    <3>3. joiner[peer[u]] = u /\ life[peer[u]] # "unborn"
      BY <3>1 DEF ThreadInv, JoinersAside
    <3> QED BY <1>7, <3>2, <3>3
  <2>3. "kill" \in Calls => \A u \in Threads : joiner[u] = None
    BY DEF ThreadInv, JoinersAside
  <2> QED BY <1>3, <1>4, <2>1, <2>2, <2>3 DEF JoinersAside
<1>12. IdleReady'
  <2>1. pc'[Idle] = "user"
    BY <1>1, <1>3 DEF KernelAssumption, ThreadInv, IdleReady
  <2> QED BY <1>4, <1>6, <2>1 DEF IdleReady, ThreadInv
<1>13. Kept
  <2>1. pc[th_cur] # "dead" /\ pc'[th_cur] # "dead" /\ ~isr
    BY <1>1, <1>3, <1>4
  <2> QED BY <1>1, <1>6, <1>7, <2>1 DEF Kept
<1>14. panic' => (Debug /\ ~ok) \/ FreeCrashes \/ t \in zombie \cup waitforjoin
  BY <1>1, <1>4, <1>5 DEF ParkAsserts
<1> QED
  BY <1>6, <1>8, <1>9, <1>10, <1>11, <1>12, <1>13, <1>14 DEF ThreadInv

-----------------------------------------------------------------------------
(* Calls that do not switch, and the life of a thread.                     *)

(* A running thread has a timer only in a call with a timeout.             *)
LEMMA NoTimer ==
  ASSUME ThreadInv, NEW t \in Threads, Runs(t),
         pc[t] \in Enabled \cup {"join", "lock", "condwait", "sleep"}
  PROVE  t \notin timer
<1>1. pc[t] \notin Arming \cup {"trylock", "condtimed"}
  BY DEF Enabled, Arming
<1>2. pc[t] = "sleep" => t \notin timer
  <2>1. t \notin Sleepers
    BY <1>1, RunnerFacts DEF Arming
  <2> QED BY <2>1 DEF Sleepers, Asleep
<1> QED
  BY <1>1, <1>2 DEF ThreadInv, TimersInCalls

(* A call that leaves the lists and the timers alone, or starts to sleep.  *)
LEMMA QuietKeepsInv ==
  ASSUME KernelAssumption, ThreadInv, TypeInv', NEW t \in Threads, Runs(t),
         pc[t] \in Enabled \cup {"join", "sleep"}, NEW where, where \in Enabled \cup {"sleeparm"},
         UNCHANGED <<th_cur, th_ready, inlist, joiner, isr, waiting>>,
         pc' = [pc EXCEPT ![t] = where],
         UNCHANGED peer \/ \E u \in Threads \cup {None} : peer' = [peer EXCEPT ![t] = u],
         UNCHANGED timeout, timer' = IF where = "sleeparm" THEN timer \cup {t} ELSE timer,
         \A u \in Threads : life'[u] = "unborn" <=> life[u] = "unborn",
         Idle \notin suspended' \cup waitforjoin', ~closed' => Idle \notin zombie'
  PROVE  ThreadInv' /\ Kept
<1>1. t \notin timer
  BY NoTimer
<1>2. Stays(t, where)
  BY <1>1 DEF Stays, Arming, Enabled
<1>3. pc[t] \notin {"condarm", "sleeparm", "dead"}
  BY DEF Enabled
<1>4. Apart(th_ready', waiting', inlist, Sleepers) /\ Idle \in Nodes(th_ready')
  BY RunnerFacts DEF ThreadInv
<1> QED
  BY <1>2, <1>3, <1>4, StayKeepsInv

(* The calls of Life that are like that.                                   *)
QuietLife(t) ==
  \/ KthreadNewInit(t) \/ KthreadYield(t) \/ KthreadJoinResume(t)
  \/ KthreadSleep(t) \/ KthreadSleepResume(t)
  \/ \E u \in Threads :
       \/ KthreadSuspend(t, u) \/ KthreadResume(t, u) \/ KthreadDetach(t, u)
       \/ KthreadJoinExited(t, u) \/ KthreadTryJoin(t, u)
       \/ \E p \in Pris : KthreadSetPri(t, u, p)

(* None of these breaks the invariant.                                     *)
LEMMA QuietLifeKeepsInv ==
  ASSUME KernelAssumption, ThreadInv, TypeInv', NEW t \in Threads, QuietLife(t)
  PROVE  ThreadInv' /\ Kept
<1>0. /\ pc \in [Threads -> PCs] /\ life \in [Threads -> {"unborn", "live", "freed"}]
  BY DEF ThreadInv, TypeInv, TypeOK
<1>1. /\ Idle \notin suspended \cup waitforjoin
      /\ ~closed => Idle \notin zombie
  BY DEF ThreadInv, IdleReady
<1> USE DEF Enabled, Caller, At, CallerOn, runVars, flagVars, timerVars, isrVars, callVars
<1>2. CASE KthreadNewInit(t)
  <2> DEFINE where == IF pri[peer[t]] >= pri[t] THEN "check" ELSE "user"
  <2>1. /\ Runs(t) /\ pc[t] \in Enabled \cup {"join", "sleep"} /\ where \in Enabled
        /\ pc' = [pc EXCEPT ![t] = where]
    BY <1>2 DEF KthreadNewInit
  <2>2. peer' = [peer EXCEPT ![t] = None]
    BY <1>2 DEF KthreadNewInit
  <2>3. /\ UNCHANGED <<th_cur, th_ready, inlist, joiner, isr, waiting, life, timer, timeout>>
        /\ UNCHANGED <<suspended, waitforjoin, zombie, closed>>
    BY <1>2 DEF KthreadNewInit
  <2> HIDE DEF where
  <2>4. where # "sleeparm"
    BY <2>1
  <2> QED BY <1>1, <2>1, <2>2, <2>3, <2>4, QuietKeepsInv
<1>3. CASE KthreadYield(t)
  <2> DEFINE where == IF th_ready # <<>> /\ pri[Head(th_ready)] >= pri[t]
                      THEN "yield" ELSE "user"
  <2>1. /\ Runs(t) /\ pc[t] \in Enabled \cup {"join", "sleep"} /\ where \in Enabled
        /\ pc' = [pc EXCEPT ![t] = where]
    BY <1>3 DEF KthreadYield
  <2>3. /\ UNCHANGED <<th_cur, th_ready, inlist, joiner, isr, waiting, life, timer, timeout>>
        /\ UNCHANGED <<suspended, waitforjoin, zombie, closed, peer>>
    BY <1>3 DEF KthreadYield
  <2> HIDE DEF where
  <2>4. where # "sleeparm"
    BY <2>1
  <2> QED BY <1>1, <2>1, <2>3, <2>4, QuietKeepsInv
<1>4. CASE KthreadJoinResume(t)
  <2>1. /\ Runs(t) /\ pc[t] \in Enabled \cup {"join", "sleep"}
        /\ pc' = [pc EXCEPT ![t] = "user"] /\ peer' = [peer EXCEPT ![t] = None]
    BY <1>4 DEF KthreadJoinResume
  <2>3. /\ UNCHANGED <<th_cur, th_ready, inlist, joiner, isr, waiting, life, timer, timeout>>
        /\ UNCHANGED <<suspended, waitforjoin, zombie, closed>>
    BY <1>4 DEF KthreadJoinResume
  <2> QED BY <1>1, <2>1, <2>3, QuietKeepsInv
<1>5. CASE KthreadSleep(t)
  <2>1. /\ Runs(t) /\ pc[t] \in Enabled \cup {"join", "sleep"}
        /\ pc' = [pc EXCEPT ![t] = "sleeparm"] /\ timer' = timer \cup {t}
    BY <1>5 DEF KthreadSleep, Goto
  <2>3. /\ UNCHANGED <<th_cur, th_ready, inlist, joiner, isr, waiting, life, timeout>>
        /\ UNCHANGED <<suspended, waitforjoin, zombie, closed, peer>>
    BY <1>5 DEF KthreadSleep
  <2> QED BY <1>1, <2>1, <2>3, QuietKeepsInv
<1>6. CASE KthreadSleepResume(t)
  <2>1. /\ Runs(t) /\ pc[t] \in Enabled \cup {"join", "sleep"}
        /\ pc' = [pc EXCEPT ![t] = "user"]
    BY <1>6 DEF KthreadSleepResume, Goto
  <2>3. /\ UNCHANGED <<th_cur, th_ready, inlist, joiner, isr, waiting, life, timer, timeout>>
        /\ UNCHANGED <<suspended, waitforjoin, zombie, closed, peer>>
    BY <1>6 DEF KthreadSleepResume
  <2> QED BY <1>1, <2>1, <2>3, QuietKeepsInv
<1>7. ASSUME NEW u \in Threads,
             \/ KthreadSuspend(t, u) \/ KthreadResume(t, u) \/ KthreadDetach(t, u)
             \/ KthreadJoinExited(t, u) \/ KthreadTryJoin(t, u)
      PROVE  ThreadInv' /\ Kept
  <2>1. /\ Runs(t) /\ pc[t] = "user" /\ u # Idle /\ life[u] = "live"
        /\ UNCHANGED <<th_cur, th_ready, inlist, joiner, isr, waiting, timer, timeout>>
        /\ UNCHANGED <<waitforjoin, zombie, closed, pc, peer>>
        /\ suspended' \in {suspended, suspended \cup {u}, suspended \ {u}}
        /\ Free(u) \/ UNCHANGED life
    BY <1>7 DEF KthreadSuspend, KthreadResume, KthreadDetach, KthreadJoinExited,
                KthreadTryJoin
  <2>2. pc' = [pc EXCEPT ![t] = "user"]
    BY <1>0, <2>1
  <2>3. \A v \in Threads : life'[v] = "unborn" <=> life[v] = "unborn"
    BY <1>0, <2>1 DEF Free
  <2>4. Idle \notin suspended'
    BY <1>1, <2>1
  <2> QED BY <1>1, <2>1, <2>2, <2>3, <2>4, QuietKeepsInv
<1>8. ASSUME NEW u \in Threads, NEW p \in Pris, KthreadSetPri(t, u, p)
      PROVE  ThreadInv' /\ Kept
  <2>1. /\ Runs(t) /\ pc[t] \in Enabled \cup {"join", "sleep"}
        /\ pc' = [pc EXCEPT ![t] = "check"]
    BY <1>8 DEF KthreadSetPri
  <2>3. /\ UNCHANGED <<th_cur, th_ready, inlist, joiner, isr, waiting, life, timer, timeout>>
        /\ UNCHANGED <<suspended, waitforjoin, zombie, closed, peer>>
    BY <1>8 DEF KthreadSetPri
  <2> QED BY <1>1, <2>1, <2>3, QuietKeepsInv
<1> QED
  BY <1>2, <1>3, <1>4, <1>5, <1>6, <1>7, <1>8 DEF QuietLife

-----------------------------------------------------------------------------
(* The switches of a call.                                                 *)

(* Who sleeps after t has gone to `where'.                                 *)
LEMMA SleepersMove ==
  ASSUME pc \in [Threads -> PCs], NEW t \in Threads, NEW where,
         pc' = [pc EXCEPT ![t] = where], timer' \ {t} = timer \ {t}
  PROVE  Sleepers' = IF where = "sleep" /\ t \in timer' THEN Sleepers \cup {t}
                                                         ELSE Sleepers \ {t}
<1>1. pc'[t] = where /\ \A u \in Threads : u # t => pc'[u] = pc[u]
  OBVIOUS
<1>2. \A u \in Threads : u # t => (u \in Sleepers' <=> u \in Sleepers)
  BY <1>1 DEF Sleepers, Asleep
<1>3. t \in Sleepers' <=> (where = "sleep" /\ t \in timer')
  BY <1>1 DEF Sleepers, Asleep
<1>4. Sleepers' \subseteq Threads /\ Sleepers \subseteq Threads
  BY DEF Sleepers
<1> QED
  BY <1>2, <1>3, <1>4

(* kthread_yield switches.                                                 *)
LEMMA YieldSwitchKeepsInv ==
  ASSUME KernelAssumption, ThreadInv, TypeInv', NEW t \in Threads,
         KthreadYieldSwitch(t)
  PROVE  ThreadInv' /\ Kept
<1>1. /\ Runs(t) /\ pc[t] = "yield" /\ pc' = [pc EXCEPT ![t] = "user"]
      /\ UNCHANGED <<flagVars, isr, peer, timer, timeout, pri, waiting>>
      /\ Switch(AddPri(th_ready, t, pri), inlist \cup {t}, t \notin inlist)
  BY DEF KthreadYieldSwitch, At, isrVars, timerVars
<1>2. t \notin timer /\ t \notin inlist /\ t \notin Sleepers /\ Idle \in Nodes(th_ready)
  BY <1>1, NoTimer, RunnerFacts DEF Enabled
<1>3. Leaves(t, "user")
  BY <1>1, <1>2 DEF Leaves
<1>4. Sleepers' = Sleepers
  <2>1. pc \in [Threads -> PCs] /\ timer' \ {t} = timer \ {t}
    BY <1>1 DEF ThreadInv, TypeInv, TypeOK
  <2>2. Sleepers' = IF "user" = "sleep" /\ t \in timer' THEN Sleepers \cup {t}
                                                        ELSE Sleepers \ {t}
    BY <1>1, <2>1, SleepersMove
  <2> QED BY <1>2, <2>2
<1>5. Apart(AddPri(th_ready, t, pri), waiting, inlist \cup {t}, Sleepers \ {t})
  BY <1>2, ReadyJoins DEF ThreadInv
<1>6. Apart(AddPri(th_ready, t, pri), waiting', inlist \cup {t}, Sleepers')
  BY <1>1, <1>2, <1>4, <1>5
<1>7. Idle \in Nodes(AddPri(th_ready, t, pri))
  <2>1. th_ready \in Seq(Threads)
    BY DEF ThreadInv, TypeInv, TypeOK
  <2> QED BY <1>2, <2>1, AddPriLinks
<1> QED
  BY <1>1, <1>3, <1>6, <1>7, LeaveKeepsInv

(* kthread_sleep switches; its timer may have fired already.               *)
LEMMA SleepSwitchKeepsInv ==
  ASSUME KernelAssumption, ThreadInv, TypeInv', NEW t \in Threads,
         KthreadSleepSwitch(t)
  PROVE  ThreadInv' /\ Kept
<1>1. /\ Runs(t) /\ pc[t] = "sleeparm" /\ pc' = [pc EXCEPT ![t] = "sleep"]
      /\ UNCHANGED <<flagVars, isr, peer, timer, timeout, pri, waiting>>
      /\ Switch(th_ready, inlist \cup {t}, TRUE)
  BY DEF KthreadSleepSwitch, At, isrVars, timerVars, Goto
<1>2. Idle \in Nodes(th_ready) /\ t = th_cur
  BY <1>1, RunnerFacts
<1>3. Leaves(t, "sleep")
  BY <1>1 DEF Leaves
<1>4. Sleepers' = IF t \in timer THEN Sleepers \cup {t} ELSE Sleepers \ {t}
  BY <1>1, SleepersMove DEF ThreadInv, TypeInv, TypeOK
<1>5. t \in timer => t \notin inlist
  BY <1>1 DEF ThreadInv, TimersInCalls
<1>6. t \notin Sleepers
  BY <1>1 DEF Sleepers, Asleep
<1>7. CASE t \in timer
  <2>1. Apart(th_ready, waiting, inlist \cup {t}, Sleepers \cup {t})
    BY <1>5, <1>7, SleeperJoins DEF ThreadInv
  <2>2. Apart(th_ready, waiting', inlist \cup {t}, Sleepers')
    BY <1>1, <1>4, <1>7, <2>1
  <2> QED BY <1>1, <1>2, <1>3, <2>2, LeaveKeepsInv
<1>8. CASE t \notin timer
  <2>1. t \in inlist
    BY <1>1, <1>2, <1>8 DEF ThreadInv, RunningAlone
  <2>2. inlist \cup {t} = inlist /\ Sleepers' = Sleepers /\ waiting' = waiting
    BY <1>1, <1>4, <1>6, <1>8, <2>1
  <2>3. Apart(th_ready, waiting, inlist, Sleepers)
    BY DEF ThreadInv
  <2>4. Apart(th_ready, waiting', inlist \cup {t}, Sleepers')
    BY <2>2, <2>3
  <2> QED BY <1>1, <1>2, <1>3, <2>4, LeaveKeepsInv
<1> QED
  BY <1>7, <1>8

(* KTHREAD_SWITCH of a call that has linked its caller to the waiting list *)
(* l: the running thread t goes to `where' and waits there.                *)
LEMMA WaitKeepsInv ==
  ASSUME KernelAssumption, ThreadInv, TypeInv', NEW t \in Threads, Runs(t),
         pc[t] \in {"user", "lock", "trylock", "tryarm", "condwait", "condtimed"},
         NEW where, where \in {"lock", "trylock", "condwait"}, Leaves(t, where),
         NEW r, NEW w, Apart(r, w, inlist, Sleepers), w \in [Lists -> Seq(Threads)],
         Idle \in Nodes(r), NEW l \in Lists,
         waiting' = [w EXCEPT ![l] = AddPri(w[l], t, pri')],
         NEW ok, Switch(r, inlist \cup {t}, ok)
  PROVE  ThreadInv' /\ Kept
<1>1. t \notin inlist /\ t \notin Sleepers
  BY RunnerFacts
<1>2. Sleepers' = Sleepers
  <2>1. pc \in [Threads -> PCs] /\ timer' \ {t} = timer \ {t}
        /\ pc' = [pc EXCEPT ![t] = where]
    BY DEF ThreadInv, TypeInv, TypeOK, Leaves
  <2>2. Sleepers' = IF where = "sleep" /\ t \in timer' THEN Sleepers \cup {t}
                                                        ELSE Sleepers \ {t}
    BY <2>1, SleepersMove
  <2> QED BY <1>1, <2>2
<1>3. Apart(r, waiting', inlist \cup {t}, Sleepers)
  BY <1>1, WaiterJoins
<1>4. Apart(r, waiting', inlist \cup {t}, Sleepers')
  BY <1>2, <1>3
<1>5. pc[t] # "dead"
  OBVIOUS
<1> QED
  BY <1>4, <1>5, LeaveKeepsInv

(* A wait for a mutex.                                                     *)
LEMMA MutexWaitKeepsInv ==
  ASSUME KernelAssumption, ThreadInv, TypeInv', NEW t \in Threads, Runs(t),
         pc[t] \in {"user", "lock", "trylock", "tryarm", "condwait", "condtimed"},
         NEW m \in Mutexes, NEW where, where \in {"lock", "trylock"},
         timer' \ {t} = timer \ {t}, timeout' \ {t} = timeout \ {t},
         t \in timer' => where = "trylock" /\ t \notin timeout',
         WaitForMutex(t, m, where)
  PROVE  ThreadInv' /\ Kept
<1>1. /\ waiting' = [waiting EXCEPT ![m] = AddPri(waiting[m], t, pri')]
      /\ pc' = [pc EXCEPT ![t] = where]
      /\ UNCHANGED <<flagVars, isr, peer>>
      /\ Switch(th_ready, inlist \cup {t}, t \notin inlist /\ life[owner[m]] = "live")
  BY DEF WaitForMutex, Goto, isrVars
<1>2. Leaves(t, where)
  BY <1>1 DEF Leaves
<1>3. /\ Apart(th_ready, waiting, inlist, Sleepers) /\ Idle \in Nodes(th_ready)
      /\ waiting \in [Lists -> Seq(Threads)] /\ m \in Lists
  BY RunnerFacts DEF ThreadInv, TypeInv, TypeOK, Lists
<1>4. where \in {"lock", "trylock", "condwait"}
  OBVIOUS
<1> HIDE DEF WaitForMutex
<1> QED
  BY <1>1, <1>2, <1>3, <1>4, WaitKeepsInv

(* A call that has the mutex, or gives up, returns.                        *)
LEMMA ReturnKeepsInv ==
  ASSUME KernelAssumption, ThreadInv, TypeInv', NEW t \in Threads, Runs(t),
         pc[t] \in {"user", "lock", "trylock", "tryarm", "condwait", "condtimed"},
         pc' = [pc EXCEPT ![t] = "user"], t \notin timer',
         timer' \ {t} = timer \ {t}, timeout' \ {t} = timeout \ {t},
         UNCHANGED <<runVars, flagVars, isr, peer, waiting>>
  PROVE  ThreadInv' /\ Kept
<1>1. Stays(t, "user")
  BY DEF Stays, Enabled, runVars, flagVars, ThreadInv, IdleReady
<1>2. Apart(th_ready', waiting', inlist, Sleepers) /\ Idle \in Nodes(th_ready')
  BY RunnerFacts DEF ThreadInv, runVars
<1>3. pc[t] \notin {"condarm", "sleeparm", "dead"}
  OBVIOUS
<1> QED
  BY <1>1, <1>2, <1>3, StayKeepsInv

(* A round of the loop in kmutex_lock.                                     *)
LEMMA LockLoopKeepsInv ==
  ASSUME KernelAssumption, ThreadInv, TypeInv', NEW t \in Threads, Runs(t),
         pc[t] \in {"user", "lock", "condwait", "condtimed"},
         NEW m \in Mutexes, t \notin timer',
         timer' \ {t} = timer \ {t}, timeout' \ {t} = timeout \ {t},
         LockLoop(t, m) \/ Lock(t, m) \/ (ReturnLocked(t, None) /\ UNCHANGED mutexVars)
  PROVE  ThreadInv' /\ Kept
<1>1. WaitForMutex(t, m, "lock") \/ ReturnLocked(t, m) \/ ReturnLocked(t, None)
  BY DEF LockLoop, Lock
<1>2. CASE WaitForMutex(t, m, "lock")
  <2>1. pc[t] \in {"user", "lock", "trylock", "tryarm", "condwait", "condtimed"}
    OBVIOUS
  <2>2. "lock" \in {"lock", "trylock"}
    OBVIOUS
  <2> QED BY <1>2, <2>1, <2>2, MutexWaitKeepsInv
<1>3. CASE ReturnLocked(t, m) \/ ReturnLocked(t, None)
  <2>1. pc[t] \in {"user", "lock", "trylock", "tryarm", "condwait", "condtimed"}
    OBVIOUS
  <2>2. /\ pc' = [pc EXCEPT ![t] = "user"]
        /\ UNCHANGED <<runVars, flagVars, isr, peer, waiting>>
    BY <1>3 DEF ReturnLocked, Goto, isrVars
  <2> QED BY <2>1, <2>2, ReturnKeepsInv
<1> QED
  BY <1>1, <1>2, <1>3

(* kmutex_lock, kmutex_try_lock of a free mutex, and what follows a wait.  *)
LEMMA LockCallsKeepInv ==
  ASSUME KernelAssumption, ThreadInv, TypeInv', NEW t \in Threads,
         \/ KmutexLockResume(t) \/ KcondWaitResume(t) \/ KcondWaitTimeoutResume(t)
         \/ \E m \in Mutexes : KmutexLock(t, m) \/ KmutexTryLock(t, m)
  PROVE  ThreadInv' /\ Kept
<1>0. mtx[t] \in Mutexes \cup {None} /\ (pc[t] = "lock" => mtx[t] # None)
  BY DEF ThreadInv, TypeInv, TypeOK, CallObjects
<1>1. ASSUME NEW m \in Mutexes, KmutexLock(t, m) \/ KmutexTryLock(t, m)
      PROVE  ThreadInv' /\ Kept
  <2>1. Runs(t) /\ pc[t] = "user" /\ Lock(t, m) /\ UNCHANGED <<timer, timeout>>
    BY <1>1 DEF KmutexLock, KmutexTryLock, Caller, At, timerVars
  <2>2. t \notin timer'
    BY <2>1, NoTimer DEF Enabled
  <2> QED BY <2>1, <2>2, LockLoopKeepsInv
<1>2. CASE KmutexLockResume(t)
  <2>1. Runs(t) /\ pc[t] = "lock" /\ LockLoop(t, mtx[t]) /\ UNCHANGED <<timer, timeout>>
    BY <1>2 DEF KmutexLockResume, At, timerVars
  <2>2. t \notin timer'
    BY <2>1, NoTimer DEF Enabled
  <2>3. mtx[t] \in Mutexes
    BY <1>0, <2>1
  <2> QED BY <2>1, <2>2, <2>3, LockLoopKeepsInv
<1>3. ASSUME Runs(t), pc[t] \in {"condwait", "condtimed"}, Rewait(t), t \notin timer',
             timer' \ {t} = timer \ {t}, timeout' \ {t} = timeout \ {t}
      PROVE  ThreadInv' /\ Kept
  <2>1. pc[t] \in {"user", "lock", "trylock", "tryarm", "condwait", "condtimed"}
        /\ pc[t] \in {"user", "lock", "condwait", "condtimed"}
    BY <1>3
  <2>2. CASE mtx[t] = None
    <3>1. /\ pc' = [pc EXCEPT ![t] = "user"]
          /\ UNCHANGED <<runVars, flagVars, isr, peer, waiting>>
      BY <1>3, <2>2 DEF Rewait, ReturnLocked, Goto, isrVars
    <3> QED BY <1>3, <2>1, <3>1, ReturnKeepsInv
  <2>3. CASE mtx[t] # None
    <3>1. mtx[t] \in Mutexes /\ Lock(t, mtx[t])
      BY <1>0, <1>3, <2>3 DEF Rewait
    <3> QED BY <1>3, <2>1, <3>1, LockLoopKeepsInv
  <2> QED BY <2>2, <2>3
<1>4. CASE KcondWaitResume(t)
  <2>1. Runs(t) /\ pc[t] = "condwait" /\ Rewait(t) /\ UNCHANGED <<timer, timeout>>
    BY <1>4 DEF KcondWaitResume, At, timerVars
  <2>2. t \notin timer'
    BY <2>1, NoTimer DEF Enabled
  <2> QED BY <1>3, <2>1, <2>2
<1>5. CASE KcondWaitTimeoutResume(t)
  <2>1. /\ Runs(t) /\ pc[t] = "condtimed" /\ Rewait(t)
        /\ IF t \in timeout THEN timer' = timer ELSE timer' = timer \ {t}
        /\ timeout' = timeout \ {t}
    BY <1>5 DEF KcondWaitTimeoutResume, At, StopTimer
  <2>2. t \in timer => t \notin timeout
    BY <2>1 DEF ThreadInv, TimersInCalls, Sleeps
  <2>3. t \notin timer' /\ timer' \ {t} = timer \ {t} /\ timeout' \ {t} = timeout \ {t}
    BY <2>1, <2>2
  <2> QED BY <1>3, <2>1, <2>3
<1> QED
  BY <1>1, <1>2, <1>4, <1>5

(* kmutex_try_lock of a mutex that is taken.                               *)
LEMMA TryLocksKeepInv ==
  ASSUME KernelAssumption, ThreadInv, TypeInv', NEW t \in Threads,
         \/ KmutexTryLockLoop(t)
         \/ \E m \in Mutexes : KmutexTryLockStart(t, m)
  PROVE  ThreadInv' /\ Kept
<1>1. ASSUME NEW m \in Mutexes, KmutexTryLockStart(t, m)
      PROVE  ThreadInv' /\ Kept
  <2>1. /\ Runs(t) /\ pc[t] = "user" /\ pc' = [pc EXCEPT ![t] = "tryarm"]
        /\ timer' = timer \cup {t} /\ timeout' = timeout \ {t}
        /\ UNCHANGED <<th_cur, th_ready, inlist, life, flagVars, isr, peer, waiting>>
    BY <1>1 DEF KmutexTryLockStart, Caller, At, Goto, runVars, isrVars
  <2>2. Stays(t, "tryarm")
    BY <2>1 DEF Stays, Arming, flagVars, ThreadInv, IdleReady
  <2>3. Apart(th_ready', waiting', inlist, Sleepers) /\ Idle \in Nodes(th_ready')
    BY <2>1, RunnerFacts DEF ThreadInv
  <2>4. pc[t] \notin {"condarm", "sleeparm", "dead"}
    BY <2>1
  <2> QED BY <2>1, <2>2, <2>3, <2>4, StayKeepsInv
<1>2. CASE KmutexTryLockLoop(t)
  <2> DEFINE m == mtx[t]
  <2>1. /\ Runs(t) /\ pc[t] \in {"tryarm", "trylock"}
        /\ pc[t] \in {"user", "lock", "trylock", "tryarm", "condwait", "condtimed"}
    BY <1>2 DEF KmutexTryLockLoop, At
  <2>2. m \in Mutexes
    BY <2>1 DEF ThreadInv, TypeInv, TypeOK, CallObjects
  <2>3. t \in timer => t \notin timeout
    BY <2>1 DEF ThreadInv, TimersInCalls, Sleeps
  <2>4. \/ /\ t \notin timeout /\ UNCHANGED <<timer, timeout>>
           /\ WaitForMutex(t, m, "trylock")
        \/ /\ timer' = timer \ {t} /\ UNCHANGED timeout
           /\ ReturnLocked(t, m)
        \/ /\ t \in timeout /\ timeout' = timeout \ {t} /\ UNCHANGED timer
           /\ pc' = [pc EXCEPT ![t] = "user"]
           /\ UNCHANGED <<runVars, flagVars, isr, peer, waiting>>
    BY <1>2 DEF KmutexTryLockLoop, StopTimer, timerVars, Goto, isrVars
  <2> HIDE DEF m
  <2>5. CASE /\ t \notin timeout /\ UNCHANGED <<timer, timeout>>
             /\ WaitForMutex(t, m, "trylock")
    <3>1. "trylock" \in {"lock", "trylock"}
      OBVIOUS
    <3> QED BY <2>1, <2>2, <2>5, <3>1, MutexWaitKeepsInv
  <2>6. CASE /\ timer' = timer \ {t} /\ UNCHANGED timeout
             /\ ReturnLocked(t, m)
    <3>1. /\ pc' = [pc EXCEPT ![t] = "user"]
          /\ UNCHANGED <<runVars, flagVars, isr, peer, waiting>>
      BY <2>6 DEF ReturnLocked, Goto, isrVars
    <3>2. t \notin timer' /\ timer' \ {t} = timer \ {t} /\ timeout' \ {t} = timeout \ {t}
      BY <2>6
    <3> QED BY <2>1, <3>1, <3>2, ReturnKeepsInv
  <2>7. CASE /\ t \in timeout /\ timeout' = timeout \ {t} /\ UNCHANGED timer
             /\ pc' = [pc EXCEPT ![t] = "user"]
             /\ UNCHANGED <<runVars, flagVars, isr, peer, waiting>>
    <3>1. t \notin timer' /\ timer' \ {t} = timer \ {t} /\ timeout' \ {t} = timeout \ {t}
      BY <2>3, <2>7
    <3> QED BY <2>1, <2>7, <3>1, ReturnKeepsInv
  <2> QED BY <2>4, <2>5, <2>6, <2>7
<1> QED
  BY <1>1, <1>2

(* The yield at the end of a call that has made other threads ready.       *)
LEMMA YieldKeepsInv ==
  ASSUME KernelAssumption, ThreadInv, TypeInv', NEW t \in Threads, Runs(t),
         pc[t] = "user", UNCHANGED <<flagVars, timerVars, isrVars, callVars>>,
         NEW r, Apart(r, waiting', inlist, Sleepers), Idle \in Nodes(r), NEW ok,
         Yield(r, inlist, ok) \/ Continue(r, inlist, ok)
  PROVE  ThreadInv' /\ Kept
<1>1. /\ t = th_cur /\ t \notin inlist /\ t \notin Sleepers /\ t \notin timer
  BY NoTimer, RunnerFacts DEF Enabled
<1>2. /\ pc' = [pc EXCEPT ![t] = "user"] /\ pc \in [Threads -> PCs]
      /\ UNCHANGED <<peer, timer, timeout, isr, flagVars>>
  BY DEF callVars, timerVars, isrVars, ThreadInv, TypeInv, TypeOK
<1>3. CASE Continue(r, inlist, ok)
  <2>1. th_ready' = r /\ UNCHANGED <<th_cur, inlist, life>>
    BY <1>3 DEF Continue
  <2>2. Stays(t, "user")
    BY <1>1, <1>2, <2>1 DEF Stays, Enabled, flagVars, ThreadInv, IdleReady
  <2>3. pc[t] \notin {"condarm", "sleeparm", "dead"}
    OBVIOUS
  <2> QED BY <2>1, <2>2, <2>3, StayKeepsInv
<1>4. CASE Switch(AddPri(r, th_cur, pri'), inlist \cup {th_cur}, ok /\ th_cur \notin inlist)
  <2>1. Leaves(t, "user")
    BY <1>1, <1>2 DEF Leaves
  <2>2. Sleepers' = Sleepers
    BY <1>2 DEF Sleepers, Asleep, callVars
  <2>3. Apart(AddPri(r, t, pri'), waiting', inlist \cup {t}, Sleepers \ {t})
    BY <1>1, ReadyJoins
  <2>4. Apart(AddPri(r, t, pri'), waiting', inlist \cup {t}, Sleepers')
    BY <1>1, <2>2, <2>3
  <2>5. Idle \in Nodes(AddPri(r, t, pri'))
    <3>1. r \in Seq(Threads)
      BY DEF Apart
    <3> QED BY <3>1, AddPriLinks
  <2>6. Switch(AddPri(r, t, pri'), inlist \cup {t}, ok /\ t \notin inlist) /\ pc[t] # "dead"
    BY <1>1, <1>4
  <2> QED BY <2>1, <2>4, <2>5, <2>6, LeaveKeepsInv
<1> QED
  BY <1>3, <1>4 DEF Yield

-----------------------------------------------------------------------------
(* Calls that wake others.                                                 *)

(* kmutex_unlock_internal moves the waiters to the ready list.             *)
LEMMA ReleaseLinks ==
  ASSUME ThreadInv, NEW m \in Mutexes
  PROVE  /\ Apart(ReadyAfterRelease(m), [waiting EXCEPT ![m] = LeftWaiting(m)],
                  inlist, Sleepers)
         /\ Nodes(th_ready) \subseteq Nodes(ReadyAfterRelease(m))
         /\ [waiting EXCEPT ![m] = LeftWaiting(m)] \in [Lists -> Seq(Threads)]
<1>1. /\ Apart(th_ready, waiting, inlist, Sleepers)
      /\ waiting \in [Lists -> Seq(Threads)] /\ m \in Lists
  BY DEF ThreadInv, TypeInv, TypeOK, Lists
<1>2. CASE counter[m] = 1
  <2>1. /\ Apart(Splice(th_ready, waiting[m], pri'), [waiting EXCEPT ![m] = <<>>],
                 inlist, Sleepers)
        /\ Nodes(th_ready) \subseteq Nodes(Splice(th_ready, waiting[m], pri'))
    BY <1>1, WaitersWake
  <2>2. [waiting EXCEPT ![m] = <<>>] \in [Lists -> Seq(Threads)]
    BY <1>1
  <2> QED BY <1>2, <2>1, <2>2 DEF ReadyAfterRelease, LeftWaiting
<1>3. CASE counter[m] # 1
  <2>1. [waiting EXCEPT ![m] = LeftWaiting(m)] = waiting
    BY <1>1, <1>3 DEF LeftWaiting
  <2> QED BY <1>1, <1>3, <2>1 DEF ReadyAfterRelease
<1> QED
  BY <1>2, <1>3

(* The calls that make other threads ready.                                *)
LEMMA WakeCallsKeepInv ==
  ASSUME KernelAssumption, ThreadInv, TypeInv', NEW t \in Threads,
         \/ \E m \in Mutexes : KmutexUnlock(t, m)
         \/ \E c \in Conds : KcondSignal(t, c) \/ KcondBroadcast(t, c)
  PROVE  ThreadInv' /\ Kept
<1>0. /\ Apart(th_ready, waiting, inlist, Sleepers)
      /\ waiting \in [Lists -> Seq(Threads)] /\ th_ready \in Seq(Threads)
  BY DEF ThreadInv, TypeInv, TypeOK, Lists
<1>1. ASSUME NEW m \in Mutexes, KmutexUnlock(t, m)
      PROVE  ThreadInv' /\ Kept
  <2> DEFINE r == ReadyAfterRelease(m)
             ok == owner[m] = t /\ counter[m] > 0
  <2>1. /\ Runs(t) /\ pc[t] = "user" /\ UNCHANGED <<flagVars, timerVars, isrVars, callVars>>
        /\ waiting' = [waiting EXCEPT ![m] = LeftWaiting(m)]
        /\ Yield(r, inlist, ok) \/ Continue(r, inlist, ok)
    BY <1>1 DEF KmutexUnlock, Caller, At
  <2>2. Apart(r, waiting', inlist, Sleepers) /\ Nodes(th_ready) \subseteq Nodes(r)
    BY <2>1, ReleaseLinks
  <2> HIDE DEF r, ok
  <2>3. Idle \in Nodes(r)
    BY <2>1, <2>2, RunnerFacts
  <2> QED BY <2>1, <2>2, <2>3, YieldKeepsInv
<1>2. ASSUME NEW c \in Conds, KcondSignal(t, c)
      PROVE  ThreadInv' /\ Kept
  <2> DEFINE r == AddPri(th_ready, Head(waiting[c]), pri)
  <2>1. /\ Runs(t) /\ pc[t] = "user" /\ UNCHANGED <<flagVars, timerVars, isrVars, callVars>>
        /\ waiting' = [waiting EXCEPT ![c] = Tail(waiting[c])] /\ waiting[c] # <<>>
        /\ Yield(r, inlist, TRUE) \/ Continue(r, inlist, TRUE)
    BY <1>2 DEF KcondSignal, Caller, At, Unlinked
  <2>2. c \in Lists
    BY DEF Lists
  <2>3. Apart(r, waiting', inlist, Sleepers) /\ Head(waiting[c]) \in Threads
    <3>0. Apart(th_ready, waiting, inlist, Sleepers) /\ waiting \in [Lists -> Seq(Threads)]
      BY <1>0
    <3>1. /\ Apart(AddPri(th_ready, Head(waiting[c]), pri),
                   [waiting EXCEPT ![c] = Tail(waiting[c])], inlist, Sleepers)
          /\ Head(waiting[c]) \in Threads
      <4> DEFINE h == Head(waiting[c])
                 x == Tail(waiting[c])
      <4>1. waiting[c] # <<>> /\ h = HeadOf(waiting, c) /\ x = RestOf(waiting, c)
        BY <2>1 DEF HeadOf, RestOf
      <4> HIDE DEF r, h, x
      <4>2. /\ Apart(AddPri(th_ready, h, pri), [waiting EXCEPT ![c] = x], inlist, Sleepers)
            /\ h \in Threads
        BY <2>2, <3>0, <4>1, WaiterWakes
      <4> QED BY <4>2 DEF h, x
    <3> QED BY <2>1, <3>1
  <2>4. Idle \in Nodes(th_ready)
    BY <2>1, RunnerFacts
  <2>5. Nodes(r) = Nodes(th_ready) \cup {Head(waiting[c])}
    BY <1>0, <2>3, AddPriLinks
  <2> HIDE DEF r
  <2> QED BY <2>1, <2>3, <2>4, <2>5, YieldKeepsInv
<1>3. ASSUME NEW c \in Conds, KcondBroadcast(t, c)
      PROVE  ThreadInv' /\ Kept
  <2> DEFINE r == Splice(th_ready, waiting[c], pri)
  <2>1. /\ Runs(t) /\ pc[t] = "user" /\ UNCHANGED <<flagVars, timerVars, isrVars, callVars>>
        /\ waiting' = [waiting EXCEPT ![c] = <<>>]
        /\ Yield(r, inlist, TRUE) \/ Continue(r, inlist, TRUE)
    BY <1>3 DEF KcondBroadcast, Caller, At
  <2>2. c \in Lists
    BY DEF Lists
  <2>3. Apart(r, waiting', inlist, Sleepers) /\ Nodes(th_ready) \subseteq Nodes(r)
    BY <1>0, <2>1, <2>2, WaitersWake
  <2> HIDE DEF r
  <2>4. Idle \in Nodes(r)
    BY <2>1, <2>3, RunnerFacts
  <2> QED BY <2>1, <2>3, <2>4, YieldKeepsInv
<1> QED
  BY <1>1, <1>2, <1>3

(* What the first half of a wait on c does to the lists, up to linking the *)
(* caller: w are the waiting lists then.                                   *)
LEMMA UnlockLinks ==
  ASSUME KernelAssumption, ThreadInv, NEW t \in Threads, NEW c \in Conds,
         NEW m \in Mutexes \cup {None}, UnlockAndLink(t, c, m)
  PROVE  \E w \in [Lists -> Seq(Threads)] :
           /\ Apart(WaitReady(m), w, inlist, Sleepers)
           /\ waiting' = [w EXCEPT ![c] = AddPri(w[c], t, pri')]
           /\ Nodes(th_ready) \subseteq Nodes(WaitReady(m))
<1>0. /\ Apart(th_ready, waiting, inlist, Sleepers)
      /\ waiting \in [Lists -> Seq(Threads)]
  BY DEF ThreadInv, TypeInv, TypeOK, Lists
<1>1. CASE m = None
  <2>1. waiting' = [waiting EXCEPT ![c] = AddPri(waiting[c], t, pri')]
    BY <1>1 DEF UnlockAndLink
  <2> QED BY <1>0, <1>1, <2>1 DEF WaitReady
<1>2. CASE m # None
  <2> DEFINE w == [waiting EXCEPT ![m] = LeftWaiting(m)]
  <2>1. m \in Mutexes /\ m # c /\ m \in Lists /\ c \in Lists
    BY <1>2 DEF KernelAssumption, Lists
  <2>2. waiting' = [waiting EXCEPT ![m] = LeftWaiting(m),
                                   ![c] = AddPri(waiting[c], t, pri')]
    BY <1>2 DEF UnlockAndLink
  <2>3. waiting' = [w EXCEPT ![c] = AddPri(w[c], t, pri')]
    BY <1>0, <2>1, <2>2
  <2>4. /\ Apart(ReadyAfterRelease(m), w, inlist, Sleepers)
        /\ Nodes(th_ready) \subseteq Nodes(ReadyAfterRelease(m))
        /\ w \in [Lists -> Seq(Threads)]
    BY <2>1, ReleaseLinks
  <2>5. WaitReady(m) = ReadyAfterRelease(m)
    BY <1>2 DEF WaitReady
  <2> HIDE DEF w
  <2> QED BY <2>3, <2>4, <2>5
<1> QED
  BY <1>1, <1>2

(* The waits on a condition variable, up to their switch.                  *)
LEMMA CondWaitsKeepInv ==
  ASSUME KernelAssumption, ThreadInv, TypeInv', NEW t \in Threads,
         \/ KcondWaitTimeoutSwitch(t)
         \/ \E c \in Conds, m \in Mutexes \cup {None} :
              KcondWait(t, c, m) \/ KcondWaitTimeout(t, c, m)
  PROVE  ThreadInv' /\ Kept
<1>1. CASE KcondWaitTimeoutSwitch(t)
  <2>1. /\ Runs(t) /\ pc[t] = "condarm" /\ pc' = [pc EXCEPT ![t] = "condtimed"]
        /\ UNCHANGED <<flagVars, isr, peer, timer, timeout, pri, waiting>>
        /\ Switch(th_ready, inlist, TRUE)
    BY <1>1 DEF KcondWaitTimeoutSwitch, At, isrVars, timerVars, Goto
  <2>2. Idle \in Nodes(th_ready) /\ t = th_cur
    BY <2>1, RunnerFacts
  <2>3. t \in inlist
    BY <2>1, <2>2 DEF ThreadInv, RunningAlone
  <2>4. inlist \cup {t} = inlist
    BY <2>3
  <2>5. t \in timer => t \notin timeout
    BY <2>1 DEF ThreadInv, TimersInCalls, Sleeps
  <2>6. Leaves(t, "condtimed")
    BY <2>1, <2>5 DEF Leaves
  <2>7. Sleepers' = Sleepers
    <3>1. pc \in [Threads -> PCs] /\ timer' \ {t} = timer \ {t}
      BY <2>1 DEF ThreadInv, TypeInv, TypeOK
    <3>2. Sleepers' = IF "condtimed" = "sleep" /\ t \in timer' THEN Sleepers \cup {t}
                                                               ELSE Sleepers \ {t}
      BY <2>1, <3>1, SleepersMove
    <3>3. t \notin Sleepers
      BY <2>1 DEF Sleepers, Asleep
    <3> QED BY <3>2, <3>3
  <2>8. Apart(th_ready, waiting, inlist, Sleepers)
    BY DEF ThreadInv
  <2>9. Apart(th_ready, waiting', inlist \cup {t}, Sleepers')
    BY <2>1, <2>4, <2>7, <2>8
  <2>10. Switch(th_ready, inlist \cup {t}, TRUE) /\ pc[t] # "dead"
    BY <2>1, <2>4
  <2> QED BY <2>1, <2>2, <2>6, <2>9, <2>10, LeaveKeepsInv
<1>2. ASSUME NEW c \in Conds, NEW m \in Mutexes \cup {None}, KcondWait(t, c, m)
      PROVE  ThreadInv' /\ Kept
  <2>1. /\ Runs(t) /\ pc[t] = "user" /\ UnlockAndLink(t, c, m)
        /\ pc' = [pc EXCEPT ![t] = "condwait"]
        /\ UNCHANGED <<flagVars, isr, peer, timer, timeout>>
        /\ Switch(WaitReady(m), inlist \cup {t}, WaitAsserts(t, m))
    BY <1>2 DEF KcondWait, Caller, At, Goto, isrVars, timerVars
  <2>2. t \notin timer
    BY <2>1, NoTimer DEF Enabled
  <2>3. Leaves(t, "condwait")
    BY <2>1, <2>2 DEF Leaves
  <2>4. PICK w \in [Lists -> Seq(Threads)] :
           /\ Apart(WaitReady(m), w, inlist, Sleepers)
           /\ waiting' = [w EXCEPT ![c] = AddPri(w[c], t, pri')]
           /\ Nodes(th_ready) \subseteq Nodes(WaitReady(m))
    BY <2>1, UnlockLinks
  <2>5. Idle \in Nodes(WaitReady(m)) /\ c \in Lists
    BY <2>1, <2>4, RunnerFacts DEF Lists
  <2>6. pc[t] \in {"user", "lock", "trylock", "tryarm", "condwait", "condtimed"}
        /\ "condwait" \in {"lock", "trylock", "condwait"}
    BY <2>1
  <2> QED BY <2>1, <2>3, <2>4, <2>5, <2>6, WaitKeepsInv
<1>3. ASSUME NEW c \in Conds, NEW m \in Mutexes \cup {None}, KcondWaitTimeout(t, c, m)
      PROVE  ThreadInv' /\ Kept
  <2>1. /\ Runs(t) /\ pc[t] = "user" /\ UnlockAndLink(t, c, m)
        /\ pc' = [pc EXCEPT ![t] = "condarm"]
        /\ timer' = timer \cup {t} /\ timeout' = timeout \ {t}
        /\ UNCHANGED <<flagVars, isr, peer>>
        /\ th_ready' = WaitReady(m) /\ inlist' = inlist \cup {t}
        /\ UNCHANGED <<th_cur, life>>
    BY <1>3 DEF KcondWaitTimeout, Caller, At, Goto, isrVars, Continue
  <2>2. t \notin timer
    BY <2>1, NoTimer DEF Enabled
  <2>3. /\ t = th_cur /\ t # Idle /\ ~isr /\ t \notin inlist /\ t \notin Sleepers
        /\ Idle \in Nodes(th_ready)
        /\ \A u \in Threads : u # t => pc[u] \notin Arming
        /\ \A u \in Threads : joiner[u] # None /\ pc[u] # "dead" => joiner[u] # t
        /\ life[t] # "unborn"
    BY <2>1, RunnerFacts
  <2>4. PICK w \in [Lists -> Seq(Threads)] :
           /\ Apart(WaitReady(m), w, inlist, Sleepers)
           /\ waiting' = [w EXCEPT ![c] = AddPri(w[c], t, pri')]
           /\ Nodes(th_ready) \subseteq Nodes(WaitReady(m))
    BY <2>1, UnlockLinks
  <2>5. /\ pc \in [Threads -> PCs] /\ peer \in [Threads -> Threads \cup {None}]
        /\ joiner \in [Threads -> Threads \cup {None}] /\ timer \subseteq Threads
        /\ timer' \subseteq Threads
    BY DEF ThreadInv, TypeInv, TypeOK
  <2>6. /\ pc'[t] = "condarm"
        /\ \A u \in Threads : u # t => pc'[u] = pc[u]
        /\ \A u \in Threads : pc'[u] = "dead" <=> pc[u] = "dead"
        /\ \A u \in Threads : pc'[u] = "join" <=> pc[u] = "join"
    BY <2>1, <2>5
  <2>7. Apart(th_ready', waiting', inlist', Sleepers')
    <3>1. timer' \ {t} = timer \ {t}
      BY <2>1
    <3>2. Sleepers' = IF "condarm" = "sleep" /\ t \in timer' THEN Sleepers \cup {t}
                                                             ELSE Sleepers \ {t}
      BY <2>1, <2>5, <3>1, SleepersMove
    <3>3. Sleepers' = Sleepers
      BY <2>3, <3>2
    <3>4. c \in Lists
      BY DEF Lists
    <3>5. Apart(WaitReady(m), waiting', inlist \cup {t}, Sleepers)
      BY <2>3, <2>4, <3>4, WaiterJoins
    <3> QED BY <2>1, <3>3, <3>5
  <2>8. RunningAlone'
    <3>1. th_cur' = t /\ th_cur' \in inlist' /\ isr' = isr
      BY <2>1, <2>3
    <3> QED BY <2>3, <2>6, <3>1 DEF RunningAlone
  <2>9. TimersInCalls'
    <3> SUFFICES ASSUME NEW u \in timer'
        PROVE  /\ pc'[u] \in Arming \cup {"trylock", "condtimed", "sleep"}
               /\ pc'[u] = "sleeparm" => u \notin inlist'
               /\ pc'[u] \notin {"sleeparm", "sleep"} => u \notin timeout'
        BY DEF TimersInCalls, Sleeps
    <3>1. CASE u = t
      BY <2>1, <2>6, <3>1 DEF Arming
    <3>2. CASE u # t
      <4>1. u \in timer /\ u \in Threads /\ pc'[u] = pc[u]
            /\ (u \in timeout' <=> u \in timeout)
        BY <2>1, <2>5, <2>6, <3>2
      <4>2. /\ pc[u] \in Arming \cup {"trylock", "condtimed", "sleep"}
            /\ pc[u] # "sleeparm"
            /\ pc[u] \notin {"sleeparm", "sleep"} => u \notin timeout
        BY <2>3, <3>2, <4>1 DEF ThreadInv, TimersInCalls, Sleeps, Arming
      <4> QED BY <4>1, <4>2
    <3> QED BY <3>1, <3>2
  <2>10. UnbornAside'
    BY <2>1, <2>3, <2>6 DEF ThreadInv, UnbornAside
  <2>11. JoinersAside'
    <3>0. joiner' = joiner /\ peer' = peer /\ life' = life /\ th_cur' = th_cur
      BY <2>1 DEF flagVars
    <3>1. ASSUME NEW u \in Threads, joiner[u] # None, pc[u] # "dead"
          PROVE  /\ pc'[joiner[u]] = "join" /\ peer[joiner[u]] = u
                 /\ joiner[u] \notin inlist' \cup {th_cur}
      <4>1. joiner[u] \in Threads /\ joiner[u] # t
        BY <2>3, <2>5, <3>1
      <4>2. /\ pc[joiner[u]] = "join" /\ peer[joiner[u]] = u
            /\ joiner[u] \notin inlist \cup {th_cur}
        BY <3>1 DEF ThreadInv, JoinersAside
      <4> QED BY <2>1, <2>6, <4>1, <4>2
    <3> QED BY <2>6, <3>0, <3>1 DEF ThreadInv, JoinersAside
  <2>12. IdleReady'
    <3>1. pc'[Idle] = "user"
      BY <2>3, <2>6 DEF KernelAssumption, ThreadInv, IdleReady
    <3>2. Idle \in Nodes(th_ready')
      BY <2>1, <2>3, <2>4
    <3> QED BY <2>1, <3>1, <3>2 DEF IdleReady, ThreadInv, flagVars
  <2>13. Kept
    <3>1. th_cur' = th_cur /\ inlist' = inlist \cup {th_cur} /\ life' = life
      BY <2>1, <2>3
    <3>2. pc'[th_cur] # "dead"
      BY <2>3, <2>6
    <3> QED BY <3>1, <3>2 DEF Kept
  <2> QED BY <2>7, <2>8, <2>9, <2>10, <2>11, <2>12, <2>13 DEF ThreadInv
<1> QED
  BY <1>1, <1>2, <1>3

-----------------------------------------------------------------------------
(* The interrupt handler.                                                  *)

(* What it does without a switch leaves every thread where it stands.      *)
LEMMA PollKeepsInv ==
  ASSUME ThreadInv, TypeInv',
         UNCHANGED <<th_cur, pc, peer, life, flagVars>>,
         isr' => pc[th_cur] \in Enabled /\ ~closed,
         Apart(th_ready', waiting', inlist', Sleepers'),
         Nodes(th_ready) \subseteq Nodes(th_ready'),
         inlist \subseteq inlist', timer' \subseteq timer,
         \A u \in inlist' \ inlist : u = th_cur /\ pc[u] = "sleeparm" /\ u \notin timer',
         th_cur \in timer \ timer' /\ pc[th_cur] = "sleeparm" => th_cur \in inlist',
         \A u \in timer' : u \in timeout' <=> u \in timeout
  PROVE  ThreadInv' /\ Kept
<1>0. /\ UNCHANGED <<joiner, closed, zombie, suspended, waitforjoin>>
      /\ th_cur \in Threads /\ timer' \subseteq Threads /\ inlist' \subseteq Threads
  BY DEF flagVars, ThreadInv, TypeInv, TypeOK
<1>1. RunningAlone'
  <2>1. th_cur \in inlist' <=>
          pc[th_cur] = "condarm" \/ (pc[th_cur] = "sleeparm" /\ th_cur \notin timer')
    BY DEF ThreadInv, RunningAlone
  <2>2. \A u \in Threads : pc[u] \in Arming => u = th_cur
    BY DEF ThreadInv, RunningAlone
  <2> QED BY <1>0, <2>1, <2>2 DEF RunningAlone
<1>2. TimersInCalls'
  <2> SUFFICES ASSUME NEW u \in timer'
      PROVE  /\ pc[u] \in Arming \cup {"trylock", "condtimed", "sleep"}
             /\ pc[u] = "sleeparm" => u \notin inlist'
             /\ pc[u] \notin {"sleeparm", "sleep"} => u \notin timeout'
      BY DEF TimersInCalls, Sleeps
  <2>1. /\ pc[u] \in Arming \cup {"trylock", "condtimed", "sleep"}
        /\ pc[u] = "sleeparm" => u \notin inlist
        /\ pc[u] \notin {"sleeparm", "sleep"} => u \notin timeout
    BY DEF ThreadInv, TimersInCalls, Sleeps
  <2> QED BY <2>1
<1>3. UnbornAside'
  <2>1. \A u \in Threads : life[u] = "unborn" => u \notin inlist \cup {th_cur} /\ pc[u] = "user"
    BY DEF ThreadInv, UnbornAside
  <2> QED BY <1>0, <2>1 DEF UnbornAside
<1>4. JoinersAside'
  <2>1. \A u \in Threads : joiner[u] # None /\ pc[u] # "dead" => joiner[u] \notin inlist'
    BY DEF ThreadInv, JoinersAside
  <2>2. JoinersAside
    BY DEF ThreadInv
  <2> QED BY <1>0, <2>1, <2>2 DEF JoinersAside
<1>5. IdleReady'
  <2>1. IdleReady
    BY DEF ThreadInv
  <2> QED BY <1>0, <2>1 DEF IdleReady
<1>6. Kept
  <2>1. pc' = pc /\ life' = life /\ th_cur' = th_cur
    OBVIOUS
  <2> QED BY <1>0, <2>1 DEF Kept
<1> QED
  BY <1>1, <1>2, <1>3, <1>4, <1>5, <1>6 DEF ThreadInv

(* An interrupt begins.                                                    *)
LEMMA InterruptKeepsInv ==
  ASSUME KernelAssumption, ThreadInv, TypeInv', Interrupt
  PROVE  ThreadInv' /\ Kept
<1>1. /\ UNCHANGED <<th_cur, pc, peer, life, flagVars, th_ready, waiting, inlist,
                     timer, timeout>>
      /\ pc[th_cur] \in Enabled /\ ~closed
  BY DEF Interrupt, runVars, timerVars, callVars
<1>2. Sleepers' = Sleepers
  BY <1>1 DEF Sleepers, Asleep
<1>3. Apart(th_ready', waiting', inlist', Sleepers')
  BY <1>1, <1>2 DEF ThreadInv
<1> QED
  BY <1>1, <1>3, PollKeepsInv

(* A handler signals a condition variable.                                 *)
LEMMA CondIsrKeepsInv ==
  ASSUME KernelAssumption, ThreadInv, TypeInv', NEW c \in Conds,
         KcondSignalIsr(c) \/ KcondBroadcastIsr(c)
  PROVE  ThreadInv' /\ Kept
<1>0. /\ Apart(th_ready, waiting, inlist, Sleepers) /\ c \in Lists
      /\ waiting \in [Lists -> Seq(Threads)] /\ th_ready \in Seq(Threads)
  BY DEF ThreadInv, TypeInv, TypeOK, Lists
<1>1. /\ UNCHANGED <<th_cur, pc, peer, life, flagVars, inlist, timer, timeout>>
      /\ isr
  BY DEF KcondSignalIsr, KcondBroadcastIsr, timerVars, callVars
<1>2. Sleepers' = Sleepers
  BY <1>1 DEF Sleepers, Asleep
<1>3. pc[th_cur] \in Enabled /\ ~closed
  BY <1>1 DEF ThreadInv, RunningAlone
<1>4. /\ Apart(th_ready', waiting', inlist, Sleepers)
      /\ Nodes(th_ready) \subseteq Nodes(th_ready')
  <2>1. CASE KcondSignalIsr(c)
    <3> DEFINE h == HeadOf(waiting, c)
               x == RestOf(waiting, c)
    <3>1. /\ waiting' = [waiting EXCEPT ![c] = x] /\ waiting[c] # <<>>
          /\ th_ready' = AddPri(th_ready, h, pri)
      BY <2>1 DEF KcondSignalIsr, Unlinked, HeadOf, RestOf
    <3>2. h = HeadOf(waiting, c) /\ x = RestOf(waiting, c)
      OBVIOUS
    <3> HIDE DEF h, x
    <3>3. /\ Apart(AddPri(th_ready, h, pri), [waiting EXCEPT ![c] = x], inlist, Sleepers)
          /\ h \in Threads
      BY <1>0, <3>1, <3>2, WaiterWakes
    <3>4. Nodes(AddPri(th_ready, h, pri)) = Nodes(th_ready) \cup {h}
      BY <1>0, <3>3, AddPriLinks
    <3> QED BY <3>1, <3>3, <3>4
  <2>2. CASE KcondBroadcastIsr(c)
    <3>1. /\ waiting' = [waiting EXCEPT ![c] = <<>>]
          /\ th_ready' = Splice(th_ready, waiting[c], pri)
      BY <2>2 DEF KcondBroadcastIsr
    <3>2. /\ Apart(Splice(th_ready, waiting[c], pri), [waiting EXCEPT ![c] = <<>>],
                   inlist, Sleepers)
          /\ Nodes(th_ready) \subseteq Nodes(Splice(th_ready, waiting[c], pri))
      BY <1>0, WaitersWake
    <3> QED BY <3>1, <3>2
  <2> QED BY <2>1, <2>2
<1>5. Apart(th_ready', waiting', inlist', Sleepers')
  BY <1>1, <1>2, <1>4
<1> QED
  BY <1>1, <1>3, <1>4, <1>5, PollKeepsInv

(* The callback of a thread's timer.                                       *)
LEMMA TimerFireKeepsInv ==
  ASSUME KernelAssumption, ThreadInv, TypeInv', NEW t \in Threads, TimerFire(t)
  PROVE  ThreadInv' /\ Kept
<1>0. /\ Apart(th_ready, waiting, inlist, Sleepers)
      /\ waiting \in [Lists -> Seq(Threads)] /\ th_ready \in Seq(Threads)
      /\ pc \in [Threads -> PCs]
  BY DEF ThreadInv, TypeInv, TypeOK, Lists
<1>1. /\ UNCHANGED <<th_cur, pc, peer, life, flagVars, isr>>
      /\ t \in timer /\ timer' = timer \ {t}
      /\ timeout' = IF Sleeps(t) THEN timeout ELSE timeout \cup {t}
  BY DEF TimerFire, callVars
<1>2. isr => pc[th_cur] \in Enabled /\ ~closed
  BY DEF ThreadInv, RunningAlone
<1>3. Sleepers' = Sleepers \ {t}
  <2>1. Sleepers' \subseteq Threads /\ Sleepers \subseteq Threads
    BY DEF Sleepers
  <2>2. \A u \in Threads : u \in Sleepers' <=> u \in Sleepers /\ u # t
    BY <1>1 DEF Sleepers, Asleep
  <2> QED BY <2>1, <2>2
<1>4. /\ pc[t] \in Arming \cup {"trylock", "condtimed", "sleep"}
      /\ pc[t] = "sleeparm" => t \notin inlist
      /\ pc[t] = "sleep" => t \in Sleepers
      /\ pc[t] \in Arming => t = th_cur
      /\ Sleepers \subseteq inlist
  BY <1>0, <1>1 DEF ThreadInv, TimersInCalls, RunningAlone, Sleepers, Asleep, Apart
<1>5. \A u \in timer' : u \in timeout' <=> u \in timeout
  BY <1>1
<1>6. CASE Sleeps(t)
  <2>1. /\ waiting' = waiting /\ th_ready' = AddPri(th_ready, t, pri)
        /\ inlist' = inlist \cup {t}
    BY <1>6 DEF TimerFire, FireWakes
  <2>2. t \notin inlist \/ t \in Sleepers
    BY <1>4, <1>6 DEF Sleeps
  <2>3. Apart(AddPri(th_ready, t, pri), waiting, inlist \cup {t}, Sleepers \ {t})
    BY <1>0, <2>2, ReadyJoins
  <2>4. Nodes(th_ready') = Nodes(th_ready) \cup {t}
    BY <1>0, <2>1, AddPriLinks
  <2>5. \A u \in inlist' \ inlist : u = th_cur /\ pc[u] = "sleeparm" /\ u \notin timer'
    <3>1. t \notin inlist => pc[t] = "sleeparm" /\ t = th_cur
      BY <1>4, <1>6 DEF Sleeps, Arming
    <3> QED BY <1>1, <2>1, <3>1
  <2>6. th_cur \in timer \ timer' /\ pc[th_cur] = "sleeparm" => th_cur \in inlist'
    BY <1>1, <2>1
  <2>7. Apart(th_ready', waiting', inlist', Sleepers')
    BY <1>3, <2>1, <2>3
  <2> QED BY <1>1, <1>2, <1>5, <2>1, <2>4, <2>5, <2>6, <2>7, PollKeepsInv
<1>7. CASE ~Sleeps(t)
  <2> DEFINE l == FireList(t)
  <2>1. l \in Lists
    BY SMTT(30), <1>1, <1>4, <1>7 DEF FireList, Sleeps, Arming, Lists, ThreadInv, TypeInv, TypeOK,
                            CallObjects
  <2>2. /\ waiting' = [waiting EXCEPT ![l] = Unlink(waiting[l], t)]
        /\ IF Contains(waiting[l], t)
           THEN th_ready' = AddPri(th_ready, t, pri) /\ inlist' = inlist \cup {t}
           ELSE UNCHANGED <<th_ready, inlist>>
    BY <1>0, <1>7, <2>1 DEF TimerFire, FireWakes
  <2> HIDE DEF l
  <2>3. Sleepers' = Sleepers
    BY <1>3, <1>7 DEF Sleepers, Asleep, Sleeps
  <2>4. th_cur \in timer \ timer' => th_cur = t
    BY <1>1
  <2>5. pc[t] # "sleeparm"
    BY <1>7 DEF Sleeps
  <2>6. CASE Contains(waiting[l], t)
    <3>1. t \in Nodes(waiting[l])
      BY <2>6 DEF Contains, Nodes
    <3>2. Apart(AddPri(th_ready, t, pri), [waiting EXCEPT ![l] = Unlink(waiting[l], t)],
                inlist, Sleepers)
      BY <1>0, <2>1, <3>1, WaiterFires
    <3>3. t \in inlist
      <4>1. Nodes(waiting[l]) \subseteq inlist \ Sleepers
        BY <1>0, <2>1, ApartNodes
      <4> QED BY <3>1, <4>1
    <3>4. inlist' = inlist /\ th_ready' = AddPri(th_ready, t, pri)
      BY <2>2, <2>6, <3>3
    <3>5. Nodes(th_ready') = Nodes(th_ready) \cup {t}
      BY <1>0, <3>4, AddPriLinks
    <3>6. Apart(th_ready', waiting', inlist', Sleepers')
      BY <2>2, <2>3, <3>2, <3>4
    <3> QED BY <1>1, <1>2, <1>5, <2>4, <2>5, <3>4, <3>5, <3>6, PollKeepsInv
  <2>7. CASE ~Contains(waiting[l], t)
    <3>1. Unlink(waiting[l], t) = waiting[l]
      BY <2>7 DEF Unlink
    <3>2. waiting' = waiting /\ inlist' = inlist /\ th_ready' = th_ready
      BY <1>0, <2>1, <2>2, <2>7, <3>1
    <3>3. Apart(th_ready', waiting', inlist', Sleepers')
      BY <1>0, <2>3, <3>2
    <3> QED BY <1>1, <1>2, <1>5, <2>4, <2>5, <3>2, <3>3, PollKeepsInv
  <2> QED BY <2>6, <2>7
<1> QED
  BY <1>6, <1>7

(* The end of the handler, where a forced switch preempts th_cur.          *)
LEMMA InterruptEndKeepsInv ==
  ASSUME KernelAssumption, ThreadInv, TypeInv', InterruptEnd
  PROVE  ThreadInv' /\ Kept
<1>1. /\ isr /\ ~isr'
      /\ UNCHANGED <<pc, peer, flagVars, timer, timeout, pri, waiting>>
      /\ IF force THEN Schedule(th_ready, inlist, FALSE, TRUE) ELSE UNCHANGED runVars
  BY DEF InterruptEnd, timerVars, callVars
<1>2. UNCHANGED <<joiner, closed, zombie, suspended, waitforjoin>>
  BY <1>1 DEF flagVars
<1>3. /\ pc[th_cur] \in Enabled /\ ~closed /\ th_cur \notin inlist
      /\ \A u \in Threads : pc[u] \notin Arming
      /\ th_cur \in Threads /\ life \in [Threads -> {"unborn", "live", "freed"}]
      /\ joiner \in [Threads -> Threads \cup {None}] /\ timer \subseteq Threads
  BY <1>1 DEF ThreadInv, RunningAlone, Enabled, Arming, TypeInv, TypeOK
<1>4. Sleepers' = Sleepers
  BY <1>1 DEF Sleepers, Asleep
<1>5. CASE ~force
  <2>1. UNCHANGED <<th_cur, th_ready, inlist, life>>
    BY <1>1, <1>5 DEF runVars
  <2>2. Apart(th_ready', waiting', inlist', Sleepers')
    BY <1>1, <1>4, <2>1 DEF ThreadInv
  <2> QED BY <1>1, <1>3, <2>1, <2>2, PollKeepsInv
<1>6. CASE force
  <2>1. /\ Idle \notin waitforjoin' \cup suspended'
        /\ Idle \in Nodes(th_ready) \/ (th_cur = Idle /\ Parkable)
    BY <1>2, <1>3 DEF ThreadInv, IdleReady, Parkable
  <2>2. Apart(th_ready, waiting, inlist, Sleepers) /\ TypeInv
    BY DEF ThreadInv
  <2>3. Schedule(th_ready, inlist, FALSE, TRUE)
    BY <1>1, <1>6
  <2>4. Switched(waiting, inlist, Sleepers, FALSE)
    BY <1>3, <2>1, <2>2, <2>3, ScheduleSwitches
  <2>5. /\ Apart(th_ready', waiting, inlist', Sleepers)
        /\ th_cur' \in Threads /\ th_cur' \notin inlist'
        /\ th_cur' \notin waitforjoin' \cup suspended'
        /\ inlist' \cup {th_cur'} \subseteq inlist \cup {th_cur}
        /\ th_cur' = Idle \/ Idle \in Nodes(th_ready')
        /\ IF th_cur \in zombie' THEN Free(th_cur) ELSE UNCHANGED <<life, all_threads>>
    BY <2>4 DEF Switched, AfterPark
  <2>6. \A u \in inlist \cup {th_cur} :
          u \in inlist' \cup {th_cur'} \cup waitforjoin' \cup suspended' \cup zombie'
    <3>1. \A u \in AfterPark(inlist, FALSE) :
            u \in inlist' \cup {th_cur'} \cup waitforjoin' \cup suspended'
      BY <2>4 DEF Switched
    <3> QED BY <3>1 DEF AfterPark, Parkable
  <2>7. \A u \in Threads : life'[u] = "unborn" <=> life[u] = "unborn"
    <3>1. life[th_cur] # "unborn"
      BY <1>3 DEF ThreadInv, UnbornAside
    <3> QED BY <1>3, <2>5, <3>1 DEF Free
  <2>8. Apart(th_ready', waiting', inlist', Sleepers')
    BY <1>1, <1>4, <2>5
  <2>9. RunningAlone'
    <3>1. pc[th_cur'] \notin {"condarm", "sleeparm"}
      BY <1>3, <2>5 DEF Arming
    <3> QED BY <1>1, <1>3, <2>5, <3>1 DEF RunningAlone
  <2>10. TimersInCalls'
    <3>1. \A u \in timer :
            /\ pc[u] \in Arming \cup {"trylock", "condtimed", "sleep"}
            /\ pc[u] # "sleeparm"
            /\ ~Sleeps(u) => u \notin timeout
      BY <1>3 DEF ThreadInv, TimersInCalls, Arming
    <3> QED BY <1>1, <3>1 DEF TimersInCalls, Sleeps
  <2>11. UnbornAside'
    <3>1. \A u \in Threads : life[u] = "unborn" => u \notin inlist \cup {th_cur} /\ pc[u] = "user"
      BY DEF ThreadInv, UnbornAside
    <3> QED BY <1>1, <2>5, <2>7, <3>1 DEF UnbornAside
  <2>12. JoinersAside'
    <3>1. \A u \in Threads : joiner[u] # None /\ pc[u] # "dead" =>
            /\ pc[joiner[u]] = "join" /\ peer[joiner[u]] = u
            /\ joiner[u] \notin inlist \cup {th_cur}
      BY DEF ThreadInv, JoinersAside
    <3>2. ASSUME NEW u \in Threads, pc[u] = "join"
          PROVE  joiner[peer[u]] = u /\ life'[peer[u]] # "unborn"
      <4>1. peer[u] \in Threads
        BY <3>2 DEF ThreadInv, TypeInv, TypeOK, CallObjects
      <4>2. joiner[peer[u]] = u /\ life[peer[u]] # "unborn"
        BY <3>2 DEF ThreadInv, JoinersAside
      <4> QED BY <2>7, <4>1, <4>2
    <3>3. "kill" \in Calls => \A u \in Threads : joiner[u] = None
      BY DEF ThreadInv, JoinersAside
    <3> QED BY <1>1, <1>2, <2>5, <3>1, <3>2, <3>3 DEF JoinersAside
  <2>13. IdleReady'
    BY <1>1, <1>2, <2>5 DEF ThreadInv, IdleReady
  <2>14. Kept
    <3>1. th_cur' # th_cur => th_cur' \notin waitforjoin' \cup suspended'
      BY <2>5
    <3>2. pc' = pc
      BY <1>1
    <3>3. life' # life => th_cur \notin inlist' \cup {th_cur'}
      <4>1. life' # life => th_cur \in zombie'
        BY <2>5
      <4>2. th_cur \in zombie' => inlist' \cup {th_cur'} \subseteq inlist
        BY <2>4 DEF Switched, AfterPark, Parkable
      <4> QED BY <1>3, <4>1, <4>2
    <3> QED BY <2>5, <2>6, <2>7, <3>1, <3>2, <3>3 DEF Kept
  <2> QED BY <2>8, <2>9, <2>10, <2>11, <2>12, <2>13, <2>14 DEF ThreadInv
<1> QED
  BY <1>5, <1>6

-----------------------------------------------------------------------------
(* The beginning and the end of a thread.                                  *)

(* kthread_new.                                                            *)
LEMMA NewKeepsInv ==
  ASSUME KernelAssumption, ThreadInv, TypeInv', NEW t \in Threads,
         NEW u \in Threads, KthreadNew(t, u)
  PROVE  ThreadInv' /\ Kept
<1>1. /\ Runs(t) /\ pc[t] = "user" /\ life[u] = "unborn"
      /\ life' = [life EXCEPT ![u] = "live"]
      /\ th_ready' = AddPri(th_ready, u, pri) /\ inlist' = inlist \cup {u}
      /\ pc' = [pc EXCEPT ![t] = "newtls"] /\ peer' = [peer EXCEPT ![t] = u]
      /\ UNCHANGED <<th_cur, zombie, waitforjoin, suspended, joiner, closed, timer,
                     timeout, isr, waiting>>
  BY DEF KthreadNew, Caller, At, timerVars, isrVars
<1>2. /\ t = th_cur /\ t # Idle /\ ~isr /\ t \notin inlist /\ t \notin Sleepers
      /\ Idle \in Nodes(th_ready)
      /\ \A v \in Threads : v # t => pc[v] \notin Arming
      /\ \A v \in Threads : joiner[v] # None /\ pc[v] # "dead" => joiner[v] # t
      /\ life[t] # "unborn"
  BY <1>1, RunnerFacts
<1>3. /\ pc \in [Threads -> PCs] /\ peer \in [Threads -> Threads \cup {None}]
      /\ joiner \in [Threads -> Threads \cup {None}] /\ timer \subseteq Threads
      /\ life \in [Threads -> {"unborn", "live", "freed"}] /\ th_ready \in Seq(Threads)
  BY DEF ThreadInv, TypeInv, TypeOK
<1>4. u \notin inlist /\ u # th_cur /\ pc[u] = "user" /\ t \notin timer
  BY <1>1, NoTimer DEF ThreadInv, UnbornAside, Enabled
<1>5. /\ pc'[t] = "newtls"
      /\ \A v \in Threads : v # t => pc'[v] = pc[v]
      /\ \A v \in Threads : pc'[v] = "dead" <=> pc[v] = "dead"
      /\ \A v \in Threads : pc'[v] = "join" => pc[v] = "join" /\ v # t
      /\ \A v \in Threads : v # t => peer'[v] = peer[v]
  BY <1>1, <1>3
<1>6. Apart(th_ready', waiting', inlist', Sleepers')
  <2>1. Sleepers' = Sleepers
    <3>1. timer' \ {t} = timer \ {t}
      BY <1>1
    <3>2. Sleepers' = IF "newtls" = "sleep" /\ t \in timer' THEN Sleepers \cup {t}
                                                            ELSE Sleepers \ {t}
      BY <1>1, <1>3, <3>1, SleepersMove
    <3> QED BY <1>2, <3>2
  <2>2. u \notin Sleepers
    BY <1>4 DEF Sleepers, Asleep
  <2>3. Apart(AddPri(th_ready, u, pri), waiting, inlist \cup {u}, Sleepers \ {u})
    BY <1>4, ReadyJoins DEF ThreadInv
  <2>4. Sleepers \ {u} = Sleepers'
    BY <2>1, <2>2
  <2> QED BY <1>1, <2>3, <2>4
<1>7. RunningAlone'
  <2>1. th_cur' = t /\ t \notin inlist' /\ ~isr'
    BY <1>1, <1>2, <1>4
  <2> QED BY <1>2, <1>5, <2>1 DEF RunningAlone
<1>8. TimersInCalls'
  <2>1. \A v \in timer :
          /\ pc[v] \in Arming \cup {"trylock", "condtimed", "sleep"}
          /\ pc[v] \notin {"sleeparm", "sleep"} => v \notin timeout
          /\ v # t
    BY <1>4 DEF ThreadInv, TimersInCalls, Sleeps
  <2>2. \A v \in timer : pc[v] # "sleeparm" /\ pc'[v] = pc[v]
    BY <1>2, <1>3, <1>5, <2>1 DEF Arming
  <2> QED BY <1>1, <2>1, <2>2 DEF TimersInCalls, Sleeps
<1>9. UnbornAside'
  <2>1. \A v \in Threads : life'[v] = "unborn" => life[v] = "unborn" /\ v # u
    BY <1>1, <1>3
  <2> QED BY <1>1, <1>2, <1>5, <2>1 DEF ThreadInv, UnbornAside
<1>10. JoinersAside'
  <2>1. ASSUME NEW v \in Threads, joiner[v] # None, pc[v] # "dead"
        PROVE  /\ pc'[joiner[v]] = "join" /\ peer'[joiner[v]] = v
               /\ joiner[v] \notin inlist' \cup {th_cur}
    <3>1. joiner[v] \in Threads /\ joiner[v] # t
      BY <1>2, <1>3, <2>1
    <3>2. /\ pc[joiner[v]] = "join" /\ peer[joiner[v]] = v
          /\ joiner[v] \notin inlist \cup {th_cur}
      BY <2>1 DEF ThreadInv, JoinersAside
    <3> QED BY <1>1, <1>4, <1>5, <3>1, <3>2
  <2>2. ASSUME NEW v \in Threads, pc'[v] = "join"
        PROVE  joiner[peer'[v]] = v /\ life'[peer'[v]] # "unborn"
    <3>1. pc[v] = "join" /\ peer'[v] = peer[v]
      BY <1>5, <2>2
    <3>2. peer[v] \in Threads
      BY <1>3, <3>1 DEF ThreadInv, TypeInv, CallObjects
    <3>3. joiner[peer[v]] = v /\ life[peer[v]] # "unborn"
      BY <3>1 DEF ThreadInv, JoinersAside
    <3> QED BY <1>1, <1>3, <3>1, <3>2, <3>3
  <2>3. "kill" \in Calls => \A v \in Threads : joiner[v] = None
    BY DEF ThreadInv, JoinersAside
  <2> QED BY <1>1, <1>5, <2>1, <2>2, <2>3 DEF JoinersAside
<1>11. IdleReady'
  <2>1. pc'[Idle] = "user"
    BY <1>2, <1>5 DEF KernelAssumption, ThreadInv, IdleReady
  <2>2. Idle \in Nodes(th_ready')
    BY <1>1, <1>2, <1>3, AddPriLinks
  <2> QED BY <1>1, <2>1, <2>2 DEF ThreadInv, IdleReady
<1>12. Kept
  <2>1. /\ life'[u] = "live" /\ inlist' = inlist \cup {u} /\ th_cur' = th_cur
        /\ \A v \in Threads : v # u => life'[v] = life[v]
    BY <1>1, <1>3
  <2>2. pc'[th_cur] # "dead"
    BY <1>2, <1>5
  <2> QED BY <1>1, <1>2, <2>1, <2>2 DEF Kept
<1> QED
  BY <1>6, <1>7, <1>8, <1>9, <1>10, <1>11, <1>12 DEF ThreadInv

(* A program that kills threads joins none.                                *)
LEMMA KillKeepsInv ==
  ASSUME KernelAssumption, ThreadInv, TypeInv', NEW t \in Threads,
         NEW u \in Threads, KthreadKill(t, u)
  PROVE  ThreadInv' /\ Kept
<1>1. /\ Runs(t) /\ pc[t] = "user" /\ u # Idle /\ "kill" \in Calls
      /\ Terminate(u)
      /\ UNCHANGED <<suspended, joiner, closed, timer, timeout, isr, pc, peer, waiting>>
      /\ th_ready' = ReadyAfterKill(u) /\ inlist' = InlistAfterKill(u)
      /\ UNCHANGED <<th_cur, life>>
  BY DEF KthreadKill, CallerOn, Caller, At, timerVars, isrVars, callVars, Continue
<1>2. ~WakesJoiner(u)
  BY <1>1 DEF ThreadInv, JoinersAside, WakesJoiner
<1>3. UNCHANGED <<th_ready, inlist>>
  BY <1>1, <1>2 DEF ReadyAfterKill, InlistAfterKill
<1>4. /\ Idle \notin suspended' \cup waitforjoin'
      /\ ~closed' => Idle \notin zombie'
  BY <1>1 DEF Terminate, ThreadInv, IdleReady
<1>5. pc' = [pc EXCEPT ![t] = "user"]
  BY <1>1 DEF ThreadInv, TypeInv, TypeOK
<1>6. pc[t] \in Enabled \cup {"join", "sleep"} /\ "user" \in Enabled \cup {"sleeparm"}
      /\ "user" # "sleeparm"
  BY <1>1 DEF Enabled
<1> QED
  BY <1>1, <1>3, <1>4, <1>5, <1>6, QuietKeepsInv

(* kernel_close.                                                           *)
LEMMA CloseKeepsInv ==
  ASSUME KernelAssumption, ThreadInv, TypeInv', KernelClose
  PROVE  ThreadInv' /\ Kept
<1>1. /\ Runs(Main) /\ pc[Main] = "user" /\ Free(Idle) /\ closed'
      /\ UNCHANGED <<th_cur, th_ready, inlist, waitforjoin, suspended, joiner, timer,
                     timeout, isr, pc, peer, waiting>>
  BY DEF KernelClose, Caller, At, timerVars, callVars
<1>2. Main \in Threads
  BY DEF KernelAssumption
<1>3. Idle \notin suspended' \cup waitforjoin'
  BY <1>1 DEF ThreadInv, IdleReady
<1>4. pc' = [pc EXCEPT ![Main] = "user"]
  BY <1>1 DEF ThreadInv, TypeInv, TypeOK
<1>5. pc[Main] \in Enabled \cup {"join", "sleep"} /\ "user" \in Enabled \cup {"sleeparm"}
      /\ "user" # "sleeparm"
  BY <1>1 DEF Enabled
<1>6. \A u \in Threads : life'[u] = "unborn" <=> life[u] = "unborn"
  <2>1. Idle \in inlist
    <3>1. Idle \in Nodes(th_ready)
      BY <1>1, <1>2, RunnerFacts
    <3>2. Nodes(th_ready) \subseteq inlist \ Sleepers
      BY ApartNodes DEF ThreadInv
    <3> QED BY <3>1, <3>2
  <2>2. Idle \in Threads
    BY DEF KernelAssumption
  <2>3. life[Idle] # "unborn" /\ life \in [Threads -> {"unborn", "live", "freed"}]
    BY <2>1, <2>2 DEF ThreadInv, UnbornAside, TypeInv, TypeOK
  <2> QED BY <1>1, <2>3 DEF Free
<1> QED
  BY <1>1, <1>2, <1>3, <1>4, <1>5, <1>6, QuietKeepsInv

(* The program does not both kill threads and wait for threads to exit:    *)
(* kthread_kill of a joiner leaves its thread with a pointer to it.        *)
KillsNoJoiner == ~({"kill", "joinwait"} \subseteq Calls)

(* kthread_join of a thread that runs on.                                  *)
LEMMA JoinWaitKeepsInv ==
  ASSUME KernelAssumption, KillsNoJoiner, ThreadInv, TypeInv', NEW t \in Threads,
         NEW u \in Threads, KthreadJoinWait(t, u)
  PROVE  ThreadInv' /\ Kept
<1>1. /\ Runs(t) /\ pc[t] = "user" /\ "joinwait" \in Calls
      /\ life[u] = "live" /\ u # t /\ joiner[u] = None /\ pc[u] # "dead"
      /\ joiner' = [joiner EXCEPT ![u] = t]
      /\ pc' = [pc EXCEPT ![t] = "join"] /\ peer' = [peer EXCEPT ![t] = u]
      /\ UNCHANGED <<zombie, waitforjoin, suspended, closed, timer, timeout, isr, waiting>>
      /\ Switch(th_ready, inlist, TRUE)
  BY DEF KthreadJoinWait, CallerOn, Caller, At, timerVars, isrVars
<1>2. /\ t = th_cur /\ t # Idle /\ ~isr /\ t \notin inlist /\ t \notin Sleepers
      /\ Idle \in Nodes(th_ready)
      /\ \A v \in Threads : v # t => pc[v] \notin Arming
      /\ \A v \in Threads : joiner[v] # None /\ pc[v] # "dead" => joiner[v] # t
      /\ life[t] # "unborn" /\ t \notin timer
  BY <1>1, RunnerFacts, NoTimer DEF Enabled
<1>3. /\ pc \in [Threads -> PCs] /\ peer \in [Threads -> Threads \cup {None}]
      /\ joiner \in [Threads -> Threads \cup {None}] /\ timer \subseteq Threads
      /\ life \in [Threads -> {"unborn", "live", "freed"}] /\ None \notin Threads
  BY DEF ThreadInv, TypeInv, TypeOK, KernelAssumption
<1>4. /\ pc'[t] = "join" /\ peer'[t] = u /\ joiner'[u] = t
      /\ \A v \in Threads : v # t => pc'[v] = pc[v] /\ peer'[v] = peer[v]
      /\ \A v \in Threads : pc'[v] = "dead" <=> pc[v] = "dead"
      /\ \A v \in Threads : v # u => joiner'[v] = joiner[v]
  BY <1>1, <1>3
<1>5. Switched(waiting, inlist, Sleepers, TRUE)
  <2>1. Schedule(th_ready, inlist, TRUE, TRUE)
    BY <1>1 DEF Switch
  <2>2. Idle \notin waitforjoin' \cup suspended'
    BY <1>1 DEF ThreadInv, IdleReady
  <2>3. Apart(th_ready, waiting, inlist, Sleepers) /\ TypeInv
    BY DEF ThreadInv
  <2> QED BY <1>2, <2>1, <2>2, <2>3, ScheduleSwitches
<1>6. /\ Apart(th_ready', waiting, inlist', Sleepers)
      /\ th_cur' \in Threads /\ th_cur' \notin inlist'
      /\ th_cur' \notin waitforjoin' \cup suspended'
      /\ inlist' \cup {th_cur'} \subseteq inlist
      /\ \A v \in inlist : v \in inlist' \cup {th_cur'} \cup waitforjoin' \cup suspended'
      /\ th_cur' = Idle \/ Idle \in Nodes(th_ready')
      /\ IF th_cur \in zombie' THEN Free(th_cur) ELSE UNCHANGED <<life, all_threads>>
  BY <1>5 DEF Switched, AfterPark
<1>7. \A v \in Threads : life'[v] = "unborn" <=> life[v] = "unborn"
  BY <1>2, <1>3, <1>6 DEF Free
<1>8. Apart(th_ready', waiting', inlist', Sleepers')
  <2>1. timer' \ {t} = timer \ {t}
    BY <1>1
  <2>2. Sleepers' = IF "join" = "sleep" /\ t \in timer' THEN Sleepers \cup {t}
                                                        ELSE Sleepers \ {t}
    BY <1>1, <1>3, <2>1, SleepersMove
  <2>3. Sleepers' = Sleepers /\ waiting' = waiting
    BY <1>1, <1>2, <2>2
  <2> QED BY <1>6, <2>3
<1>9. RunningAlone'
  <2>1. \A v \in Threads : pc'[v] \notin Arming
    BY <1>2, <1>4 DEF Arming
  <2>2. pc'[th_cur'] \notin {"condarm", "sleeparm"}
    BY <1>6, <2>1 DEF Arming
  <2> QED BY <1>1, <1>2, <1>6, <2>1, <2>2 DEF RunningAlone
<1>10. TimersInCalls'
  <2>1. \A v \in timer :
          /\ pc[v] \in Arming \cup {"trylock", "condtimed", "sleep"}
          /\ pc[v] \notin {"sleeparm", "sleep"} => v \notin timeout
          /\ v # t
    BY <1>2 DEF ThreadInv, TimersInCalls, Sleeps
  <2>2. \A v \in timer : pc[v] # "sleeparm" /\ pc'[v] = pc[v]
    BY <1>2, <1>3, <1>4, <2>1 DEF Arming
  <2> QED BY <1>1, <2>1, <2>2 DEF TimersInCalls, Sleeps
<1>11. UnbornAside'
  BY <1>1, <1>2, <1>4, <1>6, <1>7 DEF ThreadInv, UnbornAside
<1>12. JoinersAside'
  <2>1. ASSUME NEW v \in Threads, joiner'[v] # None, pc[v] # "dead"
        PROVE  /\ pc'[joiner'[v]] = "join" /\ peer'[joiner'[v]] = v
               /\ joiner'[v] \notin inlist' \cup {th_cur'}
    <3>1. CASE v = u
      BY <1>2, <1>4, <1>6, <3>1
    <3>2. CASE v # u
      <4>1. joiner'[v] = joiner[v] /\ joiner[v] \in Threads /\ joiner[v] # t
        BY <1>2, <1>3, <1>4, <2>1, <3>2
      <4>2. /\ pc[joiner[v]] = "join" /\ peer[joiner[v]] = v
            /\ joiner[v] \notin inlist \cup {th_cur}
        BY <2>1, <4>1 DEF ThreadInv, JoinersAside
      <4> QED BY <1>4, <1>6, <4>1, <4>2
    <3> QED BY <3>1, <3>2
  <2>2. ASSUME NEW v \in Threads, pc'[v] = "join"
        PROVE  joiner'[peer'[v]] = v /\ life'[peer'[v]] # "unborn"
    <3>1. CASE v = t
      BY <1>1, <1>4, <1>7, <3>1
    <3>2. CASE v # t
      <4>1. pc[v] = "join" /\ peer'[v] = peer[v]
        BY <1>4, <2>2, <3>2
      <4>2. peer[v] \in Threads
        BY <1>3, <4>1 DEF ThreadInv, TypeInv, CallObjects
      <4>3. joiner[peer[v]] = v /\ life[peer[v]] # "unborn"
        BY <4>1 DEF ThreadInv, JoinersAside
      <4>4. peer[v] # u
        BY <1>1, <1>3, <4>3
      <4> QED BY <1>4, <1>7, <4>1, <4>2, <4>3, <4>4
    <3> QED BY <3>1, <3>2
  <2>3. "kill" \notin Calls
    BY <1>1 DEF KillsNoJoiner
  <2> QED BY <1>4, <2>1, <2>2, <2>3 DEF JoinersAside
<1>13. IdleReady'
  <2>1. pc'[Idle] = "user"
    BY <1>2, <1>4 DEF KernelAssumption, ThreadInv, IdleReady
  <2> QED BY <1>1, <1>6, <2>1 DEF IdleReady, ThreadInv
<1>14. Kept
  <2>1. \A v \in inlist \cup {th_cur} :
          \/ v \in inlist' \cup {th_cur'} \cup waitforjoin' \cup suspended'
          \/ pc'[v] = "join" /\ pc[v] # "join"
    BY <1>1, <1>2, <1>4, <1>6
  <2>2. th_cur' # th_cur => th_cur' \notin waitforjoin' \cup suspended'
    BY <1>6
  <2>3. pc'[th_cur] # "dead"
    BY <1>2, <1>4
  <2> QED BY <1>2, <1>6, <1>7, <2>1, <2>2, <2>3 DEF Kept
<1> QED
  BY <1>8, <1>9, <1>10, <1>11, <1>12, <1>13, <1>14 DEF ThreadInv

(* kthread_exit.                                                           *)
LEMMA ExitKeepsInv ==
  ASSUME KernelAssumption, ThreadInv, TypeInv', NEW t \in Threads, KthreadExit(t)
  PROVE  ThreadInv' /\ Kept
<1> DEFINE j == joiner[t]
           r == ReadyAfterKill(t)
           il == InlistAfterKill(t)
<1>1. /\ Runs(t) /\ pc[t] = "user" /\ Terminate(t)
      /\ pc' = [pc EXCEPT ![t] = "dead"]
      /\ UNCHANGED <<suspended, joiner, closed, timer, timeout, isr, peer, waiting>>
      /\ Switch(r, il, KillAsserts(t))
  BY DEF KthreadExit, Caller, At, timerVars, isrVars
<1>2. /\ t = th_cur /\ t # Idle /\ ~isr /\ t \notin inlist /\ t \notin Sleepers
      /\ Idle \in Nodes(th_ready)
      /\ \A v \in Threads : v # t => pc[v] \notin Arming
      /\ \A v \in Threads : joiner[v] # None /\ pc[v] # "dead" => joiner[v] # t
      /\ life[t] # "unborn" /\ t \notin timer
  BY <1>1, RunnerFacts, NoTimer DEF Enabled
<1>3. /\ pc \in [Threads -> PCs] /\ peer \in [Threads -> Threads \cup {None}]
      /\ joiner \in [Threads -> Threads \cup {None}] /\ timer \subseteq Threads
      /\ life \in [Threads -> {"unborn", "live", "freed"}] /\ None \notin Threads
      /\ th_ready \in Seq(Threads)
  BY DEF ThreadInv, TypeInv, TypeOK, KernelAssumption
<1>4. /\ pc'[t] = "dead"
      /\ \A v \in Threads : v # t => pc'[v] = pc[v]
  BY <1>1, <1>3
<1>5. WakesJoiner(t) =>
        /\ j \in Threads /\ j # t /\ pc[j] = "join" /\ peer[j] = t /\ j \notin inlist
        /\ life[j] # "unborn"
  <2> SUFFICES ASSUME WakesJoiner(t)
      PROVE  /\ j \in Threads /\ j # t /\ pc[j] = "join" /\ peer[j] = t /\ j \notin inlist
             /\ life[j] # "unborn"
      OBVIOUS
  <2>1. j # None /\ j \in Threads /\ pc[t] # "dead"
    BY <1>1, <1>3 DEF WakesJoiner
  <2>2. /\ pc[j] = "join" /\ peer[j] = t /\ j \notin inlist \cup {th_cur}
    BY <2>1 DEF ThreadInv, JoinersAside
  <2>3. life[j] # "unborn"
    BY <2>1, <2>2 DEF ThreadInv, UnbornAside
  <2> QED BY <1>2, <2>1, <2>2, <2>3
<1>6. /\ Apart(r, waiting, il, Sleepers) /\ Idle \in Nodes(r) /\ t \notin il
      /\ il = IF WakesJoiner(t) THEN inlist \cup {j} ELSE inlist
  <2>1. CASE WakesJoiner(t)
    <3>1. r = AddPri(th_ready, j, pri) /\ il = inlist \cup {j}
      BY <2>1 DEF ReadyAfterKill, InlistAfterKill
    <3>2. j \notin Sleepers /\ j \in Threads /\ j \notin inlist
      BY <1>5, <2>1 DEF Sleepers, Asleep
    <3> HIDE DEF j, r, il
    <3>3. Apart(AddPri(th_ready, j, pri), waiting, inlist \cup {j}, Sleepers \ {j})
      BY <3>2, ReadyJoins DEF ThreadInv
    <3>4. Sleepers \ {j} = Sleepers
      BY <3>2
    <3>5. Nodes(AddPri(th_ready, j, pri)) = Nodes(th_ready) \cup {j}
      BY <1>3, <3>2, AddPriLinks
    <3> QED BY <1>2, <1>5, <2>1, <3>1, <3>3, <3>4, <3>5
  <2>2. CASE ~WakesJoiner(t)
    BY <1>2, <2>2 DEF ReadyAfterKill, InlistAfterKill, ThreadInv
  <2> QED BY <2>1, <2>2
<1> HIDE DEF r, il
<1>7. /\ Idle \notin waitforjoin' \cup suspended'
      /\ ~closed' => Idle \notin zombie'
  BY <1>1, <1>2 DEF Terminate, ThreadInv, IdleReady
<1>8. Switched(waiting, il, Sleepers, TRUE)
  <2>1. Schedule(r, il, TRUE, KillAsserts(t))
    BY <1>1 DEF Switch
  <2>2. TypeInv
    BY DEF ThreadInv
  <2> QED BY <1>2, <1>6, <1>7, <2>1, <2>2, ScheduleSwitches
<1>9. /\ Apart(th_ready', waiting, inlist', Sleepers)
      /\ th_cur' \in Threads /\ th_cur' \notin inlist'
      /\ th_cur' \notin waitforjoin' \cup suspended'
      /\ inlist' \cup {th_cur'} \subseteq il
      /\ \A v \in il : v \in inlist' \cup {th_cur'} \cup waitforjoin' \cup suspended'
      /\ th_cur' = Idle \/ Idle \in Nodes(th_ready')
      /\ IF th_cur \in zombie' THEN Free(th_cur) ELSE UNCHANGED <<life, all_threads>>
  BY <1>8 DEF Switched, AfterPark
<1>10. \A v \in Threads : life'[v] = "unborn" <=> life[v] = "unborn"
  BY <1>2, <1>3, <1>9 DEF Free
<1>11. Apart(th_ready', waiting', inlist', Sleepers')
  <2>1. timer' \ {t} = timer \ {t}
    BY <1>1
  <2>2. Sleepers' = IF "dead" = "sleep" /\ t \in timer' THEN Sleepers \cup {t}
                                                        ELSE Sleepers \ {t}
    BY <1>1, <1>3, <2>1, SleepersMove
  <2> QED BY <1>1, <1>2, <1>9, <2>2
<1>12. RunningAlone'
  <2>1. \A v \in Threads : pc'[v] \notin Arming
    BY <1>2, <1>4 DEF Arming
  <2>2. pc'[th_cur'] \notin {"condarm", "sleeparm"}
    BY <1>9, <2>1 DEF Arming
  <2> QED BY <1>1, <1>2, <1>9, <2>1, <2>2 DEF RunningAlone
<1>13. TimersInCalls'
  <2>1. \A v \in timer :
          /\ pc[v] \in Arming \cup {"trylock", "condtimed", "sleep"}
          /\ pc[v] \notin {"sleeparm", "sleep"} => v \notin timeout
          /\ v # t
    BY <1>2 DEF ThreadInv, TimersInCalls, Sleeps
  <2>2. \A v \in timer : pc[v] # "sleeparm" /\ pc'[v] = pc[v]
    BY <1>2, <1>3, <1>4, <2>1 DEF Arming
  <2> QED BY <1>1, <2>1, <2>2 DEF TimersInCalls, Sleeps
<1>14. UnbornAside'
  <2>1. \A v \in Threads : life[v] = "unborn" => v \notin inlist \cup {th_cur} /\ pc[v] = "user"
    BY DEF ThreadInv, UnbornAside
  <2>2. \A v \in Threads : life[v] = "unborn" => v \notin il
    BY <1>5, <1>6, <2>1
  <2> QED BY <1>2, <1>4, <1>9, <1>10, <2>1, <2>2 DEF UnbornAside
<1>15. JoinersAside'
  <2>1. ASSUME NEW v \in Threads, joiner[v] # None, pc'[v] # "dead"
        PROVE  /\ pc'[joiner[v]] = "join" /\ peer[joiner[v]] = v
               /\ joiner[v] \notin inlist' \cup {th_cur'}
    <3>1. v # t /\ pc[v] # "dead"
      BY <1>4, <2>1
    <3>2. joiner[v] \in Threads /\ joiner[v] # t
      BY <1>2, <1>3, <2>1, <3>1
    <3>3. /\ pc[joiner[v]] = "join" /\ peer[joiner[v]] = v
          /\ joiner[v] \notin inlist \cup {th_cur}
      BY <2>1, <3>1 DEF ThreadInv, JoinersAside
    <3>4. joiner[v] \notin il
      BY <1>5, <1>6, <3>1, <3>3
    <3> QED BY <1>4, <1>9, <3>2, <3>3, <3>4
  <2>2. ASSUME NEW v \in Threads, pc'[v] = "join"
        PROVE  joiner[peer[v]] = v /\ life'[peer[v]] # "unborn"
    <3>1. pc[v] = "join"
      BY <1>4, <2>2
    <3>2. peer[v] \in Threads
      BY <1>3, <3>1 DEF ThreadInv, TypeInv, CallObjects
    <3>3. joiner[peer[v]] = v /\ life[peer[v]] # "unborn"
      BY <3>1 DEF ThreadInv, JoinersAside
    <3> QED BY <1>10, <3>2, <3>3
  <2>3. "kill" \in Calls => \A v \in Threads : joiner[v] = None
    BY DEF ThreadInv, JoinersAside
  <2> QED BY <1>1, <2>1, <2>2, <2>3 DEF JoinersAside
<1>16. IdleReady'
  <2>1. pc'[Idle] = "user"
    BY <1>2, <1>4 DEF KernelAssumption, ThreadInv, IdleReady
  <2> QED BY <1>7, <1>9, <2>1 DEF IdleReady, ThreadInv
<1>17. Kept
  <2>1. \A v \in inlist \cup {th_cur} :
          \/ v \in inlist' \cup {th_cur'} \cup waitforjoin' \cup suspended'
          \/ pc'[v] = "dead" /\ pc[v] # "dead"
    BY <1>1, <1>2, <1>4, <1>6, <1>9
  <2>2. \A v \in inlist' \cup {th_cur'} : v \in inlist \cup {th_cur} \/ v = joiner[th_cur]
    BY <1>2, <1>6, <1>9
  <2>3. pc[th_cur] # "dead" /\ pc'[th_cur] = "dead"
    BY <1>1, <1>2, <1>4
  <2>4. th_cur' # th_cur => th_cur' \notin waitforjoin' \cup suspended'
    BY <1>9
  <2>5. th_cur \notin inlist' \cup {th_cur'}
    BY <1>2, <1>6, <1>9
  <2>6. WakesJoiner(th_cur) =>
          joiner[th_cur] \in inlist' \cup {th_cur'} \cup waitforjoin' \cup suspended'
    BY <1>2, <1>6, <1>9
  <2> QED BY <1>2, <1>10, <2>1, <2>2, <2>3, <2>4, <2>5, <2>6 DEF Kept
<1> QED
  BY <1>11, <1>12, <1>13, <1>14, <1>15, <1>16, <1>17 DEF ThreadInv

-----------------------------------------------------------------------------
(* Every step keeps it.                                                    *)
LEMMA NextKeepsThreadInv ==
  ASSUME KernelAssumption, KillsNoJoiner, ThreadInv, TypeInv', Next
  PROVE  ThreadInv' /\ Kept
<1>1. ASSUME NEW t \in Threads, Life(t)
      PROVE  ThreadInv' /\ Kept
  <2>1. \/ QuietLife(t) \/ KthreadYieldSwitch(t) \/ KthreadExit(t)
        \/ KthreadSleepSwitch(t)
        \/ \E u \in Threads :
             KthreadNew(t, u) \/ KthreadKill(t, u) \/ KthreadJoinWait(t, u)
    BY <1>1 DEF Life, QuietLife
  <2> QED
    BY <2>1, QuietLifeKeepsInv, YieldSwitchKeepsInv, ExitKeepsInv,
       SleepSwitchKeepsInv, NewKeepsInv, KillKeepsInv, JoinWaitKeepsInv
<1>2. ASSUME NEW t \in Threads, Sync(t)
      PROVE  ThreadInv' /\ Kept
  <2>1. \/ \/ KmutexLockResume(t) \/ KcondWaitResume(t) \/ KcondWaitTimeoutResume(t)
           \/ \E m \in Mutexes : KmutexLock(t, m) \/ KmutexTryLock(t, m)
        \/ \/ KmutexTryLockLoop(t)
           \/ \E m \in Mutexes : KmutexTryLockStart(t, m)
        \/ \/ \E m \in Mutexes : KmutexUnlock(t, m)
           \/ \E c \in Conds : KcondSignal(t, c) \/ KcondBroadcast(t, c)
        \/ \/ KcondWaitTimeoutSwitch(t)
           \/ \E c \in Conds, m \in Mutexes \cup {None} :
                KcondWait(t, c, m) \/ KcondWaitTimeout(t, c, m)
    BY <1>2 DEF Sync
  <2> QED
    BY <2>1, LockCallsKeepInv, TryLocksKeepInv, WakeCallsKeepInv, CondWaitsKeepInv
<1>3. CASE KernelClose
  BY <1>3, CloseKeepsInv
<1>4. CASE Handler
  BY <1>4, InterruptKeepsInv, InterruptEndKeepsInv, TimerFireKeepsInv,
     CondIsrKeepsInv DEF Handler
<1> QED
  BY <1>1, <1>2, <1>3, <1>4 DEF Next

(* Nothing happens.                                                        *)
LEMMA StutterKeepsThreadInv ==
  ASSUME ThreadInv, UNCHANGED vars
  PROVE  ThreadInv' /\ Kept
<1>1. /\ UNCHANGED <<th_cur, th_ready, inlist, life, panic, all_threads>>
      /\ UNCHANGED <<th_count, tls, zombie, detached, waitforjoin, suspended, joiner, closed>>
      /\ UNCHANGED <<timer, timeout, force, isr, pc, mtx, cnd, peer, pri, waiting>>
      /\ UNCHANGED <<owner, counter, original_pri, held>>
  BY DEF vars, runVars, flagVars, mutexVars, timerVars, isrVars, callVars
<1>2. TypeInv'
  BY <1>1 DEF ThreadInv, TypeInv, TypeOK, CallObjects
<1>3. Sleepers' = Sleepers
  BY <1>1 DEF Sleepers, Asleep
<1>4. Apart(th_ready', waiting', inlist', Sleepers')
  BY <1>1, <1>3 DEF ThreadInv
<1>5. RunningAlone' /\ TimersInCalls' /\ UnbornAside' /\ JoinersAside' /\ IdleReady'
  BY <1>1 DEF ThreadInv, RunningAlone, TimersInCalls, Sleeps, UnbornAside, JoinersAside,
              IdleReady
<1>6. Kept
  BY <1>1 DEF Kept
<1> QED
  BY <1>2, <1>4, <1>5, <1>6 DEF ThreadInv

(* kernel_init.                                                            *)
LEMMA InitThreadInv ==
  ASSUME KernelAssumption, Init
  PROVE  ThreadInv
<1>1. TypeInv
  BY InitTypes
<1>2. /\ th_cur = Main /\ th_ready = <<Idle>> /\ inlist = {Idle}
      /\ life = [t \in Threads |-> IF t \in {Main, Idle} THEN "live" ELSE "unborn"]
      /\ zombie = {} /\ waitforjoin = {} /\ suspended = {}
      /\ joiner = [t \in Threads |-> None] /\ timer = {} /\ ~isr
      /\ waiting = [l \in Mutexes \cup Conds |-> <<>>]
      /\ pc = [t \in Threads |-> "user"]
      /\ Main \in Threads /\ Idle \in Threads /\ Main # Idle
  BY DEF Init, KernelAssumption
<1>3. Apart(th_ready, waiting, inlist, Sleepers)
  <2>1. Sleepers = {}
    BY <1>2 DEF Sleepers, Asleep
  <2>2. /\ th_ready \in Seq(Threads) /\ Nodes(th_ready) = {Idle} /\ Once(th_ready)
    BY <1>2 DEF Nodes, Once
  <2>3. \A l \in Lists : /\ waiting[l] \in Seq(Threads) /\ Once(waiting[l])
                         /\ Nodes(waiting[l]) = {}
    <3>1. <<>> \in Seq(Threads) /\ Once(<<>>) /\ Nodes(<<>>) = {}
      BY DEF Nodes, Once
    <3>2. \A l \in Lists : waiting[l] = <<>>
      BY <1>2 DEF Lists
    <3> QED BY <3>1, <3>2
  <2> QED BY <1>2, <2>1, <2>2, <2>3 DEF Apart, Linked
<1>4. RunningAlone
  BY <1>2 DEF RunningAlone, Arming
<1>5. TimersInCalls
  BY <1>2 DEF TimersInCalls
<1>6. UnbornAside
  BY <1>2 DEF UnbornAside
<1>7. JoinersAside
  BY <1>2 DEF JoinersAside
<1>8. IdleReady
  <2>1. Idle \in Nodes(th_ready)
    BY <1>2 DEF Nodes
  <2> QED BY <1>2, <2>1 DEF IdleReady
<1> QED
  BY <1>1, <1>3, <1>4, <1>5, <1>6, <1>7, <1>8 DEF ThreadInv

(***************************************************************************)
(* The inductive invariant of the threads, for every program that does not *)
(* both kill threads and wait for them.                                    *)
(***************************************************************************)
THEOREM ThreadInvHolds ==
  ASSUME KillsNoJoiner
  PROVE  Spec => []ThreadInv
<1>1. Init => ThreadInv
  BY InitThreadInv, KernelAssumption
<1>2. ThreadInv /\ [Next]_vars => ThreadInv'
  <2> SUFFICES ASSUME ThreadInv, [Next]_vars
      PROVE  ThreadInv'
      OBVIOUS
  <2>1. CASE Next
    <3>1. TypeInv'
      BY <2>1, NextKeepsTypes, KernelAssumption DEF ThreadInv
    <3> QED BY <2>1, <3>1, NextKeepsThreadInv, KernelAssumption
  <2>2. CASE UNCHANGED vars
    BY <2>2, StutterKeepsThreadInv
  <2> QED BY <2>1, <2>2
<1> QED
  BY <1>1, <1>2, PTL DEF Spec

-----------------------------------------------------------------------------
(* What it says of the properties.                                         *)

(* A thread is a node of one list, or of none.                             *)
LEMMA LinksOf ==
  ASSUME KernelAssumption, Apart(th_ready, waiting, inlist, Sleepers),
         NEW t \in Threads
  PROVE  IF t \in inlist \ Sleepers THEN \E x : Links(t) = {x} ELSE Links(t) = {}
<1>1. /\ Once(th_ready)
      /\ \A l \in Lists : Once(waiting[l])
      /\ \A l \in Lists : Nodes(th_ready) \cap Nodes(waiting[l]) = {}
      /\ \A l, k \in Lists : l # k => Nodes(waiting[l]) \cap Nodes(waiting[k]) = {}
      /\ Linked(t, th_ready, waiting) <=> t \in inlist \ Sleepers
  BY DEF Apart
<1>2. \A x : x \in Links(t) <=>
        \/ \E i \in 1 .. Len(th_ready) : th_ready[i] = t /\ x = <<None, i>>
        \/ \E l \in Lists : \E i \in 1 .. Len(waiting[l]) :
             waiting[l][i] = t /\ x = <<l, i>>
  BY DEF Links, Lists
<1> HIDE DEF Links
<1>3. CASE t \in Nodes(th_ready)
  <2>1. PICK i \in 1 .. Len(th_ready) : th_ready[i] = t
    BY <1>3 DEF Nodes
  <2>2. \A k \in 1 .. Len(th_ready) : th_ready[k] = t => k = i
    BY <1>1, <2>1 DEF Once
  <2>3. \A l \in Lists : t \notin Nodes(waiting[l])
    BY <1>1, <1>3
  <2>4. \A l \in Lists : \A k \in 1 .. Len(waiting[l]) : waiting[l][k] # t
    BY <2>3 DEF Nodes
  <2>5. \A x : x \in Links(t) <=> x = <<None, i>>
    BY <1>2, <2>1, <2>2, <2>4
  <2>6. Links(t) = {<<None, i>>}
    BY <2>5
  <2>7. t \in inlist \ Sleepers
    BY <1>1, <1>3 DEF Linked
  <2> QED BY <2>6, <2>7
<1>4. CASE \E l \in Lists : t \in Nodes(waiting[l])
  <2>0. PICK l \in Lists : t \in Nodes(waiting[l])
    BY <1>4
  <2>1. PICK i \in 1 .. Len(waiting[l]) : waiting[l][i] = t
    BY <2>0 DEF Nodes
  <2>2. \A k \in 1 .. Len(waiting[l]) : waiting[l][k] = t => k = i
    BY <1>1, <2>1 DEF Once
  <2>3. /\ t \notin Nodes(th_ready)
        /\ \A k \in Lists : k # l => t \notin Nodes(waiting[k])
    BY <1>1, <2>0
  <2>4. /\ \A k \in 1 .. Len(th_ready) : th_ready[k] # t
        /\ \A j \in Lists : j # l => \A k \in 1 .. Len(waiting[j]) : waiting[j][k] # t
    BY <2>3 DEF Nodes
  <2>5. \A x : x \in Links(t) <=> x = <<l, i>>
    BY <1>2, <2>1, <2>2, <2>4
  <2>6. Links(t) = {<<l, i>>}
    BY <2>5
  <2>7. t \in inlist \ Sleepers
    BY <1>1, <1>4 DEF Linked
  <2> QED BY <2>6, <2>7
<1>5. CASE ~Linked(t, th_ready, waiting)
  <2>1. /\ \A k \in 1 .. Len(th_ready) : th_ready[k] # t
        /\ \A l \in Lists : \A k \in 1 .. Len(waiting[l]) : waiting[l][k] # t
    BY <1>5 DEF Linked, Nodes
  <2>2. \A x : x \notin Links(t)
    BY <1>2, <2>1
  <2> QED BY <1>1, <1>5, <2>2
<1> QED
  BY <1>3, <1>4, <1>5 DEF Linked

(* The links counted.                                                      *)
LEMMA InvLinkedOnce ==
  ASSUME KernelAssumption, ThreadInv
  PROVE  LinkedOnce
<1> SUFFICES ASSUME NEW t \in Threads
    PROVE  Cardinality(Links(t)) = IF t \in inlist /\ ~Asleep(t) THEN 1 ELSE 0
    BY DEF LinkedOnce
<1>1. IF t \in inlist \ Sleepers THEN \E x : Links(t) = {x} ELSE Links(t) = {}
  BY LinksOf DEF ThreadInv
<1>2. t \in inlist \ Sleepers <=> t \in inlist /\ ~Asleep(t)
  BY DEF Sleepers
<1>3. CASE t \in inlist \ Sleepers
  <2>1. PICK x : Links(t) = {x}
    BY <1>1, <1>3
  <2>2. Cardinality({x}) = 1
    BY FS_Singleton
  <2> QED BY <1>2, <1>3, <2>1, <2>2
<1>4. CASE t \notin inlist \ Sleepers
  BY <1>1, <1>2, <1>4, FS_EmptySet
<1> QED
  BY <1>3, <1>4

(***************************************************************************)
(* Every thread is a node of at most one list of the kernel, and           *)
(* TH_FLAG_INLIST tells which are: no sequence of calls, interrupts and    *)
(* expiring timers links a thread twice, although one `next' pointer in it *)
(* serves the ready list and every waiting list.                           *)
(***************************************************************************)
THEOREM LinkedOnceHolds ==
  ASSUME KillsNoJoiner
  PROVE  Spec => []LinkedOnce
<1>1. ThreadInv => LinkedOnce
  BY InvLinkedOnce, KernelAssumption
<1> QED
  BY <1>1, ThreadInvHolds, PTL

(* kthread_join returns when the thread it waits for has exited: nobody    *)
(* else makes a joiner ready.                                              *)
THEOREM JoinWaitsHolds ==
  ASSUME KillsNoJoiner
  PROVE  Spec => []JoinWaitsForExit
<1>1. ThreadInv => JoinWaitsForExit
  <2> SUFFICES ASSUME ThreadInv, NEW t \in Threads, th_cur = t, pc[t] = "join"
      PROVE  ~Working(peer[t])
      BY DEF JoinWaitsForExit
  <2>1. peer[t] \in Threads /\ t # None
    BY KernelAssumption DEF ThreadInv, TypeInv, TypeOK, CallObjects, KernelAssumption
  <2>2. joiner[peer[t]] = t
    BY DEF ThreadInv, JoinersAside
  <2>3. pc[peer[t]] = "dead"
    BY KernelAssumption, <2>1, <2>2 DEF ThreadInv, JoinersAside
  <2> QED BY <2>3 DEF Working
<1> QED
  BY <1>1, ThreadInvHolds, PTL

-----------------------------------------------------------------------------
(* What a step does to lives.                                              *)

SameDead == \A u \in Threads : pc'[u] = "dead" <=> pc[u] = "dead"

(* The running thread exits; it is freed at once if it is detached.        *)
Ending ==
  /\ "exit" \in Calls /\ th_cur \notin {Main, Idle}
  /\ \A m \in Mutexes : held'[th_cur][m] = 0
  /\ pc[th_cur] # "dead" /\ pc' = [pc EXCEPT ![th_cur] = "dead"]
  /\ Terminate(th_cur)
  /\ IF th_cur \in zombie' THEN Free(th_cur) ELSE UNCHANGED life

Killing ==
  /\ "kill" \in Calls /\ UNCHANGED <<life, pc, th_cur, inlist>>
  /\ \E u \in Threads : Terminate(u)

Beginning ==
  /\ UNCHANGED <<zombie, waitforjoin>> /\ SameDead /\ th_count' = th_count + 1
  /\ \E u \in Threads : life[u] = "unborn" /\ life' = [life EXCEPT ![u] = "live"]

(* The memory of a thread that has exited is freed.                        *)
Joining ==
  /\ {"join", "try_join"} \cap Calls # {}
  /\ UNCHANGED <<th_count, zombie, waitforjoin, pc, th_cur, inlist>>
  /\ \E u \in waitforjoin : u # Idle /\ Free(u)

(* A switch frees the thread it leaves if that one has been killed.        *)
SwitchFrees ==
  /\ th_cur \in zombie /\ Free(th_cur)
  /\ isr \/ "joinwait" \in Calls \/ (Debug => panic')

Going ==
  /\ UNCHANGED <<th_count, zombie, waitforjoin>> /\ SameDead
  /\ UNCHANGED life \/ SwitchFrees

Fates ==
  /\ \A u \in Threads : u # th_cur => pc'[u] = pc[u] /\ peer'[u] = peer[u]
  /\ detached \subseteq detached' /\ closed' = closed
  /\ "suspend" \notin Calls => suspended' = suspended
  /\ "detach" \notin Calls => detached' = detached
  /\ "joinwait" \notin Calls => joiner' = joiner
  /\ pc'[th_cur] = "join" /\ pc[th_cur] # "join" =>
       peer'[th_cur] \in Threads /\ pc'[peer'[th_cur]] # "dead"
  /\ Ending \/ Killing \/ Beginning \/ Joining \/ Going

(* A switch of a thread that is linked already.                            *)
LEMMA SwitchLives ==
  ASSUME NEW r, NEW il, NEW ok, Switch(r, il, ok), th_cur \in il, zombie' = zombie
  PROVE  UNCHANGED life \/ SwitchFrees
<1>1. /\ panic' = (\/ Debug /\ ~(ok /\ ParkAsserts(il, TRUE))
                   \/ Runnable(Parked(r, TRUE)) = {} \/ FreeCrashes)
      /\ IF th_cur \in zombie' THEN Free(th_cur) ELSE UNCHANGED <<life, all_threads>>
  BY DEF Switch, Schedule
<1>2. th_cur \in zombie' => ~ParkAsserts(il, TRUE)
  BY DEF ParkAsserts
<1> QED
  BY <1>1, <1>2 DEF SwitchFrees

(* A call that leaves the flags alone and moves the caller at most.        *)
LEMMA GoingFates ==
  ASSUME ThreadInv, NEW t \in Threads, t = th_cur, pc[t] # "dead",
         UNCHANGED <<flagVars, peer>>,
         NEW w, w \notin {"dead", "join"}, pc' = [pc EXCEPT ![t] = w] \/ UNCHANGED pc,
         UNCHANGED life \/ SwitchFrees
  PROVE  Fates
<1>1. pc \in [Threads -> PCs]
  BY DEF ThreadInv, TypeInv, TypeOK
<1>2. /\ \A u \in Threads : u # th_cur => pc'[u] = pc[u]
      /\ SameDead
      /\ pc'[th_cur] = "join" => pc[th_cur] = "join"
  BY <1>1 DEF SameDead
<1>3. Going
  BY <1>2 DEF Going, flagVars
<1> QED
  BY <1>2, <1>3 DEF Fates, flagVars

(* The calls on mutexes and condition variables.                           *)
LEMMA SyncFates ==
  ASSUME ThreadInv, NEW t \in Threads, Sync(t)
  PROVE  Fates
<1> USE DEF Caller, At, Goto, runVars, callVars
<1>0. ASSUME NEW m, NEW w, WaitForMutex(t, m, w), Runs(t), pc[t] # "dead",
             w \in {"lock", "trylock"}
      PROVE  Fates
  <2>1. /\ t = th_cur /\ UNCHANGED <<flagVars, peer>> /\ pc' = [pc EXCEPT ![t] = w]
        /\ Switch(th_ready, inlist \cup {t}, t \notin inlist /\ life[owner[m]] = "live")
    BY <1>0 DEF WaitForMutex, Runs
  <2>2. UNCHANGED life \/ SwitchFrees
    BY <2>1, SwitchLives DEF flagVars
  <2>3. w \notin {"dead", "join"}
    BY <1>0
  <2> QED BY <1>0, <2>1, <2>2, <2>3, GoingFates
<1>1. ASSUME NEW m, ReturnLocked(t, m), Runs(t), pc[t] # "dead"
      PROVE  Fates
  <2>1. /\ t = th_cur /\ UNCHANGED <<flagVars, peer>> /\ pc' = [pc EXCEPT ![t] = "user"]
        /\ UNCHANGED life
    BY <1>1 DEF ReturnLocked, Runs
  <2>2. "user" \notin {"dead", "join"}
    OBVIOUS
  <2> QED BY <1>1, <2>1, <2>2, GoingFates
<1>2. ASSUME NEW m, LockLoop(t, m) \/ Lock(t, m) \/ Rewait(t), Runs(t), pc[t] # "dead"
      PROVE  Fates
  <2>1. \/ \E k : WaitForMutex(t, k, "lock")
        \/ \E k : ReturnLocked(t, k)
    BY <1>2 DEF LockLoop, Lock, Rewait
  <2> QED BY <1>0, <1>1, <1>2, <2>1
<1>3. CASE \/ KmutexLockResume(t) \/ KcondWaitResume(t) \/ KcondWaitTimeoutResume(t)
           \/ \E m \in Mutexes : KmutexLock(t, m) \/ KmutexTryLock(t, m)
  <2>1. /\ Runs(t) /\ pc[t] \in {"lock", "condwait", "condtimed", "user"}
        /\ \E m : LockLoop(t, m) \/ Lock(t, m) \/ Rewait(t)
    BY <1>3 DEF KmutexLockResume, KcondWaitResume, KcondWaitTimeoutResume, KmutexLock,
                KmutexTryLock
  <2>2. pc[t] # "dead"
    BY <2>1
  <2> QED BY <1>2, <2>1, <2>2
<1>4. CASE KmutexTryLockLoop(t)
  <2>1. /\ Runs(t) /\ pc[t] \in {"tryarm", "trylock"}
        /\ \/ \E m : WaitForMutex(t, m, "trylock") \/ ReturnLocked(t, m)
           \/ /\ pc' = [pc EXCEPT ![t] = "user"]
              /\ UNCHANGED <<life, flagVars, peer>>
    BY <1>4 DEF KmutexTryLockLoop
  <2>2. pc[t] # "dead" /\ t = th_cur
    BY <2>1 DEF Runs
  <2>3. "user" \notin {"dead", "join"}
    OBVIOUS
  <2>4. CASE /\ pc' = [pc EXCEPT ![t] = "user"]
             /\ UNCHANGED <<life, flagVars, peer>>
    BY <2>2, <2>3, <2>4, GoingFates
  <2> QED BY <1>0, <1>1, <2>1, <2>2, <2>4
<1>5. ASSUME NEW m \in Mutexes, KmutexTryLockStart(t, m)
      PROVE  Fates
  <2>1. /\ Runs(t) /\ pc[t] = "user" /\ pc' = [pc EXCEPT ![t] = "tryarm"]
        /\ UNCHANGED <<life, flagVars, peer>>
    BY <1>5 DEF KmutexTryLockStart
  <2>2. "tryarm" \notin {"dead", "join"} /\ t = th_cur /\ pc[t] # "dead"
    BY <2>1 DEF Runs
  <2> QED BY <2>1, <2>2, GoingFates
<1>6. ASSUME NEW r, NEW ok, Yield(r, inlist, ok) \/ Continue(r, inlist, ok),
             Runs(t), pc[t] = "user", UNCHANGED <<flagVars, pc, peer>>
      PROVE  Fates
  <2>1. CASE Continue(r, inlist, ok)
    BY <1>6, <2>1, GoingFates DEF Continue, Runs
  <2>2. CASE Switch(AddPri(r, th_cur, pri'), inlist \cup {th_cur}, ok /\ th_cur \notin inlist)
    <3>1. UNCHANGED life \/ SwitchFrees
      BY <1>6, <2>2, SwitchLives DEF flagVars
    <3> QED BY <1>6, <3>1, GoingFates DEF Runs
  <2> QED BY <1>6, <2>1, <2>2 DEF Yield
<1>7. ASSUME NEW m \in Mutexes, KmutexUnlock(t, m)
      PROVE  Fates
  <2>1. /\ Runs(t) /\ pc[t] = "user" /\ UNCHANGED <<flagVars, pc, peer>>
        /\ \E r, ok : Yield(r, inlist, ok) \/ Continue(r, inlist, ok)
    BY <1>7 DEF KmutexUnlock
  <2> QED BY <1>6, <2>1
<1>8. ASSUME NEW c \in Conds, KcondSignal(t, c) \/ KcondBroadcast(t, c)
      PROVE  Fates
  <2>1. /\ Runs(t) /\ pc[t] = "user" /\ UNCHANGED <<flagVars, pc, peer>>
        /\ \E r, ok : Yield(r, inlist, ok) \/ Continue(r, inlist, ok)
    BY <1>8 DEF KcondSignal, KcondBroadcast
  <2> QED BY <1>6, <2>1
<1>9. ASSUME NEW c \in Conds, NEW m \in Mutexes \cup {None},
             KcondWait(t, c, m) \/ KcondWaitTimeout(t, c, m)
      PROVE  Fates
  <2>1. /\ Runs(t) /\ pc[t] = "user" /\ UNCHANGED <<flagVars, peer>>
        /\ \E w \in {"condwait", "condarm"} : pc' = [pc EXCEPT ![t] = w]
        /\ \/ \E r, ok : Switch(r, inlist \cup {t}, ok)
           \/ UNCHANGED life
    BY <1>9 DEF KcondWait, KcondWaitTimeout, Continue
  <2>2. t = th_cur /\ pc[t] # "dead"
    BY <2>1 DEF Runs
  <2>3. UNCHANGED life \/ SwitchFrees
    BY <2>1, <2>2, SwitchLives DEF flagVars
  <2>4. \A w \in {"condwait", "condarm"} : w \notin {"dead", "join"}
    OBVIOUS
  <2> QED BY <2>1, <2>2, <2>3, <2>4, GoingFates
<1>10. CASE KcondWaitTimeoutSwitch(t)
  <2>1. /\ Runs(t) /\ pc[t] = "condarm" /\ UNCHANGED <<flagVars, peer>>
        /\ pc' = [pc EXCEPT ![t] = "condtimed"]
        /\ Switch(th_ready, inlist, TRUE)
    BY <1>10 DEF KcondWaitTimeoutSwitch
  <2>2. t = th_cur /\ pc[t] # "dead" /\ "condtimed" \notin {"dead", "join"}
    BY <2>1 DEF Runs
  <2>3. th_cur \in inlist
    BY <2>1, <2>2 DEF ThreadInv, RunningAlone
  <2>4. UNCHANGED life \/ SwitchFrees
    BY <2>1, <2>3, SwitchLives DEF flagVars
  <2> QED BY <2>1, <2>2, <2>4, GoingFates
<1> QED
  BY <1>3, <1>4, <1>5, <1>7, <1>8, <1>9, <1>10 DEF Sync

(* The same with writes to the flags that end nothing.                     *)
LEMMA StayFates ==
  ASSUME ThreadInv, NEW t \in Threads, t = th_cur, pc[t] # "dead",
         UNCHANGED <<th_count, zombie, waitforjoin, closed>>,
         detached \subseteq detached', "suspend" \in Calls \/ UNCHANGED suspended,
         "detach" \in Calls \/ UNCHANGED detached, UNCHANGED joiner,
         \A u \in Threads : u # t => peer'[u] = peer[u],
         NEW w, w \notin {"dead", "join"}, pc' = [pc EXCEPT ![t] = w] \/ UNCHANGED pc,
         UNCHANGED life \/ SwitchFrees
  PROVE  Fates
<1>1. pc \in [Threads -> PCs]
  BY DEF ThreadInv, TypeInv, TypeOK
<1>2. /\ \A u \in Threads : u # th_cur => pc'[u] = pc[u]
      /\ SameDead
      /\ pc'[th_cur] = "join" => pc[th_cur] = "join"
  BY <1>1 DEF SameDead
<1>3. Going
  BY <1>2 DEF Going
<1> QED
  BY <1>2, <1>3 DEF Fates

(* The calls of a thread's life.                                           *)
LEMMA LifeFates ==
  ASSUME KernelAssumption, ThreadInv, NEW t \in Threads, Life(t)
  PROVE  Fates
<1> USE DEF Caller, At, CallerOn, runVars, callVars, flagVars
<1>0. /\ pc \in [Threads -> PCs] /\ peer \in [Threads -> Threads \cup {None}]
      /\ "user" \notin {"dead", "join"}
  BY DEF ThreadInv, TypeInv, TypeOK
<1>1. CASE KthreadNewInit(t)
  <2>1. /\ Runs(t) /\ pc[t] = "newtls"
        /\ \E w \in {"check", "user"} : pc' = [pc EXCEPT ![t] = w]
        /\ peer' = [peer EXCEPT ![t] = None]
        /\ UNCHANGED <<life, th_count, zombie, detached, waitforjoin, suspended, closed, joiner>>
    BY <1>1 DEF KthreadNewInit
  <2>2. t = th_cur /\ \A u \in Threads : u # t => peer'[u] = peer[u]
    BY <1>0, <2>1 DEF Runs
  <2> QED BY <2>1, <2>2, StayFates
<1>2. CASE KthreadYield(t)
  <2>1. /\ Runs(t) /\ pc[t] \in {"check", "user"}
        /\ \E w \in {"yield", "user"} : pc' = [pc EXCEPT ![t] = w]
        /\ UNCHANGED <<life, flagVars, peer>>
    BY <1>2 DEF KthreadYield
  <2> QED BY <2>1, StayFates DEF Runs
<1>3. CASE KthreadYieldSwitch(t)
  <2>1. /\ Runs(t) /\ pc[t] = "yield" /\ pc' = [pc EXCEPT ![t] = "user"]
        /\ UNCHANGED <<flagVars, peer>>
        /\ Switch(AddPri(th_ready, t, pri), inlist \cup {t}, t \notin inlist)
    BY <1>3 DEF KthreadYieldSwitch
  <2>2. t = th_cur /\ zombie' = zombie
    BY <2>1 DEF Runs
  <2>3. UNCHANGED life \/ SwitchFrees
    BY <2>1, <2>2, SwitchLives
  <2> QED BY <1>0, <2>1, <2>2, <2>3, StayFates
<1>4. CASE KthreadExit(t)
  <2>1. /\ Runs(t) /\ pc[t] = "user" /\ pc' = [pc EXCEPT ![t] = "dead"] /\ Terminate(t)
        /\ "exit" \in Calls /\ t # Main /\ \A m \in Mutexes : held'[t][m] = 0
        /\ UNCHANGED <<detached, suspended, closed, peer, joiner>>
        /\ \E r, il, ok : Switch(r, il, ok)
    BY <1>4 DEF KthreadExit, mutexVars
  <2>2. /\ t = th_cur /\ t # Idle
        /\ IF th_cur \in zombie' THEN Free(th_cur) ELSE UNCHANGED life
    BY <2>1 DEF Runs, Switch, Schedule
  <2>3. Ending
    BY <2>1, <2>2 DEF Ending
  <2>4. /\ \A u \in Threads : u # th_cur => pc'[u] = pc[u]
        /\ pc'[th_cur] # "join"
    BY <1>0, <2>1, <2>2
  <2> QED BY <2>1, <2>3, <2>4 DEF Fates
<1>5. CASE KthreadJoinResume(t)
  <2>1. /\ Runs(t) /\ pc[t] = "join" /\ pc' = [pc EXCEPT ![t] = "user"]
        /\ peer' = [peer EXCEPT ![t] = None]
        /\ UNCHANGED <<life, flagVars>>
    BY <1>5 DEF KthreadJoinResume
  <2>2. t = th_cur /\ \A u \in Threads : u # t => peer'[u] = peer[u]
    BY <1>0, <2>1 DEF Runs
  <2> QED BY <1>0, <2>1, <2>2, StayFates
<1>6. CASE KthreadSleep(t) \/ KthreadSleepResume(t)
  <2>1. /\ Runs(t) /\ pc[t] \in {"user", "sleep"}
        /\ \E w \in {"sleeparm", "user"} : pc' = [pc EXCEPT ![t] = w]
        /\ UNCHANGED <<life, flagVars, peer>>
    BY <1>6 DEF KthreadSleep, KthreadSleepResume, Goto
  <2> QED BY <2>1, StayFates DEF Runs
<1>7. CASE KthreadSleepSwitch(t)
  <2>1. /\ Runs(t) /\ pc[t] = "sleeparm" /\ pc' = [pc EXCEPT ![t] = "sleep"]
        /\ UNCHANGED <<flagVars, peer>>
        /\ Switch(th_ready, inlist \cup {t}, TRUE)
    BY <1>7 DEF KthreadSleepSwitch, Goto
  <2>2. t = th_cur /\ zombie' = zombie /\ "sleep" \notin {"dead", "join"}
        /\ th_cur \in inlist \cup {t}
    BY <2>1 DEF Runs
  <2>3. UNCHANGED life \/ SwitchFrees
    <3> HIDE DEF Caller, At, CallerOn, runVars, callVars, flagVars
    <3> QED BY <2>1, <2>2, SwitchLives
  <2> QED BY <2>1, <2>2, <2>3, StayFates
<1>8. ASSUME NEW u \in Threads, KthreadNew(t, u)
      PROVE  Fates
  <2>1. /\ Runs(t) /\ pc[t] = "user" /\ pc' = [pc EXCEPT ![t] = "newtls"]
        /\ peer' = [peer EXCEPT ![t] = u] /\ life[u] = "unborn"
        /\ life' = [life EXCEPT ![u] = "live"] /\ th_count' = th_count + 1
        /\ UNCHANGED <<zombie, detached, waitforjoin, suspended, closed, joiner>>
    BY <1>8 DEF KthreadNew
  <2>2. /\ \A v \in Threads : v # th_cur => pc'[v] = pc[v] /\ peer'[v] = peer[v]
        /\ SameDead /\ pc'[th_cur] # "join"
    BY <1>0, <2>1 DEF Runs, SameDead
  <2>3. Beginning
    BY <2>1, <2>2 DEF Beginning
  <2> QED BY <2>1, <2>2, <2>3 DEF Fates
<1>9. ASSUME NEW u \in Threads, \/ KthreadSuspend(t, u) \/ KthreadResume(t, u)
                                \/ KthreadDetach(t, u)
      PROVE  Fates
  <2>1. /\ Runs(t) /\ pc[t] = "user" /\ UNCHANGED <<pc, peer, life>>
        /\ detached \subseteq detached' /\ ("suspend" \in Calls \/ UNCHANGED suspended)
        /\ ("detach" \in Calls \/ UNCHANGED detached)
        /\ UNCHANGED <<th_count, zombie, waitforjoin, closed, joiner>>
    BY <1>9 DEF KthreadSuspend, KthreadResume, KthreadDetach
  <2> QED BY <1>0, <2>1, StayFates DEF Runs
<1>10. ASSUME NEW u \in Threads, KthreadKill(t, u)
       PROVE  Fates
  <2>1. /\ Runs(t) /\ "kill" \in Calls /\ Terminate(u)
        /\ UNCHANGED <<detached, suspended, closed, pc, peer, joiner>>
        /\ Continue(ReadyAfterKill(u), InlistAfterKill(u), KillAsserts(u))
    BY <1>10 DEF KthreadKill
  <2>2. joiner[u] = None
    BY <2>1 DEF ThreadInv, JoinersAside
  <2>3. Killing
    BY <2>1, <2>2 DEF Killing, Continue, InlistAfterKill, WakesJoiner
  <2> QED BY <2>1, <2>3 DEF Fates
<1>11. ASSUME NEW u \in Threads, KthreadJoinExited(t, u)
       PROVE  Fates
  <2>1. /\ Runs(t) /\ "join" \in Calls /\ u # Idle /\ u \in waitforjoin /\ Free(u)
        /\ UNCHANGED <<flagVars, pc, peer, th_cur, inlist>>
    BY <1>11 DEF KthreadJoinExited
  <2>2. Joining
    BY <2>1 DEF Joining
  <2> QED BY <2>1, <2>2 DEF Fates
<1>12. ASSUME NEW u \in Threads, KthreadTryJoin(t, u)
       PROVE  Fates
  <2>1. /\ Runs(t) /\ "try_join" \in Calls /\ u # Idle /\ pc[t] = "user"
        /\ IF u \in waitforjoin THEN Free(u) ELSE UNCHANGED <<life, all_threads>>
        /\ UNCHANGED <<flagVars, pc, peer, th_cur, inlist>>
    BY <1>12 DEF KthreadTryJoin
  <2>2. CASE u \in waitforjoin
    <3>1. Joining
      BY <2>1, <2>2 DEF Joining
    <3> QED BY <2>1, <3>1 DEF Fates
  <2>3. CASE u \notin waitforjoin
    BY <1>0, <2>1, <2>3, StayFates DEF Runs
  <2> QED BY <2>2, <2>3
<1>13. ASSUME NEW u \in Threads, NEW p, KthreadSetPri(t, u, p)
       PROVE  Fates
  <2>1. /\ Runs(t) /\ pc[t] = "user" /\ pc' = [pc EXCEPT ![t] = "check"]
        /\ UNCHANGED <<life, flagVars, peer>> /\ "check" \notin {"dead", "join"}
    BY <1>13 DEF KthreadSetPri
  <2> QED BY <2>1, StayFates DEF Runs
<1>14. ASSUME NEW u \in Threads, KthreadJoinWait(t, u)
       PROVE  Fates
  <2>1. /\ Runs(t) /\ "joinwait" \in Calls /\ pc[t] = "user" /\ pc[u] # "dead" /\ u # t
        /\ pc' = [pc EXCEPT ![t] = "join"] /\ peer' = [peer EXCEPT ![t] = u]
        /\ UNCHANGED <<th_count, zombie, detached, waitforjoin, suspended, closed>>
        /\ Switch(th_ready, inlist, TRUE)
    BY <1>14 DEF KthreadJoinWait
  <2>2. /\ \A v \in Threads : v # th_cur => pc'[v] = pc[v] /\ peer'[v] = peer[v]
        /\ SameDead /\ peer'[th_cur] = u /\ pc'[u] # "dead"
    BY <1>0, <2>1 DEF Runs, SameDead
  <2>3. UNCHANGED life \/ SwitchFrees
    BY <2>1 DEF Switch, Schedule, SwitchFrees
  <2>4. Going
    BY <2>1, <2>2, <2>3 DEF Going
  <2> QED BY <2>1, <2>2, <2>4 DEF Fates
<1> QED
  BY <1>1, <1>2, <1>3, <1>4, <1>5, <1>6, <1>7, <1>8, <1>9, <1>10, <1>11, <1>12,
     <1>13, <1>14, <1>0 DEF Life

(* The interrupt handler.                                                  *)
LEMMA HandlerFates ==
  ASSUME ThreadInv, Handler
  PROVE  Fates
<1> USE DEF runVars, callVars, flagVars
<1>1. UNCHANGED <<flagVars, pc, peer>>
  BY DEF Handler, Interrupt, InterruptEnd, TimerFire, KcondSignalIsr, KcondBroadcastIsr
<1>2. UNCHANGED life \/ SwitchFrees
  <2>1. CASE InterruptEnd
    <3>1. isr /\ (UNCHANGED life \/ Schedule(th_ready, inlist, FALSE, TRUE))
      BY <2>1 DEF InterruptEnd
    <3> QED BY <1>1, <3>1 DEF Schedule, SwitchFrees
  <2>2. CASE ~InterruptEnd
    BY <2>2 DEF Handler, Interrupt, TimerFire, KcondSignalIsr, KcondBroadcastIsr
  <2> QED BY <2>1, <2>2
<1>3. Going
  BY <1>1, <1>2 DEF Going, SameDead
<1> QED
  BY <1>1, <1>3 DEF Fates

(* A step that does not close the kernel.                                  *)
LEMMA NextFates ==
  ASSUME KernelAssumption, ThreadInv, Next
  PROVE  ~panic /\ ~closed /\ (Fates \/ KernelClose)
<1>1. Fates \/ KernelClose
  BY LifeFates, SyncFates, HandlerFates DEF Next
<1>2. ~panic /\ ~closed
  <2>1. isr => ~closed
    BY DEF ThreadInv, RunningAlone
  <2>2. ASSUME NEW t \in Threads, Life(t)
        PROVE  Runs(t)
    BY <2>2 DEF Life, Caller, At, CallerOn, KthreadNewInit, KthreadYield, KthreadYieldSwitch,
       KthreadExit, KthreadJoinResume, KthreadSleep, KthreadSleepSwitch, KthreadSleepResume,
       KthreadNew, KthreadSuspend, KthreadResume, KthreadDetach, KthreadKill,
       KthreadJoinExited, KthreadJoinWait, KthreadTryJoin, KthreadSetPri
  <2>3. ASSUME NEW t \in Threads, Sync(t)
        PROVE  Runs(t)
    BY <2>3 DEF Sync, Caller, At, KmutexLockResume, KmutexTryLockLoop, KcondWaitResume,
       KcondWaitTimeoutSwitch, KcondWaitTimeoutResume, KmutexLock, KmutexUnlock,
       KmutexTryLock, KmutexTryLockStart, KcondSignal, KcondBroadcast, KcondWait,
       KcondWaitTimeout
  <2>4. KernelClose => Runs(Main)
    BY DEF KernelClose, Caller, At
  <2>5. Handler => ~panic /\ ~closed
    BY <2>1 DEF Handler, Interrupt, InterruptEnd, TimerFire, KcondSignalIsr,
       KcondBroadcastIsr, Polling
  <2> QED BY <2>2, <2>3, <2>4, <2>5 DEF Next, Runs
<1> QED
  BY <1>1, <1>2
-----------------------------------------------------------------------------
(* Threads that have ended.                                                *)

(* Without kthread_kill only a thread that has left its code (or the idle  *)
(* one, once the kernel is closed) is finished or freed, and it is gone    *)
(* from the lists and from the CPU.                                        *)
EndedAside ==
  \A t \in Threads :
    /\ t \in zombie \cup waitforjoin \/ life[t] = "freed" =>
         pc[t] = "dead" \/ (closed /\ t = Idle)
    /\ pc[t] = "dead" => t \notin inlist \cup {th_cur}

(* A program that kills threads waits for none, and is built with the      *)
(* assertions that catch a killed thread on its way out of the CPU.        *)
CleanKills ==
  "kill" \in Calls => Debug /\ {"join", "joinwait", "try_join"} \cap Calls = {}

FreedAside ==
  ~panic /\ ~closed =>
    \A t \in Threads : life[t] = "freed" => t \notin inlist \cup {th_cur}

(* Without kills and suspensions: whoever is linked nowhere and does not   *)
(* run waits for a thread that has not ended or that nobody may wait for.  *)
NobodyForgotten ==
  ~closed =>
    /\ suspended = {}
    /\ \A t \in Threads :
         life[t] = "live" /\ pc[t] # "dead" /\ t \notin inlist \cup {th_cur} =>
           pc[t] = "join" /\ (pc[peer[t]] # "dead" \/ peer[t] \in detached)

(* The threads that were created and have not ended.                       *)
Begun == {t \in Threads : life[t] # "unborn" /\ pc[t] # "dead"}

CountFollows == ~closed => th_count = Cardinality(Begun)

(* Where a life goes in a step.                                            *)
LEMMA LivesMove ==
  ASSUME ThreadInv, Fates, NEW u \in Threads
  PROVE  \/ life'[u] = life[u]
         \/ life[u] = "unborn" /\ life'[u] = "live"
         \/ /\ life'[u] = "freed"
            /\ \/ u = th_cur /\ Ending
               \/ u \in waitforjoin /\ Joining
               \/ u = th_cur /\ SwitchFrees
<1>1. life \in [Threads -> {"unborn", "live", "freed"}] /\ th_cur \in Threads
  BY DEF ThreadInv, TypeInv, TypeOK
<1>2. CASE Ending
  BY <1>1, <1>2 DEF Ending, Free
<1>3. CASE Killing
  BY <1>3 DEF Killing
<1>4. CASE Beginning
  BY <1>1, <1>4 DEF Beginning
<1>5. CASE Joining
  BY <1>1, <1>5 DEF Joining, Free
<1>6. CASE Going
  BY <1>1, <1>6 DEF Going, SwitchFrees, Free
<1> QED
  BY <1>2, <1>3, <1>4, <1>5, <1>6 DEF Fates

(* Who ends in a step is the running thread, and it ends only once.        *)
LEMMA DeathsMove ==
  ASSUME ThreadInv, Fates, NEW u \in Threads
  PROVE  /\ pc[u] = "dead" => pc'[u] = "dead"
         /\ pc'[u] = "dead" /\ pc[u] # "dead" => u = th_cur /\ Ending
         /\ Ending => th_cur # Idle /\ pc[th_cur] # "dead" /\ pc'[th_cur] = "dead"
<1>1. pc \in [Threads -> PCs] /\ th_cur \in Threads
  BY DEF ThreadInv, TypeInv, TypeOK
<1>2. CASE Ending
  BY <1>1, <1>2 DEF Ending
<1>3. CASE Killing \/ Joining
  BY <1>1, <1>3 DEF Killing, Joining, Ending
<1>4. CASE Beginning \/ Going
  BY <1>1, <1>4 DEF Beginning, Going, SameDead, Ending
<1> QED
  BY <1>2, <1>3, <1>4 DEF Fates

(* Who has ended stays aside.                                              *)
LEMMA FatesKeepEnded ==
  ASSUME KernelAssumption, "kill" \notin Calls, ThreadInv, Kept, Fates, ~closed,
         EndedAside
  PROVE  EndedAside'
<1> SUFFICES ASSUME NEW t \in Threads
    PROVE  /\ t \in zombie' \cup waitforjoin' \/ life'[t] = "freed" => pc'[t] = "dead"
           /\ pc'[t] = "dead" => t \notin inlist' \cup {th_cur'}
    BY DEF EndedAside
<1>1. /\ t \in zombie \cup waitforjoin \/ life[t] = "freed" => pc[t] = "dead"
      /\ pc[t] = "dead" => t \notin inlist \cup {th_cur}
  BY DEF EndedAside
<1>2. ASSUME t \in zombie' \cup waitforjoin'
      PROVE  pc'[t] = "dead"
  <2>1. CASE t \in zombie \cup waitforjoin
    BY <1>1, <2>1, DeathsMove
  <2>2. CASE t \notin zombie \cup waitforjoin
    <3>1. Ending
      BY <1>2, <2>2 DEF Fates, Killing, Beginning, Joining, Going
    <3>2. t = th_cur
      BY <1>2, <2>2, <3>1 DEF Ending, Terminate
    <3> QED BY <3>1, <3>2, DeathsMove
  <2> QED BY <2>1, <2>2
<1>3. ASSUME life'[t] = "freed"
      PROVE  pc'[t] = "dead"
  <2>1. CASE life[t] = "freed" \/ t \in waitforjoin
    BY <1>1, <2>1, DeathsMove
  <2>2. CASE t = th_cur /\ Ending
    BY <2>2, DeathsMove
  <2>3. CASE t = th_cur /\ SwitchFrees
    BY <1>1, <2>3 DEF SwitchFrees
  <2> QED BY <1>3, <2>1, <2>2, <2>3, LivesMove
<1>4. ASSUME pc'[t] = "dead"
      PROVE  t \notin inlist' \cup {th_cur'}
  <2>1. CASE pc[t] # "dead"
    <3>1. t = th_cur
      BY <1>4, <2>1, DeathsMove
    <3> QED BY <1>4, <2>1, <3>1 DEF Kept
  <2>2. CASE pc[t] = "dead"
    <3>1. t \notin inlist \cup {th_cur}
      BY <1>1, <2>2
    <3>2. life[t] # "unborn"
      BY <2>2 DEF ThreadInv, UnbornAside
    <3>3. pc[th_cur] # "dead" => t # joiner[th_cur]
      <4>1. th_cur \in Threads /\ None \notin Threads
        BY DEF ThreadInv, TypeInv, TypeOK, KernelAssumption
      <4> QED BY <2>2, <4>1 DEF ThreadInv, JoinersAside
    <3> QED BY <3>1, <3>2, <3>3 DEF Kept
  <2> QED BY <2>1, <2>2
<1> QED
  BY <1>2, <1>3, <1>4

(* Who was freed stays aside, also where threads are killed.               *)
LEMMA FatesKeepFreed ==
  ASSUME KernelAssumption, CleanKills, "kill" \in Calls, ThreadInv, Kept, Fates,
         ~panic, ~closed, FreedAside
  PROVE  FreedAside'
<1> SUFFICES ASSUME ~panic', NEW t \in Threads, life'[t] = "freed"
    PROVE  t \notin inlist' \cup {th_cur'}
    BY DEF FreedAside
<1>0. /\ Debug /\ {"join", "joinwait", "try_join"} \cap Calls = {}
      /\ th_cur \in Threads /\ None \notin Threads
  BY DEF CleanKills, ThreadInv, TypeInv, TypeOK, KernelAssumption
<1>1. CASE life[t] = "freed"
  <2>1. t \notin inlist \cup {th_cur}
    BY <1>1 DEF FreedAside
  <2>2. joiner[th_cur] = None
    BY <1>0 DEF ThreadInv, JoinersAside
  <2> QED BY <1>0, <1>1, <2>1, <2>2 DEF Kept
<1>2. CASE t = th_cur /\ Ending
  BY <1>2, DeathsMove DEF Kept
<1>3. CASE t = th_cur /\ SwitchFrees /\ life[t] # "freed"
  <2>1. isr
    BY <1>0, <1>3 DEF SwitchFrees
  <2>2. life' # life
    BY <1>3
  <2> QED BY <1>3, <2>1, <2>2 DEF Kept
<1>4. ~Joining
  BY <1>0 DEF Joining
<1> QED
  BY <1>1, <1>2, <1>3, <1>4, LivesMove

(* Nobody is forgotten in a step.                                          *)
LEMMA FatesKeepRemembered ==
  ASSUME KernelAssumption, {"kill", "suspend"} \cap Calls = {}, ThreadInv, Kept, Fates,
         ~closed, EndedAside', ~closed', NobodyForgotten
  PROVE  NobodyForgotten'
<1>1. suspended' = {}
  BY DEF NobodyForgotten, Fates
<1> SUFFICES ASSUME NEW t \in Threads, life'[t] = "live", pc'[t] # "dead",
                    t \notin inlist' \cup {th_cur'}
    PROVE  pc'[t] = "join" /\ (pc'[peer'[t]] # "dead" \/ peer'[t] \in detached')
    BY <1>1 DEF NobodyForgotten
<1>2. life[t] = "live" /\ pc[t] # "dead"
  BY LivesMove, DeathsMove DEF Kept
<1>3. t \notin zombie' \cup waitforjoin' \cup suspended'
  <2>1. t \notin zombie' \cup waitforjoin'
    BY DEF EndedAside
  <2> QED BY <1>1, <2>1
<1>4. CASE t \in inlist \cup {th_cur}
  <2>1. pc'[t] = "join" /\ pc[t] # "join"
    BY <1>3, <1>4 DEF Kept
  <2>2. t = th_cur
    BY <2>1 DEF Fates
  <2> QED BY <2>1, <2>2 DEF Fates
<1>5. CASE t \notin inlist \cup {th_cur}
  <2>1. pc[t] = "join" /\ (pc[peer[t]] # "dead" \/ peer[t] \in detached)
    BY <1>2, <1>5 DEF NobodyForgotten
  <2>2. pc'[t] = "join" /\ peer'[t] = peer[t]
    BY <1>5, <2>1 DEF Fates
  <2>3. /\ peer[t] \in Threads
        /\ joiner[peer[t]] = t
        /\ t # None
    <3>1. peer[t] \in Threads
      BY <2>1 DEF ThreadInv, TypeInv, TypeOK, CallObjects
    <3>2. joiner[peer[t]] = t
      BY <2>1 DEF ThreadInv, JoinersAside
    <3> QED BY <3>1, <3>2 DEF KernelAssumption
  <2>4. ASSUME pc'[peer[t]] = "dead", pc[peer[t]] # "dead", peer[t] \notin detached
        PROVE  FALSE
    <3>1. peer[t] = th_cur
      BY <2>3, <2>4, DeathsMove
    <3>2. WakesJoiner(th_cur)
      BY <2>3, <2>4, <3>1 DEF WakesJoiner
    <3>3. t \in inlist' \cup {th_cur'} \cup waitforjoin' \cup suspended'
      BY <2>3, <2>4, <3>1, <3>2 DEF Kept
    <3> QED BY <1>3, <3>3
  <2>5. detached \subseteq detached'
    BY DEF Fates
  <2> QED BY <2>1, <2>2, <2>4, <2>5
<1> QED
  BY <1>4, <1>5

(* A step counts who begins and who ends.                                  *)
LEMMA FatesKeepCount ==
  ASSUME KernelAssumption, "kill" \notin Calls, IsFiniteSet(Threads), ThreadInv, Fates,
         ~closed, EndedAside, CountFollows
  PROVE  CountFollows'
<1> DEFINE W == Begun
           V == Begun'
<1>1. /\ W \subseteq Threads /\ V \subseteq Threads /\ th_count = Cardinality(W)
  BY DEF Begun, CountFollows
<1>2. /\ IsFiniteSet(W) /\ Cardinality(W) \in Nat
  BY <1>1, FS_Subset, FS_CardinalityType
<1>3. /\ \A u \in Threads : u \in W <=> life[u] # "unborn" /\ pc[u] # "dead"
      /\ \A u \in Threads : u \in V <=> life'[u] # "unborn" /\ pc'[u] # "dead"
  BY DEF Begun
<1>4. /\ life \in [Threads -> {"unborn", "live", "freed"}] /\ th_cur \in Threads
      /\ life[th_cur] # "unborn"
  BY DEF ThreadInv, TypeInv, TypeOK, UnbornAside
<1> HIDE DEF W, V
<1>5. SUFFICES th_count' = Cardinality(V)
  BY DEF CountFollows, V
<1>6. CASE Ending
  <2>1. /\ pc[th_cur] # "dead" /\ pc'[th_cur] = "dead"
        /\ \A u \in Threads : u # th_cur => (pc'[u] = "dead" <=> pc[u] = "dead")
        /\ \A u \in Threads : life'[u] = "unborn" <=> life[u] = "unborn"
    <3>1. \A u \in Threads : life'[u] = "unborn" <=> life[u] = "unborn"
      BY <1>4, <1>6 DEF Ending, Free
    <3> QED BY <1>6, <3>1, DeathsMove DEF Fates
  <2>2. V = W \ {th_cur} /\ th_cur \in W
    BY <1>1, <1>3, <1>4, <2>1
  <2>3. Cardinality(V) = Cardinality(W) - 1
    BY <1>2, <2>2, FS_RemoveElement
  <2>4. th_count' = th_count - 1
    BY <1>6 DEF Ending, Terminate
  <2> QED BY <1>1, <2>3, <2>4
<1>7. CASE Beginning
  <2>1. PICK u \in Threads : life[u] = "unborn" /\ life' = [life EXCEPT ![u] = "live"]
    BY <1>7 DEF Beginning
  <2>2. /\ SameDead /\ pc[u] = "user" /\ th_count' = th_count + 1
    BY <1>7, <2>1 DEF Beginning, ThreadInv, UnbornAside
  <2>3. /\ life'[u] # "unborn"
        /\ \A v \in Threads : v # u => life'[v] = life[v]
    BY <1>4, <2>1
  <2>4. /\ pc'[u] # "dead"
        /\ \A v \in Threads : pc'[v] = "dead" <=> pc[v] = "dead"
    BY <2>2 DEF SameDead
  <2>5. V = W \cup {u} /\ u \notin W
    BY <1>1, <1>3, <2>1, <2>3, <2>4
  <2>6. Cardinality(V) = Cardinality(W) + 1
    BY <1>2, <2>5, FS_AddElement
  <2> QED BY <1>1, <2>2, <2>6
<1>8. CASE Joining \/ Going
  <2>1. th_count' = th_count
    BY <1>8 DEF Joining, Going
  <2>2. \A u \in Threads : pc'[u] = "dead" <=> pc[u] = "dead"
    BY <1>8 DEF Joining, Going, SameDead
  <2>3. \A u \in Threads : life'[u] = "unborn" <=> life[u] = "unborn"
    <3>1. \A u \in waitforjoin : life[u] # "unborn"
      BY DEF EndedAside, ThreadInv, UnbornAside, TypeInv, TypeOK
    <3>2. CASE Joining
      BY <1>4, <3>1, <3>2 DEF Joining, Free
    <3>3. CASE Going
      BY <1>4, <3>3 DEF Going, SwitchFrees, Free
    <3> QED BY <1>8, <3>2, <3>3
  <2>4. V = W
    BY <1>1, <1>3, <2>2, <2>3
  <2> QED BY <1>1, <2>1, <2>4
<1>9. ~Killing
  BY DEF Killing
<1> QED
  BY <1>6, <1>7, <1>8, <1>9 DEF Fates

(* kernel_close leaves the threads where they are.                         *)
LEMMA ClosingFates ==
  ASSUME KernelAssumption, ThreadInv, KernelClose
  PROVE  /\ closed' /\ th_cur' = th_cur /\ th_cur = Main
         /\ UNCHANGED <<inlist, waitforjoin, pc, peer, th_ready, waiting, timer, suspended>>
         /\ zombie' = zombie \cup {Idle}
         /\ \A u \in Threads : u # Idle => life'[u] = life[u]
         /\ \A u \in Threads \ {Main, Idle} : life[u] # "live" \/ u \in zombie \cup waitforjoin
<1>1. /\ closed' /\ th_cur' = th_cur /\ th_cur = Main
      /\ UNCHANGED <<inlist, waitforjoin, pc, peer, th_ready, waiting, timer, suspended>>
      /\ zombie' = zombie \cup {Idle}
  BY DEF KernelClose, Caller, At, Runs, callVars, timerVars
<1>2. \A u \in Threads : u # Idle => life'[u] = life[u]
  BY DEF KernelClose, Free, ThreadInv, TypeInv, TypeOK
<1>3. \A u \in Threads \ {Main, Idle} : life[u] # "live" \/ u \in zombie \cup waitforjoin
  BY DEF KernelClose
<1> QED
  BY <1>1, <1>2, <1>3

(* kernel_close ends the idle thread only.                                 *)
LEMMA CloseKeepsEnded ==
  ASSUME KernelAssumption, ThreadInv, KernelClose, EndedAside
  PROVE  EndedAside'
<1> SUFFICES ASSUME NEW t \in Threads
    PROVE  /\ t \in zombie' \cup waitforjoin' \/ life'[t] = "freed" =>
                pc'[t] = "dead" \/ t = Idle
           /\ pc'[t] = "dead" => t \notin inlist' \cup {th_cur'}
    BY ClosingFates DEF EndedAside
<1>1. /\ UNCHANGED <<inlist, th_cur, pc, waitforjoin>> /\ zombie' = zombie \cup {Idle}
      /\ t # Idle => life'[t] = life[t]
  BY ClosingFates
<1> QED
  BY <1>1 DEF EndedAside

(* Nothing happens.                                                        *)
LEMMA StutterKeepsFates ==
  ASSUME UNCHANGED vars
  PROVE  /\ EndedAside => EndedAside'
         /\ FreedAside => FreedAside'
         /\ NobodyForgotten => NobodyForgotten'
         /\ CountFollows => CountFollows'
<1>1. UNCHANGED <<zombie, waitforjoin, life, pc, closed, inlist, th_cur, panic, suspended,
                  detached, peer, th_count>>
  BY DEF vars, runVars, flagVars, callVars
<1> QED
  BY <1>1 DEF EndedAside, FreedAside, NobodyForgotten, CountFollows, Begun

(* After kernel_init nobody has ended.                                     *)
LEMMA InitFates ==
  ASSUME KernelAssumption, Init
  PROVE  EndedAside /\ FreedAside /\ NobodyForgotten
<1>1. /\ th_cur = Main /\ inlist = {Idle} /\ zombie = {} /\ waitforjoin = {} /\ suspended = {}
      /\ \A t \in Threads : /\ pc[t] = "user" /\ life[t] # "freed"
                            /\ t \notin {Main, Idle} => life[t] # "live"
  BY DEF Init
<1> QED
  BY <1>1 DEF EndedAside, FreedAside, NobodyForgotten

(* kernel_init counts the main and the idle thread.                        *)
LEMMA InitCount ==
  ASSUME KernelAssumption, Init
  PROVE  CountFollows
<1>1. Begun = {Main, Idle} /\ Main # Idle /\ th_count = 2
  BY DEF Init, Begun, KernelAssumption
<1>2. Cardinality({Main, Idle}) = 2
  <2>1. {Main, Idle} = {Main} \cup {Idle} /\ Idle \notin {Main}
    BY <1>1
  <2>2. IsFiniteSet({Main}) /\ Cardinality({Main}) = 1
    BY FS_Singleton
  <2>3. Cardinality({Main} \cup {Idle}) = Cardinality({Main}) + 1
    BY <2>1, <2>2, FS_AddElement
  <2> QED BY <2>1, <2>2, <2>3
<1> QED
  BY <1>1, <1>2 DEF CountFollows

(* Every step: a fate, the end of the kernel, or nothing.                  *)
LEMMA StepFates ==
  ASSUME KernelAssumption, KillsNoJoiner, ThreadInv, [Next]_vars
  PROVE  /\ ThreadInv'
         /\ \/ Kept /\ Fates /\ ~panic /\ ~closed
            \/ KernelClose
            \/ UNCHANGED vars
<1>1. CASE Next
  <2>1. TypeInv'
    BY <1>1, NextKeepsTypes DEF ThreadInv
  <2> QED BY <1>1, <2>1, NextKeepsThreadInv, NextFates
<1>2. CASE UNCHANGED vars
  BY <1>2, StutterKeepsThreadInv
<1> QED
  BY <1>1, <1>2

(* Once the kernel is closed only the main thread is left.                 *)
ClosedAlone == closed => \A t \in Threads : Working(t) => t = th_cur

EndInv == ThreadInv /\ EndedAside /\ ClosedAlone

(* The inductive invariant of the threads that end by themselves.          *)
THEOREM EndInvHolds ==
  ASSUME "kill" \notin Calls
  PROVE  Spec => []EndInv
<1>0. KillsNoJoiner
  BY DEF KillsNoJoiner
<1>1. Init => EndInv
  <2>1. Init => ClosedAlone
    BY DEF Init, ClosedAlone
  <2> QED BY <2>1, InitThreadInv, InitFates, KernelAssumption DEF EndInv
<1>2. EndInv /\ [Next]_vars => EndInv'
  <2> SUFFICES ASSUME EndInv, [Next]_vars
      PROVE  EndInv'
      OBVIOUS
  <2>0. ThreadInv /\ EndedAside /\ ClosedAlone
    BY DEF EndInv
  <2>1. /\ ThreadInv'
        /\ \/ Kept /\ Fates /\ ~panic /\ ~closed
           \/ KernelClose
           \/ UNCHANGED vars
    BY <1>0, <2>0, StepFates, KernelAssumption
  <2>2. CASE Kept /\ Fates /\ ~closed
    <3>1. EndedAside'
      BY <2>0, <2>2, FatesKeepEnded, KernelAssumption
    <3>2. ClosedAlone'
      BY <2>2 DEF ClosedAlone, Fates
    <3> QED BY <2>1, <3>1, <3>2 DEF EndInv
  <2>3. CASE KernelClose
    <3>1. EndedAside'
      BY <2>0, <2>3, CloseKeepsEnded, KernelAssumption
    <3>2. ClosedAlone'
      <4>1. /\ th_cur' = th_cur /\ th_cur = Main
            /\ zombie' = zombie \cup {Idle} /\ waitforjoin' = waitforjoin
            /\ \A u \in Threads : u # Idle => life'[u] = life[u]
            /\ \A u \in Threads \ {Main, Idle} :
                 life[u] # "live" \/ u \in zombie \cup waitforjoin
        BY <2>0, <2>3, ClosingFates, KernelAssumption
      <4> QED BY <4>1 DEF ClosedAlone, Working
    <3> QED BY <2>1, <3>1, <3>2 DEF EndInv
  <2>4. CASE UNCHANGED vars
    <3>1. EndedAside'
      BY <2>0, <2>4, StutterKeepsFates
    <3>2. ClosedAlone'
      <4>1. UNCHANGED <<closed, life, zombie, waitforjoin, pc, th_cur>>
        BY <2>4 DEF vars, runVars, flagVars, callVars
      <4> QED BY <2>0, <4>1 DEF ClosedAlone, Working
    <3> QED BY <2>1, <3>1, <3>2 DEF EndInv
  <2> QED BY <2>1, <2>2, <2>3, <2>4
<1> QED
  BY <1>1, <1>2, PTL DEF Spec

(***************************************************************************)
(* The timer list never refers to the stack of a thread that has ended or  *)
(* has left the call that started the timer.                               *)
(***************************************************************************)
THEOREM TimersHold ==
  ASSUME "kill" \notin Calls
  PROVE  Spec => []TimersOnLiveStacks
<1>1. EndInv => TimersOnLiveStacks
  <2> SUFFICES ASSUME EndInv, NEW t \in timer
      PROVE  life[t] = "live" /\ pc[t] \in Arming \cup {"trylock", "condtimed", "sleep"}
      BY DEF TimersOnLiveStacks
  <2>1. pc[t] \in Arming \cup {"trylock", "condtimed", "sleep"}
    BY DEF EndInv, ThreadInv, TimersInCalls
  <2>2. pc[t] \notin {"user", "dead"}
    BY <2>1 DEF Arming
  <2>3. t \in Threads /\ life[t] \in {"unborn", "live", "freed"} /\ pc[Idle] = "user"
    BY DEF EndInv, ThreadInv, TypeInv, TypeOK, IdleReady
  <2>4. life[t] # "unborn"
    BY <2>2, <2>3 DEF EndInv, ThreadInv, UnbornAside
  <2>5. life[t] # "freed"
    BY <2>2, <2>3 DEF EndInv, EndedAside
  <2> QED BY <2>1, <2>3, <2>4, <2>5
<1> QED
  BY <1>1, EndInvHolds, PTL

(***************************************************************************)
(* No list links a thread whose memory was freed and the CPU does not run  *)
(* it: neither the scheduler nor kthread_join frees a thread too early.    *)
(***************************************************************************)
THEOREM FreedThreadsUnlinked ==
  ASSUME "kill" \notin Calls
  PROVE  Spec => []NoFreedThreadLinked
<1>1. EndInv => NoFreedThreadLinked
  <2> SUFFICES ASSUME EndInv, ~closed, NEW t \in Threads, life[t] = "freed"
      PROVE  Links(t) = {} /\ th_cur # t
      BY DEF NoFreedThreadLinked
  <2>1. t \notin inlist \cup {th_cur}
    BY DEF EndInv, EndedAside
  <2>2. IF t \in inlist \ Sleepers THEN \E x : Links(t) = {x} ELSE Links(t) = {}
    BY KernelAssumption, LinksOf DEF EndInv, ThreadInv
  <2> QED BY <2>1, <2>2
<1> QED
  BY <1>1, EndInvHolds, PTL

(***************************************************************************)
(* th_count, which kernel_close waits for, counts exactly the threads that *)
(* were created and have not ended.                                        *)
(***************************************************************************)
THEOREM CountHolds ==
  ASSUME "kill" \notin Calls, IsFiniteSet(Threads)
  PROVE  Spec => []CountIsExact
<1>0. KillsNoJoiner
  BY DEF KillsNoJoiner
<1>1. Init => CountFollows
  BY InitCount, KernelAssumption
<1>2. EndInv /\ CountFollows /\ [Next]_vars => CountFollows'
  <2> SUFFICES ASSUME EndInv, CountFollows, [Next]_vars
      PROVE  CountFollows'
      OBVIOUS
  <2>1. \/ Kept /\ Fates /\ ~panic /\ ~closed
        \/ KernelClose
        \/ UNCHANGED vars
    BY <1>0, StepFates, KernelAssumption DEF EndInv
  <2>2. CASE Fates /\ ~closed
    BY <2>2, FatesKeepCount, KernelAssumption DEF EndInv
  <2>3. CASE KernelClose
    BY <2>3 DEF KernelClose, CountFollows
  <2>4. CASE UNCHANGED vars
    BY <2>4, StutterKeepsFates
  <2> QED BY <2>1, <2>2, <2>3, <2>4
<1>3. EndInv /\ CountFollows => CountIsExact
  <2> SUFFICES ASSUME EndInv, CountFollows, ~closed
      PROVE  th_count = Cardinality({t \in Threads : Working(t)})
      BY DEF CountIsExact
  <2>1. {t \in Threads : Working(t)} = Begun
    BY DEF Begun, Working, EndInv, EndedAside, ThreadInv, TypeInv, TypeOK
  <2> QED BY <2>1 DEF CountFollows
<1> QED
  BY <1>1, <1>2, <1>3, EndInvHolds, PTL DEF Spec

(***************************************************************************)
(* No thread is lost, in programs that neither kill nor suspend threads:   *)
(* one that works is running, linked, asleep with its timer armed, or      *)
(* waits in kthread_join for a thread that works (or was detached after).  *)
(***************************************************************************)
THEOREM NoThreadIsLost ==
  ASSUME {"kill", "suspend"} \cap Calls = {}
  PROVE  Spec => []NoLostThread
<1>0. KillsNoJoiner /\ "kill" \notin Calls
  BY DEF KillsNoJoiner
<1>1. Init => NobodyForgotten
  BY InitFates, KernelAssumption
<1>2. EndInv /\ EndInv' /\ NobodyForgotten /\ [Next]_vars => NobodyForgotten'
  <2> SUFFICES ASSUME EndInv, EndInv', NobodyForgotten, [Next]_vars
      PROVE  NobodyForgotten'
      OBVIOUS
  <2>1. \/ Kept /\ Fates /\ ~panic /\ ~closed
        \/ KernelClose
        \/ UNCHANGED vars
    BY <1>0, StepFates, KernelAssumption DEF EndInv
  <2>2. CASE Kept /\ Fates /\ ~closed
    <3>1. ~closed'
      BY <2>2 DEF Fates
    <3>2. ThreadInv /\ EndedAside'
      BY DEF EndInv
    <3> QED BY <2>2, <3>1, <3>2, FatesKeepRemembered, KernelAssumption
  <2>3. CASE KernelClose
    BY <2>3 DEF KernelClose, NobodyForgotten
  <2>4. CASE UNCHANGED vars
    BY <2>4, StutterKeepsFates
  <2> QED BY <2>1, <2>2, <2>3, <2>4
<1>3. EndInv /\ NobodyForgotten => NoLostThread
  <2> SUFFICES ASSUME EndInv, NobodyForgotten, NEW t \in Threads, Working(t), t # th_cur
      PROVE  \/ Links(t) # {} \/ Asleep(t)
             \/ /\ pc[t] = "join" /\ joiner[peer[t]] = t
                /\ Working(peer[t]) \/ peer[t] \in detached
      BY DEF NoLostThread
  <2>1. ~closed
    BY DEF EndInv, ClosedAlone
  <2>2. CASE t \in inlist
    <3>1. IF t \in inlist \ Sleepers THEN \E x : Links(t) = {x} ELSE Links(t) = {}
      BY KernelAssumption, LinksOf DEF EndInv, ThreadInv
    <3>2. t \in Sleepers <=> Asleep(t)
      BY DEF Sleepers
    <3> QED BY <2>2, <3>1, <3>2
  <2>3. CASE t \notin inlist
    <3>1. pc[t] = "join" /\ (pc[peer[t]] # "dead" \/ peer[t] \in detached)
      BY <2>1, <2>3 DEF NobodyForgotten, Working
    <3>2. peer[t] \in Threads
      BY <3>1 DEF EndInv, ThreadInv, TypeInv, TypeOK, CallObjects
    <3>3. joiner[peer[t]] = t /\ life[peer[t]] # "unborn"
      BY <3>1 DEF EndInv, ThreadInv, JoinersAside
    <3>4. pc[peer[t]] # "dead" => Working(peer[t])
      BY <2>1, <3>2, <3>3 DEF EndInv, EndedAside, Working, ThreadInv, TypeInv, TypeOK
    <3> QED BY <3>1, <3>3, <3>4
  <2> QED BY <2>2, <2>3
<1> QED
  BY <1>0, <1>1, <1>2, <1>3, EndInvHolds, PTL DEF Spec

(***************************************************************************)
(* A context switch goes to a live thread that has not exited and is not   *)
(* suspended, and the thread that runs is linked nowhere: also when        *)
(* threads are killed, in a build with assertions and without joins.       *)
(***************************************************************************)
THEOREM SwitchesHold ==
  ASSUME CleanKills
  PROVE  Spec => SwitchesToRunnable
<1>0. KillsNoJoiner
  BY DEF KillsNoJoiner, CleanKills
<1>1. Init => FreedAside
  BY InitFates, KernelAssumption
<1>2. ThreadInv /\ FreedAside /\ [Next]_vars /\ "kill" \in Calls => FreedAside'
  <2> SUFFICES ASSUME ThreadInv, FreedAside, [Next]_vars, "kill" \in Calls
      PROVE  FreedAside'
      OBVIOUS
  <2>1. \/ Kept /\ Fates /\ ~panic /\ ~closed
        \/ KernelClose
        \/ UNCHANGED vars
    BY <1>0, StepFates, KernelAssumption
  <2>2. CASE Kept /\ Fates /\ ~panic /\ ~closed
    BY <2>2, FatesKeepFreed, KernelAssumption
  <2>3. CASE KernelClose
    BY <2>3 DEF KernelClose, FreedAside
  <2>4. CASE UNCHANGED vars
    BY <2>4, StutterKeepsFates
  <2> QED BY <2>1, <2>2, <2>3, <2>4
<1>3. Spec => []FreedAside
  <2>1. CASE "kill" \in Calls
    <3>1. ThreadInv /\ FreedAside /\ [Next]_vars => FreedAside'
      BY <1>2, <2>1
    <3> QED BY <1>0, <1>1, <3>1, ThreadInvHolds, PTL DEF Spec
  <2>2. CASE "kill" \notin Calls
    <3>1. EndInv => FreedAside
      BY DEF EndInv, EndedAside, FreedAside
    <3> QED BY <2>2, <3>1, EndInvHolds, PTL
  <2> QED BY <2>1, <2>2
<1>4. ThreadInv /\ ThreadInv' /\ FreedAside' /\ [Next]_vars =>
        [/\ ~panic' /\ th_cur' # th_cur =>
              /\ life'[th_cur'] = "live"
              /\ th_cur' \notin waitforjoin' \cup suspended'
         /\ ~panic' => th_cur' \notin inlist' \/ pc'[th_cur'] \in Arming]_vars
  <2> SUFFICES ASSUME ThreadInv, ThreadInv', FreedAside', [Next]_vars, ~panic'
      PROVE  /\ th_cur' # th_cur => /\ life'[th_cur'] = "live"
                                    /\ th_cur' \notin waitforjoin' \cup suspended'
             /\ th_cur' \notin inlist' \/ pc'[th_cur'] \in Arming
      OBVIOUS
  <2>1. th_cur' \notin inlist' \/ pc'[th_cur'] \in Arming
    BY DEF ThreadInv, RunningAlone, Arming
  <2>2. ASSUME th_cur' # th_cur
        PROVE  /\ life'[th_cur'] = "live"
               /\ th_cur' \notin waitforjoin' \cup suspended'
    <3>1. Kept /\ Fates /\ ~closed
      <4>1. ~KernelClose
        BY <2>2, ClosingFates, KernelAssumption
      <4>2. ~UNCHANGED vars
        BY <2>2 DEF vars, runVars
      <4> QED BY <1>0, <4>1, <4>2, StepFates, KernelAssumption
    <3>2. th_cur' \in Threads /\ life'[th_cur'] \in {"unborn", "live", "freed"}
      BY DEF ThreadInv, TypeInv, TypeOK
    <3>3. life'[th_cur'] # "unborn"
      BY <3>2 DEF ThreadInv, UnbornAside
    <3>4. life'[th_cur'] # "freed"
      BY <3>1, <3>2 DEF FreedAside, Fates
    <3> QED BY <2>2, <3>1, <3>2, <3>3, <3>4 DEF Kept
  <2> QED BY <2>1, <2>2
<1> QED
  BY <1>0, <1>3, <1>4, ThreadInvHolds, PTL DEF Spec, SwitchesToRunnable

-----------------------------------------------------------------------------
(* Assertions.                                                             *)

(* Programs in which no thread is freed: none is killed, and if threads    *)
(* exit, then none is joined or detached.  With assertions compiled in,    *)
(* kthread_join of a running thread always fails one.                      *)
Peaceful ==
  /\ {"kill", "try_join", "close"} \cap Calls = {}
  /\ "exit" \in Calls => {"join", "detach"} \cap Calls = {}
  /\ Debug => "joinwait" \notin Calls

(* Nothing has failed, nobody was freed, and who owns a mutex is alive.    *)
PeaceInv ==
  /\ ~panic /\ zombie = {} /\ ~closed
  /\ \A t \in Threads : life[t] # "freed"
  /\ "exit" \in Calls => detached \subseteq {Main, Idle}
  /\ "exit" \notin Calls => waitforjoin = {}
  /\ Debug => \A t \in Threads : joiner[t] = None
  /\ \A m \in Mutexes : owner[m] # None =>
       life[owner[m]] # "unborn" /\ pc[owner[m]] # "dead"

(* A mutex goes to the running thread, or to nobody.                       *)
LEMMA OwnersMove ==
  ASSUME ThreadInv, MutexInv, Next, NEW m \in Mutexes
  PROVE  owner'[m] \in {owner[m], None, th_cur}
<1>0. owner \in [Mutexes -> Threads \cup {None}]
  BY DEF MutexInv, MutexTypes
<1> USE DEF Caller, At, CallerOn, Runs, mutexVars
<1>1. ASSUME NEW t \in Threads, NEW k, Acquire(t, k) \/ Relock(t, k) \/ Release(t, k), t = th_cur
      PROVE  owner'[m] \in {owner[m], None, th_cur}
  BY <1>0, <1>1 DEF Acquire, Relock, Release
<1>2. ASSUME NEW t \in Threads, NEW k, NEW w, WaitForMutex(t, k, w)
      PROVE  owner' = owner
  BY <1>2 DEF WaitForMutex
<1>3. ASSUME NEW t \in Threads, Life(t)
      PROVE  owner' = owner
  BY <1>3 DEF Life, KthreadNewInit, KthreadYield, KthreadYieldSwitch,
     KthreadExit, KthreadJoinResume, KthreadSleep, KthreadSleepSwitch, KthreadSleepResume,
     KthreadNew, KthreadSuspend, KthreadResume, KthreadDetach, KthreadKill,
     KthreadJoinExited, KthreadJoinWait, KthreadTryJoin, KthreadSetPri
<1>4. ASSUME NEW t \in Threads, NEW k, LockLoop(t, k) \/ Lock(t, k) \/ Rewait(t), t = th_cur
      PROVE  owner'[m] \in {owner[m], None, th_cur}
  <2>1. owner' = owner \/ \E j : Acquire(t, j) \/ Relock(t, j)
    BY <1>2, <1>4 DEF LockLoop, Lock, Rewait
  <2> QED BY <1>1, <1>4, <2>1
<1>5. ASSUME NEW t \in Threads, Sync(t)
      PROVE  owner'[m] \in {owner[m], None, th_cur}
  <2>1. \/ owner' = owner
        \/ t = th_cur /\ \E k : Acquire(t, k) \/ Release(t, k)
        \/ t = th_cur /\ \E k : LockLoop(t, k) \/ Lock(t, k) \/ Rewait(t)
    <3> DEFINE Handed == \/ owner' = owner
                         \/ t = th_cur /\ \E k : Acquire(t, k) \/ Release(t, k)
                         \/ t = th_cur /\ \E k : LockLoop(t, k) \/ Lock(t, k) \/ Rewait(t)
    <3>1. CASE \/ KmutexLockResume(t) \/ KmutexTryLockLoop(t) \/ KcondWaitResume(t)
               \/ KcondWaitTimeoutSwitch(t) \/ KcondWaitTimeoutResume(t)
      BY <1>2, <3>1 DEF KmutexLockResume, KmutexTryLockLoop, KcondWaitResume,
         KcondWaitTimeoutSwitch, KcondWaitTimeoutResume
    <3>2. CASE \E k \in Mutexes : \/ KmutexLock(t, k) \/ KmutexUnlock(t, k)
                                  \/ KmutexTryLock(t, k) \/ KmutexTryLockStart(t, k)
      BY <1>2, <3>2 DEF KmutexLock, KmutexUnlock, KmutexTryLock, KmutexTryLockStart
    <3>3. CASE \E c \in Conds : KcondSignal(t, c) \/ KcondBroadcast(t, c)
      BY <3>3 DEF KcondSignal, KcondBroadcast
    <3>4. CASE \E c \in Conds : \E k \in Mutexes \cup {None} : KcondWait(t, c, k)
      BY <1>2, <3>4 DEF KcondWait, UnlockAndLink
    <3>5. CASE \E c \in Conds : \E k \in Mutexes \cup {None} : KcondWaitTimeout(t, c, k)
      BY <1>2, <3>5 DEF KcondWaitTimeout, UnlockAndLink
    <3> HIDE DEF Handed
    <3> QED
      BY <1>5, <3>1, <3>2, <3>3, <3>4, <3>5 DEF Sync, Handed
  <2> QED BY <1>1, <1>4, <2>1
<1>6. Handler \/ KernelClose => owner' = owner
  BY DEF Handler, Interrupt, InterruptEnd, TimerFire, KcondSignalIsr, KcondBroadcastIsr,
     KernelClose
<1> QED
  BY <1>3, <1>5, <1>6 DEF Next

(* Steps that fail nothing keep what the assertions rely on.               *)
LEMMA PeaceKept ==
  ASSUME KernelAssumption, Peaceful, EndInv, MutexInv, MutexInv', PeaceInv, Next, Fates,
         ~panic'
  PROVE  PeaceInv'
<1>0. /\ ThreadInv /\ EndedAside /\ th_cur \in Threads
      /\ life \in [Threads -> {"unborn", "live", "freed"}]
  BY DEF EndInv, ThreadInv, TypeInv, TypeOK
<1>1. zombie' = {}
  <2>1. CASE Ending
    <3>1. th_cur \notin detached
      BY <2>1 DEF PeaceInv, Ending
    <3> QED BY <2>1, <3>1 DEF PeaceInv, Ending, Terminate
  <2>2. ~Killing
    BY DEF Killing, Peaceful
  <2> QED BY <2>1, <2>2 DEF Fates, PeaceInv, Beginning, Joining, Going
<1>2. ~Joining
  BY DEF Joining, Peaceful, PeaceInv
<1>3. \A t \in Threads : life'[t] # "freed" /\ (life[t] # "unborn" => life'[t] # "unborn")
  <2> SUFFICES ASSUME NEW t \in Threads
      PROVE  life'[t] # "freed" /\ (life[t] # "unborn" => life'[t] # "unborn")
      OBVIOUS
  <2>1. life[t] # "freed"
    BY DEF PeaceInv
  <2>2. ~SwitchFrees
    BY DEF SwitchFrees, PeaceInv
  <2>3. Ending => life' = life
    BY <1>1 DEF Ending
  <2> QED BY <1>0, <1>2, <2>1, <2>2, <2>3, LivesMove
<1>4. /\ "exit" \in Calls => detached' \subseteq {Main, Idle}
      /\ Debug => \A t \in Threads : joiner'[t] = None
      /\ ~closed'
  BY DEF Fates, PeaceInv, Peaceful
<1>5. "exit" \notin Calls => waitforjoin' = {}
  <2>1. ~Killing
    BY DEF Killing, Peaceful
  <2> QED BY <2>1 DEF Fates, PeaceInv, Ending, Beginning, Joining, Going
<1>6. ASSUME NEW m \in Mutexes, owner'[m] # None
      PROVE  life'[owner'[m]] # "unborn" /\ pc'[owner'[m]] # "dead"
  <2> DEFINE x == owner'[m]
  <2>1. x \in {owner[m], th_cur} /\ x \in Threads
    BY <1>0, <1>6, OwnersMove DEF MutexInv, MutexTypes
  <2>2. life[x] # "unborn" /\ pc[x] # "dead"
    <3>1. CASE x = owner[m]
      BY <1>6, <3>1 DEF PeaceInv
    <3>2. CASE x = th_cur
      BY <1>0, <3>2 DEF ThreadInv, UnbornAside, EndedAside
    <3> QED BY <2>1, <3>1, <3>2
  <2>3. held'[x][m] > 0
    BY <2>1 DEF MutexInv, HoldersOwn
  <2>4. pc'[x] = "dead" => held'[x][m] = 0
    BY <1>0, <2>1, <2>2, DeathsMove DEF Ending
  <2>5. held'[x][m] \in Nat
    BY <2>1 DEF MutexInv, MutexTypes
  <2> QED BY <1>3, <2>1, <2>2, <2>3, <2>4, <2>5
<1> QED
  BY <1>1, <1>3, <1>4, <1>5, <1>6 DEF PeaceInv

(* KTHREAD_SWITCH fails nothing when its caller is linked.                 *)
LEMMA SwitchIsSafe ==
  ASSUME NEW r, NEW il, NEW ok, Switch(r, il, ok), Idle \in Nodes(r),
         Idle \notin waitforjoin' \cup suspended', zombie' = {}, th_cur \notin waitforjoin',
         Debug => ok /\ th_cur \in il
  PROVE  ~panic'
<1>1. /\ panic' = (\/ Debug /\ ~(ok /\ ParkAsserts(il, TRUE))
                   \/ Runnable(Parked(r, TRUE)) = {} \/ FreeCrashes)
  BY DEF Switch, Schedule
<1>2. Parked(r, TRUE) = r
  BY DEF Parked
<1>3. Runnable(r) # {}
  BY DEF Runnable, Nodes
<1>4. ~FreeCrashes
  BY DEF FreeCrashes
<1>5. th_cur \in il => ParkAsserts(il, TRUE)
  BY DEF ParkAsserts
<1> QED
  BY <1>1, <1>2, <1>3, <1>4, <1>5

(* What the asserts of a running thread rely on.                           *)
LEMMA CalmFacts ==
  ASSUME KernelAssumption, EndInv, MutexInv, PeaceInv, NEW t \in Threads, Runs(t)
  PROVE  /\ t = th_cur /\ Idle \in Nodes(th_ready) /\ th_ready \in Seq(Threads)
         /\ pc[t] \notin {"condarm", "sleeparm"} => t \notin inlist
         /\ zombie = {} /\ t \notin waitforjoin
         /\ Idle \notin waitforjoin \cup suspended
         /\ \A m \in Mutexes : owner[m] # None => life[owner[m]] = "live"
         /\ \A m \in Mutexes : held[t][m] > 0 => owner[m] = t /\ counter[m] = held[t][m]
<1>1. /\ t = th_cur /\ Idle \in Nodes(th_ready)
      /\ pc[t] \notin {"condarm", "sleeparm"} => t \notin inlist
  BY RunnerFacts DEF EndInv
<1>2. th_ready \in Seq(Threads) /\ Idle \notin waitforjoin \cup suspended
  BY DEF EndInv, ThreadInv, TypeInv, TypeOK, IdleReady
<1>3. zombie = {}
  BY DEF PeaceInv
<1>4. t \notin waitforjoin
  BY <1>1 DEF EndInv, EndedAside, PeaceInv
<1>5. ASSUME NEW m \in Mutexes, owner[m] # None
      PROVE  life[owner[m]] = "live"
  <2>1. life[owner[m]] \in {"unborn", "live", "freed"} /\ owner[m] \in Threads
    BY <1>5 DEF EndInv, ThreadInv, TypeInv, TypeOK
  <2> QED BY <1>5, <2>1 DEF PeaceInv
<1>6. \A m \in Mutexes : held[t][m] > 0 => owner[m] = t /\ counter[m] = held[t][m]
  BY DEF MutexInv, HoldersOwn, MutualExclusion
<1> QED
  BY <1>1, <1>2, <1>3, <1>4, <1>5, <1>6

(* The calls of a thread's life fail no assertion.                         *)
LEMMA LifeIsSafe ==
  ASSUME KernelAssumption, Peaceful, EndInv, MutexInv, PeaceInv, ThreadInv',
         NEW t \in Threads, Life(t)
  PROVE  ~panic'
<1> USE DEF Caller, At, CallerOn
<1>0. ~panic /\ "kill" \notin Calls /\ "try_join" \notin Calls
  BY DEF PeaceInv, Peaceful
<1>1. CASE KthreadNewInit(t)
  <2>1. pc[t] = "newtls" /\ panic' = (life[peer[t]] = "freed")
    BY <1>1 DEF KthreadNewInit
  <2>2. peer[t] \in Threads
    BY <2>1 DEF EndInv, ThreadInv, TypeInv, TypeOK, CallObjects
  <2> QED BY <2>1, <2>2 DEF PeaceInv
<1>2. CASE KthreadYieldSwitch(t)
  <2>1. /\ Runs(t) /\ pc[t] = "yield" /\ UNCHANGED flagVars
        /\ Switch(AddPri(th_ready, t, pri), inlist \cup {t}, t \notin inlist)
    BY <1>2 DEF KthreadYieldSwitch
  <2>2. /\ t = th_cur /\ Idle \in Nodes(AddPri(th_ready, t, pri)) /\ t \notin inlist
        /\ zombie' = {} /\ t \notin waitforjoin' /\ Idle \notin waitforjoin' \cup suspended'
    BY <2>1, CalmFacts, AddPriLinks DEF flagVars
  <2> QED BY <2>1, <2>2, SwitchIsSafe
<1>3. CASE KthreadSleepSwitch(t)
  <2>1. /\ Runs(t) /\ UNCHANGED flagVars /\ Switch(th_ready, inlist \cup {t}, TRUE)
    BY <1>3 DEF KthreadSleepSwitch
  <2>2. /\ t = th_cur /\ Idle \in Nodes(th_ready)
        /\ zombie' = {} /\ t \notin waitforjoin' /\ Idle \notin waitforjoin' \cup suspended'
    BY <2>1, CalmFacts DEF flagVars
  <2> QED BY <2>1, <2>2, SwitchIsSafe
<1>4. CASE KthreadExit(t)
  <2>1. /\ Runs(t) /\ "exit" \in Calls /\ t # Main /\ Terminate(t) /\ suspended' = suspended
        /\ pc[t] = "user" /\ detached' = detached /\ UNCHANGED joiner
        /\ Switch(ReadyAfterKill(t), InlistAfterKill(t), KillAsserts(t))
    BY <1>4 DEF KthreadExit
  <2>2. /\ t = th_cur /\ Idle \in Nodes(th_ready) /\ th_ready \in Seq(Threads)
        /\ t \notin inlist /\ zombie = {} /\ t \notin waitforjoin
        /\ Idle \notin waitforjoin \cup suspended /\ t # Idle
    BY <2>1, CalmFacts DEF Runs
  <2>3. t \notin detached
    BY <2>1, <2>2 DEF PeaceInv
  <2>4. zombie' = {}
    BY <2>1, <2>2, <2>3 DEF Terminate
  <2>5. Idle \notin waitforjoin' \cup suspended'
    BY <2>1, <2>2 DEF Terminate
  <2>6. Idle \in Nodes(ReadyAfterKill(t))
    <3>1. joiner[t] \in Threads \cup {None}
      BY DEF EndInv, ThreadInv, TypeInv, TypeOK
    <3> QED BY <2>2, <3>1, AddPriLinks DEF ReadyAfterKill, WakesJoiner
  <2>7. /\ panic' = (\/ /\ Debug
                        /\ ~(KillAsserts(t) /\ ParkAsserts(InlistAfterKill(t), TRUE))
                     \/ Runnable(Parked(ReadyAfterKill(t), TRUE)) = {} \/ FreeCrashes)
    BY <2>1 DEF Switch, Schedule
  <2>8. Runnable(ReadyAfterKill(t)) # {} /\ Parked(ReadyAfterKill(t), TRUE) = ReadyAfterKill(t)
    BY <2>5, <2>6 DEF Runnable, Nodes, Parked
  <2>9. ~FreeCrashes
    BY <2>4 DEF FreeCrashes
  <2>10. ASSUME Debug
         PROVE  KillAsserts(t) /\ ParkAsserts(InlistAfterKill(t), TRUE)
    <3>1. joiner[t] = None
      BY <2>10 DEF PeaceInv
    <3>2. ~WakesJoiner(t) /\ InlistAfterKill(t) = inlist
      BY <3>1 DEF WakesJoiner, InlistAfterKill
    <3>3. t \in waitforjoin'
      BY <2>1, <2>3, <3>1 DEF Terminate
    <3> QED BY <2>1, <2>2, <2>3, <2>4, <3>2, <3>3 DEF KillAsserts, ParkAsserts
  <2> QED BY <2>7, <2>8, <2>9, <2>10
<1>5. ASSUME NEW u \in Threads, KthreadJoinWait(t, u)
      PROVE  ~panic'
  <2>1. /\ Runs(t) /\ "joinwait" \in Calls /\ Switch(th_ready, inlist, TRUE)
        /\ UNCHANGED <<zombie, waitforjoin, suspended>>
    BY <1>5 DEF KthreadJoinWait
  <2>2. ~Debug
    BY <2>1 DEF Peaceful
  <2>3. /\ t = th_cur /\ Idle \in Nodes(th_ready)
        /\ zombie' = {} /\ t \notin waitforjoin' /\ Idle \notin waitforjoin' \cup suspended'
    BY <2>1, CalmFacts
  <2> QED BY <2>1, <2>2, <2>3, SwitchIsSafe
<1>6. CASE \/ KthreadYield(t) \/ KthreadJoinResume(t) \/ KthreadSleep(t)
           \/ KthreadSleepResume(t)
  BY <1>0, <1>6 DEF KthreadYield, KthreadJoinResume, KthreadSleep, KthreadSleepResume, runVars
<1>7. ASSUME NEW u \in Threads,
             \/ KthreadNew(t, u) \/ KthreadSuspend(t, u) \/ KthreadResume(t, u)
             \/ KthreadDetach(t, u) \/ KthreadJoinExited(t, u)
             \/ KthreadKill(t, u) \/ KthreadTryJoin(t, u)
             \/ \E p \in Pris : KthreadSetPri(t, u, p)
      PROVE  ~panic'
  BY <1>0, <1>7 DEF KthreadNew, KthreadSuspend, KthreadResume, KthreadDetach,
     KthreadJoinExited, KthreadKill, KthreadTryJoin, KthreadSetPri, runVars
<1> QED
  BY <1>1, <1>2, <1>3, <1>4, <1>5, <1>6, <1>7 DEF Life

(* Neither do the calls on mutexes and condition variables.                *)
LEMMA SyncIsSafe ==
  ASSUME KernelAssumption, Peaceful, EndInv, MutexInv, PeaceInv, ThreadInv',
         NEW t \in Threads, Sync(t)
  PROVE  ~panic'
<1> USE DEF Caller, At
<1>0. ~panic
  BY DEF PeaceInv
<1>1. ASSUME Runs(t), UNCHANGED flagVars, NEW r, NEW il, Switch(r, il, TRUE),
             Nodes(th_ready) \subseteq Nodes(r), t \in il
      PROVE  ~panic'
  <2>1. /\ t = th_cur /\ Idle \in Nodes(th_ready)
        /\ zombie' = {} /\ t \notin waitforjoin' /\ Idle \notin waitforjoin' \cup suspended'
    BY <1>1, CalmFacts DEF flagVars
  <2> QED BY <1>1, <2>1, SwitchIsSafe
<1>2. ASSUME Runs(t), pc[t] \notin {"condarm", "sleeparm"}, NEW m \in Mutexes,
             owner[m] # None, NEW w, WaitForMutex(t, m, w)
      PROVE  ~panic'
  <2>1. /\ UNCHANGED flagVars
        /\ Switch(th_ready, inlist \cup {t}, t \notin inlist /\ life[owner[m]] = "live")
    BY <1>2 DEF WaitForMutex
  <2>2. t \notin inlist /\ life[owner[m]] = "live"
    BY <1>2, CalmFacts
  <2>3. Switch(th_ready, inlist \cup {t}, TRUE)
    BY <2>1, <2>2 DEF Switch, Schedule
  <2>4. Nodes(th_ready) \subseteq Nodes(th_ready) /\ t \in inlist \cup {t}
    OBVIOUS
  <2> QED BY <1>1, <1>2, <2>1, <2>3, <2>4
<1>3. ASSUME NEW m, ReturnLocked(t, m)
      PROVE  ~panic'
  BY <1>0, <1>3 DEF ReturnLocked, runVars
<1>4. ASSUME Runs(t), pc[t] \notin {"condarm", "sleeparm"}, NEW m \in Mutexes,
             LockLoop(t, m) \/ Lock(t, m)
      PROVE  ~panic'
  BY <1>2, <1>3, <1>4 DEF LockLoop, Lock
<1>5. CASE \/ KmutexLockResume(t) \/ KcondWaitResume(t) \/ KcondWaitTimeoutResume(t)
           \/ \E m \in Mutexes : KmutexLock(t, m) \/ KmutexTryLock(t, m)
  <2>1. /\ Runs(t) /\ pc[t] \in {"lock", "condwait", "condtimed", "user"}
        /\ \/ \E m : ReturnLocked(t, m)
           \/ \E m \in Mutexes : LockLoop(t, m) \/ Lock(t, m)
    <3>1. pc[t] = "lock" => mtx[t] \in Mutexes
      BY DEF EndInv, ThreadInv, TypeInv, TypeOK, CallObjects
    <3>2. mtx[t] # None => mtx[t] \in Mutexes
      BY DEF EndInv, ThreadInv, TypeInv, TypeOK
    <3> QED BY <1>5, <3>1, <3>2 DEF KmutexLockResume, KcondWaitResume,
              KcondWaitTimeoutResume, KmutexLock, KmutexTryLock, Rewait
  <2> QED BY <1>3, <1>4, <2>1
<1>6. CASE KmutexTryLockLoop(t)
  <2>1. /\ Runs(t) /\ pc[t] \in {"tryarm", "trylock"}
        /\ \/ owner[mtx[t]] # None /\ WaitForMutex(t, mtx[t], "trylock")
           \/ ReturnLocked(t, mtx[t])
           \/ UNCHANGED panic
    BY <1>6 DEF KmutexTryLockLoop, runVars
  <2>2. mtx[t] \in Mutexes
    BY <2>1 DEF EndInv, ThreadInv, TypeInv, TypeOK, CallObjects
  <2> QED BY <1>0, <1>2, <1>3, <2>1, <2>2
<1>7. ASSUME NEW m \in Mutexes, KmutexTryLockStart(t, m)
      PROVE  ~panic'
  BY <1>0, <1>7 DEF KmutexTryLockStart, runVars
<1>8. ASSUME Runs(t), pc[t] = "user", UNCHANGED flagVars, NEW r \in Seq(Threads), NEW ok, ok,
             Nodes(th_ready) \subseteq Nodes(r), Yield(r, inlist, ok) \/ Continue(r, inlist, ok)
      PROVE  ~panic'
  <2>1. CASE Continue(r, inlist, ok)
    BY <1>8, <2>1 DEF Continue
  <2>2. CASE Switch(AddPri(r, th_cur, pri'), inlist \cup {th_cur}, ok /\ th_cur \notin inlist)
    <3>1. t = th_cur /\ t \notin inlist
      BY <1>8, CalmFacts
    <3>2. Nodes(r) \subseteq Nodes(AddPri(r, th_cur, pri'))
      BY <3>1, AddPriLinks
    <3>3. Switch(AddPri(r, th_cur, pri'), inlist \cup {th_cur}, TRUE)
      BY <1>8, <2>2, <3>1 DEF Switch, Schedule
    <3>4. /\ Nodes(th_ready) \subseteq Nodes(AddPri(r, th_cur, pri'))
          /\ t \in inlist \cup {th_cur}
      BY <1>8, <3>1, <3>2
    <3> QED BY <1>1, <1>8, <3>3, <3>4
  <2> QED BY <1>8, <2>1, <2>2 DEF Yield
<1>9. ASSUME NEW m \in Mutexes, KmutexUnlock(t, m)
      PROVE  ~panic'
  <2>1. /\ Runs(t) /\ pc[t] = "user" /\ held[t][m] > 0 /\ UNCHANGED flagVars
        /\ LET ok == owner[m] = t /\ counter[m] > 0
           IN  \/ Yield(ReadyAfterRelease(m), inlist, ok)
               \/ Continue(ReadyAfterRelease(m), inlist, ok)
    BY <1>9 DEF KmutexUnlock
  <2>2. owner[m] = t /\ counter[m] > 0
    BY <2>1, CalmFacts
  <2>3. /\ Nodes(th_ready) \subseteq Nodes(ReadyAfterRelease(m))
        /\ ReadyAfterRelease(m) \in Seq(Threads)
    BY ReleaseLinks DEF EndInv, Apart
  <2> QED BY <1>8, <2>1, <2>2, <2>3
<1>10. ASSUME NEW c \in Conds, KcondSignal(t, c) \/ KcondBroadcast(t, c)
       PROVE  ~panic'
  <2>0. /\ th_ready \in Seq(Threads) /\ waiting[c] \in Seq(Threads)
    BY DEF EndInv, ThreadInv, TypeInv, TypeOK
  <2>1. /\ Runs(t) /\ pc[t] = "user" /\ UNCHANGED flagVars
        /\ \E r \in {AddPri(th_ready, Head(waiting[c]), pri), Splice(th_ready, waiting[c], pri)} :
             /\ r = AddPri(th_ready, Head(waiting[c]), pri) => waiting[c] # <<>>
             /\ Yield(r, inlist, TRUE) \/ Continue(r, inlist, TRUE)
    BY <1>10 DEF KcondSignal, KcondBroadcast
  <2>2. waiting[c] # <<>> =>
          /\ AddPri(th_ready, Head(waiting[c]), pri) \in Seq(Threads)
          /\ Nodes(th_ready) \subseteq Nodes(AddPri(th_ready, Head(waiting[c]), pri))
    <3>1. waiting[c] # <<>> => Head(waiting[c]) \in Threads
      BY <2>0
    <3> QED BY <2>0, <3>1, AddPriLinks
  <2>3. /\ Splice(th_ready, waiting[c], pri) \in Seq(Threads)
        /\ Nodes(th_ready) \subseteq Nodes(Splice(th_ready, waiting[c], pri))
    BY <2>0, SpliceLinks
  <2> QED BY <1>8, <2>1, <2>2, <2>3
<1>11. ASSUME NEW c \in Conds, NEW m \in Mutexes \cup {None},
              KcondWait(t, c, m) \/ KcondWaitTimeout(t, c, m)
       PROVE  ~panic'
  <2>1. /\ Runs(t) /\ pc[t] = "user" /\ UNCHANGED flagVars /\ UnlockAndLink(t, c, m)
        /\ \/ Switch(WaitReady(m), inlist \cup {t}, WaitAsserts(t, m))
           \/ Continue(WaitReady(m), inlist \cup {t}, WaitAsserts(t, m))
    BY <1>11 DEF KcondWait, KcondWaitTimeout
  <2>2. WaitAsserts(t, m)
    <3>1. t \notin inlist
      BY <2>1, CalmFacts
    <3>2. m # None => m \in Mutexes /\ held[t][m] = 1
      BY <2>1 DEF UnlockAndLink
    <3> QED BY <2>1, <3>1, <3>2, CalmFacts DEF WaitAsserts
  <2>3. Nodes(th_ready) \subseteq Nodes(WaitReady(m))
    BY <2>1, UnlockLinks DEF EndInv
  <2>4. CASE Switch(WaitReady(m), inlist \cup {t}, WaitAsserts(t, m))
    <3>1. Switch(WaitReady(m), inlist \cup {t}, TRUE)
      BY <2>2, <2>4 DEF Switch, Schedule
    <3>2. t \in inlist \cup {t}
      OBVIOUS
    <3> QED BY <1>1, <2>1, <2>3, <3>1, <3>2
  <2>5. CASE Continue(WaitReady(m), inlist \cup {t}, WaitAsserts(t, m))
    BY <2>2, <2>5 DEF Continue
  <2> QED BY <2>1, <2>4, <2>5
<1>12. CASE KcondWaitTimeoutSwitch(t)
  <2>1. /\ Runs(t) /\ pc[t] = "condarm" /\ UNCHANGED flagVars
        /\ Switch(th_ready, inlist, TRUE)
    BY <1>12 DEF KcondWaitTimeoutSwitch
  <2>2. t \in inlist
    BY <2>1 DEF EndInv, ThreadInv, RunningAlone, Runs
  <2> QED BY <1>1, <2>1, <2>2
<1> QED
  BY <1>5, <1>6, <1>7, <1>9, <1>10, <1>11, <1>12 DEF Sync

(* Nor does the interrupt handler.                                         *)
LEMMA HandlerIsSafe ==
  ASSUME KernelAssumption, EndInv, PeaceInv, Handler
  PROVE  ~panic'
<1>0. ~panic /\ zombie = {} /\ ThreadInv /\ ~closed
  BY DEF PeaceInv, EndInv
<1>1. ASSUME NEW t \in Threads, TimerFire(t)
      PROVE  ~panic'
  BY <1>1 DEF TimerFire, PeaceInv
<1>2. CASE InterruptEnd
  <2>1. /\ isr /\ UNCHANGED flagVars
        /\ \/ Schedule(th_ready, inlist, FALSE, TRUE)
           \/ UNCHANGED panic
    BY <1>2 DEF InterruptEnd, runVars
  <2>2. CASE Schedule(th_ready, inlist, FALSE, TRUE)
    <3>1. /\ pc[th_cur] \in Enabled /\ th_cur \in Threads /\ th_ready \in Seq(Threads)
          /\ Idle \notin suspended \cup waitforjoin
          /\ th_cur = Idle \/ Idle \in Nodes(th_ready)
      BY <1>0, <2>1 DEF ThreadInv, RunningAlone, TypeInv, TypeOK, IdleReady
    <3>2. th_cur \notin inlist /\ pc[th_cur] # "dead"
      BY <1>0, <3>1 DEF ThreadInv, RunningAlone, Enabled
    <3>3. th_cur \notin waitforjoin
      BY <1>0, <3>1, <3>2 DEF EndInv, EndedAside
    <3>4. zombie' = {} /\ waitforjoin' = waitforjoin /\ suspended' = suspended
      BY <1>0, <2>1 DEF flagVars
    <3>5. ParkAsserts(inlist, FALSE) /\ ~FreeCrashes /\ Parkable
      BY <3>2, <3>3, <3>4 DEF ParkAsserts, FreeCrashes, Parkable
    <3>6. Idle \in Nodes(Parked(th_ready, FALSE))
      BY <3>1, <3>5, AddPriLinks DEF Parked
    <3>7. Runnable(Parked(th_ready, FALSE)) # {}
      BY ZenonT(40), <3>1, <3>4, <3>6 DEF Runnable, Nodes
    <3> QED BY <2>2, <3>5, <3>7 DEF Schedule
  <2> QED BY <1>0, <2>1, <2>2
<1>3. CASE Interrupt \/ \E c \in Conds : KcondSignalIsr(c) \/ KcondBroadcastIsr(c)
  BY <1>0, <1>3 DEF Interrupt, KcondSignalIsr, KcondBroadcastIsr, runVars
<1> QED
  BY <1>1, <1>2, <1>3 DEF Handler

(***************************************************************************)
(* No assertion of the kernel fails, the scheduler always finds a thread   *)
(* to run and no freed memory is touched, in programs that free no thread, *)
(* whatever they lock, wait for and signal, in whatever order.             *)
(***************************************************************************)
THEOREM NothingPanics ==
  ASSUME Peaceful, Shallow
  PROVE  Spec => []NoPanic
<1>0. "kill" \notin Calls /\ KillsNoJoiner
  BY DEF Peaceful, KillsNoJoiner
<1>1. Init => PeaceInv
  BY KernelAssumption DEF Init, PeaceInv, KernelAssumption
<1>2. Init => MutexInv
  BY InitMutexInv, KernelAssumption
<1>3. MutexInv /\ [Next]_vars => MutexInv'
  BY NextKeepsMutexInv, KernelAssumption
<1>4. EndInv /\ EndInv' /\ MutexInv /\ MutexInv' /\ PeaceInv /\ [Next]_vars => PeaceInv'
  <2> SUFFICES ASSUME EndInv, EndInv', MutexInv, MutexInv', PeaceInv, [Next]_vars
      PROVE  PeaceInv'
      OBVIOUS
  <2>1. CASE Next
    <3>1. ~KernelClose
      BY DEF KernelClose, Caller, Peaceful
    <3>2. ThreadInv /\ ThreadInv'
      BY DEF EndInv
    <3>3. Fates
      BY <2>1, <3>1, <3>2, NextFates, KernelAssumption
    <3>4. ~panic'
      BY <2>1, <3>1, <3>2, LifeIsSafe, SyncIsSafe, HandlerIsSafe, KernelAssumption DEF Next
    <3> QED BY <2>1, <3>3, <3>4, PeaceKept, KernelAssumption
  <2>2. CASE UNCHANGED vars
    BY <2>2 DEF vars, runVars, flagVars, mutexVars, callVars, PeaceInv
  <2> QED BY <2>1, <2>2
<1>5. PeaceInv => NoPanic
  BY DEF PeaceInv, NoPanic
<1> QED
  BY <1>0, <1>1, <1>2, <1>3, <1>4, <1>5, EndInvHolds, PTL DEF Spec

-----------------------------------------------------------------------------
(***************************************************************************)
(* Theorems about priorities: that the owner of a mutex inherits those of  *)
(* its waiters and gives them back, and that no ready thread outranks the  *)
(* one that runs.                                                          *)
(***************************************************************************)
-----------------------------------------------------------------------------
(* Inheritance.                                                            *)

(* t holds m, or is in a call that is to return with m locked.             *)
Claims(t, m) ==
  held[t][m] > 0 \/ (pc[t] \in LockCalls \cup WaitCalls /\ mtx[t] = m)

(* No thread locks a mutex inside a section of another one.  An unlock     *)
(* restores the priority that was saved at the lock of that mutex, which   *)
(* undoes what was inherited through another one.                          *)
OneAtATime ==
  \A t \in Threads, m, l \in Mutexes : Claims(t, m) /\ Claims(t, l) => m = l

(* Who owns no mutex has its own priority, which the mutex of an owner     *)
(* keeps for it; those who wait for a mutex do so in a lock call, and      *)
(* their priority does not exceed that of the owner.                       *)
InheritInv ==
  /\ \A t \in Threads : (\A m \in Mutexes : owner[m] # t) => pri[t] = NewPri[t]
  /\ \A m \in Mutexes :
       owner[m] # None =>
         /\ original_pri[m] = NewPri[owner[m]]
         /\ pri[owner[m]] >= NewPri[owner[m]]
         /\ \A u \in Nodes(waiting[m]) : pri[owner[m]] >= pri[u]
  /\ \A m \in Mutexes : \A u \in Nodes(waiting[m]) :
       pc[u] \in {"lock", "trylock"} /\ mtx[u] = m

(* The same, and what is known of the threads and the mutexes.             *)
Facts == ThreadInv /\ MutexInv /\ InheritInv /\ OneAtATime

(* What the types say here.                                                *)
LEMMA PriorityTypes ==
  ASSUME TypeInv
  PROVE  /\ pri \in [Threads -> Int] /\ original_pri \in [Mutexes -> Int]
         /\ owner \in [Mutexes -> Threads \cup {None}]
         /\ pc \in [Threads -> PCs] /\ mtx \in [Threads -> Mutexes \cup {None}]
         /\ waiting \in [Mutexes \cup Conds -> Seq(Threads)]
         /\ held \in [Threads -> [Mutexes -> Nat]]
         /\ \A l \in Mutexes \cup Conds : Nodes(waiting[l]) \subseteq Threads
<1>1. /\ pri \in [Threads -> Int] /\ original_pri \in [Mutexes -> Int]
      /\ owner \in [Mutexes -> Threads \cup {None}]
      /\ pc \in [Threads -> PCs] /\ mtx \in [Threads -> Mutexes \cup {None}]
      /\ waiting \in [Mutexes \cup Conds -> Seq(Threads)]
      /\ held \in [Threads -> [Mutexes -> Nat]]
  BY DEF TypeInv, TypeOK
<1>2. \A l \in Mutexes \cup Conds : Nodes(waiting[l]) \subseteq Threads
  BY <1>1 DEF Nodes
<1> QED
  BY <1>1, <1>2

(* The thread that runs waits for no mutex.                                *)
LEMMA RunnerWaitsNowhere ==
  ASSUME ThreadInv, InheritInv, NEW t \in Threads, Runs(t)
  PROVE  \A m \in Mutexes : t \notin Nodes(waiting[m])
<1> SUFFICES ASSUME NEW m \in Mutexes, t \in Nodes(waiting[m])
    PROVE  FALSE
    OBVIOUS
<1>1. pc[t] \in {"lock", "trylock"}
  BY DEF InheritInv
<1>2. t \notin inlist
  BY <1>1, RunnerFacts
<1>3. Linked(t, th_ready, waiting)
  BY DEF Linked, Lists
<1>4. t \in inlist
  BY <1>3 DEF ThreadInv, Apart
<1> QED
  BY <1>2, <1>4

(* Only thread t goes somewhere, if any.                                   *)
OnlyMoves(t) ==
  \A u \in Threads : u # t => pc'[u] = pc[u] /\ mtx'[u] = mtx[u]

(* A step that touches neither owners nor priorities, links nobody to a    *)
(* mutex and moves at most a thread that waits for none.                   *)
LEMMA QuietKeepsInherit ==
  ASSUME KernelAssumption, TypeInv, InheritInv, UNCHANGED <<pri, owner, original_pri>>,
         \A m \in Mutexes : Nodes(waiting'[m]) \subseteq Nodes(waiting[m]),
         \/ UNCHANGED <<pc, mtx>>
         \/ \E t \in Threads :
              OnlyMoves(t) /\ \A m \in Mutexes : t \notin Nodes(waiting[m])
  PROVE  InheritInv'
<1>1. \A m \in Mutexes : Nodes(waiting[m]) \subseteq Threads
  BY PriorityTypes
<1>2. \A m \in Mutexes : \A u \in Nodes(waiting'[m]) :
        pc'[u] \in {"lock", "trylock"} /\ mtx'[u] = m
  <2> SUFFICES ASSUME NEW m \in Mutexes, NEW u \in Nodes(waiting'[m])
      PROVE  pc'[u] \in {"lock", "trylock"} /\ mtx'[u] = m
      OBVIOUS
  <2>1. u \in Nodes(waiting[m]) /\ u \in Threads
    BY <1>1
  <2>2. pc'[u] = pc[u] /\ mtx'[u] = mtx[u]
    BY <2>1 DEF OnlyMoves
  <2> QED BY <2>1, <2>2 DEF InheritInv
<1>3. \A m \in Mutexes :
        owner'[m] # None =>
          \A u \in Nodes(waiting'[m]) : pri'[owner'[m]] >= pri'[u]
  BY DEF InheritInv
<1> QED
  BY <1>2, <1>3 DEF InheritInv

(* The caller gets a free mutex, its first.                                *)
LEMMA AcquireKeepsInherit ==
  ASSUME KernelAssumption, Facts, MutexInv', OneAtATime',
         NEW t \in Threads, NEW m \in Mutexes, Runs(t),
         owner[m] = None, Acquire(t, m), ReturnLocked(t, m)
  PROVE  InheritInv'
<1>0. /\ pri \in [Threads -> Int] /\ owner \in [Mutexes -> Threads \cup {None}]
      /\ original_pri \in [Mutexes -> Int]
      /\ pc \in [Threads -> PCs] /\ mtx \in [Threads -> Mutexes \cup {None}]
      /\ \A l \in Mutexes : Nodes(waiting[l]) \subseteq Threads
  BY PriorityTypes DEF Facts, ThreadInv
<1>1. /\ owner' = [owner EXCEPT ![m] = t]
      /\ original_pri' = [original_pri EXCEPT ![m] = pri[t]]
      /\ UNCHANGED <<pri, waiting>>
      /\ pc' = [pc EXCEPT ![t] = "user"] /\ mtx' = [mtx EXCEPT ![t] = None]
  BY DEF Acquire, ReturnLocked, Goto
<1>2. owner'[m] = t /\ original_pri'[m] = pri[t]
      /\ \A l \in Mutexes : l # m =>
           owner'[l] = owner[l] /\ original_pri'[l] = original_pri[l]
  BY <1>0, <1>1
<1>3. \A l \in Mutexes : owner'[l] = t => l = m
  <2> SUFFICES ASSUME NEW l \in Mutexes, owner'[l] = t
      PROVE  l = m
      OBVIOUS
  <2>1. held'[t][l] > 0 /\ held'[t][m] > 0
    BY <1>2 DEF MutexInv, HoldersOwn
  <2> QED BY <2>1 DEF OneAtATime, Claims
<1>4. pri[t] = NewPri[t]
  <2>1. \A l \in Mutexes : owner[l] # t
    BY <1>2, <1>3, KernelAssumption DEF KernelAssumption
  <2> QED BY <2>1 DEF Facts, InheritInv
<1>5. \A u \in Threads : (\A l \in Mutexes : owner'[l] # u) => pri'[u] = NewPri[u]
  <2> SUFFICES ASSUME NEW u \in Threads, \A l \in Mutexes : owner'[l] # u
      PROVE  pri[u] = NewPri[u]
      BY <1>1
  <2>1. \A l \in Mutexes : owner[l] # u
    BY <1>2, KernelAssumption DEF KernelAssumption
  <2> QED BY <2>1 DEF Facts, InheritInv
<1>6. waiting[m] = <<>> /\ Nodes(waiting[m]) = {}
  BY DEF Facts, MutexInv, NoWaiterOnFreeMutex, Nodes
<1>7. ASSUME NEW l \in Mutexes, owner'[l] # None
      PROVE  /\ original_pri'[l] = NewPri[owner'[l]]
             /\ pri'[owner'[l]] >= NewPri[owner'[l]]
             /\ \A u \in Nodes(waiting'[l]) : pri'[owner'[l]] >= pri'[u]
  <2>1. CASE l = m
    BY <1>0, <1>1, <1>2, <1>4, <1>6, <2>1
  <2>2. CASE l # m
    BY <1>1, <1>2, <1>7, <2>2 DEF Facts, InheritInv
  <2> QED BY <2>1, <2>2
<1>8. ASSUME NEW l \in Mutexes, NEW u \in Nodes(waiting'[l])
      PROVE  pc'[u] \in {"lock", "trylock"} /\ mtx'[u] = l
  <2>1. u \in Nodes(waiting[l]) /\ u \in Threads
    BY <1>0, <1>1, <1>8
  <2>2. u # t
    BY <2>1, RunnerWaitsNowhere DEF Facts
  <2> QED BY <1>0, <1>1, <2>1, <2>2 DEF Facts, InheritInv
<1> QED
  BY <1>5, <1>7, <1>8 DEF InheritInv

(* The owner inherits the priority of one more waiter: as it waits for no  *)
(* other mutex and owns none, this concerns this mutex alone.              *)
LEMMA WaitKeepsInherit ==
  ASSUME KernelAssumption, Facts, MutexInv', OneAtATime',
         NEW t \in Threads, NEW m \in Mutexes, NEW where \in {"lock", "trylock"},
         Runs(t), owner[m] # None, held[t][m] = 0, WaitForMutex(t, m, where)
  PROVE  InheritInv'
<1> DEFINE x == owner[m]
<1>0. /\ pri \in [Threads -> Int] /\ owner \in [Mutexes -> Threads \cup {None}]
      /\ waiting \in [Mutexes \cup Conds -> Seq(Threads)]
      /\ pc \in [Threads -> PCs] /\ mtx \in [Threads -> Mutexes \cup {None}]
      /\ \A l \in Mutexes : Nodes(waiting[l]) \subseteq Threads
      /\ NewPri \in [Threads -> Int]
  BY PriorityTypes DEF Facts, ThreadInv, KernelAssumption
<1>1. /\ UNCHANGED <<owner, original_pri, held>>
      /\ waiting' = [waiting EXCEPT ![m] = AddPri(waiting[m], t, pri')]
      /\ pc' = [pc EXCEPT ![t] = where] /\ mtx' = [mtx EXCEPT ![t] = m]
      /\ pri' = IF pri[t] > pri[x] THEN [pri EXCEPT ![x] = pri[t]] ELSE pri
  BY DEF WaitForMutex, Goto, mutexVars, Boost
<1>2. x \in Threads /\ x # t
  BY <1>0 DEF Facts, MutexInv, HoldersOwn
<1>3. /\ \A u \in Threads : u # x => pri'[u] = pri[u]
      /\ pri'[x] >= pri[x] /\ pri'[x] >= pri[t]
  BY <1>0, <1>1, <1>2
<1>4. /\ Nodes(waiting'[m]) = Nodes(waiting[m]) \cup {t}
      /\ \A l \in Mutexes : l # m => waiting'[l] = waiting[l]
  <2>1. waiting[m] \in Seq(Threads)
    BY <1>0
  <2>2. Nodes(AddPri(waiting[m], t, pri')) = Nodes(waiting[m]) \cup {t}
    BY <2>1, AddPriLinks
  <2> QED BY <1>0, <1>1, <2>2
<1>5. \A l \in Mutexes : owner[l] # t
  <2> SUFFICES ASSUME NEW l \in Mutexes, owner[l] = t
      PROVE  FALSE
      OBVIOUS
  <2>1. Claims(t, l)' /\ Claims(t, m)'
    <3>1. held'[t][l] > 0
      BY <1>1 DEF Facts, MutexInv, HoldersOwn
    <3>2. pc'[t] \in LockCalls /\ mtx'[t] = m
      BY <1>0, <1>1 DEF LockCalls
    <3> QED BY <3>1, <3>2 DEF Claims
  <2>2. l = m
    BY <2>1 DEF OneAtATime
  <2> QED BY <1>2, <2>2
<1>6. \A l \in Mutexes : x \notin Nodes(waiting[l])
  <2> SUFFICES ASSUME NEW l \in Mutexes, x \in Nodes(waiting[l])
      PROVE  FALSE
      OBVIOUS
  <2>1. pc[x] \in LockCalls /\ mtx[x] = l /\ held[x][m] > 0
    BY <1>2 DEF Facts, InheritInv, LockCalls, MutexInv, HoldersOwn
  <2>2. l = m
    BY <1>2, <2>1 DEF Facts, OneAtATime, Claims
  <2> QED BY <1>2, <2>1, <2>2, KernelAssumption
          DEF Facts, MutexInv, WaitersDoNotHold, KernelAssumption
<1>7. \A l \in Mutexes : owner[l] = x => l = m
  <2> SUFFICES ASSUME NEW l \in Mutexes, owner[l] = x
      PROVE  l = m
      OBVIOUS
  <2>1. held[x][l] > 0 /\ held[x][m] > 0
    BY <1>2 DEF Facts, MutexInv, HoldersOwn
  <2> QED BY <1>2, <2>1 DEF Facts, OneAtATime, Claims
<1> HIDE DEF x
<1>8. \A u \in Threads : (\A l \in Mutexes : owner'[l] # u) => pri'[u] = NewPri[u]
  BY <1>1, <1>3 DEF Facts, InheritInv, x
<1>9. ASSUME NEW l \in Mutexes, owner'[l] # None
      PROVE  /\ original_pri'[l] = NewPri[owner'[l]]
             /\ pri'[owner'[l]] >= NewPri[owner'[l]]
             /\ \A u \in Nodes(waiting'[l]) : pri'[owner'[l]] >= pri'[u]
  <2>1. CASE l = m
    <3>1. /\ original_pri[m] = NewPri[x] /\ pri[x] >= NewPri[x]
          /\ \A u \in Nodes(waiting[m]) : pri[x] >= pri[u]
      BY <1>1, <1>9, <2>1 DEF Facts, InheritInv, x
    <3>2. pri'[x] >= NewPri[x]
      BY <1>0, <1>1, <1>2, <1>3, <3>1
    <3>3. ASSUME NEW u \in Nodes(waiting'[m])
          PROVE  pri'[x] >= pri'[u]
      <4>1. u \in Threads /\ (u = t \/ u \in Nodes(waiting[m]))
        BY <1>0, <1>4
      <4>2. u # x
        BY <1>2, <1>6, <4>1
      <4>3. pri'[u] = pri[u] /\ pri[u] \in Int /\ pri[x] \in Int /\ pri'[x] \in Int
        BY <1>0, <1>1, <1>2, <1>3, <4>1, <4>2
      <4> QED BY <1>3, <3>1, <4>1, <4>3
    <3> QED BY <1>1, <2>1, <3>1, <3>2, <3>3 DEF x
  <2>2. CASE l # m
    <3>1. owner[l] # x /\ owner[l] \in Threads /\ waiting'[l] = waiting[l]
      BY <1>0, <1>1, <1>4, <1>7, <1>9, <2>2
    <3>2. \A u \in Nodes(waiting[l]) : u \in Threads /\ u # x
      BY <1>0, <1>6
    <3> QED BY <1>1, <1>3, <1>9, <3>1, <3>2 DEF Facts, InheritInv
  <2> QED BY <2>1, <2>2
<1>10. ASSUME NEW l \in Mutexes, NEW u \in Nodes(waiting'[l])
       PROVE  pc'[u] \in {"lock", "trylock"} /\ mtx'[u] = l
  <2>1. CASE u = t
    <3>1. l = m
      <4>1. \A k \in Mutexes : t \notin Nodes(waiting[k])
        BY RunnerWaitsNowhere DEF Facts
      <4> QED BY <1>4, <1>10, <2>1, <4>1
    <3> QED BY <1>0, <1>1, <2>1, <3>1
  <2>2. CASE u # t
    <3>1. u \in Nodes(waiting[l])
      BY <1>4, <1>10, <2>2
    <3>2. u \in Threads
      BY <1>0, <3>1
    <3> QED BY <1>0, <1>1, <2>2, <3>1, <3>2 DEF Facts, InheritInv
  <2> QED BY <2>1, <2>2
<1> QED
  BY <1>8, <1>9, <1>10 DEF InheritInv

(* A mutex that is released gives its owner its own priority back.         *)
LEMMA ReleaseKeepsInherit ==
  ASSUME KernelAssumption, Facts, MutexInv',
         NEW t \in Threads, NEW m \in Mutexes, Runs(t), held[t][m] > 0,
         Release(t, m), OnlyMoves(t), pc[t] = "user",
         \A l \in Mutexes :
           waiting'[l] = IF l = m THEN LeftWaiting(m) ELSE waiting[l]
  PROVE  InheritInv'
<1>0. /\ pri \in [Threads -> Int] /\ owner \in [Mutexes -> Threads \cup {None}]
      /\ \A l \in Mutexes : Nodes(waiting[l]) \subseteq Threads
      /\ NewPri \in [Threads -> Int]
  BY PriorityTypes DEF Facts, ThreadInv, KernelAssumption
<1>1. owner[m] = t
  BY DEF Facts, MutexInv, HoldersOwn
<1>2. \A l \in Mutexes : t \notin Nodes(waiting[l])
  BY RunnerWaitsNowhere DEF Facts
<1>3. CASE counter[m] = 1
  <2>1. /\ owner' = [owner EXCEPT ![m] = None] /\ UNCHANGED original_pri
        /\ pri' = [pri EXCEPT ![t] = original_pri[m]]
        /\ waiting'[m] = <<>>
    BY <1>3 DEF Release, LeftWaiting
  <2>2. original_pri[m] = NewPri[t]
    BY <1>0, <1>1, KernelAssumption DEF Facts, InheritInv, KernelAssumption
  <2>3. /\ pri'[t] = NewPri[t] /\ owner'[m] = None
        /\ \A u \in Threads : u # t => pri'[u] = pri[u]
        /\ \A l \in Mutexes : l # m => owner'[l] = owner[l]
    BY <1>0, <2>1, <2>2
  <2>4. \A l \in Mutexes : l # m => owner[l] # t
    <3> SUFFICES ASSUME NEW l \in Mutexes, owner[l] = t
        PROVE  l = m
        OBVIOUS
    <3>1. held[t][l] > 0 /\ held[t][m] > 0
      BY DEF Facts, MutexInv, HoldersOwn
    <3> QED BY <3>1 DEF Facts, OneAtATime, Claims
  <2>5. \A u \in Threads : (\A l \in Mutexes : owner'[l] # u) => pri'[u] = NewPri[u]
    BY <1>1, <2>3 DEF Facts, InheritInv
  <2>6. ASSUME NEW l \in Mutexes, owner'[l] # None
        PROVE  /\ original_pri'[l] = NewPri[owner'[l]]
               /\ pri'[owner'[l]] >= NewPri[owner'[l]]
               /\ \A u \in Nodes(waiting'[l]) : pri'[owner'[l]] >= pri'[u]
    <3>1. /\ l # m /\ owner'[l] = owner[l] /\ owner[l] \in Threads \ {t}
          /\ waiting'[l] = waiting[l]
      BY <1>0, <2>3, <2>4, <2>6
    <3>2. \A u \in Nodes(waiting[l]) : u \in Threads \ {t}
      BY <1>0, <1>2
    <3> QED BY <2>1, <2>3, <2>6, <3>1, <3>2 DEF Facts, InheritInv
  <2>7. ASSUME NEW l \in Mutexes, NEW u \in Nodes(waiting'[l])
        PROVE  pc'[u] \in {"lock", "trylock"} /\ mtx'[u] = l
    <3>1. l # m
      BY <2>1, <2>7 DEF Nodes
    <3>2. u \in Nodes(waiting[l]) /\ u \in Threads \ {t}
      BY <1>0, <1>2, <2>7, <3>1
    <3> QED BY <3>2 DEF Facts, InheritInv, OnlyMoves
  <2> QED
    BY <2>5, <2>6, <2>7 DEF InheritInv
<1>4. CASE counter[m] # 1
  <2>1. /\ owner' = owner /\ UNCHANGED original_pri /\ pri' = pri
        /\ waiting'[m] = waiting[m]
    BY <1>0, <1>4 DEF Release, LeftWaiting
  <2>2. \A l \in Mutexes : Nodes(waiting'[l]) \subseteq Nodes(waiting[l])
    BY <2>1
  <2> QED BY <1>2, <2>1, <2>2, QuietKeepsInherit DEF Facts, ThreadInv
<1> QED
  BY <1>3, <1>4

(* The ways to get a mutex, or to wait for it.                             *)
LEMMA LockKeepsInherit ==
  ASSUME KernelAssumption, Facts, MutexInv', OneAtATime',
         NEW t \in Threads, NEW m \in Mutexes, Runs(t),
         Lock(t, m) \/ (LockLoop(t, m) /\ owner[m] # t)
  PROVE  InheritInv'
<1>0. pc \in [Threads -> PCs] /\ mtx \in [Threads -> Mutexes \cup {None}]
  BY PriorityTypes DEF Facts, ThreadInv
<1>1. CASE owner[m] = t
  <2>1. /\ UNCHANGED <<owner, original_pri, pri, waiting>>
        /\ pc' = [pc EXCEPT ![t] = "user"] /\ mtx' = [mtx EXCEPT ![t] = None]
    BY <1>1 DEF Lock, Relock, ReturnLocked, Goto
  <2>2. OnlyMoves(t)
    BY <1>0, <2>1 DEF OnlyMoves
  <2>3. \A l \in Mutexes : t \notin Nodes(waiting[l])
    BY RunnerWaitsNowhere DEF Facts
  <2> QED BY <2>1, <2>2, <2>3, QuietKeepsInherit DEF Facts, ThreadInv
<1>2. CASE owner[m] # t
  <2>1. held[t][m] = 0
    BY <1>2 DEF Facts, MutexInv, MutexTypes, HoldersOwn
  <2>2. LockLoop(t, m)
    BY <1>2 DEF Lock
  <2> QED BY <2>1, <2>2, AcquireKeepsInherit, WaitKeepsInherit DEF LockLoop
<1> QED
  BY <1>1, <1>2

(* Who is in a lock call does not own the mutex.                           *)
LEMMA LockerOwnsNot ==
  ASSUME KernelAssumption, MutexInv, NEW t \in Threads, pc[t] \in LockCalls
  PROVE  mtx[t] \in Mutexes /\ owner[mtx[t]] # t /\ held[t][mtx[t]] = 0
BY DEF MutexInv, MutexTypes, HoldersOwn, WaitersDoNotHold

(* The calls on mutexes, up to their switch and after it.                  *)
LEMMA MutexCallsKeepInherit ==
  ASSUME KernelAssumption, Facts, MutexInv', OneAtATime', NEW t \in Threads,
         \/ KmutexLockResume(t) \/ KmutexTryLockLoop(t)
         \/ \E m \in Mutexes : \/ KmutexLock(t, m) \/ KmutexTryLock(t, m)
                               \/ KmutexTryLockStart(t, m) \/ KmutexUnlock(t, m)
  PROVE  InheritInv'
<1>0. /\ pc \in [Threads -> PCs] /\ mtx \in [Threads -> Mutexes \cup {None}]
      /\ waiting \in [Mutexes \cup Conds -> Seq(Threads)]
  BY PriorityTypes DEF Facts, ThreadInv
<1>1. Runs(t)
  BY DEF KmutexLockResume, KmutexTryLockLoop, KmutexLock, KmutexTryLock,
         KmutexTryLockStart, KmutexUnlock, Caller, At
<1>2. \A l \in Mutexes : t \notin Nodes(waiting[l])
  BY <1>1, RunnerWaitsNowhere DEF Facts
<1>3. ASSUME NEW w \in PCs, NEW x \in Mutexes \cup {None}, Goto(t, w, x),
             UNCHANGED <<pri, owner, original_pri, waiting>>
      PROVE  InheritInv'
  <2>1. OnlyMoves(t)
    BY <1>0, <1>3 DEF Goto, OnlyMoves
  <2> QED BY <1>2, <1>3, <2>1, QuietKeepsInherit DEF Facts, ThreadInv
<1>4. CASE KmutexLockResume(t)
  <2>1. pc[t] \in LockCalls
    BY <1>4 DEF KmutexLockResume, At, LockCalls
  <2>2. mtx[t] \in Mutexes /\ owner[mtx[t]] # t
    BY <2>1, LockerOwnsNot DEF Facts
  <2> QED BY <1>1, <1>4, <2>2, LockKeepsInherit DEF KmutexLockResume
<1>5. CASE KmutexTryLockLoop(t)
  <2> DEFINE m == mtx[t]
  <2>1. pc[t] \in LockCalls
    BY <1>5 DEF KmutexTryLockLoop, At, LockCalls
  <2>2. m \in Mutexes /\ owner[m] # t /\ held[t][m] = 0
    BY <2>1, LockerOwnsNot DEF Facts
  <2>3. \/ owner[m] # None /\ WaitForMutex(t, m, "trylock")
        \/ owner[m] = None /\ Acquire(t, m) /\ ReturnLocked(t, m)
        \/ Goto(t, "user", None) /\ UNCHANGED <<pri, owner, original_pri, waiting>>
    BY <1>5 DEF KmutexTryLockLoop, mutexVars
  <2>4. "user" \in PCs
    BY DEF PCs, Enabled
  <2> HIDE DEF m
  <2> QED BY <1>1, <1>3, <2>2, <2>3, <2>4, AcquireKeepsInherit, WaitKeepsInherit
<1>6. ASSUME NEW m \in Mutexes, KmutexLock(t, m) \/ KmutexTryLock(t, m)
      PROVE  InheritInv'
  BY <1>1, <1>6, LockKeepsInherit DEF KmutexLock, KmutexTryLock
<1>7. ASSUME NEW m \in Mutexes, KmutexTryLockStart(t, m)
      PROVE  InheritInv'
  <2>1. Goto(t, "tryarm", m) /\ UNCHANGED <<pri, owner, original_pri, waiting>>
    BY <1>7 DEF KmutexTryLockStart, mutexVars
  <2>2. "tryarm" \in PCs
    BY DEF PCs, Arming
  <2> QED BY <1>3, <2>1, <2>2
<1>8. ASSUME NEW m \in Mutexes, KmutexUnlock(t, m)
      PROVE  InheritInv'
  <2>1. /\ held[t][m] > 0 /\ Release(t, m) /\ pc[t] = "user"
        /\ waiting' = [waiting EXCEPT ![m] = LeftWaiting(m)]
        /\ UNCHANGED <<pc, mtx>>
    BY <1>8 DEF KmutexUnlock, Caller, At, callVars
  <2>2. \A l \in Mutexes :
          waiting'[l] = IF l = m THEN LeftWaiting(m) ELSE waiting[l]
    BY <1>0, <2>1
  <2>3. OnlyMoves(t)
    BY <2>1 DEF OnlyMoves
  <2> QED BY <1>1, <2>1, <2>2, <2>3, ReleaseKeepsInherit
<1> QED
  BY <1>4, <1>5, <1>6, <1>7, <1>8

(* The waits on a condition variable.                                      *)
LEMMA CondWaitsKeepInherit ==
  ASSUME KernelAssumption, Facts, MutexInv', NEW t \in Threads,
         NEW c \in Conds, NEW m \in Mutexes \cup {None},
         KcondWait(t, c, m) \/ KcondWaitTimeout(t, c, m)
  PROVE  InheritInv'
<1>0. /\ pc \in [Threads -> PCs] /\ mtx \in [Threads -> Mutexes \cup {None}]
      /\ waiting \in [Mutexes \cup Conds -> Seq(Threads)]
  BY PriorityTypes DEF Facts, ThreadInv
<1>1. /\ Runs(t) /\ pc[t] = "user" /\ UnlockAndLink(t, c, m)
      /\ \E w \in {"condwait", "condarm"} : Goto(t, w, m)
  BY DEF KcondWait, KcondWaitTimeout, Caller, At
<1>2. \A l \in Mutexes : t \notin Nodes(waiting[l])
  BY <1>1, RunnerWaitsNowhere DEF Facts
<1>3. OnlyMoves(t)
  BY <1>0, <1>1 DEF Goto, OnlyMoves
<1>4. c \notin Mutexes
  BY KernelAssumption DEF KernelAssumption
<1>5. CASE m = None
  <2>1. /\ UNCHANGED <<pri, owner, original_pri>>
        /\ waiting' = [waiting EXCEPT ![c] = AddPri(waiting[c], t, pri)]
    BY <1>1, <1>5 DEF UnlockAndLink, mutexVars
  <2>2. \A l \in Mutexes : waiting'[l] = waiting[l]
    BY <1>0, <1>4, <2>1
  <2> QED BY <1>2, <1>3, <2>1, <2>2, QuietKeepsInherit DEF Facts, ThreadInv
<1>6. CASE m # None
  <2>1. /\ m \in Mutexes /\ held[t][m] = 1 /\ Release(t, m)
        /\ waiting' = [waiting EXCEPT ![m] = LeftWaiting(m),
                                      ![c] = AddPri(waiting[c], t, pri')]
    BY <1>1, <1>6 DEF UnlockAndLink
  <2>2. \A l \in Mutexes :
          waiting'[l] = IF l = m THEN LeftWaiting(m) ELSE waiting[l]
    BY <1>0, <1>4, <2>1
  <2>3. held[t][m] > 0
    BY <2>1
  <2> QED BY <1>1, <1>3, <2>1, <2>2, <2>3, ReleaseKeepsInherit
<1> QED
  BY <1>5, <1>6

(* The ends of these waits, and the wakers.                                *)
LEMMA CondCallsKeepInherit ==
  ASSUME KernelAssumption, Facts, MutexInv', OneAtATime', NEW t \in Threads,
         \/ KcondWaitResume(t) \/ KcondWaitTimeoutResume(t)
         \/ KcondWaitTimeoutSwitch(t)
         \/ \E c \in Conds : KcondSignal(t, c) \/ KcondBroadcast(t, c)
  PROVE  InheritInv'
<1>0. /\ pc \in [Threads -> PCs] /\ mtx \in [Threads -> Mutexes \cup {None}]
      /\ waiting \in [Mutexes \cup Conds -> Seq(Threads)]
  BY PriorityTypes DEF Facts, ThreadInv
<1>1. Runs(t)
  BY DEF KcondWaitResume, KcondWaitTimeoutResume, KcondWaitTimeoutSwitch,
         KcondSignal, KcondBroadcast, Caller, At
<1>2. \A l \in Mutexes : t \notin Nodes(waiting[l])
  BY <1>1, RunnerWaitsNowhere DEF Facts
<1>3. CASE KcondWaitResume(t) \/ KcondWaitTimeoutResume(t)
  <2>1. Rewait(t)
    BY <1>3 DEF KcondWaitResume, KcondWaitTimeoutResume
  <2>2. CASE mtx[t] = None
    <3>1. Goto(t, "user", None) /\ UNCHANGED <<pri, owner, original_pri, waiting>>
      BY <2>1, <2>2 DEF Rewait, ReturnLocked, mutexVars
    <3>2. OnlyMoves(t)
      BY <1>0, <3>1 DEF Goto, OnlyMoves
    <3> QED BY <1>2, <3>1, <3>2, QuietKeepsInherit DEF Facts, ThreadInv
  <2>3. CASE mtx[t] # None
    <3>1. mtx[t] \in Mutexes /\ Lock(t, mtx[t])
      BY <1>0, <2>1, <2>3 DEF Rewait
    <3> QED BY <1>1, <3>1, LockKeepsInherit
  <2> QED BY <2>2, <2>3
<1>4. CASE KcondWaitTimeoutSwitch(t)
  <2>1. Goto(t, "condtimed", mtx[t]) /\ UNCHANGED <<pri, owner, original_pri, waiting>>
    BY <1>4 DEF KcondWaitTimeoutSwitch, mutexVars
  <2>2. OnlyMoves(t)
    BY <1>0, <2>1 DEF Goto, OnlyMoves
  <2> QED BY <1>2, <2>1, <2>2, QuietKeepsInherit DEF Facts, ThreadInv
<1>5. ASSUME NEW c \in Conds, KcondSignal(t, c) \/ KcondBroadcast(t, c)
      PROVE  InheritInv'
  <2>1. /\ UNCHANGED <<pri, owner, original_pri, pc, mtx>>
        /\ \E x : waiting' = [waiting EXCEPT ![c] = x]
    BY <1>5 DEF KcondSignal, KcondBroadcast, mutexVars, callVars, Unlinked
  <2>2. \A l \in Mutexes : waiting'[l] = waiting[l]
    BY <1>0, <2>1, KernelAssumption DEF KernelAssumption
  <2> QED BY <2>1, <2>2, QuietKeepsInherit DEF Facts, ThreadInv
<1> QED
  BY <1>3, <1>4, <1>5

(* The interrupt handler takes threads off the lists, if anything.         *)
LEMMA HandlerKeepsInherit ==
  ASSUME KernelAssumption, Facts, Handler
  PROVE  InheritInv'
<1>0. waiting \in [Mutexes \cup Conds -> Seq(Threads)]
  BY PriorityTypes DEF Facts, ThreadInv
<1>1. UNCHANGED <<pri, owner, original_pri, pc, mtx>>
  BY DEF Handler, Interrupt, InterruptEnd, TimerFire, KcondSignalIsr,
         KcondBroadcastIsr, mutexVars, callVars
<1>2. \A l \in Mutexes : Nodes(waiting'[l]) \subseteq Nodes(waiting[l])
  <2>1. CASE Interrupt \/ InterruptEnd
    BY <2>1 DEF Interrupt, InterruptEnd
  <2>2. ASSUME NEW c \in Conds, KcondSignalIsr(c) \/ KcondBroadcastIsr(c)
        PROVE  \A l \in Mutexes : Nodes(waiting'[l]) \subseteq Nodes(waiting[l])
    <3>1. \E x : waiting' = [waiting EXCEPT ![c] = x]
      BY <2>2 DEF KcondSignalIsr, KcondBroadcastIsr, Unlinked
    <3>2. \A l \in Mutexes : waiting'[l] = waiting[l]
      BY <1>0, <3>1, KernelAssumption DEF KernelAssumption
    <3> QED BY <3>2
  <2>3. ASSUME NEW t \in Threads, TimerFire(t), NEW l \in Mutexes
        PROVE  Nodes(waiting'[l]) \subseteq Nodes(waiting[l])
    <3>1. \/ waiting' = waiting
          \/ waiting' = [waiting EXCEPT
                           ![FireList(t)] = Unlink(waiting[FireList(t)], t)]
      BY <2>3 DEF TimerFire
    <3>2. waiting'[l] = waiting[l] \/ waiting'[l] = Unlink(waiting[l], t)
      BY <1>0, <3>1
    <3>3. Once(waiting[l]) /\ waiting[l] \in Seq(Threads)
      BY DEF Facts, ThreadInv, Apart, Lists
    <3>4. Nodes(Unlink(waiting[l], t)) = Nodes(waiting[l]) \ {t}
      BY <3>3, UnlinkLinks
    <3> QED BY <3>2, <3>4
  <2> QED BY <2>1, <2>2, <2>3 DEF Handler
<1> QED
  BY <1>1, <1>2, QuietKeepsInherit DEF Facts, ThreadInv

(* The steps of a thread's life change no priority but by kthread_set_pri. *)
LEMMA LifeKeepsInherit ==
  ASSUME KernelAssumption, Facts, "set_pri" \notin Calls,
         NEW t \in Threads, Life(t)
  PROVE  InheritInv'
<1>0. pc \in [Threads -> PCs] /\ mtx \in [Threads -> Mutexes \cup {None}]
  BY PriorityTypes DEF Facts, ThreadInv
<1>1. Runs(t) /\ UNCHANGED <<pri, owner, original_pri, waiting>>
  BY Zenon DEF Life, mutexVars, KthreadNewInit, KthreadYield,
     KthreadYieldSwitch, KthreadExit, KthreadJoinResume, KthreadSleep,
     KthreadSleepSwitch, KthreadSleepResume, KthreadNew, KthreadSuspend,
     KthreadResume, KthreadDetach, KthreadKill, KthreadJoinExited,
     KthreadJoinWait, KthreadTryJoin, KthreadSetPri, At, Caller, CallerOn
<1>2. UNCHANGED <<pc, mtx>> \/ OnlyMoves(t)
  <2>1. UNCHANGED <<pc, mtx>> \/ \E w : Moves(t, w)
    BY LifeMoves
  <2> QED BY <1>0, <2>1 DEF Moves, OnlyMoves
<1>3. \A l \in Mutexes : t \notin Nodes(waiting[l])
  BY <1>1, RunnerWaitsNowhere DEF Facts
<1> QED
  BY <1>1, <1>2, <1>3, QuietKeepsInherit DEF Facts, ThreadInv

(* Every step.                                                             *)
LEMMA NextKeepsInherit ==
  ASSUME KernelAssumption, Facts, MutexInv', OneAtATime',
         "set_pri" \notin Calls, [Next]_vars
  PROVE  InheritInv'
<1>1. ASSUME NEW t \in Threads, Sync(t)
      PROVE  InheritInv'
  BY <1>1, MutexCallsKeepInherit, CondCallsKeepInherit, CondWaitsKeepInherit
     DEF Sync
<1>2. CASE KernelClose
  BY <1>2, QuietKeepsInherit DEF KernelClose, mutexVars, callVars, Facts, ThreadInv
<1>3. CASE UNCHANGED vars
  BY <1>3, QuietKeepsInherit DEF vars, mutexVars, callVars, Facts, ThreadInv
<1> QED
  BY <1>1, <1>2, <1>3, LifeKeepsInherit, HandlerKeepsInherit DEF Next

(* kernel_init.                                                            *)
LEMMA InitInherit ==
  ASSUME KernelAssumption, Init
  PROVE  InheritInv
<1>1. /\ pri = NewPri /\ \A m \in Mutexes : owner[m] = None /\ waiting[m] = <<>>
  BY DEF Init
<1>2. \A m \in Mutexes : Nodes(waiting[m]) = {}
  BY <1>1 DEF Nodes
<1> QED
  BY <1>1, <1>2 DEF InheritInv

(***************************************************************************)
(* Priority inheritance: for any number of threads, mutexes and waits on   *)
(* condition variables, timed or not, whoever holds a mutex runs at least  *)
(* at the priority of every thread that waits for it, in programs that     *)
(* hold one mutex at a time and set no priority themselves.                *)
(***************************************************************************)
THEOREM OwnersInherit ==
  ASSUME Shallow, KillsNoJoiner, "set_pri" \notin Calls
  PROVE  Spec /\ []OneAtATime => []OwnerInherits
<1>1. Init => MutexInv /\ InheritInv
  BY KernelAssumption, InitMutexInv, InitInherit
<1>2. MutexInv /\ [Next]_vars => MutexInv'
  BY KernelAssumption, NextKeepsMutexInv
<1>3. /\ ThreadInv /\ MutexInv /\ InheritInv /\ OneAtATime /\ OneAtATime'
      /\ [Next]_vars
      => InheritInv'
  BY <1>2, KernelAssumption, NextKeepsInherit DEF Facts
<1>4. ThreadInv /\ MutexInv /\ InheritInv => OwnerInherits
  <2> SUFFICES ASSUME ThreadInv, MutexInv, InheritInv, NEW m \in Mutexes,
                      NEW i \in 1 .. Len(waiting[m])
      PROVE  pri[owner[m]] >= pri[waiting[m][i]]
      BY DEF OwnerInherits
  <2>1. waiting[m] # <<>> /\ waiting[m][i] \in Nodes(waiting[m])
    BY DEF Nodes
  <2> QED BY <2>1 DEF InheritInv, MutexInv, NoWaiterOnFreeMutex
<1>5. Spec => []ThreadInv
  BY ThreadInvHolds
<1> QED
  BY <1>1, <1>2, <1>3, <1>4, <1>5, PTL DEF Spec

(***************************************************************************)
(* The same for the end of inheritance: a thread that holds no mutex has   *)
(* the priority it was created with.                                       *)
(***************************************************************************)
THEOREM PrioritiesRestored ==
  ASSUME Shallow, KillsNoJoiner, "set_pri" \notin Calls
  PROVE  Spec /\ []OneAtATime => []PriorityRestored
<1>1. Init => MutexInv /\ InheritInv
  BY KernelAssumption, InitMutexInv, InitInherit
<1>2. MutexInv /\ [Next]_vars => MutexInv'
  BY KernelAssumption, NextKeepsMutexInv
<1>3. /\ ThreadInv /\ MutexInv /\ InheritInv /\ OneAtATime /\ OneAtATime'
      /\ [Next]_vars
      => InheritInv'
  BY <1>2, KernelAssumption, NextKeepsInherit DEF Facts
<1>4. MutexInv /\ InheritInv => PriorityRestored
  <2> SUFFICES ASSUME MutexInv, InheritInv, NEW t \in Threads,
                      \A m \in Mutexes : held[t][m] = 0
      PROVE  pri[t] = NewPri[t]
      BY DEF PriorityRestored
  <2>1. \A m \in Mutexes : owner[m] # t
    BY DEF MutexInv, HoldersOwn
  <2> QED BY <2>1 DEF InheritInv
<1>5. Spec => []ThreadInv
  BY ThreadInvHolds
<1> QED
  BY <1>1, <1>2, <1>3, <1>4, <1>5, PTL DEF Spec

-----------------------------------------------------------------------------
(* Strict priorities.                                                      *)

(* No ready thread has a higher priority than the one that runs ...        *)
RunnerLeads == \A u \in Nodes(th_ready) : pri[u] <= pri[th_cur]

(* ... or the CPU is about to look for one that has.                       *)
SwitchDue ==
  \/ force \/ pc[th_cur] \in {"check", "yield"}
  \/ pc[th_cur] = "newtls" /\ pri[peer[th_cur]] >= pri[th_cur]

(* Nobody is anywhere near a mutex.                                        *)
NoLocks ==
  \A t \in Threads :
    /\ mtx[t] = None /\ pc[t] \notin LockCalls
    /\ \A m \in Mutexes : held[t][m] = 0

(* As long as every thread has the priority it was created with, all lists *)
(* are sorted and the running thread leads.                                *)
WaitersSorted == \A l \in Lists : Descending(waiting[l], pri)

Ranked ==
  pri = NewPri =>
    /\ Descending(th_ready, pri) /\ WaitersSorted
    /\ ~panic => RunnerLeads \/ SwitchDue

(* A program without mutexes, whose calls of kthread_set_pri change the    *)
(* priorities for good.                                                    *)
FixedPriorities ==
  /\ {"lock", "trylock"} \cap Calls = {}
  /\ "set_pri" \in Calls => \A t \in Threads : NewPri[t] \notin Pris

(* The idle thread is created below the priorities of kthread_new.         *)
IdleIsLowest == \A t \in Threads : NewPri[Idle] <= NewPri[t]

(* Such a program never locks anything.                                    *)
LEMMA NextKeepsNoLocks ==
  ASSUME KernelAssumption, TypeInv, FixedPriorities, NoLocks, [Next]_vars
  PROVE  NoLocks'
<1>0. /\ pc \in [Threads -> PCs] /\ mtx \in [Threads -> Mutexes \cup {None}]
      /\ held \in [Threads -> [Mutexes -> Nat]]
  BY PriorityTypes
<1>1. ASSUME NEW t \in Threads, NEW w, w \notin LockCalls, UNCHANGED held,
             pc' = [pc EXCEPT ![t] = w],
             UNCHANGED mtx \/ mtx' = [mtx EXCEPT ![t] = None]
      PROVE  NoLocks'
  BY <1>0, <1>1 DEF NoLocks
<1>2. ASSUME UNCHANGED <<held, pc, mtx>>
      PROVE  NoLocks'
  BY <1>2 DEF NoLocks
<1>3. ASSUME NEW t \in Threads, Life(t)
      PROVE  NoLocks'
  <2>1. UNCHANGED held
    BY <1>3, Zenon DEF Life, mutexVars, KthreadNewInit, KthreadYield,
     KthreadYieldSwitch, KthreadExit, KthreadJoinResume, KthreadSleep,
     KthreadSleepSwitch, KthreadSleepResume, KthreadNew, KthreadSuspend,
     KthreadResume, KthreadDetach, KthreadKill, KthreadJoinExited,
     KthreadJoinWait, KthreadTryJoin, KthreadSetPri
  <2>2. \/ UNCHANGED <<pc, mtx>>
        \/ \E w \in {"user", "check", "yield", "dead", "sleep", "sleeparm",
                     "newtls", "join"} : Moves(t, w)
    BY <1>3, LifeMoves
  <2>3. {"user", "check", "yield", "dead", "sleep", "sleeparm", "newtls", "join"}
          \cap LockCalls = {}
    BY DEF LockCalls
  <2> QED BY <1>1, <1>2, <2>1, <2>2, <2>3 DEF Moves
<1>4. ASSUME NEW t \in Threads, Sync(t)
      PROVE  NoLocks'
  <2>0. /\ mtx[t] = None /\ pc[t] \notin LockCalls
        /\ \A m \in Mutexes : held[t][m] = 0
        /\ {"user", "condwait", "condarm", "condtimed"} \cap LockCalls = {}
    BY DEF NoLocks, LockCalls
  <2>1. CASE KcondWaitResume(t) \/ KcondWaitTimeoutResume(t)
    <3>1. ReturnLocked(t, None) /\ UNCHANGED held
      BY <2>0, <2>1 DEF KcondWaitResume, KcondWaitTimeoutResume, Rewait, mutexVars
    <3> QED BY <1>1, <2>0, <3>1 DEF ReturnLocked, Goto
  <2>2. CASE KcondWaitTimeoutSwitch(t)
    <3>1. Goto(t, "condtimed", None) /\ UNCHANGED held
      BY <2>0, <2>2 DEF KcondWaitTimeoutSwitch, mutexVars
    <3> QED BY <1>1, <2>0, <3>1 DEF Goto
  <2>3. ASSUME NEW c \in Conds, KcondSignal(t, c) \/ KcondBroadcast(t, c)
        PROVE  NoLocks'
    BY <1>2, <2>3 DEF KcondSignal, KcondBroadcast, mutexVars, callVars
  <2>4. ASSUME NEW c \in Conds, NEW m \in Mutexes \cup {None},
               KcondWait(t, c, m) \/ KcondWaitTimeout(t, c, m)
        PROVE  NoLocks'
    <3>1. UnlockAndLink(t, c, m) /\ \E w \in {"condwait", "condarm"} : Goto(t, w, m)
      BY <2>4 DEF KcondWait, KcondWaitTimeout
    <3>2. m = None
      BY <2>0, <3>1 DEF UnlockAndLink
    <3>3. UNCHANGED held
      BY <3>1, <3>2 DEF UnlockAndLink, mutexVars
    <3> QED BY <1>1, <2>0, <3>1, <3>2, <3>3 DEF Goto
  <2>5. \/ KcondWaitResume(t) \/ KcondWaitTimeoutResume(t) \/ KcondWaitTimeoutSwitch(t)
        \/ \E c \in Conds : \/ KcondSignal(t, c) \/ KcondBroadcast(t, c)
                            \/ \E m \in Mutexes \cup {None} :
                                 KcondWait(t, c, m) \/ KcondWaitTimeout(t, c, m)
    <3>1. ~KmutexLockResume(t) /\ ~KmutexTryLockLoop(t)
      BY <2>0 DEF KmutexLockResume, KmutexTryLockLoop, At, LockCalls
    <3>2. ASSUME NEW m \in Mutexes
          PROVE  /\ ~KmutexLock(t, m) /\ ~KmutexUnlock(t, m)
                 /\ ~KmutexTryLock(t, m) /\ ~KmutexTryLockStart(t, m)
      BY DEF KmutexLock, KmutexUnlock, KmutexTryLock, KmutexTryLockStart, Caller,
             FixedPriorities
    <3> QED BY <1>4, <3>1, <3>2 DEF Sync
  <2> QED BY <2>1, <2>2, <2>3, <2>4, <2>5
<1>5. Handler \/ KernelClose \/ UNCHANGED vars => UNCHANGED <<held, pc, mtx>>
  BY DEF Handler, Interrupt, InterruptEnd, TimerFire, KcondSignalIsr,
         KcondBroadcastIsr, KernelClose, vars, mutexVars, callVars
<1> QED
  BY <1>2, <1>3, <1>4, <1>5 DEF Next

(* After every switch the lists are sorted and the thread that runs leads. *)
LEMMA ScheduleRanks ==
  ASSUME TypeInv, TypeInv', NEW r \in Seq(Threads), NEW il, NEW syscall \in BOOLEAN, NEW ok,
         UNCHANGED pri, Descending(r, pri), Schedule(r, il, syscall, ok), WaitersSorted'
  PROVE  Ranked'
<1> DEFINE s == Parked(r, syscall)
           k == NextAt(s)
<1>0. th_cur \in Threads /\ pri \in [Threads -> Int]
  BY DEF TypeInv, TypeOK
<1>1. s \in Seq(Threads) /\ Descending(s, pri)
  <2>1. /\ AddPri(r, th_cur, pri) \in Seq(Threads)
        /\ Descending(AddPri(r, th_cur, pri), pri)
    BY <1>0, AddPriLinks, AddPriDescends
  <2> QED BY <2>1 DEF Parked
<1>2. /\ Runnable(s) = {} => panic' /\ th_ready' = s
      /\ Runnable(s) # {} => th_cur' = s[k] /\ th_ready' = SubSeq(s, k + 1, Len(s))
  BY DEF Schedule
<1> HIDE DEF s
<1>3. Runnable(s) # {} => k \in 1 .. Len(s)
  <2> HAVE Runnable(s) # {}
  <2>1. Runnable(s) \in SUBSET Nat
    BY DEF Runnable
  <2>2. \E i \in Runnable(s) : \A j \in Runnable(s) : i <= j
    BY <2>1, MinNat
  <2>3. k \in Runnable(s)
    BY <2>2 DEF NextAt
  <2> HIDE DEF k
  <2> QED BY <2>3 DEF Runnable
<1> HIDE DEF k
<1>4. Runnable(s) # {} =>
        /\ Descending(th_ready', pri)
        /\ \A u \in Nodes(th_ready') : pri[th_cur'] >= pri[u]
  BY <1>1, <1>2, <1>3, RestDescends
<1>5. Descending(th_ready', pri)
  BY <1>1, <1>2, <1>4
<1>6. ~panic' => RunnerLeads'
  <2> SUFFICES ASSUME ~panic', NEW u \in Nodes(th_ready')
      PROVE  pri'[u] <= pri'[th_cur']
      BY DEF RunnerLeads
  <2>1. pri[th_cur'] >= pri[u]
    BY <1>2, <1>4
  <2>2. u \in Threads /\ th_cur' \in Threads
    BY DEF TypeInv, TypeOK, Nodes
  <2> QED BY <1>0, <2>1, <2>2
<1> QED
  BY <1>5, <1>6 DEF Ranked

(* A step that leaves the lists and the CPU alone.                         *)
LEMMA QuietRanks ==
  ASSUME TypeInv, Ranked, ~panic, UNCHANGED <<th_cur, th_ready, waiting, force, pri>>,
         UNCHANGED <<pc, peer>> \/ pc[th_cur] \notin {"check", "yield", "newtls"}
  PROVE  Ranked'
<1> SUFFICES ASSUME pri = NewPri
    PROVE  /\ Descending(th_ready, pri) /\ WaitersSorted
           /\ RunnerLeads' \/ SwitchDue'
    BY DEF Ranked, WaitersSorted
<1>1. Descending(th_ready, pri) /\ WaitersSorted /\ (RunnerLeads \/ SwitchDue)
  BY DEF Ranked
<1>2. RunnerLeads => RunnerLeads'
  BY DEF RunnerLeads
<1>3. SwitchDue => SwitchDue'
  BY DEF SwitchDue
<1> QED
  BY <1>1, <1>2, <1>3

(* A step of the running thread t that puts others on the ready list and   *)
(* switches unless they are all of lower priority.                         *)
LEMMA WakeRanks ==
  ASSUME TypeInv, TypeInv', Ranked, ~panic, pri = NewPri, UNCHANGED pri,
         NEW r \in Seq(Threads), Descending(r, pri), WaitersSorted', NEW ok,
         UNCHANGED <<pc, force>>, pc[th_cur] = "user",
         \/ Yield(r, inlist, ok)
         \/ /\ Continue(r, inlist, ok)
            /\ \A u \in Nodes(r) : u \in Nodes(th_ready) \/ pri[u] <= pri[th_cur]
  PROVE  Ranked'
<1>0. th_cur \in Threads /\ pri \in [Threads -> Int] /\ Len(r) \in Nat
  BY DEF TypeInv, TypeOK
<1>1. ASSUME Continue(r, inlist, ok), (\A u \in Nodes(r) : pri[u] <= pri[th_cur]) \/ force
      PROVE  Ranked'
  <2>1. th_ready' = r /\ th_cur' = th_cur
    BY <1>1 DEF Continue
  <2> QED BY <1>1, <2>1 DEF Ranked, RunnerLeads, SwitchDue
<1>2. CASE Continue(r, inlist, ok)
           /\ \A u \in Nodes(r) : u \in Nodes(th_ready) \/ pri[u] <= pri[th_cur]
  <2>1. RunnerLeads \/ force
    BY DEF Ranked, SwitchDue
  <2>2. (\A u \in Nodes(r) : pri[u] <= pri[th_cur]) \/ force
    BY <1>2, <2>1 DEF RunnerLeads
  <2> QED BY <1>1, <1>2, <2>2
<1>3. CASE Yield(r, inlist, ok)
  <2>1. CASE r # <<>> /\ pri'[Head(r)] >= pri'[th_cur]
    <3>1. Switch(AddPri(r, th_cur, pri), inlist \cup {th_cur}, ok /\ th_cur \notin inlist)
      BY <1>3, <2>1 DEF Yield
    <3>2. /\ AddPri(r, th_cur, pri) \in Seq(Threads)
          /\ Descending(AddPri(r, th_cur, pri), pri)
      BY <1>0, AddPriLinks, AddPriDescends
    <3> QED BY <3>1, <3>2, ScheduleRanks DEF Switch
  <2>2. CASE ~(r # <<>> /\ pri'[Head(r)] >= pri'[th_cur])
    <3>1. Continue(r, inlist, ok)
      BY <1>3, <2>2 DEF Yield
    <3>2. ASSUME NEW u \in Nodes(r)
          PROVE  pri[u] <= pri[th_cur]
      <4>1. pri[Head(r)] >= pri[u] /\ Head(r) \in Threads /\ u \in Threads /\ r # <<>>
        BY <1>0, HeadLeads
      <4> QED BY <1>0, <2>2, <4>1
    <3> QED BY <1>1, <3>1, <3>2
  <2> QED BY <2>1, <2>2
<1> QED
  BY <1>2, <1>3

(* The calls on condition variables keep the order.                        *)
LEMMA SyncRanks ==
  ASSUME KernelAssumption, FixedPriorities, ThreadInv, TypeInv', NoLocks, Ranked, ~panic,
         pri = NewPri, NEW t \in Threads, Sync(t)
  PROVE  Ranked'
<1>0. /\ th_ready \in Seq(Threads) /\ waiting \in [Mutexes \cup Conds -> Seq(Threads)]
      /\ pri \in [Threads -> Int] /\ pc \in [Threads -> PCs] /\ TypeInv
      /\ Descending(th_ready, pri) /\ WaitersSorted
  BY DEF ThreadInv, TypeInv, TypeOK, Ranked
<1>1. Runs(t) => t = th_cur
  BY DEF Runs
<1>2. /\ mtx[t] = None /\ pc[t] \notin LockCalls
      /\ \A m \in Mutexes : held[t][m] = 0
  BY DEF NoLocks
<1>3. CASE KcondWaitResume(t) \/ KcondWaitTimeoutResume(t)
  <2>1. /\ Runs(t) /\ pc[t] \in {"condwait", "condtimed"}
        /\ ReturnLocked(t, None)
    BY <1>2, <1>3 DEF KcondWaitResume, KcondWaitTimeoutResume, Rewait, At
  <2> QED BY <1>0, <1>1, <2>1, QuietRanks DEF ReturnLocked, runVars, isrVars
<1>4. CASE KcondWaitTimeoutSwitch(t)
  <2>1. UNCHANGED <<pri, waiting>> /\ Switch(th_ready, inlist, TRUE)
    BY <1>4 DEF KcondWaitTimeoutSwitch
  <2>2. WaitersSorted'
    BY <1>0, <2>1 DEF WaitersSorted
  <2> QED BY <1>0, <2>1, <2>2, ScheduleRanks DEF Switch
<1>5. ASSUME NEW c \in Conds, KcondSignal(t, c)
      PROVE  Ranked'
  <2> DEFINE h == Head(waiting[c])
             r == AddPri(th_ready, h, pri)
  <2>1. /\ Runs(t) /\ pc[t] = "user" /\ waiting[c] # <<>>
        /\ waiting' = [waiting EXCEPT ![c] = Tail(waiting[c])]
        /\ UNCHANGED <<pc, force, pri>>
        /\ IF pri[t] < pri[h] THEN Yield(r, inlist, TRUE) ELSE Continue(r, inlist, TRUE)
    BY <1>5 DEF KcondSignal, Caller, At, Unlinked, isrVars, callVars
  <2>2. h \in Threads /\ waiting[c] \in Seq(Threads) /\ Descending(waiting[c], pri)
    BY <1>0, <2>1 DEF WaitersSorted, Lists
  <2> HIDE DEF h
  <2>3. r \in Seq(Threads) /\ Descending(r, pri) /\ Nodes(r) = Nodes(th_ready) \cup {h}
    BY <1>0, <2>2, AddPriLinks, AddPriDescends
  <2>4. WaitersSorted'
    <3>1. Descending(Tail(waiting[c]), pri)
      BY <2>1, <2>2, TailDescends
    <3> QED BY <1>0, <2>1, <3>1 DEF WaitersSorted, Lists
  <2> HIDE DEF r
  <2>5. Continue(r, inlist, TRUE) /\ ~(pri[t] < pri[h]) =>
          \A u \in Nodes(r) : u \in Nodes(th_ready) \/ pri[u] <= pri[th_cur]
    <3>1. t = th_cur /\ pri[t] \in Int /\ pri[h] \in Int
      BY <1>0, <1>1, <2>1, <2>2
    <3> QED BY <2>3, <3>1
  <2> QED BY <1>0, <1>1, <2>1, <2>3, <2>4, <2>5, WakeRanks
<1>6. ASSUME NEW c \in Conds, KcondBroadcast(t, c)
      PROVE  Ranked'
  <2> DEFINE w == waiting[c]
             r == Splice(th_ready, w, pri)
  <2>1. /\ Runs(t) /\ pc[t] = "user"
        /\ waiting' = [waiting EXCEPT ![c] = <<>>]
        /\ UNCHANGED <<pc, force, pri>>
        /\ IF MovedHighPri(w, pri[t], pri) THEN Yield(r, inlist, TRUE)
                                          ELSE Continue(r, inlist, TRUE)
    BY <1>6 DEF KcondBroadcast, Caller, At, isrVars, callVars
  <2>2. w \in Seq(Threads) /\ Descending(w, pri)
    BY <1>0 DEF WaitersSorted, Lists
  <2> HIDE DEF w
  <2>3. r \in Seq(Threads) /\ Descending(r, pri) /\ Nodes(r) = Nodes(th_ready) \cup Nodes(w)
    BY <1>0, <2>2, SpliceLinks, SpliceDescends
  <2>4. WaitersSorted'
    <3>1. Descending(<<>>, pri)
      BY DEF Descending
    <3> QED BY <1>0, <2>1, <3>1 DEF WaitersSorted, Lists
  <2> HIDE DEF r
  <2>5. ~MovedHighPri(w, pri[t], pri) =>
          \A u \in Nodes(r) : u \in Nodes(th_ready) \/ pri[u] <= pri[th_cur]
    <3> SUFFICES ASSUME ~MovedHighPri(w, pri[t], pri), NEW u \in Nodes(w)
        PROVE  pri[u] <= pri[th_cur]
        BY <2>3
    <3>1. PICK i \in 1 .. Len(w) : u = w[i]
      BY DEF Nodes
    <3>2. ~(pri[u] >= pri[t]) /\ u \in Threads /\ t = th_cur
      BY <1>1, <2>1, <2>2, <3>1 DEF MovedHighPri
    <3> QED BY <1>0, <3>2
  <2> QED BY <1>0, <1>1, <2>1, <2>3, <2>4, <2>5, WakeRanks
<1>7. ASSUME NEW c \in Conds, NEW m \in Mutexes \cup {None},
             KcondWait(t, c, m) \/ KcondWaitTimeout(t, c, m)
      PROVE  Ranked'
  <2>1. Runs(t) /\ pc[t] = "user" /\ UnlockAndLink(t, c, m) /\ UNCHANGED force
    BY <1>7 DEF KcondWait, KcondWaitTimeout, Caller, At, isrVars
  <2>2. m = None
    BY <1>2, <2>1 DEF UnlockAndLink
  <2>3. /\ waiting' = [waiting EXCEPT ![c] = AddPri(waiting[c], t, pri)] /\ UNCHANGED pri
        /\ WaitReady(m) = th_ready
    BY <2>1, <2>2 DEF UnlockAndLink, WaitReady
  <2>4. WaitersSorted'
    <3>1. waiting[c] \in Seq(Threads) /\ Descending(waiting[c], pri)
      BY <1>0 DEF WaitersSorted, Lists
    <3>2. Descending(AddPri(waiting[c], t, pri), pri)
      BY <1>0, <3>1, AddPriDescends
    <3> QED BY <1>0, <2>3, <3>2 DEF WaitersSorted, Lists
  <2>5. CASE KcondWait(t, c, m)
    <3>1. Switch(th_ready, inlist \cup {t}, WaitAsserts(t, m))
      BY <2>3, <2>5 DEF KcondWait
    <3> QED BY <1>0, <2>3, <2>4, <3>1, ScheduleRanks DEF Switch
  <2>6. CASE KcondWaitTimeout(t, c, m)
    <3>1. th_ready' = th_ready /\ th_cur' = th_cur
      BY <2>3, <2>6 DEF KcondWaitTimeout, Continue
    <3>2. RunnerLeads \/ force
      BY <1>1, <2>1 DEF Ranked, SwitchDue
    <3> QED BY <1>0, <2>1, <2>3, <2>4, <3>1, <3>2 DEF Ranked, RunnerLeads, SwitchDue
  <2> QED BY <1>7, <2>5, <2>6
<1>8. ~KmutexLockResume(t) /\ ~KmutexTryLockLoop(t)
  BY <1>2 DEF KmutexLockResume, KmutexTryLockLoop, At, LockCalls
<1>9. ASSUME NEW m \in Mutexes
      PROVE  /\ ~KmutexLock(t, m) /\ ~KmutexUnlock(t, m)
             /\ ~KmutexTryLock(t, m) /\ ~KmutexTryLockStart(t, m)
  BY DEF KmutexLock, KmutexUnlock, KmutexTryLock, KmutexTryLockStart, Caller,
         FixedPriorities
<1> QED
  BY <1>3, <1>4, <1>5, <1>6, <1>7, <1>8, <1>9 DEF Sync

(* A priority that is changed is never the one of the creation again.      *)
LEMMA PrioritiesStay ==
  ASSUME KernelAssumption, FixedPriorities, TypeInv, NoLocks, [Next]_vars
  PROVE  UNCHANGED pri \/ pri' # NewPri
<1>0. pri \in [Threads -> Int]
  BY DEF TypeInv, TypeOK
<1>1. ASSUME NEW t \in Threads, NEW u \in Threads, NEW p \in Pris, KthreadSetPri(t, u, p)
      PROVE  pri' # NewPri
  <2>1. pri'[u] = p /\ "set_pri" \in Calls
    BY <1>0, <1>1 DEF KthreadSetPri, CallerOn, Caller
  <2> QED BY <2>1 DEF FixedPriorities
<1>2. ASSUME NEW t \in Threads, Life(t), ~ \E u \in Threads, p \in Pris : KthreadSetPri(t, u, p)
      PROVE  UNCHANGED pri
  BY <1>2, Zenon DEF Life, KthreadNewInit, KthreadYield,
     KthreadYieldSwitch, KthreadExit, KthreadJoinResume, KthreadSleep,
     KthreadSleepSwitch, KthreadSleepResume, KthreadNew, KthreadSuspend,
     KthreadResume, KthreadDetach, KthreadKill, KthreadJoinExited,
     KthreadJoinWait, KthreadTryJoin
<1>3. ASSUME NEW t \in Threads, Sync(t)
      PROVE  UNCHANGED pri
  <2>0. /\ mtx[t] = None /\ pc[t] \notin LockCalls
        /\ \A m \in Mutexes : held[t][m] = 0
    BY DEF NoLocks
  <2>1. KcondWaitResume(t) \/ KcondWaitTimeoutResume(t) \/ KcondWaitTimeoutSwitch(t)
          => UNCHANGED pri
    BY <2>0 DEF KcondWaitResume, KcondWaitTimeoutResume, Rewait, ReturnLocked,
                KcondWaitTimeoutSwitch
  <2>2. ASSUME NEW c \in Conds, NEW m \in Mutexes \cup {None},
               KcondWait(t, c, m) \/ KcondWaitTimeout(t, c, m)
        PROVE  UNCHANGED pri
    BY <2>0, <2>2 DEF KcondWait, KcondWaitTimeout, UnlockAndLink
  <2>3. ASSUME NEW c \in Conds, KcondSignal(t, c) \/ KcondBroadcast(t, c)
        PROVE  UNCHANGED pri
    BY <2>3 DEF KcondSignal, KcondBroadcast
  <2>4. ~KmutexLockResume(t) /\ ~KmutexTryLockLoop(t)
    BY <2>0 DEF KmutexLockResume, KmutexTryLockLoop, At, LockCalls
  <2>5. ASSUME NEW m \in Mutexes
        PROVE  /\ ~KmutexLock(t, m) /\ ~KmutexUnlock(t, m)
               /\ ~KmutexTryLock(t, m) /\ ~KmutexTryLockStart(t, m)
    BY DEF KmutexLock, KmutexUnlock, KmutexTryLock, KmutexTryLockStart, Caller,
           FixedPriorities
  <2> QED BY <1>3, <2>1, <2>2, <2>3, <2>4, <2>5 DEF Sync
<1>4. Handler \/ KernelClose \/ UNCHANGED vars => UNCHANGED pri
  BY DEF Handler, Interrupt, InterruptEnd, TimerFire, KcondSignalIsr,
         KcondBroadcastIsr, KernelClose, vars
<1> QED
  BY <1>1, <1>2, <1>3, <1>4 DEF Next

(* The calls of a thread's life keep the order.                            *)
LEMMA LifeRanks ==
  ASSUME KernelAssumption, ThreadInv, TypeInv', Ranked, ~panic,
         pri = NewPri, UNCHANGED pri, NEW t \in Threads, Life(t)
  PROVE  Ranked'
<1> USE DEF Caller, At, CallerOn, isrVars
<1>0. /\ th_ready \in Seq(Threads) /\ waiting \in [Mutexes \cup Conds -> Seq(Threads)]
      /\ pri \in [Threads -> Int] /\ pc \in [Threads -> PCs] /\ TypeInv
      /\ peer \in [Threads -> Threads \cup {None}] /\ joiner \in [Threads -> Threads \cup {None}]
      /\ Descending(th_ready, pri) /\ WaitersSorted /\ (RunnerLeads \/ SwitchDue)
  BY DEF ThreadInv, TypeInv, TypeOK, Ranked
<1>1. UNCHANGED <<waiting, force>>
  BY Zenon DEF Life, KthreadNewInit, KthreadYield,
     KthreadYieldSwitch, KthreadExit, KthreadJoinResume, KthreadSleep,
     KthreadSleepSwitch, KthreadSleepResume, KthreadNew, KthreadSuspend,
     KthreadResume, KthreadDetach, KthreadKill, KthreadJoinExited,
     KthreadJoinWait, KthreadTryJoin, KthreadSetPri
<1>2. WaitersSorted'
  BY <1>0, <1>1 DEF WaitersSorted
<1>3. ASSUME NEW r \in Seq(Threads), Descending(r, pri), NEW il, NEW ok, Switch(r, il, ok)
      PROVE  Ranked'
  BY <1>0, <1>2, <1>3, ScheduleRanks DEF Switch
<1>4. ASSUME NEW x \in Threads
      PROVE  AddPri(th_ready, x, pri) \in Seq(Threads)
             /\ Descending(AddPri(th_ready, x, pri), pri)
  BY <1>0, AddPriLinks, AddPriDescends
<1>5. CASE KthreadNewInit(t)
  <2>1. /\ t = th_cur /\ pc[t] = "newtls" /\ UNCHANGED <<th_cur, th_ready>>
        /\ pc'[t] = IF pri[peer[t]] >= pri[t] THEN "check" ELSE "user"
    BY <1>0, <1>5 DEF KthreadNewInit, Runs
  <2>2. RunnerLeads' \/ SwitchDue'
    <3>1. CASE pri[peer[t]] >= pri[t]
      BY <2>1, <3>1 DEF SwitchDue
    <3>2. CASE ~(pri[peer[t]] >= pri[t])
      <4>1. RunnerLeads \/ force
        BY <1>0, <2>1, <3>2 DEF SwitchDue
      <4> QED BY <1>1, <2>1, <4>1 DEF RunnerLeads, SwitchDue
    <3> QED BY <3>1, <3>2
  <2> QED BY <1>0, <1>2, <2>1, <2>2 DEF Ranked
<1>6. CASE KthreadYield(t)
  <2>1. /\ t = th_cur /\ UNCHANGED <<th_cur, th_ready>>
        /\ pc'[t] = IF th_ready # <<>> /\ pri[Head(th_ready)] >= pri[t]
                    THEN "yield" ELSE "user"
    BY <1>0, <1>6 DEF KthreadYield, Runs, runVars
  <2>2. RunnerLeads' \/ SwitchDue'
    <3>1. CASE th_ready # <<>> /\ pri[Head(th_ready)] >= pri[t]
      BY <2>1, <3>1 DEF SwitchDue
    <3>2. CASE ~(th_ready # <<>> /\ pri[Head(th_ready)] >= pri[t])
      <4> SUFFICES ASSUME NEW u \in Nodes(th_ready)
          PROVE  pri[u] <= pri[t]
          BY <2>1 DEF RunnerLeads
      <4>1. pri[Head(th_ready)] >= pri[u] /\ Head(th_ready) \in Threads /\ u \in Threads
            /\ th_ready # <<>>
        BY <1>0, HeadLeads
      <4> QED BY <1>0, <3>2, <4>1
    <3> QED BY <3>1, <3>2
  <2> QED BY <1>0, <1>2, <2>1, <2>2 DEF Ranked
<1>7. CASE KthreadYieldSwitch(t)
  BY <1>3, <1>4, <1>7 DEF KthreadYieldSwitch
<1>8. CASE KthreadExit(t)
  <2>1. Switch(ReadyAfterKill(t), InlistAfterKill(t), KillAsserts(t))
    BY <1>8 DEF KthreadExit
  <2>2. ReadyAfterKill(t) \in Seq(Threads) /\ Descending(ReadyAfterKill(t), pri)
    BY <1>0, <1>4 DEF ReadyAfterKill, WakesJoiner
  <2> QED BY <1>3, <2>1, <2>2
<1>9. CASE KthreadSleepSwitch(t)
  BY <1>0, <1>3, <1>9 DEF KthreadSleepSwitch
<1>10. CASE KthreadJoinResume(t) \/ KthreadSleep(t) \/ KthreadSleepResume(t)
  <2>1. /\ t = th_cur /\ pc[t] \in {"join", "user", "sleep"}
        /\ UNCHANGED <<th_cur, th_ready>>
    BY <1>10 DEF KthreadJoinResume, KthreadSleep, KthreadSleepResume, Runs, runVars
  <2> QED BY <1>0, <1>1, <2>1, QuietRanks
<1>11. ASSUME NEW u \in Threads, KthreadNew(t, u)
       PROVE  Ranked'
  <2>1. /\ t = th_cur /\ pc[t] = "user" /\ UNCHANGED th_cur
        /\ th_ready' = AddPri(th_ready, u, pri)
        /\ pc'[t] = "newtls" /\ peer'[t] = u
    BY <1>0, <1>11 DEF KthreadNew, Runs
  <2>2. RunnerLeads \/ force
    BY <1>0, <2>1 DEF SwitchDue
  <2>3. Nodes(th_ready') = Nodes(th_ready) \cup {u}
    BY <1>0, <2>1, AddPriLinks
  <2>4. pri[u] >= pri[t] \/ pri[u] <= pri[t]
    BY <1>0
  <2>5. RunnerLeads' \/ SwitchDue'
    BY <1>1, <2>1, <2>2, <2>3, <2>4 DEF RunnerLeads, SwitchDue
  <2> QED BY <1>0, <1>2, <1>4, <2>1, <2>5 DEF Ranked
<1>12. ASSUME NEW u \in Threads,
              \/ KthreadSuspend(t, u) \/ KthreadResume(t, u) \/ KthreadDetach(t, u)
              \/ KthreadJoinExited(t, u) \/ KthreadTryJoin(t, u)
       PROVE  Ranked'
  <2>1. UNCHANGED <<th_cur, th_ready, pc, peer>>
    BY <1>12 DEF KthreadSuspend, KthreadResume, KthreadDetach, KthreadJoinExited,
                 KthreadTryJoin, runVars, callVars
  <2> QED BY <1>0, <1>1, <2>1, QuietRanks
<1>13. ASSUME NEW u \in Threads, KthreadKill(t, u)
       PROVE  Ranked'
  <2>1. UNCHANGED <<th_cur, pc, peer>> /\ th_ready' = ReadyAfterKill(u) /\ "kill" \in Calls
    BY <1>13 DEF KthreadKill, Continue, callVars
  <2>2. th_ready' = th_ready
    BY <2>1 DEF ReadyAfterKill, WakesJoiner, ThreadInv, JoinersAside
  <2> QED BY <1>0, <1>1, <2>1, <2>2, QuietRanks
<1>14. ASSUME NEW u \in Threads, KthreadJoinWait(t, u)
       PROVE  Ranked'
  <2>1. Switch(th_ready, inlist, TRUE)
    BY <1>14 DEF KthreadJoinWait
  <2> QED BY <1>0, <1>3, <2>1
<1>15. ASSUME NEW u \in Threads, NEW p \in Pris, KthreadSetPri(t, u, p)
       PROVE  Ranked'
  <2>1. /\ t = th_cur /\ UNCHANGED <<th_cur, th_ready>> /\ pc'[t] = "check"
    BY <1>0, <1>15 DEF KthreadSetPri, runVars, Runs
  <2> QED BY <1>0, <1>2, <2>1 DEF Ranked, SwitchDue
<1> QED
  BY <1>5, <1>6, <1>7, <1>8, <1>9, <1>10, <1>11, <1>12, <1>13, <1>14, <1>15 DEF Life

(* So does the interrupt handler.                                          *)
LEMMA HandlerRanks ==
  ASSUME KernelAssumption, ThreadInv, TypeInv', Ranked, ~panic,
         pri = NewPri, UNCHANGED pri, Handler
  PROVE  Ranked'
<1>0. /\ th_ready \in Seq(Threads) /\ waiting \in [Mutexes \cup Conds -> Seq(Threads)]
      /\ pri \in [Threads -> Int] /\ TypeInv /\ th_cur \in Threads
      /\ Descending(th_ready, pri) /\ WaitersSorted /\ (RunnerLeads \/ SwitchDue)
  BY DEF ThreadInv, TypeInv, TypeOK, Ranked
<1>1. CASE Interrupt
  <2>1. UNCHANGED <<th_cur, th_ready, waiting, force, pc, peer>>
    BY <1>1 DEF Interrupt, runVars, callVars
  <2> QED BY <1>0, <2>1, QuietRanks
<1>2. CASE InterruptEnd
  <2>1. /\ UNCHANGED <<waiting, pc, peer>> /\ force' = FALSE
        /\ IF force THEN Schedule(th_ready, inlist, FALSE, TRUE) ELSE UNCHANGED runVars
    BY <1>2 DEF InterruptEnd, callVars
  <2>2. WaitersSorted'
    BY <1>0, <2>1 DEF WaitersSorted
  <2>3. CASE force
    <3>1. Schedule(th_ready, inlist, FALSE, TRUE) /\ FALSE \in BOOLEAN
      BY <2>1, <2>3
    <3> QED BY <1>0, <2>2, <3>1, ScheduleRanks
  <2>4. CASE ~force
    <3>1. force' = force /\ UNCHANGED <<th_cur, th_ready>>
      BY <2>1, <2>4, <1>0 DEF runVars, TypeInv, TypeOK
    <3> QED BY <1>0, <2>1, <3>1, QuietRanks
  <2> QED BY <2>3, <2>4
<1>3. ASSUME NEW t \in Threads, TimerFire(t)
      PROVE  Ranked'
  <2>1. /\ force' = TRUE
        /\ \/ waiting' = waiting
           \/ waiting' = [waiting EXCEPT
                            ![FireList(t)] = Unlink(waiting[FireList(t)], t)]
        /\ th_ready' \in {th_ready, AddPri(th_ready, t, pri)}
    BY <1>3 DEF TimerFire
  <2>2. WaitersSorted'
    <3> SUFFICES ASSUME NEW l \in Lists
        PROVE  Descending(waiting'[l], pri)
        BY DEF WaitersSorted
    <3>1. waiting'[l] = waiting[l] \/ waiting'[l] = Unlink(waiting[l], t)
      BY <1>0, <2>1 DEF Lists
    <3>2. waiting[l] \in Seq(Threads) /\ Descending(waiting[l], pri)
      BY <1>0 DEF WaitersSorted, Lists
    <3>3. Descending(Unlink(waiting[l], t), pri)
      BY <3>2, UnlinkDescends
    <3> QED BY <3>1, <3>2, <3>3
  <2>3. Descending(th_ready', pri)
    BY <1>0, <2>1, AddPriDescends
  <2> QED BY <2>1, <2>2, <2>3 DEF Ranked, SwitchDue
<1>4. ASSUME NEW c \in Conds, KcondSignalIsr(c)
      PROVE  Ranked'
  <2> DEFINE h == Head(waiting[c])
  <2>1. /\ waiting[c] # <<>> /\ waiting' = [waiting EXCEPT ![c] = Tail(waiting[c])]
        /\ th_ready' = AddPri(th_ready, h, pri) /\ force' = (force \/ pri[th_cur] < pri[h])
        /\ UNCHANGED <<th_cur, pc, peer>>
    BY <1>4 DEF KcondSignalIsr, Unlinked, Preempts, callVars
  <2>2. h \in Threads /\ waiting[c] \in Seq(Threads) /\ Descending(waiting[c], pri)
    BY <1>0, <2>1 DEF WaitersSorted, Lists
  <2> HIDE DEF h
  <2>3. Descending(th_ready', pri) /\ Nodes(th_ready') = Nodes(th_ready) \cup {h}
    BY <1>0, <2>1, <2>2, AddPriLinks, AddPriDescends
  <2>4. WaitersSorted'
    <3>1. Descending(Tail(waiting[c]), pri)
      BY <2>1, <2>2, TailDescends
    <3> QED BY <1>0, <2>1, <3>1 DEF WaitersSorted, Lists
  <2>5. RunnerLeads' \/ SwitchDue'
    <3>1. pri[th_cur] < pri[h] \/ pri[h] <= pri[th_cur]
      BY <1>0, <2>2
    <3> QED BY <1>0, <2>1, <2>3, <3>1 DEF RunnerLeads, SwitchDue
  <2> QED BY <2>3, <2>4, <2>5 DEF Ranked
<1>5. ASSUME NEW c \in Conds, KcondBroadcastIsr(c)
      PROVE  Ranked'
  <2> DEFINE w == waiting[c]
  <2>1. /\ waiting' = [waiting EXCEPT ![c] = <<>>]
        /\ th_ready' = Splice(th_ready, w, pri)
        /\ force' = (force \/ MovedHighPri(w, pri[th_cur], pri))
        /\ UNCHANGED <<th_cur, pc, peer>>
    BY <1>5 DEF KcondBroadcastIsr, callVars
  <2>2. w \in Seq(Threads) /\ Descending(w, pri)
    BY <1>0 DEF WaitersSorted, Lists
  <2> HIDE DEF w
  <2>3. Descending(th_ready', pri) /\ Nodes(th_ready') = Nodes(th_ready) \cup Nodes(w)
    BY <1>0, <2>1, <2>2, SpliceLinks, SpliceDescends
  <2>4. WaitersSorted'
    <3>1. Descending(<<>>, pri)
      BY DEF Descending
    <3> QED BY <1>0, <2>1, <3>1 DEF WaitersSorted, Lists
  <2>5. MovedHighPri(w, pri[th_cur], pri) \/ \A u \in Nodes(w) : pri[u] <= pri[th_cur]
    <3> SUFFICES ASSUME ~MovedHighPri(w, pri[th_cur], pri), NEW u \in Nodes(w)
        PROVE  pri[u] <= pri[th_cur]
        OBVIOUS
    <3>1. PICK i \in 1 .. Len(w) : u = w[i]
      BY DEF Nodes
    <3>2. ~(pri[u] >= pri[th_cur]) /\ u \in Threads
      BY <2>2, <3>1 DEF MovedHighPri
    <3> QED BY <1>0, <3>2
  <2>6. RunnerLeads' \/ SwitchDue'
    BY <1>0, <2>1, <2>3, <2>5 DEF RunnerLeads, SwitchDue
  <2> QED BY <2>3, <2>4, <2>6 DEF Ranked
<1> QED
  BY <1>1, <1>2, <1>3, <1>4, <1>5 DEF Handler

(* kernel_close: only the idle thread is ready.                            *)
LEMMA CloseRanks ==
  ASSUME KernelAssumption, IdleIsLowest, EndInv, Ranked, ~panic, pri = NewPri, KernelClose
  PROVE  Ranked'
<1>1. /\ UNCHANGED <<th_cur, th_ready, waiting, pri>> /\ Runs(Main)
      /\ \A u \in Threads \ {Main, Idle} : life[u] # "live" \/ u \in zombie \cup waitforjoin
  BY DEF KernelClose, Caller, At
<1>2. th_cur = Main /\ pc[Main] = "user"
  BY <1>1 DEF Runs, KernelClose, Caller, At
<1>3. ASSUME NEW u \in Nodes(th_ready)
      PROVE  u = Idle
  <2>1. u \in Threads /\ u \in inlist
    <3>1. u \in Threads
      BY DEF EndInv, ThreadInv, TypeInv, TypeOK, Nodes
    <3>2. Linked(u, th_ready, waiting)
      BY DEF Linked
    <3> QED BY <3>1, <3>2 DEF EndInv, ThreadInv, Apart
  <2>2. u # Main
    BY <1>2, <2>1 DEF EndInv, ThreadInv, RunningAlone
  <2>3. pc[u] # "dead" /\ life[u] # "unborn"
    BY <2>1 DEF EndInv, EndedAside, ThreadInv, UnbornAside
  <2>4. life[u] \in {"unborn", "live", "freed"}
    BY <2>1 DEF EndInv, ThreadInv, TypeInv, TypeOK
  <2>5. u # Idle => life[u] # "freed" /\ u \notin zombie \cup waitforjoin
    BY <2>1, <2>3 DEF EndInv, EndedAside
  <2> QED BY <1>1, <2>1, <2>2, <2>3, <2>4, <2>5
<1>4. RunnerLeads'
  BY <1>1, <1>2, <1>3, KernelAssumption DEF RunnerLeads, IdleIsLowest, KernelAssumption
<1> QED
  BY <1>1, <1>4 DEF Ranked, WaitersSorted

(* Every step.                                                             *)
LEMMA NextKeepsRanked ==
  ASSUME KernelAssumption, FixedPriorities, IdleIsLowest, ThreadInv, TypeInv',
         "close" \in Calls => EndInv, NoLocks, Ranked, [Next]_vars
  PROVE  Ranked'
<1>0. TypeInv
  BY DEF ThreadInv
<1>1. CASE pri' # NewPri
  BY <1>1 DEF Ranked
<1>2. CASE pri' = NewPri
  <2>1. UNCHANGED pri /\ pri = NewPri
    BY <1>0, <1>2, PrioritiesStay
  <2>2. CASE Next
    <3>1. ~panic
      BY <2>2, NextFates
    <3>2. KernelClose => EndInv
      BY DEF KernelClose, Caller
    <3> QED BY <2>1, <2>2, <3>1, <3>2, LifeRanks, SyncRanks, HandlerRanks, CloseRanks
            DEF Next
  <2>3. CASE UNCHANGED vars
    BY <2>1, <2>3 DEF vars, runVars, isrVars, callVars, Ranked, WaitersSorted,
                      RunnerLeads, SwitchDue
  <2> QED BY <2>2, <2>3
<1> QED
  BY <1>1, <1>2

(* kernel_init: the idle thread is ready.                                  *)
LEMMA InitRanked ==
  ASSUME KernelAssumption, IdleIsLowest, Init
  PROVE  NoLocks /\ Ranked
<1>1. NoLocks
  BY DEF Init, NoLocks, LockCalls
<1>2. /\ th_ready = <<Idle>> /\ th_cur = Main /\ pri = NewPri
      /\ \A l \in Lists : waiting[l] = <<>>
  BY DEF Init, Lists
<1>3. Descending(th_ready, pri) /\ WaitersSorted
  BY <1>2 DEF Descending, WaitersSorted
<1>4. RunnerLeads
  <2>1. Nodes(th_ready) = {Idle}
    BY <1>2 DEF Nodes
  <2> QED BY <1>2, <2>1, KernelAssumption DEF RunnerLeads, IdleIsLowest, KernelAssumption
<1> QED
  BY <1>1, <1>3, <1>4 DEF Ranked

(***************************************************************************)
(* Strict priorities: for any number of threads and condition variables,   *)
(* whatever timers, interrupts and exits wake and in which order, no ready *)
(* thread outranks the one that runs its own code, in programs without     *)
(* mutexes, up to the first kthread_set_pri.                               *)
(***************************************************************************)
THEOREM HighestRunsHolds ==
  ASSUME FixedPriorities, IdleIsLowest, KillsNoJoiner, ~({"kill", "close"} \subseteq Calls)
  PROVE  Spec => []HighestRuns
<1>1. Init => NoLocks /\ Ranked
  BY KernelAssumption, InitRanked
<1>2. ThreadInv /\ NoLocks /\ [Next]_vars => NoLocks'
  BY KernelAssumption, NextKeepsNoLocks DEF ThreadInv
<1>3. /\ ThreadInv /\ ThreadInv' /\ ("close" \in Calls => EndInv)
      /\ NoLocks /\ Ranked /\ [Next]_vars
      => Ranked'
  BY KernelAssumption, NextKeepsRanked DEF ThreadInv
<1>4. Ranked => HighestRuns
  <2> SUFFICES ASSUME Ranked, pri = [t \in Threads |-> NewPri[t]], pc[th_cur] = "user",
                      ~force, ~panic, NEW i \in 1 .. Len(th_ready)
      PROVE  pri[th_ready[i]] <= pri[th_cur]
      BY DEF HighestRuns
  <2>1. pri = NewPri
    BY KernelAssumption DEF KernelAssumption
  <2>2. RunnerLeads
    BY <2>1 DEF Ranked, SwitchDue
  <2> QED BY <2>2 DEF RunnerLeads, Nodes
<1>5. Spec => []ThreadInv
  BY ThreadInvHolds
<1>6. Spec => []("close" \in Calls => EndInv)
  <2>1. CASE "kill" \notin Calls
    <3>1. Spec => []EndInv
      BY <2>1, EndInvHolds
    <3>2. EndInv => ("close" \in Calls => EndInv)
      OBVIOUS
    <3> QED BY <3>1, <3>2, PTL
  <2>2. CASE "close" \notin Calls
    <3>1. "close" \in Calls => EndInv
      BY <2>2
    <3> QED BY <3>1, PTL
  <2> QED BY <2>1, <2>2
<1> QED
  BY <1>1, <1>2, <1>3, <1>4, <1>5, <1>6, PTL DEF Spec
=============================================================================

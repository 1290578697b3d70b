----------------------------- MODULE TimerProofs -----------------------------
(***************************************************************************)
(* Theorems about the timers: type correctness, that no deadline is        *)
(* missed, and that timer.c implements module AlarmClock, for any span of  *)
(* COUNT, any timers and any delays.                                       *)
(***************************************************************************)
EXTENDS TimerProperties, TLAPS, SequenceTheorems, WellFoundedInduction

(* Every non-empty set of naturals has a least element.                    *)
LEMMA MinNat ==
  ASSUME NEW S \in SUBSET Nat, S # {}
  PROVE  \E k \in S : \A j \in S : k <= j
<1>1. PICK x \in S : \A y \in S : ~(<<y, x>> \in OpToRel(<, Nat))
  BY WFMin, NatLessThanWellFounded
<1>2. \A y \in Nat : y < x => <<y, x>> \in OpToRel(<, Nat)
  BY Zenon DEF OpToRel
<1>3. \A y \in S : ~(y < x)
  BY <1>1, <1>2, Zenon
<1> QED
  BY <1>3

(* What removing the node at position k does to the others.                *)
LEMMA RemoveAtProps ==
  ASSUME NEW T, NEW list \in Seq(T), NEW k \in 1 .. Len(list)
  PROVE  /\ RemoveAt(list, k) \in Seq(T) /\ Len(RemoveAt(list, k)) = Len(list) - 1
         /\ \A i \in 1 .. (Len(list) - 1) :
              RemoveAt(list, k)[i] = IF i < k THEN list[i] ELSE list[i + 1]
<1> DEFINE a == SubSeq(list, 1, k - 1)
           b == SubSeq(list, k + 1, Len(list))
           new == a \o b
           n == Len(list) - 1
<1>1. Len(list) \in Nat /\ k \in Nat /\ k >= 1 /\ k <= Len(list) /\ n \in Nat
      /\ n = Len(list) - 1
  OBVIOUS
<1>2. /\ a \in Seq(T) /\ Len(a) = k - 1
      /\ \A i \in 1 .. (k - 1) : a[i] = list[i]
  <2>1. \A i \in 1 .. (k - 1) : list[i] \in T
    OBVIOUS
  <2>2. 1 \in Int /\ k - 1 \in Int
    OBVIOUS
  <2>3. /\ a \in Seq(T) /\ Len(a) = IF 1 <= k - 1 THEN (k - 1) - 1 + 1 ELSE 0
        /\ \A i \in 1 .. ((k - 1) - 1 + 1) : a[i] = list[1 + i - 1]
    BY <2>1, <2>2, SubSeqProperties
  <2> HIDE DEF a
  <2>4. ASSUME NEW i \in 1 .. (k - 1)
        PROVE  a[i] = list[i]
    <3>1. i \in 1 .. ((k - 1) - 1 + 1) /\ 1 + i - 1 = i
      OBVIOUS
    <3> QED BY <2>3, <3>1
  <2>5. Len(a) = k - 1
    BY <2>3
  <2> QED BY <2>3, <2>4, <2>5
<1>3. /\ b \in Seq(T) /\ Len(b) = Len(list) - k
      /\ \A i \in 1 .. (Len(list) - k) : b[i] = list[k + i]
  BY SubSeqProperties
<1> HIDE DEF a, b
<1>4. /\ new \in Seq(T) /\ Len(new) = n
      /\ \A i \in 1 .. n : new[i] = IF i < k THEN list[i] ELSE list[i + 1]
  <2>1. /\ new \in Seq(T) /\ Len(new) = Len(a) + Len(b)
        /\ \A i \in 1 .. Len(a) + Len(b) :
             new[i] = IF i <= Len(a) THEN a[i] ELSE b[i - Len(a)]
    BY <1>2, <1>3, ConcatProperties
  <2> HIDE DEF new
  <2>2. Len(a) + Len(b) = n
    BY <1>1, <1>2, <1>3
  <2>3. ASSUME NEW i \in 1 .. n
        PROVE  new[i] = IF i < k THEN list[i] ELSE list[i + 1]
    <3>1. CASE i < k
      <4>1. i <= Len(a) /\ i \in 1 .. (k - 1)
        BY <1>1, <1>2, <3>1
      <4> QED BY <1>2, <2>1, <2>2, <3>1, <4>1
    <3>2. CASE ~(i < k)
      <4>1. /\ ~(i <= Len(a)) /\ i - Len(a) \in 1 .. (Len(list) - k)
            /\ k + (i - Len(a)) = i + 1
        BY <1>1, <1>2, <3>2
      <4> QED BY <1>3, <2>1, <2>2, <3>2, <4>1
    <3> QED BY <3>1, <3>2
  <2> QED BY <2>1, <2>2, <2>3
<1>5. RemoveAt(list, k) = new
  BY DEF RemoveAt, a, b
<1> QED
  BY <1>4, <1>5

(* The nodes of a list, and that none occurs twice.                        *)
Nodes(list) == {list[i] : i \in 1 .. Len(list)}
Once(list) == \A i, j \in 1 .. Len(list) : list[i] = list[j] => i = j

(* Removing the node at position k.                                        *)
LEMMA RemoveLinks ==
  ASSUME NEW T, NEW list \in Seq(T), NEW k \in 1 .. Len(list)
  PROVE  /\ RemoveAt(list, k) \in Seq(T)
         /\ Once(list) => /\ Nodes(RemoveAt(list, k)) = Nodes(list) \ {list[k]}
                          /\ Once(RemoveAt(list, k))
<1> DEFINE new == RemoveAt(list, k)
           n == Len(list) - 1
<1>1. Len(list) \in Nat /\ k \in Nat /\ k >= 1 /\ k <= Len(list) /\ n \in Nat
      /\ n = Len(list) - 1
  OBVIOUS
<1>2. /\ new \in Seq(T) /\ Len(new) = n
      /\ \A i \in 1 .. n : new[i] = IF i < k THEN list[i] ELSE list[i + 1]
  BY RemoveAtProps
<1> HIDE DEF new, n
<1> DEFINE from(i) == IF i < k THEN i ELSE i + 1
<1>3. \A i \in 1 .. n : /\ from(i) \in 1 .. Len(list) /\ from(i) # k
                        /\ new[i] = list[from(i)]
  BY <1>1, <1>2
<1>4. \A i, j \in 1 .. n : from(i) = from(j) => i = j
  BY <1>1
<1>5. \A j \in 1 .. Len(list) : j # k => \E i \in 1 .. n : from(i) = j
  <2> SUFFICES ASSUME NEW j \in 1 .. Len(list), j # k
      PROVE  \E i \in 1 .. n : from(i) = j
      OBVIOUS
  <2>1. CASE j < k
    BY <1>1, <2>1
  <2>2. CASE j > k
    <3>1. j - 1 \in 1 .. n /\ from(j - 1) = j
      BY <1>1, <2>2
    <3> QED BY <3>1
  <2> QED BY <1>1, <2>1, <2>2
<1> HIDE DEF from
<1>6. Once(list) => Once(new)
  <2> SUFFICES ASSUME Once(list), NEW i \in 1 .. n, NEW j \in 1 .. n, new[i] = new[j]
      PROVE  i = j
      BY <1>2 DEF Once
  <2>1. list[from(i)] = list[from(j)]
    BY <1>3
  <2>2. from(i) \in 1 .. Len(list) /\ from(j) \in 1 .. Len(list)
    BY <1>3
  <2>3. from(i) = from(j)
    BY <2>1, <2>2 DEF Once
  <2> QED BY <1>4, <2>3
<1>7. Once(list) => Nodes(new) = Nodes(list) \ {list[k]}
  <2> HAVE Once(list)
  <2>1. Nodes(new) \subseteq Nodes(list) \ {list[k]}
    BY SMTT(30), <1>2, <1>3 DEF Nodes, Once
  <2>2. ASSUME NEW j \in 1 .. Len(list), list[j] # list[k]
        PROVE  list[j] \in Nodes(new)
    <3>1. j # k
      BY <2>2
    <3>2. PICK i \in 1 .. n : from(i) = j
      BY <1>5, <3>1
    <3>3. new[i] = list[j]
      BY <1>3, <3>2
    <3> QED BY <1>2, <3>3 DEF Nodes
  <2> QED BY <2>1, <2>2 DEF Nodes
<1> QED
  BY <1>2, <1>6, <1>7 DEF new

(* The first node that is t is taken out, if there is one.                 *)
LEMMA RemoveFirstLinks ==
  ASSUME NEW T, NEW list \in Seq(T), NEW t
  PROVE  /\ RemoveFirst(list, t) \in Seq(T)
         /\ Once(list) => /\ Once(RemoveFirst(list, t))
                          /\ Nodes(RemoveFirst(list, t)) = Nodes(list) \ {t}
<1>1. CASE ~ \E i \in 1 .. Len(list) : list[i] = t
  BY <1>1 DEF RemoveFirst, Nodes
<1>2. CASE \E i \in 1 .. Len(list) : list[i] = t
  <2> DEFINE I == {i \in 1 .. Len(list) : list[i] = t}
             k == Min(I)
  <2>1. I \in SUBSET Nat /\ I # {}
    BY <1>2
  <2>2. k \in I
    <3>1. \E i \in I : \A j \in I : i <= j
      BY <2>1, MinNat
    <3> QED BY <3>1 DEF Min
  <2>3. RemoveFirst(list, t) = RemoveAt(list, k)
    BY <1>2, <2>1 DEF RemoveFirst, SelectInSeq
  <2>4. k \in 1 .. Len(list) /\ list[k] = t
    BY <2>2
  <2> HIDE DEF k
  <2> QED
    BY <2>3, <2>4, RemoveLinks
<1> QED
  BY <1>1, <1>2

-----------------------------------------------------------------------------
(* Time modulo Span.                                                       *)

(* The register reads the same at the times a and b.                       *)
Same(a, b) == a % Span = b % Span

H == Span \div 2

(* Half a lap.                                                             *)
LEMMA Half == /\ Span \in Nat /\ H \in Nat /\ Span = H + H /\ H > 0
              /\ Window \in Nat /\ Latency \in Nat /\ Slow \in Nat
              /\ Latency <= Window /\ Latency + Window < H
              /\ 2 * Slow + Window < H
              /\ None \notin Timers /\ Delays \subseteq 1 .. (H - 1)
BY TimerAssumption DEF H

(* Delays are shorter than half a lap.                                     *)
LEMMA DelayIs == \A d \in Delays \cup {0} : d \in Int /\ 0 <= d /\ d < H /\ (d \in Delays => d > 0)
BY Half

(* A time is a number of laps and a reading.                               *)
LEMMA Laps ==
  ASSUME NEW a \in Int
  PROVE  /\ (a % Span) \in Ticks
         /\ \E q \in Int : a = q * Span + (a % Span)
<1>1. Span \in Nat /\ Span > 0
  BY Half
<1>2. (a % Span) \in Ticks
  BY <1>1 DEF Ticks
<1>3. a = (a \div Span) * Span + (a % Span) /\ (a \div Span) \in Int
  BY <1>1
<1> QED
  BY <1>2, <1>3

(* In one way only.                                                        *)
LEMMA LapsUnique ==
  ASSUME NEW q \in Int, NEW r \in Ticks
  PROVE  (q * Span + r) % Span = r
<1> DEFINE a == q * Span + r
<1>0. Span \in Nat /\ Span > 0 /\ r \in 0 .. (Span - 1)
  BY Half DEF Ticks
<1>1. a \in Int
  BY <1>0
<1>2. PICK p \in Int : a = p * Span + (a % Span)
  BY <1>1, Laps
<1>3. (a % Span) \in 0 .. (Span - 1)
  BY <1>1, Laps DEF Ticks
<1>4. (p - q) * Span = r - (a % Span)
  BY <1>0, <1>2, <1>3
<1>5. p - q = 0
  <2> DEFINE d == p - q
  <2>1. CASE d >= 1
    <3>1. d * Span >= Span
      BY <2>1, <1>0
    <3> QED
      BY <3>1, <1>0, <1>3, <1>4
  <2>2. CASE d <= -1
    <3>1. d * Span <= -Span
      BY <2>2, <1>0
    <3> QED
      BY <3>1, <1>0, <1>3, <1>4
  <2> QED
    BY <2>1, <2>2
<1>6. 0 * Span = r - (a % Span)
  BY <1>4, <1>5
<1> QED
  BY <1>0, <1>3, <1>6

(* A register holds the time modulo Span.                                  *)
LEMMA Reading ==
  ASSUME NEW a \in Int
  PROVE  (a % Span) \in Ticks /\ Same(a % Span, a) /\ (a \in Ticks => a % Span = a)
<1>1. (a % Span) \in Ticks
  BY Laps
<1>2. ASSUME NEW r \in Ticks PROVE r % Span = r
  <2>1. (0 * Span + r) % Span = r /\ r \in Int /\ Span \in Int
    BY <1>2, LapsUnique, Half DEF Ticks
  <2>2. 0 * Span + r = r
    BY <2>1
  <2> QED
    BY <2>1, <2>2
<1> QED
  BY <1>1, <1>2 DEF Same

(* Time passes alike.                                                      *)
LEMMA SameShift ==
  ASSUME NEW a \in Int, NEW b \in Int, NEW c \in Int, Same(a, b)
  PROVE  Same(a + c, b + c)
<1>0. Span \in Nat
  BY Half
<1> DEFINE r == a % Span
<1>1. r \in Ticks /\ r \in Int /\ b % Span = r
  BY Laps DEF Same, Ticks
<1>2. PICK p \in Int : a = p * Span + r
  BY Laps
<1>3. PICK q \in Int : b = q * Span + r
  BY <1>1, Laps
<1> HIDE DEF r
<1> DEFINE s == (c + r) % Span
<1>4. s \in Ticks /\ s \in Int
  BY <1>1, Laps DEF Ticks
<1>5. PICK k \in Int : c + r = k * Span + s
  BY <1>1, Laps
<1> HIDE DEF s
<1>6. a + c = (p + k) * Span + s /\ p + k \in Int
  BY <1>0, <1>1, <1>2, <1>4, <1>5
<1>7. b + c = (q + k) * Span + s /\ q + k \in Int
  BY <1>0, <1>1, <1>3, <1>4, <1>5
<1> QED
  BY <1>4, <1>6, <1>7, LapsUnique DEF Same

(* A lap later the register reads the same.                                *)
LEMMA SameLap ==
  ASSUME NEW a \in Int
  PROVE  Same(a + Span, a) /\ Same(a - Span, a)
<1>0. Span \in Nat
  BY Half
<1>1. PICK q \in Int : a = q * Span + (a % Span)
  BY Laps
<1>2. (a % Span) \in Ticks /\ (a % Span) \in Int
  BY Laps DEF Ticks
<1>3. a + Span = (q + 1) * Span + (a % Span) /\ q + 1 \in Int
  BY <1>0, <1>1, <1>2
<1>4. a - Span = (q - 1) * Span + (a % Span) /\ q - 1 \in Int
  BY <1>0, <1>1, <1>2
<1> QED
  BY <1>2, <1>3, <1>4, LapsUnique DEF Same

(* Two times less than a lap apart with the same reading are equal.        *)
LEMMA SameClose ==
  ASSUME NEW a \in Int, NEW b \in Int, Same(a, b), a - b < Span, b - a < Span
  PROVE  a = b
<1>0. Span \in Nat
  BY Half
<1> DEFINE c == -b
           d == a - b
<1>1. Same(d, 0)
  <2>1. c \in Int /\ a + c = d /\ b + c = 0
    OBVIOUS
  <2> HIDE DEF c, d
  <2>2. Same(a + c, b + c)
    BY <2>1, SameShift
  <2> QED
    BY <2>1, <2>2
<1>2. 0 % Span = 0
  BY Half, Reading DEF Ticks
<1>3. d % Span = 0
  BY <1>1, <1>2 DEF Same
<1>4. d \in Int /\ d < Span /\ -d < Span
  OBVIOUS
<1> HIDE DEF d
<1>5. d = 0
  <2>1. CASE d >= 0
    BY <1>0, <1>3, <1>4, <2>1, Reading DEF Ticks
  <2>2. CASE d < 0
    <3>1. (d + Span) % Span = 0
      BY <1>3, <1>4, SameLap DEF Same
    <3>2. d + Span \in Ticks /\ d + Span # 0
      BY <1>0, <1>4, <2>2 DEF Ticks
    <3> QED
      BY <1>0, <1>4, <3>1, <3>2, Reading
  <2> QED
    BY <1>4, <2>1, <2>2
<1> QED
  BY <1>5 DEF d

(* What timer_update_compare computes of a deadline x ticks ahead.         *)
LEMMA LeftIs ==
  ASSUME NEW l \in Int, NEW from \in Int, NEW x \in Ticks, Same(l, from + x)
  PROVE  (l - from) % Span = x
<1>1. x \in Int
  BY DEF Ticks
<1> DEFINE c == -from
           y == from + x
<1>2. c \in Int /\ y \in Int /\ l + c = l - from /\ y + c = x /\ Same(l, y)
  BY <1>1
<1> HIDE DEF c, y
<1>3. Same(l + c, y + c)
  BY <1>2, SameShift
<1> QED
  BY <1>1, <1>2, <1>3, Reading DEF Same

(* TICKS_DISTANCE is the signed distance, up to half a lap.                *)
LEMMA DistanceIs ==
  ASSUME NEW from \in Int, NEW to \in Int, NEW x \in Int, -H <= x, x < H,
         Same(to, from + x)
  PROVE  TICKS_DISTANCE(from, to) = x
<1>1. CASE x >= 0
  <2>1. x \in Ticks
    BY <1>1, Half DEF Ticks
  <2>2. (to - from) % Span = x
    BY <2>1, LeftIs
  <2> QED
    BY <2>2 DEF TICKS_DISTANCE, H
<1>2. CASE x < 0
  <2>1. x + Span \in Ticks /\ x + Span >= H
    BY <1>2, Half DEF Ticks
  <2>2. Same(to, from + (x + Span))
    <3>1. Same((from + x) + Span, from + x)
      BY SameLap
    <3>2. (from + x) + Span = from + (x + Span)
      BY Half
    <3> QED
      BY <3>1, <3>2 DEF Same
  <2>3. (to - from) % Span = x + Span
    BY <2>1, <2>2, LeftIs
  <2> QED
    BY <2>1, <2>3, Half DEF TICKS_DISTANCE, H
<1> QED
  BY <1>1, <1>2

-----------------------------------------------------------------------------
(* COMPARE.                                                                *)

(* The least of some naturals.                                             *)
LEMMA SmallestIs ==
  ASSUME NEW S \in SUBSET Nat, S # {}
  PROVE  Smallest(S) \in S /\ \A e \in S : Smallest(S) <= e
BY MinNat DEF Smallest

(* timer_update_compare sets COMPARE m ticks ahead: no deadline of the     *)
(* list comes before, modulo Span, and one comes then, if any.             *)
LEMMA ComparesTo ==
  ASSUME NEW list \in Seq(Timers), NEW lefts \in [Timers -> Ticks], NEW from \in Ticks,
         UpdateCompare(list, lefts, from)
  PROVE  /\ compare' \in Ticks /\ ~pending' /\ pending' \in BOOLEAN
         /\ \E m \in Ticks :
              /\ Same(compare', from + m)
              /\ \A t \in Nodes(list) : m <= (lefts[t] - from) % Span
              /\ m = Span - 1 \/ \E t \in Nodes(list) : m = (lefts[t] - from) % Span
<1> DEFINE S == Lefts(list, lefts, from) \cup {Span - 1}
           m == Smallest(S)
<1>1. S = {(lefts[t] - from) % Span : t \in Nodes(list)} \cup {Span - 1}
  BY DEF Lefts, Nodes
<1>2. Nodes(list) \subseteq Timers
  BY DEF Nodes
<1>3. ASSUME NEW t \in Nodes(list) PROVE (lefts[t] - from) % Span \in Ticks
  <2>1. lefts[t] \in Ticks
    BY <1>2
  <2>2. lefts[t] - from \in Int
    BY <2>1 DEF Ticks
  <2> QED
    BY <2>2, Laps
<1>4. S \in SUBSET Ticks /\ S # {} /\ Ticks \subseteq Nat
  BY <1>1, <1>3, Half DEF Ticks
<1>5. m \in S /\ \A e \in S : m <= e
  BY <1>4, SmallestIs
<1>6. compare' = (from + m) % Span /\ pending' = FALSE
  BY DEF UpdateCompare
<1> HIDE DEF m
<1>7. m \in Ticks /\ m \in Int /\ from \in Int
  BY <1>4, <1>5 DEF Ticks
<1>8. compare' \in Ticks /\ Same(compare', from + m)
  BY <1>6, <1>7, Reading
<1>9. \A t \in Nodes(list) : m <= (lefts[t] - from) % Span
  BY <1>1, <1>5
<1>10. m = Span - 1 \/ \E t \in Nodes(list) : m = (lefts[t] - from) % Span
  BY <1>1, <1>5
<1> QED
  BY <1>6, <1>7, <1>8, <1>9, <1>10

-----------------------------------------------------------------------------
(* Types.                                                                  *)

Types == TypeOK /\ (stage = "callback" => head \in Timers)

(* At first the types are right.                                           *)
LEMMA InitTypes == Init => Types
<1> SUFFICES ASSUME Init PROVE Types
  OBVIOUS
<1>1. 0 \in Ticks /\ 0 \in 0 .. Slow /\ 0 \in 0 .. Latency
  BY Half DEF Ticks
<1>2. TI_timers \in Seq(Timers)
  BY DEF Init
<1>3. left \in [Timers -> Ticks] /\ set \in [Timers -> Delays \cup {0}]
      /\ remaining \in [Timers -> Int]
  BY <1>1 DEF Init
<1>4. stage = "user" /\ head = None /\ last = None /\ now = 0 /\ missed = FALSE
      /\ masked = 0 /\ lag = 0 /\ count = 0 /\ compare = 0 /\ pending = FALSE
      /\ enabled = TRUE /\ continuous = {} /\ disabled = {}
  BY DEF Init
<1> QED
  BY <1>1, <1>2, <1>3, <1>4 DEF Types, TypeOK

(* start_timer and restart_timer.                                          *)
LEMMA LinkTypes ==
  ASSUME Types, NEW t \in Timers, NEW d \in Delays, LinkAndPoll(t, d),
         continuous' \subseteq Timers
  PROVE  Types'
<1>1. d \in Int /\ count \in Int /\ 0 \in Ticks
  BY Half DEF Types, TypeOK, Ticks
<1>2. left' \in [Timers -> Ticks]
  <2>1. (count + d) % Span \in Ticks
    BY <1>1, Laps
  <2> QED
    BY <2>1 DEF LinkAndPoll, Types, TypeOK
<1>3. TI_timers' \in Seq(Timers)
  BY DEF LinkAndPoll, Types, TypeOK
<1>4. compare' \in Ticks /\ pending' \in BOOLEAN
  <2>1. UpdateCompare(TI_timers', left', count) /\ count \in Ticks
    BY DEF LinkAndPoll, Types, TypeOK
  <2> QED
    BY <1>2, <1>3, <2>1, ComparesTo
<1>5. missed' \in BOOLEAN
  BY DEF LinkAndPoll, Types, TypeOK, Overlooks, Overdue, ToCome
<1>6. remaining' \in [Timers -> Int] /\ set' \in [Timers -> Delays \cup {0}]
      /\ disabled' \subseteq Timers /\ stage' = "pass"
  BY <1>1 DEF LinkAndPoll, Types, TypeOK
<1> QED
  BY <1>1, <1>2, <1>3, <1>4, <1>5, <1>6 DEF LinkAndPoll, Types, TypeOK, delay

(* A timer is taken out of the list.                                       *)
LEMMA UnlinkTypes ==
  ASSUME Types, NEW t \in Timers, Unlink(t)
  PROVE  /\ TI_timers' \in Seq(Timers) /\ disabled' \subseteq Timers
         /\ remaining' \in [Timers -> Int]
<1>1. TI_timers' \in Seq(Timers)
  BY RemoveFirstLinks DEF Unlink, Types, TypeOK
<1> QED
  BY <1>1 DEF Unlink, Types, TypeOK

(* stop_timer in a callback.                                               *)
LEMMA StopInCallbackTypes ==
  ASSUME Types, NEW t \in Timers, StopInCallback(t)
  PROVE  Types'
<1>1. /\ TI_timers' \in Seq(Timers) /\ disabled' \subseteq Timers
      /\ remaining' \in [Timers -> Int]
  BY UnlinkTypes DEF StopInCallback
<1>2. compare' \in Ticks /\ pending' \in BOOLEAN
  <2>1. UpdateCompare(TI_timers', left, count) /\ count \in Ticks
        /\ left \in [Timers -> Ticks]
    BY DEF StopInCallback, Types, TypeOK
  <2> QED
    BY <1>1, <2>1, ComparesTo
<1>3. missed' \in BOOLEAN
  BY DEF StopInCallback, Types, TypeOK, Overlooks, Overdue, ToCome
<1> QED
  BY <1>1, <1>2, <1>3 DEF StopInCallback, Types, TypeOK, delay, walk

(* stop_timer in the program.                                              *)
LEMMA StopTimerTypes ==
  ASSUME Types, NEW t \in Timers, StopTimer(t)
  PROVE  Types'
<1>1. /\ TI_timers' \in Seq(Timers) /\ disabled' \subseteq Timers
      /\ remaining' \in [Timers -> Int]
  BY UnlinkTypes DEF StopTimer
<1>2. missed' \in BOOLEAN
  BY DEF StopTimer, Types, TypeOK
<1> QED
  BY <1>1, <1>2 DEF StopTimer, Types, TypeOK, hardware, delay

(* The first expired timer of the list.                                    *)
LEMMA FirstExpired ==
  ASSUME NEW S \in SUBSET (1 .. Len(TI_timers)), S # {}, TI_timers \in Seq(Timers)
  PROVE  /\ Smallest(S) \in S /\ Smallest(S) \in 1 .. Len(TI_timers)
         /\ TI_timers[Smallest(S)] \in Nodes(TI_timers)
         /\ TI_timers[Smallest(S)] \in Timers
<1>1. S \in SUBSET Nat
  OBVIOUS
<1> DEFINE k == Smallest(S)
<1>2. k \in S
  BY <1>1, SmallestIs
<1> HIDE DEF k
<1>3. k \in 1 .. Len(TI_timers) /\ TI_timers[k] \in Timers
  BY <1>2
<1>4. TI_timers[k] \in Nodes(TI_timers)
  BY <1>3 DEF Nodes
<1> QED
  BY <1>2, <1>3, <1>4 DEF k

(* One step of any kind.                                                   *)
LEMMA NextKeepsTypes == Types /\ [Next]_vars => Types'
<1> SUFFICES ASSUME Types, [Next]_vars
    PROVE  Types'
    OBVIOUS
<1> USE DEF Types, TypeOK
<1>0. 0 \in Ticks /\ count \in Int /\ Slow \in Nat /\ Latency \in Nat
  BY Half DEF Ticks
<1>1. CASE Tick
  <2>1. count' \in Ticks
    BY <1>0, <1>1, Laps DEF Tick
  <2>2. remaining' \in [Timers -> Int]
    <3>1. \A r \in Int : TickDown(r) \in Int
      BY DEF TickDown
    <3>2. remaining' = [t \in Timers |-> IF IsSet(t) THEN TickDown(remaining[t]) ELSE 0]
      BY <1>1 DEF Tick
    <3> HIDE DEF Types, TypeOK
    <3>3. remaining \in [Timers -> Int]
      BY DEF Types, TypeOK
    <3> QED
      BY <3>1, <3>2, <3>3
  <2>3. masked' \in 0 .. Slow /\ lag' \in 0 .. Latency
    <3>1. masked \in 0 .. Slow /\ lag \in 0 .. Latency
      OBVIOUS
    <3>2. /\ masked' = masked \/ (masked < Slow /\ masked' = masked + 1)
          /\ lag' = lag \/ (lag < Latency /\ lag' = lag + 1)
      BY <1>1 DEF Tick, delay
    <3> HIDE DEF Types, TypeOK
    <3> QED
      BY <1>0, <3>1, <3>2
  <2>4. pending' \in BOOLEAN
    BY <1>1 DEF Tick
  <2> QED
    BY <1>1, <2>1, <2>2, <2>3, <2>4 DEF Tick, fields, walk
<1>2. CASE Interrupt
  BY <1>2 DEF Interrupt, fields, delay
<1>3. CASE CallBack
  <2> DEFINE i == Smallest(ExpiredAt)
             t == TI_timers[i]
  <2>1. i \in 1 .. Len(TI_timers) /\ t \in Timers
    BY <1>3, FirstExpired DEF CallBack, ExpiredAt
  <2>2. /\ stage' = "callback" /\ head' = t
        /\ last' = IF i = 1 THEN None ELSE TI_timers[i - 1]
        /\ remaining' = [remaining EXCEPT ![t] =
                           IF t \in continuous THEN @ + set[t] ELSE 0]
        /\ UNCHANGED <<hardware, enabled, TI_timers, fields, now, delay, missed>>
    BY <1>3 DEF CallBack
  <2> HIDE DEF t, i
  <2>3. last' \in Timers \cup {None}
    BY <2>1, <2>2
  <2>4. remaining' \in [Timers -> Int]
    <3>1. set[t] \in Int
      BY <2>1, DelayIs
    <3> QED
      BY <2>1, <2>2, <3>1
  <2> QED
    BY <2>1, <2>2, <2>3, <2>4 DEF hardware, fields, delay
<1>4. CASE CallBackReturns
  <2>1. left' \in [Timers -> Ticks]
    <3>1. NextDeadline(head) \in Ticks
      <4>1. head \in Timers /\ left[head] \in Int /\ set[head] \in Int
        <5>1. head \in Timers /\ left[head] \in Ticks /\ set[head] \in Delays \cup {0}
          BY <1>4 DEF CallBackReturns
        <5> QED
          BY <5>1, DelayIs DEF Ticks
      <4> QED
        BY <4>1, Laps DEF NextDeadline
    <3> QED
      BY <1>4, <3>1 DEF CallBackReturns
  <2>2. TI_timers' \in Seq(Timers)
    BY <1>4, RemoveFirstLinks DEF CallBackReturns, WithoutHead
  <2> QED
    BY <1>4, <2>1, <2>2 DEF CallBackReturns, hardware, delay
<1>5. CASE LastPass
  BY <1>5 DEF LastPass, hardware, fields, delay
<1>6. CASE ReadTime
  BY <1>6 DEF ReadTime, hardware, fields, delay
<1>7. CASE WriteCompare
  <2>1. compare' \in Ticks /\ pending' \in BOOLEAN
    BY <1>7, ComparesTo DEF WriteCompare
  <2>2. masked' \in 0 .. Slow /\ lag' \in 0 .. Latency
    BY <1>0, <1>7 DEF WriteCompare
  <2> QED
    BY <1>0, <1>7, <2>1, <2>2 DEF WriteCompare, fields
<1>8. CASE DisableInterrupts
  BY <1>8 DEF DisableInterrupts, hardware, fields, walk, delay
<1>9. CASE EnableInterrupts
  BY <1>0, <1>9 DEF EnableInterrupts, hardware, fields, walk
<1>10. ASSUME NEW t \in Timers, RestartTimer(t)
       PROVE  Types'
  <2>1. set[t] \in Delays /\ LinkAndPoll(t, set[t]) /\ continuous' \subseteq Timers
    BY <1>10 DEF RestartTimer
  <2> QED
    BY <2>1, LinkTypes
<1>11. ASSUME NEW t \in Timers, StopTimer(t) \/ StopInCallback(t)
       PROVE  Types'
  BY <1>11, StopTimerTypes, StopInCallbackTypes
<1>12. ASSUME NEW t \in Timers, NEW d \in Delays, NEW cont \in BOOLEAN, StartTimer(t, d, cont)
       PROVE  Types'
  <2>1. LinkAndPoll(t, d) /\ continuous' \subseteq Timers
    BY <1>12 DEF StartTimer
  <2> QED
    BY <2>1, LinkTypes
<1>13. ASSUME NEW t \in Timers, NEW d \in Delays, NEW cont \in BOOLEAN,
              StartDisabled(t, d, cont)
       PROVE  Types'
  <2>0. d \in Int
    BY DelayIs
  <2>1. (count + d) % Span \in Ticks
    BY <1>0, <2>0, Laps
  <2> QED
    BY <1>13, <2>1 DEF StartDisabled, hardware, walk, delay
<1>14. CASE UNCHANGED vars
  BY <1>14 DEF vars, hardware, fields, walk, delay
<1>15. CASE StopReads
  BY <1>15 DEF StopReads, hardware, fields, delay
<1>16. CASE StopWrites
  <2>1. compare' \in Ticks /\ pending' \in BOOLEAN
    BY <1>16, ComparesTo DEF StopWrites
  <2>2. masked' \in 0 .. Slow
    BY <1>0, <1>16 DEF StopWrites
  <2>3. missed' \in BOOLEAN
    BY <1>16 DEF StopWrites, Late, Overdue, DueNow
  <2> QED
    BY <1>0, <1>16, <2>1, <2>2, <2>3 DEF StopWrites, fields
<1> QED
  BY <1>1, <1>2, <1>3, <1>4, <1>5, <1>6, <1>7, <1>8, <1>9, <1>10, <1>11, <1>12,
     <1>13, <1>14, <1>15, <1>16 DEF Next

(* COUNT, COMPARE and the deadlines stay in their registers, the list      *)
(* holds timers, and time with interrupts disabled is accounted for.       *)
THEOREM TimerTypesHold == Spec => []TypeOK
<1>1. Types => TypeOK
  BY DEF Types
<1> QED
  BY InitTypes, NextKeepsTypes, <1>1, PTL DEF Spec

-----------------------------------------------------------------------------
(* The list.                                                               *)

(* No timer is linked twice; the linked ones are enabled and have a delay; *)
(* the timer whose callback runs is linked, and so is the one before it,   *)
(* unless the callback has stopped it.                                     *)
ListInv ==
  /\ Once(TI_timers)
  /\ \A t \in Nodes(TI_timers) : t \notin disabled /\ set[t] \in Delays
  /\ stage = "callback" =>
       \/ head \in disabled /\ head \notin Nodes(TI_timers)
       \/ head \in Nodes(TI_timers) /\ last \in Nodes(TI_timers) \cup {None}

(* A timer is linked when it is one of the nodes of the list.              *)
LEMMA LinkedIs == \A t : Linked(t) <=> t \in Nodes(TI_timers)
BY DEF Linked, Contains, Nodes

(* start_timer links t in front.                                           *)
LEMMA LinkList ==
  ASSUME Types, ListInv, NEW t \in Timers, NEW d \in Delays, LinkAndPoll(t, d), ~Linked(t)
  PROVE  ListInv' /\ Nodes(TI_timers') = Nodes(TI_timers) \cup {t}
<1>0. TI_timers \in Seq(Timers) /\ TI_timers' = <<t>> \o TI_timers /\ stage' = "pass"
      /\ set' = [set EXCEPT ![t] = d] /\ disabled' = disabled \ {t}
      /\ set \in [Timers -> Delays \cup {0}]
  BY DEF LinkAndPoll, Types, TypeOK
<1>1. /\ TI_timers' \in Seq(Timers) /\ Len(TI_timers') = Len(TI_timers) + 1
      /\ TI_timers'[1] = t
      /\ \A i \in 2 .. Len(TI_timers') : TI_timers'[i] = TI_timers[i - 1]
  BY <1>0
<1>2. t \notin Nodes(TI_timers)
  BY LinkedIs
<1>3. Nodes(TI_timers') = Nodes(TI_timers) \cup {t}
  <2>1. \A i \in 1 .. Len(TI_timers') : TI_timers'[i] \in Nodes(TI_timers) \cup {t}
    BY <1>0, <1>1 DEF Nodes
  <2>2. t \in Nodes(TI_timers')
    BY <1>0, <1>1 DEF Nodes
  <2>3. ASSUME NEW i \in 1 .. Len(TI_timers) PROVE TI_timers[i] \in Nodes(TI_timers')
    <3>1. i + 1 \in 2 .. Len(TI_timers') /\ (i + 1) - 1 = i
      BY <1>0, <1>1
    <3>2. TI_timers'[i + 1] = TI_timers[i]
      BY <1>1, <3>1
    <3>3. i + 1 \in 1 .. Len(TI_timers')
      BY <1>1, <3>1
    <3> QED
      BY <3>2, <3>3 DEF Nodes
  <2> QED
    BY <2>1, <2>2, <2>3 DEF Nodes
<1>4. Once(TI_timers')
  <2> SUFFICES ASSUME NEW i \in 1 .. Len(TI_timers'), NEW j \in 1 .. Len(TI_timers'),
                      TI_timers'[i] = TI_timers'[j], i < j
      PROVE  FALSE
      BY <1>1 DEF Once
  <2>1. j - 1 \in 1 .. Len(TI_timers) /\ TI_timers'[j] = TI_timers[j - 1]
    BY <1>0, <1>1
  <2>2. CASE i = 1
    BY <1>1, <1>2, <2>1, <2>2 DEF Nodes
  <2>3. CASE i # 1
    <3>1. i - 1 \in 1 .. Len(TI_timers) /\ TI_timers'[i] = TI_timers[i - 1] /\ i - 1 # j - 1
      BY <1>0, <1>1, <2>3
    <3> QED
      BY <2>1, <3>1 DEF ListInv, Once
  <2> QED
    BY <2>2, <2>3
<1>5. \A u \in Nodes(TI_timers') : u \notin disabled' /\ set'[u] \in Delays
  <2>1. Nodes(TI_timers) \subseteq Timers
    BY <1>0 DEF Nodes
  <2> QED
    BY <1>0, <1>3, <2>1 DEF ListInv
<1> QED
  BY <1>0, <1>3, <1>4, <1>5 DEF ListInv

(* stop_timer takes t out of the list, in the program or in its callback.  *)
Stops(t) ==
  /\ Unlink(t) /\ UNCHANGED <<count, left, set, continuous, head>>
  /\ \/ stage = "user" /\ stage' = "stopping"
     \/ stage = "callback" /\ stage' = "callback" /\ t = head

(* Programs whose callbacks stop no timer but their own: when they stop    *)
(* the timer before theirs, a one-shot timer stays linked.                 *)
OwnStopsOnly == "cbstop" \notin Calls

(* It does so wherever it is called.                                       *)
LEMMA StopTimerStops ==
  ASSUME OwnStopsOnly, NEW t \in Timers, StopTimer(t) \/ StopInCallback(t)
  PROVE  Stops(t)
<1>1. CASE StopTimer(t)
  BY <1>1 DEF Stops, StopTimer, InUser, hardware
<1>2. CASE StopInCallback(t)
  BY <1>2 DEF Stops, StopInCallback, OwnStopsOnly, walk
<1> QED
  BY <1>1, <1>2

(* The others stay in the list.                                            *)
LEMMA StopList ==
  ASSUME Types, ListInv, NEW t \in Timers, Stops(t)
  PROVE  ListInv' /\ Nodes(TI_timers') = Nodes(TI_timers) \ {t}
<1>1. /\ TI_timers' = RemoveFirst(TI_timers, t) /\ disabled' = disabled \cup {t}
      /\ set' = set /\ head' = head /\ TI_timers \in Seq(Timers)
      /\ \/ stage' = "stopping"
         \/ stage' = "callback" /\ t = head
  BY DEF Stops, Unlink, Types, TypeOK
<1>2. Once(TI_timers') /\ Nodes(TI_timers') = Nodes(TI_timers) \ {t}
  BY <1>1, RemoveFirstLinks DEF ListInv
<1>3. \A u \in Nodes(TI_timers') : u \notin disabled' /\ set'[u] \in Delays
  BY <1>1, <1>2 DEF ListInv
<1>4. stage' = "callback" => head' \in disabled' /\ head' \notin Nodes(TI_timers')
  BY <1>1, <1>2
<1> QED
  BY <1>2, <1>3, <1>4 DEF ListInv

(* The callback returns.                                                   *)
LEMMA ReturnList ==
  ASSUME Types, ListInv, CallBackReturns
  PROVE  /\ ListInv'
         /\ IF head \in disabled \cup continuous
              THEN TI_timers' = TI_timers
              ELSE Nodes(TI_timers') = Nodes(TI_timers) \ {head}
         /\ head \in disabled => head \notin Nodes(TI_timers)
<1>1. stage = "callback" /\ stage' = "pass" /\ set' = set /\ disabled' = disabled
  BY DEF CallBackReturns
<1>2. CASE head \in disabled \cup continuous
  <2>1. TI_timers' = TI_timers
    BY <1>2 DEF CallBackReturns
  <2> QED
    BY <1>1, <1>2, <2>1 DEF ListInv
<1>3. CASE head \notin disabled \cup continuous
  <2>1. TI_timers' = RemoveFirst(TI_timers, head)
    BY <1>1, <1>3, LinkedIs DEF CallBackReturns, WithoutHead, ListInv
  <2>2. TI_timers \in Seq(Timers)
    BY DEF Types, TypeOK
  <2>3. Once(TI_timers') /\ Nodes(TI_timers') = Nodes(TI_timers) \ {head}
    BY <2>1, <2>2, RemoveFirstLinks DEF ListInv
  <2> QED
    BY <1>1, <1>3, <2>3 DEF ListInv
<1> QED
  BY <1>2, <1>3

(* A callback is called: its timer is linked and has expired.              *)
LEMMA CallBackList ==
  ASSUME Types, ListInv, CallBack
  PROVE  /\ ListInv' /\ TI_timers' = TI_timers
         /\ head' \in Nodes(TI_timers) /\ head' \in Timers /\ Expired(head')
         /\ remaining' = [remaining EXCEPT ![head'] =
                            IF head' \in continuous THEN @ + set[head'] ELSE 0]
<1> DEFINE i == Smallest(ExpiredAt)
           t == TI_timers[i]
<1>1. TI_timers \in Seq(Timers)
  BY DEF Types, TypeOK
<1>2. i \in ExpiredAt /\ i \in 1 .. Len(TI_timers) /\ t \in Nodes(TI_timers) /\ t \in Timers
  BY <1>1, FirstExpired DEF CallBack, ExpiredAt
<1>3. /\ stage' = "callback" /\ head' = t
      /\ last' = IF i = 1 THEN None ELSE TI_timers[i - 1]
      /\ remaining' = [remaining EXCEPT ![t] =
                         IF t \in continuous THEN @ + set[t] ELSE 0]
      /\ UNCHANGED <<hardware, enabled, TI_timers, fields, now, delay, missed>>
  BY DEF CallBack
<1> HIDE DEF i
<1>4. Expired(t)
  BY <1>2 DEF ExpiredAt
<1>5. last' \in Nodes(TI_timers) \cup {None}
  BY <1>2, <1>3 DEF Nodes
<1> QED
  BY <1>2, <1>3, <1>4, <1>5 DEF ListInv, fields

(* The steps that leave the list alone.                                    *)
LEMMA NextKeepsList ==
  ASSUME OwnStopsOnly
  PROVE  Types /\ ListInv /\ [Next]_vars => ListInv'
<1> SUFFICES ASSUME Types, ListInv, [Next]_vars
    PROVE  ListInv'
    OBVIOUS
<1>1. ASSUME UNCHANGED <<TI_timers, disabled, set>>,
             stage' # "callback" \/ (stage' = stage /\ head' = head /\ last' = last)
      PROVE  ListInv'
  BY <1>1 DEF ListInv
<1>2. CASE Tick
  BY <1>1, <1>2 DEF Tick, fields, walk
<1>3. CASE Interrupt
  BY <1>1, <1>3 DEF Interrupt, fields
<1>4. CASE LastPass
  BY <1>1, <1>4 DEF LastPass, fields
<1>5. CASE ReadTime
  BY <1>1, <1>5 DEF ReadTime, fields
<1>6. CASE WriteCompare
  BY <1>1, <1>6 DEF WriteCompare, fields
<1>7. CASE DisableInterrupts
  BY <1>1, <1>7 DEF DisableInterrupts, fields, walk
<1>8. CASE EnableInterrupts
  BY <1>1, <1>8 DEF EnableInterrupts, fields, walk
<1>9. CASE UNCHANGED vars
  BY <1>1, <1>9 DEF vars, fields, walk
<1>10. CASE CallBack
  BY <1>10, CallBackList
<1>11. CASE CallBackReturns
  BY <1>11, ReturnList
<1>12. ASSUME NEW t \in Timers, RestartTimer(t)
       PROVE  ListInv'
  <2>1. set[t] \in Delays /\ LinkAndPoll(t, set[t]) /\ ~Linked(t)
    BY <1>12 DEF RestartTimer, Types, TypeOK
  <2> QED
    BY <2>1, LinkList
<1>13. ASSUME NEW t \in Timers, StopTimer(t) \/ StopInCallback(t)
       PROVE  ListInv'
  BY <1>13, StopList, StopTimerStops
<1>14. CASE StopReads \/ StopWrites
  BY <1>1, <1>14 DEF StopReads, StopWrites, fields
<1>15. ASSUME NEW t \in Timers, NEW d \in Delays, NEW cont \in BOOLEAN, StartTimer(t, d, cont)
       PROVE  ListInv'
  BY <1>15, LinkList DEF StartTimer
<1>16. ASSUME NEW t \in Timers, NEW d \in Delays, NEW cont \in BOOLEAN,
              StartDisabled(t, d, cont)
       PROVE  ListInv'
  <2>1. /\ TI_timers' = TI_timers /\ set' = [set EXCEPT ![t] = d]
        /\ disabled' = disabled \cup {t} /\ stage' = stage /\ stage = "user"
    BY <1>16 DEF StartDisabled, InUser, walk
  <2>2. t \notin Nodes(TI_timers) /\ Nodes(TI_timers) \subseteq Timers
    BY <1>16, LinkedIs DEF StartDisabled, Types, TypeOK, Nodes
  <2> QED
    BY <2>1, <2>2 DEF ListInv, Types, TypeOK
<1> QED
  BY <1>2, <1>3, <1>4, <1>5, <1>6, <1>7, <1>8, <1>9, <1>10, <1>11, <1>12, <1>13,
     <1>14, <1>15, <1>16 DEF Next

-----------------------------------------------------------------------------
(* What the steps do to deadlines.                                         *)

(* The deadline of t as timer_poll will see it.                            *)
Due(t) == IF stage = "callback" /\ head = t THEN left[t] + set[t] ELSE left[t]

(* t was set before and has kept its deadline.                             *)
StillSet(t) ==
  /\ IsSet(t) /\ Same(Due(t)', Due(t)) /\ remaining'[t] = remaining[t]
  /\ (t \in continuous') = (t \in continuous)

Deadlines == <<remaining, set, continuous>>

(* The steps of timer_poll between the callbacks, those of stop_timer once *)
(* the timer is out of the list, and critical sections.                    *)
LEMMA PollSteps ==
  ASSUME Types, ListInv,
         \/ Interrupt \/ LastPass \/ ReadTime \/ WriteCompare
         \/ StopReads \/ StopWrites
         \/ DisableInterrupts \/ EnableInterrupts \/ UNCHANGED vars
  PROVE  /\ count' = count /\ UNCHANGED Deadlines /\ UNCHANGED TI_timers
         /\ \A u \in Timers : (IsSet(u)' <=> IsSet(u)) /\ (IsSet(u) => StillSet(u))
<1>1. UNCHANGED <<count, Deadlines, TI_timers, left>>
  BY DEF Interrupt, LastPass, ReadTime, WriteCompare, StopReads, StopWrites,
         DisableInterrupts, EnableInterrupts, vars, fields, hardware, Deadlines
<1>2. \/ stage # "callback" /\ stage' # "callback"
      \/ stage' = stage /\ head' = head
  BY DEF Interrupt, LastPass, ReadTime, WriteCompare, StopReads, StopWrites,
         DisableInterrupts, EnableInterrupts, vars, walk, InUser
<1>3. \A u \in Timers : (IsSet(u)' <=> IsSet(u)) /\ Due(u)' = Due(u)
  BY <1>1, <1>2 DEF IsSet, Linked, Due, Deadlines
<1> QED
  BY <1>1, <1>3 DEF StillSet, Same, Deadlines

(* The callback returns: a periodic timer gets its next deadline.          *)
LEMMA ReturnSteps ==
  ASSUME Types, ListInv, CallBackReturns
  PROVE  /\ count' = count /\ UNCHANGED Deadlines
         /\ \A u \in Timers : (IsSet(u)' <=> IsSet(u)) /\ (IsSet(u) => StillSet(u))
<1>1. UNCHANGED <<count, Deadlines>> /\ stage = "callback" /\ stage' = "pass"
      /\ head \in Timers
  BY DEF CallBackReturns, hardware, Deadlines, Types
<1>2. ASSUME NEW u \in Timers
      PROVE  IsSet(u)' <=> IsSet(u)
  <2>1. Linked(u) <=> u \in Nodes(TI_timers)
    BY LinkedIs
  <2>2. Linked(u)' <=> u \in Nodes(TI_timers')
    BY DEF Linked, Contains, Nodes
  <2>3. IsSet(u)' <=> u \in Nodes(TI_timers')
    BY <1>1, <2>2 DEF IsSet
  <2>4. IsSet(u) <=> u \in Nodes(TI_timers) /\ ~(head = u /\ u \notin continuous)
    BY <1>1, <2>1 DEF IsSet
  <2>5. CASE head \in disabled
    BY <2>3, <2>4, <2>5, ReturnList
  <2>6. CASE head \notin disabled /\ head \in continuous
    BY <2>3, <2>4, <2>6, ReturnList
  <2>7. CASE head \notin disabled \cup continuous
    BY <2>3, <2>4, <2>7, ReturnList
  <2> QED
    BY <2>5, <2>6, <2>7
<1>3. ASSUME NEW u \in Timers, IsSet(u)
      PROVE  Same(Due(u)', Due(u))
  <2>1. CASE u = head
    <3>1. u \in continuous /\ u \notin disabled
      BY <1>1, <1>3, <2>1, LinkedIs DEF IsSet, ListInv
    <3>2. left'[u] = (left[u] + set[u]) % Span
      BY <2>1, <3>1 DEF CallBackReturns, NextDeadline, Types, TypeOK
    <3>3. left[u] + set[u] \in Int
      <4>1. left[u] \in Ticks /\ set[u] \in Delays \cup {0}
        BY DEF Types, TypeOK
      <4> QED
        BY <4>1, DelayIs DEF Ticks
    <3>4. Same(left'[u], left[u] + set[u])
      BY <3>2, <3>3, Reading
    <3> QED
      BY <1>1, <2>1, <3>4 DEF Due
  <2>2. CASE u # head
    <3>1. left'[u] = left[u]
      BY <2>2 DEF CallBackReturns, Types, TypeOK
    <3> QED
      BY <1>1, <2>2, <3>1 DEF Due, Same
  <2> QED
    BY <2>1, <2>2
<1> QED
  BY <1>1, <1>2, <1>3 DEF StillSet, Deadlines

(* stop_timer: t is set no longer.                                         *)
LEMMA StopSteps ==
  ASSUME Types, ListInv, NEW t \in Timers, Stops(t)
  PROVE  /\ count' = count /\ set' = set /\ continuous' = continuous
         /\ remaining' = [remaining EXCEPT ![t] = 0]
         /\ ~IsSet(t)'
         /\ \A u \in Timers \ {t} : (IsSet(u)' <=> IsSet(u)) /\ (IsSet(u) => StillSet(u))
<1>1. /\ UNCHANGED <<count, set, continuous, left, head>>
      /\ remaining' = [remaining EXCEPT ![t] = 0]
      /\ \/ stage = "user" /\ stage' = "stopping"
         \/ stage = "callback" /\ stage' = "callback"
  BY DEF Stops, Unlink
<1>2. Nodes(TI_timers') = Nodes(TI_timers) \ {t}
  BY StopList
<1>3. ~IsSet(t)'
  BY <1>2 DEF IsSet, Linked, Contains, Nodes
<1>4. ASSUME NEW u \in Timers \ {t}
      PROVE  (IsSet(u)' <=> IsSet(u)) /\ Due(u)' = Due(u) /\ remaining'[u] = remaining[u]
  BY <1>1, <1>2 DEF IsSet, Linked, Contains, Nodes, Due, Types, TypeOK
<1> QED
  BY <1>1, <1>3, <1>4 DEF StillSet, Same

(* A timer is given its delay without being set.                           *)
LEMMA PrepareSteps ==
  ASSUME Types, ListInv, NEW t \in Timers, NEW d \in Delays, NEW cont \in BOOLEAN,
         StartDisabled(t, d, cont)
  PROVE  /\ count' = count /\ set' = [set EXCEPT ![t] = d] /\ remaining' = remaining
         /\ ~IsSet(t) /\ ~IsSet(t)'
         /\ \A u \in Timers \ {t} : (IsSet(u)' <=> IsSet(u)) /\ (IsSet(u) => StillSet(u))
<1>1. UNCHANGED <<count, remaining, stage, head, TI_timers>> /\ stage = "user"
      /\ set' = [set EXCEPT ![t] = d] /\ ~Linked(t)
      /\ left' = [left EXCEPT ![t] = (count + d) % Span]
      /\ continuous' = IF cont THEN continuous \cup {t} ELSE continuous \ {t}
  BY DEF StartDisabled, walk, hardware, InUser
<1>2. ~IsSet(t) /\ ~IsSet(t)'
  BY <1>1 DEF IsSet, Linked
<1>3. ASSUME NEW u \in Timers \ {t}
      PROVE  /\ (IsSet(u)' <=> IsSet(u)) /\ Due(u)' = Due(u)
             /\ (u \in continuous') = (u \in continuous)
  BY <1>1 DEF IsSet, Linked, Due, Types, TypeOK
<1> QED
  BY <1>1, <1>2, <1>3 DEF StillSet, Same

(* start_timer and restart_timer.                                          *)
LEMMA LinkSteps ==
  ASSUME Types, ListInv, NEW t \in Timers, NEW d \in Delays, LinkAndPoll(t, d),
         ~Linked(t), stage = "user", continuous' \ {t} = continuous \ {t}
  PROVE  /\ count' = count /\ set' = [set EXCEPT ![t] = d]
         /\ remaining' = [remaining EXCEPT ![t] = d]
         /\ ~IsSet(t) /\ IsSet(t)' /\ Same(Due(t)', count + d)
         /\ \A u \in Timers \ {t} : (IsSet(u)' <=> IsSet(u)) /\ (IsSet(u) => StillSet(u))
<1>1. UNCHANGED <<count, head>> /\ stage' = "pass"
      /\ set' = [set EXCEPT ![t] = d]
      /\ left' = [left EXCEPT ![t] = (count + d) % Span]
      /\ remaining' = [remaining EXCEPT ![t] = d]
  BY DEF LinkAndPoll
<1>2. Nodes(TI_timers') = Nodes(TI_timers) \cup {t}
  BY LinkList
<1>3. ~IsSet(t) /\ IsSet(t)'
  BY <1>1, <1>2 DEF IsSet, Linked, Contains, Nodes
<1>4. Same(Due(t)', count + d)
  <2>1. count + d \in Int
    BY DelayIs DEF Types, TypeOK, Ticks
  <2>2. Due(t)' = (count + d) % Span
    BY <1>1 DEF Due, Types, TypeOK
  <2> QED
    BY <2>1, <2>2, Reading
<1>5. ASSUME NEW u \in Timers \ {t}
      PROVE  /\ (IsSet(u)' <=> IsSet(u)) /\ Due(u)' = Due(u)
             /\ remaining'[u] = remaining[u]
  BY <1>1, <1>2 DEF IsSet, Linked, Contains, Nodes, Due, Types, TypeOK
<1> QED
  BY <1>1, <1>3, <1>4, <1>5 DEF StillSet, Same

(* The callback of an expired timer t is called.                           *)
LEMMA CallBackSteps ==
  ASSUME Types, ListInv, CallBack, NEW t \in Timers, t = head'
  PROVE  /\ count' = count /\ set' = set /\ continuous' = continuous
         /\ stage = "pass" /\ IsSet(t) /\ Expired(t)
         /\ remaining' = [remaining EXCEPT ![t] =
                            IF t \in continuous THEN @ + set[t] ELSE 0]
         /\ IsSet(t)' <=> t \in continuous
         /\ Due(t)' = left[t] + set[t] /\ Due(t) = left[t]
         /\ \A u \in Timers \ {t} :
              (IsSet(u)' <=> IsSet(u)) /\ (IsSet(u) => StillSet(u))
<1>1. UNCHANGED <<count, set, continuous, left, TI_timers>>
      /\ stage = "pass" /\ stage' = "callback"
  BY DEF CallBack, hardware, fields
<1>2. /\ t \in Nodes(TI_timers) /\ Expired(t)
      /\ remaining' = [remaining EXCEPT ![t] =
                         IF t \in continuous THEN @ + set[t] ELSE 0]
  BY CallBackList
<1>3. IsSet(t) /\ (IsSet(t)' <=> t \in continuous)
  <2>1. Linked(t) /\ Linked(t)'
    BY <1>1, <1>2, LinkedIs DEF Linked
  <2> QED
    BY <1>1, <2>1 DEF IsSet
<1>4. Due(t)' = left[t] + set[t] /\ Due(t) = left[t]
  BY <1>1 DEF Due
<1>5. ASSUME NEW u \in Timers \ {t}
      PROVE  /\ (IsSet(u)' <=> IsSet(u)) /\ Due(u)' = Due(u)
             /\ remaining'[u] = remaining[u]
  BY <1>1, <1>2 DEF IsSet, Linked, Due, Types, TypeOK
<1> QED
  BY <1>1, <1>2, <1>3, <1>4, <1>5 DEF StillSet, Same

(* Time passes.                                                            *)
LEMMA TickSteps ==
  ASSUME Types, ListInv, Tick
  PROVE  /\ Same(count', count + 1) /\ UNCHANGED <<set, continuous, TI_timers>>
         /\ remaining' = [t \in Timers |->
                            IF IsSet(t) THEN TickDown(remaining[t]) ELSE 0]
         /\ \A u \in Timers : (IsSet(u)' <=> IsSet(u)) /\ Due(u)' = Due(u)
<1>1. UNCHANGED <<set, continuous, left, TI_timers, stage, head>>
      /\ count' = (count + 1) % Span
  BY DEF Tick, fields, walk
<1>2. Same(count', count + 1)
  <2>1. count + 1 \in Int
    BY DEF Types, TypeOK, Ticks
  <2> QED
    BY <1>1, <2>1, Reading
<1> QED
  BY <1>1, <1>2 DEF Tick, IsSet, Linked, Due

-----------------------------------------------------------------------------
(* The alarm clock.                                                        *)

(* The deadline of t lies d ticks ahead as far as the registers tell: less *)
(* than half a lap around the window that timer_poll looks at.  No timer   *)
(* that is set is due later than it looks (it may be due a lap earlier).   *)
Looks(t, d) == /\ Window - H < d /\ d <= Window + H
               /\ Same(Due(t), count + d)
               /\ remaining[t] <= d

AheadInv == \A t \in Timers : IsSet(t) => \E d \in Int : Looks(t, d)

ClockInv == Types /\ ListInv /\ AheadInv

(* The values are integers.                                                *)
LEMMA TimesAre ==
  ASSUME Types
  PROVE  /\ count \in Int /\ compare \in Int
         /\ \A t \in Timers : /\ left[t] \in Int /\ set[t] \in Int /\ remaining[t] \in Int
                              /\ Due(t) \in Int /\ 0 <= set[t] /\ set[t] < H
<1>1. \A a \in Ticks : a \in Int
  BY Half DEF Ticks
<1>2. ASSUME NEW t \in Timers
      PROVE  left[t] \in Int /\ set[t] \in Int /\ remaining[t] \in Int /\ 0 <= set[t] /\ set[t] < H
  BY <1>1, DelayIs DEF Types, TypeOK
<1> QED
  BY <1>1, <1>2 DEF Types, TypeOK, Due

(* A timer that keeps its deadline looks the same.                         *)
LEMMA StillLooks ==
  ASSUME Types, Types', NEW t \in Timers, StillSet(t), count' = count,
         NEW d \in Int, Looks(t, d)
  PROVE  Looks(t, d)'
BY DEF StillSet, Looks, Same

(* __proc_timers calls the callback of a timer at most Window ticks early. *)
LEMMA ExpiredIsNear ==
  ASSUME Types, NEW t \in Timers, Expired(t), stage = "pass", NEW d \in Int, Looks(t, d)
  PROVE  d <= Window
<1>1. count \in Int /\ left[t] \in Int /\ Window \in Int
  BY TimesAre, Half
<1>2. Due(t) = left[t]
  BY DEF Due
<1> DEFINE w == (count + Window) % Span
           x == Window - d
           y == count + d
<1>3. w \in Int /\ Same(w, count + Window)
  BY <1>1, Reading DEF Ticks
<1>4. x \in Int /\ -H <= x /\ x < H /\ y \in Int /\ y + x = count + Window
  BY <1>1, Half DEF Looks
<1>5. Same(y, left[t])
  BY <1>2 DEF Looks, Same
<1>6. TICKS_DISTANCE(left[t], w) >= 0
  BY DEF Expired
<1> HIDE DEF w, y
<1>7. Same(y + x, left[t] + x)
  BY <1>1, <1>4, <1>5, SameShift
<1>8. Same(w, left[t] + x)
  BY <1>3, <1>4, <1>7 DEF Same
<1>9. TICKS_DISTANCE(left[t], w) = x
  BY <1>1, <1>3, <1>4, <1>8, DistanceIs
<1> QED
  BY <1>1, <1>6, <1>9, Half

(* One tick later.                                                         *)
LEMMA TickLooks ==
  ASSUME Types, Types', ListInv, Tick, NEW t \in Timers, IsSet(t), NEW d \in Int, Looks(t, d)
  PROVE  \E e \in Int : Looks(t, e)'
<1>1. /\ Same(count', count + 1) /\ Due(t)' = Due(t)
      /\ remaining'[t] = TickDown(remaining[t])
  BY TickSteps
<1>2. /\ count \in Int /\ count' \in Int /\ remaining[t] \in Int /\ remaining'[t] \in Int
      /\ Span \in Int /\ H \in Int /\ Window \in Int
  BY TimesAre, Half DEF Types, TypeOK, Ticks
<1> DEFINE e == d - 1
           y == count + 1
<1>3. e \in Int /\ y \in Int /\ y + e = count + d
  BY <1>2
<1> HIDE DEF y
<1>4. Same(count' + e, y + e)
  BY <1>1, <1>2, <1>3, SameShift DEF y
<1>5. Same(Due(t)', count' + e)
  BY <1>1, <1>3, <1>4 DEF Looks, Same
<1>6. remaining'[t] <= e \/ d <= Window - H + 1
  BY <1>1, <1>2, Half DEF Looks, TickDown, H
<1>7. CASE d > Window - H + 1
  <2>1. Looks(t, e)'
    BY <1>2, <1>5, <1>6, <1>7, Half DEF Looks
  <2> QED
    BY <1>3, <2>1
<1>8. CASE d <= Window - H + 1
  <2> DEFINE z == count' + e
             f == e + Span
  <2>1. z \in Int /\ Same(z + Span, z) /\ z + Span = count' + f /\ f \in Int
    BY <1>2, <1>3, SameLap
  <2>2. Same(Due(t)', count' + f)
    BY <1>5, <2>1 DEF Same
  <2>3. f = Window + H
    BY <1>2, <1>8, Half DEF Looks
  <2>4. remaining'[t] <= f
    BY <1>1, <1>2, <1>8, <2>3, Half DEF Looks, TickDown
  <2>5. Looks(t, f)'
    BY <1>2, <2>2, <2>3, <2>4, Half DEF Looks
  <2> QED
    BY <2>1, <2>5
<1> QED
  BY <1>2, <1>7, <1>8

(* The step of the callback: the next deadline of a periodic timer.        *)
LEMMA CallBackLooks ==
  ASSUME Types, Types', ListInv, AheadInv, CallBack, NEW t \in Timers, t = head'
  PROVE  /\ remaining[t] <= Window
         /\ IsSet(t)' => \E e \in Int : Looks(t, e)'
<1>1. /\ count' = count /\ stage = "pass" /\ IsSet(t) /\ Expired(t)
      /\ remaining' = [remaining EXCEPT ![t] = IF t \in continuous THEN @ + set[t] ELSE 0]
      /\ IsSet(t)' <=> t \in continuous
      /\ Due(t)' = left[t] + set[t] /\ Due(t) = left[t]
  BY CallBackSteps
<1>2. PICK d \in Int : Looks(t, d)
  BY <1>1 DEF AheadInv
<1>3. d <= Window
  BY <1>1, <1>2, ExpiredIsNear
<1>4. /\ count \in Int /\ left[t] \in Int /\ remaining[t] \in Int
      /\ set[t] \in Int /\ 0 <= set[t] /\ set[t] < H /\ Window \in Int /\ H \in Int
  BY TimesAre, Half
<1>5. remaining[t] <= Window
  BY <1>2, <1>3, <1>4 DEF Looks
<1>6. ASSUME IsSet(t)'
      PROVE  \E e \in Int : Looks(t, e)'
  <2>a. PICK s \in Int : s = set[t]
    BY <1>4
  <2>b. PICK e \in Int : e = d + s
    OBVIOUS
  <2>c. PICK y \in Int : y = count + d
    BY <1>4
  <2>1. y + s = count + e
    BY <1>4, <2>b, <2>c
  <2>2. Same(left[t] + s, y + s)
    <3>1. Same(left[t], y)
      BY <1>1, <1>2, <2>c DEF Looks
    <3> QED
      BY <1>4, <3>1, SameShift
  <2>3. Same(Due(t)', count' + e)
    BY <1>1, <2>a, <2>1, <2>2
  <2>4. remaining'[t] = remaining[t] + s
    BY <1>1, <1>6, <2>a DEF Types, TypeOK
  <2>5. Window - H < e /\ e <= Window + H /\ remaining'[t] <= e
    BY <1>2, <1>3, <1>4, <2>a, <2>b, <2>4 DEF Looks
  <2>6. Looks(t, e)'
    BY <2>3, <2>5 DEF Looks
  <2> QED
    BY <2>6
<1> QED
  BY <1>5, <1>6

(* Nothing is set at first.                                                *)
LEMMA InitClockInv == Init => ClockInv
<1> SUFFICES ASSUME Init PROVE ListInv /\ AheadInv
  BY InitTypes DEF ClockInv
<1>1. TI_timers = <<>> /\ stage = "user"
  BY DEF Init
<1> QED
  BY <1>1 DEF ListInv, AheadInv, IsSet, Linked, Contains, Nodes, Once

(* Every step leaves the deadlines of the timers that are set in sight.    *)
LEMMA NextKeepsAhead ==
  ASSUME OwnStopsOnly, ClockInv, [Next]_vars
  PROVE  AheadInv'
<1>0. Types /\ ListInv /\ AheadInv /\ Types'
  BY NextKeepsTypes DEF ClockInv
<1>1. ASSUME NEW u \in Timers, StillSet(u), count' = count
      PROVE  \E d \in Int : Looks(u, d)'
  <2>1. PICK d \in Int : Looks(u, d)
    BY <1>0, <1>1 DEF AheadInv, StillSet
  <2> QED
    BY <1>0, <1>1, <2>1, StillLooks
<1>2. ASSUME count' = count,
             \A u \in Timers : (IsSet(u)' <=> IsSet(u)) /\ (IsSet(u) => StillSet(u))
      PROVE  AheadInv'
  BY <1>1, <1>2 DEF AheadInv
<1>3. ASSUME count' = count, NEW t \in Timers, IsSet(t)' => \E d \in Int : Looks(t, d)',
             \A u \in Timers \ {t} : (IsSet(u)' <=> IsSet(u)) /\ (IsSet(u) => StillSet(u))
      PROVE  AheadInv'
  BY <1>1, <1>3 DEF AheadInv
<1>4. CASE \/ Interrupt \/ LastPass \/ ReadTime \/ WriteCompare
           \/ StopReads \/ StopWrites
           \/ DisableInterrupts \/ EnableInterrupts \/ UNCHANGED vars
  BY <1>0, <1>2, <1>4, PollSteps
<1>5. CASE CallBackReturns
  BY <1>0, <1>2, <1>5, ReturnSteps
<1>6. CASE CallBack
  <2>1. PICK t \in Timers : t = head'
    BY <1>0, <1>6, CallBackList
  <2>2. IsSet(t)' => \E d \in Int : Looks(t, d)'
    BY <1>0, <1>6, <2>1, CallBackLooks
  <2> QED
    BY <1>0, <1>3, <1>6, <2>1, <2>2, CallBackSteps
<1>7. CASE Tick
  <2> SUFFICES ASSUME NEW u \in Timers, IsSet(u)'
      PROVE  \E d \in Int : Looks(u, d)'
      BY DEF AheadInv
  <2>1. IsSet(u)
    BY <1>0, <1>7, TickSteps
  <2>2. PICK d \in Int : Looks(u, d)
    BY <1>0, <2>1 DEF AheadInv
  <2> QED
    BY <1>0, <1>7, <2>1, <2>2, TickLooks
<1>8. ASSUME NEW t \in Timers, Stops(t)
      PROVE  AheadInv'
  BY <1>0, <1>3, <1>8, StopSteps
<1>9. ASSUME NEW t \in Timers, NEW d \in Delays, NEW cont \in BOOLEAN,
             StartDisabled(t, d, cont)
      PROVE  AheadInv'
  BY <1>0, <1>3, <1>9, PrepareSteps
<1>10. ASSUME NEW t \in Timers, NEW d \in Delays, LinkAndPoll(t, d), ~Linked(t),
              stage = "user", continuous' \ {t} = continuous \ {t}
       PROVE  AheadInv'
  <2>1. /\ count' = count /\ remaining'[t] = d /\ Same(Due(t)', count + d)
        /\ \A u \in Timers \ {t} : (IsSet(u)' <=> IsSet(u)) /\ (IsSet(u) => StillSet(u))
    <3>1. /\ count' = count /\ remaining' = [remaining EXCEPT ![t] = d]
          /\ Same(Due(t)', count + d)
          /\ \A u \in Timers \ {t} : (IsSet(u)' <=> IsSet(u)) /\ (IsSet(u) => StillSet(u))
      BY <1>0, <1>10, LinkSteps
    <3>2. remaining'[t] = d
      BY <1>0, <3>1 DEF Types, TypeOK
    <3> QED
      BY <3>1, <3>2
  <2>2. d \in Int /\ 0 <= d /\ d < H
    BY DelayIs
  <2>3. Looks(t, d)'
    BY <2>1, <2>2, Half DEF Looks
  <2> QED
    BY <1>3, <2>1, <2>2, <2>3
<1>11. ASSUME NEW t \in Timers, RestartTimer(t)
       PROVE  AheadInv'
  <2>1. set[t] \in Delays /\ LinkAndPoll(t, set[t]) /\ ~Linked(t) /\ stage = "user"
        /\ continuous' = continuous
    BY <1>0, <1>11 DEF RestartTimer, InUser, Types, TypeOK
  <2> QED
    BY <1>10, <2>1
<1>12. ASSUME NEW t \in Timers, NEW d \in Delays, NEW cont \in BOOLEAN, StartTimer(t, d, cont)
       PROVE  AheadInv'
  <2>1. LinkAndPoll(t, d) /\ ~Linked(t) /\ stage = "user"
        /\ continuous' = IF cont THEN continuous \cup {t} ELSE continuous \ {t}
    BY <1>12 DEF StartTimer, InUser
  <2>2. continuous' \ {t} = continuous \ {t}
    BY <2>1
  <2> QED
    BY <1>10, <2>1, <2>2
<1>13. ASSUME NEW t \in Timers, StopTimer(t) \/ StopInCallback(t)
       PROVE  AheadInv'
  BY <1>8, <1>13, StopTimerStops
<1> QED
  BY <1>4, <1>5, <1>6, <1>7, <1>9, <1>11, <1>12, <1>13 DEF Next

(* The invariant of the clock is inductive.                                *)
LEMMA NextKeepsClock ==
  ASSUME OwnStopsOnly
  PROVE  ClockInv /\ [Next]_vars => ClockInv'
BY NextKeepsTypes, NextKeepsList, NextKeepsAhead DEF ClockInv

(* What the alarm clock sees of a timer.                                   *)
ModeOf(t) == CASE ~IsSet(t) -> "off"
               [] IsSet(t) /\ t \in continuous -> "again"
               [] OTHER -> "once"

Modes == [t \in Timers |-> ModeOf(t)]

(* The modes, by cases, before a step ...                                  *)
LEMMA ModeIs == \A t \in Timers :
  Modes[t] = IF ~IsSet(t) THEN "off" ELSE IF t \in continuous THEN "again" ELSE "once"
BY DEF ModeOf, Modes

(* ... and after it.                                                       *)
LEMMA ModeIsNow == \A t \in Timers :
  Modes'[t] = IF ~IsSet(t)' THEN "off" ELSE IF t \in continuous' THEN "again" ELSE "once"
BY DEF ModeOf, Modes

(* Only the mode of t changes, if any.                                     *)
LEMMA ModesKept ==
  ASSUME NEW t \in Timers,
         \A u \in Timers \ {t} : (IsSet(u)' <=> IsSet(u)) /\ (IsSet(u) => StillSet(u))
  PROVE  Modes' = [Modes EXCEPT ![t] = Modes'[t]]
<1>1. \A u \in Timers \ {t} : Modes'[u] = Modes[u]
  BY ModeIs, ModeIsNow DEF StillSet
<1>2. Modes = [u \in Timers |-> Modes[u]] /\ Modes' = [u \in Timers |-> Modes'[u]]
  BY DEF Modes
<1> QED
  BY <1>1, <1>2

(* Every step is one of the alarm clock.                                   *)
LEMMA EveryStepIsAClockStep ==
  ASSUME OwnStopsOnly, ClockInv, [Next]_vars
  PROVE  \/ UNCHANGED <<Modes, remaining, set>>
         \/ /\ remaining' = [t \in Timers |->
                 IF Modes[t] = "off" THEN 0 ELSE TickDown(remaining[t])]
            /\ UNCHANGED <<Modes, set>>
         \/ \E t \in Timers :
              \/ Modes' = [Modes EXCEPT ![t] = "off"]
                 /\ remaining' = [remaining EXCEPT ![t] = 0] /\ set' = set
              \/ /\ Modes[t] # "off" /\ remaining[t] <= Window /\ set' = set
                 /\ \/ /\ Modes[t] = "once" /\ Modes' = [Modes EXCEPT ![t] = "off"]
                       /\ remaining' = [remaining EXCEPT ![t] = 0]
                    \/ /\ Modes[t] = "again" /\ Modes' = Modes
                       /\ remaining' = [remaining EXCEPT ![t] = @ + set[t]]
              \/ \E d \in Delays :
                   /\ Modes[t] = "off" /\ set' = [set EXCEPT ![t] = d]
                   /\ \/ /\ Modes' = [Modes EXCEPT ![t] = "once"]
                         /\ remaining' = [remaining EXCEPT ![t] = d]
                      \/ /\ Modes' = [Modes EXCEPT ![t] = "again"]
                         /\ remaining' = [remaining EXCEPT ![t] = d]
                      \/ UNCHANGED <<Modes, remaining>>
<1>0. Types /\ ListInv /\ AheadInv /\ Types'
  BY NextKeepsTypes DEF ClockInv
<1>1. ASSUME \A u \in Timers : (IsSet(u)' <=> IsSet(u)) /\ (IsSet(u) => StillSet(u))
      PROVE  Modes' = Modes
  <2>1. \A u \in Timers : Modes'[u] = Modes[u]
    BY <1>1, ModeIs, ModeIsNow DEF StillSet
  <2>2. Modes = [u \in Timers |-> Modes[u]] /\ Modes' = [u \in Timers |-> Modes'[u]]
    BY DEF Modes
  <2> QED
    BY <2>1, <2>2
<1>2. CASE \/ Interrupt \/ LastPass \/ ReadTime \/ WriteCompare
           \/ StopReads \/ StopWrites
           \/ DisableInterrupts \/ EnableInterrupts \/ UNCHANGED vars
  BY <1>0, <1>1, <1>2, PollSteps DEF Deadlines
<1>3. CASE CallBackReturns
  BY <1>0, <1>1, <1>3, ReturnSteps DEF Deadlines
<1>4. CASE CallBack
  <2>1. PICK t \in Timers : t = head'
    BY <1>0, <1>4, CallBackList
  <2>2. /\ set' = set /\ continuous' = continuous /\ IsSet(t)
        /\ remaining' = [remaining EXCEPT ![t] = IF t \in continuous THEN @ + set[t] ELSE 0]
        /\ IsSet(t)' <=> t \in continuous
        /\ \A u \in Timers \ {t} : (IsSet(u)' <=> IsSet(u)) /\ (IsSet(u) => StillSet(u))
    BY <1>0, <1>4, <2>1, CallBackSteps
  <2>3. remaining[t] <= Window
    BY <1>0, <1>4, <2>1, CallBackLooks
  <2>4. Modes' = [Modes EXCEPT ![t] = Modes'[t]]
    BY <2>2, ModesKept
  <2>5. CASE t \in continuous
    <3>1. Modes[t] = "again" /\ Modes'[t] = "again"
      BY <2>2, <2>5, ModeIs, ModeIsNow
    <3>2. Modes' = Modes
      BY <2>4, <3>1 DEF Modes
    <3> QED
      BY <2>2, <2>3, <2>5, <3>1, <3>2
  <2>6. CASE t \notin continuous
    <3>1. Modes[t] = "once" /\ Modes'[t] = "off"
      BY <2>2, <2>6, ModeIs, ModeIsNow
    <3> QED
      BY <2>2, <2>3, <2>4, <2>6, <3>1
  <2> QED
    BY <2>5, <2>6
<1>5. CASE Tick
  <2>1. /\ UNCHANGED <<set, continuous>>
        /\ remaining' = [t \in Timers |->
                           IF IsSet(t) THEN TickDown(remaining[t]) ELSE 0]
        /\ \A u \in Timers : IsSet(u)' <=> IsSet(u)
    BY <1>0, <1>5, TickSteps
  <2>2. \A u \in Timers : Modes'[u] = Modes[u] /\ (Modes[u] = "off" <=> ~IsSet(u))
    BY <2>1, ModeIs, ModeIsNow
  <2>3. Modes' = Modes
    BY <2>2 DEF Modes
  <2>4. remaining' = [t \in Timers |->
          IF Modes[t] = "off" THEN 0 ELSE TickDown(remaining[t])]
    BY <2>1, <2>2
  <2> QED
    BY <2>1, <2>3, <2>4
<1>6. ASSUME NEW t \in Timers, StopTimer(t) \/ StopInCallback(t)
      PROVE  /\ Modes' = [Modes EXCEPT ![t] = "off"]
             /\ remaining' = [remaining EXCEPT ![t] = 0] /\ set' = set
  <2>1. Stops(t)
    BY <1>6, StopTimerStops
  <2>2. /\ set' = set /\ remaining' = [remaining EXCEPT ![t] = 0] /\ ~IsSet(t)'
        /\ \A u \in Timers \ {t} : (IsSet(u)' <=> IsSet(u)) /\ (IsSet(u) => StillSet(u))
    BY <1>0, <2>1, StopSteps
  <2> QED
    BY <2>2, ModesKept, ModeIsNow
<1>7. ASSUME NEW t \in Timers, NEW d \in Delays, NEW cont \in BOOLEAN,
             StartDisabled(t, d, cont)
      PROVE  /\ Modes[t] = "off" /\ set' = [set EXCEPT ![t] = d]
             /\ UNCHANGED <<Modes, remaining>>
  <2>1. /\ set' = [set EXCEPT ![t] = d] /\ remaining' = remaining /\ ~IsSet(t) /\ ~IsSet(t)'
        /\ \A u \in Timers \ {t} : (IsSet(u)' <=> IsSet(u)) /\ (IsSet(u) => StillSet(u))
    BY <1>0, <1>7, PrepareSteps
  <2>2. \A u \in Timers : Modes'[u] = Modes[u]
    BY <2>1, ModeIs, ModeIsNow DEF StillSet
  <2>3. Modes = [u \in Timers |-> Modes[u]] /\ Modes' = [u \in Timers |-> Modes'[u]]
    BY DEF Modes
  <2> QED
    BY <2>1, <2>2, <2>3, ModeIs
<1>8. ASSUME NEW t \in Timers, NEW d \in Delays, LinkAndPoll(t, d), ~Linked(t),
             stage = "user", continuous' \ {t} = continuous \ {t}
      PROVE  /\ Modes[t] = "off" /\ set' = [set EXCEPT ![t] = d]
             /\ remaining' = [remaining EXCEPT ![t] = d]
             /\ \/ Modes' = [Modes EXCEPT ![t] = "once"]
                \/ Modes' = [Modes EXCEPT ![t] = "again"]
  <2>1. /\ set' = [set EXCEPT ![t] = d] /\ remaining' = [remaining EXCEPT ![t] = d]
        /\ ~IsSet(t) /\ IsSet(t)'
        /\ \A u \in Timers \ {t} : (IsSet(u)' <=> IsSet(u)) /\ (IsSet(u) => StillSet(u))
    BY <1>0, <1>8, LinkSteps
  <2>2. Modes' = [Modes EXCEPT ![t] = Modes'[t]]
    BY <2>1, ModesKept
  <2>3. Modes[t] = "off" /\ Modes'[t] \in {"once", "again"}
    BY <2>1, ModeIs, ModeIsNow
  <2> QED
    BY <2>1, <2>2, <2>3
<1>9. ASSUME NEW t \in Timers, RestartTimer(t)
      PROVE  /\ set[t] \in Delays /\ LinkAndPoll(t, set[t]) /\ ~Linked(t) /\ stage = "user"
             /\ continuous' \ {t} = continuous \ {t}
  BY <1>0, <1>9 DEF RestartTimer, InUser, Types, TypeOK
<1>10. ASSUME NEW t \in Timers, NEW d \in Delays, NEW cont \in BOOLEAN, StartTimer(t, d, cont)
       PROVE  /\ LinkAndPoll(t, d) /\ ~Linked(t) /\ stage = "user"
              /\ continuous' \ {t} = continuous \ {t}
  <2>1. continuous' = IF cont THEN continuous \cup {t} ELSE continuous \ {t}
    BY <1>10 DEF StartTimer
  <2> QED
    BY <1>10, <2>1 DEF StartTimer, InUser
<1>11. ASSUME NEW t \in Timers, RestartTimer(t)
       PROVE  \E d \in Delays :
                /\ Modes[t] = "off" /\ set' = [set EXCEPT ![t] = d]
                /\ remaining' = [remaining EXCEPT ![t] = d]
                /\ \/ Modes' = [Modes EXCEPT ![t] = "once"]
                   \/ Modes' = [Modes EXCEPT ![t] = "again"]
  BY <1>8, <1>9, <1>11
<1>12. ASSUME NEW t \in Timers, NEW d \in Delays, NEW cont \in BOOLEAN, StartTimer(t, d, cont)
       PROVE  /\ Modes[t] = "off" /\ set' = [set EXCEPT ![t] = d]
              /\ remaining' = [remaining EXCEPT ![t] = d]
              /\ \/ Modes' = [Modes EXCEPT ![t] = "once"]
                 \/ Modes' = [Modes EXCEPT ![t] = "again"]
  BY <1>8, <1>10, <1>12
<1>13. CASE \E t \in Timers : StopTimer(t) \/ StopInCallback(t)
  BY <1>6, <1>13
<1>14. CASE \E t \in Timers : RestartTimer(t)
  BY <1>11, <1>14
<1>15. CASE \E t \in Timers, d \in Delays, cont \in BOOLEAN : StartTimer(t, d, cont)
  BY <1>12, <1>15
<1>16. CASE \E t \in Timers, d \in Delays, cont \in BOOLEAN : StartDisabled(t, d, cont)
  BY <1>7, <1>16
<1> QED
  BY <1>2, <1>3, <1>4, <1>5, <1>13, <1>14, <1>15, <1>16 DEF Next

-----------------------------------------------------------------------------
(* The registers agree with the deadlines: in every reachable state the    *)
(* list is one of distinct, enabled timers, and none is due later than its *)
(* fields tell.                                                            *)
THEOREM ClockInvHolds ==
  ASSUME OwnStopsOnly
  PROVE  Spec => []ClockInv
<1>1. ClockInv /\ [Next]_vars => ClockInv'
  BY NextKeepsClock
<1> QED
  BY InitClockInv, <1>1, PTL DEF Spec

(***************************************************************************)
(* timer.c implements the alarm clock: a timer rings no earlier than       *)
(* Window ticks before its deadline, once or with its period, and never    *)
(* after stop_timer, for any number of timers and however often COUNT      *)
(* wraps, deadlines that were missed included.                             *)
(***************************************************************************)
THEOREM ClockIsKept ==
  ASSUME OwnStopsOnly
  PROVE  Spec => KeepsAlarmClock
<1> DEFINE m == [t \in Timers |->
                   CASE ~IsSet(t) -> "off"
                     [] IsSet(t) /\ t \in continuous -> "again"
                     [] OTHER -> "once"]
<1>1. m = Modes
  BY DEF Modes, ModeOf
<1>2. m' = Modes'
  BY DEF Modes, ModeOf
<1>3. Init => Alarm!Init
  <2> SUFFICES ASSUME Init
      PROVE  /\ m = [t \in Timers |-> "off"]
             /\ remaining = [t \in Timers |-> 0] /\ set = [t \in Timers |-> 0]
      BY DEF Alarm!Init
  <2>1. \A t \in Timers : ~IsSet(t)
    BY DEF Init, IsSet, Linked, Contains
  <2>2. \A t \in Timers : Modes[t] = "off"
    BY <2>1, ModeIs
  <2>3. Modes = [t \in Timers |-> "off"]
    BY <2>2 DEF Modes
  <2> QED
    BY <1>1, <2>3 DEF Init
<1>4. ClockInv /\ [Next]_vars => [Alarm!Next]_<<m, remaining, set>>
  <2> SUFFICES ASSUME ClockInv, [Next]_vars
               PROVE  Alarm!Next \/ UNCHANGED <<m, remaining, set>>
    OBVIOUS
  <2> HIDE DEF m
  <2>1. \A r : TickDown(r) = Alarm!TickDown(r)
    BY DEF TickDown, Alarm!TickDown
  <2>2. \/ UNCHANGED <<m, remaining, set>>
        \/ /\ remaining' = [t \in Timers |->
                IF m[t] = "off" THEN 0 ELSE TickDown(remaining[t])]
           /\ UNCHANGED <<m, set>>
        \/ \E t \in Timers :
             \/ m' = [m EXCEPT ![t] = "off"]
                /\ remaining' = [remaining EXCEPT ![t] = 0] /\ set' = set
             \/ /\ m[t] # "off" /\ remaining[t] <= Window /\ set' = set
                /\ \/ /\ m[t] = "once" /\ m' = [m EXCEPT ![t] = "off"]
                      /\ remaining' = [remaining EXCEPT ![t] = 0]
                   \/ /\ m[t] = "again" /\ m' = m
                      /\ remaining' = [remaining EXCEPT ![t] = @ + set[t]]
             \/ \E d \in Delays :
                  /\ m[t] = "off" /\ set' = [set EXCEPT ![t] = d]
                  /\ \/ /\ m' = [m EXCEPT ![t] = "once"]
                        /\ remaining' = [remaining EXCEPT ![t] = d]
                     \/ /\ m' = [m EXCEPT ![t] = "again"]
                        /\ remaining' = [remaining EXCEPT ![t] = d]
                     \/ UNCHANGED <<m, remaining>>
    BY <1>1, <1>2, EveryStepIsAClockStep
  <2> USE DEF m
  <2>3. ASSUME NEW t \in Timers,
               m' = [m EXCEPT ![t] = "off"], remaining' = [remaining EXCEPT ![t] = 0],
               set' = set
        PROVE  Alarm!Next
    BY <2>3 DEF Alarm!Next, Alarm!Stop
  <2>4. ASSUME NEW t \in Timers,
               m[t] # "off" /\ remaining[t] <= Window /\ set' = set,
               \/ /\ m[t] = "once" /\ m' = [m EXCEPT ![t] = "off"]
                  /\ remaining' = [remaining EXCEPT ![t] = 0]
               \/ /\ m[t] = "again" /\ m' = m
                  /\ remaining' = [remaining EXCEPT ![t] = @ + set[t]]
        PROVE  Alarm!Next
    BY <2>4 DEF Alarm!Next, Alarm!Ring
  <2>5. ASSUME NEW t \in Timers, NEW d \in Delays,
               m[t] = "off" /\ set' = [set EXCEPT ![t] = d],
               \/ /\ m' = [m EXCEPT ![t] = "once"]
                  /\ remaining' = [remaining EXCEPT ![t] = d]
               \/ /\ m' = [m EXCEPT ![t] = "again"]
                  /\ remaining' = [remaining EXCEPT ![t] = d]
               \/ UNCHANGED <<m, remaining>>
        PROVE  Alarm!Next
    BY <2>5 DEF Alarm!Next, Alarm!Set, Alarm!Prepare
  <2>6. ASSUME remaining' = [t \in Timers |->
                 IF m[t] = "off" THEN 0 ELSE TickDown(remaining[t])],
               UNCHANGED <<m, set>>
        PROVE  Alarm!Next
    BY <2>1, <2>6 DEF Alarm!Next, Alarm!Tick
  <2> QED
    BY <2>2, <2>3, <2>4, <2>5, <2>6
<1> QED
  BY <1>3, <1>4, ClockInvHolds, PTL DEF Spec, KeepsAlarmClock, Alarm!Spec, Alarm!vars

-----------------------------------------------------------------------------
(* Deadlines.                                                              *)

(* What is left of a deadline is what the registers tell.                  *)
Exact(t) == Same(Due(t), count + remaining[t])

ExactInv == ~missed => \A t \in Timers : IsSet(t) => Exact(t)

(* How late COMPARE may be when it is looked at: by the section the user   *)
(* had disabled, and while timer_poll or stop_timer runs by theirs as well.*)
Lateness ==
  IF stage # "user" THEN Slow + masked ELSE IF enabled THEN Slow ELSE masked

(* COMPARE lies s ticks ahead, no deadline comes before, and s is positive *)
(* until the interrupt is requested.                                       *)
Compared(s) ==
  /\ Same(compare, count + s)
  /\ s >= -Lateness
  /\ stage = "user" /\ ~pending => s >= 1
  /\ ~missed => \A t \in Timers : IsSet(t) => remaining[t] >= s

(* From the last pass on nothing is due within the window, of which        *)
(* Latency ticks may pass until COMPARE is written.                        *)
Awaited ==
  /\ ~missed => \A t \in Timers : IsSet(t) => remaining[t] >= Window + 1 - lag
  /\ stage = "write" => \E w \in 0 .. lag : Same(now, count - w)

(* stop_timer has read the time a bounded number of ticks ago.             *)
StopRead == stage = "stopped" => \E w \in 0 .. masked : Same(now, count - w)

DeadlineInv ==
  /\ ExactInv
  /\ stage \in {"user", "pass", "callback", "stopping", "stopped"} =>
       lag = 0 /\ \E s \in Int : Compared(s)
  /\ stage \in {"read", "write"} => Awaited
  /\ StopRead

(* A timer that keeps its deadline remains exact.                          *)
LEMMA StillExact ==
  ASSUME NEW t \in Timers, StillSet(t), count' = count, Exact(t)
  PROVE  Exact(t)'
BY DEF StillSet, Exact, Same

(* What timer_update_compare reads of an exact deadline.                   *)
LEMMA LeftOf ==
  ASSUME Types, NEW t \in Timers, NEW l \in Ticks, NEW from \in Ticks, NEW w \in Int,
         NEW r \in Int, Same(l, count + r), Same(from, count - w), r + w \in Ticks
  PROVE  (l - from) % Span = r + w
<1>1. count \in Int /\ l \in Int /\ from \in Int
  BY TimesAre DEF Ticks
<1> DEFINE b == count - w
           x == r + w
<1>2. b \in Int /\ x \in Int /\ b + x = count + r
  BY <1>1
<1>3. Same(from, b) /\ x \in Ticks
  OBVIOUS
<1> HIDE DEF b, x
<1>4. Same(from + x, b + x)
  BY <1>1, <1>2, <1>3, SameShift
<1>5. Same(l, from + x)
  BY <1>2, <1>4 DEF Same
<1> QED
  BY <1>1, <1>3, <1>5, LeftIs DEF x

(* The deadlines of the list are rem ticks away, and none had passed w     *)
(* ticks ago.                                                              *)
Coming(list, lefts, rem, w) == \A t \in Nodes(list) :
  /\ Same(lefts[t], count + rem[t])
  /\ 0 <= rem[t] + w /\ rem[t] + w < Span

(* s is the time to the first of them, or almost a lap.                    *)
First(list, rem, w, s) ==
  /\ s >= -w
  /\ \A t \in Nodes(list) : rem[t] >= s
  /\ s = Span - 1 - w \/ \E t \in Nodes(list) : s = rem[t]

(* COMPARE is written when no linked deadline has passed: it is set to the *)
(* first of them.                                                          *)
LEMMA ComparesExactly ==
  ASSUME Types, NEW list \in Seq(Timers), NEW lefts \in [Timers -> Ticks],
         NEW rem \in [Timers -> Int], NEW from \in Ticks, NEW w \in Nat,
         Same(from, count - w), w < H, UpdateCompare(list, lefts, from),
         Coming(list, lefts, rem, w)
  PROVE  \E s \in Int : Same(compare', count + s) /\ First(list, rem, w, s)
<1>1. PICK m \in Ticks :
        /\ Same(compare', from + m)
        /\ \A t \in Nodes(list) : m <= (lefts[t] - from) % Span
        /\ m = Span - 1 \/ \E t \in Nodes(list) : m = (lefts[t] - from) % Span
  BY ComparesTo
<1>2. Nodes(list) \subseteq Timers
  BY DEF Nodes
<1>3. ASSUME NEW t \in Nodes(list)
      PROVE  (lefts[t] - from) % Span = rem[t] + w
  <2>1. t \in Timers /\ lefts[t] \in Ticks /\ rem[t] \in Int /\ rem[t] + w \in Ticks
    BY <1>2, Half DEF Ticks, Coming
  <2>2. Same(lefts[t], count + rem[t])
    BY DEF Coming
  <2> QED
    BY <2>1, <2>2, LeftOf
<1>4. PICK s \in Int : s = m - w
  BY DEF Ticks
<1>5. count \in Int /\ m \in Int /\ from \in Int /\ m >= 0 /\ compare' \in Int
  BY TimesAre, ComparesTo DEF Ticks
<1>6. Same(compare', count + s)
  <2> DEFINE b == count - w
  <2>1. b \in Int /\ b + m = count + s /\ Same(from, b)
    BY <1>4, <1>5
  <2> HIDE DEF b
  <2>2. Same(from + m, b + m)
    BY <1>5, <2>1, SameShift
  <2> QED
    BY <1>1, <2>1, <2>2 DEF Same
<1>7. \A t \in Nodes(list) : rem[t] >= s
  <2> TAKE t \in Nodes(list)
  <2>1. m <= rem[t] + w /\ rem[t] \in Int
    BY <1>1, <1>2, <1>3
  <2> QED
    BY <1>4, <1>5, <2>1
<1>8. s = Span - 1 - w \/ \E t \in Nodes(list) : s = rem[t]
  <2>1. CASE m = Span - 1
    BY <1>4, <2>1, Half
  <2>2. ASSUME NEW t \in Nodes(list), m = (lefts[t] - from) % Span
        PROVE  s = rem[t]
    <3>1. m = rem[t] + w /\ rem[t] \in Int
      BY <1>2, <1>3, <2>2
    <3> QED
      BY <1>4, <3>1
  <2> QED
    BY <1>1, <2>1, <2>2
<1>9. s >= -w
  BY <1>4, <1>5
<1> QED
  BY <1>6, <1>7, <1>8, <1>9 DEF First

(* COMPARE always lies ahead by some ticks, up to a lap.                   *)
LEMMA ComparesSomewhere ==
  ASSUME Types, NEW list \in Seq(Timers), NEW lefts \in [Timers -> Ticks],
         NEW from \in Ticks, NEW w \in Nat, Same(from, count - w), w < H,
         UpdateCompare(list, lefts, from)
  PROVE  \E s \in Int : Same(compare', count + s) /\ s >= 1
<1>1. PICK m \in Ticks : Same(compare', from + m)
  BY ComparesTo
<1>2. count \in Int /\ m \in Int /\ from \in Int /\ m >= 0
  BY TimesAre DEF Ticks
<1> DEFINE b == count - w
           c == m - w
           y == count + c
<1>3. b \in Int /\ c \in Int /\ y \in Int /\ b + m = y /\ Same(from, b)
  BY <1>2
<1>4. Same(compare', y)
  <2> HIDE DEF b, y
  <2>1. Same(from + m, b + m)
    BY <1>2, <1>3, SameShift
  <2> QED
    BY <1>1, <1>3, <2>1 DEF Same
<1>5. CASE c >= 1
  BY <1>3, <1>4, <1>5
<1>6. CASE c < 1
  <2>1. Same(y + Span, y)
    BY <1>3, SameLap
  <2>2. y + Span = count + (c + Span) /\ c + Span \in Int /\ c + Span >= 1
    BY <1>2, <1>3, Half
  <2>3. Same(compare', count + (c + Span))
    BY <1>4, <2>1, <2>2 DEF Same
  <2> QED
    BY <2>2, <2>3
<1> QED
  BY <1>3, <1>5, <1>6

(* The bounds of what is left.                                             *)
LEMMA DeadlineBounds ==
  ASSUME ClockInv, DeadlineInv
  PROVE  /\ Lateness \in Nat /\ Lateness <= 2 * Slow /\ masked \in Nat /\ masked <= Slow
         /\ lag \in Nat /\ lag <= Latency
         /\ \A t \in Timers : /\ remaining[t] \in Int
                              /\ IsSet(t) => remaining[t] <= Window + H
                              /\ IsSet(t) /\ ~missed => remaining[t] > -H
<1>1. masked \in Nat /\ masked <= Slow /\ lag \in Nat /\ lag <= Latency
      /\ stage \in {"user", "pass", "callback", "read", "write", "stopping", "stopped"}
  BY Half DEF ClockInv, Types, TypeOK
<1>2. Lateness \in Nat /\ Lateness <= 2 * Slow
  BY <1>1, Half DEF Lateness
<1>3. ASSUME NEW t \in Timers, IsSet(t)
      PROVE  remaining[t] <= Window + H
  <2>1. PICK d \in Int : Looks(t, d)
    BY <1>3 DEF ClockInv, AheadInv
  <2>2. remaining[t] \in Int
    BY TimesAre DEF ClockInv
  <2> QED
    BY <2>1, <2>2, Half DEF Looks
<1>4. ASSUME NEW t \in Timers, IsSet(t), ~missed
      PROVE  remaining[t] > -H
  <2>1. remaining[t] \in Int
    BY TimesAre DEF ClockInv
  <2>2. CASE stage \in {"user", "pass", "callback", "stopping", "stopped"}
    <3>1. PICK s \in Int : Compared(s)
      BY <2>2 DEF DeadlineInv
    <3> QED
      BY <1>2, <1>4, <2>1, <3>1, Half DEF Compared
  <2>3. CASE stage \in {"read", "write"}
    BY <1>1, <1>4, <2>1, <2>3, Half DEF DeadlineInv, Awaited
  <2> QED
    BY <1>1, <2>2, <2>3
<1>5. \A t \in Timers : remaining[t] \in Int
  BY TimesAre DEF ClockInv
<1> QED
  BY <1>1, <1>2, <1>3, <1>4, <1>5

(* The last pass has found everything that is due.                         *)
LEMMA NothingIsDue ==
  ASSUME ClockInv, DeadlineInv, stage = "pass", ExpiredAt = {}, ~missed,
         NEW t \in Timers, IsSet(t)
  PROVE  remaining[t] > Window
<1>0. Types /\ ListInv
  BY DEF ClockInv
<1>1. PICK s \in Int : Compared(s)
  BY DEF DeadlineInv
<1>2. t \in Nodes(TI_timers) /\ t \notin disabled
  BY <1>0, LinkedIs DEF IsSet, ListInv
<1>3. ~Expired(t)
  BY <1>2 DEF ExpiredAt, Nodes
<1>4. Same(left[t], count + remaining[t])
  BY DEF DeadlineInv, ExactInv, Exact, Due
<1>5. /\ count \in Int /\ compare \in Int /\ left[t] \in Int /\ remaining[t] \in Int
  BY <1>0, TimesAre
<1>6. remaining[t] >= s /\ s >= -(2 * Slow)
  BY <1>1, <1>5, DeadlineBounds, Half DEF Compared
<1> SUFFICES ASSUME remaining[t] <= Window
    PROVE  FALSE
    BY <1>5, Half
<1>7. TICKS_DISTANCE(compare, left[t]) >= 0
  <2> DEFINE x == remaining[t] - s
             y == count + s
  <2>1. /\ x \in Int /\ y \in Int /\ 0 <= x /\ x < H /\ -H <= x
        /\ y + x = count + remaining[t] /\ Same(compare, y)
    BY <1>1, <1>5, <1>6, Half DEF Compared
  <2> HIDE DEF x, y
  <2>2. Same(compare + x, y + x)
    BY <1>5, <2>1, SameShift
  <2>3. Same(left[t], compare + x)
    BY <1>4, <2>1, <2>2 DEF Same
  <2>4. TICKS_DISTANCE(compare, left[t]) = x
    BY <1>5, <2>1, <2>3, DistanceIs
  <2> QED
    BY <2>1, <2>4
<1>8. TICKS_DISTANCE(left[t], (count + Window) % Span) >= 0
  <2> DEFINE x == Window - remaining[t]
             y == count + remaining[t]
             w == (count + Window) % Span
  <2>1. /\ x \in Int /\ y \in Int /\ 0 <= x /\ x < H /\ -H <= x
        /\ y + x = count + Window /\ Same(y, left[t])
    BY <1>4, <1>5, <1>6, Half DEF Same
  <2>2. w \in Int /\ Same(w, count + Window)
    <3>1. count + Window \in Int
      BY <1>5, Half
    <3> QED
      BY <3>1, Reading DEF Ticks
  <2> HIDE DEF x, y, w
  <2>3. Same(y + x, left[t] + x)
    BY <1>5, <2>1, SameShift
  <2>4. Same(w, left[t] + x)
    BY <2>1, <2>2, <2>3 DEF Same
  <2>5. TICKS_DISTANCE(left[t], w) = x
    BY <1>5, <2>1, <2>2, <2>4, DistanceIs
  <2> QED
    BY <2>1, <2>5 DEF w
<1> QED
  BY <1>2, <1>3, <1>7, <1>8 DEF Expired

(* A tick moves every deadline closer.                                     *)
LEMMA TickDeadlines ==
  ASSUME ClockInv, ClockInv', DeadlineInv, Tick
  PROVE  DeadlineInv'
<1>0. Types /\ ListInv /\ Types'
  BY DEF ClockInv
<1>1. /\ UNCHANGED <<TI_timers, stage, enabled, missed, compare, now>>
      /\ pending' = (pending \/ count' = compare)
  BY DEF Tick, walk
<1>2. /\ Same(count', count + 1)
      /\ remaining' = [t \in Timers |-> IF IsSet(t) THEN TickDown(remaining[t]) ELSE 0]
      /\ \A u \in Timers : (IsSet(u)' <=> IsSet(u)) /\ Due(u)' = Due(u)
  BY <1>0, TickSteps
<1>3. /\ count \in Int /\ count' \in Int /\ compare \in Int /\ Window \in Int /\ Latency \in Int
      /\ Latency <= Window
  <2>1. count' \in Ticks
    BY <1>0 DEF Types, TypeOK
  <2> QED
    BY <1>0, <2>1, TimesAre, Half DEF Ticks
<1>4. ASSUME ~missed, NEW t \in Timers, IsSet(t)
      PROVE  remaining'[t] = remaining[t] - 1 /\ remaining[t] \in Int
  <2>1. remaining[t] > -H /\ remaining[t] \in Int
    BY <1>4, DeadlineBounds
  <2> QED
    BY <1>2, <1>4, <2>1 DEF TickDown, H
<1>5. ASSUME NEW x \in Int
      PROVE  Same(count' + (x - 1), count + x)
  <2> DEFINE y == count + 1
             e == x - 1
  <2>1. y \in Int /\ e \in Int /\ y + e = count + x /\ Same(count', y)
    BY <1>2, <1>3
  <2> HIDE DEF y, e
  <2>2. Same(count' + e, y + e)
    BY <1>3, <2>1, SameShift
  <2> QED
    BY <2>1, <2>2 DEF e
<1>6. ExactInv'
  <2> SUFFICES ASSUME ~missed, NEW t \in Timers, IsSet(t)
      PROVE  Same(Due(t), count' + remaining'[t])
      BY <1>1, <1>2 DEF ExactInv, Exact
  <2>1. Same(Due(t), count + remaining[t])
    BY DEF DeadlineInv, ExactInv, Exact
  <2>2. remaining'[t] = remaining[t] - 1 /\ remaining[t] \in Int
    BY <1>4
  <2>3. Same(count' + (remaining[t] - 1), count + remaining[t])
    BY <1>5, <2>2
  <2> QED
    BY <2>1, <2>2, <2>3 DEF Same
<1>7. CASE stage \in {"user", "pass", "callback", "stopping", "stopped"}
  <2>1. lag = 0 /\ lag' = lag
    BY <1>7 DEF DeadlineInv, Tick, delay
  <2>2. PICK s \in Int : Compared(s)
    BY <1>7 DEF DeadlineInv
  <2>3. PICK e \in Int : e = s - 1
    OBVIOUS
  <2>4. Same(compare, count' + e)
    BY <1>5, <2>2, <2>3 DEF Compared, Same
  <2>5. e >= -Lateness'
    <3>1. masked \in Nat /\ masked' \in Nat /\ Slow \in Nat
      BY <1>0, Half DEF Types, TypeOK
    <3>2. CASE stage = "user" /\ enabled /\ ~pending
      BY <1>1, <2>2, <2>3, <3>1, <3>2 DEF Compared, Lateness
    <3>3. CASE \/ stage = "user" /\ ~enabled
               \/ stage \in {"pass", "callback", "stopping", "stopped"}
      <4>1. masked' = masked + 1
        BY <3>3 DEF Tick
      <4> QED
        BY <1>1, <2>2, <2>3, <3>1, <3>3, <4>1 DEF Compared, Lateness
    <3> QED
      BY <1>7, <3>2, <3>3 DEF Tick
  <2>6. stage = "user" /\ ~pending' => e >= 1
    <3> SUFFICES ASSUME stage = "user", ~pending', ~(e >= 1)
        PROVE  FALSE
        OBVIOUS
    <3>0. e = 0
      <4>1. ~pending
        BY <1>1
      <4>2. s >= 1
        BY <2>2, <4>1 DEF Compared
      <4> QED
        BY <2>3, <4>2
    <3>1. Same(compare, count')
      BY <1>3, <2>4, <3>0
    <3>2. compare \in Ticks /\ count' \in Ticks
      BY <1>0 DEF Types, TypeOK
    <3>3. compare = count'
      BY <1>3, <3>1, <3>2, Reading DEF Same
    <3> QED
      BY <1>1, <3>3
  <2>7. ~missed => \A t \in Timers : IsSet(t) => remaining'[t] >= e
    BY <1>4, <2>2, <2>3 DEF Compared
  <2>8. Compared(e)'
    BY <1>1, <1>2, <2>4, <2>5, <2>6, <2>7 DEF Compared
  <2>9. ASSUME stage = "stopped" PROVE \E w \in 0 .. masked' : Same(now, count' - w)
    <3>0. masked' = masked + 1 /\ masked \in Nat
      BY <1>0, <2>9 DEF Tick, Types, TypeOK
    <3>1. PICK w \in 0 .. masked : Same(now, count - w)
      BY <2>9 DEF DeadlineInv, StopRead
    <3> DEFINE x == -w
    <3>2. x \in Int /\ count + x = count - w /\ count' + (x - 1) = count' - (w + 1)
      BY <1>3, <3>0
    <3> HIDE DEF x
    <3>3. Same(count' + (x - 1), count + x)
      BY <1>5, <3>2
    <3>4. Same(now, count' - (w + 1))
      BY <3>1, <3>2, <3>3 DEF Same
    <3>5. w + 1 \in 0 .. masked'
      BY <3>0
    <3> QED
      BY <3>4, <3>5
  <2>10. StopRead'
    BY <1>1, <2>9 DEF StopRead
  <2> QED
    BY <1>1, <1>6, <1>7, <2>1, <2>8, <2>10 DEF DeadlineInv
<1>8. CASE stage \in {"read", "write"}
  <2>1. lag' = lag + 1 /\ lag < Latency /\ lag \in Nat
    BY <1>0, <1>8, SMTT(40) DEF Tick, Types, TypeOK
  <2>2. Awaited
    BY <1>8 DEF DeadlineInv
  <2>3. ~missed => \A t \in Timers : IsSet(t) => remaining'[t] >= Window + 1 - lag'
    BY <1>3, <1>4, <2>1, <2>2 DEF Awaited
  <2>4. ASSUME stage = "write" PROVE \E w \in 0 .. lag' : Same(now, count' - w)
    <3>1. PICK w \in 0 .. lag : Same(now, count - w)
      BY <2>2, <2>4 DEF Awaited
    <3> DEFINE x == -w
    <3>2. x \in Int /\ count + x = count - w /\ count' + (x - 1) = count' - (w + 1)
      BY <1>3, <2>1
    <3> HIDE DEF x
    <3>3. Same(count' + (x - 1), count + x)
      BY <1>5, <3>2
    <3>4. Same(now, count' - (w + 1))
      BY <3>1, <3>2, <3>3 DEF Same
    <3>5. w + 1 \in 0 .. lag'
      BY <2>1
    <3> QED
      BY <3>4, <3>5
  <2>5. Awaited'
    BY <1>1, <1>2, <2>3, <2>4 DEF Awaited
  <2> QED
    BY <1>1, <1>6, <1>8, <2>5 DEF DeadlineInv, StopRead
<1> QED
  BY <1>0, <1>7, <1>8 DEF Types, TypeOK

(* The lateness is a number of ticks.                                      *)
LEMMA LatenessNow ==
  ASSUME Types'
  PROVE  \A s \in Int : s >= 0 => s >= -Lateness'
<1>1. masked' \in Nat /\ Slow \in Nat
  BY Half DEF Types, TypeOK
<1> DEFINE l == Lateness'
<1>2. l \in Nat
  <2>1. \/ l = Slow + masked' \/ l = Slow \/ l = masked'
    BY DEF Lateness
  <2> QED
    BY <1>1, <2>1
<1> HIDE DEF l
<1>3. \A s \in Int : s >= 0 => s >= -l
  BY <1>2
<1> QED
  BY <1>3 DEF l

(* Deadlines stay exact when every timer that is set afterwards has kept   *)
(* its own or has got an exact one.                                        *)
LEMMA ExactKept ==
  ASSUME ExactInv, count' = count,
         \A u \in Timers : IsSet(u)' /\ ~missed' => (~missed /\ StillSet(u)) \/ Exact(u)'
  PROVE  ExactInv'
<1> SUFFICES ASSUME ~missed', NEW u \in Timers, IsSet(u)'
    PROVE  Exact(u)'
    BY DEF ExactInv
<1>1. CASE ~missed /\ StillSet(u)
  <2>1. Exact(u)
    BY <1>1 DEF ExactInv, StillSet
  <2> QED
    BY <1>1, <2>1, StillExact
<1> QED
  BY <1>1

(* COMPARE stays right when deadlines only get later.                      *)
LEMMA ComparedKept ==
  ASSUME Types, Types', NEW s \in Int, Compared(s), count' = count, compare' = compare,
         s >= -Lateness', stage' = "user" /\ ~pending' => s >= 1,
         \A u \in Timers : IsSet(u)' /\ ~missed' =>
           ~missed /\ IsSet(u) /\ remaining'[u] >= remaining[u]
  PROVE  Compared(s)'
<1>1. ASSUME ~missed', NEW u \in Timers, IsSet(u)'
      PROVE  remaining'[u] >= s
  <2>1. remaining[u] >= s /\ remaining'[u] >= remaining[u]
    BY <1>1 DEF Compared
  <2>2. remaining[u] \in Int /\ remaining'[u] \in Int
    BY DEF Types, TypeOK
  <2> QED
    BY <2>1, <2>2
<1> QED
  BY <1>1 DEF Compared

(* The interrupt is taken.                                                 *)
LEMMA InterruptDeadlines ==
  ASSUME ClockInv, ClockInv', DeadlineInv, Interrupt
  PROVE  DeadlineInv'
<1>0. Types /\ ListInv /\ Types'
  BY DEF ClockInv
<1>1. /\ UNCHANGED <<count, compare, TI_timers, enabled, masked, lag, missed, remaining>>
      /\ stage = "user" /\ enabled /\ stage' = "pass"
  BY DEF Interrupt, delay
<1>2. \A u \in Timers : (IsSet(u)' <=> IsSet(u)) /\ (IsSet(u) => StillSet(u))
  BY <1>0, PollSteps
<1>3. ExactInv'
  BY <1>1, <1>2, ExactKept DEF DeadlineInv
<1>4. PICK s \in Int : Compared(s)
  BY <1>1 DEF DeadlineInv
<1>5. s >= -Lateness'
  <2>1. masked \in Nat /\ Slow \in Nat
    BY <1>0, Half DEF Types, TypeOK
  <2> QED
    BY <1>1, <1>4, <2>1 DEF Compared, Lateness
<1>6. \A u \in Timers : remaining'[u] >= remaining[u]
  BY <1>0, <1>1, TimesAre
<1>7. Compared(s)'
  BY <1>0, <1>1, <1>2, <1>4, <1>5, <1>6, ComparedKept
<1> QED
  BY <1>1, <1>3, <1>7 DEF DeadlineInv, StopRead

(* The last pass ends and the time is read.                                *)
LEMMA ReadDeadlines ==
  ASSUME ClockInv, ClockInv', DeadlineInv, LastPass \/ ReadTime
  PROVE  DeadlineInv'
<1>0. Types /\ ListInv /\ Types'
  BY DEF ClockInv
<1>1. /\ UNCHANGED <<count, TI_timers, lag, missed, remaining>>
      /\ \/ stage = "pass" /\ stage' = "read" /\ ExpiredAt = {}
         \/ stage = "read" /\ stage' = "write" /\ now' = count
  BY DEF LastPass, ReadTime, delay, hardware
<1>2. \A u \in Timers : (IsSet(u)' <=> IsSet(u)) /\ (IsSet(u) => StillSet(u))
  BY <1>0, PollSteps
<1>3. ExactInv'
  BY <1>1, <1>2, ExactKept DEF DeadlineInv
<1>4. ASSUME ~missed, NEW u \in Timers, IsSet(u)
      PROVE  remaining[u] >= Window + 1 - lag
  <2>1. CASE stage = "pass"
    <3>1. remaining[u] > Window
      BY <1>1, <1>4, <2>1, NothingIsDue
    <3>2. lag = 0
      BY <2>1 DEF DeadlineInv
    <3> QED
      BY <1>0, <3>1, <3>2, TimesAre, Half
  <2>2. CASE stage = "read"
    BY <1>4, <2>2 DEF DeadlineInv, Awaited
  <2> QED
    BY <1>1, <2>1, <2>2
<1>5. ASSUME stage' = "write"
      PROVE  \E w \in 0 .. lag : Same(now', count - w)
  <2>1. 0 \in 0 .. lag
    BY DeadlineBounds
  <2>2. now' = count - 0
    BY <1>0, <1>1, <1>5, TimesAre
  <2> QED
    BY <2>1, <2>2 DEF Same
<1>6. Awaited'
  BY <1>1, <1>2, <1>4, <1>5 DEF Awaited
<1> QED
  BY <1>1, <1>3, <1>6 DEF DeadlineInv, StopRead

(* Steps of user code, and of nobody, that leave COMPARE alone.            *)
LEMMA UserDeadlines ==
  ASSUME ClockInv, ClockInv', DeadlineInv,
         \/ DisableInterrupts \/ EnableInterrupts
         \/ \E t \in Timers, d \in Delays, cont \in BOOLEAN : StartDisabled(t, d, cont)
  PROVE  DeadlineInv'
<1>0. Types /\ ListInv /\ Types'
  BY DEF ClockInv
<1>1. /\ UNCHANGED <<count, compare, pending, TI_timers, stage, lag, missed, remaining>>
      /\ stage = "user"
      /\ \/ enabled /\ ~pending /\ ~enabled'
         \/ enabled'
         \/ UNCHANGED <<enabled, masked>>
  BY DEF DisableInterrupts, EnableInterrupts, StartDisabled, InUser, walk, hardware, delay
<1>2. \A u \in Timers : (IsSet(u)' <=> IsSet(u)) /\ (IsSet(u) => StillSet(u))
  <2>1. CASE DisableInterrupts \/ EnableInterrupts
    BY <1>0, <2>1, PollSteps
  <2>2. ASSUME NEW t \in Timers, NEW d \in Delays, NEW cont \in BOOLEAN,
               StartDisabled(t, d, cont)
        PROVE  \A u \in Timers : (IsSet(u)' <=> IsSet(u)) /\ (IsSet(u) => StillSet(u))
    BY <1>0, <2>2, PrepareSteps
  <2> QED
    BY <2>1, <2>2
<1>3. ExactInv'
  BY <1>1, <1>2, ExactKept DEF DeadlineInv
<1>4. PICK s \in Int : Compared(s)
  BY <1>1 DEF DeadlineInv
<1>5. s >= -Lateness'
  <2>1. masked \in Nat /\ masked <= Slow /\ masked' \in Nat /\ Slow \in Nat
    BY <1>0, Half DEF Types, TypeOK
  <2>2. CASE enabled /\ ~pending /\ ~enabled'
    <3>1. s >= 1
      BY <1>1, <1>4, <2>2 DEF Compared
    <3> QED
      BY <1>0, <3>1, LatenessNow
  <2>3. CASE enabled'
    BY <1>1, <1>4, <2>1, <2>3 DEF Compared, Lateness
  <2>4. CASE UNCHANGED <<enabled, masked>>
    BY <1>1, <1>4, <2>1, <2>4 DEF Compared, Lateness
  <2> QED
    BY <1>1, <2>2, <2>3, <2>4
<1>6. \A u \in Timers : remaining'[u] >= remaining[u]
  BY <1>0, <1>1, TimesAre
<1>7. Compared(s)'
  BY <1>0, <1>1, <1>2, <1>4, <1>5, <1>6, ComparedKept DEF Compared
<1> QED
  BY <1>1, <1>3, <1>7 DEF DeadlineInv, StopRead

(* A callback is called: the next deadline of its timer is later.          *)
LEMMA CallDeadlines ==
  ASSUME ClockInv, ClockInv', DeadlineInv, CallBack
  PROVE  DeadlineInv'
<1>0. Types /\ ListInv /\ Types'
  BY DEF ClockInv
<1>1. /\ UNCHANGED <<count, compare, TI_timers, lag, masked, missed>>
      /\ stage = "pass" /\ stage' = "callback"
  BY DEF CallBack, hardware, delay
<1>2. PICK t \in Timers : t = head'
  BY <1>0, CallBackList
<1>3. /\ remaining' = [remaining EXCEPT ![t] = IF t \in continuous THEN @ + set[t] ELSE 0]
      /\ IsSet(t) /\ (IsSet(t)' <=> t \in continuous)
      /\ Due(t)' = left[t] + set[t] /\ Due(t) = left[t]
      /\ \A u \in Timers \ {t} : (IsSet(u)' <=> IsSet(u)) /\ (IsSet(u) => StillSet(u))
  BY <1>0, <1>2, CallBackSteps
<1>4. ASSUME IsSet(t)'
      PROVE  /\ remaining'[t] = remaining[t] + set[t]
             /\ remaining[t] \in Int /\ set[t] \in Int /\ set[t] >= 0
  BY <1>0, <1>3, <1>4, TimesAre DEF Types, TypeOK
<1>5. ASSUME ~missed, IsSet(t)'
      PROVE  Exact(t)'
  <2>1. Same(left[t], count + remaining[t])
    BY <1>3, <1>5 DEF DeadlineInv, ExactInv, Exact
  <2>2. PICK x \in Int, r \in Int : x = set[t] /\ r = count + remaining[t]
    BY <1>0, TimesAre
  <2>3. Same(left[t] + x, r + x)
    BY <1>0, <2>1, <2>2, SameShift, TimesAre
  <2>4. r + x = count + (remaining[t] + set[t])
    BY <1>0, <2>2, TimesAre
  <2> QED
    BY <1>1, <1>3, <1>4, <1>5, <2>2, <2>3, <2>4 DEF Exact
<1>6. ExactInv'
  <2>1. \A u \in Timers : IsSet(u)' /\ ~missed' => (~missed /\ StillSet(u)) \/ Exact(u)'
    BY <1>1, <1>3, <1>5
  <2> QED
    BY <1>1, <2>1, ExactKept DEF DeadlineInv
<1>7. PICK s \in Int : Compared(s)
  BY <1>1 DEF DeadlineInv
<1>8. s >= -Lateness'
  BY <1>1, <1>7 DEF Compared, Lateness
<1>9. ASSUME NEW u \in Timers, IsSet(u)'
      PROVE  IsSet(u) /\ remaining'[u] >= remaining[u]
  <2>1. CASE u = t
    BY <1>3, <1>4, <1>9, <2>1
  <2>2. CASE u # t
    BY <1>0, <1>3, <1>9, <2>2, TimesAre DEF StillSet
  <2> QED
    BY <2>1, <2>2
<1>10. Compared(s)'
  BY <1>0, <1>1, <1>7, <1>8, <1>9, ComparedKept
<1> QED
  BY <1>1, <1>6, <1>10 DEF DeadlineInv, StopRead

(* A callback returns.  When it leaves the list empty no timer is set.     *)
LEMMA ReturnDeadlines ==
  ASSUME ClockInv, ClockInv', DeadlineInv, CallBackReturns
  PROVE  DeadlineInv'
<1>0. Types /\ ListInv /\ Types'
  BY DEF ClockInv
<1>1. /\ UNCHANGED <<count, compare, lag, masked, remaining>>
      /\ stage = "callback" /\ stage' = "pass" /\ missed' = (missed /\ TI_timers' # <<>>)
  BY DEF CallBackReturns, hardware, delay
<1>2. \A u \in Timers : (IsSet(u)' <=> IsSet(u)) /\ (IsSet(u) => StillSet(u))
  BY <1>0, ReturnSteps
<1>3. \A u \in Timers : IsSet(u)' /\ ~missed' => ~missed
  <2>1. ASSUME NEW u \in Timers, IsSet(u)'
        PROVE  TI_timers' # <<>>
    BY <2>1 DEF IsSet, Linked, Contains
  <2> QED
    BY <1>1, <2>1
<1>4. ExactInv'
  BY <1>1, <1>2, <1>3, ExactKept DEF DeadlineInv
<1>5. PICK s \in Int : Compared(s)
  BY <1>1 DEF DeadlineInv
<1>6. s >= -Lateness'
  BY <1>1, <1>5 DEF Compared, Lateness
<1>7. \A u \in Timers : remaining'[u] >= remaining[u]
  BY <1>0, <1>1, TimesAre
<1>8. Compared(s)'
  BY <1>0, <1>1, <1>2, <1>3, <1>5, <1>6, <1>7, ComparedKept
<1> QED
  BY <1>1, <1>4, <1>8 DEF DeadlineInv, StopRead

(* COMPARE is written, w ticks after the time was read: it lies s ticks    *)
(* ahead, of which only what a deadline already takes may be missing.      *)
LEMMA WrittenAhead ==
  ASSUME ClockInv, ClockInv', ExactInv', NEW from \in Ticks, NEW w \in Nat, w + Window < H,
         Same(from, count - w), count' = count, UpdateCompare(TI_timers', left', from),
         \A u \in Nodes(TI_timers') : IsSet(u)' /\ Due(u)' = left'[u],
         ~missed' => \A u \in Nodes(TI_timers') : remaining'[u] + w >= 0
  PROVE  \E s \in Int :
           /\ Same(compare', count' + s)
           /\ ~missed' => \A u \in Timers : IsSet(u)' => remaining'[u] >= s
           /\ s >= 1 \/ (~missed' /\ \E u \in Nodes(TI_timers') : s = remaining'[u])
<1>0. /\ Types /\ Types' /\ TI_timers' \in Seq(Timers) /\ left' \in [Timers -> Ticks]
      /\ remaining' \in [Timers -> Int]
  BY DEF ClockInv, Types, TypeOK
<1>1. w < H /\ Nodes(TI_timers') \subseteq Timers /\ Window \in Nat
      /\ H \in Nat /\ Span = H + H
  <2>1. w < H /\ Window \in Nat /\ H \in Nat /\ Span = H + H
    BY Half
  <2> QED
    BY <1>0, <2>1 DEF Nodes
<1>2. CASE missed'
  <2>1. PICK s \in Int : Same(compare', count + s) /\ s >= 1
    BY <1>0, <1>1, ComparesSomewhere
  <2> QED
    BY <1>2, <2>1
<1>3. CASE ~missed'
  <2>1. ASSUME NEW u \in Nodes(TI_timers')
        PROVE  /\ Same(left'[u], count + remaining'[u])
               /\ 0 <= remaining'[u] + w /\ remaining'[u] + w < Span
    <3>1. u \in Timers /\ IsSet(u)' /\ Due(u)' = left'[u]
      BY <1>1
    <3>2. Same(left'[u], count + remaining'[u])
      BY <1>3, <3>1 DEF ExactInv, Exact
    <3>3. PICK d \in Int : Looks(u, d)'
      BY <3>1 DEF ClockInv, AheadInv
    <3>4. remaining'[u] \in Int
      BY <1>0, <3>1
    <3>5. remaining'[u] <= Window + H
      BY <1>1, <3>3, <3>4 DEF Looks
    <3> QED
      BY <1>1, <1>3, <3>2, <3>4, <3>5
  <2>2. PICK s \in Int :
          /\ Same(compare', count + s) /\ s >= -w
          /\ \A u \in Nodes(TI_timers') : remaining'[u] >= s
          /\ s = Span - 1 - w \/ \E u \in Nodes(TI_timers') : s = remaining'[u]
    <3>1. Coming(TI_timers', left', remaining', w)
      BY <2>1 DEF Coming
    <3>2. \E s \in Int : Same(compare', count + s) /\ First(TI_timers', remaining', w, s)
      BY <1>0, <1>1, <3>1, ComparesExactly
    <3> QED
      BY <3>2 DEF First
  <2>3. \A u \in Timers : IsSet(u)' => u \in Nodes(TI_timers')
    BY DEF IsSet, Linked, Contains, Nodes
  <2>4. Span - 1 - w >= 1
    BY <1>1, Half
  <2> QED
    BY <1>3, <2>2, <2>3, <2>4
<1>4. missed' \in BOOLEAN
  BY DEF ClockInv, Types, TypeOK
<1> QED
  BY <1>2, <1>3, <1>4

(* In a poll, COMPARE may be reached already; in user code it lies ahead.  *)
LEMMA WrittenRight ==
  ASSUME ClockInv', ExactInv', NEW s \in Int, Same(compare', count' + s),
         ~missed' => \A u \in Timers : IsSet(u)' => remaining'[u] >= s,
         stage' \in {"user", "pass", "callback"}, lag' = 0,
         s >= -Lateness', stage' = "user" => s >= 1
  PROVE  DeadlineInv'
<1>1. Compared(s)'
  BY DEF Compared
<1> QED
  BY <1>1 DEF DeadlineInv, StopRead

(* start_timer sets COMPARE before the poll.                               *)
LEMMA LinkDeadlines ==
  ASSUME ClockInv, ClockInv', DeadlineInv, NEW t \in Timers, NEW d \in Delays,
         LinkAndPoll(t, d), ~Linked(t), stage = "user", continuous' \ {t} = continuous \ {t}
  PROVE  DeadlineInv'
<1>0. Types /\ ListInv /\ Types' /\ ListInv'
  BY DEF ClockInv
<1>1. /\ UNCHANGED <<count, lag, masked>> /\ stage' = "pass" /\ lag = 0
      /\ UpdateCompare(TI_timers', left', count)
      /\ missed' = (missed \/ Overlooks(TI_timers', remaining'))
  BY DEF LinkAndPoll, delay, DeadlineInv
<1>2. /\ remaining' = [remaining EXCEPT ![t] = d] /\ IsSet(t)' /\ Same(Due(t)', count + d)
      /\ \A u \in Timers \ {t} : (IsSet(u)' <=> IsSet(u)) /\ (IsSet(u) => StillSet(u))
  BY <1>0, LinkSteps
<1>3. remaining'[t] = d /\ d \in Int /\ d >= 0
  BY <1>0, <1>2, DelayIs DEF Types, TypeOK
<1>4. ASSUME ~missed'
      PROVE  ~missed /\ ~Overlooks(TI_timers', remaining')
  BY <1>1, <1>4
<1>5. ExactInv'
  <2>1. Exact(t)'
    BY <1>1, <1>2, <1>3 DEF Exact
  <2>2. \A u \in Timers : IsSet(u)' /\ ~missed' => (~missed /\ StillSet(u)) \/ Exact(u)'
    BY <1>2, <1>4, <2>1
  <2> QED
    BY <1>1, <2>2, ExactKept DEF DeadlineInv
<1>6. \A u \in Nodes(TI_timers') : IsSet(u)' /\ Due(u)' = left'[u]
  BY <1>1 DEF IsSet, Linked, Contains, Nodes, Due
<1>7. ASSUME ~missed', NEW u \in Nodes(TI_timers')
      PROVE  remaining'[u] + 0 >= 0
  <2>1. u \in Timers /\ remaining'[u] \in Int
    <3>1. TI_timers' \in Seq(Timers) /\ remaining' \in [Timers -> Int]
      BY <1>0 DEF Types, TypeOK
    <3>2. u \in Timers
      BY <1>7, <3>1 DEF Nodes
    <3> QED
      BY <3>1, <3>2
  <2>2. PICK i \in 1 .. Len(TI_timers') : TI_timers'[i] = t
    BY <1>2 DEF IsSet, Linked, Contains
  <2>3. ToCome(TI_timers', remaining')
    BY <1>3, <2>2 DEF ToCome
  <2>4. ~Overdue(TI_timers', remaining')
    BY <1>4, <1>7, <2>3 DEF Overlooks
  <2>5. ~(remaining'[u] < 0)
    BY <2>4 DEF Overdue, Nodes
  <2> QED
    BY <2>1, <2>5
<1>8. Same(count, count - 0) /\ count \in Ticks /\ 0 + Window < H /\ 0 \in Nat
  <2>1. count - 0 = count
    BY <1>0, TimesAre
  <2> QED
    BY <1>0, <2>1, Half DEF Same, Types, TypeOK
<1>9. PICK s \in Int :
        /\ Same(compare', count' + s)
        /\ ~missed' => \A u \in Timers : IsSet(u)' => remaining'[u] >= s
        /\ s >= 1 \/ (~missed' /\ \E u \in Nodes(TI_timers') : s = remaining'[u])
  BY <1>1, <1>5, <1>6, <1>7, <1>8, WrittenAhead
<1>10. s >= 0
  <2>1. CASE s >= 1
    BY <2>1
  <2>2. ASSUME ~missed', NEW u \in Nodes(TI_timers'), s = remaining'[u]
        PROVE  s >= 0
    <3>1. remaining'[u] + 0 >= 0
      BY <1>7, <2>2
    <3> QED
      BY <2>2, <3>1
  <2> QED
    BY <1>9, <2>1, <2>2
<1>11. s >= -Lateness'
  BY <1>0, <1>10, LatenessNow
<1> QED
  BY <1>1, <1>5, <1>9, <1>11, WrittenRight

(* timer_poll sets COMPARE at last: in spite of its latency every deadline *)
(* is still to come.                                                       *)
LEMMA WriteDeadlines ==
  ASSUME ClockInv, ClockInv', DeadlineInv, WriteCompare
  PROVE  DeadlineInv'
<1>0. Types /\ ListInv /\ Types' /\ ListInv' /\ Awaited /\ now \in Ticks
  BY DEF ClockInv, DeadlineInv, WriteCompare, Types, TypeOK
<1>1. /\ UNCHANGED <<count, TI_timers, missed, left, remaining>>
      /\ stage = "write" /\ stage' = "user" /\ lag' = 0
      /\ UpdateCompare(TI_timers, left, now)
  BY DEF WriteCompare, fields
<1>2. \A u \in Timers : (IsSet(u)' <=> IsSet(u)) /\ (IsSet(u) => StillSet(u))
  BY <1>0, PollSteps
<1>3. ExactInv'
  BY <1>1, <1>2, ExactKept DEF DeadlineInv
<1>4. PICK w \in 0 .. lag : Same(now, count - w)
  BY <1>0, <1>1 DEF Awaited
<1>5. w \in Nat /\ w <= lag /\ lag \in Nat /\ lag <= Latency /\ Latency <= Window
      /\ Window \in Nat /\ Latency \in Nat
  BY <1>4, DeadlineBounds, Half
<1>6. \A u \in Nodes(TI_timers') : u \in Timers /\ IsSet(u)' /\ IsSet(u) /\ Due(u)' = left'[u]
  BY <1>0, <1>1 DEF IsSet, Linked, Contains, Nodes, Due, Types, TypeOK
<1>7. ASSUME ~missed', NEW u \in Nodes(TI_timers')
      PROVE  remaining'[u] >= 1 /\ remaining'[u] \in Int
  <2>1. remaining[u] >= Window + 1 - lag /\ remaining[u] \in Int
    BY <1>0, <1>1, <1>6, <1>7, TimesAre DEF Awaited
  <2> QED
    BY <1>1, <1>5, <2>1
<1>8. ~missed' => \A u \in Nodes(TI_timers') : remaining'[u] + w >= 0
  BY <1>5, <1>7
<1>9. w + Window < H
  BY <1>5, Half
<1>10. PICK s \in Int :
         /\ Same(compare', count' + s)
         /\ ~missed' => \A u \in Timers : IsSet(u)' => remaining'[u] >= s
         /\ s >= 1 \/ (~missed' /\ \E u \in Nodes(TI_timers') : s = remaining'[u])
  BY <1>0, <1>1, <1>3, <1>4, <1>5, <1>6, <1>8, <1>9, WrittenAhead
<1>11. s >= 1
  BY <1>7, <1>10
<1>12. s >= -Lateness'
  BY <1>0, <1>11, LatenessNow
<1> QED
  BY <1>1, <1>3, <1>10, <1>11, <1>12, WrittenRight

(* A callback stops its own timer when every other deadline has passed:    *)
(* COMPARE is set to one that lies behind, as it was before.               *)
LEMMA WrittenBehind ==
  ASSUME ClockInv, ClockInv', DeadlineInv, ExactInv', ~missed, ~missed', stage = "callback",
         count' = count, UpdateCompare(TI_timers', left', count), Lateness' = Lateness,
         NEW v \in Nodes(TI_timers'),
         \A u \in Nodes(TI_timers') :
           /\ IsSet(u)' /\ IsSet(u) /\ Due(u)' = left'[u]
           /\ remaining'[u] = remaining[u] /\ remaining'[u] < 0
  PROVE  \E s \in Int :
           /\ Same(compare', count' + s) /\ s >= -Lateness'
           /\ \A u \in Timers : IsSet(u)' => remaining'[u] >= s
<1>0. /\ Types /\ Types' /\ TI_timers' \in Seq(Timers) /\ left' \in [Timers -> Ticks]
      /\ remaining' \in [Timers -> Int] /\ count \in Ticks
  BY DEF ClockInv, Types, TypeOK
<1>1. Nodes(TI_timers') \subseteq Timers /\ H \in Nat /\ H > 0 /\ Span = H + H /\ Span \in Nat
  BY <1>0, Half DEF Nodes
<1> DEFINE rem == [u \in Timers |-> remaining'[u] + Span]
<1>2. rem \in [Timers -> Int]
  BY <1>0, <1>1
<1>3. ASSUME NEW u \in Nodes(TI_timers')
      PROVE  /\ Same(left'[u], count + rem[u])
             /\ 0 <= rem[u] + 0 /\ rem[u] + 0 < Span
             /\ rem[u] = remaining'[u] + Span
  <2>1. u \in Timers /\ remaining'[u] \in Int /\ remaining'[u] < 0 /\ remaining'[u] = remaining[u]
    BY <1>0, <1>1
  <2>2. remaining'[u] > -H
    BY <1>1, <2>1, DeadlineBounds
  <2>3. rem[u] = remaining'[u] + Span
    BY <2>1
  <2>4. Same(left'[u], count + remaining'[u])
    BY <1>1 DEF ExactInv, Exact
  <2>5. PICK x \in Int : x = count + remaining'[u]
    BY <1>0, <2>1, TimesAre
  <2>6. Same(x + Span, x) /\ x + Span = count + rem[u]
    <3>1. Same(x + Span, x)
      BY <2>5, SameLap
    <3>2. x + Span = count + (remaining'[u] + Span)
      BY <1>0, <1>1, <2>1, <2>5, TimesAre
    <3> QED
      BY <2>3, <3>1, <3>2
  <2>7. Same(left'[u], count + rem[u])
    BY <2>4, <2>5, <2>6 DEF Same
  <2> HIDE DEF rem
  <2> QED
    BY <1>1, <2>1, <2>2, <2>3, <2>7
<1>4. Coming(TI_timers', left', rem, 0)
  BY <1>3 DEF Coming
<1>5. Same(count, count - 0) /\ 0 < H /\ 0 \in Nat
  <2>1. count - 0 = count
    BY <1>0, TimesAre
  <2> QED
    BY <1>1, <2>1 DEF Same
<1> HIDE DEF rem
<1>6. PICK r \in Int : Same(compare', count + r) /\ First(TI_timers', rem, 0, r)
  BY <1>0, <1>2, <1>4, <1>5, ComparesExactly
<1>7. PICK s \in Int : s = r - Span
  BY <1>1
<1>8. Same(compare', count + s)
  <2>1. PICK x \in Int : x = count + s
    BY <1>0, TimesAre
  <2>2. Same(x + Span, x) /\ x + Span = count + r
    <3>1. Same(x + Span, x)
      BY <2>1, SameLap
    <3>2. x + Span = count + r
      BY <1>0, <1>1, <1>7, <2>1, TimesAre
    <3> QED
      BY <3>1, <3>2
  <2> QED
    BY <1>6, <2>1, <2>2 DEF Same
<1>9. ASSUME NEW u \in Nodes(TI_timers')
      PROVE  remaining'[u] >= s /\ remaining'[u] \in Int
  <2>1. rem[u] >= r /\ rem[u] = remaining'[u] + Span /\ remaining'[u] \in Int
    BY <1>0, <1>1, <1>3, <1>6 DEF First
  <2> QED
    BY <1>1, <1>7, <2>1
<1>10. ASSUME NEW u \in Nodes(TI_timers')
       PROVE  remaining'[u] >= -Lateness
  <2>1. PICK e \in Int : Compared(e)
    BY DEF DeadlineInv
  <2>2. remaining'[u] = remaining[u] /\ u \in Timers /\ IsSet(u)
    BY <1>1
  <2>3. remaining[u] >= e /\ e >= -Lateness
    BY <2>1, <2>2 DEF Compared
  <2> QED
    BY <1>9, <2>2, <2>3, DeadlineBounds
<1>11. s >= -Lateness
  <2>1. CASE r = Span - 1 - 0
    <3>1. s = -1
      BY <1>1, <1>7, <2>1
    <3>2. remaining'[v] \in Int /\ remaining'[v] < 0 /\ remaining'[v] >= -Lateness
      BY <1>9, <1>10
    <3> QED
      BY <3>1, <3>2, DeadlineBounds
  <2>2. ASSUME NEW u \in Nodes(TI_timers'), r = rem[u]
        PROVE  s >= -Lateness
    <3>1. s = remaining'[u]
      BY <1>1, <1>3, <1>7, <1>9, <2>2
    <3> QED
      BY <1>10, <3>1
  <2> QED
    BY <1>6, <2>1, <2>2 DEF First
<1>12. \A u \in Timers : IsSet(u)' => u \in Nodes(TI_timers')
  BY DEF IsSet, Linked, Contains, Nodes
<1> QED
  BY <1>8, <1>9, <1>11, <1>12

(* stop_timer takes the timer out of the list: COMPARE is left alone.      *)
LEMMA StopTimerDeadlines ==
  ASSUME OwnStopsOnly, ClockInv, ClockInv', DeadlineInv, NEW t \in Timers, StopTimer(t)
  PROVE  DeadlineInv'
<1>0. Types /\ ListInv /\ Types'
  BY DEF ClockInv
<1>1. /\ UNCHANGED <<count, compare, enabled, lag, masked>>
      /\ stage = "user" /\ stage' = "stopping" /\ lag = 0
      /\ missed' = (missed /\ TI_timers' # <<>>)
  BY DEF StopTimer, InUser, hardware, delay, DeadlineInv
<1>2. /\ remaining' = [remaining EXCEPT ![t] = 0] /\ ~IsSet(t)'
      /\ \A u \in Timers \ {t} : (IsSet(u)' <=> IsSet(u)) /\ (IsSet(u) => StillSet(u))
  BY <1>0, StopSteps, StopTimerStops
<1>3. \A u \in Timers : IsSet(u)' /\ ~missed' => ~missed
  <2>1. ASSUME NEW u \in Timers, IsSet(u)'
        PROVE  TI_timers' # <<>>
    BY <2>1 DEF IsSet, Linked, Contains
  <2> QED
    BY <1>1, <2>1
<1>4. \A u \in Timers : IsSet(u)' => IsSet(u) /\ StillSet(u)
  BY <1>2
<1>5. ExactInv'
  <2>1. \A u \in Timers : IsSet(u)' /\ ~missed' => (~missed /\ StillSet(u)) \/ Exact(u)'
    BY <1>3, <1>4
  <2> QED
    BY <1>1, <2>1, ExactKept DEF DeadlineInv
<1>6. PICK s \in Int : Compared(s)
  BY <1>1 DEF DeadlineInv
<1>7. s >= -Lateness'
  <2>1. masked \in Nat /\ Slow \in Nat
    BY <1>0, Half DEF Types, TypeOK
  <2> QED
    BY <1>1, <1>6, <2>1 DEF Compared, Lateness
<1>8. ASSUME NEW u \in Timers, IsSet(u)' /\ ~missed'
      PROVE  ~missed /\ IsSet(u) /\ remaining'[u] >= remaining[u]
  <2>1. u # t /\ IsSet(u) /\ ~missed
    BY <1>2, <1>3, <1>4, <1>8
  <2>2. remaining'[u] = remaining[u] /\ remaining[u] \in Int
    BY <1>0, <1>2, <2>1, TimesAre DEF Types, TypeOK
  <2> QED
    BY <2>1, <2>2
<1>9. Compared(s)'
  BY <1>0, <1>1, <1>6, <1>7, <1>8, ComparedKept
<1> QED
  BY <1>1, <1>5, <1>9 DEF DeadlineInv, StopRead

(* stop_timer reads the time.                                              *)
LEMMA StopReadsDeadlines ==
  ASSUME ClockInv, ClockInv', DeadlineInv, StopReads
  PROVE  DeadlineInv'
<1>0. Types /\ ListInv /\ Types'
  BY DEF ClockInv
<1>1. /\ UNCHANGED <<count, compare, enabled, lag, masked, missed, remaining>>
      /\ stage = "stopping" /\ stage' = "stopped" /\ now' = count
  BY DEF StopReads, hardware, delay
<1>2. \A u \in Timers : (IsSet(u)' <=> IsSet(u)) /\ (IsSet(u) => StillSet(u))
  BY <1>0, PollSteps
<1>3. ExactInv'
  BY <1>1, <1>2, ExactKept DEF DeadlineInv
<1>4. PICK s \in Int : Compared(s)
  BY <1>1 DEF DeadlineInv
<1>5. s >= -Lateness'
  BY <1>1, <1>4 DEF Compared, Lateness
<1>6. \A u \in Timers : remaining'[u] >= remaining[u]
  BY <1>0, <1>1, TimesAre
<1>7. Compared(s)'
  BY <1>0, <1>1, <1>2, <1>4, <1>5, <1>6, ComparedKept
<1>8. StopRead'
  <2>1. 0 \in 0 .. masked
    BY DeadlineBounds
  <2>2. now' = count - 0
    BY <1>0, <1>1, TimesAre
  <2> QED
    BY <1>1, <2>1, <2>2 DEF StopRead, Same
<1>9. lag = 0
  BY <1>1 DEF DeadlineInv
<1> QED
  BY <1>1, <1>3, <1>7, <1>8, <1>9 DEF DeadlineInv

(* stop_timer sets COMPARE: a timer that is due by then is `missed'.       *)
LEMMA StopWritesDeadlines ==
  ASSUME ClockInv, ClockInv', DeadlineInv, StopWrites
  PROVE  DeadlineInv'
<1>0. Types /\ ListInv /\ Types' /\ now \in Ticks
  BY DEF ClockInv, Types, TypeOK
<1>1. /\ UNCHANGED <<count, TI_timers, left, remaining, lag>>
      /\ stage = "stopped" /\ stage' = "user" /\ lag = 0
      /\ missed' = (missed \/ Late(TI_timers, remaining))
      /\ UpdateCompare(TI_timers, left, now)
  BY DEF StopWrites, fields, DeadlineInv
<1>2. \A u \in Timers : (IsSet(u)' <=> IsSet(u)) /\ (IsSet(u) => StillSet(u))
  BY <1>0, PollSteps
<1>3. ASSUME ~missed'
      PROVE  ~missed /\ ~Late(TI_timers, remaining)
  BY <1>1, <1>3
<1>4. ExactInv'
  <2>1. \A u \in Timers : IsSet(u)' /\ ~missed' => (~missed /\ StillSet(u)) \/ Exact(u)'
    BY <1>2, <1>3
  <2> QED
    BY <1>1, <2>1, ExactKept DEF DeadlineInv
<1>5. PICK w \in 0 .. masked : Same(now, count - w)
  BY <1>1 DEF DeadlineInv, StopRead
<1>6. w \in Nat /\ w + Window < H
  BY <1>5, DeadlineBounds, Half
<1>7. \A u \in Nodes(TI_timers') : u \in Timers /\ IsSet(u)' /\ Due(u)' = left'[u]
  BY <1>0, <1>1 DEF IsSet, Linked, Contains, Nodes, Due, Types, TypeOK
<1>8. ASSUME ~missed', NEW u \in Nodes(TI_timers')
      PROVE  remaining'[u] >= 1 /\ remaining'[u] \in Int
  <2>1. remaining[u] \in Int
    BY <1>0, <1>7, TimesAre
  <2>2. ~(remaining[u] < 0) /\ remaining[u] # 0
    BY <1>1, <1>3, <1>8 DEF Late, Overdue, DueNow, Nodes
  <2> QED
    BY <1>1, <2>1, <2>2
<1>9. ~missed' => \A u \in Nodes(TI_timers') : remaining'[u] + w >= 0
  BY <1>6, <1>8
<1>10. UpdateCompare(TI_timers', left', now) /\ count' = count
  BY <1>1
<1>11. PICK s \in Int :
         /\ Same(compare', count' + s)
         /\ ~missed' => \A u \in Timers : IsSet(u)' => remaining'[u] >= s
         /\ s >= 1 \/ (~missed' /\ \E u \in Nodes(TI_timers') : s = remaining'[u])
  BY <1>0, <1>4, <1>5, <1>6, <1>7, <1>9, <1>10, WrittenAhead
<1>12. s >= 1
  BY <1>8, <1>11
<1>13. s >= -Lateness'
  BY <1>0, <1>12, LatenessNow
<1> QED
  BY <1>1, <1>4, <1>11, <1>12, <1>13, WrittenRight

(* A callback stops its own timer.                                         *)
LEMMA StopInCallbackDeadlines ==
  ASSUME OwnStopsOnly, ClockInv, ClockInv', DeadlineInv, NEW t \in Timers, StopInCallback(t)
  PROVE  DeadlineInv'
<1>0. Types /\ ListInv /\ Types' /\ ListInv' /\ Stops(t)
  BY StopTimerStops DEF ClockInv
<1>1. /\ UNCHANGED <<count, stage, head, enabled, lag, masked, left>> /\ lag = 0
      /\ stage = "callback" /\ head = t
      /\ UpdateCompare(TI_timers', left', count)
      /\ missed' = /\ TI_timers' # <<>>
                   /\ (missed \/ Overlooks(TI_timers', remaining))
  <2>1. UpdateCompare(TI_timers', left, count) /\ left' = left
    BY DEF StopInCallback
  <2> QED
    BY <2>1 DEF StopInCallback, OwnStopsOnly, delay, walk, DeadlineInv
<1>2. /\ ~IsSet(t)' /\ remaining' = [remaining EXCEPT ![t] = 0]
      /\ \A u \in Timers \ {t} : (IsSet(u)' <=> IsSet(u)) /\ (IsSet(u) => StillSet(u))
  BY <1>0, StopSteps
<1>3. ASSUME ~missed', TI_timers' # <<>>
      PROVE  ~missed /\ ~Overlooks(TI_timers', remaining)
  BY <1>1, <1>3
<1>4. ASSUME NEW u \in Nodes(TI_timers')
      PROVE  /\ u \in Timers /\ u # t /\ IsSet(u)' /\ IsSet(u) /\ Due(u)' = left'[u]
             /\ remaining'[u] = remaining[u] /\ remaining'[u] \in Int /\ TI_timers' # <<>>
  <2>1. u \in Timers /\ Linked(u)' /\ TI_timers' # <<>>
    <3>1. PICK i \in 1 .. Len(TI_timers') : TI_timers'[i] = u
      BY <1>4 DEF Nodes
    <3>2. TI_timers' \in Seq(Timers)
      BY <1>0 DEF Types, TypeOK
    <3>3. u \in Timers /\ Linked(u)'
      BY <3>1, <3>2 DEF Linked, Contains
    <3>4. TI_timers' # <<>>
      BY <3>1
    <3> QED
      BY <3>3, <3>4
  <2>2. u # t
    BY <1>0, <1>4, StopList
  <2>3. IsSet(u)' /\ Due(u)' = left'[u]
    BY <1>1, <2>1, <2>2 DEF IsSet, Due
  <2>4. remaining'[u] = remaining[u] /\ remaining'[u] \in Int
    BY <1>0, <1>2, <2>1, <2>2, TimesAre DEF Types, TypeOK
  <2> QED
    BY <1>2, <2>1, <2>2, <2>3, <2>4
<1>5. \A u \in Timers : IsSet(u)' => u \in Nodes(TI_timers')
  BY DEF IsSet, Linked, Contains, Nodes
<1>6. ExactInv'
  <2>1. \A u \in Timers : IsSet(u)' /\ ~missed' => (~missed /\ StillSet(u)) \/ Exact(u)'
    BY <1>2, <1>3, <1>4, <1>5
  <2> QED
    BY <1>1, <2>1, ExactKept DEF DeadlineInv
<1>7. Same(count, count - 0) /\ count \in Ticks /\ 0 + Window < H /\ 0 \in Nat
  <2>1. count - 0 = count
    BY <1>0, TimesAre
  <2> QED
    BY <1>0, <2>1, Half DEF Same, Types, TypeOK
<1>8. stage' = "callback" /\ lag' = 0 /\ Lateness' = Lateness
  BY <1>1 DEF Lateness
<1>9. CASE ~missed' => \A u \in Nodes(TI_timers') : remaining'[u] >= 0
  <2>1. ~missed' => \A u \in Nodes(TI_timers') : remaining'[u] + 0 >= 0
    BY <1>4, <1>9
  <2>2. PICK s \in Int :
          /\ Same(compare', count' + s)
          /\ ~missed' => \A u \in Timers : IsSet(u)' => remaining'[u] >= s
          /\ s >= 1 \/ (~missed' /\ \E u \in Nodes(TI_timers') : s = remaining'[u])
    BY <1>1, <1>4, <1>6, <1>7, <2>1, WrittenAhead
  <2>3. s >= 0
    BY <1>9, <2>2
  <2>4. s >= -Lateness'
    BY <1>0, <2>3, LatenessNow
  <2> QED
    BY <1>6, <1>8, <2>2, <2>4, WrittenRight
<1>10. ASSUME ~missed', NEW v \in Nodes(TI_timers'), ~(remaining'[v] >= 0)
       PROVE  DeadlineInv'
  <2>1. ~missed /\ ~Overlooks(TI_timers', remaining)
    BY <1>3, <1>4, <1>10
  <2>2. remaining[v] < 0
    BY <1>4, <1>10
  <2>3. Overdue(TI_timers', remaining)
    BY <2>2 DEF Overdue, Nodes
  <2>4. ~ToCome(TI_timers', remaining)
    BY <2>1, <2>3 DEF Overlooks
  <2>5. ASSUME NEW u \in Nodes(TI_timers') PROVE remaining'[u] < 0
    BY <1>4, <2>4 DEF ToCome, Nodes
  <2>6. PICK s \in Int :
          /\ Same(compare', count' + s) /\ s >= -Lateness'
          /\ \A u \in Timers : IsSet(u)' => remaining'[u] >= s
    BY <1>1, <1>4, <1>6, <1>8, <1>10, <2>1, <2>5, WrittenBehind
  <2> QED
    BY <1>6, <1>8, <2>6, WrittenRight
<1> QED
  BY <1>9, <1>10

(* At first no timer is set and COMPARE is a lap ahead.                    *)
LEMMA InitDeadlines == Init => DeadlineInv
<1> SUFFICES ASSUME Init PROVE DeadlineInv
  OBVIOUS
<1>1. /\ TI_timers = <<>> /\ stage = "user" /\ lag = 0 /\ count = 0 /\ compare = 0
      /\ enabled
  BY DEF Init
<1>2. \A u \in Timers : ~IsSet(u)
  BY <1>1 DEF IsSet, Linked, Contains
<1>3. Same(compare, count + Span)
  <2>1. Same(0 + Span, 0)
    BY SameLap
  <2> QED
    BY <1>1, <2>1 DEF Same
<1>4. Span \in Int /\ Span >= 1 /\ Span >= -Lateness
  BY <1>1, Half DEF Lateness
<1>5. Compared(Span)
  BY <1>2, <1>3, <1>4 DEF Compared
<1> QED
  BY <1>1, <1>2, <1>4, <1>5 DEF DeadlineInv, ExactInv, StopRead

(* Every step keeps the deadlines.                                         *)
LEMMA NextKeepsDeadlines ==
  ASSUME OwnStopsOnly, ClockInv, ClockInv', DeadlineInv, [Next]_vars
  PROVE  DeadlineInv'
<1>0. Types /\ ListInv
  BY DEF ClockInv
<1>1. CASE Tick
  BY <1>1, TickDeadlines
<1>2. CASE Interrupt
  BY <1>2, InterruptDeadlines
<1>3. CASE CallBack
  BY <1>3, CallDeadlines
<1>4. CASE CallBackReturns
  BY <1>4, ReturnDeadlines
<1>5. CASE LastPass \/ ReadTime
  BY <1>5, ReadDeadlines
<1>6. CASE WriteCompare
  BY <1>6, WriteDeadlines
<1>7. CASE \/ DisableInterrupts \/ EnableInterrupts
           \/ \E t \in Timers, d \in Delays, cont \in BOOLEAN : StartDisabled(t, d, cont)
  BY <1>7, UserDeadlines
<1>8. ASSUME NEW t \in Timers, RestartTimer(t)
      PROVE  DeadlineInv'
  <2>1. set[t] \in Delays /\ LinkAndPoll(t, set[t]) /\ ~Linked(t) /\ stage = "user"
        /\ continuous' = continuous
    BY <1>0, <1>8 DEF RestartTimer, InUser, Types, TypeOK
  <2> QED
    BY <2>1, LinkDeadlines
<1>9. ASSUME NEW t \in Timers, NEW d \in Delays, NEW cont \in BOOLEAN, StartTimer(t, d, cont)
      PROVE  DeadlineInv'
  <2>1. LinkAndPoll(t, d) /\ ~Linked(t) /\ stage = "user"
        /\ continuous' = IF cont THEN continuous \cup {t} ELSE continuous \ {t}
    BY <1>9 DEF StartTimer, InUser
  <2>2. continuous' \ {t} = continuous \ {t}
    BY <2>1
  <2> QED
    BY <2>1, <2>2, LinkDeadlines
<1>10. ASSUME NEW t \in Timers, StopTimer(t)
       PROVE  DeadlineInv'
  BY <1>10, StopTimerDeadlines
<1>11. ASSUME NEW t \in Timers, StopInCallback(t)
       PROVE  DeadlineInv'
  BY <1>11, StopInCallbackDeadlines
<1>12. CASE UNCHANGED vars
  <2>1. UNCHANGED <<count, compare, pending, enabled, TI_timers, left, set, continuous, stage,
                    head, now, masked, lag, remaining, missed>>
    BY <1>12 DEF vars, hardware, fields, walk, delay
  <2>2. \A u \in Timers : (IsSet(u)' <=> IsSet(u)) /\ Exact(u)' = Exact(u)
    BY <2>1 DEF IsSet, Linked, Exact, Due
  <2>3. ExactInv'
    BY <2>1, <2>2 DEF DeadlineInv, ExactInv
  <2>4. stage \in {"user", "pass", "callback", "stopping", "stopped"} =>
          lag' = 0 /\ \E s \in Int : Compared(s)'
    <3>1. ASSUME NEW s \in Int, Compared(s)
          PROVE  Compared(s)'
      BY <2>1, <2>2, <3>1 DEF Compared, Lateness
    <3> QED
      BY <2>1, <3>1 DEF DeadlineInv
  <2>5. stage \in {"read", "write"} => Awaited'
    BY <2>1, <2>2 DEF DeadlineInv, Awaited
  <2>6. StopRead'
    BY <2>1 DEF DeadlineInv, StopRead
  <2> QED
    BY <2>1, <2>3, <2>4, <2>5, <2>6 DEF DeadlineInv
<1>13. CASE StopReads \/ StopWrites
  BY <1>13, StopReadsDeadlines, StopWritesDeadlines
<1> QED
  BY <1>1, <1>2, <1>3, <1>4, <1>5, <1>6, <1>7, <1>8, <1>9, <1>10, <1>11, <1>12,
     <1>13 DEF Next

(***************************************************************************)
(* No deadline is missed, however COUNT wraps and whatever the timers: as  *)
(* long as the sections with interrupts disabled, the user's and the poll, *)
(* and the latency of the poll are bounded by TimerAssumption, every timer *)
(* in the list is due later when the program goes on after timer_poll or   *)
(* stop_timer, unless one was overdue when start_timer wrote COMPARE or due*)
(* when stop_timer did, however long ago that one read the time.           *)
(***************************************************************************)
THEOREM DeadlinesHold ==
  ASSUME OwnStopsOnly
  PROVE  Spec => []DeadlinesMet
<1>1. ClockInv /\ DeadlineInv => DeadlinesMet
  <2> SUFFICES ASSUME ClockInv, DeadlineInv, Quiet, ~missed, NEW t \in Timers, Linked(t)
      PROVE  remaining[t] > 0
      BY DEF DeadlinesMet
  <2>1. PICK s \in Int : Compared(s)
    BY DEF DeadlineInv, Quiet
  <2>2. s >= 1 /\ remaining[t] >= s
    BY <2>1 DEF Compared, Quiet, IsSet
  <2>3. remaining[t] \in Int
    BY TimesAre DEF ClockInv
  <2> QED
    BY <2>2, <2>3
<1>2. ClockInv /\ ClockInv' /\ DeadlineInv /\ [Next]_vars => DeadlineInv'
  BY NextKeepsDeadlines
<1> QED
  BY InitDeadlines, <1>1, <1>2, ClockInvHolds, PTL DEF Spec
=============================================================================

---------------------------- MODULE KQueueProofs ----------------------------
(***************************************************************************)
(* Theorems about the queue, for every set of threads, every size of the   *)
(* ring and every set of elements.                                         *)
(***************************************************************************)
EXTENDS KQueueProperties, TLAPS, SequenceTheorems, FiniteSetTheorems

(* The slot i places behind slot h.                                        *)
Behind(h, i) == (h + i) % Size

(* A thread between its work on the ring and its work on count.            *)
Halfway(o) == \E t \in Threads : pc[t] = "count" /\ op[t] = o

(* The slots written and not yet fetched, the one of a putter that still   *)
(* has to count it included.                                               *)
Written == IF Halfway("put") THEN count + 1 ELSE Stored

Holding == {"test", "count", "unlock"}

(* Who is inside the mutex owns it.                                        *)
HoldersOwn == \A t \in Threads : pc[t] \in Holding <=> owner = t

(* The waiting lists hold the threads that wait, and a timer that expired  *)
(* is that of a thread which has not looked at it yet.                     *)
WaitersListed ==
  \A t \in Threads :
    /\ t \in not_empty <=> pc[t] = "waiting" /\ op[t] = "get"
    /\ t \in not_full <=> pc[t] = "waiting" /\ op[t] = "put"
    /\ t \in timeout => pc[t] \in {"woken", "relock"}

(* A put under way has an element, and a call that is halfway was let in.  *)
CallsAreSound ==
  \A t \in Threads :
    /\ pc[t] # "idle" /\ op[t] = "put" => item[t] \in Elements
    /\ pc[t] = "count" /\ op[t] = "put" => count < Size
    /\ pc[t] = "count" /\ op[t] = "get" => count > 0

(* head, tail and count agree, and what lies between holds elements.       *)
RingIsSound ==
  /\ tail = Behind(head, Written)
  /\ \A i \in 0 .. (Written - 1) : buffer[Behind(head, i)] \in Elements

QueueInv ==
  TypeOK /\ HoldersOwn /\ WaitersListed /\ CallsAreSound /\ RingIsSound

(* The owner that tests the ring, or has served itself but not counted     *)
(* that yet, takes the place of a thread on the way.                       *)
Serving(o) == \E t \in Threads : pc[t] \in {"test", "count"} /\ op[t] = o

Reserve(o) == Cardinality(OnTheWay(o)) + (IF Serving(o) THEN 1 ELSE 0)

WakeupInv ==
  ~wasted => /\ not_empty # {} => count <= Reserve("get")
             /\ not_full # {} => Size - count <= Reserve("put")

-----------------------------------------------------------------------------
(* An index that runs at most one round ahead of its slot wraps once.      *)
LEMMA ModWraps ==
  ASSUME NEW n \in Nat \ {0}, NEW a \in 0 .. (2 * n - 1)
  PROVE  a % n = IF a < n THEN a ELSE a - n
OBVIOUS

(* A place behind a slot is a slot again.                                  *)
LEMMA BehindIs ==
  ASSUME NEW h \in Slots, NEW i \in 0 .. Size
  PROVE  /\ Behind(h, i) = IF h + i < Size THEN h + i ELSE (h + i) - Size
         /\ Behind(h, i) \in Slots
<1>1. Size \in Nat \ {0} /\ h + i \in 0 .. (2 * Size - 1)
  BY KQueueAssumption DEF Slots
<1>2. Behind(h, i) = IF h + i < Size THEN h + i ELSE (h + i) - Size
  BY <1>1, ModWraps DEF Behind
<1> QED
  BY <1>1, <1>2 DEF Slots

(* The next slot is the slot one place behind; the places behind it are    *)
(* one place further behind the slot before.                               *)
LEMMA NextSlotIs ==
  ASSUME NEW h \in Slots
  PROVE  /\ NextSlot(h) = Behind(h, 1) /\ NextSlot(h) \in Slots
         /\ \A i \in 0 .. (Size - 1) :
              Behind(NextSlot(h), i) = Behind(h, i + 1)
         /\ \A i \in 0 .. (Size - 1) :
              NextSlot(Behind(h, i)) = Behind(h, i + 1)
<1>1. \A g \in Slots : NextSlot(g) = Behind(g, 1) /\ NextSlot(g) \in Slots
  BY KQueueAssumption, BehindIs DEF NextSlot, Behind
<1>2. ASSUME NEW i \in 0 .. (Size - 1)
      PROVE  /\ Behind(NextSlot(h), i) = Behind(h, i + 1)
             /\ NextSlot(Behind(h, i)) = Behind(h, i + 1)
  <2>1. Size \in Nat \ {0} /\ h \in 0 .. (Size - 1)
    BY KQueueAssumption DEF Slots
  <2>2. /\ i \in 0 .. Size /\ i + 1 \in 0 .. Size /\ 1 \in 0 .. Size
        /\ Behind(h, i) \in Slots /\ NextSlot(h) \in Slots
    BY <1>1, <2>1, BehindIs
  <2>3. Behind(h, 1) = IF h + 1 < Size THEN h + 1 ELSE (h + 1) - Size
    BY <2>2, BehindIs
  <2>4. Behind(h, i + 1) =
          IF h + (i + 1) < Size THEN h + (i + 1) ELSE (h + (i + 1)) - Size
    BY <2>2, BehindIs
  <2>5. Behind(NextSlot(h), i) =
          IF NextSlot(h) + i < Size THEN NextSlot(h) + i
          ELSE (NextSlot(h) + i) - Size
    BY <2>2, BehindIs
  <2>6. Behind(h, i) = IF h + i < Size THEN h + i ELSE (h + i) - Size
    BY <2>2, BehindIs
  <2>7. Behind(Behind(h, i), 1) =
          IF Behind(h, i) + 1 < Size THEN Behind(h, i) + 1
          ELSE (Behind(h, i) + 1) - Size
    BY <2>2, BehindIs
  <2> QED
    BY <1>1, <2>1, <2>2, <2>3, <2>4, <2>5, <2>6, <2>7
<1> QED
  BY <1>1, <1>2

(* Two different places of one round are two different slots.              *)
LEMMA BehindInjective ==
  ASSUME NEW h \in Slots, NEW i \in 0 .. (Size - 1), NEW j \in 0 .. (Size - 1),
         Behind(h, i) = Behind(h, j)
  PROVE  i = j
<1>1. /\ Size \in Nat \ {0} /\ h \in 0 .. (Size - 1)
      /\ i \in 0 .. Size /\ j \in 0 .. Size
  BY KQueueAssumption DEF Slots
<1>2. /\ Behind(h, i) = IF h + i < Size THEN h + i ELSE (h + i) - Size
      /\ Behind(h, j) = IF h + j < Size THEN h + j ELSE (h + j) - Size
  BY <1>1, BehindIs
<1>3. (IF h + i < Size THEN h + i ELSE (h + i) - Size)
        = (IF h + j < Size THEN h + j ELSE (h + j) - Size)
  BY <1>2
<1> QED
  BY <1>1, <1>3

-----------------------------------------------------------------------------
(* At most one thread is halfway, and then it owns the mutex.              *)
LEMMA OneHalfway ==
  ASSUME QueueInv
  PROVE  /\ owner = None => Written = count /\ Stored = count
         /\ \A t \in Threads :
              pc[t] \in Holding =>
                /\ Written = IF pc[t] # "count" THEN count
                             ELSE IF op[t] = "put" THEN count + 1 ELSE count - 1
                /\ Stored = IF pc[t] = "count" /\ op[t] = "get"
                            THEN count - 1 ELSE count
         /\ Stored \in 0 .. Size /\ Written \in 0 .. Size
         /\ Stored <= Written
<1> USE DEF QueueInv, HoldersOwn, Holding, Halfway, Written, Stored
<1>1. None \notin Threads /\ Size \in Nat \ {0} /\ count \in 0 .. Size
  BY KQueueAssumption DEF TypeOK
<1>2. owner = None => Written = count /\ Stored = count
  BY <1>1
<1>3. ASSUME NEW t \in Threads, pc[t] \in Holding
      PROVE  /\ Written = IF pc[t] # "count" THEN count
                          ELSE IF op[t] = "put" THEN count + 1 ELSE count - 1
             /\ Stored = IF pc[t] = "count" /\ op[t] = "get"
                         THEN count - 1 ELSE count
  BY <1>1, <1>3 DEF TypeOK
<1>4. Stored \in 0 .. Size /\ Written \in 0 .. Size /\ Stored <= Written
  <2>1. CASE owner = None
    BY <1>1, <1>2, <2>1
  <2>2. CASE owner \in Threads
    BY <1>1, <1>3, <2>2 DEF CallsAreSound, TypeOK
  <2> QED
    BY <2>1, <2>2 DEF TypeOK
<1> QED
  BY <1>2, <1>3, <1>4

(* A step that leaves the ring alone and brings nobody halfway keeps what  *)
(* the queue holds.                                                        *)
RingKept ==
  /\ UNCHANGED ring
  /\ \A t \in Threads :
       /\ pc'[t] = "count" <=> pc[t] = "count"
       /\ pc[t] = "count" => op'[t] = op[t]

(* Who waits, runs or gives up does not matter to the ring.                *)
LEMMA RingKeptProps ==
  ASSUME QueueInv, RingKept
  PROVE  RingIsSound' /\ Stored' = Stored /\ Written' = Written
<1>1. UNCHANGED <<head, tail, buffer, count>>
  BY DEF RingKept, ring
<1>2. \A t \in Threads :
        /\ pc'[t] = "count" <=> pc[t] = "count"
        /\ pc[t] = "count" => op'[t] = op[t]
  BY DEF RingKept
<1>3. Halfway("put")' <=> Halfway("put")
  BY <1>2 DEF Halfway
<1>4. (\E t \in Threads : pc'[t] = "count" /\ op'[t] = "get")
      <=> (\E t \in Threads : pc[t] = "count" /\ op[t] = "get")
  BY <1>2
<1>5. Stored' = Stored /\ Written' = Written
  BY <1>1, <1>3, <1>4 DEF Written, Stored
<1> QED
  BY <1>1, <1>5 DEF QueueInv, RingIsSound, Behind

(* kqueue_new sets up a ring that satisfies the invariant.                 *)
LEMMA InitQueueInv == Init => QueueInv
<1> SUFFICES ASSUME Init PROVE QueueInv
  OBVIOUS
<1>1. TypeOK /\ HoldersOwn /\ WaitersListed /\ CallsAreSound
  <2>1. TypeOK
    <3>1. 0 \in Slots /\ 0 \in 0 .. Size
      BY KQueueAssumption DEF Slots
    <3> QED
      BY <3>1 DEF Init, TypeOK
  <2>2. HoldersOwn /\ WaitersListed /\ CallsAreSound
    BY KQueueAssumption
       DEF Init, HoldersOwn, Holding, WaitersListed, CallsAreSound
  <2> QED
    BY <2>1, <2>2
<1>2. Written = 0
  BY DEF Init, Written, Stored, Halfway
<1>3. Behind(0, 0) = 0
  BY KQueueAssumption, BehindIs DEF Slots
<1> QED
  BY <1>1, <1>2, <1>3 DEF QueueInv, RingIsSound, Init

(* The steps that leave the ring alone.                                    *)
LEMMA CallStepsKeepQueueInv ==
  ASSUME QueueInv, NEW t \in Threads,
         \/ \E o \in {"put", "get"} : \E e \in Elements \cup {None} :
              /\ Start(t, o, e) /\ (o = "put" => e \in Elements)
              /\ Untimed(t) \/ Timed(t)
         \/ WaitNotFull(t) \/ WaitNotEmpty(t) \/ Return(t)
         \/ Resume(t) \/ Relock(t) \/ Expire(t)
  PROVE  QueueInv' /\ RingKept
<1> USE DEF QueueInv, TypeOK, HoldersOwn, Holding, WaitersListed,
            CallsAreSound, ring, call, Goto
<1>1. ASSUME NEW o \in {"put", "get"}, NEW e \in Elements \cup {None},
             Start(t, o, e), o = "put" => e \in Elements,
             Untimed(t) \/ Timed(t)
      PROVE  /\ TypeOK' /\ HoldersOwn' /\ WaitersListed' /\ CallsAreSound'
             /\ RingKept
  <2>1. TypeOK'
    BY <1>1 DEF Start, Untimed, Timed
  <2>2. HoldersOwn' /\ WaitersListed'
    BY <1>1, KQueueAssumption DEF Start
  <2>3. CallsAreSound'
    BY <1>1 DEF Start
  <2>4. RingKept
    <3>1. /\ pc[t] = "idle" /\ pc' = [pc EXCEPT ![t] = "test"]
          /\ op' = [op EXCEPT ![t] = o] /\ UNCHANGED ring
      BY <1>1 DEF Start
    <3> QED
      BY <3>1 DEF RingKept
  <2> QED
    BY <2>1, <2>2, <2>3, <2>4
<1>2. ASSUME WaitNotFull(t)
      PROVE  /\ TypeOK' /\ HoldersOwn' /\ WaitersListed' /\ CallsAreSound'
             /\ RingKept
  BY <1>2, KQueueAssumption DEF WaitNotFull, RingKept
<1>3. ASSUME WaitNotEmpty(t)
      PROVE  /\ TypeOK' /\ HoldersOwn' /\ WaitersListed' /\ CallsAreSound'
             /\ RingKept
  BY <1>3, KQueueAssumption DEF WaitNotEmpty, RingKept
<1>4. ASSUME Return(t)
      PROVE  /\ TypeOK' /\ HoldersOwn' /\ WaitersListed' /\ CallsAreSound'
             /\ RingKept
  BY <1>4, KQueueAssumption DEF Return, RingKept
<1>5. ASSUME Resume(t)
      PROVE  /\ TypeOK' /\ HoldersOwn' /\ WaitersListed' /\ CallsAreSound'
             /\ RingKept
  BY <1>5, KQueueAssumption DEF Resume, RingKept
<1>6. ASSUME Relock(t)
      PROVE  /\ TypeOK' /\ HoldersOwn' /\ WaitersListed' /\ CallsAreSound'
             /\ RingKept
  BY <1>6, KQueueAssumption DEF Relock, RingKept
<1>7. ASSUME Expire(t)
      PROVE  /\ TypeOK' /\ HoldersOwn' /\ WaitersListed' /\ CallsAreSound'
             /\ RingKept
  BY <1>7, KQueueAssumption DEF Expire, RingKept
<1>8. /\ TypeOK' /\ HoldersOwn' /\ WaitersListed' /\ CallsAreSound'
      /\ RingKept
  BY <1>1, <1>2, <1>3, <1>4, <1>5, <1>6, <1>7, Zenon
<1> QED
  BY <1>8, RingKeptProps

-----------------------------------------------------------------------------
(* What lies in n slots from slot h on, oldest first.                      *)
Window(b, h, n) == [i \in 1 .. n |-> b[(h + i - 1) % Size]]

HoldsElements(b, h, n) == \A i \in 0 .. (n - 1) : b[Behind(h, i)] \in Elements

(* A window over elements is a sequence of them.                           *)
LEMMA WindowProps ==
  ASSUME NEW b, NEW h \in Slots, NEW n \in 0 .. Size, HoldsElements(b, h, n)
  PROVE  /\ Window(b, h, n) \in Seq(Elements)
         /\ Len(Window(b, h, n)) = n
         /\ \A i \in 1 .. n : Window(b, h, n)[i] = b[Behind(h, i - 1)]
<1> DEFINE w == Window(b, h, n)
<1>1. Size \in Nat \ {0} /\ h \in Nat /\ n \in Nat
  BY KQueueAssumption DEF Slots
<1>2. \A i \in 1 .. n : w[i] = b[Behind(h, i - 1)]
  <2> SUFFICES ASSUME NEW i \in 1 .. n PROVE w[i] = b[Behind(h, i - 1)]
    OBVIOUS
  <2>1. h + i - 1 = h + (i - 1)
    BY <1>1
  <2> QED
    BY <2>1 DEF Window, Behind
<1>3. \A i \in 1 .. n : w[i] \in Elements
  <2> SUFFICES ASSUME NEW i \in 1 .. n PROVE w[i] \in Elements
    OBVIOUS
  <2>1. i - 1 \in 0 .. (n - 1)
    BY <1>1
  <2> QED
    BY <1>2, <2>1 DEF HoldsElements
<1>4. w \in [1 .. n -> Elements]
  BY <1>3 DEF Window
<1> HIDE DEF w
<1>5. w \in Seq(Elements)
  BY <1>1, <1>4, SeqDef
<1>6. DOMAIN w = 1 .. n /\ DOMAIN w = 1 .. Len(w) /\ Len(w) \in Nat
  BY <1>4, <1>5, LenProperties
<1>7. Len(w) = n
  BY <1>1, <1>6
<1> QED
  BY <1>2, <1>5, <1>7 DEF w

(* A slot more at the far end is an element appended.                      *)
LEMMA WindowGrows ==
  ASSUME NEW b, NEW h \in Slots, NEW n \in 0 .. (Size - 1),
         HoldsElements(b, h, n + 1)
  PROVE  /\ b[Behind(h, n)] \in Elements
         /\ Window(b, h, n + 1) = Append(Window(b, h, n), b[Behind(h, n)])
<1> DEFINE v == Window(b, h, n)
           w == Window(b, h, n + 1)
           e == b[Behind(h, n)]
<1>1. /\ Size \in Nat \ {0} /\ n \in Nat /\ n \in 0 .. Size
      /\ n + 1 \in 0 .. Size
  BY KQueueAssumption
<1>2. HoldsElements(b, h, n) /\ e \in Elements
  BY <1>1 DEF HoldsElements
<1>3. /\ v \in Seq(Elements) /\ Len(v) = n
      /\ \A i \in 1 .. n : v[i] = b[Behind(h, i - 1)]
  BY <1>1, <1>2, WindowProps
<1>4. /\ w \in Seq(Elements) /\ Len(w) = n + 1
      /\ \A i \in 1 .. (n + 1) : w[i] = b[Behind(h, i - 1)]
  BY <1>1, WindowProps
<1> HIDE DEF v, w
<1>5. /\ Append(v, e) \in Seq(Elements) /\ Len(Append(v, e)) = n + 1
      /\ \A i \in 1 .. n : Append(v, e)[i] = v[i]
      /\ Append(v, e)[n + 1] = e
  BY <1>2, <1>3, AppendProperties
<1>6. ASSUME NEW i \in 1 .. (n + 1) PROVE w[i] = Append(v, e)[i]
  <2>1. CASE i \in 1 .. n
    BY <1>3, <1>4, <1>5, <2>1
  <2>2. CASE i = n + 1
    <3>1. i - 1 = n
      BY <1>1, <2>2
    <3> QED
      BY <1>4, <1>5, <2>2, <3>1
  <2>3. i \in 1 .. n \/ i = n + 1
    BY <1>1
  <2> QED
    BY <2>1, <2>2, <2>3
<1>7. w = Append(v, e)
  BY <1>4, <1>5, <1>6, SeqEqual
<1> QED
  BY <1>2, <1>7 DEF v, w

(* A slot less at the near end is the oldest element taken away.           *)
LEMMA WindowShrinks ==
  ASSUME NEW b, NEW h \in Slots, NEW n \in 1 .. Size, HoldsElements(b, h, n)
  PROVE  /\ HoldsElements(b, NextSlot(h), n - 1)
         /\ Window(b, h, n) # <<>>
         /\ Window(b, NextSlot(h), n - 1) = Tail(Window(b, h, n))
<1> DEFINE v == Window(b, h, n)
           w == Window(b, NextSlot(h), n - 1)
<1>1. /\ Size \in Nat \ {0} /\ n \in Nat /\ n \in 0 .. Size
      /\ n - 1 \in 0 .. Size /\ NextSlot(h) \in Slots
  BY KQueueAssumption, NextSlotIs
<1>2. \A i \in 0 .. (n - 1) : Behind(NextSlot(h), i) = Behind(h, i + 1)
  BY <1>1, NextSlotIs
<1>3. HoldsElements(b, NextSlot(h), n - 1)
  BY <1>1, <1>2 DEF HoldsElements
<1>4. /\ v \in Seq(Elements) /\ Len(v) = n
      /\ \A i \in 1 .. n : v[i] = b[Behind(h, i - 1)]
  BY <1>1, WindowProps
<1>5. /\ w \in Seq(Elements) /\ Len(w) = n - 1
      /\ \A i \in 1 .. (n - 1) : w[i] = b[Behind(NextSlot(h), i - 1)]
  BY <1>1, <1>3, WindowProps
<1> HIDE DEF v, w
<1>6. v # <<>>
  BY <1>4
<1>7. /\ Tail(v) \in Seq(Elements) /\ Len(Tail(v)) = n - 1
      /\ \A i \in 1 .. (n - 1) : Tail(v)[i] = v[i + 1]
  BY <1>4, <1>6, HeadTailProperties
<1>8. ASSUME NEW i \in 1 .. (n - 1) PROVE w[i] = Tail(v)[i]
  <2>1. /\ i - 1 \in 0 .. (n - 1) /\ i + 1 \in 1 .. n
        /\ (i - 1) + 1 = i /\ (i + 1) - 1 = i
    BY <1>1
  <2>2. w[i] = b[Behind(h, i)]
    BY <1>2, <1>5, <2>1
  <2>3. Tail(v)[i] = b[Behind(h, i)]
    BY <1>4, <1>7, <2>1
  <2> QED
    BY <2>2, <2>3
<1>9. w = Tail(v)
  BY <1>5, <1>7, <1>8, SeqEqual
<1> QED
  BY <1>3, <1>6, <1>9 DEF v, w

(* Writing the slot behind the window does not change the window, and      *)
(* makes one that is a slot longer.                                        *)
LEMMA WindowFrame ==
  ASSUME NEW b \in [Slots -> Elements \cup {None}], NEW h \in Slots,
         NEW n \in 0 .. (Size - 1), NEW e \in Elements,
         HoldsElements(b, h, n)
  PROVE  LET c == [b EXCEPT ![Behind(h, n)] = e]
         IN  /\ HoldsElements(c, h, n + 1)
             /\ c[Behind(h, n)] = e
             /\ Window(c, h, n) = Window(b, h, n)
<1> DEFINE c == [b EXCEPT ![Behind(h, n)] = e]
<1>1. Size \in Nat \ {0} /\ n \in Nat /\ n \in 0 .. Size
  BY KQueueAssumption
<1>2. \A i \in 0 .. Size : Behind(h, i) \in Slots
  BY BehindIs
<1>3. \A i \in 0 .. (n - 1) : Behind(h, i) # Behind(h, n)
  <2> SUFFICES ASSUME NEW i \in 0 .. (n - 1), Behind(h, i) = Behind(h, n)
               PROVE  FALSE
    OBVIOUS
  <2>1. i \in 0 .. (Size - 1) /\ n \in 0 .. (Size - 1)
    BY <1>1
  <2>2. i = n
    BY <2>1, BehindInjective
  <2> QED
    BY <1>1, <2>2
<1>4. c[Behind(h, n)] = e
  BY <1>1, <1>2
<1>5. \A i \in 0 .. (n - 1) : c[Behind(h, i)] = b[Behind(h, i)]
  BY <1>1, <1>2, <1>3
<1> HIDE DEF c
<1>6. HoldsElements(c, h, n + 1)
  <2> SUFFICES ASSUME NEW i \in 0 .. ((n + 1) - 1)
               PROVE  c[Behind(h, i)] \in Elements
    BY DEF HoldsElements
  <2>1. i = n \/ i \in 0 .. (n - 1)
    BY <1>1
  <2> QED
    BY <1>4, <1>5, <2>1 DEF HoldsElements
<1>7. \A i \in 1 .. n : (h + i - 1) % Size = Behind(h, i - 1)
  BY <1>1 DEF Behind, Slots
<1>8. \A i \in 1 .. n : i - 1 \in 0 .. (n - 1)
  BY <1>1
<1>9. Window(c, h, n) = Window(b, h, n)
  BY <1>5, <1>7, <1>8 DEF Window
<1> QED
  BY <1>4, <1>6, <1>9 DEF c

-----------------------------------------------------------------------------
(* The contents of the channel the queue implements.                       *)
Contents == Window(buffer, head, Stored)

(* The ring's part of the invariant in terms of windows.                   *)
LEMMA RingIsSoundIs ==
  RingIsSound <=>
    tail = Behind(head, Written) /\ HoldsElements(buffer, head, Written)
BY DEF RingIsSound, HoldsElements

(* Storing an element behind the others does not show yet.                 *)
LEMMA StoreKeepsQueueInv ==
  ASSUME QueueInv, NEW t \in Threads, Store(t)
  PROVE  QueueInv' /\ Contents' = Contents
<1> USE DEF QueueInv
<1>1. /\ pc[t] = "test" /\ op[t] = "put" /\ owner = t /\ count < Size
      /\ item[t] \in Elements
      /\ \A u \in Threads : u # t => pc[u] \notin Holding
      /\ pc' = [pc EXCEPT ![t] = "count"]
      /\ buffer' = [buffer EXCEPT ![tail] = item[t]]
      /\ tail' = NextSlot(tail)
      /\ UNCHANGED <<head, count, owner, not_empty, not_full, op, timed, item,
                     timeout, wasted>>
  BY DEF Store, Goto, call, HoldersOwn, Holding, CallsAreSound
<1>2. /\ Size \in Nat \ {0} /\ count \in 0 .. (Size - 1)
      /\ head \in Slots /\ tail \in Slots
      /\ buffer \in [Slots -> Elements \cup {None}]
  BY <1>1, KQueueAssumption DEF TypeOK
<1>3. Written = count /\ Stored = count
  BY <1>1, OneHalfway DEF Holding
<1>4. pc'[t] = "count" /\ \A u \in Threads : u # t => pc'[u] # "count"
  BY <1>1 DEF TypeOK, Holding
<1>5. Written' = count + 1 /\ Stored' = count
  BY <1>1, <1>4 DEF Written, Stored, Halfway
<1>6. tail = Behind(head, count) /\ HoldsElements(buffer, head, count)
  BY <1>3, RingIsSoundIs
<1>7. /\ HoldsElements(buffer', head, count + 1)
      /\ Window(buffer', head, count) = Window(buffer, head, count)
  BY <1>1, <1>2, <1>6, WindowFrame
<1>8. tail' = Behind(head, count + 1)
  BY <1>1, <1>2, <1>6, NextSlotIs
<1>9. RingIsSound'
  BY <1>1, <1>5, <1>7, <1>8 DEF RingIsSound, HoldsElements, Behind
<1>10. TypeOK'
  BY <1>1, <1>2, NextSlotIs DEF TypeOK
<1>11. HoldersOwn' /\ WaitersListed' /\ CallsAreSound'
  BY <1>1 DEF TypeOK, HoldersOwn, Holding, WaitersListed, CallsAreSound
<1> QED
  BY <1>1, <1>3, <1>5, <1>7, <1>9, <1>10, <1>11 DEF Contents

(* Fetching takes the oldest element away.                                 *)
LEMMA FetchKeepsQueueInv ==
  ASSUME QueueInv, NEW t \in Threads, Fetch(t)
  PROVE  QueueInv' /\ Contents # <<>> /\ Contents' = Tail(Contents)
<1> USE DEF QueueInv
<1>1. /\ pc[t] = "test" /\ op[t] = "get" /\ owner = t /\ count > 0
      /\ \A u \in Threads : u # t => pc[u] \notin Holding
      /\ pc' = [pc EXCEPT ![t] = "count"]
      /\ item' = [item EXCEPT ![t] = buffer[head]]
      /\ head' = NextSlot(head)
      /\ UNCHANGED <<buffer, tail, count, owner, not_empty, not_full, op, timed,
                     timeout, wasted>>
  BY DEF Fetch, Goto, HoldersOwn, Holding
<1>2. /\ Size \in Nat \ {0} /\ count \in 1 .. Size
      /\ head \in Slots /\ NextSlot(head) \in Slots
      /\ buffer \in [Slots -> Elements \cup {None}]
  BY <1>1, KQueueAssumption, NextSlotIs DEF TypeOK
<1>3. Written = count /\ Stored = count
  BY <1>1, OneHalfway DEF Holding
<1>4. pc'[t] = "count" /\ \A u \in Threads : u # t => pc'[u] # "count"
  BY <1>1 DEF TypeOK, Holding
<1>5. Written' = count - 1 /\ Stored' = count - 1
  BY <1>1, <1>4 DEF Written, Stored, Halfway
<1>6. tail = Behind(head, count) /\ HoldsElements(buffer, head, count)
  BY <1>3, RingIsSoundIs
<1>7. /\ HoldsElements(buffer, NextSlot(head), count - 1)
      /\ Window(buffer, head, count) # <<>>
      /\ Window(buffer, NextSlot(head), count - 1)
           = Tail(Window(buffer, head, count))
  BY <1>2, <1>6, WindowShrinks
<1>8. tail = Behind(NextSlot(head), count - 1)
  <2>1. count - 1 \in 0 .. (Size - 1) /\ (count - 1) + 1 = count
    BY <1>2
  <2> QED
    BY <1>2, <1>6, <2>1, NextSlotIs
<1>9. RingIsSound'
  BY <1>1, <1>5, <1>7, <1>8 DEF RingIsSound, HoldsElements, Behind
<1>10. TypeOK'
  BY <1>1, <1>2 DEF TypeOK
<1>11. HoldersOwn' /\ WaitersListed' /\ CallsAreSound'
  BY <1>1 DEF TypeOK, HoldersOwn, Holding, WaitersListed, CallsAreSound
<1> QED
  BY <1>1, <1>3, <1>5, <1>7, <1>9, <1>10, <1>11 DEF Contents

(* A signal makes one waiter ready, if there is one.                       *)
LEMMA WakesIs ==
  ASSUME NEW S, NEW W \in Wakes(S)
  PROVE  /\ W \subseteq S
         /\ S = {} => W = {}
         /\ S # {} => \E w \in S : W = {w}
BY DEF Wakes

(* An element that is counted is in the channel.                           *)
LEMMA CountStoredKeepsQueueInv ==
  ASSUME QueueInv, NEW t \in Threads, CountStored(t)
  PROVE  /\ QueueInv'
         /\ Len(Contents) < Size
         /\ \E e \in Elements : Contents' = Append(Contents, e)
<1> USE DEF QueueInv
<1>1. PICK W \in Wakes(not_empty) :
        /\ not_empty' = not_empty \ W
        /\ pc' = [u \in Threads |-> IF u = t THEN "unlock"
                                    ELSE IF u \in W THEN "woken" ELSE pc[u]]
  BY DEF CountStored
<1>2. /\ pc[t] = "count" /\ op[t] = "put" /\ owner = t /\ count < Size
      /\ \A u \in Threads : u # t => pc[u] \notin Holding
      /\ count' = count + 1
      /\ UNCHANGED <<buffer, head, tail, owner, not_full, op, timed, item,
                     timeout, wasted>>
  BY DEF CountStored, call, HoldersOwn, Holding, CallsAreSound
<1>3. /\ Size \in Nat \ {0} /\ count \in 0 .. (Size - 1)
      /\ head \in Slots
  BY <1>2, KQueueAssumption DEF TypeOK
<1>4. Written = count + 1 /\ Stored = count
  BY <1>2, OneHalfway DEF Holding
<1>5. \A u \in Threads : pc'[u] # "count"
  BY <1>1, <1>2 DEF Holding
<1>6. Written' = count + 1 /\ Stored' = count + 1
  BY <1>2, <1>5 DEF Written, Stored, Halfway
<1>7. tail = Behind(head, count + 1) /\ HoldsElements(buffer, head, count + 1)
  BY <1>4, RingIsSoundIs
<1>8. /\ buffer[Behind(head, count)] \in Elements
      /\ Window(buffer, head, count + 1)
           = Append(Window(buffer, head, count), buffer[Behind(head, count)])
  BY <1>3, <1>7, WindowGrows
<1>9. Len(Window(buffer, head, count)) = count
  <2>1. count \in 0 .. Size /\ HoldsElements(buffer, head, count)
    BY <1>3, <1>7 DEF HoldsElements
  <2> QED
    BY <1>3, <2>1, WindowProps
<1>10. RingIsSound'
  BY <1>2, <1>6, <1>7 DEF RingIsSound, HoldsElements, Behind
<1>11. W \subseteq not_empty
  BY <1>1, WakesIs
<1>12. TypeOK'
  <2>1. not_empty' \subseteq Threads /\ count' \in 0 .. Size
    BY <1>1, <1>2, <1>3 DEF TypeOK
  <2>2. pc' \in [Threads -> {"idle", "test", "count", "unlock", "waiting",
                             "woken", "relock"}]
    BY <1>1 DEF TypeOK
  <2> QED
    BY <1>2, <2>1, <2>2 DEF TypeOK
<1>13. HoldersOwn' /\ WaitersListed' /\ CallsAreSound'
  BY <1>1, <1>2, <1>11
     DEF TypeOK, HoldersOwn, Holding, WaitersListed, CallsAreSound
<1> QED
  BY <1>2, <1>3, <1>4, <1>6, <1>8, <1>9, <1>10, <1>12, <1>13 DEF Contents

(* Counting a fetched element changes nothing for the others.              *)
LEMMA CountFetchedKeepsQueueInv ==
  ASSUME QueueInv, NEW t \in Threads, CountFetched(t)
  PROVE  QueueInv' /\ Contents' = Contents
<1> USE DEF QueueInv
<1>1. PICK W \in Wakes(not_full) :
        /\ not_full' = not_full \ W
        /\ pc' = [u \in Threads |-> IF u = t THEN "unlock"
                                    ELSE IF u \in W THEN "woken" ELSE pc[u]]
  BY DEF CountFetched
<1>2. /\ pc[t] = "count" /\ op[t] = "get" /\ owner = t /\ count > 0
      /\ \A u \in Threads : u # t => pc[u] \notin Holding
      /\ count' = count - 1
      /\ UNCHANGED <<buffer, head, tail, owner, not_empty, op, timed, item,
                     timeout, wasted>>
  BY DEF CountFetched, call, HoldersOwn, Holding, CallsAreSound
<1>3. Size \in Nat \ {0} /\ count \in 1 .. Size
  BY <1>2, KQueueAssumption DEF TypeOK
<1>4. Written = count - 1 /\ Stored = count - 1
  BY <1>2, <1>3, OneHalfway DEF Holding
<1>5. \A u \in Threads : pc'[u] # "count"
  BY <1>1, <1>2 DEF Holding
<1>6. Written' = count - 1 /\ Stored' = count - 1
  BY <1>2, <1>5 DEF Written, Stored, Halfway
<1>7. RingIsSound'
  BY <1>2, <1>4, <1>6 DEF RingIsSound, Behind
<1>8. W \subseteq not_full
  BY <1>1, WakesIs
<1>9. TypeOK'
  <2>1. not_full' \subseteq Threads /\ count' \in 0 .. Size
    BY <1>1, <1>2, <1>3 DEF TypeOK
  <2>2. pc' \in [Threads -> {"idle", "test", "count", "unlock", "waiting",
                             "woken", "relock"}]
    BY <1>1 DEF TypeOK
  <2> QED
    BY <1>2, <2>1, <2>2 DEF TypeOK
<1>10. HoldersOwn' /\ WaitersListed' /\ CallsAreSound'
  BY <1>1, <1>2, <1>8
     DEF TypeOK, HoldersOwn, Holding, WaitersListed, CallsAreSound
<1> QED
  BY <1>2, <1>4, <1>6, <1>7, <1>9, <1>10 DEF Contents

(* A put from an interrupt handler finds the mutex free and does the whole *)
(* put at once.                                                            *)
LEMMA TryPutIsrKeepsQueueInv ==
  ASSUME QueueInv, NEW e \in Elements, KqueueTryPutIsr(e)
  PROVE  /\ QueueInv'
         /\ Len(Contents) < Size /\ Contents' = Append(Contents, e)
<1> USE DEF QueueInv
<1>1. PICK W \in Wakes(not_empty) :
        /\ not_empty' = not_empty \ W
        /\ pc' = [u \in Threads |-> IF u \in W THEN "woken" ELSE pc[u]]
  BY DEF KqueueTryPutIsr
<1>2. /\ owner = None /\ count < Size
      /\ \A u \in Threads : pc[u] \notin Holding
      /\ buffer' = [buffer EXCEPT ![tail] = e]
      /\ tail' = NextSlot(tail)
      /\ count' = count + 1
      /\ UNCHANGED <<head, owner, not_full, op, timed, item, timeout, wasted>>
  BY KQueueAssumption DEF KqueueTryPutIsr, MayPutIsr, call, HoldersOwn, Holding
<1>3. /\ Size \in Nat \ {0} /\ count \in 0 .. (Size - 1)
      /\ head \in Slots /\ tail \in Slots
      /\ buffer \in [Slots -> Elements \cup {None}]
  BY <1>2, KQueueAssumption DEF TypeOK
<1>4. Written = count /\ Stored = count
  BY <1>2, OneHalfway
<1>5. \A u \in Threads : pc'[u] # "count"
  BY <1>1, <1>2 DEF Holding
<1>6. Written' = count + 1 /\ Stored' = count + 1
  BY <1>2, <1>5 DEF Written, Stored, Halfway
<1>7. tail = Behind(head, count) /\ HoldsElements(buffer, head, count)
  BY <1>4, RingIsSoundIs
<1>8. /\ HoldsElements(buffer', head, count + 1)
      /\ buffer'[Behind(head, count)] = e
      /\ Window(buffer', head, count) = Window(buffer, head, count)
  BY <1>2, <1>3, <1>7, WindowFrame
<1>9. Window(buffer', head, count + 1) = Append(Window(buffer, head, count), e)
  BY <1>3, <1>8, WindowGrows
<1>10. Len(Window(buffer, head, count)) = count
  <2>1. count \in 0 .. Size
    BY <1>3
  <2> QED
    BY <1>3, <1>7, <2>1, WindowProps
<1>11. tail' = Behind(head, count + 1)
  BY <1>2, <1>3, <1>7, NextSlotIs
<1>12. RingIsSound'
  BY <1>2, <1>6, <1>8, <1>11 DEF RingIsSound, HoldsElements, Behind
<1>13. W \subseteq not_empty
  BY <1>1, WakesIs
<1>14. TypeOK'
  <2>1. not_empty' \subseteq Threads /\ count' \in 0 .. Size
    BY <1>1, <1>2, <1>3 DEF TypeOK
  <2>2. pc' \in [Threads -> {"idle", "test", "count", "unlock", "waiting",
                             "woken", "relock"}]
    BY <1>1 DEF TypeOK
  <2>3. tail' \in Slots /\ buffer' \in [Slots -> Elements \cup {None}]
    BY <1>2, <1>3, NextSlotIs
  <2> QED
    BY <1>2, <2>1, <2>2, <2>3 DEF TypeOK
<1>15. HoldersOwn' /\ WaitersListed' /\ CallsAreSound'
  BY <1>1, <1>2, <1>13, KQueueAssumption
     DEF TypeOK, HoldersOwn, Holding, WaitersListed, CallsAreSound
<1> QED
  BY <1>2, <1>3, <1>4, <1>6, <1>9, <1>10, <1>12, <1>14, <1>15 DEF Contents

-----------------------------------------------------------------------------
(* Every step keeps the invariant, and is a step of the channel or none.   *)
LEMMA EveryStepIsAChannelStep ==
  ASSUME QueueInv, [Next]_vars
  PROVE  /\ QueueInv'
         /\ \/ Contents' = Contents
            \/ Contents # <<>> /\ Contents' = Tail(Contents)
            \/ /\ Len(Contents) < Size
               /\ \E e \in Elements : Contents' = Append(Contents, e)
<1>1. ASSUME RingKept PROVE Contents' = Contents
  BY <1>1, RingKeptProps DEF RingKept, ring, Contents, Window
<1>2. ASSUME NEW t \in Threads,
             \/ KqueueGet(t) \/ KqueueTryGet(t)
             \/ \E e \in Elements : KqueuePut(t, e) \/ KqueueTryPut(t, e)
      PROVE  QueueInv' /\ Contents' = Contents
  <2>1. \E o \in {"put", "get"} : \E e \in Elements \cup {None} :
          /\ Start(t, o, e) /\ (o = "put" => e \in Elements)
          /\ Untimed(t) \/ Timed(t)
    BY <1>2 DEF KqueueGet, KqueueTryGet, KqueuePut, KqueueTryPut
  <2> QED
    BY <1>1, <2>1, CallStepsKeepQueueInv
<1>3. ASSUME NEW t \in Threads,
             \/ WaitNotFull(t) \/ WaitNotEmpty(t) \/ Return(t)
             \/ Resume(t) \/ Relock(t) \/ Expire(t)
      PROVE  QueueInv' /\ Contents' = Contents
  BY <1>1, <1>3, CallStepsKeepQueueInv
<1>4. ASSUME NEW t \in Threads, Store(t)
      PROVE  QueueInv' /\ Contents' = Contents
  BY <1>4, StoreKeepsQueueInv
<1>5. ASSUME NEW t \in Threads, Fetch(t)
      PROVE  QueueInv' /\ Contents # <<>> /\ Contents' = Tail(Contents)
  BY <1>5, FetchKeepsQueueInv
<1>6. ASSUME NEW t \in Threads, CountStored(t)
      PROVE  /\ QueueInv' /\ Len(Contents) < Size
             /\ \E e \in Elements : Contents' = Append(Contents, e)
  BY <1>6, CountStoredKeepsQueueInv
<1>7. ASSUME NEW t \in Threads, CountFetched(t)
      PROVE  QueueInv' /\ Contents' = Contents
  BY <1>7, CountFetchedKeepsQueueInv
<1>8. ASSUME NEW e \in Elements, KqueueTryPutIsr(e)
      PROVE  /\ QueueInv' /\ Len(Contents) < Size
             /\ Contents' = Append(Contents, e)
  BY <1>8, TryPutIsrKeepsQueueInv
<1>9. ASSUME UNCHANGED vars
      PROVE  QueueInv' /\ Contents' = Contents
  <2>1. UNCHANGED <<buffer, head, tail, count, owner, not_empty, not_full, pc,
                    op, timed, item, timeout, wasted>>
    BY <1>9 DEF vars, ring, call
  <2>2. RingKept
    BY <2>1 DEF RingKept, ring
  <2>3. TypeOK' /\ HoldersOwn' /\ WaitersListed' /\ CallsAreSound'
    BY <2>1
       DEF QueueInv, TypeOK, HoldersOwn, WaitersListed, CallsAreSound
  <2> QED
    BY <1>1, <2>2, <2>3, RingKeptProps DEF QueueInv
<1> QED
  BY <1>2, <1>3, <1>4, <1>5, <1>6, <1>7, <1>8, <1>9 DEF Next

(***************************************************************************)
(* In every reachable state the mutex has the owner that is inside, the    *)
(* waiting lists hold the waiters, and head, tail and count of kqueue_t    *)
(* agree on the slots that hold elements.                                  *)
(***************************************************************************)
THEOREM QueueInvHolds == Spec => []QueueInv
<1>1. QueueInv /\ [Next]_vars => QueueInv'
  BY EveryStepIsAChannelStep
<1> QED
  BY InitQueueInv, <1>1, PTL DEF Spec

(* The indexes stay inside the ring, and count between 0 and its size.     *)
THEOREM QueueTypesHold == Spec => []TypeOK
<1>1. QueueInv => TypeOK
  BY DEF QueueInv
<1> QED
  BY QueueInvHolds, <1>1, PTL

(***************************************************************************)
(* kqueue_put, kqueue_get, the timed calls and kqueue_try_put_isr together *)
(* are a FIFO channel: the refinement, for any number of threads, slots    *)
(* and elements.                                                           *)
(***************************************************************************)
THEOREM QueueIsChannel == Spec => IsChannel
<1> DEFINE c == [i \in 1 .. Stored |-> buffer[(head + i - 1) % Size]]
<1>1. c = Contents
  BY DEF Contents, Window
<1>2. c' = Contents'
  BY DEF Contents, Window
<1>3. Init => Channel!Init
  <2> SUFFICES ASSUME Init PROVE c = <<>>
    BY DEF Channel!Init
  <2>1. Stored = 0
    BY DEF Init, Stored
  <2>2. QueueInv
    BY InitQueueInv
  <2>3. Len(Contents) = 0 /\ Contents \in Seq(Elements)
    BY <2>1, <2>2, WindowProps, KQueueAssumption
       DEF QueueInv, TypeOK, Contents, HoldsElements
  <2> QED
    BY <1>1, <2>3, EmptySeq
<1>4. QueueInv /\ [Next]_vars => [Channel!Next]_c
  <2> SUFFICES ASSUME QueueInv, [Next]_vars
               PROVE  Channel!Next \/ c' = c
    OBVIOUS
  <2>1. \/ c' = c
        \/ c # <<>> /\ c' = Tail(c)
        \/ Len(c) < Size /\ \E e \in Elements : c' = Append(c, e)
    BY <1>1, <1>2, EveryStepIsAChannelStep
  <2> QED
    BY <2>1 DEF Channel!Next, Channel!Get, Channel!Put
<1> QED
  BY <1>3, <1>4, QueueInvHolds, PTL DEF Spec, IsChannel, Channel!Spec

-----------------------------------------------------------------------------
(* How a step changes the number of threads that will serve themselves.    *)
LEMMA ReserveType ==
  ASSUME NEW o
  PROVE  /\ IsFiniteSet(OnTheWay(o)) /\ Cardinality(OnTheWay(o)) \in Nat
         /\ IsFiniteSet(OnTheWay(o)') /\ Cardinality(OnTheWay(o)') \in Nat
         /\ Reserve(o) \in Nat /\ Reserve(o)' \in Nat
<1>1. OnTheWay(o) \in SUBSET Threads /\ OnTheWay(o)' \in SUBSET Threads
  BY DEF OnTheWay
<1>2. IsFiniteSet(Threads)
  BY KQueueAssumption
<1>3. /\ IsFiniteSet(OnTheWay(o)) /\ Cardinality(OnTheWay(o)) \in Nat
      /\ IsFiniteSet(OnTheWay(o)') /\ Cardinality(OnTheWay(o)') \in Nat
  BY <1>1, <1>2, FS_Subset, FS_CardinalityType
<1> QED
  BY <1>3 DEF Reserve

(* When nobody leaves the way the reserve does not shrink, except by the   *)
(* one that has served itself.                                             *)
LEMMA MoreOnTheWay ==
  ASSUME NEW o, OnTheWay(o) \subseteq OnTheWay(o)'
  PROVE  /\ (Serving(o) => Serving(o)') => Reserve(o) <= Reserve(o)'
         /\ Reserve(o) - 1 <= Reserve(o)'
<1>1. Cardinality(OnTheWay(o)) <= Cardinality(OnTheWay(o)')
  BY ReserveType, FS_Subset
<1> QED
  BY <1>1, ReserveType DEF Reserve

(* A thread that is made ready adds to the reserve.                        *)
LEMMA OneMoreOnTheWay ==
  ASSUME NEW o, NEW w, ~Serving(o),
         w \in OnTheWay(o)', w \notin OnTheWay(o),
         OnTheWay(o) \subseteq OnTheWay(o)'
  PROVE  Reserve(o) + 1 <= Reserve(o)'
<1> DEFINE S == OnTheWay(o)
           T == OnTheWay(o)'
<1>1. /\ IsFiniteSet(S) /\ Cardinality(S) \in Nat
      /\ IsFiniteSet(T) /\ Cardinality(T) \in Nat
  BY ReserveType
<1>2. Cardinality(S \cup {w}) = Cardinality(S) + 1
  BY <1>1, FS_AddElement
<1>3. S \cup {w} \in SUBSET T
  OBVIOUS
<1>4. Cardinality(S \cup {w}) <= Cardinality(T)
  BY <1>1, <1>3, FS_Subset
<1> QED
  BY <1>1, <1>2, <1>4 DEF Reserve

(* A thread that gets the mutex stays in the reserve: it serves itself.    *)
LEMMA OnTheWayServes ==
  ASSUME NEW o, NEW t, t \in OnTheWay(o), ~Serving(o), Serving(o)',
         OnTheWay(o) \ {t} \subseteq OnTheWay(o)'
  PROVE  Reserve(o) <= Reserve(o)'
<1> DEFINE S == OnTheWay(o)
           T == OnTheWay(o)'
<1>1. /\ IsFiniteSet(S) /\ Cardinality(S) \in Nat
      /\ IsFiniteSet(T) /\ Cardinality(T) \in Nat
  BY ReserveType
<1>2. Cardinality(S \ {t}) = Cardinality(S) - 1
  BY <1>1, FS_RemoveElement
<1>3. S \ {t} \in SUBSET T
  OBVIOUS
<1>4. Cardinality(S \ {t}) <= Cardinality(T)
  BY <1>1, <1>3, FS_Subset
<1> QED
  BY <1>1, <1>2, <1>4 DEF Reserve

(* No step loses a wake-up.                                                *)
LEMMA CallStepsKeepWakeupInv ==
  ASSUME QueueInv, WakeupInv, NEW t \in Threads,
         \/ \E o \in {"put", "get"} : \E e \in Elements \cup {None} :
              Start(t, o, e)
         \/ WaitNotFull(t) \/ WaitNotEmpty(t) \/ Return(t)
         \/ Resume(t) \/ Relock(t) \/ Expire(t)
  PROVE  WakeupInv'
<1> USE DEF QueueInv, Goto, ring, call
<1>1. /\ Size \in Nat \ {0} /\ count \in 0 .. Size /\ None \notin Threads
      /\ Reserve("get") \in Nat /\ Reserve("get")' \in Nat
      /\ Reserve("put") \in Nat /\ Reserve("put")' \in Nat
  BY KQueueAssumption, ReserveType DEF TypeOK
<1>2. ASSUME UNCHANGED <<count, wasted>>,
             not_empty' \subseteq not_empty, not_full' \subseteq not_full,
             Reserve("get") <= Reserve("get")',
             Reserve("put") <= Reserve("put")'
      PROVE  WakeupInv'
  BY <1>1, <1>2 DEF WakeupInv
<1>3. ASSUME NEW o \in {"put", "get"}, NEW e \in Elements \cup {None},
             Start(t, o, e)
      PROVE  WakeupInv'
  <2>1. /\ UNCHANGED <<count, wasted, not_empty, not_full, timeout>>
        /\ pc[t] = "idle" /\ owner = None
        /\ pc' = [pc EXCEPT ![t] = "test"] /\ op' = [op EXCEPT ![t] = o]
    BY <1>3 DEF Start
  <2>2. ASSUME NEW q \in {"get", "put"} PROVE Reserve(q) <= Reserve(q)'
    <3>1. OnTheWay(q) \subseteq OnTheWay(q)'
      BY <2>1 DEF OnTheWay, TypeOK
    <3>2. ~Serving(q)
      BY <1>1, <2>1 DEF Serving, HoldersOwn, Holding
    <3> QED
      BY <3>1, <3>2, MoreOnTheWay
  <2> QED
    BY <1>2, <2>1, <2>2
<1>4. ASSUME WaitNotFull(t) PROVE WakeupInv'
  <2>1. /\ UNCHANGED <<count, wasted, not_empty, timeout, op>>
        /\ pc[t] = "test" /\ op[t] = "put" /\ count = Size
        /\ pc' = [pc EXCEPT ![t] = "waiting"]
    BY <1>4 DEF WaitNotFull
  <2>2. OnTheWay("get") \subseteq OnTheWay("get")'
    BY <2>1 DEF OnTheWay, TypeOK
  <2>3. Serving("get") => Serving("get")'
    BY <2>1 DEF Serving, TypeOK
  <2>4. Reserve("get") <= Reserve("get")'
    BY <2>2, <2>3, MoreOnTheWay
  <2> QED
    BY <1>1, <2>1, <2>4 DEF WakeupInv
<1>5. ASSUME WaitNotEmpty(t) PROVE WakeupInv'
  <2>1. /\ UNCHANGED <<count, wasted, not_full, timeout, op>>
        /\ pc[t] = "test" /\ op[t] = "get" /\ count = 0
        /\ pc' = [pc EXCEPT ![t] = "waiting"]
    BY <1>5 DEF WaitNotEmpty
  <2>2. OnTheWay("put") \subseteq OnTheWay("put")'
    BY <2>1 DEF OnTheWay, TypeOK
  <2>3. Serving("put") => Serving("put")'
    BY <2>1 DEF Serving, TypeOK
  <2>4. Reserve("put") <= Reserve("put")'
    BY <2>2, <2>3, MoreOnTheWay
  <2> QED
    BY <1>1, <2>1, <2>4 DEF WakeupInv
<1>6. ASSUME Return(t) \/ Resume(t) PROVE WakeupInv'
  <2>1. /\ UNCHANGED <<count, wasted, not_empty, not_full, timeout, op>>
        /\ \/ pc[t] = "unlock" /\ pc' = [pc EXCEPT ![t] = "idle"]
           \/ pc[t] = "woken" /\ pc' = [pc EXCEPT ![t] = "relock"]
    BY <1>6 DEF Return, Resume
  <2>2. ASSUME NEW q \in {"get", "put"} PROVE Reserve(q) <= Reserve(q)'
    <3>1. OnTheWay(q) \subseteq OnTheWay(q)'
      BY <2>1 DEF OnTheWay, TypeOK
    <3>2. Serving(q) => Serving(q)'
      BY <2>1 DEF Serving, TypeOK
    <3> QED
      BY <3>1, <3>2, MoreOnTheWay
  <2> QED
    BY <1>2, <2>1, <2>2
<1>7. ASSUME Relock(t) PROVE WakeupInv'
  <2>1. /\ UNCHANGED <<count, wasted, not_empty, not_full, op>>
        /\ pc[t] = "relock" /\ owner = None
        /\ pc' = [pc EXCEPT ![t] = IF t \in timeout THEN "unlock" ELSE "test"]
        /\ timeout' = timeout \ {t}
    BY <1>7 DEF Relock
  <2>2. ASSUME NEW q \in {"get", "put"} PROVE Reserve(q) <= Reserve(q)'
    <3>1. ~Serving(q)
      BY <1>1, <2>1 DEF Serving, HoldersOwn, Holding
    <3>2. OnTheWay(q) \ {t} \subseteq OnTheWay(q)'
      BY <2>1 DEF OnTheWay, TypeOK
    <3>3. CASE t \in OnTheWay(q)
      <4>1. Serving(q)'
        BY <2>1, <3>3 DEF OnTheWay, Serving, TypeOK
      <4> QED
        BY <3>1, <3>2, <3>3, <4>1, OnTheWayServes
    <3>4. CASE t \notin OnTheWay(q)
      BY <3>1, <3>2, <3>4, MoreOnTheWay
    <3> QED
      BY <3>3, <3>4
  <2> QED
    BY <1>2, <2>1, <2>2
<1>8. ASSUME Expire(t) PROVE WakeupInv'
  <2>1. /\ UNCHANGED <<count, op>> /\ wasted' = (wasted \/ pc[t] = "woken")
        /\ not_empty' \subseteq not_empty /\ not_full' \subseteq not_full
        /\ pc[t] \in {"waiting", "woken"}
        /\ pc' = [pc EXCEPT ![t] = "woken"] /\ timeout' = timeout \cup {t}
    BY <1>8 DEF Expire
  <2>2. CASE pc[t] = "woken"
    BY <2>1, <2>2 DEF WakeupInv
  <2>3. CASE pc[t] = "waiting"
    <3>1. ASSUME NEW q \in {"get", "put"} PROVE Reserve(q) <= Reserve(q)'
      <4>1. OnTheWay(q) \subseteq OnTheWay(q)'
        BY <2>1, <2>3 DEF OnTheWay, TypeOK
      <4>2. Serving(q) => Serving(q)'
        BY <2>1 DEF Serving, TypeOK
      <4> QED
        BY <4>1, <4>2, MoreOnTheWay
    <3>2. wasted' = wasted
      BY <2>1, <2>3 DEF TypeOK
    <3> QED
      BY <1>2, <2>1, <3>1, <3>2
  <2> QED
    BY <2>1, <2>2, <2>3
<1> QED
  BY <1>3, <1>4, <1>5, <1>6, <1>7, <1>8

(* The threads on the waiting list that is signaled for a call o.          *)
ListOf(o) == IF o = "get" THEN not_empty ELSE not_full

(* A signal to a list with waiters puts one more thread on the way.        *)
LEMMA SignalBringsOne ==
  ASSUME QueueInv, NEW o \in {"get", "put"}, ~Serving(o),
         ListOf(o) # {}, NEW W \in Wakes(ListOf(o)),
         UNCHANGED <<op, timeout>>,
         \A u \in Threads :
           /\ u \in W => pc'[u] = "woken"
           /\ u \notin W /\ pc[u] \in {"woken", "relock"} => pc'[u] = pc[u]
  PROVE  Reserve(o) + 1 <= Reserve(o)'
<1>1. PICK w \in ListOf(o) : W = {w}
  BY WakesIs
<1>2. w \in Threads /\ pc[w] = "waiting" /\ op[w] = o /\ w \notin timeout
  BY DEF QueueInv, TypeOK, WaitersListed, ListOf
<1>3. w \in OnTheWay(o)' /\ w \notin OnTheWay(o)
  BY <1>1, <1>2 DEF OnTheWay
<1>4. OnTheWay(o) \subseteq OnTheWay(o)'
  BY DEF OnTheWay
<1> QED
  BY <1>3, <1>4, OneMoreOnTheWay

(* The steps that count an element or a free slot signal for it.           *)
LEMMA RingStepsKeepWakeupInv ==
  ASSUME QueueInv, WakeupInv, NEW t \in Threads,
         Store(t) \/ Fetch(t) \/ CountStored(t) \/ CountFetched(t)
  PROVE  WakeupInv'
<1> USE DEF QueueInv, Goto, ring, call
<1>1. /\ Size \in Nat \ {0} /\ count \in 0 .. Size /\ None \notin Threads
      /\ Reserve("get") \in Nat /\ Reserve("get")' \in Nat
      /\ Reserve("put") \in Nat /\ Reserve("put")' \in Nat
  BY KQueueAssumption, ReserveType DEF TypeOK
<1>2. ASSUME Store(t) \/ Fetch(t) PROVE WakeupInv'
  <2>1. /\ UNCHANGED <<count, wasted, not_empty, not_full, timeout, op>>
        /\ pc[t] = "test" /\ pc' = [pc EXCEPT ![t] = "count"]
    BY <1>2 DEF Store, Fetch
  <2>2. ASSUME NEW q \in {"get", "put"} PROVE Reserve(q) <= Reserve(q)'
    <3>1. OnTheWay(q) \subseteq OnTheWay(q)'
      BY <2>1 DEF OnTheWay, TypeOK
    <3>2. Serving(q) => Serving(q)'
      BY <2>1 DEF Serving, TypeOK
    <3> QED
      BY <3>1, <3>2, MoreOnTheWay
  <2> QED
    BY <1>1, <2>1, <2>2 DEF WakeupInv
<1>3. ASSUME CountStored(t) PROVE WakeupInv'
  <2>1. PICK W \in Wakes(not_empty) :
          /\ not_empty' = not_empty \ W
          /\ pc' = [u \in Threads |-> IF u = t THEN "unlock"
                                      ELSE IF u \in W THEN "woken" ELSE pc[u]]
    BY <1>3 DEF CountStored
  <2>2. /\ pc[t] = "count" /\ op[t] = "put" /\ count' = count + 1
        /\ UNCHANGED <<wasted, not_full, timeout, op>>
    BY <1>3 DEF CountStored
  <2>3. W \subseteq not_empty
    BY <2>1, WakesIs
  <2>4. \A u \in Threads :
          /\ u \in W => pc'[u] = "woken" /\ pc[u] = "waiting"
          /\ u \notin W /\ pc[u] \in {"woken", "relock"} => pc'[u] = pc[u]
    BY <2>1, <2>2, <2>3 DEF WaitersListed
  <2>5. Reserve("put") - 1 <= Reserve("put")'
    <3>1. OnTheWay("put") \subseteq OnTheWay("put")'
      BY <2>2, <2>4 DEF OnTheWay
    <3> QED
      BY <3>1, MoreOnTheWay
  <2>6. not_empty # {} => Reserve("get") + 1 <= Reserve("get")'
    <3>1. ~Serving("get")
      BY <1>1, <2>2 DEF Serving, HoldersOwn, Holding
    <3> QED
      BY <2>1, <2>2, <2>4, <3>1, SignalBringsOne DEF ListOf
  <2> QED
    BY <1>1, <2>1, <2>2, <2>5, <2>6 DEF WakeupInv
<1>4. ASSUME CountFetched(t) PROVE WakeupInv'
  <2>1. PICK W \in Wakes(not_full) :
          /\ not_full' = not_full \ W
          /\ pc' = [u \in Threads |-> IF u = t THEN "unlock"
                                      ELSE IF u \in W THEN "woken" ELSE pc[u]]
    BY <1>4 DEF CountFetched
  <2>2. /\ pc[t] = "count" /\ op[t] = "get" /\ count' = count - 1
        /\ UNCHANGED <<wasted, not_empty, timeout, op>>
    BY <1>4 DEF CountFetched
  <2>3. W \subseteq not_full
    BY <2>1, WakesIs
  <2>4. \A u \in Threads :
          /\ u \in W => pc'[u] = "woken" /\ pc[u] = "waiting"
          /\ u \notin W /\ pc[u] \in {"woken", "relock"} => pc'[u] = pc[u]
    BY <2>1, <2>2, <2>3 DEF WaitersListed
  <2>5. Reserve("get") - 1 <= Reserve("get")'
    <3>1. OnTheWay("get") \subseteq OnTheWay("get")'
      BY <2>2, <2>4 DEF OnTheWay
    <3> QED
      BY <3>1, MoreOnTheWay
  <2>6. not_full # {} => Reserve("put") + 1 <= Reserve("put")'
    <3>1. ~Serving("put")
      BY <1>1, <2>2 DEF Serving, HoldersOwn, Holding
    <3> QED
      BY <2>1, <2>2, <2>4, <3>1, SignalBringsOne DEF ListOf
  <2> QED
    BY <1>1, <2>1, <2>2, <2>5, <2>6 DEF WakeupInv
<1> QED
  BY <1>2, <1>3, <1>4

(* Neither does a put from an interrupt handler.                           *)
LEMMA TryPutIsrKeepsWakeupInv ==
  ASSUME QueueInv, WakeupInv, NEW e \in Elements, KqueueTryPutIsr(e)
  PROVE  WakeupInv'
<1> USE DEF QueueInv
<1>1. /\ Size \in Nat \ {0} /\ count \in 0 .. Size /\ None \notin Threads
      /\ Reserve("get") \in Nat /\ Reserve("get")' \in Nat
      /\ Reserve("put") \in Nat /\ Reserve("put")' \in Nat
  BY KQueueAssumption, ReserveType DEF TypeOK
<1>2. PICK W \in Wakes(not_empty) :
        /\ not_empty' = not_empty \ W
        /\ pc' = [u \in Threads |-> IF u \in W THEN "woken" ELSE pc[u]]
  BY DEF KqueueTryPutIsr
<1>3. /\ owner = None /\ count' = count + 1
      /\ UNCHANGED <<wasted, not_full, timeout, op>>
  BY DEF KqueueTryPutIsr, MayPutIsr, call
<1>4. \A o : ~Serving(o)
  BY <1>1, <1>3 DEF Serving, HoldersOwn, Holding
<1>5. W \subseteq not_empty
  BY <1>2, WakesIs
<1>6. \A u \in Threads :
        /\ u \in W => pc'[u] = "woken" /\ pc[u] = "waiting"
        /\ u \notin W /\ pc[u] \in {"woken", "relock"} => pc'[u] = pc[u]
  BY <1>2, <1>5 DEF WaitersListed
<1>7. Reserve("put") <= Reserve("put")'
  <2>1. OnTheWay("put") \subseteq OnTheWay("put")'
    BY <1>3, <1>6 DEF OnTheWay
  <2> QED
    BY <1>4, <2>1, MoreOnTheWay
<1>8. not_empty # {} => Reserve("get") + 1 <= Reserve("get")'
  BY <1>2, <1>3, <1>4, <1>6, SignalBringsOne DEF ListOf
<1> QED
  BY <1>1, <1>2, <1>3, <1>7, <1>8 DEF WakeupInv

(***************************************************************************)
(* The signals of kqueue.c suffice: no thread waits for an element or a    *)
(* slot that is there and that nobody else is on the way to take, as long  *)
(* as no timer expires between the signal and the thread it woke.          *)
(***************************************************************************)
THEOREM NoWakeupIsLost == Spec => []NoLostWakeup
<1>1. Init => WakeupInv
  BY DEF Init, WakeupInv
<1>2. QueueInv /\ WakeupInv /\ [Next]_vars => WakeupInv'
  <2> SUFFICES ASSUME QueueInv, WakeupInv, [Next]_vars PROVE WakeupInv'
    OBVIOUS
  <2>1. ASSUME NEW t \in Threads,
               \/ KqueueGet(t) \/ KqueueTryGet(t)
               \/ \E e \in Elements : KqueuePut(t, e) \/ KqueueTryPut(t, e)
        PROVE  WakeupInv'
    <3>1. \E o \in {"put", "get"} : \E e \in Elements \cup {None} :
            Start(t, o, e)
      BY <2>1 DEF KqueueGet, KqueueTryGet, KqueuePut, KqueueTryPut
    <3> QED
      BY <3>1, CallStepsKeepWakeupInv
  <2>2. ASSUME NEW t \in Threads,
               \/ WaitNotFull(t) \/ WaitNotEmpty(t) \/ Return(t)
               \/ Resume(t) \/ Relock(t) \/ Expire(t)
        PROVE  WakeupInv'
    BY <2>2, CallStepsKeepWakeupInv
  <2>3. ASSUME NEW t \in Threads,
               Store(t) \/ Fetch(t) \/ CountStored(t) \/ CountFetched(t)
        PROVE  WakeupInv'
    BY <2>3, RingStepsKeepWakeupInv
  <2>4. ASSUME NEW e \in Elements, KqueueTryPutIsr(e) PROVE WakeupInv'
    BY <2>4, TryPutIsrKeepsWakeupInv
  <2>5. ASSUME UNCHANGED vars PROVE WakeupInv'
    BY <2>5
       DEF vars, ring, call, WakeupInv, Reserve, Serving, OnTheWay
  <2> QED
    BY <2>1, <2>2, <2>3, <2>4, <2>5 DEF Next
<1>3. QueueInv /\ WakeupInv => NoLostWakeup
  <2> SUFFICES ASSUME QueueInv, WakeupInv, owner = None, ~wasted
               PROVE  /\ not_empty # {} => count <= Cardinality(OnTheWay("get"))
                      /\ not_full # {} =>
                           Size - count <= Cardinality(OnTheWay("put"))
    BY DEF NoLostWakeup
  <2>1. ASSUME NEW o PROVE Reserve(o) = Cardinality(OnTheWay(o))
    <3>1. ~Serving(o)
      BY KQueueAssumption DEF QueueInv, HoldersOwn, Holding, Serving
    <3> QED
      BY <3>1, ReserveType DEF Reserve
  <2> QED
    BY <2>1 DEF WakeupInv
<1> QED
  BY <1>1, <1>2, <1>3, QueueInvHolds, PTL DEF Spec
=============================================================================

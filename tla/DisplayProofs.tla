---------------------------- MODULE DisplayProofs ----------------------------
(***************************************************************************)
(* Theorems about the display, for every number of framebuffers and every  *)
(* set of configurations.                                                  *)
(***************************************************************************)
EXTENDS DisplayProperties, TLAPS, SequenceTheorems, FiniteSetTheorems,
        WellFoundedInduction

\* The queue holds every buffer that is drawn to or ready once, and the
\* picture is another buffer.
BuffersInOnePlace ==
    /\ drawing \in SUBSET Buffers /\ ready \in SUBSET Buffers
    /\ drawing \cap ready = {}
    /\ queue \in Seq(Buffers)
    /\ \A i \in 1 .. Len(queue) : queue[i] \in drawing \cup ready
    /\ \A b \in drawing \cup ready : \E i \in 1 .. Len(queue) : queue[i] = b
    /\ \A i, j \in 1 .. Len(queue) : queue[i] = queue[j] => i = j
    /\ now_showing \in Buffers \cup {-1}
    /\ now_showing \notin drawing \cup ready

Types ==
    /\ num_buffers \in Counts \cup {0, Alloc}
    /\ frames_left \in -1 .. Len(queue)
    /\ config \in Configs /\ surfaces \in [Buffers -> Configs]
    /\ regs \in [origin : Buffers \cup {None}, size : Configs, mode : Configs]
    /\ screen \in [origin : Buffers \cup {None}, blank : BOOLEAN]
    /\ blank_mode \in BOOLEAN /\ held \in BOOLEAN /\ stalled \in BOOLEAN
    /\ hasty \in BOOLEAN /\ open \in BOOLEAN /\ installed \in BOOLEAN
    /\ pc \in {"idle", "try", "kirq", "asleep", "woken", "blank", "free"}
    /\ call \in {"none", "get", "close"} /\ moved \in {"no", "other", "vblank"}

\* Between display_init and display_close the handler is installed, and the
\* registers show what now_showing says; from vi_show(NULL) on they are blank.
Phases ==
    /\ call = "none" <=> pc = "idle"
    /\ pc = "try" => call = "get"
    /\ pc \in {"blank", "free"} => call = "close"
    /\ call # "none" => open
    /\ installed <=> open /\ call # "close"
    /\ installed => /\ num_buffers # 0 /\ now_showing # -1
                    /\ regs.origin = now_showing /\ ~ blank_mode
    /\ ~ installed => now_showing = -1 /\ drawing = {} /\ queue = <<>>
    /\ ~ open \/ (call = "close" /\ pc # "blank") => blank_mode

\* There is a picture: the hardware scans memory.
Visible == ~ screen.blank /\ screen.origin # None

\* What the hardware scans is what now_showing says, and when display_close
\* has waited it scans nothing.
ScansTheShown ==
    /\ installed /\ Visible /\ ~ stalled /\ ~ hasty => screen.origin = now_showing
    /\ (~ open \/ pc = "free") /\ Visible => hasty
    /\ call = "close" /\ (pc = "woken" \/ (pc = "kirq" /\ moved = "vblank")) =>
           ~ Visible

DisplayInv == BuffersInOnePlace /\ Types /\ Phases /\ ScansTheShown

\* The frames of the old configuration are those that frames_left counts.
ConfigsInOrder ==
    installed =>
      /\ regs.size = surfaces[now_showing]
      /\ regs.size = regs.mode
      /\ frames_left = -1 => regs.mode = config
      /\ \A i \in 1 .. Len(queue) :
             surfaces[queue[i]] = IF i <= frames_left THEN regs.mode ELSE config
-----------------------------------------------------------------------------
\* Every non-empty set of naturals has a least element.
LEMMA LeastNat ==
  ASSUME NEW S \in SUBSET Nat, S # {}
  PROVE  Min(S) \in S
<1>1. PICK x \in S : \A y \in S : ~(<<y, x>> \in OpToRel(<, Nat))
  BY WFMin, NatLessThanWellFounded
<1>2. \A y \in Nat : y < x => <<y, x>> \in OpToRel(<, Nat)
  BY Zenon DEF OpToRel
<1>3. \A y \in S : ~(y < x)
  BY <1>1, <1>2, Zenon
<1>4. \A y \in S : x <= y
  BY <1>3
<1> QED
  BY <1>4 DEF Min

\* A number that runs at most one round ahead wraps once.
LEMMA ModWraps ==
  ASSUME NEW n \in Nat \ {0}, NEW a \in 0 .. (2 * n - 1)
  PROVE  a % n = IF a < n THEN a ELSE a - n
OBVIOUS

\* display_try_get takes a buffer of the ring that nobody draws to, that is not
\* ready and that is not shown.
LEMMA TakenIsFree ==
  ASSUME BuffersInOnePlace, Types, num_buffers # 0, FreeBuffers # {}
  PROVE  /\ Ring[Min(FreeBuffers)] \in Buffers \ (drawing \cup ready)
         /\ Ring[Min(FreeBuffers)] # now_showing
<1> DEFINE n == num_buffers
           start == IF now_showing \in 0 .. (n - 1) THEN now_showing ELSE n - 1
           k == Min(FreeBuffers)
<1>1. Alloc \in Nat /\ n \in 2 .. Alloc /\ start \in 0 .. (n - 1)
  BY DisplayAssumption DEF Types
<1>2. Ring = [j \in 1 .. (n - 1) |-> (start + j) % n]
  BY DEF Ring
<1>3. FreeBuffers \in SUBSET (1 .. (n - 1))
  BY <1>2 DEF FreeBuffers
<1>4. k \in FreeBuffers
  <2>1. FreeBuffers \in SUBSET Nat
    BY <1>1, <1>3
  <2> QED
    BY <2>1, LeastNat
<1> HIDE DEF k
<1>5. k \in 1 .. (n - 1) /\ Ring[k] \notin drawing \cup ready
  BY <1>3, <1>4 DEF FreeBuffers
<1> HIDE DEF start, n
<1>6. Ring[k] = (start + k) % n
  BY <1>2, <1>5
<1>7. start + k \in 0 .. (2 * n - 1) /\ n \in Nat \ {0}
  BY <1>1, <1>5
<1>8. Ring[k] = IF start + k < n THEN start + k ELSE (start + k) - n
  BY <1>6, <1>7, ModWraps
<1>9. Ring[k] \in 0 .. (n - 1) /\ Ring[k] # start
  BY <1>1, <1>5, <1>8
<1>10. Ring[k] \in Buffers
  BY <1>1, <1>9 DEF Buffers
<1>11. Ring[k] # now_showing
  BY <1>9 DEF start
<1> QED
  BY <1>5, <1>10, <1>11 DEF k

-----------------------------------------------------------------------------
\* Where the buffers are: taking one, finishing one, showing one.
LEMMA TakeKeepsPlaces ==
  ASSUME BuffersInOnePlace, Types, num_buffers # 0, FreeBuffers # {}, TakeBuffer
  PROVE  /\ BuffersInOnePlace'
         /\ Len(queue') = Len(queue) + 1
         /\ \A i \in 1 .. Len(queue) : queue'[i] = queue[i]
         /\ queue'[Len(queue) + 1] \in drawing' \ (drawing \cup ready)
         /\ queue'[Len(queue) + 1] # now_showing
         /\ surfaces' = [surfaces EXCEPT ![queue'[Len(queue) + 1]] = config]
<1> DEFINE b == Ring[Min(FreeBuffers)]
           n == Len(queue)
<1> USE DEF BuffersInOnePlace
<1>1. /\ b \in Buffers \ (drawing \cup ready) /\ b # now_showing
      /\ queue \in Seq(Buffers) /\ n \in Nat
  BY TakenIsFree
<1>2. /\ drawing' = drawing \cup {b} /\ queue' = Append(queue, b)
      /\ surfaces' = [surfaces EXCEPT ![b] = config]
      /\ UNCHANGED <<ready, now_showing>>
  BY DEF TakeBuffer
<1> HIDE DEF b
<1>3. /\ queue' \in Seq(Buffers) /\ Len(queue') = n + 1
      /\ \A i \in 1 .. n : queue'[i] = queue[i]
      /\ queue'[n + 1] = b
  BY <1>1, <1>2, AppendProperties
<1>4. \A i \in 1 .. Len(queue') : i \in 1 .. n \/ i = n + 1
  BY <1>1, <1>3
<1>5. \A i \in 1 .. n : i \in 1 .. Len(queue')
  BY <1>1, <1>3
<1>6. \A i \in 1 .. Len(queue') : queue'[i] \in drawing' \cup ready'
  BY <1>2, <1>3, <1>4
<1>7. ASSUME NEW c \in drawing' \cup ready'
      PROVE  \E i \in 1 .. Len(queue') : queue'[i] = c
  <2>1. CASE c = b
    <3>1. n + 1 \in 1 .. Len(queue')
      BY <1>1, <1>3
    <3> QED
      BY <1>3, <2>1, <3>1
  <2>2. CASE c # b
    <3>1. PICK i \in 1 .. n : queue[i] = c
      BY <1>2, <2>2
    <3> QED
      BY <1>3, <1>5, <3>1
  <2> QED
    BY <2>1, <2>2
<1>8. ASSUME NEW i \in 1 .. Len(queue'), NEW j \in 1 .. Len(queue'),
             queue'[i] = queue'[j]
      PROVE  i = j
  <2>1. \A k \in 1 .. n : queue'[k] # b
    BY <1>1, <1>3
  <2> QED
    BY <1>3, <1>4, <1>8, <2>1
<1> QED
  BY <1>1, <1>2, <1>3, <1>6, <1>7, <1>8

\* Finishing a buffer leaves it in the queue.
LEMMA ShowKeepsPlaces ==
  ASSUME BuffersInOnePlace, NEW b \in Buffers, DisplayShow(b)
  PROVE  BuffersInOnePlace'
BY DEF BuffersInOnePlace, DisplayShow

\* The flip of __display_callback.
Flip ==
    /\ queue # <<>> /\ Head(queue) \in ready
    /\ now_showing' = Head(queue)
    /\ ready' = ready \ {Head(queue)}
    /\ queue' = Tail(queue)
    /\ UNCHANGED drawing

\* A flip takes the oldest buffer out of the queue and makes it the picture.
LEMMA FlipKeepsPlaces ==
  ASSUME BuffersInOnePlace, Flip
  PROVE  /\ BuffersInOnePlace'
         /\ now_showing' = queue[1] /\ now_showing' \in Buffers
         /\ Len(queue) \in Nat \ {0} /\ Len(queue') = Len(queue) - 1
         /\ \A i \in 1 .. Len(queue') : queue'[i] = queue[i + 1]
<1> DEFINE n == Len(queue)
<1> USE DEF BuffersInOnePlace
<1>1. /\ queue \in Seq(Buffers) /\ n \in Nat \ {0} /\ Head(queue) = queue[1]
  BY EmptySeq DEF Flip
<1>2. /\ queue' \in Seq(Buffers) /\ Len(queue') = n - 1
      /\ \A i \in 1 .. (n - 1) : queue'[i] = queue[i + 1]
  BY <1>1, HeadTailProperties DEF Flip
<1>3. /\ now_showing' = queue[1] /\ ready' = ready \ {queue[1]}
      /\ UNCHANGED drawing /\ queue[1] \in ready
  BY <1>1 DEF Flip
<1>4. /\ 1 \in 1 .. n
      /\ \A i \in 1 .. (n - 1) : i + 1 \in 1 .. n /\ i + 1 # 1
      /\ \A i \in 1 .. n : i # 1 => i - 1 \in 1 .. (n - 1) /\ (i - 1) + 1 = i
  BY <1>1
<1>5. \A i \in 1 .. Len(queue') : queue'[i] \in drawing' \cup ready'
  <2> SUFFICES ASSUME NEW i \in 1 .. (n - 1)
               PROVE  queue[i + 1] \in drawing' \cup ready'
    BY <1>2
  <2>1. queue[i + 1] \in drawing \cup ready /\ queue[i + 1] # queue[1]
    BY <1>4
  <2> QED
    BY <1>3, <2>1
<1>6. ASSUME NEW c \in drawing' \cup ready'
      PROVE  \E i \in 1 .. Len(queue') : queue'[i] = c
  <2>1. PICK i \in 1 .. n : queue[i] = c
    BY <1>3
  <2>2. i # 1
    BY <1>3, <2>1
  <2>3. i - 1 \in 1 .. Len(queue') /\ queue'[i - 1] = c
    BY <1>2, <1>4, <2>1, <2>2
  <2> QED
    BY <2>3
<1>7. ASSUME NEW i \in 1 .. Len(queue'), NEW j \in 1 .. Len(queue'),
             queue'[i] = queue'[j]
      PROVE  i = j
  <2>1. i + 1 = j + 1
    BY <1>2, <1>4, <1>7
  <2> QED
    BY <1>1, <1>2, <2>1
<1> QED
  BY <1>1, <1>2, <1>3, <1>5, <1>6, <1>7

-----------------------------------------------------------------------------
\* The state that display_init finds and display_close leaves: an empty queue.
LEMMA EmptyIsInPlace ==
  ASSUME NEW q, q = <<>>
  PROVE  q \in Seq(Buffers) /\ Len(q) = 0 /\ \A i \in 1 .. Len(q) : FALSE
BY EmptySeq

\* The steps of the thread that touch no buffer.
LEMMA WaitsKeepDisplayInv ==
  ASSUME DisplayInv,
         \/ DisplayGet \/ CloseBlanks \/ CloseFrees \/ KirqWait \/ KirqWoken
         \/ OtherInterrupt \/ ViWriteBegin \/ ViWriteEnd
  PROVE  DisplayInv'
<1> USE DEF masks, setup, vi, thread
<1>1. UNCHANGED <<drawing, ready, queue, now_showing, surfaces, config,
                  frames_left>>
  BY DEF DisplayGet, CloseBlanks, CloseFrees, KirqWait, KirqWoken,
         OtherInterrupt, ViWriteBegin, ViWriteEnd
<1>2. BuffersInOnePlace'
  BY <1>1 DEF DisplayInv, BuffersInOnePlace
<1> USE DEF DisplayInv, Types, Phases, ScansTheShown, Visible
<1>3. ASSUME DisplayGet PROVE (Types /\ Phases /\ ScansTheShown)'
  BY <1>3 DEF DisplayGet
<1>4. ASSUME CloseBlanks PROVE (Types /\ Phases /\ ScansTheShown)'
  BY <1>4 DEF CloseBlanks
<1>5. ASSUME CloseFrees PROVE (Types /\ Phases /\ ScansTheShown)'
  BY <1>5 DEF CloseFrees
<1>6. ASSUME KirqWait PROVE (Types /\ Phases /\ ScansTheShown)'
  BY <1>6 DEF KirqWait, Waited
<1>7. ASSUME KirqWoken PROVE (Types /\ Phases /\ ScansTheShown)'
  BY <1>7 DEF KirqWoken, Waited
<1>8. ASSUME OtherInterrupt PROVE (Types /\ Phases /\ ScansTheShown)'
  BY <1>8 DEF OtherInterrupt
<1>9. ASSUME ViWriteBegin \/ ViWriteEnd
      PROVE (Types /\ Phases /\ ScansTheShown)'
  <2>1. /\ held' \in BOOLEAN
        /\ UNCHANGED <<num_buffers, frames_left, config, surfaces, regs, screen,
                       blank_mode, stalled, hasty, open, installed, pc, call,
                       moved, queue, drawing, now_showing>>
    BY <1>9 DEF ViWriteBegin, ViWriteEnd
  <2>2. Types'
    BY <2>1
  <2>3. Phases' /\ ScansTheShown'
    BY <2>1
  <2> QED
    BY <2>2, <2>3
<1> QED
  BY <1>2, <1>3, <1>4, <1>5, <1>6, <1>7, <1>8, <1>9

\* display_init, display_change and display_close.
LEMMA SetupKeepsDisplayInv ==
  ASSUME DisplayInv,
         \/ \E c \in Configs :
              DisplayInit(c) \/ \E n \in Counts : DisplayChange(c, n)
         \/ DisplayClose
  PROVE  DisplayInv'
<1> USE DEF masks, setup, vi, thread, DisplayInv
<1>1. ASSUME NEW c \in Configs, DisplayInit(c) PROVE DisplayInv'
  <2>1. /\ 0 \in Buffers /\ Alloc # 0
        /\ pc = "idle" /\ ~ open /\ call = "none" /\ ~ installed
        /\ drawing = {} /\ queue = <<>> /\ ready = {}
    <3>1. pc = "idle" /\ ~ open /\ call = "none" /\ ~ installed
      BY <1>1 DEF DisplayInit, Phases
    <3>2. drawing = {} /\ queue = <<>>
      BY <3>1 DEF Phases
    <3>3. ready = {}
      BY <3>2, EmptyIsInPlace DEF BuffersInOnePlace
    <3> QED
      BY <3>1, <3>2, <3>3, DisplayAssumption DEF Buffers
  <2>2. /\ UNCHANGED <<drawing, ready, queue, held, screen, stalled, pc, call,
                       moved, hasty>>
        /\ num_buffers' = Alloc /\ config' = c /\ frames_left' = -1
        /\ surfaces' = [b \in Buffers |-> c] /\ now_showing' = 0
        /\ regs' = [origin |-> 0, size |-> c, mode |-> c]
        /\ blank_mode' = FALSE /\ open' = TRUE /\ installed' = TRUE
    BY <1>1 DEF DisplayInit
  <2>3. BuffersInOnePlace'
    BY <2>1, <2>2 DEF BuffersInOnePlace
  <2>4. Types'
    <3>1. frames_left' \in -1 .. Len(queue')
      BY <2>1, <2>2, EmptyIsInPlace
    <3>2. /\ surfaces' \in [Buffers -> Configs]
          /\ regs' \in [origin : Buffers \cup {None}, size : Configs,
                        mode : Configs]
      BY <2>1, <2>2
    <3> QED
      BY <2>1, <2>2, <3>1, <3>2 DEF Types
  <2>5. Phases'
    BY <2>1, <2>2 DEF Phases
  <2>6. ScansTheShown'
    BY <2>1, <2>2 DEF ScansTheShown, Visible
  <2> QED
    BY <2>3, <2>4, <2>5, <2>6
<1>2. ASSUME NEW c \in Configs, NEW n \in Counts, DisplayChange(c, n)
      PROVE  DisplayInv'
  <2>1. /\ UNCHANGED <<drawing, ready, queue, now_showing, surfaces, open,
                       installed, regs, blank_mode, held, screen, stalled, pc,
                       call, moved, hasty>>
        /\ num_buffers' = n /\ config' = c /\ frames_left' = Len(queue)
    BY <1>2 DEF DisplayChange
  <2>2. n # 0 /\ Len(queue) \in Nat
    BY DisplayAssumption DEF BuffersInOnePlace
  <2>3. BuffersInOnePlace' /\ Phases' /\ ScansTheShown'
    BY <2>1, <2>2 DEF BuffersInOnePlace, Phases, ScansTheShown, Visible
  <2>4. Types'
    BY <2>1, <2>2 DEF Types
  <2> QED
    BY <2>3, <2>4
<1>3. ASSUME DisplayClose PROVE DisplayInv'
  <2>1. /\ UNCHANGED <<num_buffers, config, surfaces, open, regs, blank_mode,
                       held, screen, stalled, moved, hasty>>
        /\ pc = "idle" /\ open
        /\ installed' = FALSE /\ now_showing' = -1
        /\ drawing' = {} /\ ready' = {} /\ queue' = <<>> /\ frames_left' = -1
        /\ pc' = "blank" /\ call' = "close"
    BY <1>3 DEF DisplayClose
  <2>2. queue' \in Seq(Buffers) /\ Len(queue') = 0
    BY <2>1, EmptyIsInPlace
  <2>3. BuffersInOnePlace'
    BY <2>1, <2>2 DEF BuffersInOnePlace
  <2>4. Types'
    <3>1. frames_left' \in -1 .. Len(queue')
      BY <2>1, <2>2
    <3> QED
      BY ZenonT(40), <2>1, <3>1 DEF Types
  <2>5. Phases' /\ ScansTheShown'
    BY <2>1 DEF Phases, ScansTheShown, Visible
  <2> QED
    BY <2>3, <2>4, <2>5
<1> QED
  BY <1>1, <1>2, <1>3

\* display_try_get, display_get and display_show.
LEMMA DrawingKeepsDisplayInv ==
  ASSUME DisplayInv,
         \/ DisplayTryGet \/ GetTries \/ \E b \in Buffers : DisplayShow(b)
  PROVE  DisplayInv'
<1> USE DEF masks, setup, vi, thread, DisplayInv
<1>1. Len(queue) \in Nat
  BY DEF BuffersInOnePlace
<1>2. ASSUME FreeBuffers # {}, TakeBuffer, num_buffers # 0, installed,
             UNCHANGED <<moved, hasty>>,
             \/ UNCHANGED <<pc, call>>
             \/ pc = "try" /\ pc' = "idle" /\ call' = "none"
      PROVE  DisplayInv'
  <2>1. /\ BuffersInOnePlace'
        /\ Len(queue') = Len(queue) + 1
        /\ queue'[Len(queue) + 1] \in drawing' \ (drawing \cup ready)
        /\ surfaces' = [surfaces EXCEPT ![queue'[Len(queue) + 1]] = config]
    BY <1>2, TakeKeepsPlaces
  <2>2. UNCHANGED <<now_showing, num_buffers, config, frames_left, open,
                    installed, regs, blank_mode, held, screen, stalled>>
    BY <1>2 DEF TakeBuffer
  <2>3. Types'
    <3>1. frames_left' \in -1 .. Len(queue')
      BY <1>1, <2>1, <2>2 DEF Types
    <3>2. surfaces' \in [Buffers -> Configs]
      BY <2>1 DEF Types
    <3> QED
      BY <1>2, <2>2, <3>1, <3>2 DEF Types
  <2>4. Phases'
    BY <1>2, <2>2 DEF Phases
  <2>5. ScansTheShown'
    BY <1>2, <2>2 DEF Phases, ScansTheShown, Visible
  <2> QED
    BY <2>1, <2>3, <2>4, <2>5
<1>3. ASSUME DisplayTryGet PROVE DisplayInv'
  <2>1. num_buffers # 0 /\ installed
    BY <1>3 DEF DisplayTryGet, Phases
  <2> QED
    BY <1>2, <1>3, <2>1 DEF DisplayTryGet
<1>4. ASSUME GetTries PROVE DisplayInv'
  <2>1. pc = "try" /\ num_buffers # 0 /\ installed /\ UNCHANGED <<moved, hasty>>
    BY <1>4 DEF GetTries, Phases
  <2>2. CASE FreeBuffers # {}
    BY <1>2, <1>4, <2>1, <2>2 DEF GetTries
  <2>3. CASE FreeBuffers = {}
    <3>1. /\ UNCHANGED <<drawing, ready, queue, now_showing, num_buffers, config,
                         frames_left, surfaces, open, installed, regs,
                         blank_mode, held, screen, stalled, call>>
          /\ pc' = "kirq"
      BY <1>4, <2>3 DEF GetTries
    <3>2. BuffersInOnePlace' /\ Types'
      BY <2>1, <3>1 DEF BuffersInOnePlace, Types
    <3>3. Phases' /\ ScansTheShown'
      BY <2>1, <3>1 DEF Phases, ScansTheShown, Visible
    <3> QED
      BY <3>2, <3>3
  <2> QED
    BY <2>2, <2>3
<1>5. ASSUME NEW b \in Buffers, DisplayShow(b) PROVE DisplayInv'
  <2>1. /\ UNCHANGED <<queue, now_showing, num_buffers, config, frames_left,
                       surfaces, open, installed, regs, blank_mode, held,
                       screen, stalled, pc, call, moved, hasty>>
        /\ b \in drawing
        /\ drawing' = drawing \ {b} /\ ready' = ready \cup {b}
    BY <1>5 DEF DisplayShow
  <2>2. BuffersInOnePlace'
    BY <1>5, ShowKeepsPlaces
  <2>3. Types'
    BY <2>1 DEF Types
  <2>4. Phases' /\ ScansTheShown'
    BY <2>1 DEF Phases, ScansTheShown, Visible
  <2> QED
    BY <2>2, <2>3, <2>4
<1> QED
  BY <1>3, <1>4, <1>5

\* The interrupt: what the callback does to the lists, and the rest of it.
LEMMA VblankSteps ==
  ASSUME DisplayInv, NEW turn \in BOOLEAN, Vblank(turn)
  PROVE  \/ /\ ~ installed
            /\ UNCHANGED <<drawing, ready, queue, now_showing, frames_left, regs,
                           blank_mode>>
         \/ /\ installed /\ ~ blank_mode'
            /\ UNCHANGED <<drawing, ready, queue, now_showing, frames_left>>
            /\ regs' = [origin |-> now_showing, size |-> surfaces[now_showing],
                        mode |-> regs.mode]
         \/ /\ installed /\ ~ blank_mode'
            /\ Flip
            /\ frames_left' = IF frames_left >= 0 THEN frames_left - 1 ELSE -1
            /\ regs' = [origin |-> now_showing', size |-> surfaces[now_showing'],
                        mode |-> IF frames_left = 0 THEN config ELSE regs.mode]
<1>1. CASE ~ installed
  BY <1>1 DEF Vblank
<1>2. CASE installed /\ turn /\ queue # <<>> /\ Head(queue) \in ready
  BY <1>2 DEF Vblank, Callback, Flip
<1>3. CASE installed /\ ~ (turn /\ queue # <<>> /\ Head(queue) \in ready)
  BY <1>3 DEF Vblank, Callback
<1> QED
  BY <1>1, <1>2, <1>3

\* The vertical blank keeps the invariant, with the callback or without it.
LEMMA VblankKeepsDisplayInv ==
  ASSUME DisplayInv, NEW turn \in BOOLEAN, Vblank(turn)
  PROVE  DisplayInv'
<1> USE DEF DisplayInv
<1>1. /\ UNCHANGED <<drawing, num_buffers, config, surfaces, open, installed,
                     held, call>>
      /\ screen' = [origin |-> IF held THEN screen.origin ELSE regs'.origin,
                    blank |-> blank_mode' \/ (held /\ screen.blank)]
      /\ stalled' = held
      /\ pc' = IF pc = "asleep" THEN "woken" ELSE pc
      /\ moved' = IF pc = "idle" THEN moved ELSE "vblank"
      /\ hasty' = (hasty /\ held)
  BY DEF Vblank, WriteRegisters
<1>2. now_showing \in Buffers \cup {-1} /\ Len(queue) \in Nat
  BY DEF BuffersInOnePlace
<1>3. CASE ~ installed
  <2>1. UNCHANGED <<drawing, ready, queue, now_showing, frames_left, regs,
                    blank_mode>>
    BY <1>3, VblankSteps
  <2>2. BuffersInOnePlace'
    BY <2>1 DEF BuffersInOnePlace
  <2>3. Types'
    BY <1>1, <2>1 DEF Types
  <2>4. Phases'
    BY <1>1, <1>3, <2>1 DEF Phases
  <2>5. ScansTheShown'
    BY <1>1, <1>3, <2>1 DEF Phases, Types, ScansTheShown, Visible
  <2> QED
    BY <2>2, <2>3, <2>4, <2>5
<1>4. CASE installed
  <2>1. /\ BuffersInOnePlace' /\ now_showing' \in Buffers
        /\ frames_left' \in -1 .. Len(queue')
        /\ queue' = <<>> \/ queue # <<>>
    <3>1. now_showing \in Buffers
      BY <1>2, <1>4 DEF Phases
    <3>2. CASE UNCHANGED <<drawing, ready, queue, now_showing, frames_left>>
      BY <3>1, <3>2 DEF BuffersInOnePlace, Types
    <3>3. CASE Flip /\ frames_left' = IF frames_left >= 0 THEN frames_left - 1
                                      ELSE -1
      BY <1>2, <3>3, FlipKeepsPlaces DEF Types, Flip
    <3> QED
      BY <1>4, <3>2, <3>3, VblankSteps
  <2>2. /\ ~ blank_mode' /\ regs'.origin = now_showing'
        /\ regs' \in [origin : Buffers \cup {None}, size : Configs, mode : Configs]
    <3>1. /\ ~ blank_mode'
          /\ \E m \in Configs : regs' = [origin |-> now_showing',
                                         size |-> surfaces[now_showing'],
                                         mode |-> m]
      BY <1>4, VblankSteps DEF Types
    <3> QED
      BY <2>1, <3>1 DEF Types
  <2>3. blank_mode' = FALSE
    BY <1>4 DEF Vblank, Callback
  <2>4. Types'
    <3>1. screen' \in [origin : Buffers \cup {None}, blank : BOOLEAN]
      BY <1>1, <2>2, <2>3 DEF Types
    <3> QED
      BY <1>1, <2>1, <2>2, <2>3, <3>1 DEF Types
  <2>5. /\ open /\ call # "close" /\ num_buffers # 0 /\ pc # "free"
        /\ now_showing' # -1
    BY <1>4, <2>1 DEF Phases, Buffers
  <2>6. Phases'
    BY <1>1, <1>4, <2>2, <2>5 DEF Phases
  <2>7. ScansTheShown'
    BY <1>1, <2>2, <2>3, <2>5 DEF Types, ScansTheShown, Visible
  <2> QED
    BY <2>1, <2>4, <2>6, <2>7
<1> QED
  BY <1>3, <1>4

\* The invariant holds before display_init.
LEMMA InitDisplayInv == Init => DisplayInv
<1> SUFFICES ASSUME Init PROVE DisplayInv
  OBVIOUS
<1>1. queue \in Seq(Buffers) /\ Len(queue) = 0
  BY EmptyIsInPlace DEF Init
<1>2. BuffersInOnePlace
  BY <1>1 DEF Init, BuffersInOnePlace
<1>3. Types
  <2>1. frames_left \in -1 .. Len(queue)
    BY <1>1 DEF Init
  <2>2. /\ regs \in [origin : Buffers \cup {None}, size : Configs, mode : Configs]
        /\ screen \in [origin : Buffers \cup {None}, blank : BOOLEAN]
        /\ surfaces \in [Buffers -> Configs]
    BY DEF Init
  <2> QED
    BY <2>1, <2>2 DEF Init, Types
<1>4. Phases /\ ScansTheShown
  BY DEF Init, Phases, ScansTheShown, Visible
<1> QED
  BY <1>2, <1>3, <1>4 DEF DisplayInv

\* No step breaks the invariant.
LEMMA NextKeepsDisplayInv ==
  ASSUME DisplayInv, [Next]_vars
  PROVE  DisplayInv'
<1>1. ASSUME UNCHANGED vars PROVE DisplayInv'
  BY <1>1
     DEF vars, masks, setup, vi, thread, DisplayInv, BuffersInOnePlace, Types,
         Phases, ScansTheShown, Visible
<1> QED
  BY <1>1, WaitsKeepDisplayInv, SetupKeepsDisplayInv, DrawingKeepsDisplayInv,
     VblankKeepsDisplayInv DEF Next

\* What is in the queue once each has the cardinality of its length.
LEMMA QueueCounts ==
  ASSUME BuffersInOnePlace
  PROVE  /\ {queue[i] : i \in 1 .. Len(queue)} = drawing \cup ready
         /\ Len(queue) = Cardinality(drawing \cup ready)
<1> DEFINE n == Len(queue)
           S == drawing \cup ready
           f == [i \in 1 .. n |-> queue[i]]
<1>1. n \in Nat
  BY DEF BuffersInOnePlace
<1>2. {queue[i] : i \in 1 .. n} = S
  BY DEF BuffersInOnePlace
<1>3. f \in Bijection(1 .. n, S)
  <2>1. f \in [1 .. n -> S]
    BY DEF BuffersInOnePlace
  <2>2. \A i, j \in 1 .. n : f[i] = f[j] => i = j
    BY DEF BuffersInOnePlace
  <2>3. \A s \in S : \E i \in 1 .. n : f[i] = s
    BY DEF BuffersInOnePlace
  <2> QED
    BY <2>1, <2>2, <2>3 DEF Bijection, Injection, Surjection, IsInjective
<1>4. ExistsBijection(1 .. n, S)
  BY <1>3 DEF ExistsBijection
<1>5. IsFiniteSet(1 .. n) /\ Cardinality(1 .. n) = n
  <2> HIDE DEF n, S, f
  <2>1. 1 \in Int /\ n \in Int
    BY <1>1
  <2>2. /\ IsFiniteSet(1 .. n)
        /\ Cardinality(1 .. n) = IF 1 > n THEN 0 ELSE n - 1 + 1
    BY <2>1, FS_Interval
  <2>3. (IF 1 > n THEN 0 ELSE n - 1 + 1) = n
    BY <1>1
  <2> QED
    BY <2>2, <2>3
<1>6. Cardinality(S) = n
  BY <1>4, <1>5, FS_Bijection
<1> QED
  BY <1>2, <1>6

\* In every reachable state the masks and the queue of display.c agree, and
\* the hardware scans the buffer that now_showing names or none.
THEOREM DisplayInvHolds == Spec => []DisplayInv
<1>1. DisplayInv /\ [Next]_vars => DisplayInv'
  BY NextKeepsDisplayInv
<1> QED
  BY InitDisplayInv, <1>1, PTL DEF Spec

\* The masks and the queue describe the same buffers, once each.
THEOREM DisplayTypesHold == Spec => []TypeOK
<1>1. DisplayInv => TypeOK
  BY QueueCounts DEF DisplayInv, TypeOK, BuffersInOnePlace, Types
<1> QED
  BY DisplayInvHolds, <1>1, PTL

\* A surface from display_get is not the one the hardware scans, and
\* display_close frees the memory behind the last scan of it.
THEOREM ScanIsStable == Spec => []ScannedIsStable
<1>1. DisplayInv => ScannedIsStable
  BY DEF DisplayInv, ScannedIsStable, ScansTheShown, Visible, Phases,
         BuffersInOnePlace, Types
<1> QED
  BY DisplayInvHolds, <1>1, PTL

-----------------------------------------------------------------------------
\* The frames and the picture that module Screen is about.
FramesOf(q, s, r) ==
    [i \in 1 .. Len(q) |-> [config |-> s[q[i]], ready |-> q[i] \in r]]

Frames == FramesOf(queue, surfaces, ready)

FrameSet == [config : Configs, ready : BOOLEAN]

\* There is a frame for every buffer in the queue.
LEMMA FramesIs ==
  ASSUME NEW q \in Seq(Buffers), NEW s \in [Buffers -> Configs], NEW r
  PROVE  /\ FramesOf(q, s, r) \in Seq(FrameSet)
         /\ Len(FramesOf(q, s, r)) = Len(q)
         /\ DOMAIN FramesOf(q, s, r) = 1 .. Len(q)
         /\ \A i \in 1 .. Len(q) :
              FramesOf(q, s, r)[i] = [config |-> s[q[i]], ready |-> q[i] \in r]
<1> DEFINE f == FramesOf(q, s, r)
<1>1. Len(q) \in Nat /\ \A i \in 1 .. Len(q) : q[i] \in Buffers
  BY ElementOfSeq, LenProperties
<1>2. \A i \in 1 .. Len(q) : f[i] = [config |-> s[q[i]], ready |-> q[i] \in r]
  BY DEF FramesOf
<1>3. f \in [1 .. Len(q) -> FrameSet]
  BY <1>1 DEF FrameSet, FramesOf
<1> HIDE DEF f
<1>4. f \in Seq(FrameSet)
  BY <1>1, <1>3, SeqDef
<1>5. DOMAIN f = 1 .. Len(q) /\ DOMAIN f = 1 .. Len(f) /\ Len(f) \in Nat
  BY <1>3, <1>4, LenProperties
<1>6. Len(f) = Len(q)
  BY <1>1, <1>5
<1> QED
  BY <1>2, <1>4, <1>5, <1>6 DEF f

\* What stays the same on the screen when the lists and registers do.
LEMMA SameFrames ==
  ASSUME UNCHANGED <<queue, ready, surfaces>> PROVE Frames' = Frames
BY DEF Frames

\* Getting a buffer appends a frame of the configuration of that moment.
LEMMA TakeIsGet ==
  ASSUME DisplayInv, installed, FreeBuffers # {}, TakeBuffer
  PROVE  /\ Frames' = Append(Frames, [config |-> config, ready |-> FALSE])
         /\ UNCHANGED <<Picture, config>>
<1> DEFINE n == Len(queue)
           e == [config |-> config, ready |-> FALSE]
<1> USE DEF DisplayInv
<1>1. /\ BuffersInOnePlace' /\ Len(queue') = n + 1 /\ n \in Nat
      /\ \A i \in 1 .. n : queue'[i] = queue[i]
      /\ queue'[n + 1] \in Buffers \ (drawing \cup ready)
      /\ surfaces' = [surfaces EXCEPT ![queue'[n + 1]] = config]
      /\ ready' = ready
  <2>1. num_buffers # 0
    BY DEF Phases
  <2>2. BuffersInOnePlace' /\ n \in Nat /\ ready' = ready
    BY <2>1, TakeKeepsPlaces DEF BuffersInOnePlace, TakeBuffer
  <2> QED
    BY <2>1, <2>2, TakeKeepsPlaces DEF BuffersInOnePlace
<1>2. /\ queue \in Seq(Buffers) /\ queue' \in Seq(Buffers)
      /\ surfaces \in [Buffers -> Configs] /\ surfaces' \in [Buffers -> Configs]
      /\ config \in Configs
  BY <1>1 DEF BuffersInOnePlace, Types
<1>3. /\ Frames \in Seq(FrameSet) /\ Len(Frames) = n
      /\ \A i \in 1 .. n : Frames[i] = [config |-> surfaces[queue[i]],
                                        ready |-> queue[i] \in ready]
  BY <1>2, FramesIs DEF Frames
<1>4. /\ Frames' \in Seq(FrameSet) /\ Len(Frames') = n + 1
      /\ \A i \in 1 .. (n + 1) : Frames'[i] = [config |-> surfaces'[queue'[i]],
                                               ready |-> queue'[i] \in ready']
  <2>1. Frames' = FramesOf(queue', surfaces', ready')
    BY DEF Frames
  <2>2. /\ FramesOf(queue', surfaces', ready') \in Seq(FrameSet)
        /\ Len(FramesOf(queue', surfaces', ready')) = Len(queue')
        /\ \A i \in 1 .. Len(queue') :
             FramesOf(queue', surfaces', ready')[i]
               = [config |-> surfaces'[queue'[i]], ready |-> queue'[i] \in ready']
    BY <1>2, FramesIs
  <2> HIDE DEF n
  <2> QED
    BY <1>1, <2>1, <2>2
<1>5. e \in FrameSet
  BY <1>2 DEF FrameSet
<1>6. /\ Append(Frames, e) \in Seq(FrameSet) /\ Len(Append(Frames, e)) = n + 1
      /\ \A i \in 1 .. n : Append(Frames, e)[i] = Frames[i]
      /\ Append(Frames, e)[n + 1] = e
  BY <1>3, <1>5, AppendProperties
<1>7. ASSUME NEW i \in 1 .. (n + 1) PROVE Frames'[i] = Append(Frames, e)[i]
  <2>1. CASE i \in 1 .. n
    <3>1. queue[i] \in Buffers /\ queue[i] # queue'[n + 1] /\ queue'[i] = queue[i]
      BY <1>1, <2>1 DEF BuffersInOnePlace
    <3>2. /\ Frames[i] = [config |-> surfaces[queue[i]],
                           ready |-> queue[i] \in ready]
          /\ Frames'[i] = [config |-> surfaces'[queue'[i]],
                            ready |-> queue'[i] \in ready']
      BY <1>1, <1>3, <1>4, <2>1
    <3>3. surfaces'[queue[i]] = surfaces[queue[i]]
      BY <1>1, <1>2, <3>1
    <3>4. Frames'[i] = Frames[i]
      BY <1>1, <3>1, <3>2, <3>3
    <3> QED
      BY <1>6, <2>1, <3>4
  <2>2. CASE i = n + 1
    <3>1. Frames'[i] = [config |-> surfaces'[queue'[n + 1]],
                        ready |-> queue'[n + 1] \in ready']
      BY <1>1, <1>4, <2>2
    <3>2. /\ surfaces'[queue'[n + 1]] = config
          /\ (queue'[n + 1] \in ready') = FALSE
      BY <1>1, <1>2
    <3>3. Frames'[i] = e
      BY <3>1, <3>2
    <3> QED
      BY <1>6, <2>2, <3>3
  <2>3. i \in 1 .. n \/ i = n + 1
    BY <1>1
  <2> QED
    BY <2>1, <2>2, <2>3
<1>8. Frames' = Append(Frames, e)
  BY <1>6, <1>7, <1>4, SeqEqual
<1>9. UNCHANGED <<now_showing, regs, config>>
  BY DEF TakeBuffer, setup, vi
<1> QED
  BY <1>8, <1>9 DEF Picture

\* A frame that is finished keeps its configuration.
LEMMA FinishedFrame ==
  ASSUME NEW f \in FrameSet
  PROVE  [f EXCEPT !.ready = TRUE] = [config |-> f.config, ready |-> TRUE]
<1> DEFINE g == [f EXCEPT !.ready = TRUE]
           h == [config |-> f.config, ready |-> TRUE]
<1>1. /\ g \in FrameSet /\ g.config = f.config /\ g.ready = TRUE
      /\ h \in FrameSet /\ h.config = f.config /\ h.ready = TRUE
  BY DEF FrameSet
<1> HIDE DEF g, h
<1>2. g = h
  BY <1>1 DEF FrameSet
<1> QED
  BY <1>2 DEF g, h

\* display_show finishes the frame of its buffer.
LEMMA ShowIsFinish ==
  ASSUME DisplayInv, NEW b \in Buffers, DisplayShow(b)
  PROVE  /\ \E i \in 1 .. Len(Frames) :
              /\ ~ Frames[i].ready
              /\ Frames' = [Frames EXCEPT ![i].ready = TRUE]
         /\ UNCHANGED <<Picture, config>>
<1> USE DEF DisplayInv
<1>1. /\ b \in drawing /\ ready' = ready \cup {b}
      /\ UNCHANGED <<queue, surfaces, now_showing, regs, config>>
  BY DEF DisplayShow, setup, vi
<1>2. PICK i \in 1 .. Len(queue) : queue[i] = b
  BY <1>1 DEF BuffersInOnePlace
<1>3. /\ queue \in Seq(Buffers) /\ surfaces \in [Buffers -> Configs]
      /\ queue' = queue /\ surfaces' = surfaces
  BY <1>1 DEF BuffersInOnePlace, Types
<1>4. /\ Len(Frames) = Len(queue) /\ DOMAIN Frames = 1 .. Len(queue)
      /\ DOMAIN Frames' = 1 .. Len(queue)
      /\ \A j \in 1 .. Len(queue) :
           /\ Frames[j] = [config |-> surfaces[queue[j]],
                           ready |-> queue[j] \in ready]
           /\ Frames'[j] = [config |-> surfaces[queue[j]],
                            ready |-> queue[j] \in ready']
  BY <1>3, FramesIs DEF Frames
<1>5. b \notin ready
  BY <1>1 DEF BuffersInOnePlace
<1>6. ~ Frames[i].ready
  <2>1. Frames[i].ready = (queue[i] \in ready)
    BY <1>4
  <2> QED
    BY <1>2, <1>5, <2>1
<1>7. ASSUME NEW j \in 1 .. Len(queue)
      PROVE  Frames'[j] = [Frames EXCEPT ![i].ready = TRUE][j]
  <2>1. CASE j = i
    <3>1. (queue[j] \in ready') = TRUE
      BY <1>1, <1>2, <2>1
    <3>2. Frames'[j] = [config |-> surfaces[queue[j]], ready |-> TRUE]
      BY <1>4, <3>1
    <3>3. [Frames[j] EXCEPT !.ready = TRUE]
            = [config |-> surfaces[queue[j]], ready |-> TRUE]
      <4>1. Frames[j] = [config |-> surfaces[queue[j]],
                         ready |-> queue[j] \in ready]
        BY <1>4
      <4>2. Frames[j] \in FrameSet /\ Frames[j].config = surfaces[queue[j]]
        <5>1. queue[j] \in Buffers
          BY <1>3, ElementOfSeq
        <5> QED
          BY <1>3, <4>1, <5>1 DEF FrameSet
      <4> QED
        BY <4>2, FinishedFrame
    <3>4. [Frames EXCEPT ![i].ready = TRUE][j] = [Frames[j] EXCEPT !.ready = TRUE]
      BY <1>4, <2>1
    <3> QED
      BY <3>2, <3>3, <3>4
  <2>2. CASE j # i
    <3>1. queue[j] # b
      BY <1>2, <2>2 DEF BuffersInOnePlace
    <3>2. (queue[j] \in ready') = (queue[j] \in ready)
      BY <1>1, <3>1
    <3>3. Frames'[j] = Frames[j]
      BY <1>4, <3>2
    <3> QED
      BY <1>4, <2>2, <3>3
  <2> QED
    BY <2>1, <2>2
<1>8. Frames' = [Frames EXCEPT ![i].ready = TRUE]
  <2>1. Frames' = [j \in 1 .. Len(queue) |-> Frames'[j]]
    BY <1>1 DEF Frames, FramesOf
  <2>2. [Frames EXCEPT ![i].ready = TRUE]
          = [j \in 1 .. Len(queue) |-> [Frames EXCEPT ![i].ready = TRUE][j]]
    BY <1>4
  <2> QED
    BY <1>7, <2>1, <2>2
<1>9. UNCHANGED <<Picture, config>>
  BY <1>1 DEF Picture
<1> QED
  BY <1>2, <1>4, <1>6, <1>8, <1>9

-----------------------------------------------------------------------------
\* Each step is a step of the screen, and keeps the order of configurations.
Promised ==
    /\ ConfigsInOrder'
    /\ \/ UNCHANGED <<Frames, Picture, config>>
       \/ \E c \in Configs : /\ Picture = None /\ Picture' = c /\ config' = c
                             /\ UNCHANGED Frames
       \/ Frames' = <<>> /\ Picture' = None /\ UNCHANGED config
       \/ /\ Frames' = Append(Frames, [config |-> config, ready |-> FALSE])
          /\ UNCHANGED <<Picture, config>>
       \/ /\ \E i \in 1 .. Len(Frames) :
               /\ ~ Frames[i].ready
               /\ Frames' = [Frames EXCEPT ![i].ready = TRUE]
          /\ UNCHANGED <<Picture, config>>
       \/ /\ Frames # <<>> /\ Head(Frames).ready
          /\ Picture' = Head(Frames).config /\ Frames' = Tail(Frames)
          /\ UNCHANGED config
       \/ \E c \in Configs : config' = c /\ UNCHANGED <<Frames, Picture>>

\* Steps that touch no buffer change nothing on the screen.
LEMMA WaitsArePromised ==
  ASSUME DisplayInv, ConfigsInOrder,
         \/ DisplayGet \/ CloseBlanks \/ CloseFrees \/ KirqWait \/ KirqWoken
         \/ OtherInterrupt \/ ViWriteBegin \/ ViWriteEnd \/ UNCHANGED vars
  PROVE  Promised
<1>1. /\ UNCHANGED <<queue, ready, surfaces, now_showing, config, frames_left,
                     installed>>
      /\ UNCHANGED <<regs>> \/ regs' = [regs EXCEPT !.origin = None]
  BY DEF masks, setup, vi, thread, vars, DisplayGet, CloseBlanks, CloseFrees,
         KirqWait, KirqWoken, OtherInterrupt, ViWriteBegin, ViWriteEnd
<1>2. regs'.size = regs.size /\ regs'.mode = regs.mode
  BY <1>1 DEF DisplayInv, Types
<1>3. Frames' = Frames
  BY <1>1, SameFrames
<1>4. Picture' = Picture
  BY <1>1, <1>2 DEF Picture
<1>5. ConfigsInOrder'
  BY <1>1, <1>2 DEF ConfigsInOrder
<1> QED
  BY <1>1, <1>3, <1>4, <1>5 DEF Promised

\* display_init opens the screen, display_change changes the configuration of
\* the frames to come, display_close closes the screen.
LEMMA SetupIsPromised ==
  ASSUME ~ Successive, DisplayInv, ConfigsInOrder,
         \/ \E c \in Configs :
              DisplayInit(c) \/ \E n \in Counts : DisplayChange(c, n)
         \/ DisplayClose
  PROVE  Promised
<1> USE DEF masks, setup, vi, thread, DisplayInv
<1>1. ASSUME NEW c \in Configs, DisplayInit(c) PROVE Promised
  <2>1. queue = <<>> /\ now_showing = -1 /\ 0 \in Buffers
    BY <1>1, DisplayAssumption DEF DisplayInit, Phases, Buffers
  <2>2. /\ queue' = queue /\ ready' = ready /\ now_showing' = 0
        /\ config' = c /\ frames_left' = -1
        /\ surfaces' = [b \in Buffers |-> c]
        /\ regs' = [origin |-> 0, size |-> c, mode |-> c]
    BY <1>1 DEF DisplayInit
  <2>3. \A i \in 1 .. Len(queue) : FALSE
    BY <2>1, EmptyIsInPlace
  <2>4. Frames' = Frames
    BY <2>2, <2>3 DEF Frames, FramesOf
  <2>5. Picture = None /\ Picture' = c
    BY <2>1, <2>2 DEF Picture
  <2>6. ConfigsInOrder'
    BY <2>1, <2>2, <2>3 DEF ConfigsInOrder
  <2> QED
    BY <2>2, <2>4, <2>5, <2>6 DEF Promised
<1>2. ASSUME NEW c \in Configs, NEW n \in Counts, DisplayChange(c, n)
      PROVE  Promised
  <2>1. /\ UNCHANGED <<ready, queue, now_showing, surfaces, installed, regs>>
        /\ config' = c /\ frames_left' = Len(queue)
        /\ frames_left \in {-1, Len(queue)}
    BY <1>2 DEF DisplayChange
  <2>2. Len(queue) \in Nat
    BY DEF BuffersInOnePlace
  <2>3. ConfigsInOrder'
    <3> SUFFICES ASSUME installed
                 PROVE  \A i \in 1 .. Len(queue) : surfaces[queue[i]] = regs.mode
      BY <2>1, <2>2 DEF ConfigsInOrder
    <3> QED
      BY <2>1, <2>2 DEF ConfigsInOrder
  <2>4. Frames' = Frames /\ Picture' = Picture
    BY <2>1, SameFrames DEF Picture
  <2> QED
    BY <2>1, <2>3, <2>4 DEF Promised
<1>3. ASSUME DisplayClose PROVE Promised
  <2>1. /\ queue' = <<>> /\ now_showing' = -1 /\ installed' = FALSE
        /\ UNCHANGED config
    BY <1>3 DEF DisplayClose
  <2>2. Frames' = <<>>
    BY <2>1 DEF Frames, FramesOf
  <2>3. Picture' = None /\ ConfigsInOrder'
    BY <2>1 DEF Picture, ConfigsInOrder
  <2> QED
    BY <2>1, <2>2, <2>3 DEF Promised
<1> QED
  BY <1>1, <1>2, <1>3

\* A buffer that is gotten is a new frame, one that is shown is finished.
LEMMA DrawingIsPromised ==
  ASSUME DisplayInv, ConfigsInOrder,
         \/ DisplayTryGet \/ GetTries \/ \E b \in Buffers : DisplayShow(b)
  PROVE  Promised
<1> USE DEF masks, setup, vi, thread, DisplayInv
<1>1. ASSUME installed, FreeBuffers # {}, TakeBuffer PROVE Promised
  <2>1. /\ Frames' = Append(Frames, [config |-> config, ready |-> FALSE])
        /\ UNCHANGED <<Picture, config>>
    BY <1>1, TakeIsGet
  <2>2. /\ Len(queue') = Len(queue) + 1 /\ Len(queue) \in Nat
        /\ \A i \in 1 .. Len(queue) : queue'[i] = queue[i]
        /\ queue'[Len(queue) + 1] \in Buffers \ (drawing \cup ready)
        /\ queue'[Len(queue) + 1] # now_showing
        /\ surfaces' = [surfaces EXCEPT ![queue'[Len(queue) + 1]] = config]
    <3>1. num_buffers # 0
      BY <1>1 DEF Phases
    <3>2. BuffersInOnePlace' /\ Len(queue) \in Nat
      BY <1>1, <3>1, TakeKeepsPlaces DEF BuffersInOnePlace
    <3> QED
      BY <1>1, <3>1, <3>2, TakeKeepsPlaces DEF BuffersInOnePlace
  <2>3. UNCHANGED <<now_showing, regs, config, frames_left, installed>>
    BY <1>1 DEF TakeBuffer
  <2>4. now_showing \in Buffers /\ frames_left \in -1 .. Len(queue)
    BY <1>1 DEF Types, Phases, BuffersInOnePlace
  <2>5. \A b \in Buffers : surfaces'[b] = IF b = queue'[Len(queue) + 1] THEN config
                                         ELSE surfaces[b]
    BY <2>2 DEF Types
  <2>6. ASSUME NEW i \in 1 .. Len(queue')
        PROVE  surfaces'[queue'[i]] = IF i <= frames_left THEN regs.mode ELSE config
    <3>1. CASE i = Len(queue) + 1
      BY <2>2, <2>4, <2>5, <3>1
    <3>2. CASE i \in 1 .. Len(queue)
      <4>1. queue[i] \in drawing \cup ready /\ queue[i] \in Buffers
        BY <3>2 DEF BuffersInOnePlace
      <4>2. surfaces'[queue'[i]] = surfaces[queue[i]]
        BY <2>2, <2>5, <3>2, <4>1
      <4> QED
        BY <1>1, <3>2, <4>2 DEF ConfigsInOrder
    <3> QED
      BY <2>2, <3>1, <3>2
  <2>7. surfaces'[now_showing] = surfaces[now_showing]
    BY <2>2, <2>4, <2>5
  <2>8. ConfigsInOrder'
    BY <1>1, <2>3, <2>6, <2>7 DEF ConfigsInOrder
  <2> QED
    BY <2>1, <2>8 DEF Promised
<1>2. ASSUME DisplayTryGet PROVE Promised
  BY <1>1, <1>2 DEF DisplayTryGet, Phases
<1>3. ASSUME GetTries PROVE Promised
  <2>1. CASE FreeBuffers # {}
    BY <1>1, <1>3, <2>1 DEF GetTries, Phases
  <2>2. CASE FreeBuffers = {}
    <3>1. UNCHANGED <<queue, ready, surfaces, now_showing, config, frames_left,
                      installed, regs>>
      BY <1>3, <2>2 DEF GetTries
    <3>2. Frames' = Frames /\ Picture' = Picture
      BY <3>1, SameFrames DEF Picture
    <3>3. ConfigsInOrder'
      BY <3>1 DEF ConfigsInOrder
    <3> QED
      BY <3>1, <3>2, <3>3 DEF Promised
  <2> QED
    BY <2>1, <2>2
<1>4. ASSUME NEW b \in Buffers, DisplayShow(b) PROVE Promised
  <2>1. UNCHANGED <<queue, surfaces, now_showing, config, frames_left, installed,
                    regs>>
    BY <1>4 DEF DisplayShow
  <2>2. ConfigsInOrder'
    BY <2>1 DEF ConfigsInOrder
  <2> QED
    BY <1>4, <2>2, ShowIsFinish DEF Promised
<1> QED
  BY <1>2, <1>3, <1>4

\* The vertical blank shows the next frame under its configuration, or the
\* same one again.
LEMMA VblankIsPromised ==
  ASSUME DisplayInv, ConfigsInOrder, NEW turn \in BOOLEAN, Vblank(turn)
  PROVE  Promised
<1> USE DEF DisplayInv
<1>1. UNCHANGED <<config, surfaces, installed>>
  BY DEF Vblank
<1>2. now_showing \in Buffers \cup {-1} /\ Len(queue) \in Nat
  BY DEF BuffersInOnePlace
<1>3. CASE ~ installed
  <2>1. UNCHANGED <<ready, queue, now_showing, frames_left, regs>>
    BY <1>3, VblankSteps
  <2>2. Frames' = Frames /\ Picture' = Picture
    BY <1>1, <2>1, SameFrames DEF Picture
  <2>3. ConfigsInOrder'
    BY <1>1, <1>3 DEF ConfigsInOrder
  <2> QED
    BY <1>1, <2>2, <2>3 DEF Promised
<1>4. CASE /\ installed
           /\ UNCHANGED <<drawing, ready, queue, now_showing, frames_left>>
           /\ regs' = [origin |-> now_showing, size |-> surfaces[now_showing],
                       mode |-> regs.mode]
  <2>1. regs'.size = regs.size /\ regs'.mode = regs.mode
    BY <1>4 DEF ConfigsInOrder
  <2>2. Frames' = Frames /\ Picture' = Picture
    BY <1>1, <1>4, <2>1, SameFrames DEF Picture
  <2>3. ConfigsInOrder'
    BY <1>1, <1>4, <2>1 DEF ConfigsInOrder
  <2> QED
    BY <1>1, <2>2, <2>3 DEF Promised
<1>5. CASE /\ installed /\ Flip
           /\ frames_left' = IF frames_left >= 0 THEN frames_left - 1 ELSE -1
           /\ regs' = [origin |-> now_showing', size |-> surfaces[now_showing'],
                       mode |-> IF frames_left = 0 THEN config ELSE regs.mode]
  <2>1. /\ BuffersInOnePlace'
        /\ now_showing' = queue[1] /\ now_showing' \in Buffers
        /\ Len(queue) \in Nat \ {0} /\ Len(queue') = Len(queue) - 1
        /\ \A i \in 1 .. Len(queue') : queue'[i] = queue[i + 1]
    BY <1>5, FlipKeepsPlaces
  <2>2. /\ frames_left \in -1 .. Len(queue)
        /\ frames_left = -1 => regs.mode = config
        /\ \A i \in 1 .. Len(queue) :
             surfaces[queue[i]] = IF i <= frames_left THEN regs.mode ELSE config
    BY <1>5 DEF ConfigsInOrder, Types
  <2>3. 1 \in 1 .. Len(queue) /\ \A i \in 1 .. Len(queue') : i + 1 \in 1 .. Len(queue)
    BY <2>1
  <2>4. /\ regs'.size = surfaces[queue[1]] /\ regs'.size = regs'.mode
        /\ regs'.mode = IF frames_left = 0 THEN config ELSE regs.mode
    <3>1. surfaces[queue[1]] = IF 1 <= frames_left THEN regs.mode ELSE config
      BY <2>2, <2>3
    <3> QED
      BY <1>5, <2>1, <2>2, <3>1
  <2>5. \A i \in 1 .. Len(queue') :
          surfaces[queue'[i]] = IF i <= frames_left' THEN regs'.mode ELSE config
    <3> SUFFICES ASSUME NEW i \in 1 .. Len(queue')
                 PROVE  surfaces[queue'[i]] = IF i <= frames_left' THEN regs'.mode
                                              ELSE config
      OBVIOUS
    <3>1. surfaces[queue[i + 1]] = IF i + 1 <= frames_left THEN regs.mode ELSE config
      BY <2>2, <2>3
    <3>2. queue'[i] = queue[i + 1] /\ i \in Nat \ {0}
      BY <2>1
    <3> QED
      BY <1>5, <2>2, <2>4, <3>1, <3>2
  <2>6. frames_left' = -1 => regs'.mode = config
    BY <1>5, <2>2, <2>4
  <2>7. ConfigsInOrder'
    BY <1>1, <2>1, <2>4, <2>5, <2>6 DEF ConfigsInOrder
  <2>8. /\ queue \in Seq(Buffers) /\ queue' \in Seq(Buffers)
        /\ surfaces \in [Buffers -> Configs] /\ surfaces' = surfaces
        /\ ready' = ready \ {queue[1]} /\ queue[1] \in ready
        /\ queue' = Tail(queue)
    <3>1. Head(queue) = queue[1]
      BY DEF Flip
    <3> QED
      BY <1>1, <1>5, <2>1, <3>1 DEF BuffersInOnePlace, Types, Flip
  <2>9. /\ Frames \in Seq(FrameSet) /\ Len(Frames) = Len(queue)
        /\ \A j \in 1 .. Len(queue) :
             Frames[j] = [config |-> surfaces[queue[j]], ready |-> queue[j] \in ready]
    BY <2>8, FramesIs DEF Frames
  <2>10. /\ Frames' \in Seq(FrameSet) /\ Len(Frames') = Len(queue')
         /\ \A j \in 1 .. Len(queue') :
              Frames'[j] = [config |-> surfaces'[queue'[j]],
                            ready |-> queue'[j] \in ready']
    <3>1. Frames' = FramesOf(queue', surfaces', ready')
      BY DEF Frames
    <3>2. queue' \in Seq(Buffers) /\ surfaces' \in [Buffers -> Configs]
      BY <2>8
    <3>3. /\ FramesOf(queue', surfaces', ready') \in Seq(FrameSet)
          /\ Len(FramesOf(queue', surfaces', ready')) = Len(queue')
          /\ \A j \in 1 .. Len(queue') :
               FramesOf(queue', surfaces', ready')[j]
                 = [config |-> surfaces'[queue'[j]], ready |-> queue'[j] \in ready']
      BY <3>2, FramesIs
    <3> QED
      BY <3>1, <3>3
  <2>11. /\ Frames # <<>> /\ Head(Frames) = Frames[1]
         /\ Tail(Frames) \in Seq(FrameSet) /\ Len(Tail(Frames)) = Len(queue) - 1
         /\ \A j \in 1 .. (Len(queue) - 1) : Tail(Frames)[j] = Frames[j + 1]
    <3>1. Frames # <<>>
      BY <2>1, <2>9, EmptySeq
    <3> QED
      BY <2>9, <3>1, HeadTailProperties
  <2>12. ASSUME NEW j \in 1 .. Len(queue') PROVE Frames'[j] = Tail(Frames)[j]
    <3>1. j + 1 \in 1 .. Len(queue) /\ j + 1 # 1 /\ queue'[j] = queue[j + 1]
      BY <2>1, <2>3
    <3>2. queue[j + 1] # queue[1]
      BY <2>3, <3>1 DEF BuffersInOnePlace
    <3>3. (queue'[j] \in ready') = (queue[j + 1] \in ready)
      BY <2>8, <3>1, <3>2
    <3>4. Frames'[j] = Frames[j + 1]
      <4>1. Frames'[j] = [config |-> surfaces'[queue'[j]],
                          ready |-> queue'[j] \in ready']
        BY <2>10
      <4>2. Frames[j + 1] = [config |-> surfaces[queue[j + 1]],
                             ready |-> queue[j + 1] \in ready]
        BY <2>9, <3>1
      <4> QED
        BY <2>8, <3>1, <3>3, <4>1, <4>2
    <3> QED
      BY <2>1, <2>11, <3>4
  <2>13. Frames' = Tail(Frames)
    BY <2>1, <2>10, <2>11, <2>12, SeqEqual
  <2>14. Frames[1].ready = TRUE /\ Frames[1].config = surfaces[queue[1]]
    <3>1. Frames[1] = [config |-> surfaces[queue[1]], ready |-> queue[1] \in ready]
      BY <2>3, <2>9
    <3>2. (queue[1] \in ready) = TRUE
      BY <2>8
    <3>3. Frames[1] = [config |-> surfaces[queue[1]], ready |-> TRUE]
      BY <3>1, <3>2
    <3> QED
      BY <3>3
  <2>15. Picture' = surfaces[queue[1]]
    BY <2>1, <2>4 DEF Picture, Buffers
  <2> QED
    BY <1>1, <2>7, <2>8, <2>11, <2>13, <2>14, <2>15 DEF Promised
<1> QED
  BY <1>3, <1>4, <1>5, VblankSteps

\* Without display_change before the frames of the last one are shown, every
\* frame appears in its turn and under its configuration: the display
\* implements module Screen.
THEOREM FramesAppearInOrder == ~ Successive => (Spec => ShowsInOrder)
<1> SUFFICES ASSUME ~ Successive PROVE Spec => ShowsInOrder
  OBVIOUS
<1> DEFINE f == [i \in 1 .. Len(queue) |->
                  [config |-> surfaces[queue[i]], ready |-> queue[i] \in ready]]
<1>1. f = Frames
  BY DEF Frames, FramesOf
<1>2. f' = Frames'
  BY DEF Frames, FramesOf
<1>3. Init => ConfigsInOrder /\ Abstract!Init
  <2> SUFFICES ASSUME Init
               PROVE  ConfigsInOrder /\ f = <<>> /\ Picture = None /\ config \in Configs
    BY DEF Abstract!Init
  <2>1. f = <<>>
    BY DEF Init
  <2> QED
    BY <2>1 DEF Init, ConfigsInOrder, Picture
<1>4. DisplayInv /\ ConfigsInOrder /\ [Next]_vars => Promised
  BY WaitsArePromised, SetupIsPromised, DrawingIsPromised, VblankIsPromised DEF Next
<1>5. Promised => ConfigsInOrder' /\ [Abstract!Next]_(Abstract!scvars)
  <2> SUFFICES ASSUME Promised
               PROVE  Abstract!Next \/ UNCHANGED <<f, Picture, config>>
    BY DEF Promised, Abstract!scvars
  <2> QED
    BY <1>1, <1>2
       DEF Promised, Abstract!Next, Abstract!Open, Abstract!Close, Abstract!Get,
           Abstract!Finish, Abstract!Flip, Abstract!Change
<1> QED
  BY <1>3, <1>4, <1>5, DisplayInvHolds, PTL DEF Spec, ShowsInOrder, Abstract!Spec
=============================================================================

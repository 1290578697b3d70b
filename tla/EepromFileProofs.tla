-------------------------- MODULE EepromFileProofs --------------------------
(***************************************************************************)
(* Theorems about the file in the EEPROM and its cache, for every size of  *)
(* the file, every set of contents and every span of the generations: the  *)
(* cache agrees with the EEPROM, and a program that waits for its writes   *)
(* loses the file in no power failure but those marked as risky.           *)
(***************************************************************************)
EXTENDS EepromFileProperties, TLAPS, SequenceTheorems

(* The steps of calls, with arguments in their ranges.                     *)
Fetches == [op : {"fetch"}, blocks : SUBSET Blocks]

Writes == [op : {"write"}, value : Values]

Others == [op : {"verify", "wait", "read", "main", "backup", "erase"}]

Stores == {s \in [op : {"store"}, at : Memory, data : Seq(CellValues)] :
              /\ Len(s.data) # 0
              /\ s.at + Len(s.data) - 1 \in Memory
              /\ \A c \in {Copy1, Copy2} :
                    c \in s.at .. (s.at + Len(s.data) - 1)
                        => s.data[c - s.at + 1] \in Headers}

Steps == Fetches \cup Writes \cup Others \cup Stores

(* A block with the contents of its cells, as eeprom_flush_kick takes it.  *)
FlushedOK(f) == \E b \in Blocks : f \in [block : {b}, data : [Block(b) -> CellValues]]

Types ==
    /\ rom \in Contents /\ cache \in Contents
    /\ dirty \subseteq valid /\ valid \subseteq Blocks
    /\ miss \in BOOLEAN /\ risky \in BOOLEAN
    /\ value \in Values \cup {None} /\ before \in Values \cup {None}
    /\ got \in {<<>>} \cup {<<v>> : v \in Values \cup {None}}
    /\ todo \in Seq(Steps)

FlushOK ==
    /\ flush # None => /\ FlushedOK(flush)
                       /\ flush.block \in valid
                       /\ \A a \in Block(flush.block) \cap {Copy1, Copy2} :
                             flush.data[a] \in Headers
    /\ flush # None => \/ flush.block \in dirty
                       \/ \A a \in Block(flush.block) : flush.data[a] = cache[a]
    /\ flush = None => dirty = {} \/ miss

Coherent ==
    \A a \in Memory : \/ cache[a] = rom[a] \/ a \div 2 \notin valid
                      \/ a \div 2 \in dirty
                      \/ flush # None /\ a \div 2 = flush.block

CacheInv == Types /\ FlushOK /\ Coherent /\ (miss => Doing("fetch"))
-----------------------------------------------------------------------------
(* The two copies lie behind the signature, in whole blocks.               *)
LEMMA Layout ==
  \E h \in Nat \ {0} :
    /\ Cells(FileSize + 1) = 2 * h /\ FileSize + 1 <= 2 * h
    /\ Cells(FileSize) <= 2 * h /\ Cells(FileSize) % 2 = 0
    /\ Cells(FileSize) \in Nat /\ FileSize \in Nat \ {0}
    /\ Copy1 = 2 /\ Copy2 = 2 + 2 * h
    /\ Blocks = 0 .. (2 * h) /\ Memory = 0 .. (4 * h + 1)
<1> DEFINE h == (FileSize + 2) \div 2
<1>1. FileSize \in Nat \ {0}
  BY EepromAssumption
<1>2. h \in Nat \ {0} /\ FileSize + 1 <= 2 * h
  BY <1>1
<1>3. Cells(FileSize + 1) = 2 * h
  BY <1>1 DEF Cells
<1>4. /\ Cells(FileSize) <= 2 * h /\ Cells(FileSize) % 2 = 0
      /\ Cells(FileSize) \in Nat
  BY <1>1 DEF Cells
<1> HIDE DEF h
<1>5. /\ Copy1 = 2 /\ Copy2 = 2 + 2 * h
      /\ Blocks = 0 .. (2 * h) /\ Memory = 0 .. (4 * h + 1)
  BY <1>2, <1>3 DEF Copy1, Copy2, Blocks, Memory
<1> QED
  BY <1>1, <1>2, <1>3, <1>4, <1>5

(* The cells of a block, and the block of a cell.                          *)
LEMMA CellsOfBlocks ==
  /\ \A b \in Blocks : Block(b) \subseteq Memory
  /\ \A a \in Memory : a \div 2 \in Blocks
  /\ \A a \in Memory, b \in Blocks : a \in Block(b) <=> a \div 2 = b
  /\ Memory \subseteq Nat /\ Blocks \subseteq Nat
  /\ Copy1 \in Memory /\ Copy2 \in Memory /\ Copy1 # Copy2 /\ 0 \in Memory
PROOF
<1>1. PICK h \in Nat \ {0} :
        /\ Copy1 = 2 /\ Copy2 = 2 + 2 * h
        /\ Blocks = 0 .. (2 * h) /\ Memory = 0 .. (4 * h + 1)
  BY Layout
<1>2. \A a \in Nat, b \in Nat : a \in Block(b) <=> a \div 2 = b
  BY DEF Block
<1>3. \A b \in Blocks : Block(b) \subseteq Memory
  BY <1>1 DEF Block
<1>4. \A a \in Memory : a \div 2 \in Blocks
  BY <1>1
<1>5. Memory \subseteq Nat /\ Blocks \subseteq Nat
  BY <1>1
<1> QED
  BY <1>1, <1>2, <1>3, <1>4, <1>5

(* An EEPROM of zeroes.                                                    *)
LEMMA ZeroIsContents == Zero \in Contents
<1>1. Header(0, None) \in Headers
  BY EepromAssumption DEF Header, Headers
<1>2. Zero \in [Memory -> CellValues]
  BY <1>1 DEF Zero, CellValues
<1>3. Zero[Copy1] \in Headers /\ Zero[Copy2] \in Headers
  BY <1>1, CellsOfBlocks DEF Zero
<1> QED
  BY <1>2, <1>3 DEF Contents

JunkOf(g, h) == [Zero EXCEPT ![Copy1].gen = g, ![Copy2].gen = h]

(* Contents of random generations.                                         *)
LEMMA JunkIsContents == Junk \subseteq Contents
<1> SUFFICES ASSUME NEW x \in Junk PROVE x \in Contents
  OBVIOUS
<1>0. PICK g \in Noise, h \in Noise : x = JunkOf(g, h)
  <2>1. Junk = {JunkOf(g, h) : g, h \in Noise}
    BY DEF Junk, JunkOf
  <2> QED
    BY <2>1
<1> DEFINE j == [Zero EXCEPT ![Copy1].gen = g, ![Copy2].gen = h]
<1>1. g \in 0 .. (Generations - 1) /\ h \in 0 .. (Generations - 1)
  BY EepromAssumption
<1>2. /\ Zero \in [Memory -> CellValues]
      /\ Zero[Copy1] \in Headers /\ Zero[Copy2] \in Headers
  BY ZeroIsContents DEF Contents
<1>3. /\ [Zero[Copy1] EXCEPT !.gen = g] \in Headers
      /\ [Zero[Copy2] EXCEPT !.gen = h] \in Headers
  BY <1>1, <1>2 DEF Headers
<1>4. \A a \in Memory : j[a] = IF a = Copy1 THEN [Zero[Copy1] EXCEPT !.gen = g]
                               ELSE IF a = Copy2 THEN [Zero[Copy2] EXCEPT !.gen = h]
                               ELSE Zero[a]
  BY <1>2, CellsOfBlocks
<1>5. DOMAIN j = Memory /\ j = [a \in Memory |-> j[a]]
  BY <1>2
<1> HIDE DEF j
<1>6. j[Copy1] \in Headers /\ j[Copy2] \in Headers
  BY <1>3, <1>4, CellsOfBlocks
<1>7. \A a \in Memory : j[a] \in CellValues
  BY <1>2, <1>3, <1>4 DEF CellValues
<1>8. j \in Contents
  BY <1>5, <1>6, <1>7 DEF Contents
<1> QED
  BY <1>0, <1>8 DEF j, JunkOf

(* Parts of contents are overwritten by parts of contents.                 *)
LEMMA OverwrittenIsContents ==
  ASSUME NEW m \in Contents, NEW as, NEW n,
         \A a \in as \cap Memory : /\ n[a] \in CellValues
                                   /\ a \in {Copy1, Copy2} => n[a] \in Headers
  PROVE  /\ Overwritten(m, as, n) \in Contents
         /\ \A a \in Memory : Overwritten(m, as, n)[a] = IF a \in as THEN n[a] ELSE m[a]
<1> DEFINE o == Overwritten(m, as, n)
<1>1. \A a \in Memory : o[a] = IF a \in as THEN n[a] ELSE m[a]
  BY DEF Overwritten
<1>2. \A a \in Memory : o[a] \in CellValues
  BY <1>1 DEF Contents
<1>3. o \in [Memory -> CellValues]
  BY <1>2 DEF Overwritten
<1>4. o[Copy1] \in Headers /\ o[Copy2] \in Headers
  BY <1>1, CellsOfBlocks DEF Contents
<1> QED
  BY <1>1, <1>3, <1>4 DEF Contents

-----------------------------------------------------------------------------
(* The steps that calls are made of are in their ranges.                   *)
LEMMA OneStep ==
  ASSUME NEW s \in Steps PROVE <<s>> \in Seq(Steps)
OBVIOUS

(* The loops that read a part of the EEPROM.                               *)
LEMMA ReadBytesSteps ==
  ASSUME NEW a \in Memory, NEW len \in Nat \ {0}, a + len - 1 \in Memory
  PROVE  ReadBytes(a, len) \in Seq(Steps)
<1>1. FirstBlock(a) .. LastBlock(a, len) \subseteq Blocks
  <2>1. PICK h \in Nat : Memory = 0 .. (4 * h + 1) /\ Blocks = 0 .. (2 * h)
    BY Layout
  <2> QED
    BY <2>1 DEF FirstBlock, LastBlock
<1>2. [op |-> "fetch", blocks |-> FirstBlock(a) .. LastBlock(a, len)] \in Steps
  BY <1>1 DEF Steps, Fetches
<1> QED
  BY <1>2, OneStep DEF ReadBytes, Fetch

(* What makes a store.                                                     *)
LEMMA IsStore ==
  ASSUME NEW a \in Memory, NEW d \in Seq(CellValues), Len(d) # 0,
         a + Len(d) - 1 \in Memory,
         \A c \in {Copy1, Copy2} :
            c \in a .. (a + Len(d) - 1) => d[c - a + 1] \in Headers
  PROVE  Store(a, d) \in Stores
<1> DEFINE s == Store(a, d)
<1>1. s \in [op : {"store"}, at : Memory, data : Seq(CellValues)]
  BY DEF Store
<1>2. s.at = a /\ s.data = d
  BY DEF Store
<1> HIDE DEF s
<1>3. s \in Stores
  BY <1>1, <1>2 DEF Stores
<1> QED
  BY <1>3 DEF s

(* A write, with the blocks that it fetches.                               *)
LEMMA WriteBytesSteps ==
  ASSUME NEW a, NEW data, Store(a, data) \in Stores
  PROVE  WriteBytes(a, data) \in Seq(Steps)
<1>1. /\ a \in Memory /\ data \in Seq(CellValues) /\ Len(data) # 0
      /\ a + Len(data) - 1 \in Memory
  BY DEF Stores, Store
<1>2. Len(data) \in Nat
  BY <1>1
<1>3. LastBlock(a, Len(data)) \in Blocks /\ FirstBlock(a) \in Blocks
  <2>1. PICK h \in Nat : Memory = 0 .. (4 * h + 1) /\ Blocks = 0 .. (2 * h)
    BY Layout
  <2> QED
    BY <1>1, <1>2, <2>1 DEF FirstBlock, LastBlock
<1> DEFINE last == LastBlock(a, Len(data))
           partial == {b \in {FirstBlock(a)} : a % 2 # 0} \cup
                      {b \in {last} \ {FirstBlock(a)} : (a + Len(data)) % 2 # 0}
<1>4. [op |-> "fetch", blocks |-> partial] \in Steps
  <2>1. partial \in SUBSET Blocks
    BY <1>3
  <2> HIDE DEF partial
  <2> QED
    BY <2>1 DEF Steps, Fetches
<1>5. Fetch(partial) \in Seq(Steps) /\ <<>> \in Seq(Steps)
  BY <1>4, OneStep DEF Fetch
<1>6. <<Store(a, data)>> \in Seq(Steps)
  BY OneStep DEF Steps
<1>7. (IF partial # {} THEN Fetch(partial) ELSE <<>>) \in Seq(Steps)
  BY <1>5
<1> QED
  BY <1>6, <1>7, ConcatProperties DEF WriteBytes

(* A block of zeroes.                                                      *)
LEMMA EraseBlockSteps ==
  ASSUME NEW b \in Blocks PROVE EraseBlock(b) \in Steps
<1> DEFINE d == <<Zero[2 * b], Zero[2 * b + 1]>>
<1>1. b \in Nat /\ 2 * b \in Memory /\ 2 * b + 1 \in Memory
  BY CellsOfBlocks DEF Block
<1>2. /\ Zero[2 * b] \in CellValues /\ Zero[2 * b + 1] \in CellValues
      /\ Zero[Copy1] \in Headers /\ Zero[Copy2] \in Headers
  BY <1>1, ZeroIsContents DEF Contents
<1>3. /\ d \in Seq(CellValues) /\ Len(d) = 2
      /\ d[1] = Zero[2 * b] /\ d[2] = Zero[2 * b + 1]
  BY <1>2
<1> HIDE DEF d
<1>4. ASSUME NEW c \in {Copy1, Copy2}, c \in 2 * b .. (2 * b + Len(d) - 1)
      PROVE  d[c - 2 * b + 1] \in Headers
  <2>1. c = 2 * b \/ c = 2 * b + 1
    BY <1>1, <1>3, <1>4
  <2> QED
    BY <1>1, <1>2, <1>3, <2>1
<1>5. 2 * b + Len(d) - 1 \in Memory
  BY <1>1, <1>3
<1>6. /\ \A c \in {Copy1, Copy2} :
           c \in 2 * b .. (2 * b + Len(d) - 1) => d[c - 2 * b + 1] \in Headers
      /\ d \in Seq(CellValues) /\ Len(d) # 0
  BY <1>3, <1>4
<1>7. Store(2 * b, d) \in Stores
  BY <1>1, <1>5, <1>6, IsStore
<1> QED
  BY <1>7 DEF EraseBlock, d, Steps

(* Other steps.                                                            *)
LEMMA OtherSteps ==
  ASSUME NEW o \in {"verify", "wait", "read", "main", "backup", "erase"}
  PROVE  <<Step(o)>> \in Seq(Steps)
<1>1. Step(o) \in Steps
  BY DEF Step, Others, Steps
<1> QED
  BY <1>1, OneStep

(* What calls begin with.                                                  *)
LEMMA StartSteps ==
  GetStart \in Seq(Steps) /\ Boot \in Seq(Steps) /\ Wait \in Seq(Steps)
<1>1. PICK h \in Nat \ {0} : Copy1 = 2 /\ Copy2 = 2 + 2 * h /\ Memory = 0 .. (4 * h + 1)
  BY Layout
<1>2. /\ ReadBytes(Copy1, 1) \in Seq(Steps) /\ ReadBytes(Copy2, 1) \in Seq(Steps)
      /\ ReadBytes(0, 2) \in Seq(Steps)
  BY <1>1, ReadBytesSteps
<1>3. <<Step("verify")>> \in Seq(Steps) /\ <<Step("wait")>> \in Seq(Steps)
      /\ <<>> \in Seq(Steps)
  BY OtherSteps
<1> QED
  BY <1>2, <1>3, ConcatProperties DEF GetStart, Boot, Wait

(* The whole of a copy is read.                                            *)
LEMMA ReadCopySteps ==
  ASSUME NEW copy \in {Copy1, Copy2}
  PROVE  ReadBytes(copy, FileSize + 1) \in Seq(Steps)
<1>1. PICK h \in Nat \ {0} : /\ Copy1 = 2 /\ Copy2 = 2 + 2 * h
                             /\ Memory = 0 .. (4 * h + 1)
                             /\ FileSize + 1 <= 2 * h /\ FileSize \in Nat
  BY Layout
<1>2. copy \in Memory /\ FileSize + 1 \in Nat \ {0} /\ copy + (FileSize + 1) - 1 \in Memory
  BY <1>1
<1> QED
  BY <1>2, ReadBytesSteps

(* A copy is written, the contents first.                                  *)
LEMMA WriteToSteps ==
  ASSUME NEW copy \in {Copy1, Copy2}, NEW header \in Headers, NEW v \in Values
  PROVE  WriteTo(copy, header, v) \in Seq(Steps)
<1>1. PICK h \in Nat \ {0} : /\ Copy1 = 2 /\ Copy2 = 2 + 2 * h
                             /\ Memory = 0 .. (4 * h + 1)
                             /\ FileSize + 1 <= 2 * h /\ FileSize \in Nat \ {0}
  BY Layout
<1> DEFINE d == [i \in 1 .. FileSize |-> v]
<1>2. d \in Seq(CellValues) /\ Len(d) = FileSize
  BY <1>1 DEF CellValues
<1> HIDE DEF d
<1>3. /\ copy + 1 \in Memory /\ (copy + 1) + Len(d) - 1 \in Memory
      /\ \A c \in {Copy1, Copy2} : c \notin (copy + 1) .. ((copy + 1) + Len(d) - 1)
  BY <1>1, <1>2
<1>4. Store(copy + 1, d) \in Stores
  <2>1. Store(copy + 1, d) \in [op : {"store"}, at : Memory, data : Seq(CellValues)]
    BY <1>2, <1>3 DEF Store
  <2> QED
    BY <1>1, <1>2, <1>3, <2>1 DEF Stores, Store
<1>5. Store(copy, <<header>>) \in Stores
  <2>1. /\ <<header>> \in Seq(CellValues) /\ Len(<<header>>) = 1
        /\ <<header>>[1] = header
    BY DEF CellValues
  <2>2. copy \in Memory /\ copy + 1 - 1 \in Memory
        /\ \A c \in {Copy1, Copy2} : c \in copy .. (copy + 1 - 1) => c - copy + 1 = 1
    BY <1>1
  <2> DEFINE e == <<header>>
  <2> HIDE DEF e
  <2>4. e \in Seq(CellValues) /\ Len(e) = 1 /\ e[1] = header
    BY <2>1 DEF e
  <2>5. /\ copy \in Memory /\ copy + Len(e) - 1 \in Memory /\ Len(e) # 0
        /\ \A c \in {Copy1, Copy2} :
             c \in copy .. (copy + Len(e) - 1) => e[c - copy + 1] \in Headers
    BY <2>2, <2>4
  <2>6. Store(copy, e) \in Stores
    BY <2>4, <2>5, IsStore
  <2> QED
    BY <2>6 DEF e
<1>6. WriteBytes(copy + 1, d) \in Seq(Steps) /\ WriteBytes(copy, <<header>>) \in Seq(Steps)
  BY <1>4, <1>5, WriteBytesSteps
<1> QED
  BY <1>6, ConcatProperties DEF WriteTo, d

(* The file system is wiped, the first copy of the file is erased.         *)
LEMMA EraseSteps ==
  /\ Wipe \in Seq(Steps)
  /\ [i \in 1 .. (Cells(FileSize) \div 2) |-> EraseBlock((Copy1 \div 2) + i - 1)]
       \in Seq(Steps)
<1>1. PICK h \in Nat \ {0} : /\ Cells(FileSize + 1) = 2 * h
                             /\ Cells(FileSize) <= 2 * h /\ Cells(FileSize) \in Nat
                             /\ Copy1 = 2 /\ Copy2 = 2 + 2 * h
                             /\ Memory = 0 .. (4 * h + 1) /\ Blocks = 0 .. (2 * h)
  BY Layout
<1>2. [b \in 1 .. Cells(FileSize + 1) |-> EraseBlock(b)] \in Seq(Steps)
  <2>1. \A b \in 1 .. Cells(FileSize + 1) : EraseBlock(b) \in Steps
    BY <1>1, EraseBlockSteps
  <2> QED
    BY <1>1, <2>1
<1>3. WriteBytes(0, <<Signature, Signature>>) \in Seq(Steps)
  <2> DEFINE d == <<Signature, Signature>>
  <2>1. d \in Seq(CellValues) /\ Len(d) = 2
    BY DEF CellValues
  <2> HIDE DEF d
  <2>2. 0 \in Memory /\ 0 + 2 - 1 \in Memory /\ \A c \in {Copy1, Copy2} : c \notin 0 .. (0 + 2 - 1)
    BY <1>1
  <2>3. /\ 0 + Len(d) - 1 \in Memory /\ Len(d) # 0
        /\ \A c \in {Copy1, Copy2} :
             c \in 0 .. (0 + Len(d) - 1) => d[c - 0 + 1] \in Headers
    BY <2>1, <2>2
  <2>4. Store(0, d) \in Stores
    BY <2>1, <2>2, <2>3, IsStore
  <2> QED
    BY <2>4, WriteBytesSteps DEF d
<1>4. \A i \in 1 .. (Cells(FileSize) \div 2) : (Copy1 \div 2) + i - 1 \in Blocks
  BY <1>1
<1>5. Cells(FileSize) \div 2 \in Nat
  BY <1>1
<1>6. [i \in 1 .. (Cells(FileSize) \div 2) |-> EraseBlock((Copy1 \div 2) + i - 1)]
        \in Seq(Steps)
  BY <1>4, <1>5, EraseBlockSteps
<1> QED
  BY <1>2, <1>3, <1>6, ConcatProperties DEF Wipe

-----------------------------------------------------------------------------
(* What is read from contents.                                             *)
LEMMA FoundIsValue ==
  ASSUME NEW m \in Contents
  PROVE  /\ Main(m) \in {Copy1, Copy2} /\ Other(Main(m)) \in {Copy1, Copy2}
         /\ \A c \in {Copy1, Copy2} : /\ m[c].sum \in Values \cup {None}
                                      /\ m[c].gen \in 0 .. (Generations - 1)
         /\ Found(m) \in Values \cup {None} /\ Stored(m) \in Values \cup {None}
<1>1. Main(m) \in {Copy1, Copy2} /\ Other(Main(m)) \in {Copy1, Copy2}
  BY DEF Main, Other
<1>2. \A c \in {Copy1, Copy2} : /\ m[c].sum \in Values \cup {None}
                                /\ m[c].gen \in 0 .. (Generations - 1)
  BY DEF Contents, Headers
<1>3. Found(m) \in Values \cup {None}
  BY <1>1, <1>2 DEF Found
<1> QED
  BY <1>1, <1>2, <1>3 DEF Stored

(* What a thread reads through the cache is a contents of the memory.      *)
LEMMA SeenIsContents ==
  ASSUME Types
  PROVE  Seen \in Contents
<1>1. \A a \in Memory : Seen[a] \in CellValues
  BY DEF Seen, Types, Contents
<1>2. Seen \in [Memory -> CellValues]
  BY <1>1 DEF Seen
<1>3. \A a \in {Copy1, Copy2} : Seen[a] \in Headers
  BY CellsOfBlocks DEF Seen, Types, Contents
<1> QED
  BY <1>2, <1>3 DEF Contents

(* The next step of a call, and the rest.                                  *)
LEMMA NextStep ==
  ASSUME todo \in Seq(Steps), todo # <<>>
  PROVE  /\ Head(todo) \in Steps /\ Tail(todo) \in Seq(Steps)
         /\ Doing("fetch") => Head(todo) \in Fetches
         /\ Doing("store") => Head(todo) \in Stores
         /\ Doing("write") => Head(todo) \in Writes
<1>1. Head(todo) \in Steps /\ Tail(todo) \in Seq(Steps)
  BY HeadTailProperties
<1> DEFINE s == Head(todo)
<1> HIDE DEF s
<1>2. s \in Steps => /\ s.op = "fetch" => s \in Fetches
                     /\ s.op = "store" => s \in Stores
                     /\ s.op = "write" => s \in Writes
  <2> SUFFICES ASSUME s \in Steps
               PROVE  /\ s.op = "fetch" => s \in Fetches
                      /\ s.op = "store" => s \in Stores
                      /\ s.op = "write" => s \in Writes
    OBVIOUS
  <2>1. s \in Fetches \/ s \in Stores \/ s \in Writes \/ s \in Others
    BY DEF Steps
  <2>2. s \in Fetches => s.op = "fetch"
    BY DEF Fetches
  <2>3. s \in Stores => s.op = "store"
    BY DEF Stores
  <2>4. s \in Writes => s.op = "write"
    BY DEF Writes
  <2>5. s \in Others => s.op \in {"verify", "wait", "read", "main", "backup", "erase"}
    BY DEF Others
  <2> QED
    BY <2>1, <2>2, <2>3, <2>4, <2>5
<1> QED
  BY <1>1, <1>2 DEF Doing, s

(* A block is taken out of the dirty ones, with its contents; or there is  *)
(* none.                                                                   *)
LEMMA FlushKickTakes ==
  ASSUME NEW d \in SUBSET Blocks, NEW c \in Contents, FlushKick(d, c)
  PROVE  /\ dirty' \subseteq d
         /\ flush' = None => d = {}
         /\ flush' # None => /\ FlushedOK(flush') /\ flush'.block \in d
                             /\ \A a \in Block(flush'.block) :
                                   flush'.data[a] = c[a] /\ a \in Memory
                             /\ dirty' = d \ {flush'.block}
<1>1. CASE d = {} /\ dirty' = {} /\ flush' = None
  BY <1>1
<1>2. CASE \E b \in d : /\ dirty' = d \ {b}
                        /\ flush' = [block |-> b, data |-> [a \in Block(b) |-> c[a]]]
  <2>1. PICK b \in d : /\ dirty' = d \ {b}
                       /\ flush' = [block |-> b, data |-> [a \in Block(b) |-> c[a]]]
    BY <1>2
  <2>2. Block(b) \subseteq Memory
    BY CellsOfBlocks
  <2>3. [a \in Block(b) |-> c[a]] \in [Block(b) -> CellValues]
    BY <2>2 DEF Contents
  <2>4. flush' \in [block : {b}, data : [Block(b) -> CellValues]]
    BY <2>1, <2>3
  <2>5. flush' # None
    BY <2>4, EepromAssumption
  <2>6. flush'.block = b /\ \A a \in Block(b) : flush'.data[a] = c[a]
    BY <2>1
  <2> QED
    BY <2>1, <2>2, <2>4, <2>5, <2>6 DEF FlushedOK
<1> QED
  BY <1>1, <1>2 DEF FlushKick

(* When c is what the cache will hold and d what was dirty, the invariant  *)
(* of the flush holds again.                                               *)
LEMMA FlushKickKeeps ==
  ASSUME NEW d, NEW c \in Contents, FlushKick(d, c), cache' = c,
         d \subseteq valid', valid' \subseteq Blocks, rom' \in Contents,
         \A a \in Memory : \/ c[a] = rom'[a] \/ a \div 2 \notin valid' \/ a \div 2 \in d
  PROVE  FlushOK' /\ Coherent' /\ dirty' \subseteq valid'
<1>1. d \in SUBSET Blocks
  OBVIOUS
<1>2. /\ dirty' \subseteq d
      /\ flush' = None => d = {}
      /\ flush' # None => /\ FlushedOK(flush') /\ flush'.block \in d
                          /\ \A a \in Block(flush'.block) :
                                flush'.data[a] = c[a] /\ a \in Memory
                          /\ dirty' = d \ {flush'.block}
  BY <1>1, FlushKickTakes
<1>3. FlushOK'
  <2>1. flush' # None => \A a \in Block(flush'.block) \cap {Copy1, Copy2} :
                            flush'.data[a] \in Headers
    BY <1>2 DEF Contents
  <2> QED
    BY <1>2, <2>1 DEF FlushOK
<1>4. Coherent'
  BY <1>2 DEF Coherent
<1> QED
  BY <1>2, <1>3, <1>4

(* A callback of the joybus.                                               *)
LEMMA FlushDoneKeepsCacheInv ==
  ASSUME CacheInv, NEW accepted \in BOOLEAN, FlushDone(accepted)
  PROVE  CacheInv'
<1> DEFINE d == IF accepted THEN dirty ELSE dirty \cup {flush.block}
<1> USE DEF CacheInv
<1>1. /\ flush # None
      /\ rom' = IF accepted THEN Overwritten(rom, Block(flush.block), flush.data)
                ELSE rom
      /\ IF miss THEN dirty' = d /\ flush' = None ELSE FlushKick(d, cache)
      /\ UNCHANGED <<cache, valid, miss, todo, got, value, before, risky>>
  BY DEF FlushDone, ghosts
<1>2. PICK b \in Blocks : flush \in [block : {b}, data : [Block(b) -> CellValues]]
  BY <1>1 DEF FlushOK, FlushedOK
<1>3. /\ flush.block = b /\ flush.data \in [Block(b) -> CellValues] /\ b \in valid
      /\ \A a \in Block(b) \cap {Copy1, Copy2} : flush.data[a] \in Headers
      /\ b \in dirty \/ \A a \in Block(b) : flush.data[a] = cache[a]
  BY <1>1, <1>2 DEF FlushOK
<1>4. /\ Overwritten(rom, Block(b), flush.data) \in Contents
      /\ \A a \in Memory : Overwritten(rom, Block(b), flush.data)[a]
                             = IF a \in Block(b) THEN flush.data[a] ELSE rom[a]
  BY <1>3, OverwrittenIsContents DEF Types
<1>5. rom' \in Contents
  BY <1>1, <1>3, <1>4 DEF Types
<1>6. d \subseteq valid /\ valid \subseteq Blocks
  BY <1>3 DEF Types
<1>7. ASSUME NEW a \in Memory
      PROVE  cache[a] = rom'[a] \/ a \div 2 \notin valid \/ a \div 2 \in d
  <2>1. a \in Block(b) <=> a \div 2 = b
    BY CellsOfBlocks
  <2>2. CASE accepted
    BY <1>1, <1>3, <1>4, <2>1, <2>2 DEF Coherent
  <2>3. CASE ~ accepted
    BY <1>1, <1>3, <2>1, <2>3 DEF Coherent
  <2> QED
    BY <2>2, <2>3
<1> HIDE DEF d
<1>8. FlushOK' /\ Coherent' /\ dirty' \subseteq valid'
  <2>1. CASE miss
    BY <1>1, <1>6, <1>7, <2>1 DEF FlushOK, Coherent
  <2>2. CASE ~ miss
    <3>1. FlushKick(d, cache) /\ cache \in Contents
      BY <1>1, <2>2 DEF Types
    <3> QED
      BY <1>1, <1>5, <1>6, <1>7, <3>1, FlushKickKeeps
  <2> QED
    BY <2>1, <2>2
<1>9. Types'
  BY <1>1, <1>5, <1>8 DEF Types
<1>10. (miss => Doing("fetch"))'
  BY <1>1 DEF Doing
<1> QED
  BY <1>8, <1>9, <1>10

(* Fetching blocks that are neither valid nor dirty.                       *)
LEMMA FetchKeepsCacheInv ==
  ASSUME CacheInv, FetchBlocks
  PROVE  CacheInv'
<1> DEFINE missing == Head(todo).blocks \ (valid \cup dirty)
           fetched == UNION {Block(b) : b \in missing}
<1> USE DEF CacheInv
<1>1. /\ Doing("fetch") /\ flush = None /\ todo' = Tail(todo)
      /\ cache' = Overwritten(cache, fetched, rom)
      /\ valid' = valid \cup missing /\ miss' = FALSE
      /\ IF miss THEN FlushKick(dirty, cache') ELSE UNCHANGED <<dirty, flush>>
      /\ UNCHANGED <<rom, got, value, before, risky>>
  BY DEF FetchBlocks, Done, ghosts
<1>2. /\ Head(todo).blocks \subseteq Blocks /\ Tail(todo) \in Seq(Steps)
  <2>1. todo # <<>> /\ Head(todo) \in Fetches /\ Tail(todo) \in Seq(Steps)
    BY <1>1, NextStep DEF Types, Doing
  <2> QED
    BY <2>1 DEF Fetches
<1>3. missing \subseteq Blocks
  BY <1>2
<1>4. \A a \in Memory : a \in fetched <=> a \div 2 \in missing
  BY <1>3, CellsOfBlocks
<1> HIDE DEF fetched
<1>5. /\ cache' \in Contents
      /\ \A a \in Memory : cache'[a] = IF a \in fetched THEN rom[a] ELSE cache[a]
  <2>1. \A a \in fetched \cap Memory :
           /\ rom[a] \in CellValues
           /\ a \in {Copy1, Copy2} => rom[a] \in Headers
    BY DEF Types, Contents
  <2>2. cache \in Contents
    BY DEF Types
  <2>3. /\ Overwritten(cache, fetched, rom) \in Contents
        /\ \A a \in Memory : Overwritten(cache, fetched, rom)[a]
                               = IF a \in fetched THEN rom[a] ELSE cache[a]
    <3> HIDE DEF missing
    <3>1. Overwritten(cache, fetched, rom) \in Contents
      BY <2>1, <2>2, OverwrittenIsContents
    <3>2. \A a \in Memory : Overwritten(cache, fetched, rom)[a]
                               = IF a \in fetched THEN rom[a] ELSE cache[a]
      BY <2>1, <2>2, OverwrittenIsContents
    <3> QED
      BY <3>1, <3>2
  <2> QED
    BY <1>1, <2>3
<1>6. valid' \subseteq Blocks /\ dirty \subseteq valid'
  BY <1>1, <1>3 DEF Types
<1>7. ASSUME NEW a \in Memory
      PROVE  cache'[a] = rom[a] \/ a \div 2 \notin valid' \/ a \div 2 \in dirty
  BY <1>1, <1>4, <1>5 DEF Coherent
<1>8. FlushOK' /\ Coherent' /\ dirty' \subseteq valid'
  <2>1. CASE ~ miss
    <3>1. UNCHANGED <<dirty, flush, rom>> /\ flush = None /\ dirty = {}
      BY <1>1, <2>1 DEF FlushOK
    <3>2. FlushOK'
      BY <3>1 DEF FlushOK
    <3>3. Coherent'
      BY <1>7, <3>1 DEF Coherent
    <3> QED
      BY <3>1, <3>2, <3>3
  <2>2. CASE miss
    <3>1. FlushKick(dirty, cache') /\ rom' \in Contents /\ rom' = rom
      BY <1>1, <2>2 DEF Types
    <3> QED
      BY <1>5, <1>6, <1>7, <3>1, FlushKickKeeps
  <2> QED
    BY <2>1, <2>2
<1>9. Types'
  BY <1>1, <1>2, <1>5, <1>6, <1>8 DEF Types
<1> QED
  BY <1>1, <1>8, <1>9

(* A write to the cache.                                                   *)
LEMMA StoreKeepsCacheInv ==
  ASSUME CacheInv, StoreBytes
  PROVE  CacheInv'
<1> DEFINE a == Head(todo).at
           data == Head(todo).data
           new == [i \in a .. (a + Len(data) - 1) |-> data[i - a + 1]]
           bs == FirstBlock(a) .. LastBlock(a, Len(data))
           d == dirty \cup bs
<1> USE DEF CacheInv
<1>1. /\ Doing("store") /\ todo' = Tail(todo)
      /\ cache' = Overwritten(cache, DOMAIN new, new)
      /\ valid' = valid \cup bs
      /\ Kick(d, cache')
      /\ UNCHANGED <<rom, miss, got, value, before, risky>>
  BY DEF StoreBytes, Done, ghosts
<1>2. todo # <<>> /\ Head(todo) \in Stores /\ Tail(todo) \in Seq(Steps) /\ ~ miss
  BY <1>1, NextStep DEF Types, Doing
<1>3. /\ a \in Memory /\ data \in Seq(CellValues) /\ Len(data) # 0
      /\ a + Len(data) - 1 \in Memory
      /\ \A c \in {Copy1, Copy2} :
            c \in a .. (a + Len(data) - 1) => data[c - a + 1] \in Headers
  BY <1>2 DEF Stores
<1> HIDE DEF a, data
<1>4. Len(data) \in Nat \ {0} /\ \A i \in 1 .. Len(data) : data[i] \in CellValues
  BY <1>3
<1>5. PICK h \in Nat : Memory = 0 .. (4 * h + 1) /\ Blocks = 0 .. (2 * h)
  BY Layout
<1>6. /\ DOMAIN new = a .. (a + Len(data) - 1) /\ DOMAIN new \subseteq Memory
      /\ \A i \in DOMAIN new : new[i] \in CellValues
      /\ \A c \in {Copy1, Copy2} : c \in DOMAIN new => new[c] \in Headers
  <2>1. \A i \in a .. (a + Len(data) - 1) : i - a + 1 \in 1 .. Len(data)
    BY <1>3, <1>4, <1>5
  <2>2. a .. (a + Len(data) - 1) \subseteq Memory
    BY <1>3, <1>4, <1>5
  <2> QED
    BY <1>3, <1>4, <2>1, <2>2
<1>7. bs \subseteq Blocks /\ \A i \in DOMAIN new : i \div 2 \in bs
  <2>1. bs \subseteq Blocks
    BY <1>3, <1>4, <1>5 DEF FirstBlock, LastBlock
  <2>2. \A i \in a .. (a + Len(data) - 1) : i \div 2 \in bs
    BY <1>3, <1>4, <1>5 DEF FirstBlock, LastBlock
  <2> QED
    BY <1>6, <2>1, <2>2
<1> HIDE DEF new, bs
<1>8. /\ cache' \in Contents
      /\ \A i \in Memory : cache'[i] = IF i \in DOMAIN new THEN new[i] ELSE cache[i]
  <2>1. \A i \in DOMAIN new \cap Memory : /\ new[i] \in CellValues
                                          /\ i \in {Copy1, Copy2} => new[i] \in Headers
    BY <1>6
  <2> QED
    BY <1>1, <2>1, OverwrittenIsContents DEF Types
<1>9. valid' \subseteq Blocks /\ d \subseteq valid'
  BY <1>1, <1>7 DEF Types
<1>10. FlushOK' /\ Coherent' /\ dirty' \subseteq valid'
  <2>1. CASE flush = None
    <3>1. FlushKick(d, cache') /\ rom' \in Contents /\ rom' = rom
      BY <1>1, <2>1 DEF Kick, Types
    <3>2. \A i \in Memory : \/ cache'[i] = rom'[i] \/ i \div 2 \notin valid'
                            \/ i \div 2 \in d
      BY <1>1, <1>7, <1>8, <2>1 DEF Coherent
    <3> HIDE DEF d
    <3> QED
      BY <1>8, <1>9, <3>1, <3>2, FlushKickKeeps
  <2>2. CASE flush # None
    <3>1. dirty' = d /\ flush' = flush /\ rom' = rom
      BY <1>1, <2>2 DEF Kick
    <3>2. Coherent'
      BY <1>1, <1>7, <1>8, <3>1 DEF Coherent
    <3>3. FlushOK'
      <4>1. /\ FlushedOK(flush) /\ flush.block \in valid' /\ flush.block \in Blocks
            /\ \A i \in Block(flush.block) \cap {Copy1, Copy2} : flush.data[i] \in Headers
        BY <1>1, <2>2 DEF FlushOK, Types
      <4>2. \/ flush.block \in d
            \/ \A i \in Block(flush.block) : flush.data[i] = cache'[i]
        <5>1. SUFFICES ASSUME flush.block \notin d, NEW i \in Block(flush.block)
                       PROVE  flush.data[i] = cache'[i]
          OBVIOUS
        <5>2. i \in Memory /\ i \div 2 = flush.block
          BY <4>1, CellsOfBlocks
        <5>3. i \notin DOMAIN new
          BY <1>7, <5>1, <5>2
        <5>4. flush.data[i] = cache[i]
          BY <2>2, <5>1 DEF FlushOK
        <5> QED
          BY <1>8, <5>2, <5>3, <5>4
      <4> QED
        BY <2>2, <3>1, <4>1, <4>2 DEF FlushOK, FlushedOK
    <3> QED
      BY <1>9, <3>1, <3>2, <3>3
  <2> QED
    BY <2>1, <2>2
<1>11. Types'
  BY <1>1, <1>2, <1>8, <1>9, <1>10 DEF Types
<1> QED
  BY <1>1, <1>2, <1>10, <1>11

(* A block is being written: the thread waits.                             *)
LEMMA PauseKeepsCacheInv ==
  ASSUME CacheInv, FlushPause
  PROVE  CacheInv'
BY DEF CacheInv, FlushPause, Types, FlushOK, FlushedOK, Coherent, Doing, ghosts

(* The steps that leave the cache alone.                                   *)
LEMMA QuietKeepsCacheInv ==
  ASSUME CacheInv, Quiet, miss => todo' = todo,
         todo' \in Seq(Steps),
         value' \in Values \cup {None}, before' \in Values \cup {None},
         risky' \in BOOLEAN, got' \in {<<>>} \cup {<<v>> : v \in Values \cup {None}}
  PROVE  CacheInv'
<1>1. UNCHANGED <<rom, cache, valid, dirty, flush, miss>>
  BY DEF Quiet
<1>2. Types' /\ FlushOK' /\ Coherent'
  BY <1>1 DEF CacheInv, Types, FlushOK, FlushedOK, Coherent
<1>3. (miss => Doing("fetch"))'
  BY <1>1 DEF CacheInv, Doing
<1> QED
  BY <1>2, <1>3 DEF CacheInv

(* The calls keep the invariant.                                           *)
LEMMA CallsKeepCacheInv ==
  ASSUME CacheInv,
         \/ WaitIdle \/ VerifySignature \/ ReadMain \/ MainRead \/ BackupRead
         \/ WriteBackup \/ EraseBlocks
         \/ EepfsRead \/ EepfsErase \/ \E v \in Values : EepfsWrite(v)
  PROVE  CacheInv'
<1> USE DEF ghosts, Doing, Done
<1>1. /\ Quiet /\ ~ miss
  <2>1. Quiet
    BY DEF WaitIdle, Quiet, VerifySignature, ReadMain, MainRead, BackupRead,
           WriteBackup, EraseBlocks, EepfsRead, EepfsErase, EepfsWrite
  <2>2. todo = <<>> \/ Head(todo).op # "fetch"
    BY DEF WaitIdle, VerifySignature, ReadMain, MainRead, BackupRead,
           WriteBackup, EraseBlocks, EepfsRead, EepfsErase, EepfsWrite
  <2> QED
    BY <2>1, <2>2 DEF CacheInv
<1>2. /\ todo \in Seq(Steps) /\ cache \in Contents
      /\ value \in Values \cup {None} /\ before \in Values \cup {None}
      /\ risky \in BOOLEAN /\ got \in {<<>>} \cup {<<v>> : v \in Values \cup {None}}
  BY DEF CacheInv, Types
<1>3. /\ Main(cache) \in {Copy1, Copy2} /\ Other(Main(cache)) \in {Copy1, Copy2}
      /\ \A c \in {Copy1, Copy2} : /\ cache[c].sum \in Values \cup {None}
                                   /\ cache[c].gen \in 0 .. (Generations - 1)
  BY <1>2, FoundIsValue
<1>4. todo # <<>> => Tail(todo) \in Seq(Steps)
  BY <1>2, NextStep
<1>5. <<>> \in Seq(Steps) /\ <<>> \in {<<>>} \cup {<<v>> : v \in Values \cup {None}}
  OBVIOUS
<1>6. ASSUME WaitIdle \/ VerifySignature PROVE CacheInv'
  <2>1. /\ UNCHANGED <<got, value, before, risky>>
        /\ todo' \in Seq(Steps)
    BY <1>4, <1>5, <1>6, EraseSteps DEF WaitIdle, VerifySignature
  <2> QED
    BY <1>1, <1>2, <2>1, QuietKeepsCacheInv
<1>7. ASSUME ReadMain PROVE CacheInv'
  <2>1. /\ UNCHANGED <<got, value, before, risky>>
        /\ todo' = ReadBytes(Main(cache), FileSize + 1) \o <<Step("main")>>
    BY <1>7 DEF ReadMain
  <2>2. todo' \in Seq(Steps)
    BY <1>3, <2>1, ReadCopySteps, OtherSteps, ConcatProperties
  <2> QED
    BY <1>1, <1>2, <2>1, <2>2, QuietKeepsCacheInv
<1>8. ASSUME MainRead PROVE CacheInv'
  <2>1. UNCHANGED <<value, before, risky>>
    BY <1>8 DEF MainRead
  <2>2. CASE todo' = <<>> /\ got' = <<cache[Main(cache)].sum>>
    <3>1. got' \in {<<v>> : v \in Values \cup {None}}
      BY <1>3, <2>2
    <3> QED
      BY <1>1, <1>2, <1>5, <2>1, <2>2, <3>1, QuietKeepsCacheInv
  <2>3. CASE /\ todo' = ReadBytes(Other(Main(cache)), FileSize + 1) \o <<Step("backup")>>
             /\ UNCHANGED got
    <3>1. todo' \in Seq(Steps)
      BY <1>3, <2>3, ReadCopySteps, OtherSteps, ConcatProperties
    <3> QED
      BY <1>1, <1>2, <2>1, <2>3, <3>1, QuietKeepsCacheInv
  <2> QED
    BY <1>8, <2>2, <2>3 DEF MainRead
<1>9. ASSUME BackupRead PROVE CacheInv'
  <2>1. /\ UNCHANGED <<value, before, risky>> /\ todo # <<>> /\ todo' = Tail(todo)
        /\ got' = <<IF Whole(cache, Other(Main(cache))) THEN cache[Other(Main(cache))].sum
                    ELSE None>>
    BY <1>9 DEF BackupRead
  <2>2. got' \in {<<v>> : v \in Values \cup {None}}
    BY <1>3, <2>1
  <2> QED
    BY <1>1, <1>2, <1>4, <2>1, <2>2, QuietKeepsCacheInv
<1>10. ASSUME WriteBackup PROVE CacheInv'
  <2>1. todo # <<>> /\ Head(todo) \in Writes
    BY <1>2, <1>10, NextStep DEF WriteBackup
  <2> DEFINE v == Head(todo).value
             gen == (cache[Main(cache)].gen + 1) % Generations
  <2>2. v \in Values
    BY <2>1 DEF Writes
  <2>3. /\ todo' = WriteTo(Other(Main(cache)), Header(gen, v), v)
        /\ value' = v /\ before' = value /\ UNCHANGED got
        /\ risky' = (Whole(rom, Other(Main(cache))) /\ ~ Whole(rom, Main(cache)))
    BY <1>10 DEF WriteBackup
  <2> HIDE DEF v
  <2>4. gen \in 0 .. (Generations - 1)
    <3>1. cache[Main(cache)].gen \in Nat /\ Generations \in Nat \ {0}
      BY <1>3, EepromAssumption
    <3> QED
      BY <3>1
  <2> HIDE DEF gen
  <2>5. Header(gen, v) \in Headers
    BY <2>2, <2>4 DEF Header, Headers
  <2>6. todo' \in Seq(Steps)
    BY <1>3, <2>2, <2>3, <2>5, WriteToSteps
  <2>7. risky' \in BOOLEAN
    BY <2>3 DEF Whole
  <2> QED
    BY <1>1, <1>2, <2>2, <2>3, <2>6, <2>7, QuietKeepsCacheInv
<1>11. ASSUME EraseBlocks PROVE CacheInv'
  <2> DEFINE erased == UNION {Block(b) : b \in (Copy1 \div 2) ..
                          ((Copy1 \div 2) + (Cells(FileSize) \div 2) - 1)}
  <2>1. /\ todo' = [i \in 1 .. (Cells(FileSize) \div 2) |->
                       EraseBlock((Copy1 \div 2) + i - 1)]
        /\ value' = Stored(Overwritten(Seen, erased, Zero)) /\ before' = value
        /\ risky' = FALSE /\ UNCHANGED got
    BY <1>11 DEF EraseBlocks
  <2>2. todo' \in Seq(Steps)
    BY <2>1, EraseSteps
  <2> HIDE DEF erased
  <2>3. Overwritten(Seen, erased, Zero) \in Contents
    <3>1. Seen \in Contents
      BY SeenIsContents DEF CacheInv
    <3>2. \A a \in erased \cap Memory : /\ Zero[a] \in CellValues
                                        /\ a \in {Copy1, Copy2} => Zero[a] \in Headers
      BY ZeroIsContents DEF Contents
    <3> QED
      BY <3>1, <3>2, OverwrittenIsContents
  <2>4. value' \in Values \cup {None}
    BY <2>1, <2>3, FoundIsValue
  <2> QED
    BY <1>1, <1>2, <2>1, <2>2, <2>4, QuietKeepsCacheInv
<1>12. ASSUME EepfsRead PROVE CacheInv'
  <2>1. /\ todo' = GetStart \o <<Step("read")>> /\ got' = <<>>
        /\ UNCHANGED <<value, before, risky>>
    BY <1>12 DEF EepfsRead
  <2>2. todo' \in Seq(Steps)
    BY <2>1, StartSteps, OtherSteps, ConcatProperties
  <2> QED
    BY <1>1, <1>2, <1>5, <2>1, <2>2, QuietKeepsCacheInv
<1>13. ASSUME EepfsErase PROVE CacheInv'
  <2>1. /\ todo' = Wait \o <<Step("erase")>> /\ got' = <<>>
        /\ UNCHANGED <<value, before, risky>>
    BY <1>13 DEF EepfsErase
  <2>2. todo' \in Seq(Steps)
    BY <2>1, StartSteps, OtherSteps, ConcatProperties
  <2> QED
    BY <1>1, <1>2, <1>5, <2>1, <2>2, QuietKeepsCacheInv
<1>14. ASSUME NEW v \in Values, EepfsWrite(v) PROVE CacheInv'
  <2>1. /\ todo' = Wait \o GetStart \o <<[op |-> "write", value |-> v]>>
        /\ got' = <<>> /\ UNCHANGED <<value, before, risky>>
    BY <1>14 DEF EepfsWrite
  <2>2. [op |-> "write", value |-> v] \in Steps
    BY DEF Steps, Writes
  <2>3. <<[op |-> "write", value |-> v]>> \in Seq(Steps)
    BY <2>2, OneStep
  <2>4. Wait \o GetStart \in Seq(Steps)
    BY StartSteps, ConcatProperties
  <2>5. todo' \in Seq(Steps)
    BY <2>1, <2>3, <2>4, ConcatProperties
  <2> QED
    BY <1>1, <1>2, <1>5, <2>1, <2>5, QuietKeepsCacheInv
<1> QED
  BY <1>6, <1>7, <1>8, <1>9, <1>10, <1>11, <1>12, <1>13, <1>14

(* A power failure leaves contents, and nothing in the cache.              *)
LEMMA PowerFailsKeepsCacheInv ==
  ASSUME CacheInv, PowerFails
  PROVE  CacheInv'
<1>1. /\ got' = <<>> /\ cache' = Zero /\ valid' = {} /\ dirty' = {}
      /\ flush' = None /\ miss' = FALSE /\ todo' = Boot
      /\ value' = Stored(rom') /\ before' = value' /\ risky' = FALSE
  BY DEF PowerFails
<1>2. rom' \in Contents
  <2>1. CASE UNCHANGED rom
    BY <2>1 DEF CacheInv, Types
  <2>2. CASE /\ flush # None
             /\ rom' = Overwritten(rom, Block(flush.block), flush.data)
    <3>1. PICK b \in Blocks : flush \in [block : {b}, data : [Block(b) -> CellValues]]
      BY <2>2 DEF CacheInv, FlushOK, FlushedOK
    <3>2. \A a \in Block(flush.block) \cap Memory :
             /\ flush.data[a] \in CellValues
             /\ a \in {Copy1, Copy2} => flush.data[a] \in Headers
      BY <2>2, <3>1 DEF CacheInv, FlushOK
    <3> QED
      BY <2>2, <3>2, OverwrittenIsContents DEF CacheInv, Types
  <2>3. CASE \E junk \in Junk : rom' = Overwritten(rom, Block(flush.block), junk)
    <3>1. PICK junk \in Junk : rom' = Overwritten(rom, Block(flush.block), junk)
      BY <2>3
    <3>2. \A a \in Block(flush.block) \cap Memory :
             /\ junk[a] \in CellValues
             /\ a \in {Copy1, Copy2} => junk[a] \in Headers
      BY JunkIsContents DEF Contents
    <3> QED
      BY <3>1, <3>2, OverwrittenIsContents DEF CacheInv, Types
  <2> QED
    BY <2>1, <2>2, <2>3 DEF PowerFails
<1>3. value' \in Values \cup {None}
  BY <1>1, <1>2, FoundIsValue
<1>4. Types'
  BY <1>1, <1>2, <1>3, StartSteps, ZeroIsContents DEF Types
<1>5. FlushOK' /\ Coherent'
  BY <1>1 DEF FlushOK, Coherent
<1> QED
  BY <1>1, <1>4, <1>5 DEF CacheInv

(* The invariant holds at power-on.                                        *)
LEMMA InitCacheInv == Init => CacheInv
<1> SUFFICES ASSUME Init PROVE CacheInv
  OBVIOUS
<1>1. Types
  BY StartSteps, ZeroIsContents, JunkIsContents DEF Init, Types
<1>2. FlushOK /\ Coherent
  BY DEF Init, FlushOK, Coherent
<1> QED
  BY <1>1, <1>2 DEF Init, CacheInv

(* No step breaks it, a loss of power included.                            *)
LEMMA NextKeepsCacheInv ==
  ASSUME CacheInv, [Next]_vars
  PROVE  CacheInv'
<1>1. ASSUME UNCHANGED vars PROVE CacheInv'
  BY <1>1 DEF vars, ghosts, CacheInv, Types, FlushOK, FlushedOK, Coherent, Doing
<1> QED
  BY <1>1, FlushDoneKeepsCacheInv, FetchKeepsCacheInv, StoreKeepsCacheInv,
     PauseKeepsCacheInv, CallsKeepCacheInv, PowerFailsKeepsCacheInv
     DEF Next, CallStep

(* In every reachable state the cache differs from the EEPROM only in      *)
(* blocks that are dirty or being written, the steps that are left of a    *)
(* call stay in the EEPROM, and nothing that is dirty is forgotten: if no  *)
(* block is being written, a read is about to resume the flush.            *)
THEOREM CacheInvHolds == Spec => []CacheInv
<1>1. CacheInv /\ [Next]_vars => CacheInv'
  BY NextKeepsCacheInv
<1> QED
  BY InitCacheInv, <1>1, PTL DEF Spec

(* The write-back cache is coherent.                                       *)
THEOREM EepromTypesHold == Spec => []TypeOK
<1>1. CacheInv => TypeOK
  BY DEF CacheInv, Types, FlushOK, Coherent, TypeOK
<1> QED
  BY CacheInvHolds, <1>1, PTL

(* When a call has returned and eeprom_is_busy is false, the EEPROM holds  *)
(* what the program has written.                                           *)
THEOREM IdleIsWritten == Spec => []IdleMeansWritten
<1>1. CacheInv => IdleMeansWritten
  <2> SUFFICES ASSUME CacheInv, todo = <<>>, flush = None PROVE Seen = rom
    BY DEF IdleMeansWritten
  <2>1. dirty = {}
    BY DEF CacheInv, FlushOK, Doing
  <2>2. \A a \in Memory : Seen[a] = rom[a]
    BY <2>1 DEF CacheInv, Coherent, Seen
  <2>3. Seen = [a \in Memory |-> Seen[a]] /\ rom = [a \in Memory |-> rom[a]]
    BY DEF Seen, CacheInv, Types, Contents
  <2> QED
    BY <2>2, <2>3
<1> QED
  BY CacheInvHolds, <1>1, PTL
-----------------------------------------------------------------------------
(* The file.  The cells that a store writes, their blocks and their new    *)
(* contents; the blocks that are valid after a step.                       *)
Storing(s) == s.op = "store"
Fetching(s) == s.op = "fetch"

At(s) == s.at .. (s.at + Len(s.data) - 1)
Over(s) == FirstBlock(s.at) .. LastBlock(s.at, Len(s.data))
Datum(s, a) == s.data[a - s.at + 1]

Reach(s) == IF Fetching(s) THEN s.blocks ELSE IF Storing(s) THEN Over(s) ELSE {}

Ahead(op) == \E i \in DOMAIN todo : todo[i].op = op

(* The blocks that must be valid when the step is taken, if a read of the  *)
(* memory would return f: those that a store does not overwrite, those     *)
(* with the generations, and the copy that is read.                        *)
CopyBlocks(c) == FirstBlock(c) .. LastBlock(c, FileSize + 1)
HeaderBlocks == {FirstBlock(Copy1), FirstBlock(Copy2)}

Needs(f, s) ==
  IF Storing(s) THEN {b \in Over(s) : ~ (Block(b) \subseteq At(s))}
  ELSE IF s.op = "verify" THEN {0}
  ELSE IF s.op \in {"read", "write"} THEN HeaderBlocks
  ELSE IF s.op = "main" THEN HeaderBlocks \cup CopyBlocks(Main(f))
  ELSE IF s.op = "backup" THEN HeaderBlocks \cup CopyBlocks(Other(Main(f)))
  ELSE {}

Ready(i, b) == b \in valid \/ \E j \in 1 .. (i - 1) : b \in Reach(todo[j])

Prepared(f) ==
  /\ \A i \in DOMAIN todo : \A b \in Needs(f, todo[i]) : Ready(i, b)
  /\ Ahead("backup") => ~ Whole(f, Main(f))

(* f is what a read will return when the stores that are left of the call  *)
(* are done.                                                               *)
Becomes(f) ==
  /\ \A i \in DOMAIN todo : Storing(todo[i]) =>
        \A a \in At(todo[i]) : Datum(todo[i], a) = f[a]
  /\ \A a \in Memory : \/ f[a] = Seen[a]
                       \/ \E i \in DOMAIN todo : Storing(todo[i]) /\ a \in At(todo[i])

Final(f) == Becomes(f) /\ Stored(f) = value /\ (f[0] = Signature \/ Ahead("verify"))

(* Stores are not mixed with other steps.                                  *)
Unmixed ==
  (\E i \in DOMAIN todo : ~ Fetching(todo[i]) /\ ~ Storing(todo[i]))
    => \A i \in DOMAIN todo : ~ Storing(todo[i])

Still == dirty = {} /\ flush = None

Waited == (Ahead("write") \/ Ahead("erase")) => (Doing("wait") \/ Still)

(* No copy has contents.                                                   *)
Empty(m) == m[Copy1].sum = None /\ m[Copy2].sum = None

Starting == Ahead("verify") => /\ Still /\ before = value
                               /\ rom[0] = Signature \/ Empty(rom)
                               /\ \A i \in DOMAIN todo :
                                     Fetching(todo[i]) \/ todo[i].op = "verify"

(* A tells for every cell what it may hold until the call is persisted: in *)
(* the EEPROM, in the cache, in the block that is being written, when that *)
(* one is torn, and in what is still to be stored.                         *)
Limits == [Memory -> SUBSET CellValues]

Within(A, m) == \A a \in Memory : m[a] \in A[a]

Torn(A, b) == \A a \in Block(b) : \A junk \in Junk : junk[a] \in A[a]

Possible(A) ==
  /\ Within(A, rom)
  /\ \A a \in Memory : a \div 2 \in valid => cache[a] \in A[a]
  /\ flush # None => /\ \A a \in Block(flush.block) : flush.data[a] \in A[a]
                     /\ Torn(A, flush.block)
  /\ \A b \in dirty : Torn(A, b)
  /\ \A i \in DOMAIN todo : Storing(todo[i]) =>
        /\ \A a \in At(todo[i]) : Datum(todo[i], a) \in A[a]
        /\ \A b \in Over(todo[i]) : Torn(A, b)

(* Whatever the EEPROM is left with, it is the new file or the old one.    *)
Harmless(A) ==
  \A m \in Contents : Within(A, m) => /\ Stored(m) \in {before, value}
                                      /\ m[0] = Signature \/ Empty(m)

Safe == Settled \/ risky \/ \E A \in Limits : Possible(A) /\ Harmless(A)

Orderly == Unmixed /\ Waited /\ Starting

FileInv == /\ \E f \in Contents : Final(f) /\ Prepared(f)
           /\ Orderly /\ Safe

-----------------------------------------------------------------------------
(* The copy with the generation after that of the other one is the later.  *)
LEMMA TheLater ==
  ASSUME NEW m \in Contents, NEW c \in {Copy1, Copy2},
         m[c].gen = (m[Other(c)].gen + 1) % Generations
  PROVE  Main(m) = c
<1>1. PICK n \in Nat : n = Generations
  BY EepromAssumption
<1>2. n \in Nat \ {0} /\ n % 2 = 0 /\ n > 2
  BY <1>1, EepromAssumption
<1>3. PICK g \in 0 .. (n - 1) : g = m[Other(c)].gen
  BY <1>1, CellsOfBlocks DEF Contents, Headers, Other
<1>4. PICK k \in 0 .. (n - 1) : k = m[c].gen
  BY <1>1, CellsOfBlocks DEF Contents, Headers, Other
<1>5. k = (g + 1) % n
  BY <1>1, <1>3, <1>4
<1>6. (g + 1 < n /\ k = g + 1) \/ (g + 1 = n /\ k = 0)
  <2>1. CASE g + 1 < n
    BY <1>2, <1>5, <2>1
  <2>2. CASE g + 1 >= n
    <3>1. g + 1 = n /\ n % n = 0
      BY <1>2, <2>2
    <3> QED
      BY <1>5, <3>1
  <2> QED
    BY <2>1, <2>2
<1>7. 1 < n \div 2 /\ n - 1 >= n \div 2 /\ n \div 2 \in Nat
  BY ONLY <1>2, n \in Nat
<1>8. (n + k - g) % n = 1
  <2>1. CASE g + 1 < n
    BY <1>2, <1>6, <2>1
  <2>2. CASE g + 1 = n
    BY <1>2, <1>6, <2>2
  <2> QED
    BY <1>6, <2>1, <2>2
<1>9. (n + g - k) % n = n - 1
  <2>1. CASE g + 1 < n
    BY <1>2, <1>6, <2>1
  <2>2. CASE g + 1 = n
    <3>1. n + g - k = n + (n - 1)
      BY <1>2, <1>6, <2>2
    <3>2. (n + (n - 1)) % n = n - 1
      BY <1>2
    <3> QED
      BY <3>1, <3>2
  <2> QED
    BY <1>6, <2>1, <2>2
<1>10. CASE c = Copy1
  <2>1. m[Copy1].gen = k /\ m[Copy2].gen = g
    BY <1>3, <1>4, <1>10 DEF Other
  <2>2. ~ ((n + k - g) % n >= n \div 2)
    BY <1>7, <1>8
  <2> QED
    BY <1>1, <1>10, <2>1, <2>2 DEF Main
<1>11. CASE c = Copy2
  <2>1. m[Copy1].gen = g /\ m[Copy2].gen = k
    BY <1>3, <1>4, <1>11, CellsOfBlocks DEF Other
  <2>2. (n + g - k) % n >= n \div 2
    BY <1>7, <1>9
  <2> QED
    BY <1>1, <1>11, <2>1, <2>2 DEF Main
<1> QED
  BY <1>10, <1>11

(* The main copy depends on the generations only.                          *)
LEMMA SameMain ==
  ASSUME NEW m, NEW o, m[Copy1].gen = o[Copy1].gen, m[Copy2].gen = o[Copy2].gen
  PROVE  Main(m) = Main(o)
BY DEF Main

(* What is found, when one copy is not whole.                              *)
LEMMA FoundIs ==
  ASSUME NEW m, NEW c \in {Copy1, Copy2}, ~ Whole(m, c)
  PROVE  Found(m) = IF Whole(m, Other(c)) THEN m[Other(c)].sum ELSE None
<1>1. Main(m) \in {Copy1, Copy2} /\ Copy1 # Copy2
  BY CellsOfBlocks DEF Main
<1>2. \/ Main(m) = c /\ Other(Main(m)) = Other(c)
      \/ Main(m) = Other(c) /\ Other(Main(m)) = c
  BY <1>1 DEF Other
<1> QED
  BY <1>2 DEF Found

LEMMA NothingFound ==
  ASSUME NEW m, Empty(m)
  PROVE  Found(m) = None /\ Stored(m) = None
<1>1. ~ Whole(m, Copy1) /\ ~ Whole(m, Copy2)
  BY DEF Empty, Whole
<1>2. Found(m) = None
  BY <1>1, FoundIs DEF Other
<1> QED
  BY <1>2 DEF Stored

LEMMA JunkIsEmpty ==
  ASSUME NEW junk \in Junk
  PROVE  /\ Empty(junk) /\ junk \in Contents /\ junk[Copy1] \in Headers /\ junk[Copy2] \in Headers
         /\ \A a \in Memory : a \notin {Copy1, Copy2} => junk[a] = None
<1>1. junk \in Contents
  BY JunkIsContents
<1>2. PICK g \in Noise, h \in Noise : junk = JunkOf(g, h)
  <2>1. Junk = {JunkOf(g, h) : g, h \in Noise}
    BY DEF Junk, JunkOf
  <2> QED
    BY <2>1
<1>3. /\ Zero[Copy1].sum = None /\ Zero[Copy2].sum = None
      /\ \A a \in Memory : a \notin {Copy1, Copy2} => Zero[a] = None
      /\ Copy1 # Copy2 /\ Copy1 \in Memory /\ Copy2 \in Memory /\ DOMAIN Zero = Memory
  BY CellsOfBlocks DEF Zero, Header
<1>4. /\ junk[Copy1] = [Zero[Copy1] EXCEPT !.gen = g]
      /\ junk[Copy2] = [Zero[Copy2] EXCEPT !.gen = h]
      /\ \A a \in Memory : a \notin {Copy1, Copy2} => junk[a] = Zero[a]
  BY <1>2, <1>3 DEF JunkOf
<1>5. Zero[Copy1] \in Headers /\ Zero[Copy2] \in Headers
  BY ZeroIsContents DEF Contents
<1>6. junk[Copy1].sum = None /\ junk[Copy2].sum = None
  BY <1>3, <1>4, <1>5 DEF Headers
<1> QED
  BY <1>1, <1>3, <1>4, <1>6 DEF Empty, Contents

-----------------------------------------------------------------------------
(* The blocks of a copy.                                                   *)
Region(c) == c .. (c + Cells(FileSize + 1) - 1)

LEMMA Regions ==
  ASSUME NEW c \in {Copy1, Copy2}
  PROVE  /\ Region(c) \subseteq Memory /\ c \in Region(c) /\ 0 \notin Region(c)
         /\ c \in Nat /\ FileSize \in Nat \ {0} /\ c \in Memory
         /\ \A i \in 1 .. FileSize : /\ c + i \in Region(c) /\ c + i \in Memory /\ c + i # c
                                     /\ c + i \notin {Copy1, Copy2}
         /\ Other(c) \in {Copy1, Copy2} /\ Other(Other(c)) = c /\ Other(c) # c
         /\ Other(c) \notin Region(c)
         /\ \A i \in 1 .. FileSize : Other(c) + i \notin Region(c)
<1>1. PICK h \in Nat \ {0} :
        /\ Cells(FileSize + 1) = 2 * h /\ FileSize + 1 <= 2 * h
        /\ FileSize \in Nat \ {0} /\ Copy1 = 2 /\ Copy2 = 2 + 2 * h
        /\ Memory = 0 .. (4 * h + 1)
  BY Layout
<1>2. CASE c = Copy1
  BY <1>1, <1>2 DEF Region, Other
<1>3. CASE c = Copy2
  BY <1>1, <1>3 DEF Region, Other
<1> QED
  BY <1>2, <1>3

(* Whether a copy is whole depends on its cells only.                      *)
LEMMA SameWhole ==
  ASSUME NEW m, NEW o, NEW c, m[c] = o[c],
         \A i \in 1 .. FileSize : m[c + i] = o[c + i]
  PROVE  Whole(m, c) <=> Whole(o, c)
BY DEF Whole

(* What the cells may hold while the copy c of o is overwritten with v, or *)
(* erased if v is None: the contents are old, new or torn, and so is the   *)
(* header.                                                                 *)
NewHeader(o, c, v) == Header((o[Other(c)].gen + 1) % Generations, v)

Limit(o, c, v) ==
  [a \in Memory |->
     IF a \notin Region(c) THEN {o[a]}
     ELSE IF a = c THEN {o[a], NewHeader(o, c, v)} \cup {x \in Headers : x.sum = None}
     ELSE IF a <= c + FileSize THEN {o[a], v, None}
     ELSE CellValues]

LEMMA InTheLimit ==
  ASSUME NEW o \in Contents, NEW c \in {Copy1, Copy2}, NEW v \in Values \cup {None},
         NEW m, Within(Limit(o, c, v), m)
  PROVE  /\ \A a \in Memory : a \notin Region(c) => m[a] = o[a]
         /\ m[c] = o[c] \/ m[c] = NewHeader(o, c, v) \/ m[c].sum = None
         /\ \A i \in 1 .. FileSize : m[c + i] \in {o[c + i], v, None}
<1>1. \A a \in Memory : m[a] \in Limit(o, c, v)[a]
  BY DEF Within
<1>2. \A a \in Memory : a \notin Region(c) => m[a] = o[a]
  BY <1>1 DEF Limit
<1>3. m[c] = o[c] \/ m[c] = NewHeader(o, c, v) \/ m[c].sum = None
  BY <1>1, Regions DEF Limit
<1>4. ASSUME NEW i \in 1 .. FileSize
      PROVE  m[c + i] \in {o[c + i], v, None}
  <2>1. c + i \in Memory /\ c + i \in Region(c) /\ c + i # c /\ c + i <= c + FileSize
    BY Regions
  <2> QED
    BY <1>1, <2>1 DEF Limit
<1> QED
  BY <1>2, <1>3, <1>4

(* Whatever is left of a write over the copy that is not the main one, the *)
(* file is the old one or the new one, unless that copy was the only good  *)
(* one.                                                                    *)
LEMMA WriteHarmless ==
  ASSUME NEW o \in Contents, NEW v \in Values, o[0] = Signature,
         NEW c, c = Other(Main(o)), Whole(o, c) => Whole(o, Main(o)),
         NEW m \in Contents, Within(Limit(o, c, v), m)
  PROVE  m[0] = Signature /\ Stored(m) \in {Stored(o), v}
<1>0. c \in {Copy1, Copy2} /\ Main(o) = Other(c) /\ Main(o) \in {Copy1, Copy2} /\ v # None
  <2>1. Main(o) \in {Copy1, Copy2}
    BY DEF Main
  <2> QED
    BY <2>1, Regions, EepromAssumption DEF Other
<1>1. /\ \A a \in Memory : a \notin Region(c) => m[a] = o[a]
      /\ m[c] = o[c] \/ m[c] = NewHeader(o, c, v) \/ m[c].sum = None
      /\ \A i \in 1 .. FileSize : m[c + i] \in {o[c + i], v, None}
  BY <1>0, InTheLimit
<1>2. m[0] = Signature
  BY <1>0, <1>1, Regions, CellsOfBlocks
<1>3. m[Other(c)] = o[Other(c)] /\ (Whole(m, Other(c)) <=> Whole(o, Other(c)))
  <2>1. /\ Other(c) \in Memory /\ Other(c) \notin Region(c)
        /\ \A i \in 1 .. FileSize : Other(c) + i \in Memory /\ Other(c) + i \notin Region(c)
    BY <1>0, Regions
  <2> QED
    BY <1>1, <2>1, SameWhole
<1>4. Found(o) = IF Whole(o, Other(c)) THEN o[Other(c)].sum ELSE None
  BY <1>0 DEF Found
<1>5. Found(m) \in {Found(o), v}
  <2>1. CASE ~ Whole(m, c)
    BY <1>0, <1>3, <1>4, <2>1, FoundIs
  <2>2. CASE Whole(m, c) /\ m[c] = NewHeader(o, c, v)
    <3>1. m[c].sum = v /\ m[c].gen = (m[Other(c)].gen + 1) % Generations
      BY <1>3, <2>2 DEF NewHeader, Header
    <3>2. Main(m) = c
      BY <1>0, <3>1, TheLater
    <3> QED
      BY <2>2, <3>1, <3>2 DEF Found
  <2>3. CASE Whole(m, c) /\ m[c] = o[c]
    <3>1. Main(m) = Other(c)
      <4>1. m[Copy1].gen = o[Copy1].gen /\ m[Copy2].gen = o[Copy2].gen
        BY <1>0, <1>3, <2>3 DEF Other
      <4> QED
        BY <1>0, <4>1, SameMain
    <3>2. CASE Whole(o, Other(c))
      BY <1>3, <1>4, <3>1, <3>2 DEF Found
    <3>3. CASE ~ Whole(o, Other(c))
      <4>1. ~ Whole(o, c)
        BY <1>0, <3>3
      <4>2. PICK i \in 1 .. FileSize : o[c + i] # o[c].sum
        BY <2>3, <4>1 DEF Whole
      <4>3. m[c + i] = m[c].sum /\ m[c].sum # None
        BY <2>3 DEF Whole
      <4>4. m[c + i] = v
        BY <1>1, <2>3, <4>2, <4>3
      <4>5. Found(m) = m[c].sum
        BY <1>0, <1>3, <2>3, <3>1, <3>3 DEF Found
      <4> QED
        BY <4>3, <4>4, <4>5
    <3> QED
      BY <3>2, <3>3
  <2>4. CASE Whole(m, c) /\ m[c].sum = None
    BY <2>4 DEF Whole
  <2> QED
    BY <1>1, <2>1, <2>2, <2>3, <2>4
<1> QED
  BY <1>2, <1>5 DEF Stored

(* The same when the first copy is erased, and e is what that leaves.      *)
LEMMA EraseHarmless ==
  ASSUME NEW o \in Contents, o[0] = Signature,
         NEW e \in Contents, e[Copy1].sum = None,
         \A a \in Memory : a \notin Region(Copy1) => e[a] = o[a],
         NEW m \in Contents, Within(Limit(o, Copy1, None), m)
  PROVE  /\ m[0] = Signature /\ Stored(m) \in {Stored(o), Stored(e)}
         /\ e[0] = Signature
<1> DEFINE c == Copy1
<1>0. c \in {Copy1, Copy2} /\ Other(c) = Copy2
  BY DEF Other
<1> HIDE DEF c
<1>1. /\ \A a \in Memory : a \notin Region(c) => m[a] = o[a]
      /\ m[c] = o[c] \/ m[c] = NewHeader(o, c, None) \/ m[c].sum = None
      /\ \A i \in 1 .. FileSize : m[c + i] \in {o[c + i], None}
  BY <1>0, InTheLimit DEF c
<1>2. m[0] = Signature /\ e[0] = Signature
  BY <1>0, <1>1, Regions, CellsOfBlocks DEF c
<1>3. /\ m[Other(c)] = o[Other(c)] /\ (Whole(m, Other(c)) <=> Whole(o, Other(c)))
      /\ e[Other(c)] = o[Other(c)] /\ (Whole(e, Other(c)) <=> Whole(o, Other(c)))
  <2>1. /\ Other(c) \in Memory /\ Other(c) \notin Region(c)
        /\ \A i \in 1 .. FileSize : Other(c) + i \in Memory /\ Other(c) + i \notin Region(c)
    BY <1>0, Regions
  <2>2. \A a \in Memory : a \notin Region(c) => e[a] = o[a]
    BY DEF c
  <2> QED
    BY <1>1, <2>1, <2>2, SameWhole
<1>4. ~ Whole(e, c)
  BY DEF Whole, c
<1>5. Found(e) = IF Whole(o, Other(c)) THEN o[Other(c)].sum ELSE None
  BY <1>0, <1>3, <1>4, FoundIs
<1>6. Found(m) \in {Found(o), Found(e)}
  <2>1. CASE ~ Whole(m, c)
    BY <1>0, <1>3, <1>5, <2>1, FoundIs
  <2>2. CASE Whole(m, c)
    <3>1. m[c].sum # None /\ m[c] = o[c]
      BY <1>1, <2>2 DEF Whole, NewHeader, Header
    <3>2. \A i \in 1 .. FileSize : m[c + i] = o[c + i]
      BY <1>1, <2>2, <3>1 DEF Whole
    <3>3. Whole(o, c)
      BY <2>2, <3>1, <3>2, SameWhole
    <3>4. Main(m) = Main(o)
      <4>1. m[Copy1].gen = o[Copy1].gen /\ m[Copy2].gen = o[Copy2].gen
        BY <1>0, <1>3, <3>1 DEF c
      <4> QED
        BY <4>1, SameMain
    <3>5. m[Copy1] = o[Copy1] /\ m[Copy2] = o[Copy2]
          /\ (Whole(m, Copy1) <=> Whole(o, Copy1)) /\ (Whole(m, Copy2) <=> Whole(o, Copy2))
      BY <1>0, <1>3, <2>2, <3>1, <3>3 DEF c
    <3>6. Found(m) = Found(o)
      <4>1. Main(o) \in {Copy1, Copy2} /\ Other(Main(o)) \in {Copy1, Copy2}
        BY DEF Main, Other
      <4> QED
        BY <3>4, <3>5, <4>1 DEF Found
    <3> QED
      BY <3>6
  <2> QED
    BY <2>1, <2>2
<1> QED
  BY <1>2, <1>6 DEF Stored

(* A copy that was written is the one that is found.                       *)
LEMMA WriteFound ==
  ASSUME NEW f \in Contents, NEW v \in Values, NEW c \in {Copy1, Copy2}, f[0] = Signature,
         f[c] = Header((f[Other(c)].gen + 1) % Generations, v),
         \A i \in 1 .. FileSize : f[c + i] = v
  PROVE  Stored(f) = v
<1>1. f[c].sum = v /\ f[c].gen = (f[Other(c)].gen + 1) % Generations /\ v # None
  BY EepromAssumption DEF Header
<1>2. Main(f) = c /\ Whole(f, c)
  BY <1>1, TheLater DEF Whole
<1> QED
  BY <1>1, <1>2 DEF Stored, Found

-----------------------------------------------------------------------------
(* A step of a call is done.                                               *)
LEMMA TailOf ==
  ASSUME NEW T, NEW t \in Seq(T), t # <<>>
  PROVE  /\ DOMAIN t \subseteq Nat /\ 1 \in DOMAIN t /\ Head(t) = t[1]
         /\ \A i \in DOMAIN Tail(t) : i + 1 \in DOMAIN t /\ Tail(t)[i] = t[i + 1] /\ i \in Nat \ {0}
         /\ \A j \in DOMAIN t : j # 1 => j - 1 \in DOMAIN Tail(t) /\ Tail(t)[j - 1] = t[j]
<1>1. Len(t) \in Nat \ {0} /\ DOMAIN t = 1 .. Len(t)
  OBVIOUS
<1>2. /\ Tail(t) \in Seq(T) /\ Len(Tail(t)) = Len(t) - 1
      /\ \A i \in 1 .. Len(Tail(t)) : Tail(t)[i] = t[i + 1]
  BY HeadTailProperties
<1>3. DOMAIN Tail(t) = 1 .. (Len(t) - 1)
  BY <1>2
<1> QED
  BY <1>1, <1>2, <1>3

LEMMA Shorter ==
  ASSUME Types, todo # <<>>, todo' = Tail(todo)
  PROVE  /\ \A i \in DOMAIN todo' : i + 1 \in DOMAIN todo /\ todo'[i] = todo[i + 1] /\ i \in Nat \ {0}
         /\ \A j \in DOMAIN todo : j # 1 => j - 1 \in DOMAIN todo' /\ todo'[j - 1] = todo[j]
         /\ DOMAIN todo \subseteq Nat /\ 1 \in DOMAIN todo /\ Head(todo) = todo[1]
         /\ \A op : Ahead(op)' => Ahead(op)
         /\ Unmixed => Unmixed'
<1>1. /\ \A i \in DOMAIN todo' : i + 1 \in DOMAIN todo /\ todo'[i] = todo[i + 1] /\ i \in Nat \ {0}
      /\ \A j \in DOMAIN todo : j # 1 => j - 1 \in DOMAIN todo' /\ todo'[j - 1] = todo[j]
      /\ DOMAIN todo \subseteq Nat /\ 1 \in DOMAIN todo /\ Head(todo) = todo[1]
  BY TailOf DEF Types
<1>2. ASSUME NEW op, Ahead(op)' PROVE Ahead(op)
  <2>1. PICK i \in DOMAIN todo' : todo'[i].op = op
    BY <1>2 DEF Ahead
  <2> QED
    BY <1>1, <2>1 DEF Ahead
<1>3. Unmixed => Unmixed'
  BY <1>1 DEF Unmixed, Fetching, Storing
<1> QED
  BY <1>1, <1>2, <1>3

(* What the next steps need stays valid.                                   *)
LEMMA PreparedOn ==
  ASSUME Types, todo # <<>>, todo' = Tail(todo), valid \subseteq valid',
         Reach(todo[1]) \subseteq valid', NEW f, Prepared(f)
  PROVE  Prepared(f)'
<1>1. /\ \A i \in DOMAIN todo' : i + 1 \in DOMAIN todo /\ todo'[i] = todo[i + 1] /\ i \in Nat \ {0}
      /\ \A j \in DOMAIN todo : j # 1 => j - 1 \in DOMAIN todo' /\ todo'[j - 1] = todo[j]
      /\ \A op : Ahead(op)' => Ahead(op)
  BY Shorter
<1>2. ASSUME NEW i \in DOMAIN todo', NEW b \in Needs(f, todo'[i])
      PROVE  Ready(i, b)'
  <2>1. b \in Needs(f, todo[i + 1]) /\ i + 1 \in DOMAIN todo /\ i \in Nat \ {0}
    BY <1>1, <1>2
  <2>2. Ready(i + 1, b)
    BY <2>1 DEF Prepared
  <2>3. CASE b \in valid
    BY <2>3 DEF Ready
  <2>4. CASE \E j \in 1 .. (i + 1 - 1) : b \in Reach(todo[j])
    <3>1. PICK j \in 1 .. i : b \in Reach(todo[j])
      BY <2>1, <2>4
    <3>2. CASE j = 1
      BY <3>1, <3>2 DEF Ready
    <3>3. CASE j # 1
      <4>1. j \in DOMAIN todo
        <5>1. DOMAIN todo = 1 .. Len(todo) /\ Len(todo) \in Nat
          BY DEF Types
        <5> QED
          BY <2>1, <3>1, <5>1
      <4>2. todo'[j - 1] = todo[j] /\ j - 1 \in 1 .. (i - 1)
        BY <1>1, <2>1, <3>1, <3>3, <4>1
      <4>3. PICK s : s = todo[j]
        OBVIOUS
      <4>4. (b \in Reach(s))' /\ s = todo'[j - 1]
        BY <3>1, <4>2, <4>3 DEF Reach, Fetching, Storing, Over
      <4>5. (b \in Reach(todo[j - 1]))'
        BY <4>4 DEF Reach, Fetching, Storing, Over
      <4> QED
        BY <4>2, <4>5 DEF Ready
    <3> QED
      BY <3>2, <3>3
  <2> QED
    BY <2>2, <2>3, <2>4 DEF Ready
<1>3. PICK g : g = f
  OBVIOUS
<1>4. Ahead("backup")' => ~ Whole(f, Main(f))
  BY <1>1 DEF Prepared
<1> QED
  BY <1>2, <1>4 DEF Prepared

(* The flush takes what may be anywhere in memory.                         *)
LEMMA KickPossible ==
  ASSUME NEW d \in SUBSET Blocks, NEW c \in Contents, FlushKick(d, c), d \subseteq valid',
         NEW A, \A b \in d : Torn(A, b),
         \A a \in Memory : a \div 2 \in valid' => c[a] \in A[a]
  PROVE  /\ flush' # None => /\ \A a \in Block(flush'.block) : flush'.data[a] \in A[a]
                             /\ Torn(A, flush'.block)
         /\ \A b \in dirty' : Torn(A, b)
<1>1. /\ dirty' \subseteq d
      /\ flush' # None => /\ flush'.block \in d
                          /\ \A a \in Block(flush'.block) :
                                flush'.data[a] = c[a] /\ a \in Memory
  BY FlushKickTakes
<1>2. ASSUME flush' # None, NEW a \in Block(flush'.block)
      PROVE  flush'.data[a] \in A[a]
  <2>1. a \in Memory /\ flush'.data[a] = c[a] /\ flush'.block \in Blocks
    BY <1>1, <1>2
  <2>2. a \div 2 \in valid'
    BY <1>1, <1>2, <2>1, CellsOfBlocks
  <2> QED
    BY <2>1, <2>2
<1> QED
  BY <1>1, <1>2

(* The old contents of the medium, in the terms of SaveFile.               *)
Durable == IF Settled THEN value ELSE before

LEMMA Stutters ==
  ASSUME UNCHANGED <<value, got>>, Durable' = Durable \/ Durable' = value
  PROVE  [Abstract!Next]_(Abstract!sfvars)
BY DEF Durable, Abstract!Next, Abstract!sfvars, Abstract!Persist

(* A block has been written, or refused.                                   *)
LEMMA FlushDoneKeepsFile ==
  ASSUME CacheInv, FileInv, NEW accepted \in BOOLEAN, FlushDone(accepted)
  PROVE  FileInv' /\ [Abstract!Next]_(Abstract!sfvars)
<1> DEFINE d == IF accepted THEN dirty ELSE dirty \cup {flush.block}
<1>1. /\ flush # None
      /\ rom' = IF accepted THEN Overwritten(rom, Block(flush.block), flush.data)
                ELSE rom
      /\ IF miss THEN dirty' = d /\ flush' = None ELSE FlushKick(d, cache)
      /\ UNCHANGED <<cache, valid, miss, todo, got, value, before, risky>>
  BY DEF FlushDone, ghosts
<1>2. PICK b \in Blocks : flush.block = b /\ b \in valid
  BY <1>1 DEF CacheInv, FlushOK, FlushedOK
<1>3. \A a \in Memory : rom'[a] = IF accepted /\ a \in Block(b) THEN flush.data[a] ELSE rom[a]
  BY <1>1, <1>2 DEF Overwritten
<1>4. Seen' = Seen
  <2>1. \A a \in Memory : a \div 2 \notin valid => rom'[a] = rom[a]
    BY <1>2, <1>3, CellsOfBlocks
  <2> QED
    BY <1>1, <2>1 DEF Seen
<1>5. \E f \in Contents : Final(f)' /\ Prepared(f)'
  <2>1. PICK f \in Contents : Final(f) /\ Prepared(f)
    BY DEF FileInv
  <2>2. Final(f)'
    BY <1>1, <1>4, <2>1 DEF Final, Becomes, Ahead
  <2>3. Prepared(f)'
    BY <1>1, <2>1 DEF Prepared, Ready, Ahead
  <2> QED
    BY <2>2, <2>3
<1>6. Orderly' /\ ~ Settled
  BY <1>1 DEF FileInv, Orderly, Unmixed, Waited, Starting, Still, Ahead, Doing, Settled
<1>7. Safe'
  <2>1. CASE risky
    BY <1>1, <2>1 DEF Safe
  <2>2. CASE \E A \in Limits : Possible(A) /\ Harmless(A)
    <3>1. PICK A \in Limits : Possible(A) /\ Harmless(A)
      BY <2>2
    <3>2. d \in SUBSET Blocks /\ d \subseteq valid /\ \A x \in d : Torn(A, x)
      BY <1>1, <1>2, <3>1 DEF CacheInv, Types, Possible
    <3> HIDE DEF d
    <3>3. /\ flush' # None => /\ \A a \in Block(flush'.block) : flush'.data[a] \in A[a]
                              /\ Torn(A, flush'.block)
          /\ \A x \in dirty' : Torn(A, x)
      <4>1. CASE miss
        BY <1>1, <3>2, <4>1
      <4>2. CASE ~ miss
        <5>1. FlushKick(d, cache) /\ cache \in Contents
          BY <1>1, <4>2 DEF CacheInv, Types
        <5>2. d \subseteq valid' /\ \A a \in Memory : a \div 2 \in valid' => cache[a] \in A[a]
          BY <1>1, <3>1, <3>2 DEF Possible
        <5> QED
          BY <3>2, <5>1, <5>2, KickPossible
      <4> QED
        BY <4>1, <4>2
    <3>4. \A a \in Memory : rom'[a] \in A[a]
      BY <1>1, <1>2, <1>3, <3>1 DEF Possible, Within
    <3>5. Possible(A)'
      <4>1. \A a \in Memory : a \div 2 \in valid' => cache'[a] \in A[a]
        BY <1>1, <3>1 DEF Possible
      <4>2. \A i \in DOMAIN todo' : Storing(todo'[i]) =>
              /\ \A a \in At(todo'[i]) : Datum(todo'[i], a) \in A[a]
              /\ \A x \in Over(todo'[i]) : Torn(A, x)
        BY <1>1, <3>1 DEF Possible
      <4> QED
        BY <3>3, <3>4, <4>1, <4>2 DEF Possible, Within, Torn, Storing, At, Datum, Over
    <3>6. Harmless(A)'
      BY <1>1, <3>1 DEF Harmless, Within
    <3> QED
      BY <3>5, <3>6 DEF Safe
  <2> QED
    BY <1>6, <2>1, <2>2 DEF FileInv, Safe
<1>8. UNCHANGED <<value, got, before>>
  BY <1>1
<1> QED
  BY <1>5, <1>6, <1>7, <1>8, Stutters DEF FileInv, Durable


-----------------------------------------------------------------------------
(* Nothing that matters to the file changes.                               *)
LEMMA SameFile ==
  ASSUME FileInv, UNCHANGED <<rom, cache, valid, dirty, flush, todo, got, value, before, risky>>
  PROVE  FileInv' /\ [Abstract!Next]_(Abstract!sfvars)
<1>1. Seen' = Seen /\ Settled' = Settled
  BY DEF Seen, Settled
<1>2. \E f \in Contents : Final(f)' /\ Prepared(f)'
  BY <1>1 DEF FileInv, Final, Becomes, Ahead, Prepared, Ready
<1>3. Orderly'
  BY DEF FileInv, Orderly, Unmixed, Waited, Starting, Still, Ahead, Doing
<1>4. Safe'
  <2>1. ASSUME NEW A \in Limits, Possible(A), Harmless(A)
        PROVE  Possible(A)' /\ Harmless(A)'
    BY <2>1 DEF Possible, Harmless, Within, Torn
  <2> QED
    BY <1>1, <2>1 DEF FileInv, Safe
<1> QED
  BY <1>1, <1>2, <1>3, <1>4, Stutters DEF FileInv, Durable

(* A step that is not a store leaves the contents-to-be.                   *)
LEMMA FinalOn ==
  ASSUME Types, todo # <<>>, todo' = Tail(todo), ~ Storing(todo[1]), todo[1].op # "verify",
         Seen' = Seen, value' = value, NEW f, Final(f)
  PROVE  Final(f)'
<1>1. /\ \A i \in DOMAIN todo' : i + 1 \in DOMAIN todo /\ todo'[i] = todo[i + 1]
      /\ \A j \in DOMAIN todo : j # 1 => j - 1 \in DOMAIN todo' /\ todo'[j - 1] = todo[j]
      /\ 1 \in DOMAIN todo
  BY Shorter
<1>2. \A i \in DOMAIN todo' : Storing(todo'[i]) =>
        \A a \in At(todo'[i]) : Datum(todo'[i], a) = f[a]
  BY <1>1 DEF Final, Becomes
<1>3. \A a \in Memory : \/ f[a] = Seen'[a]
                        \/ \E i \in DOMAIN todo' : Storing(todo'[i]) /\ a \in At(todo'[i])
  <2>1. SUFFICES ASSUME NEW a \in Memory, NEW i \in DOMAIN todo,
                        Storing(todo[i]), a \in At(todo[i])
                 PROVE  \E k \in DOMAIN todo' : Storing(todo'[k]) /\ a \in At(todo'[k])
    BY DEF Final, Becomes
  <2>2. i # 1
    BY <2>1
  <2> QED
    BY <1>1, <2>1, <2>2
<1>4. Ahead("verify") => Ahead("verify")'
  <2>1. SUFFICES ASSUME NEW i \in DOMAIN todo, todo[i].op = "verify"
                 PROVE  \E k \in DOMAIN todo' : todo'[k].op = "verify"
    BY DEF Ahead
  <2>2. i # 1
    BY <2>1
  <2> QED
    BY <1>1, <2>1, <2>2
<1>5. Becomes(f)'
  BY <1>2, <1>3 DEF Becomes, Storing, At, Datum
<1> QED
  BY <1>4, <1>5 DEF Final

(* The stores that are left.                                               *)
LEMMA StoresOn ==
  ASSUME Types, todo # <<>>, todo' = Tail(todo), ~ Storing(todo[1])
  PROVE  (\A i \in DOMAIN todo : todo[i].op # "store")
            <=> (\A i \in DOMAIN todo' : todo'[i].op # "store")
<1>1. /\ \A i \in DOMAIN todo' : i + 1 \in DOMAIN todo /\ todo'[i] = todo[i + 1]
      /\ \A j \in DOMAIN todo : j # 1 => j - 1 \in DOMAIN todo' /\ todo'[j - 1] = todo[j]
  BY Shorter
<1> QED
  BY <1>1, ZenonT(60) DEF Storing

(* Blocks are fetched, and what the flush does then is not visible.        *)
LEMMA FetchKeepsFile ==
  ASSUME CacheInv, FileInv, FetchBlocks
  PROVE  FileInv' /\ [Abstract!Next]_(Abstract!sfvars)
<1> DEFINE missing == Head(todo).blocks \ (valid \cup dirty)
           fetched == UNION {Block(b) : b \in missing}
<1>1. /\ todo # <<>> /\ Head(todo).op = "fetch" /\ flush = None /\ todo' = Tail(todo)
      /\ cache' = Overwritten(cache, fetched, rom)
      /\ valid' = valid \cup missing
      /\ IF miss THEN FlushKick(dirty, cache') ELSE UNCHANGED <<dirty, flush>>
      /\ UNCHANGED <<rom, got, value, before, risky>>
  BY DEF FetchBlocks, Doing, Done, ghosts
<1>2. Types /\ Types' /\ Head(todo).blocks \subseteq Blocks
  <2>1. Types /\ Types'
    BY FetchKeepsCacheInv DEF CacheInv
  <2>2. Head(todo) \in Fetches
    BY <1>1, <2>1, NextStep DEF Types, Doing
  <2> QED
    BY <2>1, <2>2 DEF Fetches
<1>3. /\ \A i \in DOMAIN todo' : i + 1 \in DOMAIN todo /\ todo'[i] = todo[i + 1]
      /\ Head(todo) = todo[1]
      /\ \A op : Ahead(op)' => Ahead(op)
      /\ Unmixed => Unmixed'
  BY <1>1, <1>2, Shorter
<1>4. \A a \in Memory : cache'[a] = IF a \div 2 \in missing THEN rom[a] ELSE cache[a]
  <2>1. \A a \in Memory : a \in fetched <=> a \div 2 \in missing
    <3>1. missing \subseteq Blocks
      BY <1>2
    <3> QED
      BY <3>1, CellsOfBlocks
  <2> HIDE DEF missing, fetched
  <2>2. DOMAIN cache = Memory
    BY <1>2 DEF Types, Contents
  <2> QED
    BY <1>1, <2>1, <2>2 DEF Overwritten
<1>5. Seen' = Seen
  <2>1. \A a \in Memory : (IF a \div 2 \in valid' THEN cache'[a] ELSE rom[a])
                            = IF a \div 2 \in valid THEN cache[a] ELSE rom[a]
    BY <1>1, <1>4
  <2> QED
    BY <1>1, <2>1 DEF Seen
<1>6. \E f \in Contents : Final(f)' /\ Prepared(f)'
  <2>1. PICK f \in Contents : Final(f) /\ Prepared(f)
    BY DEF FileInv
  <2>2. ~ Storing(todo[1]) /\ todo[1].op # "verify" /\ Fetching(todo[1])
    BY <1>1, <1>3 DEF Storing, Fetching
  <2>3. Reach(todo[1]) \subseteq valid' /\ valid \subseteq valid'
    BY <1>1, <1>2, <1>3, <2>2 DEF Reach, Types
  <2>4. Final(f)'
    BY <1>1, <1>2, <1>5, <2>1, <2>2, FinalOn
  <2>5. Prepared(f)'
    BY <1>1, <1>2, <2>1, <2>3, PreparedOn
  <2> QED
    BY <2>4, <2>5
<1>7. (flush' = None /\ dirty' = {}) <=> (flush = None /\ dirty = {})
  <2>1. CASE ~ miss
    BY <1>1, <2>1
  <2>2. CASE miss
    <3>1. FlushKick(dirty, cache') /\ dirty \in SUBSET Blocks /\ cache' \in Contents
      BY <1>1, <1>2, <2>2 DEF Types
    <3> QED
      BY <1>1, <3>1, FlushKickTakes
  <2> QED
    BY <2>1, <2>2
<1>8. Settled' <=> Settled
  <2>1. ~ Storing(todo[1])
    BY <1>1, <1>3 DEF Storing
  <2> QED
    BY <1>1, <1>2, <1>7, <2>1, StoresOn DEF Settled
<1>9. Orderly'
  <2>1. ~ Doing("wait")
    BY <1>1 DEF Doing
  <2> QED
    BY <1>1, <1>3, <1>7, <2>1 DEF FileInv, Orderly, Waited, Starting, Still
<1>10. Safe'
  <2>1. CASE Settled \/ risky
    BY <1>1, <1>8, <2>1 DEF Safe
  <2>2. CASE \E A \in Limits : Possible(A) /\ Harmless(A)
    <3>1. PICK A \in Limits : Possible(A) /\ Harmless(A)
      BY <2>2
    <3>2. \A a \in Memory : a \div 2 \in valid' => cache'[a] \in A[a]
      BY <1>1, <1>4, <3>1 DEF Possible, Within
    <3>3. /\ flush' # None => /\ \A a \in Block(flush'.block) : flush'.data[a] \in A[a]
                              /\ Torn(A, flush'.block)
          /\ \A x \in dirty' : Torn(A, x)
      <4>1. CASE ~ miss
        BY <1>1, <3>1, <4>1 DEF Possible
      <4>2. CASE miss
        <5>1. FlushKick(dirty, cache') /\ dirty \in SUBSET Blocks /\ cache' \in Contents
          BY <1>1, <1>2, <4>2 DEF Types
        <5>2. dirty \subseteq valid' /\ \A b \in dirty : Torn(A, b)
          BY <1>1, <1>2, <3>1 DEF Types, Possible
        <5> QED
          BY <3>2, <5>1, <5>2, KickPossible
      <4> QED
        BY <4>1, <4>2
    <3>4. \A i \in DOMAIN todo' : Storing(todo'[i]) =>
            /\ \A a \in At(todo'[i]) : Datum(todo'[i], a) \in A[a]
            /\ \A x \in Over(todo'[i]) : Torn(A, x)
      BY <1>3, <3>1 DEF Possible
    <3>5. \A a \in Memory : rom'[a] \in A[a]
      BY <1>1, <3>1 DEF Possible, Within
    <3>6. Possible(A)'
      BY <3>2, <3>3, <3>4, <3>5 DEF Possible, Within, Torn, Storing, At, Datum, Over
    <3>7. Harmless(A)'
      BY <1>1, <3>1 DEF Harmless, Within
    <3> QED
      BY <3>6, <3>7 DEF Safe
  <2> QED
    BY <2>1, <2>2 DEF FileInv, Safe
<1>11. UNCHANGED <<value, got>> /\ Durable' = Durable
  BY <1>1, <1>8 DEF Durable
<1> QED
  BY <1>3, <1>6, <1>9, <1>10, <1>11, Stutters DEF FileInv

(* A store, of cells that lie in few blocks.                               *)
LEMMA StoreReaches ==
  ASSUME NEW s \in Stores
  PROVE  /\ At(s) \subseteq Memory /\ Over(s) \subseteq Blocks
         /\ \A a \in At(s) : a \div 2 \in Over(s)
         /\ s.op = "store" /\ s.at \in Memory /\ s.data \in Seq(CellValues) /\ Len(s.data) \in Nat \ {0}
<1>1. /\ s.at \in Memory /\ s.data \in Seq(CellValues) /\ Len(s.data) # 0
      /\ s.at + Len(s.data) - 1 \in Memory /\ s.op = "store"
  BY DEF Stores
<1>2. Len(s.data) \in Nat \ {0}
  BY <1>1
<1> DEFINE a == s.at
           n == Len(s.data)
<1>3. PICK h \in Nat : Memory = 0 .. (4 * h + 1) /\ Blocks = 0 .. (2 * h)
  BY Layout
<1>4. a \in Memory /\ n \in Nat \ {0} /\ a + n - 1 \in Memory
  BY <1>1, <1>2
<1> HIDE DEF a, n
<1>5. /\ a .. (a + n - 1) \subseteq Memory
      /\ (a \div 2) .. ((a + n - 1) \div 2) \subseteq Blocks
      /\ \A i \in a .. (a + n - 1) : i \div 2 \in (a \div 2) .. ((a + n - 1) \div 2)
  BY ONLY <1>3, <1>4
<1> QED
  BY <1>1, <1>2, <1>5 DEF At, Over, FirstBlock, LastBlock, a, n

(* When the stores have begun, only stores are left.                       *)
LEMMA OnlyStores ==
  ASSUME Unmixed, NEW i \in DOMAIN todo, Storing(todo[i]),
         NEW op \in {"verify", "read", "write", "main", "backup", "erase", "wait"}
  PROVE  ~ Ahead(op)
BY DEF Unmixed, Ahead, Storing, Fetching

(* A store brings the cache closer to the contents-to-be.                  *)
LEMMA StoreKeepsFile ==
  ASSUME CacheInv, FileInv, StoreBytes
  PROVE  FileInv' /\ [Abstract!Next]_(Abstract!sfvars)
<1> DEFINE s == todo[1]
           d == dirty \cup Over(s)
<1>1. /\ todo # <<>> /\ Head(todo).op = "store" /\ todo' = Tail(todo)
      /\ UNCHANGED <<rom, got, value, before, risky>>
  BY DEF StoreBytes, Doing, Done, ghosts
<1>2. /\ Types /\ Types' /\ Head(todo) \in Stores
  <2>1. Types /\ Types'
    BY StoreKeepsCacheInv DEF CacheInv
  <2> QED
    BY <1>1, <2>1, NextStep DEF Types, Doing
<1>3. /\ \A i \in DOMAIN todo' : i + 1 \in DOMAIN todo /\ todo'[i] = todo[i + 1]
      /\ \A j \in DOMAIN todo : j # 1 => j - 1 \in DOMAIN todo' /\ todo'[j - 1] = todo[j]
      /\ Head(todo) = s /\ 1 \in DOMAIN todo
      /\ \A op : Ahead(op)' => Ahead(op)
      /\ Unmixed => Unmixed'
  BY <1>1, <1>2, Shorter
<1>4. Storing(s) /\ s \in Stores
  BY <1>1, <1>2, <1>3 DEF Storing
<1> DEFINE new == [i \in At(s) |-> Datum(s, i)]
<1>5. /\ cache' = Overwritten(cache, At(s), new)
      /\ valid' = valid \cup Over(s)
      /\ Kick(d, cache')
  BY <1>3 DEF StoreBytes, At, Datum, Over
<1> HIDE DEF s
<1>6. /\ At(s) \subseteq Memory /\ Over(s) \subseteq Blocks
      /\ \A a \in At(s) : a \div 2 \in Over(s)
  BY <1>4, StoreReaches
<1>7. \A a \in Memory : cache'[a] = IF a \in At(s) THEN Datum(s, a) ELSE cache[a]
  <2>1. \A a \in At(s) : new[a] = Datum(s, a)
    OBVIOUS
  <2> HIDE DEF new
  <2>2. DOMAIN cache = Memory
    BY <1>2 DEF Types, Contents
  <2> QED
    BY <1>5, <2>1, <2>2 DEF Overwritten
<1> HIDE DEF new
<1>8. PICK f \in Contents : Final(f) /\ Prepared(f)
  BY DEF FileInv
<1>9. \A a \in Memory : a \div 2 \in Over(s) /\ a \notin At(s) => a \div 2 \in valid
  <2> SUFFICES ASSUME NEW a \in Memory, a \div 2 \in Over(s), a \notin At(s)
               PROVE  a \div 2 \in valid
    OBVIOUS
  <2>1. a \in Block(a \div 2)
    BY CellsOfBlocks
  <2>2. a \div 2 \in Needs(f, s)
    BY <1>4, <2>1 DEF Needs
  <2>3. Ready(1, a \div 2)
    BY <1>3, <1>8, <2>2 DEF Prepared, s
  <2>4. 1 .. (1 - 1) = {}
    OBVIOUS
  <2> QED
    BY <2>3, <2>4 DEF Ready
<1>10. \A a \in Memory : Seen'[a] = IF a \in At(s) THEN Datum(s, a) ELSE Seen[a]
  <2>1. \A a \in Memory : Seen'[a] = IF a \div 2 \in valid' THEN cache'[a] ELSE rom[a]
    BY <1>1 DEF Seen
  <2>2. \A a \in Memory : Seen[a] = IF a \div 2 \in valid THEN cache[a] ELSE rom[a]
    BY DEF Seen
  <2> QED
    BY <1>5, <1>6, <1>7, <1>9, <2>1, <2>2
<1>11. Final(f)'
  <2>1. \A a \in At(s) : Datum(s, a) = f[a]
    BY <1>3, <1>4, <1>8 DEF Final, Becomes, s
  <2>2. \A i \in DOMAIN todo' : Storing(todo'[i]) =>
          \A a \in At(todo'[i]) : Datum(todo'[i], a) = f[a]
    BY <1>3, <1>8 DEF Final, Becomes
  <2>3. ASSUME NEW a \in Memory
        PROVE  \/ f[a] = Seen'[a]
               \/ \E i \in DOMAIN todo' : Storing(todo'[i]) /\ a \in At(todo'[i])
    <3>1. CASE a \in At(s)
      BY <1>10, <2>1, <3>1
    <3>2. CASE a \notin At(s) /\ f[a] = Seen[a]
      BY <1>10, <3>2
    <3>3. CASE a \notin At(s) /\ f[a] # Seen[a]
      <4>1. PICK i \in DOMAIN todo : Storing(todo[i]) /\ a \in At(todo[i])
        BY <1>8, <3>3 DEF Final, Becomes
      <4>2. i # 1
        BY <3>3, <4>1 DEF s
      <4> QED
        BY <1>3, <4>1, <4>2
    <3> QED
      BY <3>1, <3>2, <3>3
  <2>4. Becomes(f)'
    BY <2>2, <2>3 DEF Becomes, Storing, At, Datum
  <2>5. f[0] = Signature /\ Stored(f) = value
    <3>1. ~ Ahead("verify")
      BY <1>3, <1>4, OnlyStores DEF FileInv, Orderly, s
    <3> QED
      BY <1>8, <3>1 DEF Final
  <2> QED
    BY <1>1, <2>4, <2>5 DEF Final
<1>12. Prepared(f)'
  <2>1. Reach(todo[1]) \subseteq valid' /\ valid \subseteq valid'
    BY <1>4, <1>5 DEF Reach, Storing, Fetching, s
  <2> QED
    BY <1>1, <1>2, <1>8, <2>1, PreparedOn
<1>13. Orderly'
  <2>1. ~ Ahead("verify") /\ ~ Ahead("write") /\ ~ Ahead("erase")
    BY <1>3, <1>4, OnlyStores DEF FileInv, Orderly, s
  <2>2. ~ Ahead("verify")' /\ ~ Ahead("write")' /\ ~ Ahead("erase")'
    BY <1>3, <2>1
  <2> QED
    BY <1>3, <2>2 DEF FileInv, Orderly, Waited, Starting
<1>14. ~ Settled
  BY <1>3, <1>4 DEF Settled, Storing, s
<1>15. Safe'
  <2>1. CASE risky
    BY <1>1, <2>1 DEF Safe
  <2>2. CASE \E A \in Limits : Possible(A) /\ Harmless(A)
    <3>1. PICK A \in Limits : Possible(A) /\ Harmless(A)
      BY <2>2
    <3>2. /\ \A a \in At(s) : Datum(s, a) \in A[a]
          /\ \A b \in Over(s) : Torn(A, b)
      BY <1>3, <1>4, <3>1 DEF Possible, s
    <3>3. \A a \in Memory : a \div 2 \in valid' => cache'[a] \in A[a]
      BY <1>5, <1>7, <1>9, <3>1, <3>2 DEF Possible
    <3>4. d \in SUBSET Blocks /\ d \subseteq valid' /\ \A b \in d : Torn(A, b)
      BY <1>2, <1>5, <1>6, <3>1, <3>2 DEF Types, Possible
    <3> HIDE DEF d
    <3>5. /\ flush' # None => /\ \A a \in Block(flush'.block) : flush'.data[a] \in A[a]
                              /\ Torn(A, flush'.block)
          /\ \A x \in dirty' : Torn(A, x)
      <4>1. CASE flush # None
        BY <1>5, <3>1, <3>4, <4>1 DEF Kick, Possible
      <4>2. CASE flush = None
        <5>1. FlushKick(d, cache') /\ cache' \in Contents
          BY <1>2, <1>5, <4>2 DEF Kick, Types
        <5> QED
          BY <3>3, <3>4, <5>1, KickPossible
      <4> QED
        BY <4>1, <4>2
    <3>6. \A i \in DOMAIN todo' : Storing(todo'[i]) =>
            /\ \A a \in At(todo'[i]) : Datum(todo'[i], a) \in A[a]
            /\ \A x \in Over(todo'[i]) : Torn(A, x)
      BY <1>3, <3>1 DEF Possible
    <3>7. \A a \in Memory : rom'[a] \in A[a]
      BY <1>1, <3>1 DEF Possible, Within
    <3>8. Possible(A)'
      BY <3>3, <3>5, <3>6, <3>7 DEF Possible, Within, Torn, Storing, At, Datum, Over
    <3>9. Harmless(A)'
      BY <1>1, <3>1 DEF Harmless, Within
    <3> QED
      BY <3>8, <3>9 DEF Safe
  <2> QED
    BY <1>14, <2>1, <2>2 DEF FileInv, Safe
<1>16. UNCHANGED <<value, got>> /\ (Durable' = Durable \/ Durable' = value)
  BY <1>1, <1>14 DEF Durable
<1> QED
  BY <1>3, <1>11, <1>12, <1>13, <1>15, <1>16, Stutters DEF FileInv

-----------------------------------------------------------------------------
(* The steps that leave the cache alone.  Without stores ahead, a read     *)
(* returns what is stored.                                                 *)
LEMMA Storeless ==
  ASSUME CacheInv, FileInv, \A i \in DOMAIN todo : ~ Storing(todo[i])
  PROVE  \E f \in Contents : f = Seen /\ Final(f) /\ Prepared(f)
<1>1. PICK f \in Contents : Final(f) /\ Prepared(f)
  BY DEF FileInv
<1>2. \A a \in Memory : f[a] = Seen[a]
  BY <1>1 DEF Final, Becomes
<1>3. f = [a \in Memory |-> f[a]] /\ Seen = [a \in Memory |-> Seen[a]]
  BY <1>1 DEF Contents, Seen
<1>4. f = Seen
  BY <1>2, <1>3
<1> QED
  BY <1>1, <1>4

(* Nothing is being written: callers see what is in the EEPROM.            *)
LEMMA StillSeen ==
  ASSUME CacheInv, Still
  PROVE  Seen = rom /\ \A a \in Memory : a \div 2 \in valid => cache[a] = rom[a]
<1>1. \A a \in Memory : a \div 2 \in valid => cache[a] = rom[a]
  BY DEF Still, CacheInv, Coherent
<1>2. \A a \in Memory : Seen[a] = rom[a]
  BY <1>1 DEF Seen
<1>3. rom = [a \in Memory |-> rom[a]] /\ Seen = [a \in Memory |-> Seen[a]]
  BY DEF CacheInv, Types, Contents, Seen
<1>4. Seen = rom
  BY <1>2, <1>3
<1> QED
  BY <1>1, <1>4

LEMMA QuietKeepsFile ==
  ASSUME CacheInv, FileInv,
         UNCHANGED <<rom, cache, valid, dirty, flush, value, before, risky>>,
         \A i \in DOMAIN todo : ~ Storing(todo[i]),
         \A i \in DOMAIN todo' : ~ Storing(todo'[i]),
         Waited', Starting',
         NEW f \in Contents, f = Seen, Stored(f) = value,
         f[0] = Signature \/ Ahead("verify")', Prepared(f)'
  PROVE  FileInv' /\ Durable' = Durable
<1>1. Seen' = Seen
  BY DEF Seen
<1>2. Final(f)'
  <2>1. Becomes(f)'
    BY <1>1 DEF Becomes, Storing
  <2> QED
    BY <2>1 DEF Final
<1>3. Unmixed'
  BY DEF Unmixed, Storing
<1>4. Settled' <=> Settled
  BY DEF Settled, Storing
<1>5. Safe'
  <2>1. ASSUME NEW A \in Limits, Possible(A), Harmless(A)
        PROVE  Possible(A)' /\ Harmless(A)'
    BY <2>1 DEF Possible, Harmless, Within, Torn, Storing
  <2> QED
    BY <1>4, <2>1 DEF FileInv, Safe
<1> QED
  BY <1>2, <1>3, <1>4, <1>5 DEF FileInv, Orderly, Durable

(* The thread has waited for the flush to end.                             *)
LEMMA WaitKeepsFile ==
  ASSUME CacheInv, FileInv, WaitIdle
  PROVE  FileInv' /\ [Abstract!Next]_(Abstract!sfvars)
<1>1. /\ todo # <<>> /\ Head(todo).op = "wait" /\ flush = None /\ todo' = Tail(todo)
      /\ UNCHANGED <<rom, cache, valid, dirty, flush, got, value, before, risky>>
  BY DEF WaitIdle, Doing, Done, ghosts
<1>2. Types
  BY DEF CacheInv
<1>3. /\ \A i \in DOMAIN todo' : i + 1 \in DOMAIN todo /\ todo'[i] = todo[i + 1]
      /\ Head(todo) = todo[1] /\ 1 \in DOMAIN todo
      /\ \A op : Ahead(op)' => Ahead(op)
  BY <1>1, <1>2, Shorter
<1>4. ~ Storing(todo[1]) /\ ~ Fetching(todo[1]) /\ todo[1].op # "verify"
  BY <1>1, <1>3 DEF Storing, Fetching
<1>5. \A i \in DOMAIN todo : ~ Storing(todo[i])
  BY <1>3, <1>4 DEF FileInv, Orderly, Unmixed
<1>6. \A i \in DOMAIN todo' : ~ Storing(todo'[i])
  BY <1>3, <1>5
<1>7. PICK f \in Contents : f = Seen /\ Final(f) /\ Prepared(f)
  BY <1>5, Storeless
<1>8. Final(f)' /\ Seen' = Seen
  <2>1. Seen' = Seen
    BY <1>1 DEF Seen
  <2> QED
    BY <1>1, <1>2, <1>4, <1>7, <2>1, FinalOn
<1>9. Prepared(f)'
  <2>1. Reach(todo[1]) = {}
    BY <1>4 DEF Reach
  <2> QED
    BY <1>1, <1>2, <1>7, <2>1, PreparedOn
<1>10. Still /\ Still'
  <2>1. ~ miss
    BY <1>1 DEF CacheInv, Doing
  <2> QED
    BY <1>1, <2>1 DEF CacheInv, FlushOK, Still
<1>11. Waited' /\ Starting'
  BY <1>1, <1>3, <1>10 DEF FileInv, Orderly, Waited, Starting
<1>12. FileInv' /\ Durable' = Durable
  <2>1. Stored(f) = value /\ (f[0] = Signature \/ Ahead("verify")')
    BY <1>7, <1>8 DEF Final
  <2> QED
    BY <1>1, <1>5, <1>6, <1>7, <1>9, <1>11, <2>1, QuietKeepsFile
<1> QED
  BY <1>1, <1>12, Stutters

(* The steps of a read, and of what comes before a write.                  *)
FetchOf(bs) == [op |-> "fetch", blocks |-> bs]

LEMMA JoinIs ==
  ASSUME NEW T, NEW x \in Seq(T), NEW y \in Seq(T), NEW z \in Seq(T),
         Len(z) = Len(x) + Len(y),
         \A i \in 1 .. Len(z) : z[i] = IF i <= Len(x) THEN x[i] ELSE y[i - Len(x)]
  PROVE  x \o y = z
<1>1. /\ x \o y \in Seq(T) /\ Len(x \o y) = Len(x) + Len(y)
      /\ \A i \in 1 .. (Len(x) + Len(y)) :
            (x \o y)[i] = IF i <= Len(x) THEN x[i] ELSE y[i - Len(x)]
  BY ConcatProperties
<1>2. Len(x \o y) = Len(z) /\ \A i \in 1 .. Len(x \o y) : (x \o y)[i] = z[i]
  BY <1>1
<1> QED
  BY <1>1, <1>2, SeqEqual

LEMMA Join11 ==
  ASSUME NEW a, NEW b
  PROVE  <<a>> \o <<b>> = <<a, b>>
<1> DEFINE T == {a, b}
           p == <<a>>
           q == <<b>>
           r == <<a, b>>
<1>1. /\ p \in Seq(T) /\ q \in Seq(T) /\ r \in Seq(T)
      /\ Len(p) = 1 /\ Len(q) = 1 /\ Len(r) = 2
      /\ p[1] = a
      /\ q[1] = b
      /\ r[1] = a /\ r[2] = b
  OBVIOUS
<1> HIDE DEF T, p, q, r
<1>2. \A i \in 1 .. Len(r) : r[i] = IF i <= Len(p) THEN p[i] ELSE q[i - Len(p)]
  BY <1>1
<1>3. Len(r) = Len(p) + Len(q)
  BY <1>1
<1>4. p \o q = r
  BY <1>1, <1>2, <1>3, JoinIs, Zenon
<1> QED
  BY <1>4 DEF p, q, r

LEMMA Join12 ==
  ASSUME NEW a, NEW b, NEW c
  PROVE  <<a>> \o <<b, c>> = <<a, b, c>>
<1> DEFINE T == {a, b, c}
           p == <<a>>
           q == <<b, c>>
           r == <<a, b, c>>
<1>1. /\ p \in Seq(T) /\ q \in Seq(T) /\ r \in Seq(T)
      /\ Len(p) = 1 /\ Len(q) = 2 /\ Len(r) = 3
      /\ p[1] = a
      /\ q[1] = b /\ q[2] = c
      /\ r[1] = a /\ r[2] = b /\ r[3] = c
  OBVIOUS
<1> HIDE DEF T, p, q, r
<1>2. \A i \in 1 .. Len(r) : r[i] = IF i <= Len(p) THEN p[i] ELSE q[i - Len(p)]
  BY <1>1
<1>3. Len(r) = Len(p) + Len(q)
  BY <1>1
<1>4. p \o q = r
  BY <1>1, <1>2, <1>3, JoinIs, Zenon
<1> QED
  BY <1>4 DEF p, q, r

LEMMA Join21 ==
  ASSUME NEW a, NEW b, NEW c
  PROVE  <<a, b>> \o <<c>> = <<a, b, c>>
<1> DEFINE T == {a, b, c}
           p == <<a, b>>
           q == <<c>>
           r == <<a, b, c>>
<1>1. /\ p \in Seq(T) /\ q \in Seq(T) /\ r \in Seq(T)
      /\ Len(p) = 2 /\ Len(q) = 1 /\ Len(r) = 3
      /\ p[1] = a /\ p[2] = b
      /\ q[1] = c
      /\ r[1] = a /\ r[2] = b /\ r[3] = c
  OBVIOUS
<1> HIDE DEF T, p, q, r
<1>2. \A i \in 1 .. Len(r) : r[i] = IF i <= Len(p) THEN p[i] ELSE q[i - Len(p)]
  BY <1>1
<1>3. Len(r) = Len(p) + Len(q)
  BY <1>1
<1>4. p \o q = r
  BY <1>1, <1>2, <1>3, JoinIs, Zenon
<1> QED
  BY <1>4 DEF p, q, r

LEMMA Join31 ==
  ASSUME NEW a, NEW b, NEW c, NEW d
  PROVE  <<a, b, c>> \o <<d>> = <<a, b, c, d>>
<1> DEFINE T == {a, b, c, d}
           p == <<a, b, c>>
           q == <<d>>
           r == <<a, b, c, d>>
<1>1. /\ p \in Seq(T) /\ q \in Seq(T) /\ r \in Seq(T)
      /\ Len(p) = 3 /\ Len(q) = 1 /\ Len(r) = 4
      /\ p[1] = a /\ p[2] = b /\ p[3] = c
      /\ q[1] = d
      /\ r[1] = a /\ r[2] = b /\ r[3] = c /\ r[4] = d
  OBVIOUS
<1> HIDE DEF T, p, q, r
<1>2. \A i \in 1 .. Len(r) : r[i] = IF i <= Len(p) THEN p[i] ELSE q[i - Len(p)]
  BY <1>1
<1>3. Len(r) = Len(p) + Len(q)
  BY <1>1
<1>4. p \o q = r
  BY <1>1, <1>2, <1>3, JoinIs, Zenon
<1> QED
  BY <1>4 DEF p, q, r

LEMMA HeaderFetches ==
  GetStart = <<FetchOf({FirstBlock(Copy1)}), FetchOf({FirstBlock(Copy2)})>>
<1>1. ASSUME NEW a \in Memory
      PROVE  ReadBytes(a, 1) = <<FetchOf({FirstBlock(a)})>>
  <2>1. a \in Nat
    BY CellsOfBlocks
  <2>2. (a \div 2) .. ((a + 1 - 1) \div 2) = {a \div 2}
    BY ONLY <2>1
  <2> QED
    BY <2>2 DEF ReadBytes, Fetch, FetchOf, FirstBlock, LastBlock
<1> QED
  BY <1>1, CellsOfBlocks, Join11 DEF GetStart

(* A call whose last step is s, behind fetches.                            *)
LEMMA LastStep ==
  ASSUME NEW n \in Nat \ {0}, DOMAIN todo' = 1 .. n, NEW s, todo'[n] = s,
         \A i \in 1 .. (n - 1) : todo'[i].op \in {"fetch", "wait"},
         s.op \notin {"store", "fetch"},
         NEW f, \A b \in Needs(f, s) : Ready(n, b)',
         s.op = "backup" => ~ Whole(f, Main(f))
  PROVE  /\ Prepared(f)'
         /\ \A i \in DOMAIN todo' : ~ Storing(todo'[i])
         /\ \A op \in {"verify", "read", "write", "main", "backup", "erase"} :
               Ahead(op)' => op = s.op
<1>1. \A i \in 1 .. n : i \in 1 .. (n - 1) \/ i = n
  OBVIOUS
<1>2. \A i \in DOMAIN todo' : i # n => todo'[i].op \in {"fetch", "wait"}
  BY <1>1
<1>3. \A i \in DOMAIN todo' : ~ Storing(todo'[i])
  BY <1>2 DEF Storing
<1>4. ASSUME NEW op \in {"verify", "read", "write", "main", "backup", "erase"}, Ahead(op)'
      PROVE  op = s.op
  <2>1. PICK i \in DOMAIN todo' : todo'[i].op = op
    BY <1>4 DEF Ahead
  <2>2. i = n
    BY <1>2, <1>4, <2>1
  <2> QED
    BY <2>1, <2>2
<1>5. \A i \in DOMAIN todo' : \A b \in Needs(f, todo'[i]) : Ready(i, b)'
  <2> SUFFICES ASSUME NEW i \in DOMAIN todo', i # n
               PROVE  Needs(f, todo'[i]) = {}
    OBVIOUS
  <2>1. todo'[i].op \in {"fetch", "wait"}
    BY <1>2
  <2> QED
    BY <2>1 DEF Needs, Storing
<1>6. Ahead("backup")' => ~ Whole(f, Main(f))
  BY <1>4
<1> QED
  BY <1>3, <1>4, <1>5, <1>6 DEF Prepared, Needs, Storing, Ready

(* The thread calls: nothing has changed but that it is at work.           *)
LEMMA CallBegins ==
  ASSUME UNCHANGED value, Durable' = Durable, got' = <<>>
  PROVE  [Abstract!Next]_(Abstract!sfvars)
BY DEF Durable, Abstract!Next, Abstract!sfvars, Abstract!Call

LEMMA ReadKeepsFile ==
  ASSUME CacheInv, FileInv, EepfsRead
  PROVE  FileInv' /\ [Abstract!Next]_(Abstract!sfvars)
<1> DEFINE s == Step("read")
<1>1. /\ todo = <<>> /\ todo' = GetStart \o <<s>> /\ got' = <<>>
      /\ UNCHANGED <<rom, cache, valid, dirty, flush, value, before, risky>>
  BY DEF EepfsRead, Quiet, ghosts
<1>2. s.op = "read"
  BY DEF Step
<1> HIDE DEF s
<1>3. todo' = <<FetchOf({FirstBlock(Copy1)}), FetchOf({FirstBlock(Copy2)}), s>>
  BY <1>1, HeaderFetches, Join21
<1>4. \A i \in DOMAIN todo : ~ Storing(todo[i])
  BY <1>1
<1>5. PICK f \in Contents : f = Seen /\ Final(f) /\ Prepared(f)
  BY <1>4, Storeless
<1>6. Stored(f) = value /\ f[0] = Signature
  BY <1>1, <1>5 DEF Final, Ahead
<1>7. \A b \in Needs(f, s) : Ready(3, b)'
  BY <1>2, <1>3 DEF Needs, Storing, HeaderBlocks, Ready, Reach, Fetching, FetchOf
<1>8. /\ DOMAIN todo' = 1 .. 3 /\ todo'[3] = s
      /\ \A i \in 1 .. (3 - 1) : todo'[i].op \in {"fetch", "wait"}
  BY <1>3 DEF FetchOf
<1>9. /\ Prepared(f)' /\ \A i \in DOMAIN todo' : ~ Storing(todo'[i])
      /\ ~ Ahead("verify")' /\ ~ Ahead("write")' /\ ~ Ahead("erase")'
  BY <1>2, <1>7, <1>8, LastStep
<1>10. FileInv' /\ Durable' = Durable
  <2>1. Waited' /\ Starting'
    BY <1>9 DEF Waited, Starting
  <2> QED
    BY <1>1, <1>4, <1>5, <1>6, <1>9, <2>1, QuietKeepsFile
<1> QED
  BY <1>1, <1>10, CallBegins

LEMMA WriteCallKeepsFile ==
  ASSUME CacheInv, FileInv, Patient = TRUE, NEW v \in Values, EepfsWrite(v)
  PROVE  FileInv' /\ [Abstract!Next]_(Abstract!sfvars)
<1> DEFINE s == [op |-> "write", value |-> v]
           w == Step("wait")
<1>1. /\ todo = <<>> /\ todo' = <<w>> \o GetStart \o <<s>> /\ got' = <<>>
      /\ UNCHANGED <<rom, cache, valid, dirty, flush, value, before, risky>>
  BY DEF EepfsWrite, Wait, Quiet, ghosts
<1>2. s.op = "write" /\ w.op = "wait"
  BY DEF Step
<1> HIDE DEF s, w
<1>3. todo' = <<w, FetchOf({FirstBlock(Copy1)}), FetchOf({FirstBlock(Copy2)}), s>>
  <2> DEFINE x == FetchOf({FirstBlock(Copy1)})
             y == FetchOf({FirstBlock(Copy2)})
  <2>1. GetStart = <<x, y>>
    BY HeaderFetches
  <2> HIDE DEF x, y
  <2>2. <<w>> \o <<x, y>> = <<w, x, y>> /\ <<w, x, y>> \o <<s>> = <<w, x, y, s>>
    BY Join12, Join31
  <2>3. todo' = <<w, x, y, s>>
    BY <1>1, <2>1, <2>2
  <2> QED
    BY <2>3 DEF x, y
<1>4. \A i \in DOMAIN todo : ~ Storing(todo[i])
  BY <1>1
<1>5. PICK f \in Contents : f = Seen /\ Final(f) /\ Prepared(f)
  BY <1>4, Storeless
<1>6. Stored(f) = value /\ f[0] = Signature
  BY <1>1, <1>5 DEF Final, Ahead
<1>7. \A b \in Needs(f, s) : Ready(4, b)'
  BY <1>2, <1>3 DEF Needs, Storing, HeaderBlocks, Ready, Reach, Fetching, FetchOf
<1>8. /\ DOMAIN todo' = 1 .. 4 /\ todo'[4] = s /\ todo' # <<>> /\ Head(todo') = w
      /\ \A i \in 1 .. (4 - 1) : todo'[i].op \in {"fetch", "wait"}
  BY <1>2, <1>3 DEF FetchOf
<1>9. /\ Prepared(f)' /\ \A i \in DOMAIN todo' : ~ Storing(todo'[i])
      /\ ~ Ahead("verify")'
  BY <1>2, <1>7, <1>8, LastStep, SMTT(40)
<1>10. FileInv' /\ Durable' = Durable
  <2>1. Waited' /\ Starting'
    BY <1>2, <1>8, <1>9 DEF Waited, Starting, Doing
  <2> QED
    BY <1>1, <1>4, <1>5, <1>6, <1>9, <2>1, QuietKeepsFile
<1> QED
  BY <1>1, <1>10, CallBegins

LEMMA EraseCallKeepsFile ==
  ASSUME CacheInv, FileInv, Patient = TRUE, EepfsErase
  PROVE  FileInv' /\ [Abstract!Next]_(Abstract!sfvars)
<1> DEFINE s == Step("erase")
           w == Step("wait")
<1>1. /\ todo = <<>> /\ todo' = <<w>> \o <<s>> /\ got' = <<>>
      /\ UNCHANGED <<rom, cache, valid, dirty, flush, value, before, risky>>
  BY DEF EepfsErase, Wait, Quiet, ghosts
<1>2. s.op = "erase" /\ w.op = "wait"
  BY DEF Step
<1> HIDE DEF s, w
<1>3. todo' = <<w, s>>
  BY <1>1, Join11
<1>4. \A i \in DOMAIN todo : ~ Storing(todo[i])
  BY <1>1
<1>5. PICK f \in Contents : f = Seen /\ Final(f) /\ Prepared(f)
  BY <1>4, Storeless
<1>6. Stored(f) = value /\ f[0] = Signature
  BY <1>1, <1>5 DEF Final, Ahead
<1>7. \A b \in Needs(f, s) : Ready(2, b)'
  BY <1>2 DEF Needs, Storing
<1>8. /\ DOMAIN todo' = 1 .. 2 /\ todo'[2] = s /\ todo' # <<>> /\ Head(todo') = w
      /\ \A i \in 1 .. (2 - 1) : todo'[i].op \in {"fetch", "wait"}
  BY <1>2, <1>3
<1>9. /\ Prepared(f)' /\ \A i \in DOMAIN todo' : ~ Storing(todo'[i])
      /\ ~ Ahead("verify")'
  BY <1>2, <1>7, <1>8, LastStep
<1>10. FileInv' /\ Durable' = Durable
  <2>1. Waited' /\ Starting'
    BY <1>2, <1>8, <1>9 DEF Waited, Starting, Doing
  <2> QED
    BY <1>1, <1>4, <1>5, <1>6, <1>9, <2>1, QuietKeepsFile
<1> QED
  BY <1>1, <1>10, CallBegins
-----------------------------------------------------------------------------
(* Reading: the generations, the main copy, the backup.                    *)
LEMMA CopyIsSeen ==
  ASSUME Types, NEW c \in {Copy1, Copy2}, CopyBlocks(c) \subseteq valid
  PROVE  /\ cache[c] = Seen[c]
         /\ \A i \in 1 .. FileSize : cache[c + i] = Seen[c + i]
         /\ Whole(cache, c) <=> Whole(Seen, c)
<1>1. \A a \in c .. (c + FileSize) : a \in Memory /\ a \div 2 \in CopyBlocks(c)
  <2>1. PICK h \in Nat \ {0} : /\ FileSize + 1 <= 2 * h /\ FileSize \in Nat \ {0}
                               /\ Copy1 = 2 /\ Copy2 = 2 + 2 * h
                               /\ Memory = 0 .. (4 * h + 1)
    BY Layout
  <2>2. c \in Nat /\ c + FileSize <= 4 * h + 1
    BY <2>1
  <2>3. \A a \in c .. (c + FileSize) : a \in 0 .. (4 * h + 1)
                                       /\ a \div 2 \in (c \div 2) .. ((c + (FileSize + 1) - 1) \div 2)
    BY <2>1, <2>2
  <2> QED
    BY <2>1, <2>3 DEF CopyBlocks, FirstBlock, LastBlock
<1>2. \A a \in c .. (c + FileSize) : cache[a] = Seen[a]
  BY <1>1 DEF Seen
<1>3. c \in c .. (c + FileSize) /\ \A i \in 1 .. FileSize : c + i \in c .. (c + FileSize)
  BY Regions
<1>4. cache[c] = Seen[c] /\ \A i \in 1 .. FileSize : cache[c + i] = Seen[c + i]
  BY <1>2, <1>3
<1> QED
  BY <1>4, SameWhole

LEMMA HeadersAreSeen ==
  ASSUME Types, HeaderBlocks \subseteq valid
  PROVE  /\ cache[Copy1] = Seen[Copy1] /\ cache[Copy2] = Seen[Copy2]
         /\ Main(cache) = Main(Seen)
<1>1. cache[Copy1] = Seen[Copy1] /\ cache[Copy2] = Seen[Copy2]
  BY CellsOfBlocks DEF HeaderBlocks, FirstBlock, Seen
<1> QED
  BY <1>1, SameMain

(* What a step needs when it is its turn is valid.                         *)
LEMMA NeedsValid ==
  ASSUME Types, todo # <<>>, NEW f, Prepared(f)
  PROVE  Needs(f, Head(todo)) \subseteq valid
<1>1. 1 \in DOMAIN todo /\ Head(todo) = todo[1] /\ 1 .. (1 - 1) = {}
  BY TailOf DEF Types
<1> QED
  BY <1>1 DEF Prepared, Ready

(* While a call is at a step of its own, none of the others is ahead.      *)
LEMMA HeadAlone ==
  ASSUME CacheInv, FileInv, todo # <<>>, Head(todo).op \notin {"fetch", "store"}
  PROVE  /\ \A i \in DOMAIN todo : ~ Storing(todo[i])
         /\ Head(todo).op # "verify" => ~ Ahead("verify")
<1>1. 1 \in DOMAIN todo /\ Head(todo) = todo[1]
  BY TailOf DEF CacheInv, Types
<1> QED
  BY <1>1 DEF FileInv, Orderly, Unmixed, Starting, Storing, Fetching

(* The thread goes on reading, with s behind the blocks that it needs.     *)
LEMMA ReadsOn ==
  ASSUME CacheInv, FileInv, todo # <<>>, Head(todo).op \notin {"fetch", "store", "verify"},
         UNCHANGED <<rom, cache, valid, dirty, flush, value, before, risky>>,
         NEW f \in Contents, f = Seen, Stored(f) = value, f[0] = Signature,
         NEW c, NEW s, todo' = <<FetchOf(CopyBlocks(c)), s>>,
         HeaderBlocks \subseteq valid,
         \/ s.op = "main" /\ c = Main(f)
         \/ s.op = "backup" /\ c = Other(Main(f)) /\ ~ Whole(f, Main(f))
  PROVE  FileInv' /\ Durable' = Durable
<1>1. \A i \in DOMAIN todo : ~ Storing(todo[i])
  BY HeadAlone
<1>2. /\ DOMAIN todo' = 1 .. 2 /\ todo'[2] = s /\ todo'[1] = FetchOf(CopyBlocks(c))
      /\ \A i \in 1 .. (2 - 1) : todo'[i].op \in {"fetch", "wait"}
  BY DEF FetchOf
<1>3. \A b \in Needs(f, s) : Ready(2, b)'
  <2>1. Needs(f, s) = HeaderBlocks \cup CopyBlocks(c)
    BY DEF Needs, Storing
  <2>2. Reach(todo'[1]) = CopyBlocks(c)
    BY <1>2 DEF Reach, Fetching, FetchOf
  <2>3. 1 \in 1 .. (2 - 1)
    OBVIOUS
  <2> QED
    BY <2>1, <2>2, <2>3 DEF Ready, Reach, Fetching, Storing, Over
<1>4. s.op \in {"main", "backup"}
  OBVIOUS
<1>5. /\ Prepared(f)' /\ \A i \in DOMAIN todo' : ~ Storing(todo'[i])
      /\ ~ Ahead("verify")' /\ ~ Ahead("write")' /\ ~ Ahead("erase")'
  BY <1>2, <1>3, <1>4, LastStep
<1>6. Waited' /\ Starting'
  BY <1>5 DEF Waited, Starting
<1> QED
  BY <1>1, <1>5, <1>6, QuietKeepsFile

LEMMA ReadMainKeepsFile ==
  ASSUME CacheInv, FileInv, ReadMain
  PROVE  FileInv' /\ [Abstract!Next]_(Abstract!sfvars)
<1> DEFINE s == Step("main")
<1>1. /\ todo # <<>> /\ Head(todo).op = "read"
      /\ todo' = ReadBytes(Main(cache), FileSize + 1) \o <<s>>
      /\ UNCHANGED <<rom, cache, valid, dirty, flush, got, value, before, risky>>
  BY DEF ReadMain, Doing, Quiet, ghosts
<1>2. s.op = "main"
  BY DEF Step
<1> HIDE DEF s
<1>3. todo' = <<FetchOf(CopyBlocks(Main(cache))), s>>
  BY <1>1, Join11 DEF ReadBytes, Fetch, FetchOf, CopyBlocks
<1>4. PICK f \in Contents : f = Seen /\ Final(f) /\ Prepared(f)
  BY <1>1, HeadAlone, Storeless
<1>5. f[0] = Signature /\ Stored(f) = value
  BY <1>1, <1>4, HeadAlone DEF Final
<1>6. HeaderBlocks \subseteq valid
  BY <1>1, <1>4, NeedsValid DEF CacheInv, Needs, Storing
<1>7. Main(cache) = Main(f)
  BY <1>4, <1>6, HeadersAreSeen DEF CacheInv
<1>8. FileInv' /\ Durable' = Durable
  BY <1>1, <1>2, <1>3, <1>4, <1>5, <1>6, <1>7, ReadsOn
<1> QED
  BY <1>1, <1>8, Stutters

(* A read returns what was written last.                                   *)
LEMMA Returns ==
  ASSUME UNCHANGED value, Durable' = Durable, got' = <<value>>
  PROVE  [Abstract!Next]_(Abstract!sfvars)
BY DEF Durable, Abstract!Next, Abstract!sfvars, Abstract!ReadReturns

LEMMA MainReadKeepsFile ==
  ASSUME CacheInv, FileInv, MainRead
  PROVE  FileInv' /\ [Abstract!Next]_(Abstract!sfvars)
<1> DEFINE s == Step("backup")
           main == Main(cache)
<1>1. /\ todo # <<>> /\ Head(todo).op = "main"
      /\ IF Whole(cache, main) THEN todo' = <<>> /\ got' = <<cache[main].sum>>
         ELSE todo' = ReadBytes(Other(main), FileSize + 1) \o <<s>> /\ UNCHANGED got
      /\ UNCHANGED <<rom, cache, valid, dirty, flush, value, before, risky>>
  BY DEF MainRead, Doing, Quiet, ghosts
<1>2. s.op = "backup"
  BY DEF Step
<1> HIDE DEF s
<1>3. PICK f \in Contents : f = Seen /\ Final(f) /\ Prepared(f)
  BY <1>1, HeadAlone, Storeless
<1>4. f[0] = Signature /\ Stored(f) = value
  BY <1>1, <1>3, HeadAlone DEF Final
<1>5. HeaderBlocks \subseteq valid /\ CopyBlocks(Main(f)) \subseteq valid
  <2>1. Needs(f, Head(todo)) = HeaderBlocks \cup CopyBlocks(Main(f))
    BY <1>1 DEF Needs, Storing
  <2> QED
    BY <1>1, <1>3, <2>1, NeedsValid DEF CacheInv
<1>6. main = Main(f) /\ main \in {Copy1, Copy2}
  BY <1>3, <1>5, HeadersAreSeen, FoundIsValue DEF CacheInv
<1>7. (Whole(cache, main) <=> Whole(f, main)) /\ cache[main] = f[main]
  BY <1>3, <1>5, <1>6, CopyIsSeen DEF CacheInv
<1> HIDE DEF main
<1>8. CASE Whole(cache, main)
  <2>1. todo' = <<>> /\ got' = <<cache[main].sum>>
    BY <1>1, <1>8
  <2>2. cache[main].sum = value
    BY <1>4, <1>6, <1>7, <1>8 DEF Stored, Found
  <2>3. /\ \A i \in DOMAIN todo' : ~ Storing(todo'[i])
        /\ Prepared(f)' /\ Waited' /\ Starting'
    BY <2>1 DEF Prepared, Waited, Starting, Ahead
  <2>4. FileInv' /\ Durable' = Durable
    BY <1>1, <1>3, <1>4, <2>3, HeadAlone, QuietKeepsFile
  <2> QED
    BY <1>1, <2>1, <2>2, <2>4, Returns
<1>9. CASE ~ Whole(cache, main)
  <2>1. todo' = <<FetchOf(CopyBlocks(Other(main))), s>> /\ UNCHANGED got
    BY <1>1, <1>9, Join11 DEF ReadBytes, Fetch, FetchOf, CopyBlocks
  <2>2. ~ Whole(f, Main(f))
    BY <1>6, <1>7, <1>9
  <2>3. FileInv' /\ Durable' = Durable
    BY <1>1, <1>2, <1>3, <1>4, <1>5, <1>6, <2>1, <2>2, ReadsOn
  <2> QED
    BY <1>1, <2>1, <2>3, Stutters
<1> QED
  BY <1>8, <1>9

LEMMA BackupReadKeepsFile ==
  ASSUME CacheInv, FileInv, BackupRead
  PROVE  FileInv' /\ [Abstract!Next]_(Abstract!sfvars)
<1> DEFINE backup == Other(Main(cache))
<1>1. /\ todo # <<>> /\ Head(todo).op = "backup" /\ todo' = Tail(todo)
      /\ got' = <<IF Whole(cache, backup) THEN cache[backup].sum ELSE None>>
      /\ UNCHANGED <<rom, cache, valid, dirty, flush, value, before, risky>>
  BY DEF BackupRead, Doing, Done, Quiet, ghosts
<1>2. Types
  BY DEF CacheInv
<1>3. PICK f \in Contents : f = Seen /\ Final(f) /\ Prepared(f)
  BY <1>1, HeadAlone, Storeless
<1>4. f[0] = Signature /\ Stored(f) = value
  BY <1>1, <1>3, HeadAlone DEF Final
<1>5. HeaderBlocks \subseteq valid /\ CopyBlocks(Other(Main(f))) \subseteq valid
  <2>1. Needs(f, Head(todo)) = HeaderBlocks \cup CopyBlocks(Other(Main(f)))
    BY <1>1 DEF Needs, Storing
  <2> QED
    BY <1>1, <1>3, <2>1, NeedsValid DEF CacheInv
<1>6. backup = Other(Main(f)) /\ backup \in {Copy1, Copy2}
  BY <1>2, <1>3, <1>5, HeadersAreSeen, FoundIsValue
<1>7. (Whole(cache, backup) <=> Whole(f, backup)) /\ cache[backup] = f[backup]
  BY <1>2, <1>3, <1>5, <1>6, CopyIsSeen
<1> HIDE DEF backup
<1>8. /\ \A i \in DOMAIN todo' : i + 1 \in DOMAIN todo /\ todo'[i] = todo[i + 1]
      /\ Head(todo) = todo[1] /\ 1 \in DOMAIN todo
      /\ \A op : Ahead(op)' => Ahead(op)
  BY <1>1, <1>2, Shorter
<1>9. ~ Whole(f, Main(f))
  BY <1>1, <1>3, <1>8 DEF Prepared, Ahead
<1>10. got' = <<value>>
  BY <1>1, <1>4, <1>6, <1>7, <1>9 DEF Stored, Found
<1>11. \A i \in DOMAIN todo : ~ Storing(todo[i])
  BY <1>1, HeadAlone
<1>12. \A i \in DOMAIN todo' : ~ Storing(todo'[i])
  BY <1>8, <1>11
<1>13. Prepared(f)'
  <2>1. Reach(todo[1]) = {}
    BY <1>1, <1>8 DEF Reach, Fetching, Storing
  <2> QED
    BY <1>1, <1>2, <1>3, <2>1, PreparedOn
<1>14. Waited' /\ Starting'
  <2>1. ~ Ahead("verify")'
    BY <1>1, <1>8, HeadAlone
  <2>2. Ahead("write")' \/ Ahead("erase")' => Still'
    BY <1>1, <1>8 DEF FileInv, Orderly, Waited, Doing, Still
  <2> QED
    BY <2>1, <2>2 DEF Waited, Starting
<1>15. FileInv' /\ Durable' = Durable
  BY <1>1, <1>3, <1>4, <1>11, <1>12, <1>13, <1>14, QuietKeepsFile
<1> QED
  BY <1>1, <1>10, <1>15, Returns

-----------------------------------------------------------------------------
(* A block of zeroes, and the steps of a wipe.                             *)
LEMMA ErasesBlock ==
  ASSUME NEW b \in Blocks
  PROVE  LET s == EraseBlock(b) IN
         /\ Storing(s) /\ At(s) = Block(b) /\ Over(s) = {b}
         /\ \A a \in Block(b) : Datum(s, a) = Zero[a]
         /\ \A f : Needs(f, s) = {}
<1> DEFINE s == EraseBlock(b)
           d == <<Zero[2 * b], Zero[2 * b + 1]>>
<1>1. s.op = "store" /\ s.at = 2 * b /\ s.data = d
  BY DEF EraseBlock, Store
<1>2. Len(d) = 2 /\ d[1] = Zero[2 * b] /\ d[2] = Zero[2 * b + 1]
  OBVIOUS
<1>3. b \in Nat
  BY CellsOfBlocks
<1> HIDE DEF s, d
<1>4. /\ 2 * b .. (2 * b + 2 - 1) = {2 * b, 2 * b + 1}
      /\ (2 * b) \div 2 = b /\ (2 * b + 2 - 1) \div 2 = b
      /\ 2 * b - 2 * b + 1 = 1 /\ (2 * b + 1) - 2 * b + 1 = 2
      /\ b .. b = {b}
  BY ONLY <1>3
<1>5. At(s) = Block(b) /\ Over(s) = {b} /\ Storing(s)
  BY <1>1, <1>2, <1>4 DEF At, Over, Block, FirstBlock, LastBlock, Storing
<1>6. \A a \in Block(b) : Datum(s, a) = Zero[a]
  BY <1>1, <1>2, <1>4 DEF Block, Datum
<1>7. \A f : Needs(f, s) = {}
  BY <1>5 DEF Needs
<1> QED
  BY <1>5, <1>6, <1>7 DEF s

LEMMA WipeIs ==
  LET n == Cells(FileSize + 1)
      s == Store(0, <<Signature, Signature>>)
  IN /\ n \in Nat /\ Blocks = 0 .. n /\ DOMAIN Wipe = 1 .. (n + 1) /\ Wipe[1] = s
     /\ \A b \in 1 .. n : Wipe[b + 1] = EraseBlock(b)
     /\ Storing(s) /\ At(s) = {0, 1} /\ Over(s) = {0}
     /\ Datum(s, 0) = Signature /\ Datum(s, 1) = Signature
     /\ \A f : Needs(f, s) = {}
<1> DEFINE n == Cells(FileSize + 1)
           d == <<Signature, Signature>>
           s == Store(0, d)
           e == [b \in 1 .. n |-> EraseBlock(b)]
<1>1. n \in Nat /\ Blocks = 0 .. n
  BY Layout
<1>2. Len(d) = 2 /\ d[1] = Signature /\ d[2] = Signature
  OBVIOUS
<1>3. s.op = "store" /\ s.at = 0 /\ s.data = d
  BY DEF Store
<1>4. WriteBytes(0, d) = <<s>>
  <2>1. /\ LastBlock(0, 2) = 0 /\ FirstBlock(0) = 0 /\ 0 % 2 = 0
    BY DEF LastBlock, FirstBlock
  <2> HIDE DEF d, s
  <2>2. WriteBytes(0, d) = <<>> \o <<Store(0, d)>>
    BY <1>2, <2>1 DEF WriteBytes
  <2>3. <<>> \o <<s>> = <<s>>
    <3>1. <<s>> \in Seq({s})
      OBVIOUS
    <3> QED
      BY <3>1, ConcatEmptySeq
  <2> QED
    BY <2>2, <2>3 DEF s
<1> HIDE DEF n
<1>5. <<s>> \in Seq({s} \cup Steps) /\ Len(<<s>>) = 1 /\ <<s>>[1] = s
  OBVIOUS
<1>6. e \in Seq({s} \cup Steps) /\ Len(e) = n /\ \A b \in 1 .. n : e[b] = EraseBlock(b)
  <2>1. \A b \in 1 .. n : EraseBlock(b) \in Steps
    BY <1>1, EraseBlockSteps
  <2> QED
    BY <1>1, <2>1
<1> DEFINE T == {s} \cup Steps
           p == <<s>>
<1>7. Wipe = p \o e
  BY <1>4 DEF Wipe, n
<1> HIDE DEF d, s, e, T, p
<1>8. p \in Seq(T) /\ Len(p) = 1 /\ p[1] = s
  BY <1>5 DEF p, T
<1>9. e \in Seq(T) /\ Len(e) = n /\ \A b \in 1 .. n : e[b] = EraseBlock(b)
  BY <1>6 DEF T
<1>10. /\ Wipe \in Seq(T) /\ Len(Wipe) = 1 + n
       /\ \A i \in 1 .. (1 + n) : Wipe[i] = IF i <= 1 THEN p[i] ELSE e[i - 1]
  <2>1. /\ p \o e \in Seq(T) /\ Len(p \o e) = Len(p) + Len(e)
        /\ \A i \in 1 .. (Len(p) + Len(e)) :
              (p \o e)[i] = IF i <= Len(p) THEN p[i] ELSE e[i - Len(p)]
    BY <1>8, <1>9, ConcatProperties, Zenon
  <2> QED
    BY <1>7, <1>8, <1>9, <2>1
<1>11. DOMAIN Wipe = 1 .. (n + 1)
  <2>1. DOMAIN Wipe = 1 .. Len(Wipe)
    BY <1>10
  <2> QED
    BY <1>1, <1>10, <2>1
<1>12. Wipe[1] = s /\ \A b \in 1 .. n : Wipe[b + 1] = EraseBlock(b)
  <2>1. Wipe[1] = s
    BY <1>1, <1>8, <1>10
  <2>2. ASSUME NEW b \in 1 .. n PROVE Wipe[b + 1] = EraseBlock(b)
    <3>1. b + 1 \in 1 .. (1 + n) /\ ~ (b + 1 <= 1) /\ (b + 1) - 1 = b
      BY <1>1
    <3> QED
      BY <1>9, <1>10, <3>1
  <2> QED
    BY <2>1, <2>2
<1>13. Storing(s) /\ At(s) = {0, 1} /\ Over(s) = {0}
  <2>1. 0 .. (0 + 2 - 1) = {0, 1} /\ 0 \div 2 = 0 /\ (0 + 2 - 1) \div 2 = 0 /\ 0 .. 0 = {0}
    OBVIOUS
  <2> QED
    BY <1>2, <1>3, <2>1 DEF At, Over, FirstBlock, LastBlock, Storing
<1>14. Datum(s, 0) = Signature /\ Datum(s, 1) = Signature
  BY <1>2, <1>3 DEF Datum
<1>15. \A f : Needs(f, s) = {}
  <2>1. Block(0) = {0, 1}
    BY DEF Block
  <2> QED
    BY <1>13, <2>1 DEF Needs
<1> QED
  BY <1>1, <1>11, <1>12, <1>13, <1>14, <1>15 DEF s, d, n

(* The steps of a wipe, as one kind of thing.                              *)
LEMMA WipeSteps ==
  /\ \A i \in DOMAIN Wipe : /\ Storing(Wipe[i]) /\ \A f : Needs(f, Wipe[i]) = {}
                            /\ At(Wipe[i]) \subseteq Memory /\ Over(Wipe[i]) \subseteq Blocks
                            /\ \A a \in At(Wipe[i]) :
                                  Datum(Wipe[i], a) = IF a \in {0, 1} THEN Signature ELSE Zero[a]
  /\ \A a \in Memory : \E i \in DOMAIN Wipe : a \in At(Wipe[i])
  /\ Wipe # <<>>
<1> DEFINE n == Cells(FileSize + 1)
           s == Store(0, <<Signature, Signature>>)
<1>1. /\ n \in Nat /\ Blocks = 0 .. n /\ DOMAIN Wipe = 1 .. (n + 1) /\ Wipe[1] = s
      /\ \A b \in 1 .. n : Wipe[b + 1] = EraseBlock(b)
      /\ Storing(s) /\ At(s) = {0, 1} /\ Over(s) = {0}
      /\ Datum(s, 0) = Signature /\ Datum(s, 1) = Signature
      /\ \A f : Needs(f, s) = {}
  BY WipeIs
<1> HIDE DEF n, s
<1>2. 0 \in Blocks /\ Block(0) = {0, 1} /\ 1 \in DOMAIN Wipe
  BY <1>1 DEF Block
<1>3. {0, 1} \subseteq Memory
  BY <1>2, CellsOfBlocks
<1>4. ASSUME NEW b \in 1 .. n
      PROVE  /\ b + 1 \in DOMAIN Wipe /\ b \in Blocks /\ Storing(Wipe[b + 1])
             /\ \A f : Needs(f, Wipe[b + 1]) = {}
             /\ At(Wipe[b + 1]) = Block(b) /\ Over(Wipe[b + 1]) = {b}
             /\ Block(b) \subseteq Memory
             /\ \A a \in Block(b) : a \notin {0, 1} /\ Datum(Wipe[b + 1], a) = Zero[a]
  <2>1. b + 1 \in DOMAIN Wipe /\ b \in Blocks /\ b # 0
    BY <1>1
  <2>2. \A a \in Block(b) : a \in Memory /\ a \notin {0, 1}
    BY <1>2, <1>3, <2>1, CellsOfBlocks
  <2> QED
    BY <1>1, <2>1, <2>2, ErasesBlock
<1>5. ASSUME NEW i \in DOMAIN Wipe
      PROVE  i = 1 \/ (i - 1 \in 1 .. n /\ (i - 1) + 1 = i)
  BY <1>1
<1>6. ASSUME NEW a \in Memory
      PROVE  \E i \in DOMAIN Wipe : a \in At(Wipe[i])
  <2>1. a \div 2 \in Blocks /\ a \in Block(a \div 2)
    BY CellsOfBlocks
  <2>2. CASE a \div 2 = 0
    BY <1>1, <1>2, <2>1, <2>2
  <2>3. CASE a \div 2 # 0
    <3>1. a \div 2 \in 1 .. n
      BY <1>1, <2>1, <2>3
    <3> QED
      BY <1>4, <2>1, <3>1
  <2> QED
    BY <2>2, <2>3
<1>7. ASSUME NEW i \in DOMAIN Wipe
      PROVE  /\ Storing(Wipe[i]) /\ \A f : Needs(f, Wipe[i]) = {}
             /\ At(Wipe[i]) \subseteq Memory /\ Over(Wipe[i]) \subseteq Blocks
             /\ \A a \in At(Wipe[i]) :
                   Datum(Wipe[i], a) = IF a \in {0, 1} THEN Signature ELSE Zero[a]
  <2>1. CASE i = 1
    BY <1>1, <1>2, <1>3, <2>1
  <2>2. CASE i # 1
    <3>1. PICK b \in 1 .. n : i = b + 1
      BY <1>5, <2>2
    <3> QED
      BY <1>4, <3>1
  <2> QED
    BY <2>1, <2>2
<1> QED
  BY <1>2, <1>6, <1>7

(* While stores are all that is left, the rest of the invariant but Safe   *)
(* holds, if they make f of what a read returns now.                       *)
LEMMA StoresAhead ==
  ASSUME NEW f \in Contents,
         \A i \in DOMAIN todo' : /\ Storing(todo'[i]) \/ Fetching(todo'[i])
                                 /\ \A b \in Needs(f, todo'[i]) : Ready(i, b)'
                                 /\ Storing(todo'[i]) => \A a \in At(todo'[i]) :
                                                            Datum(todo'[i], a) = f[a],
         \A a \in Memory : \/ f[a] = Seen'[a]
                           \/ \E i \in DOMAIN todo' : Storing(todo'[i]) /\ a \in At(todo'[i]),
         Stored(f) = value', f[0] = Signature
  PROVE  Final(f)' /\ Prepared(f)' /\ Orderly'
<1>1. \A op \in {"verify", "read", "write", "main", "backup", "erase", "wait"} : ~ Ahead(op)'
  BY DEF Ahead, Storing, Fetching
<1>2. Final(f)'
  BY DEF Final, Becomes, Storing, At, Datum
<1>3. Prepared(f)'
  BY <1>1 DEF Prepared, Needs, Storing, Ready
<1>4. Orderly'
  BY <1>1 DEF Orderly, Unmixed, Waited, Starting, Storing, Fetching
<1> QED
  BY <1>2, <1>3, <1>4

(* What keeps Safe, when nothing has been written yet.                     *)
LEMMA SafeAhead ==
  ASSUME CacheInv, Still, UNCHANGED <<rom, cache, valid, dirty, flush>>,
         NEW A \in Limits, Within(A, rom), Harmless(A)',
         \A i \in DOMAIN todo' : Storing(todo'[i]) =>
            /\ \A a \in At(todo'[i]) : Datum(todo'[i], a) \in A[a]
            /\ \A b \in Over(todo'[i]) : Torn(A, b)
  PROVE  Safe'
<1>1. \A a \in Memory : a \div 2 \in valid => cache[a] \in A[a]
  BY StillSeen DEF Within
<1>2. Possible(A)'
  BY <1>1 DEF Still, Possible, Within, Torn, Storing, At, Datum, Over
<1> QED
  BY <1>2 DEF Safe

(* The signature was not found: a wipe begins.                             *)
WipeLimit ==
  [a \in Memory |-> IF a \in {Copy1, Copy2} THEN {x \in Headers : x.sum = None}
                    ELSE CellValues]

LEMMA WipeHarmless ==
  ASSUME NEW m \in Contents, Within(WipeLimit, m)
  PROVE  Empty(m)
BY CellsOfBlocks DEF Within, WipeLimit, Empty

LEMMA WipeAllows ==
  /\ WipeLimit \in Limits
  /\ \A m \in Contents : Empty(m) => Within(WipeLimit, m)
  /\ \A b \in Blocks : Torn(WipeLimit, b)
  /\ \A i \in DOMAIN Wipe : \A a \in At(Wipe[i]) : Datum(Wipe[i], a) \in WipeLimit[a]
<1>1. WipeLimit \in Limits
  <2>1. \A a \in Memory : WipeLimit[a] \subseteq CellValues
    BY DEF WipeLimit, CellValues
  <2> QED
    BY <2>1 DEF WipeLimit, Limits
<1>2. \A m \in Contents : Empty(m) => Within(WipeLimit, m)
  BY DEF Contents, Empty, Within, WipeLimit
<1>3. \A b \in Blocks : Torn(WipeLimit, b)
  <2>1. \A junk \in Junk : \A a \in Memory : junk[a] \in WipeLimit[a]
    BY <1>2, JunkIsEmpty DEF Within
  <2> QED
    BY <2>1, CellsOfBlocks DEF Torn
<1>4. ASSUME NEW i \in DOMAIN Wipe, NEW a \in At(Wipe[i])
      PROVE  Datum(Wipe[i], a) \in WipeLimit[a]
  <2>1. /\ a \in Memory
        /\ Datum(Wipe[i], a) = IF a \in {0, 1} THEN Signature ELSE Zero[a]
    BY WipeSteps
  <2>2. Copy1 \notin {0, 1} /\ Copy2 \notin {0, 1}
    BY Layout
  <2>3. Zero[a] \in WipeLimit[a]
    <3>1. Empty(Zero) /\ Zero \in Contents
      BY ZeroIsContents, CellsOfBlocks DEF Empty, Zero, Header
    <3> QED
      BY <1>2, <2>1, <3>1 DEF Within
  <2>4. Signature \in CellValues
    BY DEF CellValues
  <2> QED
    BY <2>1, <2>2, <2>3, <2>4 DEF WipeLimit
<1> QED
  BY <1>1, <1>2, <1>3, <1>4

LEMMA VerifyKeepsFile ==
  ASSUME CacheInv, FileInv, VerifySignature
  PROVE  FileInv' /\ [Abstract!Next]_(Abstract!sfvars)
<1>1. /\ todo # <<>> /\ Head(todo).op = "verify"
      /\ todo' = IF cache[0] = Signature THEN <<>> ELSE Wipe
      /\ UNCHANGED <<rom, cache, valid, dirty, flush, got, value, before, risky>>
  BY DEF VerifySignature, Doing, Quiet, ghosts
<1>2. Types /\ 1 \in DOMAIN todo /\ Head(todo) = todo[1]
  BY <1>1, TailOf DEF CacheInv, Types
<1>3. PICK f \in Contents : f = Seen /\ Final(f) /\ Prepared(f)
  BY <1>1, HeadAlone, Storeless
<1>4. \A i \in DOMAIN todo : ~ Storing(todo[i])
  BY <1>1, HeadAlone
<1>5. Still /\ before = value /\ (rom[0] = Signature \/ Empty(rom))
  BY <1>1, <1>2 DEF FileInv, Orderly, Starting, Ahead
<1>6. 0 \in valid /\ 0 \in Memory /\ 0 \div 2 = 0
  <2>1. Needs(f, Head(todo)) = {0}
    BY <1>1 DEF Needs, Storing
  <2> QED
    BY <1>1, <1>2, <1>3, <2>1, NeedsValid, CellsOfBlocks
<1>7. Seen = rom /\ cache[0] = rom[0]
  BY <1>5, <1>6, StillSeen
<1>8. Stored(f) = value
  BY <1>3 DEF Final
<1>9. CASE cache[0] = Signature
  <2>1. todo' = <<>>
    BY <1>1, <1>9
  <2>2. /\ \A i \in DOMAIN todo' : ~ Storing(todo'[i])
        /\ Prepared(f)' /\ Waited' /\ Starting'
    BY <2>1 DEF Prepared, Waited, Starting, Ahead
  <2>3. FileInv' /\ Durable' = Durable
    BY <1>1, <1>3, <1>4, <1>7, <1>8, <1>9, <2>2, QuietKeepsFile
  <2> QED
    BY <1>1, <2>3, Stutters
<1>10. CASE cache[0] # Signature
  <2> DEFINE g == [a \in Memory |-> IF a \in {0, 1} THEN Signature ELSE Zero[a]]
  <2>1. todo' = Wipe /\ Empty(rom) /\ value = None
    BY <1>1, <1>3, <1>5, <1>7, <1>8, <1>10 DEF Stored
  <2>2. g \in Contents /\ g[0] = Signature /\ Empty(g)
    <3>1. Copy1 \notin {0, 1} /\ Copy2 \notin {0, 1} /\ Copy1 \in Memory /\ Copy2 \in Memory
      BY Layout
    <3>2. \A a \in Memory : g[a] \in CellValues
      BY ZeroIsContents DEF Contents, CellValues
    <3>3. g[Copy1] = Zero[Copy1] /\ g[Copy2] = Zero[Copy2] /\ g[0] = Signature
      BY <1>6, <3>1
    <3>4. Zero[Copy1].sum = None /\ Zero[Copy2].sum = None
      BY CellsOfBlocks DEF Zero, Header
    <3> QED
      BY <3>2, <3>3, <3>4, ZeroIsContents DEF Contents, Empty
  <2>3. /\ \A i \in DOMAIN todo' : /\ Storing(todo'[i])
                                   /\ \A b \in Needs(g, todo'[i]) : Ready(i, b)'
                                   /\ \A a \in At(todo'[i]) : Datum(todo'[i], a) = g[a]
        /\ \A a \in Memory : \E i \in DOMAIN todo' : Storing(todo'[i]) /\ a \in At(todo'[i])
        /\ todo' # <<>>
    BY <2>1, WipeSteps
  <2>4. Stored(g) = value'
    BY <1>1, <2>1, <2>2, NothingFound
  <2> HIDE DEF g
  <2>5. Final(g)' /\ Prepared(g)' /\ Orderly'
    BY <2>2, <2>3, <2>4, StoresAhead
  <2>6. Safe'
    <3>1. WipeLimit \in Limits /\ Within(WipeLimit, rom)
      BY <1>2, <2>1, WipeAllows DEF Types
    <3>2. Harmless(WipeLimit)'
      <4>1. ASSUME NEW m \in Contents, Within(WipeLimit, m)
            PROVE  Stored(m) = None /\ Empty(m)
        BY <4>1, WipeHarmless, NothingFound
      <4>2. before' = None
        BY <1>1, <1>5, <2>1
      <4> QED
        BY <4>1, <4>2 DEF Harmless, Within
    <3>3. \A i \in DOMAIN todo' : Storing(todo'[i]) =>
            /\ \A a \in At(todo'[i]) : Datum(todo'[i], a) \in WipeLimit[a]
            /\ \A b \in Over(todo'[i]) : Torn(WipeLimit, b)
      BY <2>1, WipeAllows, WipeSteps
    <3> DEFINE A == WipeLimit
    <3> HIDE DEF A
    <3>4. A \in Limits /\ Within(A, rom)
      BY <3>1 DEF A
    <3>5. Harmless(A)'
      BY <3>2 DEF A
    <3>6. \A i \in DOMAIN todo' : Storing(todo'[i]) =>
            /\ \A a \in At(todo'[i]) : Datum(todo'[i], a) \in A[a]
            /\ \A b \in Over(todo'[i]) : Torn(A, b)
      BY <3>3 DEF A
    <3> QED
      BY <1>1, <1>5, <3>4, <3>5, <3>6, SafeAhead
  <2>7. Durable' = value
    BY <1>1, <1>5 DEF Durable
  <2> QED
    BY <1>1, <2>2, <2>5, <2>6, <2>7, Stutters DEF FileInv
<1> QED
  BY <1>9, <1>10

(* The steps of a write: the blocks that are overwritten in part, the      *)
(* contents, the header.                                                   *)
PartlyWritten(c) ==
  {FirstBlock(c + 1)} \cup
  {b \in {LastBlock(c + 1, FileSize)} \ {FirstBlock(c + 1)} : (c + 1 + FileSize) % 2 # 0}

ContentsStore(c, v) == Store(c + 1, [i \in 1 .. FileSize |-> v])
HeaderStore(c, header) == Store(c, <<header>>)

LEMMA WriteToIs ==
  ASSUME NEW c \in {Copy1, Copy2}, NEW header, NEW v
  PROVE  WriteTo(c, header, v) = << FetchOf(PartlyWritten(c)), ContentsStore(c, v),
                                    HeaderStore(c, header) >>
<1> DEFINE d == [i \in 1 .. FileSize |-> v]
           e == <<header>>
<1>1. c \in Nat /\ c % 2 = 0 /\ FileSize \in Nat \ {0}
  <2>1. PICK h \in Nat \ {0} : FileSize \in Nat \ {0} /\ Copy1 = 2 /\ Copy2 = 2 + 2 * h
    BY Layout
  <2> QED
    BY <2>1
<1>2. Len(d) = FileSize /\ Len(e) = 1
  <2>1. d \in Seq({v})
    BY <1>1
  <2>2. DOMAIN d = 1 .. FileSize
    OBVIOUS
  <2> QED
    BY <1>1, <2>1, <2>2
<1> HIDE DEF d, e
<1>3. (c + 1) % 2 # 0
  BY ONLY <1>1
<1>4. WriteBytes(c + 1, d) = <<FetchOf(PartlyWritten(c)), Store(c + 1, d)>>
  <2> DEFINE partial == {b \in {FirstBlock(c + 1)} : (c + 1) % 2 # 0} \cup
                        {b \in {LastBlock(c + 1, FileSize)} \ {FirstBlock(c + 1)} :
                            (c + 1 + FileSize) % 2 # 0}
             x == FetchOf(partial)
             y == Store(c + 1, d)
  <2>1. partial = PartlyWritten(c) /\ partial # {}
    BY <1>3 DEF PartlyWritten
  <2>2. WriteBytes(c + 1, d) = <<x>> \o <<y>>
    BY <1>2, <2>1 DEF WriteBytes, Fetch, FetchOf
  <2> HIDE DEF partial, x, y
  <2>3. WriteBytes(c + 1, d) = <<x, y>>
    BY <2>2, Join11
  <2> QED
    BY <2>1, <2>3 DEF x, y
<1>5. WriteBytes(c, e) = <<Store(c, e)>>
  <2> DEFINE partial == {b \in {FirstBlock(c)} : c % 2 # 0} \cup
                        {b \in {LastBlock(c, 1)} \ {FirstBlock(c)} : (c + 1) % 2 # 0}
             y == Store(c, e)
  <2>1. LastBlock(c, 1) = FirstBlock(c)
    <3>1. (c + 1 - 1) \div 2 = c \div 2
      BY ONLY <1>1
    <3> QED
      BY <3>1 DEF LastBlock, FirstBlock
  <2>2. partial = {}
    BY <1>1, <2>1
  <2>3. WriteBytes(c, e) = <<>> \o <<y>>
    BY <1>2, <2>2 DEF WriteBytes
  <2> HIDE DEF partial, y
  <2>4. <<>> \o <<y>> = <<y>>
    <3>1. <<y>> \in Seq({y})
      OBVIOUS
    <3> QED
      BY <3>1, ConcatEmptySeq
  <2> QED
    BY <2>3, <2>4 DEF y
<1> DEFINE x == FetchOf(PartlyWritten(c))
           y == Store(c + 1, d)
           z == Store(c, e)
<1>6. WriteTo(c, header, v) = <<x, y>> \o <<z>>
  BY <1>4, <1>5 DEF WriteTo, d, e
<1> HIDE DEF x, y, z
<1>7. WriteTo(c, header, v) = <<x, y, z>>
  BY <1>6, Join21
<1> QED
  BY <1>7 DEF x, y, z, d, e, ContentsStore, HeaderStore

(* Where those write, and what they need.                                  *)
LEMMA WritesCopy ==
  ASSUME NEW c \in {Copy1, Copy2}, NEW header, NEW v
  PROVE  LET s == ContentsStore(c, v)
             h == HeaderStore(c, header)
         IN /\ Storing(s) /\ At(s) = (c + 1) .. (c + FileSize)
            /\ \A a \in At(s) : Datum(s, a) = v
            /\ Storing(h) /\ At(h) = {c} /\ Datum(h, c) = header
            /\ \A f : Needs(f, s) \subseteq PartlyWritten(c)
            /\ \A f : Needs(f, h) \subseteq PartlyWritten(c)
            /\ Over(s) \cup Over(h) \subseteq Blocks
            /\ \A b \in Over(s) \cup Over(h) : Block(b) \subseteq Region(c)
<1> DEFINE d == [i \in 1 .. FileSize |-> v]
           e == <<header>>
           s == Store(c + 1, d)
           h == Store(c, e)
<1>1. PICK k \in Nat \ {0} : /\ FileSize \in Nat \ {0} /\ FileSize + 1 <= 2 * k
                             /\ Cells(FileSize + 1) = 2 * k
                             /\ Copy1 = 2 /\ Copy2 = 2 + 2 * k
                             /\ Blocks = 0 .. (2 * k)
  BY Layout
<1>2. PICK m \in 1 .. (1 + k) : c = 2 * m /\ m + k <= 2 * k + 1
  <2>1. CASE c = Copy1
    BY <1>1, <2>1
  <2>2. CASE c = Copy2
    <3>1. c = 2 * (1 + k) /\ (1 + k) + k <= 2 * k + 1 /\ 1 + k \in 1 .. (1 + k)
      BY <1>1, <2>2
    <3> QED
      BY <3>1
  <2> QED
    BY <2>1, <2>2
<1>3. Len(d) = FileSize /\ \A i \in 1 .. FileSize : d[i] = v
  <2>1. d \in Seq({v})
    BY <1>1
  <2> QED
    BY <1>1, <2>1
<1>4. Len(e) = 1 /\ e[1] = header
  OBVIOUS
<1>5. /\ s.op = "store" /\ s.at = c + 1 /\ s.data = d
      /\ h.op = "store" /\ h.at = c /\ h.data = e
  BY DEF Store
<1> DEFINE n == FileSize
<1> HIDE DEF d, e, s, h, n
<1>6. n \in Nat \ {0} /\ n + 1 <= 2 * k /\ m \in Nat \ {0} /\ c \in Nat
  BY <1>1, <1>2 DEF n
<1>7. At(s) = (c + 1) .. (c + n) /\ Over(s) = ((c + 1) \div 2) .. ((c + n) \div 2)
  <2>1. (c + 1) + n - 1 = c + n
    BY <1>6
  <2> QED
    BY <1>3, <1>5, <2>1 DEF At, Over, FirstBlock, LastBlock, n
<1>8. \A a \in At(s) : Datum(s, a) = v
  <2>1. \A a \in (c + 1) .. (c + n) : a - (c + 1) + 1 \in 1 .. n
    BY <1>6
  <2> QED
    BY <1>3, <1>5, <1>7, <2>1 DEF Datum, n
<1>9. At(h) = {c} /\ Over(h) = {m} /\ Datum(h, c) = header
  <2>1. c .. (c + 1 - 1) = {c} /\ c \div 2 = m /\ (c + 1 - 1) \div 2 = m /\ m .. m = {m}
        /\ c - c + 1 = 1
    BY ONLY <1>2, <1>6
  <2> QED
    BY <1>4, <1>5, <2>1 DEF At, Over, FirstBlock, LastBlock, Datum
<1>10. (c + 1) \div 2 = m
  BY ONLY <1>2, <1>6
<1>11. /\ FirstBlock(c + 1) = m
       /\ LastBlock(c + 1, FileSize) = (c + n) \div 2
  <2>1. (c + 1) + n - 1 = c + n
    BY <1>6
  <2> QED
    BY <1>10, <2>1 DEF FirstBlock, LastBlock, n
<1>12. ASSUME NEW b \in m .. ((c + n) \div 2)
       PROVE  /\ b \in Nat /\ 2 * b >= c /\ 2 * b <= c + n /\ b <= m + k - 1
              /\ b # m => 2 * b >= c + 1
              /\ b # (c + n) \div 2 => 2 * b + 1 <= c + n
              /\ (c + 1 + n) % 2 = 0 => 2 * b + 1 <= c + n
  BY <1>2, <1>6
<1>13. \A f : Needs(f, s) \subseteq PartlyWritten(c)
  <2> SUFFICES ASSUME NEW b \in Over(s), ~ (Block(b) \subseteq At(s))
               PROVE  b \in PartlyWritten(c)
    BY <1>5 DEF Needs, Storing
  <2>1. b \in m .. ((c + n) \div 2)
    BY <1>7, <1>10
  <2>2. CASE b # m /\ (b # (c + n) \div 2 \/ (c + 1 + n) % 2 = 0)
    <3>1. 2 * b \in (c + 1) .. (c + n) /\ 2 * b + 1 \in (c + 1) .. (c + n)
      BY <1>6, <1>12, <2>1, <2>2
    <3> QED
      BY <1>7, <3>1 DEF Block
  <2>3. CASE b = m \/ (b = (c + n) \div 2 /\ (c + 1 + n) % 2 # 0)
    BY <1>11, <2>3 DEF PartlyWritten, n
  <2> QED
    BY <2>2, <2>3
<1>14. \A f : Needs(f, h) \subseteq PartlyWritten(c)
  BY <1>5, <1>9, <1>11 DEF Needs, Storing, PartlyWritten
<1>15. \A b \in Over(s) \cup Over(h) : b \in m .. ((c + n) \div 2)
  <2>1. m \in m .. ((c + n) \div 2)
    BY <1>2, <1>6
  <2> QED
    BY <1>7, <1>9, <1>10, <2>1
<1>16. ASSUME NEW b \in m .. ((c + n) \div 2)
       PROVE  b \in Blocks /\ Block(b) \subseteq Region(c)
  <2>1. b \in Nat /\ b >= m /\ b <= m + k - 1
    BY <1>12
  <2>2. b \in 0 .. (2 * k)
    BY <1>2, <2>1
  <2>3. 2 * b \in c .. (c + 2 * k - 1) /\ 2 * b + 1 \in c .. (c + 2 * k - 1)
    BY <1>2, <2>1
  <2> QED
    BY <1>1, <2>2, <2>3 DEF Block, Region
<1> QED
  BY <1>5, <1>7, <1>8, <1>9, <1>13, <1>14, <1>15, <1>16
     DEF s, h, d, e, n, Storing, ContentsStore, HeaderStore

(* All cells of a copy may hold what is torn.                              *)
LEMMA LimitTorn ==
  ASSUME NEW o, NEW c \in {Copy1, Copy2}, NEW v, NEW b \in Blocks, Block(b) \subseteq Region(c)
  PROVE  Torn(Limit(o, c, v), b)
<1> SUFFICES ASSUME NEW a \in Block(b), NEW junk \in Junk
             PROVE  junk[a] \in Limit(o, c, v)[a]
  BY DEF Torn
<1>1. a \in Memory /\ a \in Region(c)
  BY CellsOfBlocks
<1>2. /\ junk[Copy1] \in Headers /\ junk[Copy2] \in Headers
      /\ junk[Copy1].sum = None /\ junk[Copy2].sum = None
      /\ a \notin {Copy1, Copy2} => junk[a] = None
  BY <1>1, JunkIsEmpty DEF Empty
<1>3. CASE a = c
  BY <1>1, <1>2, <1>3 DEF Limit
<1>4. CASE a # c
  <2>1. a \notin {Copy1, Copy2}
    BY <1>1, <1>4, Regions DEF Other
  <2> QED
    BY <1>1, <1>2, <1>4, <2>1 DEF Limit, CellValues
<1> QED
  BY <1>3, <1>4

LEMMA LimitIsLimit ==
  ASSUME NEW o \in Contents, NEW c \in {Copy1, Copy2}, NEW v \in Values \cup {None}
  PROVE  Limit(o, c, v) \in Limits /\ Within(Limit(o, c, v), o) /\ NewHeader(o, c, v) \in Headers
<1>1. NewHeader(o, c, v) \in Headers
  <2>1. Other(c) \in {Copy1, Copy2}
    BY DEF Other
  <2>2. o[Other(c)].gen \in Nat /\ Generations \in Nat \ {0}
    BY <2>1, FoundIsValue, EepromAssumption
  <2>3. (o[Other(c)].gen + 1) % Generations \in 0 .. (Generations - 1)
    BY <2>2
  <2> QED
    BY <2>3 DEF NewHeader, Header, Headers
<1>2. ASSUME NEW a \in Memory
      PROVE  Limit(o, c, v)[a] \subseteq CellValues /\ o[a] \in Limit(o, c, v)[a]
  <2>1. o[a] \in CellValues
    BY DEF Contents
  <2> QED
    BY <1>1, <2>1 DEF Limit, CellValues
<1>3. Limit(o, c, v) \in Limits
  BY <1>2 DEF Limits, Limit
<1> QED
  BY <1>1, <1>2, <1>3 DEF Within

(* The file is overwritten, in what was not the main copy.                 *)
LEMMA Overwrites ==
  ASSUME UNCHANGED got, Durable' = Durable, NEW v \in Values, value' = v
  PROVE  [Abstract!Next]_(Abstract!sfvars)
BY DEF Durable, Abstract!Next, Abstract!sfvars, Abstract!Write

LEMMA WriteBackupKeepsFile ==
  ASSUME CacheInv, FileInv, WriteBackup
  PROVE  FileInv' /\ [Abstract!Next]_(Abstract!sfvars)
<1>0. PICK v, main, gen : /\ v = Head(todo).value /\ main = Main(cache)
                          /\ gen = (cache[main].gen + 1) % Generations
  OBVIOUS
<1>1. /\ todo # <<>> /\ Head(todo).op = "write"
      /\ todo' = WriteTo(Other(main), Header(gen, v), v)
      /\ value' = v /\ before' = value
      /\ risky' = (Whole(rom, Other(main)) /\ ~ Whole(rom, main))
      /\ UNCHANGED <<rom, cache, valid, dirty, flush, got>>
  BY <1>0 DEF WriteBackup, Doing, Quiet
<1>2. Types /\ v \in Values /\ 1 \in DOMAIN todo /\ Head(todo) = todo[1]
  <2>1. Types /\ 1 \in DOMAIN todo /\ Head(todo) = todo[1]
    BY <1>1, TailOf DEF CacheInv, Types
  <2>2. Head(todo) \in Writes
    BY <1>1, NextStep DEF CacheInv, Types, Doing
  <2> QED
    BY <1>0, <2>1, <2>2 DEF Writes
<1>3. PICK o \in Contents : o = Seen /\ Final(o) /\ Prepared(o)
  BY <1>1, HeadAlone, Storeless
<1>4. o[0] = Signature /\ Stored(o) = value /\ \A i \in DOMAIN todo : ~ Storing(todo[i])
  BY <1>1, <1>3, HeadAlone DEF Final
<1>5. Still
  <2>1. Ahead("write") /\ ~ Doing("wait")
    BY <1>1, <1>2 DEF Ahead, Doing
  <2> QED
    BY <2>1 DEF FileInv, Orderly, Waited
<1>6. o = rom
  BY <1>3, <1>5, StillSeen
<1>7. HeaderBlocks \subseteq valid
  BY <1>1, <1>2, <1>3, NeedsValid DEF Needs, Storing
<1>8. /\ main = Main(o) /\ main \in {Copy1, Copy2}
      /\ cache[main] = o[main]
  BY <1>0, <1>2, <1>3, <1>7, HeadersAreSeen, FoundIsValue
<1> DEFINE c == Other(main)
           header == Header(gen, v)
           s == ContentsStore(c, v)
           h == HeaderStore(c, header)
           x == FetchOf(PartlyWritten(c))
<1>9. c \in {Copy1, Copy2} /\ Other(c) = main /\ c = Other(Main(o))
  BY <1>8, Regions
<1>10. header = NewHeader(o, c, v) /\ header \in Headers
  <2>1. header = NewHeader(o, c, v)
    BY <1>0, <1>8, <1>9 DEF NewHeader
  <2> QED
    BY <1>2, <1>9, <2>1, LimitIsLimit
<1> HIDE DEF header, c
<1>11. todo' = <<x, s, h>>
  <2>1. todo' = WriteTo(c, header, v)
    BY <1>1 DEF c, header
  <2> QED
    BY <1>9, <2>1, WriteToIs
<1>12. /\ Storing(s) /\ At(s) = (c + 1) .. (c + FileSize)
       /\ \A a \in At(s) : Datum(s, a) = v
       /\ Storing(h) /\ At(h) = {c} /\ Datum(h, c) = header
       /\ \A f : Needs(f, s) \subseteq PartlyWritten(c)
       /\ \A f : Needs(f, h) \subseteq PartlyWritten(c)
       /\ Over(s) \cup Over(h) \subseteq Blocks
       /\ \A b \in Over(s) \cup Over(h) : Block(b) \subseteq Region(c)
  BY <1>9, WritesCopy
<1>13. x.op = "fetch" /\ Fetching(x) /\ ~ Storing(x) /\ Reach(x) = PartlyWritten(c)
       /\ \A f : Needs(f, x) = {}
  BY DEF FetchOf, Fetching, Storing, Reach, Needs
<1> HIDE DEF x, s, h
<1>14. DOMAIN todo' = 1 .. 3 /\ todo'[1] = x /\ todo'[2] = s /\ todo'[3] = h
  BY <1>11
<1>15. DOMAIN todo' = {1, 2, 3} /\ 1 \in 1 .. (2 - 1) /\ 1 \in 1 .. (3 - 1)
  BY <1>14
<1> DEFINE f == [a \in Memory |-> IF a = c THEN header ELSE IF a \in At(s) THEN v ELSE o[a]]
<1>16. /\ At(s) \subseteq Memory /\ c \in Memory /\ c \notin At(s)
       /\ Copy1 \notin At(s) /\ Copy2 \notin At(s)
       /\ 0 \in Memory /\ 0 \notin At(s) /\ c # 0
       /\ \A i \in 1 .. FileSize : c + i \in At(s) /\ c + i \in Memory /\ c + i # c
       /\ Other(c) \notin At(s) /\ Other(c) # c /\ Other(c) \in Memory
       /\ At(s) \subseteq Region(c) /\ \A a \in At(s) : a # c /\ a <= c + FileSize
       /\ c \in Region(c)
  <2>1. /\ c \in Nat /\ FileSize \in Nat \ {0} /\ 0 \in Memory /\ c \in Memory /\ 0 \notin Region(c)
        /\ c \in Region(c) /\ Region(c) \subseteq Memory
        /\ \A i \in 1 .. FileSize : /\ c + i \in Region(c) /\ c + i \in Memory /\ c + i # c
                                    /\ c + i \notin {Copy1, Copy2}
        /\ Other(c) \in {Copy1, Copy2} /\ Other(c) # c /\ Other(c) \notin Region(c)
        /\ Other(c) \in Memory
    BY <1>9, Regions, CellsOfBlocks
  <2>2. \A a \in At(s) : a - c \in 1 .. FileSize /\ a = c + (a - c)
    BY <1>12, <2>1
  <2>3. \A i \in 1 .. FileSize : c + i \in At(s) /\ c + i <= c + FileSize
    BY <1>12, <2>1
  <2>4. \A a \in At(s) : /\ a \in Region(c) /\ a \in Memory /\ a # c
                         /\ a \notin {Copy1, Copy2} /\ a <= c + FileSize
    <3> SUFFICES ASSUME NEW a \in At(s)
                 PROVE  /\ a \in Region(c) /\ a \in Memory /\ a # c
                        /\ a \notin {Copy1, Copy2} /\ a <= c + FileSize
      OBVIOUS
    <3>1. PICK i \in 1 .. FileSize : a = c + i
      BY <2>2
    <3> QED
      BY <2>1, <2>3, <3>1
  <2> QED
    BY <2>1, <2>3, <2>4
<1>17. f \in Contents /\ f[0] = Signature /\ f[c] = header /\ f[Other(c)] = o[Other(c)]
       /\ \A i \in 1 .. FileSize : f[c + i] = v
  <2>1. \A a \in Memory : f[a] \in CellValues
    BY <1>2, <1>10 DEF Contents, CellValues
  <2>2. /\ f[Copy1] = IF Copy1 = c THEN header ELSE o[Copy1]
        /\ f[Copy2] = IF Copy2 = c THEN header ELSE o[Copy2]
    BY <1>16, CellsOfBlocks
  <2>3. f \in Contents
    BY <1>10, <2>1, <2>2 DEF Contents
  <2> QED
    BY <1>4, <1>16, <2>3
<1>18. Stored(f) = v
  <2>1. f[c] = Header((f[Other(c)].gen + 1) % Generations, v)
    BY <1>10, <1>17 DEF NewHeader
  <2> QED
    BY <1>2, <1>9, <1>17, <2>1, WriteFound
<1>19. \A a \in Memory : f[a] = IF a = c THEN header ELSE IF a \in At(s) THEN v ELSE o[a]
  OBVIOUS
<1> HIDE DEF f
<1>20. Final(f)' /\ Prepared(f)' /\ Orderly'
  <2>1. ASSUME NEW i \in DOMAIN todo'
        PROVE  /\ Storing(todo'[i]) \/ Fetching(todo'[i])
               /\ \A b \in Needs(f, todo'[i]) : Ready(i, b)'
               /\ Storing(todo'[i]) => \A a \in At(todo'[i]) : Datum(todo'[i], a) = f[a]
    <3>1. CASE i = 1
      BY <1>13, <1>14, <3>1
    <3>2. CASE i = 2
      <4>1. \A b \in Needs(f, s) : Ready(2, b)'
        BY <1>12, <1>13, <1>14, <1>15 DEF Ready, Reach, Fetching, Storing, Over
      <4>2. \A a \in At(s) : Datum(s, a) = f[a]
        BY <1>12, <1>16, <1>19
      <4> QED
        BY <1>12, <1>14, <3>2, <4>1, <4>2
    <3>3. CASE i = 3
      <4>1. \A b \in Needs(f, h) : Ready(3, b)'
        BY <1>12, <1>13, <1>14, <1>15 DEF Ready, Reach, Fetching, Storing, Over
      <4>2. \A a \in At(h) : Datum(h, a) = f[a]
        BY <1>12, <1>16, <1>19
      <4> QED
        BY <1>12, <1>14, <3>3, <4>1, <4>2
    <3> QED
      BY <1>15, <3>1, <3>2, <3>3
  <2>2. ASSUME NEW a \in Memory
        PROVE  \/ f[a] = Seen'[a]
               \/ \E i \in DOMAIN todo' : Storing(todo'[i]) /\ a \in At(todo'[i])
    <3>1. Seen' = o
      BY <1>1, <1>3 DEF Seen
    <3>2. CASE a = c
      BY <1>12, <1>14, <1>15, <3>2
    <3>3. CASE a \in At(s)
      BY <1>12, <1>14, <1>15, <3>3
    <3>4. CASE a # c /\ a \notin At(s)
      BY <1>19, <3>1, <3>4
    <3> QED
      BY <3>2, <3>3, <3>4
  <2>3. f \in Contents /\ Stored(f) = value' /\ f[0] = Signature
    BY <1>1, <1>17, <1>18
  <2> QED
    BY <2>1, <2>2, <2>3, StoresAhead
<1>21. Safe'
  <2>1. CASE risky'
    BY <2>1 DEF Safe
  <2>2. CASE ~ risky'
    <3> DEFINE A == Limit(o, c, v)
    <3>1. A \in Limits /\ Within(A, rom)
      BY <1>2, <1>6, <1>9, LimitIsLimit
    <3>2. \A m \in Contents : Within(A, m) => m[0] = Signature /\ Stored(m) \in {value, v}
      <4>1. Whole(o, c) => Whole(o, Main(o))
        BY <1>1, <1>6, <1>8, <2>2 DEF c
      <4> QED
        BY <1>2, <1>4, <1>9, <4>1, WriteHarmless
    <3>3. Harmless(A)'
      <4> HIDE DEF A
      <4> QED
        BY <1>1, <3>2 DEF Harmless, Within
    <3>4. \A b \in Over(s) \cup Over(h) : Torn(A, b)
      BY <1>9, <1>12, LimitTorn
    <3>5. \A a \in At(s) : Datum(s, a) \in A[a]
      BY <1>12, <1>16 DEF Limit
    <3>6. \A a \in At(h) : Datum(h, a) \in A[a]
      BY <1>10, <1>12, <1>16 DEF Limit
    <3> HIDE DEF A
    <3>7. \A i \in DOMAIN todo' : Storing(todo'[i]) =>
            /\ \A a \in At(todo'[i]) : Datum(todo'[i], a) \in A[a]
            /\ \A b \in Over(todo'[i]) : Torn(A, b)
      BY <1>13, <1>14, <1>15, <3>4, <3>5, <3>6
    <3> QED
      BY <1>1, <1>5, <3>1, <3>3, <3>7, SafeAhead
  <2> QED
    BY <2>1, <2>2
<1>22. Durable' = Durable
  <2>1. Settled
    BY <1>4, <1>5 DEF Settled, Still, Storing
  <2>2. ~ Settled'
    BY <1>12, <1>14, <1>15 DEF Settled, Storing
  <2> QED
    BY <1>1, <2>1, <2>2 DEF Durable
<1> QED
  BY <1>1, <1>2, <1>17, <1>20, <1>21, <1>22, Overwrites DEF FileInv

(* The blocks that an erase overwrites lie in the first copy.              *)
LEMMA Erased ==
  LET n == Cells(FileSize) \div 2
      erased == UNION {Block(b) : b \in (Copy1 \div 2) .. ((Copy1 \div 2) + n - 1)}
  IN /\ n \in Nat \ {0} /\ (Copy1 \div 2) = 1
     /\ \A i \in 1 .. n : /\ (Copy1 \div 2) + i - 1 = i
                          /\ i \in Blocks /\ Block(i) \subseteq erased
     /\ \A a \in erased : \E i \in 1 .. n : a \in Block(i)
     /\ erased \subseteq Memory /\ erased \subseteq Region(Copy1) /\ Copy1 \in erased
     /\ Copy2 \notin erased /\ 0 \notin erased
<1> DEFINE n == Cells(FileSize) \div 2
<1>1. PICK k \in Nat \ {0} : /\ FileSize \in Nat \ {0} /\ Cells(FileSize + 1) = 2 * k
                             /\ Cells(FileSize) <= 2 * k /\ Cells(FileSize) \in Nat
                             /\ Copy1 = 2 /\ Copy2 = 2 + 2 * k
                             /\ Blocks = 0 .. (2 * k)
  BY Layout
<1>2. n \in Nat \ {0} /\ n <= k
  <2>1. Cells(FileSize) >= 2
    <3>1. (FileSize + 1) \div 2 >= 1 /\ (FileSize + 1) \div 2 \in Nat
      BY <1>1
    <3> QED
      BY <3>1 DEF Cells
  <2> QED
    BY <1>1, <2>1
<1> HIDE DEF n
<1>3. Copy1 \div 2 = 1 /\ 1 + n - 1 = n
  BY <1>1, <1>2
<1> DEFINE erased == UNION {Block(b) : b \in 1 .. n}
<1>4. \A i \in 1 .. n : 1 + i - 1 = i /\ i \in Blocks /\ Block(i) \subseteq erased
  <2>1. \A i \in 1 .. n : 1 + i - 1 = i /\ i \in 0 .. (2 * k)
    BY <1>2
  <2> QED
    BY <1>1, <2>1
<1>5. \A a \in erased : \E i \in 1 .. n : a \in Block(i)
  OBVIOUS
<1> HIDE DEF erased
<1>6. ASSUME NEW a \in erased
      PROVE  a \in Memory /\ a \in Region(Copy1) /\ a # Copy2 /\ a # 0
  <2>1. PICK i \in 1 .. n : a \in Block(i)
    BY <1>5
  <2>2. a = 2 * i \/ a = 2 * i + 1
    BY <2>1 DEF Block
  <2>3. a \in 2 .. (2 + 2 * k - 1)
    BY <1>2, <2>2
  <2>4. a \in Region(Copy1) /\ a # Copy2 /\ a # 0
    BY <1>1, <2>3 DEF Region
  <2> QED
    BY <1>4, <2>1, <2>4, CellsOfBlocks
<1>7. Copy1 \in erased
  <2>1. Copy1 \in Block(1) /\ 1 \in 1 .. n
    BY <1>1, <1>2 DEF Block
  <2> QED
    BY <1>4, <2>1
<1> QED
  BY <1>2, <1>3, <1>4, <1>5, <1>6, <1>7 DEF erased, n

(* Nothing is promised of a file that is erased, but the old contents      *)
(* stay until that is persisted.                                           *)
LEMMA GivesUp ==
  ASSUME UNCHANGED got, Durable' = Durable, value' \in Values \cup {None}
  PROVE  [Abstract!Next]_(Abstract!sfvars)
BY DEF Durable, Abstract!Next, Abstract!sfvars, Abstract!Erase

LEMMA EraseKeepsFile ==
  ASSUME CacheInv, FileInv, EraseBlocks
  PROVE  FileInv' /\ [Abstract!Next]_(Abstract!sfvars)
<1> DEFINE n == Cells(FileSize) \div 2
           erased == UNION {Block(b) : b \in (Copy1 \div 2) .. ((Copy1 \div 2) + n - 1)}
<1>1. /\ todo # <<>> /\ Head(todo).op = "erase"
      /\ todo' = [i \in 1 .. n |-> EraseBlock((Copy1 \div 2) + i - 1)]
      /\ value' = Stored(Overwritten(Seen, erased, Zero)) /\ before' = value
      /\ UNCHANGED <<rom, cache, valid, dirty, flush, got>>
  BY DEF EraseBlocks, Doing, Quiet
<1>2. /\ n \in Nat \ {0}
      /\ \A i \in 1 .. n : /\ (Copy1 \div 2) + i - 1 = i
                           /\ i \in Blocks /\ Block(i) \subseteq erased
      /\ \A a \in erased : \E i \in 1 .. n : a \in Block(i)
      /\ erased \subseteq Memory /\ erased \subseteq Region(Copy1) /\ Copy1 \in erased
      /\ Copy2 \notin erased /\ 0 \notin erased
  BY Erased
<1> HIDE DEF n, erased
<1>3. Types /\ 1 \in DOMAIN todo /\ Head(todo) = todo[1]
  BY <1>1, TailOf DEF CacheInv, Types
<1>4. PICK o \in Contents : o = Seen /\ Final(o) /\ Prepared(o)
  BY <1>1, HeadAlone, Storeless
<1>5. o[0] = Signature /\ Stored(o) = value /\ \A i \in DOMAIN todo : ~ Storing(todo[i])
  BY <1>1, <1>4, HeadAlone DEF Final
<1>6. Still
  <2>1. Ahead("erase") /\ ~ Doing("wait")
    BY <1>1, <1>3 DEF Ahead, Doing
  <2> QED
    BY <2>1 DEF FileInv, Orderly, Waited
<1>7. o = rom
  BY <1>4, <1>6, StillSeen
<1>8. PICK e : e = Overwritten(o, erased, Zero)
  OBVIOUS
<1>9. e \in Contents /\ \A a \in Memory : e[a] = IF a \in erased THEN Zero[a] ELSE o[a]
  <2>1. \A a \in erased \cap Memory : /\ Zero[a] \in CellValues
                                      /\ a \in {Copy1, Copy2} => Zero[a] \in Headers
    BY ZeroIsContents DEF Contents
  <2> QED
    BY <1>8, <2>1, OverwrittenIsContents
<1>10. e[Copy1].sum = None /\ \A a \in Memory : a \notin Region(Copy1) => e[a] = o[a]
  <2>1. Zero[Copy1].sum = None /\ Copy1 \in Memory
    BY CellsOfBlocks DEF Zero, Header
  <2>2. e[Copy1] = Zero[Copy1]
    BY <1>2, <1>9, <2>1
  <2>3. \A a \in Memory : a \notin Region(Copy1) => e[a] = o[a]
    BY <1>2, <1>9
  <2> QED
    BY <2>1, <2>2, <2>3
<1>11. e[0] = Signature
  BY <1>2, <1>5, <1>9, CellsOfBlocks
<1>12. ASSUME NEW i \in 1 .. n
       PROVE  /\ i \in Blocks /\ Block(i) \subseteq erased /\ todo'[i] = EraseBlock(i)
              /\ Storing(todo'[i]) /\ At(todo'[i]) = Block(i) /\ Over(todo'[i]) = {i}
              /\ \A a \in Block(i) : Datum(todo'[i], a) = Zero[a]
              /\ \A f : Needs(f, todo'[i]) = {}
  <2>1. todo'[i] = EraseBlock(i) /\ i \in Blocks /\ Block(i) \subseteq erased
    BY <1>1, <1>2
  <2> QED
    BY <2>1, ErasesBlock
<1>13. DOMAIN todo' = 1 .. n /\ 1 \in 1 .. n
  BY <1>1, <1>2
<1>14. Final(e)' /\ Prepared(e)' /\ Orderly'
  <2>1. ASSUME NEW i \in DOMAIN todo'
        PROVE  /\ Storing(todo'[i]) /\ Needs(e, todo'[i]) = {}
               /\ \A a \in At(todo'[i]) : Datum(todo'[i], a) = e[a]
    <3>1. PICK j \in 1 .. n : j = i
      BY <1>13
    <3>2. PICK s : s = todo'[j]
      OBVIOUS
    <3>3. /\ Block(j) \subseteq erased /\ Storing(s) /\ At(s) = Block(j)
          /\ \A a \in Block(j) : Datum(s, a) = Zero[a]
          /\ \A f : Needs(f, s) = {}
      BY <1>12, <3>2
    <3>4. \A a \in Block(j) : Datum(s, a) = e[a]
      <4>1. \A a \in Block(j) : a \in erased /\ a \in Memory
        BY <1>2, <3>3
      <4> QED
        BY <1>9, <3>3, <4>1
    <3>5. Storing(s) /\ Needs(e, s) = {} /\ \A a \in At(s) : Datum(s, a) = e[a]
      BY <3>3, <3>4
    <3> QED
      BY <3>1, <3>2, <3>5
  <2>2. ASSUME NEW a \in Memory
        PROVE  \/ e[a] = Seen'[a]
               \/ \E i \in DOMAIN todo' : Storing(todo'[i]) /\ a \in At(todo'[i])
    <3>1. Seen' = o
      BY <1>1, <1>4 DEF Seen
    <3>2. CASE a \in erased
      BY <1>2, <1>12, <1>13, <3>2
    <3>3. CASE a \notin erased
      BY <1>9, <3>1, <3>3
    <3> QED
      BY <3>2, <3>3
  <2>3. Stored(e) = value'
    BY <1>1, <1>4, <1>8
  <2> QED
    BY <1>9, <1>11, <2>1, <2>2, <2>3, StoresAhead
<1>15. Safe'
  <2> DEFINE A == Limit(o, Copy1, None)
  <2>1. A \in Limits /\ Within(A, rom)
    BY <1>7, LimitIsLimit
  <2>2. \A m \in Contents : Within(A, m) => m[0] = Signature /\ Stored(m) \in {Stored(o), Stored(e)}
    BY <1>5, <1>9, <1>10, EraseHarmless
  <2>3. \A i \in 1 .. n : Torn(A, i)
    BY <1>2, LimitTorn
  <2>4. ASSUME NEW a \in erased
        PROVE  Zero[a] \in A[a]
    <3>1. a \in Memory /\ a \in Region(Copy1) /\ a # Copy2
      BY <1>2
    <3>2. CASE a = Copy1
      <4>1. Zero[a] \in Headers /\ Zero[a].sum = None
        BY <3>2, ZeroIsContents, CellsOfBlocks DEF Contents, Zero, Header
      <4> QED
        BY <3>1, <3>2, <4>1 DEF Limit
    <3>3. CASE a # Copy1
      <4>1. Zero[a] = None
        BY <3>1, <3>3 DEF Zero
      <4> QED
        BY <3>1, <3>3, <4>1 DEF Limit, CellValues
    <3> QED
      BY <3>2, <3>3
  <2> HIDE DEF A
  <2>5. Harmless(A)'
    <3>1. before' = Stored(o) /\ value' = Stored(e)
      BY <1>1, <1>4, <1>5, <1>8
    <3> QED
      BY <2>2, <3>1 DEF Harmless, Within
  <2>6. \A i \in DOMAIN todo' : Storing(todo'[i]) =>
          /\ \A a \in At(todo'[i]) : Datum(todo'[i], a) \in A[a]
          /\ \A b \in Over(todo'[i]) : Torn(A, b)
    BY <1>12, <1>13, <2>3, <2>4
  <2> QED
    BY <1>1, <1>6, <2>1, <2>5, <2>6, SafeAhead
<1>16. Durable' = Durable
  <2>1. Settled
    BY <1>5, <1>6 DEF Settled, Still, Storing
  <2>2. ~ Settled'
    BY <1>12, <1>13 DEF Settled, Storing
  <2> QED
    BY <1>1, <2>1, <2>2 DEF Durable
<1>17. value' \in Values \cup {None}
  BY <1>1, <1>4, <1>8, <1>9, FoundIsValue
<1> QED
  BY <1>1, <1>9, <1>14, <1>15, <1>16, <1>17, GivesUp DEF FileInv

-----------------------------------------------------------------------------
(* Power comes back: the EEPROM holds the new file or the old one.         *)
LEMMA BootsOn ==
  ASSUME Types', rom' \in Contents, valid' = {}, dirty' = {}, flush' = None,
         todo' = Boot, value' = Stored(rom'), before' = value',
         rom'[0] = Signature \/ Empty(rom')
  PROVE  FileInv' /\ Durable' = value'
<1> DEFINE s == Step("verify")
<1>1. PICK f \in Contents : f = rom'
  OBVIOUS
<1>2. s.op = "verify"
  BY DEF Step
<1> HIDE DEF s
<1>3. todo' = <<FetchOf({0}), s>>
  <2>1. ReadBytes(0, 2) = <<FetchOf({0})>>
    <3>1. 0 \div 2 = 0 /\ (0 + 2 - 1) \div 2 = 0 /\ 0 .. 0 = {0}
      OBVIOUS
    <3> QED
      BY <3>1 DEF ReadBytes, Fetch, FetchOf, FirstBlock, LastBlock
  <2>2. todo' = <<FetchOf({0})>> \o <<s>>
    BY <2>1 DEF Boot, s
  <2> QED
    BY <2>2, Join11
<1>4. /\ DOMAIN todo' = 1 .. 2 /\ todo'[2] = s /\ todo'[1] = FetchOf({0})
      /\ \A i \in 1 .. (2 - 1) : todo'[i].op \in {"fetch", "wait"}
      /\ DOMAIN todo' = {1, 2} /\ 1 \in 1 .. (2 - 1)
  BY <1>3 DEF FetchOf
<1>5. \A b \in Needs(f, s) : Ready(2, b)'
  <2>1. Needs(f, s) = {0}
    BY <1>2 DEF Needs, Storing
  <2>2. Reach(todo'[1]) = {0}
    BY <1>4 DEF Reach, Fetching, FetchOf
  <2> QED
    BY <1>4, <2>1, <2>2 DEF Ready, Reach, Fetching, Storing, Over
<1>6. /\ Prepared(f)' /\ \A i \in DOMAIN todo' : ~ Storing(todo'[i])
      /\ ~ Ahead("write")' /\ ~ Ahead("erase")'
  BY <1>2, <1>4, <1>5, LastStep
<1>7. Ahead("verify")'
  BY <1>2, <1>4 DEF Ahead
<1>8. Seen' = f
  <2>1. \A a \in Memory : Seen'[a] = f[a]
    BY <1>1 DEF Seen
  <2> QED
    BY <1>1, <2>1 DEF Seen, Contents
<1>9. Final(f)'
  <2>1. Becomes(f)'
    BY <1>6, <1>8 DEF Becomes, Storing
  <2> QED
    BY <1>1, <1>7, <2>1 DEF Final
<1>10. Still' /\ Settled'
  BY <1>6 DEF Still, Settled, Storing
<1>11. Orderly'
  <2>1. \A i \in DOMAIN todo' : Fetching(todo'[i]) \/ todo'[i].op = "verify"
    BY <1>2, <1>4 DEF Fetching, FetchOf
  <2> QED
    BY <1>6, <1>10, <2>1 DEF Orderly, Unmixed, Waited, Starting, Storing, Fetching
<1> QED
  BY <1>6, <1>9, <1>10, <1>11 DEF FileInv, Safe, Durable

LEMMA PowerKeepsFile ==
  ASSUME CacheInv, FileInv, Spared = TRUE, PowerFails
  PROVE  FileInv' /\ [Abstract!Next]_(Abstract!sfvars)
<1>1. /\ got' = <<>> /\ valid' = {} /\ dirty' = {}
      /\ flush' = None /\ todo' = Boot
      /\ value' = Stored(rom') /\ before' = value'
      /\ risky => Settled
  BY DEF PowerFails
<1>2. Types /\ Types'
  BY PowerFailsKeepsCacheInv DEF CacheInv
<1>3. rom' \in Contents
  BY <1>2 DEF Types
<1>4. (rom'[0] = Signature \/ Empty(rom')) /\ Stored(rom') \in {Durable, value}
  <2>1. CASE Settled
    <3>1. Still /\ \A i \in DOMAIN todo : ~ Storing(todo[i])
      BY <2>1 DEF Settled, Still, Storing
    <3>2. PICK f \in Contents : f = Seen /\ Final(f) /\ Prepared(f)
      BY <3>1, Storeless
    <3>3. rom' = rom /\ f = rom
      BY <3>1, <3>2, StillSeen DEF PowerFails, Still
    <3>4. rom[0] = Signature \/ Empty(rom)
      BY <3>2, <3>3 DEF Final, FileInv, Orderly, Starting
    <3> QED
      BY <3>2, <3>3, <3>4 DEF Final
  <2>2. CASE ~ Settled
    <3>1. PICK A \in Limits : Possible(A) /\ Harmless(A)
      BY <1>1, <2>2 DEF FileInv, Safe
    <3>2. \A a \in Memory : rom[a] \in A[a]
      BY <3>1 DEF Possible, Within
    <3>3. \A a \in Memory : rom'[a] \in A[a]
      <4>1. CASE UNCHANGED rom
        BY <3>2, <4>1
      <4>2. CASE flush # None /\ rom' = Overwritten(rom, Block(flush.block), flush.data)
        BY <3>1, <3>2, <4>2 DEF Overwritten, Possible
      <4>3. CASE flush # None /\ \E junk \in Junk : rom' = Overwritten(rom, Block(flush.block), junk)
        BY <3>1, <3>2, <4>3 DEF Overwritten, Possible, Torn
      <4> QED
        BY <4>1, <4>2, <4>3 DEF PowerFails
    <3>5. PICK m \in Contents : m = rom'
      BY <1>3
    <3>6. Stored(m) \in {before, value} /\ (m[0] = Signature \/ Empty(m))
      BY <3>1, <3>3, <3>5 DEF Harmless, Within
    <3> QED
      BY <2>2, <3>5, <3>6 DEF Durable
  <2> QED
    BY <2>1, <2>2
<1>5. FileInv' /\ Durable' = value'
  BY <1>1, <1>2, <1>3, <1>4, BootsOn
<1>6. value' \in {Durable, value}
  BY <1>1, <1>4
<1>7. Abstract!PowerFails
  BY <1>1, <1>5, <1>6 DEF Durable, Abstract!PowerFails
<1> QED
  BY <1>5, <1>7 DEF Abstract!Next

(* At power-on the EEPROM holds random contents, and no file.              *)
LEMMA InitFile ==
  Init => FileInv /\ Abstract!Init
<1> SUFFICES ASSUME Init PROVE FileInv /\ Abstract!Init
  OBVIOUS
<1>1. /\ rom \in Junk /\ valid = {} /\ dirty = {} /\ flush = None /\ todo = Boot
      /\ value = None /\ before = None /\ got = <<>>
  BY DEF Init
<1> DEFINE s == Step("verify")
<1>2. PICK f \in Contents : f = rom
  BY <1>1, JunkIsEmpty
<1>3. s.op = "verify"
  BY DEF Step
<1> HIDE DEF s
<1>4. todo = <<FetchOf({0}), s>>
  <2>1. ReadBytes(0, 2) = <<FetchOf({0})>>
    <3>1. 0 \div 2 = 0 /\ (0 + 2 - 1) \div 2 = 0 /\ 0 .. 0 = {0}
      OBVIOUS
    <3> QED
      BY <3>1 DEF ReadBytes, Fetch, FetchOf, FirstBlock, LastBlock
  <2>2. todo = <<FetchOf({0})>> \o <<s>>
    BY <1>1, <2>1 DEF Boot, s
  <2> QED
    BY <2>2, Join11
<1>5. /\ DOMAIN todo = {1, 2} /\ todo[2] = s /\ todo[1] = FetchOf({0}) /\ 1 \in 1 .. (2 - 1)
  BY <1>4
<1>6. /\ \A i \in DOMAIN todo : ~ Storing(todo[i]) /\ (Fetching(todo[i]) \/ todo[i].op = "verify")
      /\ Ahead("verify") /\ ~ Ahead("write") /\ ~ Ahead("erase") /\ ~ Ahead("backup")
  BY <1>3, <1>5 DEF Storing, Fetching, Ahead, FetchOf
<1>7. Empty(rom) /\ Stored(f) = None
  BY <1>1, <1>2, JunkIsEmpty, NothingFound
<1>8. Seen = f
  <2>1. \A a \in Memory : Seen[a] = f[a]
    BY <1>1, <1>2 DEF Seen
  <2> QED
    BY <1>2, <2>1 DEF Seen, Contents
<1>9. Final(f)
  <2>1. Becomes(f)
    BY <1>6, <1>8 DEF Becomes
  <2> QED
    BY <1>1, <1>6, <1>7, <2>1 DEF Final
<1>10. Prepared(f)
  <2>1. Needs(f, s) = {0} /\ Needs(f, FetchOf({0})) = {}
    BY <1>3 DEF Needs, Storing, FetchOf
  <2>2. Reach(todo[1]) = {0}
    BY <1>5 DEF Reach, Fetching, FetchOf
  <2> QED
    BY <1>5, <1>6, <2>1, <2>2 DEF Prepared, Ready
<1>11. Still /\ Settled
  BY <1>1, <1>6 DEF Still, Settled, Storing
<1>12. Orderly
  BY <1>1, <1>6, <1>7, <1>11 DEF Orderly, Unmixed, Waited, Starting
<1> QED
  BY <1>1, <1>2, <1>9, <1>10, <1>11, <1>12 DEF FileInv, Safe, Abstract!Init

LEMMA NextKeepsFile ==
  ASSUME Patient = TRUE, Spared = TRUE, CacheInv, FileInv, [Next]_vars
  PROVE  FileInv' /\ [Abstract!Next]_(Abstract!sfvars)
<1>1. ASSUME UNCHANGED vars
      PROVE  FileInv' /\ [Abstract!Next]_(Abstract!sfvars)
  BY <1>1, SameFile DEF vars, ghosts
<1>2. ASSUME FlushPause
      PROVE  FileInv' /\ [Abstract!Next]_(Abstract!sfvars)
  BY <1>2, SameFile DEF FlushPause, ghosts
<1>3. ASSUME CallStep
      PROVE  FileInv' /\ [Abstract!Next]_(Abstract!sfvars)
  BY <1>2, <1>3, FetchKeepsFile, StoreKeepsFile, WaitKeepsFile, VerifyKeepsFile,
     ReadMainKeepsFile, MainReadKeepsFile, BackupReadKeepsFile, WriteBackupKeepsFile,
     EraseKeepsFile DEF CallStep
<1>4. ASSUME EepfsRead \/ EepfsErase \/ \E v \in Values : EepfsWrite(v)
      PROVE  FileInv' /\ [Abstract!Next]_(Abstract!sfvars)
  BY <1>4, ReadKeepsFile, EraseCallKeepsFile, WriteCallKeepsFile
<1>5. ASSUME (\E accepted \in BOOLEAN : FlushDone(accepted)) \/ PowerFails
      PROVE  FileInv' /\ [Abstract!Next]_(Abstract!sfvars)
  BY <1>5, FlushDoneKeepsFile, PowerKeepsFile
<1> QED
  BY <1>1, <1>3, <1>4, <1>5 DEF Next

(* A file keeps its contents: with a program that waits for one write to   *)
(* end before it starts another, and if no power failure falls into a      *)
(* write that replaces the only good copy, every read returns what was     *)
(* written last, and a power failure at any other point, also one that     *)
(* tears the block being written, leaves the new contents or the old ones. *)
(* This is the safety part of SaveFile, step by step.                      *)
THEOREM FileIsKept ==
  ASSUME Patient = TRUE, Spared = TRUE
  PROVE  Spec => Abstract!Init /\ [][Abstract!Next]_(Abstract!sfvars)
<1>1. Init => FileInv /\ Abstract!Init
  BY InitFile
<1>2. CacheInv /\ FileInv /\ [Next]_vars => FileInv' /\ [Abstract!Next]_(Abstract!sfvars)
  BY NextKeepsFile
<1>3. Spec => []FileInv
  BY CacheInvHolds, <1>1, <1>2, PTL DEF Spec
<1> QED
  BY CacheInvHolds, <1>1, <1>2, <1>3, PTL DEF Spec
=============================================================================

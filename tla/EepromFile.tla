----------------------------- MODULE EepromFile -----------------------------
(***************************************************************************)
(* A file of the EEPROM file system, src/joybus/eepromfs.c, with checksum  *)
(* and backup, in the write-back cache of src/joybus/eeprom.c.             *)
(*                                                                         *)
(* The EEPROM is addressed by cells, two to a block: bytes as far as the   *)
(* code tells them apart.  A copy of the file is a cell with checksum and  *)
(* generation and the cells of the contents.  One thread calls the file    *)
(* system: todo holds the steps that are left of its call.  Blocks are     *)
(* written in the background, one at a time, by callbacks of the joybus.   *)
(***************************************************************************)
EXTENDS Naturals, Sequences

CONSTANTS FileSize,    \* the cells of the contents
          Values,      \* contents of the file
          Generations, \* the span of the generation counter, 256
          Noise,       \* the generations that random contents may show
          Signature,   \* the block that eepfs_generate_signature makes
          None,
          Patient,     \* the program calls eeprom_wait_idle before it writes
          Erases,      \* the program erases the file
          Spared       \* no power failure while the only good copy is replaced

Cells(n) == 2 * ((n + 1) \div 2)
Copy1 == 2
Copy2 == Copy1 + Cells(FileSize + 1)
Blocks == 0 .. Cells(FileSize + 1)
Memory == 0 .. (2 * Cells(FileSize + 1) + 1)

Block(b) == {2 * b, 2 * b + 1}

\* What the cells hold: a header with a generation and the contents that its
\* checksum matches, or a part of the contents of the file or the signature.
Headers == [gen : 0 .. (Generations - 1), sum : Values \cup {None}]
CellValues == Headers \cup Values \cup {None, Signature}
Contents == {m \in [Memory -> CellValues] :
                m[Copy1] \in Headers /\ m[Copy2] \in Headers}

ASSUME EepromAssumption ==
    /\ FileSize \in Nat \ {0}
    /\ Generations \in Nat \ {0, 2} /\ Generations % 2 = 0
    /\ Noise \subseteq 0 .. (Generations - 1) /\ Noise # {}
    /\ None \notin Values \cup {Signature} /\ Signature \notin Values
    /\ \A b \in Blocks : None \notin [block : {b}, data : [Block(b) -> CellValues]]
    /\ Patient \in BOOLEAN /\ Erases \in BOOLEAN /\ Spared \in BOOLEAN

VARIABLES
    rom,        \* the EEPROM
    cache, valid, dirty,
    flush,      \* the block being written, None in EEPROM_FLUSH_IDLE
    miss,       \* eeprom_read_miss_pending, and that a flush was in progress
    todo,
    got,        \* what eepfs_read has returned, <<>> until then
    \* history
    value,      \* what was written last, or what a power failure has left
    before,     \* what that has replaced
    risky       \* it replaces the only good copy

ghosts == <<value, before, risky>>
vars == <<rom, cache, valid, dirty, flush, miss, todo, got, ghosts>>
-----------------------------------------------------------------------------
\* Contents.  None is what no checksum matches: zeroes, or anything else.
Header(g, v) == [gen |-> g, sum |-> v]

Zero == [a \in Memory |-> IF a \in {Copy1, Copy2} THEN Header(0, None) ELSE None]

Junk == {[Zero EXCEPT ![Copy1].gen = g, ![Copy2].gen = h] :
             g, h \in Noise}

Overwritten(m, as, n) == [a \in Memory |-> IF a \in as THEN n[a] ELSE m[a]]

\* read_file: the checksum matches.
Whole(m, copy) == /\ m[copy].sum # None
                  /\ \A i \in 1 .. FileSize : m[copy + i] = m[copy].sum

Other(copy) == IF copy = Copy1 THEN Copy2 ELSE Copy1

\* Mutant: the generations are compared without their wrap.
MainUnsigned(m) == IF m[Copy1].gen < m[Copy2].gen THEN Copy2 ELSE Copy1

\* file_get_start: the copy of the later generation; a signed difference.
Main(m) ==
    IF (Generations + m[Copy1].gen - m[Copy2].gen) % Generations
           >= Generations \div 2
    THEN Copy2 ELSE Copy1

\* What eepfs_read finds.
Found(m) == IF Whole(m, Main(m)) THEN m[Main(m)].sum
            ELSE IF Whole(m, Other(Main(m))) THEN m[Other(Main(m))].sum ELSE None

Stored(m) == IF m[0] = Signature THEN Found(m) ELSE None

\* What callers see: the cache where it is valid.
Seen == [a \in Memory |-> IF a \div 2 \in valid THEN cache[a] ELSE rom[a]]
-----------------------------------------------------------------------------
\* The steps of calls.
Step(op) == [op |-> op]
Store(a, data) == [op |-> "store", at |-> a, data |-> data]

\* The loops over blocks between eeprom_flush_pause and eeprom_flush_resume.
Fetch(bs) == <<[op |-> "fetch", blocks |-> bs]>>

FirstBlock(a) == a \div 2
LastBlock(a, len) == (a + len - 1) \div 2

\* eeprom_read_bytes, but for the copy to its destination.
ReadBytes(a, len) == Fetch(FirstBlock(a) .. LastBlock(a, len))

\* eeprom_write_bytes.
WriteBytes(a, data) ==
    LET last == LastBlock(a, Len(data))
        partial == {b \in {FirstBlock(a)} : a % 2 # 0} \cup
                   {b \in {last} \ {FirstBlock(a)} : (a + Len(data)) % 2 # 0}
    IN (IF partial # {} THEN Fetch(partial) ELSE <<>>) \o <<Store(a, data)>>

\* eeprom_write of zeroes: of a whole block nothing is fetched.
EraseBlock(b) == Store(2 * b, <<Zero[2 * b], Zero[2 * b + 1]>>)

GetStart == ReadBytes(Copy1, 1) \o ReadBytes(Copy2, 1)

\* eepfs_init and eepfs_verify_signature.
Boot == ReadBytes(0, 2) \o <<Step("verify")>>

Wipe == WriteBytes(0, <<Signature, Signature>>)
        \o [b \in 1 .. Cells(FileSize + 1) |-> EraseBlock(b)]

Wait == IF Patient THEN <<Step("wait")>> ELSE <<>>

Init ==
    /\ rom \in Junk
    /\ cache = Zero /\ valid = {} /\ dirty = {}
    /\ flush = None /\ miss = FALSE
    /\ todo = Boot /\ got = <<>>
    /\ value = None /\ before = None /\ risky = FALSE
-----------------------------------------------------------------------------
\* eeprom_flush_kick with d dirty and c in the cache: any of them is next.
FlushKick(d, c) ==
    \/ d = {} /\ dirty' = {} /\ flush' = None
    \/ \E b \in d : /\ dirty' = d \ {b}
                    /\ flush' = [block |-> b, data |-> [a \in Block(b) |-> c[a]]]

\* Mutant: the block that is being written is not dirty again.
KickOthers(d, c) == IF flush = None THEN FlushKick(d, c)
                    ELSE dirty' = d \ {flush.block} /\ UNCHANGED flush

\* The same while a block is being written.
Kick(d, c) == IF flush = None THEN FlushKick(d, c)
              ELSE dirty' = d /\ UNCHANGED flush

\* Mutant: a block that was refused is forgotten.
FlushOnce(accepted) ==
    /\ flush # None
    /\ rom' = IF accepted THEN Overwritten(rom, Block(flush.block), flush.data)
              ELSE rom
    /\ IF miss THEN flush' = None /\ UNCHANGED dirty ELSE FlushKick(dirty, cache)
    /\ UNCHANGED <<cache, valid, miss, todo, got, ghosts>>

\* eeprom_flush_write_callback.  A block that was refused is dirty again.
FlushDone(accepted) ==
    LET d == IF accepted THEN dirty ELSE dirty \cup {flush.block} IN
    /\ flush # None
    /\ rom' = IF accepted THEN Overwritten(rom, Block(flush.block), flush.data)
              ELSE rom
    /\ IF miss THEN dirty' = d /\ flush' = None ELSE FlushKick(d, cache)
    /\ UNCHANGED <<cache, valid, miss, todo, got, ghosts>>
-----------------------------------------------------------------------------
Doing(op) == todo # <<>> /\ Head(todo).op = op
Done == todo' = Tail(todo)

\* eeprom_flush_pause while a block is being written.
FlushPause ==
    /\ Doing("fetch") /\ flush # None
    /\ miss' = TRUE
    /\ UNCHANGED <<rom, cache, valid, dirty, flush, todo, got, ghosts>>

\* The rest: eeprom_flush_wait_idle, eeprom_cache_ensure_block_valid for every
\* block, and eeprom_flush_resume, where miss is had_flush_in_progress.  No
\* callback comes in between: nothing is being written.
FetchBlocks ==
    LET missing == Head(todo).blocks \ (valid \cup dirty) IN
    /\ Doing("fetch") /\ flush = None /\ Done
    /\ cache' = Overwritten(cache, UNION {Block(b) : b \in missing}, rom)
    /\ valid' = valid \cup missing
    /\ miss' = FALSE
    /\ IF miss THEN FlushKick(dirty, cache') ELSE UNCHANGED <<dirty, flush>>
    /\ UNCHANGED <<rom, got, ghosts>>

\* The second half of eeprom_write_bytes.
StoreBytes ==
    LET a == Head(todo).at
        data == Head(todo).data
        new == [i \in a .. (a + Len(data) - 1) |-> data[i - a + 1]]
        bs == FirstBlock(a) .. LastBlock(a, Len(data))
    IN
    /\ Doing("store") /\ Done
    /\ cache' = Overwritten(cache, DOMAIN new, new)
    /\ valid' = valid \cup bs
    /\ Kick(dirty \cup bs, cache')
    /\ UNCHANGED <<rom, miss, got, ghosts>>

\* eeprom_wait_idle.
WaitIdle ==
    /\ Doing("wait") /\ Done
    /\ flush = None
    /\ UNCHANGED <<rom, cache, valid, dirty, flush, miss, got, ghosts>>
-----------------------------------------------------------------------------
Quiet == UNCHANGED <<rom, cache, valid, dirty, flush, miss>>

\* eepfs_verify_signature, and eepfs_wipe by a program that finds none.
VerifySignature ==
    /\ Doing("verify")
    /\ todo' = IF cache[0] = Signature THEN <<>> ELSE Wipe
    /\ Quiet /\ UNCHANGED <<got, ghosts>>

EepfsRead ==
    /\ todo = <<>>
    /\ todo' = GetStart \o <<Step("read")>>
    /\ got' = <<>>
    /\ Quiet /\ UNCHANGED ghosts

\* Behind file_get_start: read_file for the main copy, ...
ReadMain ==
    /\ Doing("read")
    /\ todo' = ReadBytes(Main(cache), FileSize + 1) \o <<Step("main")>>
    /\ Quiet /\ UNCHANGED <<got, ghosts>>

\* ... which may be corrupted, ...
MainRead ==
    LET main == Main(cache) IN
    /\ Doing("main")
    /\ IF Whole(cache, main) THEN todo' = <<>> /\ got' = <<cache[main].sum>>
       ELSE /\ todo' = ReadBytes(Other(main), FileSize + 1) \o <<Step("backup")>>
            /\ UNCHANGED got
    /\ Quiet /\ UNCHANGED ghosts

\* ... and for the backup.
BackupRead ==
    LET backup == Other(Main(cache)) IN
    /\ Doing("backup") /\ Done
    /\ got' = <<IF Whole(cache, backup) THEN cache[backup].sum ELSE None>>
    /\ Quiet /\ UNCHANGED ghosts

EepfsWrite(v) ==
    /\ todo = <<>>
    /\ todo' = Wait \o GetStart \o <<[op |-> "write", value |-> v]>>
    /\ got' = <<>>
    /\ Quiet /\ UNCHANGED ghosts

\* The contents first, then the header.
WriteTo(copy, header, v) ==
    WriteBytes(copy + 1, [i \in 1 .. FileSize |-> v]) \o WriteBytes(copy, <<header>>)

\* Behind file_get_start: the older copy is overwritten.
WriteBackup ==
    LET v == Head(todo).value
        main == Main(cache)
        gen == (cache[main].gen + 1) % Generations
    IN
    /\ Doing("write")
    /\ todo' = WriteTo(Other(main), Header(gen, v), v)
    /\ value' = v /\ before' = value
    /\ risky' = (Whole(rom, Other(main)) /\ ~ Whole(rom, main))
    /\ Quiet /\ UNCHANGED got

EepfsErase ==
    /\ Erases /\ todo = <<>>
    /\ todo' = Wait \o <<Step("erase")>>
    /\ got' = <<>>
    /\ Quiet /\ UNCHANGED ghosts

\* As many blocks as the contents take, from the first one.
EraseBlocks ==
    LET first == Copy1 \div 2
        count == Cells(FileSize) \div 2
        erased == UNION {Block(b) : b \in first .. (first + count - 1)}
    IN
    /\ Doing("erase")
    /\ todo' = [i \in 1 .. count |-> EraseBlock(first + i - 1)]
    /\ value' = Stored(Overwritten(Seen, erased, Zero)) /\ before' = value
    /\ risky' = FALSE
    /\ Quiet /\ UNCHANGED got

\* Everything that was written is in the EEPROM.
Settled == /\ dirty = {} /\ flush = None
           /\ \A i \in DOMAIN todo : todo[i].op # "store"

\* The block that is being written may be torn.
PowerFails ==
    /\ Spared /\ risky => Settled
    /\ got' = <<>>
    /\ cache' = Zero /\ valid' = {} /\ dirty' = {}
    /\ flush' = None /\ miss' = FALSE
    /\ todo' = Boot
    /\ \/ UNCHANGED rom
       \/ /\ flush # None
          /\ \/ rom' = Overwritten(rom, Block(flush.block), flush.data)
             \/ rom' \in {Overwritten(rom, Block(flush.block), junk) : junk \in Junk}
    /\ value' = Stored(rom') /\ before' = value' /\ risky' = FALSE
-----------------------------------------------------------------------------
CallStep ==
    \/ FlushPause \/ FetchBlocks \/ StoreBytes
    \/ WaitIdle \/ VerifySignature \/ ReadMain \/ MainRead \/ BackupRead
    \/ WriteBackup \/ EraseBlocks

Next ==
    \/ CallStep
    \/ EepfsRead \/ EepfsErase \/ \E v \in Values : EepfsWrite(v)
    \/ \E accepted \in BOOLEAN : FlushDone(accepted)
    \/ PowerFails

\* The thread goes on with its call, and the EEPROM, which refuses a block
\* while it is busy with the one before, accepts one in the end.
Spec == Init /\ [][Next]_vars /\ WF_vars(CallStep) /\ SF_vars(FlushDone(TRUE))
=============================================================================

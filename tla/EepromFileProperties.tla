------------------------ MODULE EepromFileProperties ------------------------
(***************************************************************************)
(* What must hold of module EepromFile.                                    *)
(***************************************************************************)
EXTENDS EepromFile

\* The types, and that whatever is dirty or being written is valid, and that
\* what is neither dirty nor being written is as in the EEPROM.
TypeOK ==
    /\ rom \in Contents /\ cache \in Contents
    /\ dirty \subseteq valid /\ valid \subseteq Blocks
    /\ flush # None => flush.block \in valid
    /\ \A a \in Memory : \/ cache[a] = rom[a] \/ a \div 2 \notin valid
                         \/ a \div 2 \in dirty
                         \/ flush # None /\ a \div 2 = flush.block
    /\ miss \in BOOLEAN /\ risky \in BOOLEAN
    /\ value \in Values \cup {None} /\ before \in Values \cup {None}
    /\ got \in {<<>>} \cup {<<v>> : v \in Values \cup {None}}

\* The documentation of eeprom_wait_idle: between calls of the thread, when
\* eeprom_is_busy returns false, everything it wrote is in the EEPROM.
IdleMeansWritten == todo = <<>> /\ flush = None => Seen = rom

\* Reads return what was written last, and a power failure at any point of a
\* write leaves the new contents or the old ones (SaveFile), for a program that
\* waits for one write to end before it starts another, if no power failure
\* falls into a write that replaces the only good copy.  And what was written
\* gets persisted, however much the program reads meanwhile.
Abstract == INSTANCE SaveFile WITH
    durable <- IF Settled THEN value ELSE before
ImplementsSaveFile == Abstract!Spec
=============================================================================

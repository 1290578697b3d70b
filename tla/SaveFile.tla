------------------------------ MODULE SaveFile ------------------------------
(***************************************************************************)
(* What a file with a checksum and a backup promises (include/eepromfs.h,  *)
(* include/eeprom.h): it holds what was written last; that is persisted in *)
(* the background, and a power failure leaves the new contents or the old  *)
(* ones, never a mixture and never nothing.                                *)
(***************************************************************************)
CONSTANTS Values, None

VARIABLES value,     \* what a read returns, None if it fails
          durable,   \* what the medium holds
          got        \* what a read has returned, <<>> until then

sfvars == <<value, durable, got>>

Init == value = None /\ durable = None /\ got = <<>>

Write(v) == value' = v /\ UNCHANGED <<durable, got>>

Persist == durable' = value /\ UNCHANGED <<value, got>>

Call == got' = <<>> /\ UNCHANGED <<value, durable>>

ReadReturns == got' = <<value>> /\ UNCHANGED <<value, durable>>

\* Nothing is promised of a file that was erased.
Erase == value' \in Values \cup {None} /\ UNCHANGED <<durable, got>>

PowerFails == /\ value' \in {durable, value}
              /\ durable' = value'
              /\ got' = <<>>

Next == \/ Persist \/ Call \/ ReadReturns \/ Erase \/ PowerFails
        \/ \E v \in Values : Write(v)

\* In the background: what was written gets persisted, whether or not the
\* program waits for it.
Spec == Init /\ [][Next]_sfvars /\ []<>(durable = value)
=============================================================================

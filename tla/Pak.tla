-------------------------------- MODULE Pak --------------------------------
(***************************************************************************)
(* What can be plugged into an N64 controller, as the detection routine of *)
(* joypad_accessory.c takes it to behave: 32-byte blocks at three          *)
(* addresses, the label of a Controller Pak (0x0000), the block that       *)
(* probes and switches banks (0x8000), and anything else.  External.       *)
(***************************************************************************)
EXTENDS Integers

Kinds == {"single", "multi", "rumble", "clone", "bio", "transfer", "snap",
          "other"}

(* A Controller Pak with or without bank switching, a Rumble Pak or a      *)
(* receiver that plays one (and answers every write with a CRC of 0), ...  *)
TypeOf(kind) ==
  CASE kind \in {"single", "multi"}  -> "cpak"
    [] kind \in {"rumble", "clone"}  -> "rumble"
    [] kind = "other"                -> "unknown"
    [] OTHER                         -> kind

NoPak == [kind |-> "none", label |-> [b \in {0, 1} |-> "nothing"], bank |-> 0,
          latch |-> "nothing"]

(* A pak as it comes out of the user's pocket.                             *)
Fresh(k) ==
  [NoPak EXCEPT !.kind = k,
                !.label = IF k \in {"single", "multi"}
                          THEN [b \in {0, 1} |-> "user"] ELSE @]

(* A pak without bank switching takes a write to 0x8000 for one to block 0. *)
Labels(p, addr) ==
  \/ addr = "label" /\ p.kind \in {"single", "multi"}
  \/ addr = "probe" /\ p.kind = "single"

Written(p, addr, v) ==
  IF Labels(p, addr) THEN [p EXCEPT !.label[p.bank] = v]
  ELSE IF addr # "probe" THEN p
  ELSE IF p.kind = "multi" THEN [p EXCEPT !.bank = IF v = "zeros" THEN 0 ELSE 1]
  ELSE [p EXCEPT !.latch = v]

(* The last probe value written, by the paks that answer to it.            *)
Answers(kind) ==
  CASE kind \in {"rumble", "clone"} -> "rumble"
    [] kind = "transfer"            -> "on"
    [] OTHER                        -> kind

Contents(p, addr) ==
  IF p.kind = "bio" THEN "bio"
  ELSE IF Labels(p, addr) THEN p.label[p.bank]
  ELSE IF addr = "probe" /\ p.latch = Answers(p.kind) THEN p.latch
  ELSE "nothing"
=============================================================================

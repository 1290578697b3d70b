------------------------- MODULE AccessoryProperties -------------------------
(***************************************************************************)
(* What the joypad library promises about accessories.                     *)
(***************************************************************************)
EXTENDS Accessory

(* Nothing is going on and nothing has happened since the last report.     *)
Settled ==
  /\ joybus_state = "idle" /\ acc.state = "idle" /\ ~wait_timer /\ phase = "user"
  /\ known = ctrl /\ acc.status # "unsupported" /\ ~(ctrl /\ changed)
  /\ (acc.status = "absent") = (pak = NoPak)

(* The type that joypad_get_accessory_type returns is that of the pak in   *)
(* the controller, whatever was pulled and plugged and garbled before,     *)
(* unless the last change was reported to a busy accessory, the detection  *)
(* was given up, or errors of writes are ignored, as for a receiver that   *)
(* answers 0 to every write.                                               *)
Recognised ==
  Settled /\ known /\ ~unsure /\ ~acc.ignore => acc.type = TypeOf(pak.kind)

(* The detection leaves a Controller Pak that switches banks as it has     *)
(* found it, and cpak_curbank is the bank that is selected.                *)
PakAsFound ==
  Settled /\ known /\ ~unsure /\ ~spoiled /\ pak.kind = "multi" /\ ~acc.ignore =>
    pak.label[0] = "user" /\ pak.bank = acc.curbank

(* A write that ends without an error has stored every block, retries and  *)
(* read-modify-write included, unless a block was `unheard': its CRC is 0, *)
(* as is the untouched reply of a controller that has just been pulled     *)
(* (and unless write errors are ignored, as for a receiver that answers 0  *)
(* to every write).                                                        *)
WrittenIsStored ==
  [][/\ done = "no" /\ done' = "none"
     /\ call \in {"write", "edit"} /\ ~acc.ignore
     => stored \cup unheard = 1 .. Len(Blocks[call])]_vars

(* Whoever waits for a transfer is not forgotten: its callback is still set *)
(* and one of its messages is still in the ring, whatever was reset, given *)
(* up or detected meanwhile.                                               *)
AwaitedIsUnderWay ==
  phase = "pending" /\ done = "no" =>
    /\ acc.io.call = call
    /\ \E i \in DOMAIN msgs : msgs[i].to \in {"read", "write"}

-----------------------------------------------------------------------------
(* What the documentation says and the code does not do.                   *)

(* joypad.h: joypad_get_rumble_supported tells whether the device "is      *)
(* capable of rumble": a Controller Pak is not.                            *)
SupportedMeansRumble == rumble_method => acc.type # "cpak"
=============================================================================

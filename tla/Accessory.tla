------------------------------ MODULE Accessory ------------------------------
(***************************************************************************)
(* The accessory of one controller: the ring of joybus messages and its    *)
(* interrupt handler (joybus.c), the reports of the controller             *)
(* (joypad.c), and the detection, the transfers and the rumble motor       *)
(* (joypad_accessory.c), which are chains of messages whose callbacks      *)
(* share one state.  The user pulls and plugs paks and the controller      *)
(* while the program calls, and any message may be garbled on the wire.    *)
(* An NDEBUG build: no assertion stops the program.                        *)
(***************************************************************************)
EXTENDS Pak, Sequences, SequencesExt

CONSTANTS
  Paks,         \* the kinds of paks that the user has
  Calls,        \* the transfers that the program makes
  RetryLimit,   \* JOYPAD_ACCESSORY_RETRY_LIMIT
  MaxRumbles,   \* bound: motor commands in the ring
  MaxHands,     \* bound: what the user pulls and plugs in a behaviour
  Careful       \* the program keeps to the rules that Undisturbed, Patient
                \* and Polite state

ASSUME AccessoryAssumption ==
  /\ Paks \subseteq Kinds /\ RetryLimit \in Nat /\ MaxRumbles \in Nat \ {0}
  /\ Calls \subseteq {"read", "write", "edit", "bank0", "bank1"}
  /\ MaxHands \in Nat
  /\ Careful \in BOOLEAN

VARIABLES
  msgs, joybus_state,   \* joybus_msgs from the read to the write index
  reply,                \* joybus_outbuf
  pending,              \* joybus_identify_pending
  known,                \* joybus_identifiers_hot: a controller is there
  acc,                  \* joypad_accessories_hot
  rumble_method,        \* ... is JOYPAD_RUMBLE_METHOD_N64_RUMBLE_PAK
  wait_timer,           \* transfer_pak_wait_timer is running
  ctrl, pak, changed,   \* the world: the controller is plugged in, the pak
                        \* in it, it has not reported that one yet, and what
  hands,                \* the user has done
  call, phase, done,    \* the program's blocking transfer, and its outcome
  unsure,   \* history: the last change was reported to a busy accessory, or
            \* its detection was given up
  spoiled,  \* history: an operation on this pak was broken off or done while
            \* errors were ignored, or a detection came before a bank switch
  stored,   \* history: the blocks of this transfer that the pak has stored
  unheard   \* history: those of CRC 0 sent to a controller that is not there

busVars  == <<msgs, joybus_state, reply>>
libVars  == <<pending, known, acc, rumble_method, wait_timer>>
world    == <<ctrl, pak, changed, hands>>
progVars == <<call, phase, done>>
history  == <<unsure, spoiled, stored, unheard>>
vars == <<busVars, libVars, world, progVars, history>>

-----------------------------------------------------------------------------
(* Messages: whose callback, the command, and the block of the transfer.   *)
Msg(to, op, addr, val, n) ==
  [to |-> to, op |-> op, addr |-> addr, val |-> val, n |-> n]

Identify == Msg("identify", "read", "none", "nothing", 0)
Motor(v) == Msg("rumble", "write", "motor", v, 0)
NoReply  == [crc |-> "none", data |-> "nothing"]

StaysInBank1 ==   \* mutant: the first bank is not selected again
  [init |-> "off", bank0 |-> "zeros", bank1 |-> "ones", bank0again |-> "ones",
   rumble_w |-> "rumble", tp_on |-> "on", tp_off |-> "off", snap_w |-> "snap"]

(* The detection: what is written to 0x8000 on entering a state, ...       *)
Probe == [init |-> "off", bank0 |-> "zeros", bank1 |-> "ones",
          bank0again |-> "zeros", rumble_w |-> "rumble", tp_on |-> "on",
          tp_off |-> "off", snap_w |-> "snap"]

(* ... what is read ...                                                    *)
Look == [backup |-> "label", read0 |-> "label", read1 |-> "label",
         rumble_r |-> "probe", tp_read |-> "probe", snap_r |-> "probe"]

(* ... and what follows it, where that does not depend on the answer.      *)
Then == [init |-> "bank0", bank0 |-> "backup", backup |-> "label0",
         label0 |-> "read0", bank1 |-> "read1", bank0again |-> "restore",
         restore |-> "idle", rumble_w |-> "rumble_r", tp_on |-> "tp_wait",
         tp_wait |-> "tp_read", tp_off |-> "idle", snap_w |-> "snap_r",
         snap_r |-> "idle"]

Detecting == DOMAIN Then \cup DOMAIN Look

(* The blocks of a transfer: is the block only partly written?             *)
Blocks == [read |-> <<FALSE, FALSE>>, write |-> <<FALSE, FALSE>>,
           edit |-> <<TRUE, TRUE>>, bank0 |-> <<FALSE>>, bank1 |-> <<FALSE>>]

NoIo == [call |-> "none", todo |-> <<>>]

(* The accessory after a memset.                                           *)
Blank ==
  [state |-> "idle", type |-> "none", status |-> "unsupported",
   error |-> "none", retries |-> 0, ignore |-> FALSE, backup |-> "nothing",
   label |-> "nothing", bankswitching |-> FALSE, curbank |-> 0, io |-> NoIo]

Init ==
  /\ msgs = <<>> /\ joybus_state = "idle" /\ reply = NoReply
  /\ pending = FALSE /\ known = FALSE /\ acc = Blank
  /\ rumble_method = FALSE /\ wait_timer = FALSE
  /\ ctrl = TRUE /\ pak \in {NoPak} \cup {Fresh(k) : k \in Paks}
  /\ changed = (pak # NoPak) /\ hands = 0
  /\ call = "none" /\ phase = "user" /\ done = "no"
  /\ unsure = FALSE /\ spoiled = FALSE /\ stored = {} /\ unheard = {}

-----------------------------------------------------------------------------
(* The ring.  joybus_exec_async from the program or a timer: an idle bus   *)
(* starts at once.                                                         *)
JoybusExecAsync(more) ==
  /\ msgs' = msgs \o more
  /\ joybus_state' = IF joybus_state = "idle" /\ more # <<>> THEN "sending"
                     ELSE joybus_state
  /\ UNCHANGED reply

(* The end of a callback that queued more: the next message is sent.       *)
Pop(more) ==
  /\ msgs' = Tail(msgs) \o more /\ reply' = NoReply
  /\ joybus_state' = IF msgs' = <<>> THEN "idle" ELSE "sending"

(* Nothing comes between xfer_async's test of the state and its assignment. *)
Undisturbed == ~(Careful /\ phase = "start")

(* ... and a transfer is not started over the remains of something else.   *)
Patient == ~Careful \/ \A i \in DOMAIN msgs : msgs[i].to = "identify"

(* The motor is not switched while something else is going on.             *)
Polite == ~Careful \/ (phase # "start" /\ acc.state \in {"idle", "RUMBLE"})

(* The CRC of a write is compared with the 0 that the reply was sent with  *)
(* when nobody answers: it agrees with that of zeros, and it is the inverse *)
(* of some block's, which tells that there is no pak.                      *)
Untouched(v) ==
  CASE v = "zeros" -> "ok" [] v = "inverse" -> "nopak" [] OTHER -> "zero"

(* What the devices make of the message.  A controller that is not there   *)
(* leaves the reply as it was sent; a garbled write may or may not have    *)
(* reached the pak.                                                        *)
Exchange(m) ==
  IF m.to = "identify"
  THEN /\ reply' = [crc |-> IF ctrl THEN "ok" ELSE "none",
                    data |-> IF pak = NoPak THEN "absent"
                             ELSE IF changed THEN "changed" ELSE "present"]
       /\ changed' = (changed /\ ~ctrl) /\ UNCHANGED <<pak, stored, unheard>>
  ELSE /\ UNCHANGED changed
       /\ \E garbled, arrives \in BOOLEAN :
            LET reaches == ctrl /\ pak # NoPak /\ (arrives \/ ~garbled)
                answers == ctrl /\ pak # NoPak
                clean   == pak.kind # "clone" \/ m.op = "read"
                block   == m.to = "write" /\ m.op = "write"
            IN /\ garbled => answers
               /\ garbled \/ ~arrives
               /\ pak' = IF reaches /\ m.op = "write"
                         THEN Written(pak, m.addr, m.val) ELSE pak
               /\ stored' = IF reaches /\ block THEN stored \cup {m.n} ELSE stored
               /\ unheard' = IF ~ctrl /\ block /\ m.val = "zeros"
                             THEN unheard \cup {m.n} ELSE unheard
               /\ reply' =
                    [crc  |-> IF garbled THEN "bad"
                              ELSE IF ctrl /\ ~answers THEN "nopak"
                              ELSE IF m.op = "write" /\ ~(ctrl /\ clean)
                              THEN Untouched(m.val) ELSE "ok",
                     data |-> IF answers THEN Contents(pak, m.addr)
                              ELSE "zeros"]

(* si_interrupt, SENDING: the reply is fetched.                            *)
SiSent ==
  /\ joybus_state = "sending" /\ Undisturbed
  /\ Exchange(Head(msgs)) /\ joybus_state' = "receiving"
  /\ UNCHANGED <<msgs, libVars, ctrl, hands, progVars, unsure, spoiled>>

(* si_interrupt, RECEIVING: the callback runs and the message is popped.   *)
Received(to) ==
  /\ joybus_state = "receiving" /\ Undisturbed /\ Head(msgs).to \in to

-----------------------------------------------------------------------------
(* Reports of the controller: joybus_identify_callback.                    *)

(* The blocking transfer learns its outcome.                               *)
Tell(outcome) == done' = IF acc.io.call # "none" THEN outcome ELSE done

(* joypad_accessory_reset: whoever waits for a transfer is told.           *)
ResetTellsNobody(status) ==   \* mutant: the callback is cleared, not called
  acc' = [Blank EXCEPT !.status = status] /\ wait_timer' = FALSE
  /\ UNCHANGED done

AccessoryReset(status) ==
  /\ acc' = [Blank EXCEPT !.status = status] /\ wait_timer' = FALSE
  /\ IF acc.state \in {"READ", "WRITE"} THEN Tell("absent") ELSE UNCHANGED done

(* joypad_device_reset                                                     *)
Disconnected ==
  /\ Received({"identify"}) /\ known /\ reply.crc = "none"
  /\ known' = FALSE /\ pending' = FALSE /\ rumble_method' = FALSE
  /\ AccessoryReset("unsupported") /\ unsure' = FALSE /\ Pop(<<>>)
  /\ UNCHANGED <<world, call, phase, spoiled, stored, unheard>>

NobodyThere ==
  /\ Received({"identify"}) /\ ~known /\ reply.crc = "none"
  /\ pending' = FALSE /\ Pop(<<>>)
  /\ UNCHANGED <<known, acc, rumble_method, wait_timer, world, progVars, history>>

(* joypad_accessory_polled: has the pak gone, or has another one come?     *)
Gone == acc.status # reply.data /\ reply.data = "absent"
New  == \/ reply.data = "changed"
        \/ reply.data = "present" /\ acc.status \notin {"present", "changed"}

(* joypad_accessory_detect_async: another label, and an idle accessory     *)
(* starts.                                                                 *)
OtherLabel == IF acc.label = "probe0" THEN "probe1" ELSE "probe0"

DetectAsync ==
  /\ acc' = [acc EXCEPT !.label = OtherLabel, !.status = reply.data,
                        !.state = IF @ = "idle" THEN "init" ELSE @,
                        !.error = IF acc.state = "idle" THEN "pending" ELSE @,
                        !.retries = IF acc.state = "idle" THEN 0 ELSE @]
  /\ unsure' = (acc.state # "idle")
  /\ Pop(IF acc.state = "idle"
         THEN <<Msg("detect", "write", "probe", "off", 0)>> ELSE <<>>)

Polled ==
  /\ Received({"identify"}) /\ reply.crc = "ok"
  /\ known' = TRUE /\ pending' = FALSE
  /\ UNCHANGED <<rumble_method, world, call, phase, spoiled, stored, unheard>>
  /\ \/ New /\ DetectAsync /\ UNCHANGED <<wait_timer, done>>
     \/ Gone /\ AccessoryReset(reply.data) /\ unsure' = FALSE /\ Pop(<<>>)
     \/ /\ ~New /\ ~Gone /\ acc' = [acc EXCEPT !.status = reply.data]
        /\ Pop(<<>>) /\ UNCHANGED <<wait_timer, done, unsure>>

-----------------------------------------------------------------------------
(* Replies of the pak: joypad_accessory_check_read_crc_error and           *)
(* joypad_accessory_check_write_crc_error.                                 *)
Asked == Head(msgs)

(* A receiver that answers every write with 0 is believed from now on.     *)
Ignores == acc.ignore \/ (Asked.to = "detect" /\ reply.crc = "zero")
GoodOrSilent == reply.crc \in {"ok", "zero"}   \* mutant: 0 is no error

Good == \/ reply.crc = "ok"
        \/ reply.crc \in {"bad", "zero"} /\ Asked.op = "write" /\ Ignores
Bad  == ~Good /\ reply.crc \in {"bad", "zero"}

(* A motor command whose state was overwritten is dropped.                 *)
Stale == Asked.to = "rumble" /\ acc.state # "RUMBLE"

(* The callback of a transfer that has ended with an error is called.      *)
Ends(a, outcome) ==
  IF Asked.to \in {"read", "write"}
  THEN /\ Tell(outcome) /\ acc' = [a EXCEPT !.error = outcome, !.io = NoIo]
  ELSE acc' = [a EXCEPT !.error = outcome] /\ UNCHANGED done

Dropped ==
  /\ Received({"rumble"}) /\ Stale /\ Pop(<<>>)
  /\ UNCHANGED <<libVars, world, progVars, history>>

GoneKeepsType ==   \* mutant: the type of the pulled pak remains
  /\ Received({"detect", "read", "write", "rumble"}) /\ ~Stale
  /\ reply.crc = "nopak"
  /\ Ends([acc EXCEPT !.state = "idle", !.status = "absent"], "absent")
  /\ rumble_method' = FALSE /\ Pop(<<>>)
  /\ UNCHANGED <<pending, known, wait_timer, world, call, phase, history>>

PakGone ==
  /\ Received({"detect", "read", "write", "rumble"}) /\ ~Stale
  /\ reply.crc = "nopak"
  /\ Ends([acc EXCEPT !.state = "idle", !.type = "none", !.status = "absent"],
          "absent")
  /\ rumble_method' = FALSE /\ Pop(<<>>)
  /\ UNCHANGED <<pending, known, wait_timer, world, call, phase, history>>

Retry ==
  /\ Received({"detect", "read", "write", "rumble"}) /\ ~Stale /\ Bad
  /\ acc.retries < RetryLimit
  /\ acc' = [acc EXCEPT !.retries = @ + 1, !.error = "pending"]
  /\ Pop(<<Asked>>)
  /\ UNCHANGED <<pending, known, rumble_method, wait_timer, world, progVars,
                 history>>

GiveUp ==
  /\ Received({"detect", "read", "write", "rumble"}) /\ ~Stale /\ Bad
  /\ acc.retries >= RetryLimit
  /\ Ends([acc EXCEPT !.state = "idle"], "checksum") /\ Pop(<<>>)
  /\ unsure' = (unsure \/ Asked.to = "detect") /\ spoiled' = TRUE
  /\ UNCHANGED <<pending, known, rumble_method, wait_timer, world, call, phase,
                 stored, unheard>>

-----------------------------------------------------------------------------
(* joypad_accessory_detect_state_machine                                   *)

(* The state after s when the block read is d.                             *)
Follows(s, d) ==
  CASE s = "read0"    -> IF d = acc.label THEN "bank1" ELSE "rumble_w"
    [] s = "read1"    -> IF d # "ones" THEN "bank0again" ELSE "restore"
    [] s = "rumble_r" -> IF d \in {"rumble", "bio"} THEN "idle" ELSE "tp_on"
    [] s = "tp_read"  -> IF d = "on" THEN "tp_off" ELSE "snap_w"
    [] OTHER          -> Then[s]

(* What has been detected when the routine ends.                           *)
Found(s, d) ==
  CASE s = "restore"  -> "cpak"
    [] s = "rumble_r" -> d
    [] s = "tp_off"   -> "transfer"
    [] s = "snap_r"   -> IF d = "snap" THEN "snap" ELSE "unknown"

(* The message that is sent on entering a state; tp_wait sends none.       *)
Sends(s, a) ==
  IF s \in DOMAIN Probe THEN <<Msg("detect", "write", "probe", Probe[s], 0)>>
  ELSE IF s \in DOMAIN Look
       THEN <<Msg("detect", "read", Look[s], "nothing", 0)>>
  ELSE IF s = "label0" THEN <<Msg("detect", "write", "label", a.label, 0)>>
  ELSE IF s = "restore" THEN <<Msg("detect", "write", "label", a.backup, 0)>>
  ELSE <<>>

(* The accessory after the step from its state, d having been read.        *)
Entered(a, d) ==
  LET s == Follows(a.state, d)
      b == [a EXCEPT !.backup = IF a.state = "backup" THEN d ELSE @,
                     !.bankswitching = IF a.state = "read1" THEN d # "ones"
                                       ELSE @]
  IN IF s = "idle"
     THEN [b EXCEPT !.state = s, !.type = Found(a.state, d),
                    !.curbank = IF a.state = "restore" THEN 0 ELSE @]
     ELSE [b EXCEPT !.state = s, !.error = "pending", !.retries = 0]

DetectStateMachine ==
  /\ Received({"detect"}) /\ Good /\ acc.state \in Detecting
  /\ LET a == Entered([acc EXCEPT !.ignore = Ignores, !.error = "none"],
                      reply.data)
     IN  /\ acc' = a /\ Pop(Sends(a.state, a))
         /\ wait_timer' = (wait_timer \/ a.state = "tp_wait")
         /\ rumble_method' = \/ rumble_method
                             \/ acc.state = "rumble_r" /\ a.type = "rumble"
                                /\ a.state = "idle"
  /\ UNCHANGED <<pending, known, world, progVars, history>>

(* The default case: the state was overwritten while the message was out.  *)
DetectLost ==
  /\ Received({"detect"}) /\ Good /\ acc.state \notin Detecting
  /\ acc' = [acc EXCEPT !.state = "idle", !.type = "unknown",
                        !.error = "unknown", !.ignore = Ignores]
  /\ Pop(<<>>)
  /\ UNCHANGED <<pending, known, rumble_method, wait_timer, world, progVars,
                 history>>

(* The Transfer Pak has had its 200 ms.                                    *)
WaitTimer ==
  /\ wait_timer /\ Undisturbed /\ wait_timer' = FALSE
  /\ IF acc.state \in Detecting
     THEN LET a == Entered(acc, "nothing")
          IN  acc' = a /\ JoybusExecAsync(Sends(a.state, a))
     ELSE UNCHANGED <<acc, busVars>>
  /\ UNCHANGED <<pending, known, rumble_method, world, progVars, history>>

-----------------------------------------------------------------------------
(* Transfers.  The commands for the first block still to do.               *)
Todo(a) == a.io.todo
Rest    == IF Todo(acc) = <<>> THEN <<>> ELSE Tail(Todo(acc))

Bank      == [bank0 |-> 0, bank1 |-> 1]
BankValue == [bank0 |-> "zeros", bank1 |-> "ones"]

ReadBlock(to, a) == Msg(to, "read", "data", "nothing", Len(Todo(a)))

(* The bank switch is the program's own; data may have any CRC, and the    *)
(* model tells apart 0, that of "zeros", its inverse, and any other.       *)
Values == {"block", "zeros", "inverse"}

WriteBlock(a, v) ==
  IF a.io.call \in DOMAIN Bank
  THEN Msg("write", "write", "probe", BankValue[a.io.call], Len(Todo(a)))
  ELSE Msg("write", "write", "data", v, Len(Todo(a)))

(* joypad_accessory_read_callback: the next block, or the end.             *)
Completed ==
  /\ Ends([acc EXCEPT !.state = "idle"], "none") /\ Pop(<<>>)

ReadCallback ==
  /\ Received({"read"}) /\ Good
  /\ LET a == [acc EXCEPT !.io.todo = Rest, !.error = "pending", !.retries = 0]
     IN  IF Rest = <<>> THEN Completed
         ELSE acc' = a /\ Pop(<<ReadBlock("read", a)>>) /\ UNCHANGED done
  /\ UNCHANGED <<pending, known, rumble_method, wait_timer, world, call, phase,
                 history>>

(* joypad_accessory_write_callback: a partial block is read first.         *)
WriteMerged ==
  /\ Received({"write"}) /\ Good /\ acc.state = "READ"
  /\ acc' = [acc EXCEPT !.state = "WRITE", !.error = "pending", !.retries = 0]
  /\ \E v \in Values : Pop(<<WriteBlock(acc, v)>>)
  /\ UNCHANGED <<pending, known, rumble_method, wait_timer, world, progVars,
                 history>>

WriteCallback ==
  /\ Received({"write"}) /\ Good /\ acc.state # "READ"
  /\ LET a == [acc EXCEPT !.io.todo = Rest, !.error = "pending", !.retries = 0]
     IN  IF Rest = <<>> THEN Completed
         ELSE /\ UNCHANGED done
              /\ IF Head(Rest)
                 THEN acc' = [a EXCEPT !.state = "READ"]
                      /\ Pop(<<ReadBlock("write", a)>>)
                 ELSE acc' = a /\ \E v \in Values : Pop(<<WriteBlock(a, v)>>)
  /\ UNCHANGED <<pending, known, rumble_method, wait_timer, world, call, phase,
                 history>>

(* joypad_rumble_pak_motor_write_callback                                  *)
RumbleCallback ==
  /\ Received({"rumble"}) /\ ~Stale /\ Good
  /\ acc' = [acc EXCEPT !.state = "idle", !.error = "none"] /\ Pop(<<>>)
  /\ UNCHANGED <<pending, known, rumble_method, wait_timer, world, progVars,
                 history>>

-----------------------------------------------------------------------------
(* The program: joypad_accessory_xfer, which joypad_controller_pak_set_bank *)
(* calls when the bank is not the current one.                             *)

XferCall(c) ==
  /\ phase = "user" /\ c \notin DOMAIN Bank
  /\ call' = c /\ phase' = "waiting" /\ done' = "no"
  /\ UNCHANGED <<busVars, libVars, world, history>>

SetBank(c) ==
  /\ phase = "user" /\ c \in DOMAIN Bank
  /\ acc.type = "cpak" /\ acc.bankswitching
  /\ acc.curbank # Bank[c] /\ acc' = [acc EXCEPT !.curbank = Bank[c]]
  /\ call' = c /\ phase' = "waiting" /\ done' = "no"
  /\ UNCHANGED <<busVars, pending, known, rumble_method, wait_timer, world,
                 history>>

(* joypad_accessory_xfer_async: wait for the accessory to become idle, ... *)
XferTest ==
  /\ phase = "waiting" /\ acc.state = "idle" /\ Patient
  /\ phase' = "start"
  /\ spoiled' = (spoiled \/ (call \in DOMAIN Bank /\ acc.curbank # Bank[call]))
  /\ UNCHANGED <<busVars, libVars, world, call, done, unsure, stored,
                 unheard>>

(* ... then take it and send the first command.                            *)
XferStart ==
  /\ phase = "start" /\ phase' = "pending" /\ stored' = {} /\ unheard' = {}
  /\ LET reads == call = "read" \/ Blocks[call][1]
         a == [acc EXCEPT !.io = [call |-> call, todo |-> Blocks[call]],
                          !.error = "pending", !.retries = 0,
                          !.state = IF reads THEN "READ" ELSE "WRITE"]
     IN  /\ acc' = a
         /\ IF reads
            THEN JoybusExecAsync(
                   <<ReadBlock(IF call = "read" THEN "read" ELSE "write", a)>>)
            ELSE \E v \in Values : JoybusExecAsync(<<WriteBlock(a, v)>>)
  /\ UNCHANGED <<pending, known, rumble_method, wait_timer, world, call, done,
                 unsure, spoiled>>

XferReturn ==
  /\ phase = "pending" /\ done # "no" /\ phase' = "user" /\ call' = "none"
  /\ done' = "no" /\ stored' = {} /\ unheard' = {}
  /\ UNCHANGED <<busVars, libVars, world, unsure, spoiled>>

(* joypad_set_rumble_active: the block that stops the motor is zeros.      *)
SetRumbleActive ==
  /\ rumble_method /\ Polite
  /\ Len(SelectSeq(msgs, LAMBDA m : m.to = "rumble")) < MaxRumbles
  /\ acc' = [acc EXCEPT !.state = "RUMBLE", !.error = "pending", !.retries = 0]
  /\ \E v \in {"ones", "zeros"} : JoybusExecAsync(<<Motor(v)>>)
  /\ UNCHANGED <<pending, known, rumble_method, wait_timer, world, progVars,
                 history>>

(* joybus_identify_async, from its timer, once a second.                   *)
IdentifyTimer ==
  /\ ~pending /\ Undisturbed /\ pending' = TRUE /\ JoybusExecAsync(<<Identify>>)
  /\ UNCHANGED <<known, acc, rumble_method, wait_timer, world, progVars, history>>

-----------------------------------------------------------------------------
(* The user.  Hands are slower than the messages under way, and a          *)
(* controller stays away until that has been noticed.                      *)
PullPak ==
  /\ pak # NoPak /\ pak' = NoPak
  /\ UNCHANGED <<busVars, libVars, ctrl, changed, progVars, history>>

PlugPak(k) ==
  /\ pak = NoPak /\ joybus_state = "idle" /\ Undisturbed
  /\ pak' = Fresh(k) /\ changed' = TRUE /\ spoiled' = FALSE
  /\ UNCHANGED <<busVars, libVars, ctrl, progVars, unsure, stored, unheard>>

PullController ==
  /\ ctrl /\ ctrl' = FALSE
  /\ spoiled' = (spoiled \/ acc.state # "idle" \/ acc.ignore)
  /\ UNCHANGED <<busVars, libVars, pak, changed, progVars, unsure, stored,
                 unheard>>

PlugController ==
  /\ ~ctrl /\ ~known /\ joybus_state = "idle" /\ Undisturbed
  /\ ctrl' = TRUE /\ changed' = (pak # NoPak)
  /\ UNCHANGED <<busVars, libVars, pak, progVars, history>>

User ==
  /\ hands < MaxHands /\ hands' = hands + 1
  /\ \/ PullPak \/ (\E k \in Paks : PlugPak(k))
     \/ PullController \/ PlugController

Interrupts ==
  \/ SiSent \/ Disconnected \/ NobodyThere \/ Polled
  \/ Dropped \/ PakGone \/ Retry \/ GiveUp
  \/ DetectStateMachine \/ DetectLost
  \/ ReadCallback \/ WriteMerged \/ WriteCallback \/ RumbleCallback

Program ==
  \/ (\E c \in Calls : XferCall(c) \/ SetBank(c))
  \/ XferTest \/ XferStart \/ XferReturn \/ SetRumbleActive

Next == Interrupts \/ WaitTimer \/ IdentifyTimer \/ Program \/ User

Spec == Init /\ [][Next]_vars
=============================================================================

-------------------------- MODULE AccessoryProofs --------------------------
(***************************************************************************)
(* Theorems about the accessory of a controller, for all paks, transfers   *)
(* and limits of retries, and any number of motor commands and of things   *)
(* that the user does: whoever waits for a transfer is not forgotten, and  *)
(* what ends without an error has been stored, blocks of CRC 0 sent to a   *)
(* controller that is not there excepted.                                  *)
(***************************************************************************)
EXTENDS AccessoryProperties, TLAPS, SequenceTheorems

-----------------------------------------------------------------------------
(* Types.                                                                  *)

Data == {"nothing", "zeros", "ones", "off", "on", "rumble", "snap", "bio", "user",
         "block", "inverse", "probe0", "probe1", "absent", "present", "changed"}
Callbacks == {"identify", "detect", "read", "write", "rumble"}
Messages == [to : Callbacks, op : {"read", "write"},
             addr : {"none", "motor", "probe", "label", "data"}, val : Data, n : Nat]
Replies == [crc : {"none", "ok", "bad", "nopak", "zero"}, data : Data]
States == Detecting \cup {"idle", "READ", "WRITE", "RUMBLE"}
Transfers == DOMAIN Blocks
Ios == [call : Transfers \cup {"none"}, todo : Seq(BOOLEAN)]
Accessories ==
  [state : States,
   type : {"none", "cpak", "rumble", "bio", "transfer", "snap", "unknown"},
   status : {"unsupported", "absent", "present", "changed"},
   error : {"none", "pending", "absent", "checksum", "unknown"},
   retries : Nat, ignore : BOOLEAN, backup : Data,
   label : {"nothing", "probe0", "probe1"}, bankswitching : BOOLEAN,
   curbank : {0, 1}, io : Ios]
PaksToBe == [kind : Kinds \cup {"none"}, label : [{0, 1} -> Data], bank : {0, 1},
             latch : Data]

Types ==
  /\ msgs \in Seq(Messages) /\ joybus_state \in {"idle", "sending", "receiving"}
  /\ joybus_state # "idle" => msgs # <<>>
  /\ reply \in Replies /\ acc \in Accessories /\ pak \in PaksToBe
  /\ call \in Transfers \cup {"none"}
  /\ phase \in {"user", "waiting", "start", "pending"}
  /\ done \in {"no", "none", "absent", "checksum"}
  /\ pending \in BOOLEAN /\ known \in BOOLEAN /\ rumble_method \in BOOLEAN
  /\ wait_timer \in BOOLEAN /\ ctrl \in BOOLEAN /\ changed \in BOOLEAN
  /\ unsure \in BOOLEAN /\ spoiled \in BOOLEAN
  /\ (joybus_state = "receiving" /\ msgs[1].to = "identify") =>
       reply.crc \in {"none", "ok"} /\ reply.data \in {"absent", "present", "changed"}

(* The messages other than the i-th one only ask for reports.              *)
Alone(i) == \A j \in 1 .. Len(msgs) : j # i => msgs[j].to = "identify"

(* The message m asks for the first block that is left of the transfer.    *)
Carries(m) ==
  \/ /\ acc.state = "READ"
     /\ m = ReadBlock(IF call = "read" THEN "read" ELSE "write", acc)
  \/ acc.state = "WRITE" /\ call # "read" /\ \E v \in Values : m = WriteBlock(acc, v)

(* While a program waits for a transfer, one message carries it on.        *)
TransferUnderWay ==
  /\ acc.io.call = call /\ call # "none" /\ acc.io.todo # <<>>
  /\ \E i \in 1 .. Len(msgs) : Alone(i) /\ Carries(msgs[i])

Awaiting == phase = "pending" /\ done = "no"

TransferInv ==
  /\ phase # "user" => call # "none"
  /\ phase \in {"waiting", "start"} => done = "no"
  /\ phase = "start" => /\ acc.state = "idle"
                        /\ \A i \in 1 .. Len(msgs) : msgs[i].to = "identify"
  /\ acc.io.call # "none" => Awaiting
  /\ Awaiting => TransferUnderWay

(* The blocks behind the k-th one are in S, and none before it.            *)
Filled(S, k, n) == k <= n /\ S \subseteq k .. n /\ (k + 1) .. n \subseteq S

(* The reply to the write of a block, without an error.                    *)
Answered ==
  /\ joybus_state = "receiving" /\ msgs[1].to = "write" /\ msgs[1].op = "write"
  /\ reply.crc = "ok"

(* The blocks of this transfer that are stored or were sent to nobody.     *)
Accepted == stored \cup unheard

(* The blocks of a write behind those that are left are accepted, and so is*)
(* the one whose write is answered without an error.                       *)
StoredInv ==
  Awaiting /\ call \in {"write", "edit"} /\ ~ acc.ignore =>
    /\ Filled(Accepted, Len(acc.io.todo), Len(Blocks[call]))
    /\ Answered => Len(acc.io.todo) \in Accepted

-----------------------------------------------------------------------------
(* The ring.                                                               *)

RingOK ==
  /\ msgs \in Seq(Messages) /\ joybus_state \in {"idle", "sending", "receiving"}
  /\ joybus_state # "idle" => msgs # <<>>
  /\ reply \in Replies
  /\ (joybus_state = "receiving" /\ msgs[1].to = "identify") =>
       reply.crc \in {"none", "ok"} /\ reply.data \in {"absent", "present", "changed"}

(* What is left behind the first element, and more.                        *)
LEMMA TailAppend ==
  ASSUME NEW T, NEW s \in Seq(T), s # <<>>, NEW more \in Seq(T)
  PROVE  /\ Tail(s) \o more \in Seq(T)
         /\ Len(Tail(s) \o more) = Len(s) - 1 + Len(more)
         /\ \A i \in 1 .. (Len(s) - 1) : (Tail(s) \o more)[i] = s[i + 1]
         /\ \A i \in 1 .. Len(more) : (Tail(s) \o more)[Len(s) - 1 + i] = more[i]
<1>1. /\ Tail(s) \in Seq(T) /\ Len(Tail(s)) = Len(s) - 1
      /\ \A i \in 1 .. (Len(s) - 1) : Tail(s)[i] = s[i + 1]
  BY HeadTailProperties
<1> DEFINE t == Tail(s)
<1>2. /\ t \o more \in Seq(T) /\ Len(t \o more) = Len(t) + Len(more)
      /\ \A i \in 1 .. Len(t) + Len(more) :
           (t \o more)[i] = IF i <= Len(t) THEN t[i] ELSE more[i - Len(t)]
  BY <1>1, ConcatProperties
<1> HIDE DEF t
<1>3. Len(s) \in Nat /\ Len(more) \in Nat /\ Len(t) = Len(s) - 1 /\ Len(s) >= 1
  BY <1>1 DEF t
<1>4. ASSUME NEW i \in 1 .. (Len(s) - 1)
      PROVE  (t \o more)[i] = s[i + 1]
  BY <1>1, <1>2, <1>3 DEF t
<1>5. ASSUME NEW i \in 1 .. Len(more)
      PROVE  (t \o more)[Len(s) - 1 + i] = more[i]
  <2>1. /\ Len(s) - 1 + i \in 1 .. Len(t) + Len(more) /\ ~(Len(s) - 1 + i <= Len(t))
        /\ Len(s) - 1 + i - Len(t) = i
    BY <1>3
  <2> QED
    BY <1>2, <2>1
<1> QED
  BY <1>2, <1>3, <1>4, <1>5 DEF t

(* The end of a callback.                                                  *)
LEMMA Popped ==
  ASSUME RingOK, NEW more \in Seq(Messages), joybus_state = "receiving", Pop(more)
  PROVE  /\ RingOK' /\ Len(msgs') = Len(msgs) - 1 + Len(more)
         /\ joybus_state' # "receiving"
         /\ \A i \in 1 .. (Len(msgs) - 1) : msgs'[i] = msgs[i + 1]
         /\ \A i \in 1 .. Len(more) : msgs'[Len(msgs) - 1 + i] = more[i]
<1>1. msgs \in Seq(Messages) /\ msgs # <<>>
  BY DEF RingOK
<1>2. /\ msgs' = Tail(msgs) \o more /\ reply' = NoReply
      /\ joybus_state' = IF msgs' = <<>> THEN "idle" ELSE "sending"
  BY DEF Pop
<1>3. NoReply \in Replies
  BY DEF NoReply, Replies, Data
<1>4. /\ msgs' \in Seq(Messages) /\ Len(msgs') = Len(msgs) - 1 + Len(more)
      /\ \A i \in 1 .. (Len(msgs) - 1) : msgs'[i] = msgs[i + 1]
      /\ \A i \in 1 .. Len(more) : msgs'[Len(msgs) - 1 + i] = more[i]
  BY <1>1, <1>2, TailAppend
<1> QED
  BY <1>2, <1>3, <1>4 DEF RingOK

(* Messages from the program or a timer.                                   *)
LEMMA Queued ==
  ASSUME RingOK, NEW more \in Seq(Messages), JoybusExecAsync(more)
  PROVE  /\ RingOK' /\ Len(msgs') = Len(msgs) + Len(more)
         /\ \A i \in 1 .. Len(msgs) : msgs'[i] = msgs[i]
         /\ \A i \in 1 .. Len(more) : msgs'[Len(msgs) + i] = more[i]
         /\ joybus_state' = "receiving" <=> joybus_state = "receiving"
         /\ reply' = reply
<1>1. msgs \in Seq(Messages) /\ Len(msgs) \in Nat /\ Len(more) \in Nat
  BY DEF RingOK
<1>2. /\ msgs' = msgs \o more /\ reply' = reply
      /\ joybus_state' = IF joybus_state = "idle" /\ more # <<>> THEN "sending"
                         ELSE joybus_state
  BY DEF JoybusExecAsync
<1>3. /\ msgs' \in Seq(Messages) /\ Len(msgs') = Len(msgs) + Len(more)
      /\ \A i \in 1 .. Len(msgs) + Len(more) :
           msgs'[i] = IF i <= Len(msgs) THEN msgs[i] ELSE more[i - Len(msgs)]
  BY <1>1, <1>2, ConcatProperties
<1>4. \A i \in 1 .. Len(msgs) : msgs'[i] = msgs[i]
  BY <1>1, <1>3
<1>5. ASSUME NEW i \in 1 .. Len(more)
      PROVE  msgs'[Len(msgs) + i] = more[i]
  <2>1. /\ Len(msgs) + i \in 1 .. Len(msgs) + Len(more) /\ ~(Len(msgs) + i <= Len(msgs))
        /\ Len(msgs) + i - Len(msgs) = i
    BY <1>1
  <2> QED
    BY <1>3, <2>1
<1>6. msgs # <<>> => Len(msgs) >= 1 /\ msgs'[1] = msgs[1] /\ msgs' # <<>>
  BY <1>1, <1>3, <1>4
<1>7. more # <<>> => msgs' # <<>>
  BY <1>1, <1>3
<1>8. joybus_state' # "idle" => msgs' # <<>>
  BY <1>2, <1>6, <1>7 DEF RingOK
<1>9. joybus_state' = "receiving" => joybus_state = "receiving" /\ msgs'[1] = msgs[1]
  BY <1>2, <1>6 DEF RingOK
<1> QED
  BY <1>2, <1>3, <1>4, <1>5, <1>8, <1>9 DEF RingOK

LEMMA AskedIs ==
  ASSUME Types, joybus_state # "idle"
  PROVE  Asked = msgs[1] /\ Asked \in Messages /\ Head(msgs) = Asked /\ Len(msgs) \in Nat \ {0}
<1>1. msgs \in Seq(Messages) /\ msgs # <<>>
  BY DEF Types
<1>2. Head(msgs) = msgs[1] /\ Len(msgs) \in Nat \ {0}
  BY <1>1
<1>3. msgs[1] \in Messages
  BY <1>1
<1> QED
  BY <1>2, <1>3 DEF Asked

-----------------------------------------------------------------------------
(* The detection.                                                          *)

LEMMA DetectingStates ==
  Detecting = {"init", "bank0", "backup", "label0", "bank1", "bank0again", "restore",
               "rumble_w", "tp_on", "tp_wait", "tp_off", "snap_w", "snap_r",
               "read0", "read1", "rumble_r", "tp_read"}
BY DEF Detecting, Then, Look

(* Where a step of the detection leads.                                    *)
LEMMA FollowsIs ==
  ASSUME NEW s \in Detecting, NEW d \in Data, acc.label \in Data
  PROVE  /\ Follows(s, d) \in Detecting \cup {"idle"}
         /\ Follows(s, d) = "idle" =>
              /\ s \in {"restore", "tp_off", "snap_r", "rumble_r"}
              /\ s = "rumble_r" => d \in {"rumble", "bio"}
BY DetectingStates DEF Follows, Then, Data

LEMMA FoundIs ==
  ASSUME NEW s \in {"restore", "tp_off", "snap_r", "rumble_r"}, NEW d \in Data,
         s = "rumble_r" => d \in {"rumble", "bio"}
  PROVE  Found(s, d) \in {"cpak", "rumble", "bio", "transfer", "snap", "unknown"}
BY DEF Found

(* The message of a state is one of the detection.                         *)
LEMMA SendsIs ==
  ASSUME NEW s \in Detecting \cup {"idle"}, NEW a \in Accessories
  PROVE  /\ Sends(s, a) \in Seq(Messages)
         /\ \/ Sends(s, a) = <<>>
            \/ \E m \in Messages : Sends(s, a) = <<m>> /\ m.to = "detect"
<1>1. s \in DOMAIN Probe => Probe[s] \in Data
  BY DEF Probe, Data
<1>2. s \in DOMAIN Look => Look[s] \in {"label", "probe"}
  BY DEF Look
<1>3. a.label \in Data /\ a.backup \in Data
  BY DEF Accessories, Data
<1>4. ASSUME NEW op \in {"read", "write"}, NEW addr \in {"label", "probe"}, NEW val \in Data
      PROVE  Msg("detect", op, addr, val, 0) \in Messages /\ Msg("detect", op, addr, val, 0).to = "detect"
  BY DEF Msg, Messages, Callbacks
<1>5. "nothing" \in Data
  BY DEF Data
<1>6. \/ Sends(s, a) = <<>>
      \/ \E m \in Messages : Sends(s, a) = <<m>> /\ m.to = "detect"
  <2>1. CASE s \in DOMAIN Probe
    BY <1>1, <1>4, <2>1 DEF Sends
  <2>2. CASE s \notin DOMAIN Probe /\ s \in DOMAIN Look
    BY <1>2, <1>4, <1>5, <2>2 DEF Sends
  <2>3. CASE s \notin DOMAIN Probe /\ s \notin DOMAIN Look /\ s = "label0"
    BY <1>3, <1>4, <2>3 DEF Sends
  <2>4. CASE s \notin DOMAIN Probe /\ s \notin DOMAIN Look /\ s = "restore"
    BY <1>3, <1>4, <2>4 DEF Sends
  <2>5. CASE s \notin DOMAIN Probe /\ s \notin DOMAIN Look /\ s \notin {"label0", "restore"}
    BY <2>5 DEF Sends
  <2> QED
    BY <2>1, <2>2, <2>3, <2>4, <2>5
<1>7. <<>> \in Seq(Messages) /\ \A m \in Messages : <<m>> \in Seq(Messages)
  OBVIOUS
<1> QED
  BY <1>6, <1>7

(* A step of the detection changes no transfer.                            *)
LEMMA EnteredIs ==
  ASSUME Types, NEW a \in Accessories, a.state \in Detecting, NEW d \in Data
  PROVE  /\ Entered(a, d) \in Accessories /\ Entered(a, d).io = a.io
         /\ Entered(a, d).state = Follows(a.state, d)
         /\ Entered(a, d).state \in Detecting \cup {"idle"}
         /\ Entered(a, d).ignore = a.ignore
<1> DEFINE s == Follows(a.state, d)
           b == [a EXCEPT !.backup = IF a.state = "backup" THEN d ELSE @,
                          !.bankswitching = IF a.state = "read1" THEN d # "ones" ELSE @]
<1>1. /\ s \in Detecting \cup {"idle"}
      /\ s = "idle" => Found(a.state, d) \in {"cpak", "rumble", "bio", "transfer", "snap", "unknown"}
  <2>1. acc.label \in Data
    BY DEF Types, Accessories, Data
  <2> QED
    BY <2>1, FollowsIs, FoundIs
<1>2. b \in Accessories /\ b.io = a.io /\ b.ignore = a.ignore
  BY DEF Accessories
<1>3. Entered(a, d) =
        IF s = "idle"
        THEN [b EXCEPT !.state = s, !.type = Found(a.state, d),
                       !.curbank = IF a.state = "restore" THEN 0 ELSE @]
        ELSE [b EXCEPT !.state = s, !.error = "pending", !.retries = 0]
  BY DEF Entered
<1> HIDE DEF s, b
<1>4. CASE s = "idle"
  <2> DEFINE f == Found(a.state, d)
             c == IF a.state = "restore" THEN 0 ELSE b.curbank
             e == [b EXCEPT !.state = s, !.type = f, !.curbank = c]
  <2>1. /\ f \in {"cpak", "rumble", "bio", "transfer", "snap", "unknown"}
        /\ c \in {0, 1}
    BY <1>1, <1>2, <1>4 DEF Accessories
  <2>2. Entered(a, d) = e
    BY <1>3, <1>4
  <2> HIDE DEF f, c
  <2>3. e \in Accessories /\ e.io = b.io /\ e.state = s /\ e.ignore = b.ignore
    BY <1>2, <1>4, <2>1, ZenonT(60) DEF Accessories, States
  <2> QED
    BY <1>1, <1>2, <2>2, <2>3 DEF s
<1>5. CASE s # "idle"
  <2> DEFINE e == [b EXCEPT !.state = s, !.error = "pending", !.retries = 0]
  <2>2. Entered(a, d) = e
    BY <1>3, <1>5
  <2>3. e \in Accessories /\ e.io = b.io /\ e.state = s /\ e.ignore = b.ignore
    BY <1>1, <1>2, <1>5 DEF Accessories, States
  <2> QED
    BY <1>1, <1>2, <2>2, <2>3 DEF s
<1> QED
  BY <1>4, <1>5

-----------------------------------------------------------------------------
(* The types of the variables.                                             *)

LEMMA RingOfTypes == Types => RingOK
BY DEF Types, RingOK

LEMMA PakAnswers ==
  ASSUME NEW p \in PaksToBe, NEW addr, NEW v \in Data
  PROVE  Written(p, addr, v) \in PaksToBe /\ Contents(p, addr) \in Data
<1>1. p.label \in [{0, 1} -> Data] /\ p.bank \in {0, 1} /\ p.latch \in Data
  BY DEF PaksToBe
<1>2. p.label[p.bank] \in Data /\ "bio" \in Data /\ "nothing" \in Data
  BY <1>1 DEF Data
<1>3. Contents(p, addr) \in Data
  BY <1>1, <1>2 DEF Contents
<1> DEFINE label == [p.label EXCEPT ![p.bank] = v]
           bank == IF v = "zeros" THEN 0 ELSE 1
<1>4. label \in [{0, 1} -> Data] /\ bank \in {0, 1}
  BY <1>1
<1> HIDE DEF label, bank
<1>5. /\ [p EXCEPT !.label = label] \in PaksToBe
      /\ [p EXCEPT !.bank = bank] \in PaksToBe
      /\ [p EXCEPT !.latch = v] \in PaksToBe
  BY <1>4 DEF PaksToBe
<1>6. [p EXCEPT !.label[p.bank] = v] = [p EXCEPT !.label = label]
  BY DEF label
<1>7. Written(p, addr, v) \in PaksToBe
  BY <1>5, <1>6 DEF Written, bank
<1> QED
  BY <1>3, <1>7

LEMMA FreshIs == \A k \in Kinds : Fresh(k) \in PaksToBe
<1> SUFFICES ASSUME NEW k \in Kinds PROVE Fresh(k) \in PaksToBe
  OBVIOUS
<1> DEFINE label == IF k \in {"single", "multi"} THEN [b \in {0, 1} |-> "user"]
                    ELSE NoPak.label
<1>1. NoPak \in PaksToBe
  BY DEF NoPak, PaksToBe, Data
<1>2. label \in [{0, 1} -> Data]
  BY <1>1 DEF PaksToBe, Data
<1>3. Fresh(k) = [NoPak EXCEPT !.kind = k, !.label = label]
  BY DEF Fresh, NoPak
<1> HIDE DEF label
<1> QED
  BY <1>1, <1>2, <1>3 DEF PaksToBe

(* What the devices answer.                                                *)
LEMMA ExchangeIs ==
  ASSUME Types, NEW m \in Messages, Exchange(m)
  PROVE  /\ reply' \in Replies /\ pak' \in PaksToBe /\ changed' \in BOOLEAN
         /\ m.to = "identify" =>
              /\ reply'.crc \in {"none", "ok"} /\ Accepted' = Accepted
              /\ reply'.data \in {"absent", "present", "changed"}
         /\ \/ Accepted' = Accepted
            \/ m.to = "write" /\ m.op = "write" /\ Accepted' = Accepted \cup {m.n}
         /\ (m.to = "write" /\ m.op = "write" /\ reply'.crc = "ok") =>
              Accepted' = Accepted \cup {m.n}
<1>1. CASE m.to = "identify"
  BY <1>1 DEF Exchange, Types, Replies, Data, Accepted
<1>2. CASE m.to # "identify"
  <2> DEFINE block == m.to = "write" /\ m.op = "write"
  <2>1. PICK garbled \in BOOLEAN, arrives \in BOOLEAN :
            LET reaches == ctrl /\ pak # NoPak /\ (arrives \/ ~garbled)
                answers == ctrl /\ pak # NoPak
                clean   == pak.kind # "clone" \/ m.op = "read"
            IN /\ garbled => answers
               /\ garbled \/ ~arrives
               /\ pak' = IF reaches /\ m.op = "write"
                         THEN Written(pak, m.addr, m.val) ELSE pak
               /\ stored' = IF reaches /\ block THEN stored \cup {m.n} ELSE stored
               /\ unheard' = IF ~ctrl /\ block /\ m.val = "zeros"
                             THEN unheard \cup {m.n} ELSE unheard
               /\ reply' =
                    [crc  |-> IF garbled THEN "bad"
                              ELSE IF ctrl /\ ~answers THEN "nopak"
                              ELSE IF m.op = "write" /\ ~(ctrl /\ clean)
                              THEN Untouched(m.val) ELSE "ok",
                     data |-> IF answers THEN Contents(pak, m.addr)
                              ELSE "zeros"]
    BY <1>2 DEF Exchange
  <2>2. pak \in PaksToBe /\ changed' = changed /\ changed \in BOOLEAN /\ ctrl \in BOOLEAN
    BY <1>2 DEF Exchange, Types
  <2>3. Contents(pak, m.addr) \in Data /\ Written(pak, m.addr, m.val) \in PaksToBe
    BY <2>2, PakAnswers DEF Messages
  <2>4. "zeros" \in Data /\ Untouched(m.val) \in {"ok", "nopak", "zero"}
    BY DEF Data, Untouched
  <2>5. reply' \in Replies /\ pak' \in PaksToBe
    BY <2>1, <2>2, <2>3, <2>4 DEF Replies
  <2>6. CASE ctrl
    <3>1. unheard' = unheard
      BY <2>1, <2>6
    <3>2. stored' = stored \/ (block /\ stored' = stored \cup {m.n})
      BY <2>1
    <3>3. reply'.crc = "ok" => pak # NoPak /\ ~garbled
      BY <2>1, <2>6
    <3>4. block /\ reply'.crc = "ok" => stored' = stored \cup {m.n}
      BY <2>1, <2>6, <3>3
    <3> QED
      BY <1>2, <2>2, <2>5, <3>1, <3>2, <3>4 DEF Accepted
  <2>7. CASE ~ctrl
    <3>1. stored' = stored
      BY <2>1, <2>7
    <3>2. unheard' = unheard \/ (block /\ unheard' = unheard \cup {m.n})
      BY <2>1
    <3>3. block /\ reply'.crc = "ok" => Untouched(m.val) = "ok"
      BY <2>1, <2>7
    <3>4. Untouched(m.val) = "ok" => m.val = "zeros"
      BY DEF Untouched
    <3>5. block /\ reply'.crc = "ok" => unheard' = unheard \cup {m.n}
      BY <2>1, <2>7, <3>3, <3>4
    <3> QED
      BY <1>2, <2>2, <2>5, <3>1, <3>2, <3>5 DEF Accepted
  <2> QED
    BY <1>2, <2>2, <2>5, <2>6, <2>7
<1> QED
  BY <1>1, <1>2

(* The blocks of a transfer.                                               *)
LEMMA TransfersAre ==
  /\ Transfers = {"read", "write", "edit", "bank0", "bank1"}
  /\ Calls \subseteq Transfers
  /\ \A c \in Transfers : Blocks[c] \in Seq(BOOLEAN) /\ Len(Blocks[c]) \in {1, 2}
<1>1. Transfers = {"read", "write", "edit", "bank0", "bank1"}
  BY DEF Transfers, Blocks
<1>2. Calls \subseteq Transfers
  BY <1>1, AccessoryAssumption
<1>3. /\ <<FALSE, FALSE>> \in Seq(BOOLEAN) /\ Len(<<FALSE, FALSE>>) = 2
      /\ <<TRUE, TRUE>> \in Seq(BOOLEAN) /\ Len(<<TRUE, TRUE>>) = 2
      /\ <<FALSE>> \in Seq(BOOLEAN) /\ Len(<<FALSE>>) = 1
  OBVIOUS
<1>4. /\ Blocks["read"] = <<FALSE, FALSE>> /\ Blocks["write"] = <<FALSE, FALSE>>
      /\ Blocks["edit"] = <<TRUE, TRUE>>
      /\ Blocks["bank0"] = <<FALSE>> /\ Blocks["bank1"] = <<FALSE>>
  BY DEF Blocks
<1>5. ASSUME NEW c \in Transfers
      PROVE  Blocks[c] \in Seq(BOOLEAN) /\ Len(Blocks[c]) \in {1, 2}
  <2>1. CASE c = "read"
    BY <1>3, <1>4, <2>1
  <2>2. CASE c = "write"
    BY <1>3, <1>4, <2>2
  <2>3. CASE c = "edit"
    BY <1>3, <1>4, <2>3
  <2>4. CASE c = "bank0"
    BY <1>3, <1>4, <2>4
  <2>5. CASE c = "bank1"
    BY <1>3, <1>4, <2>5
  <2> QED
    BY <1>1, <2>1, <2>2, <2>3, <2>4, <2>5
<1> QED
  BY <1>1, <1>2, <1>5

LEMMA BlankIs ==
  ASSUME NEW status \in {"unsupported", "absent", "present", "changed"}
  PROVE  Blank \in Accessories /\ [Blank EXCEPT !.status = status] \in Accessories
<1>1. NoIo \in Ios
  BY DEF NoIo, Ios
<1>2. /\ "nothing" \in Data /\ "idle" \in States /\ 0 \in Nat /\ 0 \in {0, 1}
      /\ FALSE \in BOOLEAN
  BY DEF Data, States
<1>3. Blank \in Accessories
  BY <1>1, <1>2 DEF Blank, Accessories
<1> QED
  BY <1>3 DEF Accessories

LEMMA NoIoIs == NoIo \in Ios /\ NoIo.call = "none"
BY DEF NoIo, Ios

(* The messages of the library, and what is left of a transfer.            *)
LEMMA MessagesAre ==
  ASSUME NEW a \in Accessories
  PROVE  /\ Identify \in Messages /\ Motor("ones") \in Messages
         /\ Motor("zeros") \in Messages
         /\ Msg("detect", "write", "probe", "off", 0) \in Messages
         /\ \A to \in {"read", "write"} : ReadBlock(to, a) \in Messages
         /\ \A v \in Values : WriteBlock(a, v) \in Messages
         /\ <<>> \in Seq(Messages) /\ \A m \in Messages : <<m>> \in Seq(Messages)
<1>1. a.io.todo \in Seq(BOOLEAN)
  BY DEF Accessories, Ios
<1>2. Len(Todo(a)) \in Nat
  BY <1>1 DEF Todo
<1>3. 0 \in Nat
  OBVIOUS
<1>4. /\ Identify \in Messages /\ Motor("ones") \in Messages /\ Motor("zeros") \in Messages
      /\ Msg("detect", "write", "probe", "off", 0) \in Messages
  BY <1>3 DEF Identify, Motor, Msg, Messages, Callbacks, Data
<1>5. \A to \in {"read", "write"} : ReadBlock(to, a) \in Messages
  BY <1>2 DEF ReadBlock, Msg, Messages, Callbacks, Data
<1>6. ASSUME NEW v \in Values
      PROVE  WriteBlock(a, v) \in Messages
  <2>1. a.io.call \in DOMAIN Bank => BankValue[a.io.call] \in Data
    BY DEF Bank, BankValue, Data
  <2>2. v \in Data
    BY DEF Values, Data
  <2> QED
    BY <1>2, <2>1, <2>2 DEF WriteBlock, Msg, Messages, Callbacks, Data
<1>7. <<>> \in Seq(Messages) /\ \A m \in Messages : <<m>> \in Seq(Messages)
  OBVIOUS
<1> QED
  BY <1>4, <1>5, <1>6, <1>7

LEMMA RestIs ==
  ASSUME Types
  PROVE  /\ Rest \in Seq(BOOLEAN)
         /\ acc.io.todo # <<>> => Len(Rest) = Len(acc.io.todo) - 1
<1>1. acc.io.todo \in Seq(BOOLEAN)
  BY DEF Types, Accessories, Ios
<1>2. Rest = IF acc.io.todo = <<>> THEN <<>> ELSE Tail(acc.io.todo)
  BY DEF Rest, Todo
<1>3. <<>> \in Seq(BOOLEAN)
  OBVIOUS
<1>4. acc.io.todo # <<>> => /\ Tail(acc.io.todo) \in Seq(BOOLEAN)
                            /\ Len(Tail(acc.io.todo)) = Len(acc.io.todo) - 1
  BY <1>1, HeadTailProperties
<1> QED
  BY <1>2, <1>3, <1>4

(* A transfer that ends.                                                   *)
LEMMA EndsIs ==
  ASSUME Types, NEW a \in Accessories, NEW outcome \in {"none", "absent", "checksum"},
         Ends(a, outcome)
  PROVE  /\ acc' \in Accessories /\ acc'.state = a.state
         /\ acc'.ignore = a.ignore
         /\ done' \in {"no", "none", "absent", "checksum"}
         /\ Asked.to \in {"read", "write"} =>
              /\ acc'.io = NoIo
              /\ done' = IF acc.io.call # "none" THEN outcome ELSE done
         /\ Asked.to \notin {"read", "write"} => acc'.io = a.io /\ done' = done
<1>1. NoIo \in Ios
  BY NoIoIs
<1>2. PICK io, b : io = NoIo /\ b = acc'
  OBVIOUS
<1>3. CASE Asked.to \in {"read", "write"}
  <2>1. b = [a EXCEPT !.error = outcome, !.io = io]
    BY <1>2, <1>3 DEF Ends
  <2>2. done' = IF acc.io.call # "none" THEN outcome ELSE done
    BY <1>3 DEF Ends, Tell
  <2>3. io \in Ios
    BY <1>1, <1>2
  <2>4. b \in Accessories /\ b.state = a.state /\ b.ignore = a.ignore /\ b.io = io
    BY ONLY <2>1, <2>3, a \in Accessories, outcome \in {"none", "absent", "checksum"}
       DEF Accessories
  <2>5. done' \in {"no", "none", "absent", "checksum"}
    BY <2>2 DEF Types
  <2> QED
    BY <1>2, <1>3, <2>2, <2>4, <2>5
<1>4. CASE Asked.to \notin {"read", "write"}
  <2>1. b = [a EXCEPT !.error = outcome] /\ done' = done
    BY <1>2, <1>4 DEF Ends
  <2>2. b \in Accessories /\ b.state = a.state /\ b.ignore = a.ignore /\ b.io = a.io
    BY ONLY <2>1, a \in Accessories, outcome \in {"none", "absent", "checksum"} DEF Accessories
  <2>3. done' \in {"no", "none", "absent", "checksum"}
    BY <2>1 DEF Types
  <2> QED
    BY <1>2, <1>4, <2>1, <2>2, <2>3
<1> QED
  BY <1>3, <1>4

(* The interrupts that carry messages and reports.                         *)
LEMMA ReportTypes ==
  ASSUME Types, SiSent \/ Disconnected \/ NobodyThere \/ Polled
  PROVE  Types'
<1>0. RingOK /\ Asked = msgs[1] /\ Head(msgs) = Asked /\ <<>> \in Seq(Messages)
  <2>1. joybus_state # "idle"
    BY DEF SiSent, Disconnected, NobodyThere, Polled, Received
  <2> QED
    BY <2>1, RingOfTypes, AskedIs
<1>1. CASE SiSent
  <2>1. /\ Head(msgs) \in Messages /\ Exchange(Head(msgs))
        /\ joybus_state' = "receiving" /\ msgs' = msgs /\ msgs # <<>>
    BY <1>1, AskedIs DEF SiSent, Types
  <2>2. /\ reply' \in Replies /\ pak' \in PaksToBe /\ changed' \in BOOLEAN
        /\ msgs'[1].to = "identify" => /\ reply'.crc \in {"none", "ok"}
                                       /\ reply'.data \in {"absent", "present", "changed"}
    BY <1>0, <2>1, ExchangeIs
  <2> QED
    BY <1>1, <2>1, <2>2 DEF SiSent, Types, libVars, progVars
<1>2. CASE Disconnected
  <2>1. joybus_state = "receiving" /\ Pop(<<>>)
    BY <1>2 DEF Disconnected, Received
  <2>2. RingOK'
    BY <1>0, <2>1, Popped
  <2>3. acc' \in Accessories
    BY <1>2, BlankIs DEF Disconnected, AccessoryReset
  <2>4. done' \in {"no", "none", "absent", "checksum"} /\ wait_timer' \in BOOLEAN
    BY <1>2 DEF Disconnected, AccessoryReset, Tell, Types
  <2> QED
    BY <1>2, <2>2, <2>3, <2>4 DEF Disconnected, Types, RingOK, world
<1>3. CASE NobodyThere
  <2>1. joybus_state = "receiving" /\ Pop(<<>>)
    BY <1>3 DEF NobodyThere, Received
  <2>2. RingOK'
    BY <1>0, <2>1, Popped
  <2> QED
    BY <1>3, <2>2, ZenonT(60) DEF NobodyThere, Types, RingOK, world, progVars, history
<1>4. CASE Polled
  <2>0. joybus_state = "receiving" /\ msgs[1].to = "identify"
    BY <1>0, <1>4 DEF Polled, Received
  <2>1. reply.data \in {"absent", "present", "changed"} /\ acc \in Accessories
    BY <2>0 DEF Types
  <2>2. CASE New /\ DetectAsync /\ UNCHANGED <<wait_timer, done>>
    <3> DEFINE m == Msg("detect", "write", "probe", "off", 0)
               more == IF acc.state = "idle" THEN <<m>> ELSE <<>>
    <3>1. more \in Seq(Messages)
      BY <2>1, MessagesAre
    <3>2. Pop(more)
      BY <2>2 DEF DetectAsync
    <3>3. RingOK'
      BY <1>0, <2>0, <3>1, <3>2, Popped
    <3>4. acc' \in Accessories
      <4>1. OtherLabel \in {"probe0", "probe1"} /\ "init" \in States
        BY DetectingStates DEF OtherLabel, States
      <4> DEFINE st == IF acc.state = "idle" THEN "init" ELSE acc.state
                 er == IF acc.state = "idle" THEN "pending" ELSE acc.error
                 re == IF acc.state = "idle" THEN 0 ELSE acc.retries
      <4>2. st \in States /\ er \in {"none", "pending", "absent", "checksum", "unknown"}
            /\ re \in Nat
        BY <2>1, <4>1 DEF Accessories
      <4>3. acc' = [acc EXCEPT !.label = OtherLabel, !.status = reply.data,
                        !.state = st, !.error = er, !.retries = re]
        BY <2>2 DEF DetectAsync
      <4> HIDE DEF st, er, re
      <4> QED
        BY <2>1, <4>1, <4>2, <4>3, ZenonT(60) DEF Accessories
    <3>5. unsure' \in BOOLEAN
      BY <2>2 DEF DetectAsync
    <3> QED
      BY <1>4, <2>2, <3>3, <3>4, <3>5, ZenonT(60) DEF Polled, Types, RingOK, world
  <2>3. CASE Gone /\ AccessoryReset(reply.data) /\ unsure' = FALSE /\ Pop(<<>>)
    <3>1. RingOK'
      BY <1>0, <2>0, <2>3, Popped
    <3>2. acc' \in Accessories
      BY <2>1, <2>3, BlankIs DEF AccessoryReset
    <3>3. done' \in {"no", "none", "absent", "checksum"} /\ wait_timer' \in BOOLEAN
      BY <2>3 DEF AccessoryReset, Tell, Types
    <3> QED
      BY <1>4, <2>3, <3>1, <3>2, <3>3 DEF Polled, Types, RingOK, world
  <2>4. CASE /\ ~New /\ ~Gone /\ acc' = [acc EXCEPT !.status = reply.data]
             /\ Pop(<<>>) /\ UNCHANGED <<wait_timer, done, unsure>>
    <3>1. RingOK'
      BY <1>0, <2>0, <2>4, Popped
    <3>2. acc' \in Accessories
      BY <2>1, <2>4 DEF Accessories
    <3> QED
      BY <1>4, <2>4, <3>1, <3>2, ZenonT(60) DEF Polled, Types, RingOK, world
  <2> QED
    BY <1>4, <2>2, <2>3, <2>4 DEF Polled
<1> QED
  BY <1>1, <1>2, <1>3, <1>4

(* The callbacks of the pak's replies.                                     *)
LEMMA ErrorTypes ==
  ASSUME Types, Dropped \/ PakGone \/ Retry \/ GiveUp
  PROVE  Types'
<1>0. /\ RingOK /\ Asked \in Messages /\ <<>> \in Seq(Messages)
      /\ <<Asked>> \in Seq(Messages) /\ joybus_state = "receiving" /\ acc \in Accessories
  <2>1. joybus_state = "receiving"
    BY DEF Dropped, PakGone, Retry, GiveUp, Received
  <2>2. Asked \in Messages
    BY <2>1, AskedIs
  <2> QED
    BY <2>1, <2>2, RingOfTypes DEF Types
<1>1. CASE Dropped
  <2>1. RingOK'
    BY <1>0, <1>1, Popped DEF Dropped
  <2> QED
    BY <1>1, <2>1 DEF Dropped, Types, RingOK, libVars, world, progVars, history
<1>2. CASE PakGone
  <2>1. RingOK'
    BY <1>0, <1>2, Popped DEF PakGone
  <2> DEFINE a == [acc EXCEPT !.state = "idle", !.type = "none", !.status = "absent"]
  <2>2. a \in Accessories
    BY <1>0 DEF Accessories, States
  <2>3. Ends(a, "absent")
    BY <1>2 DEF PakGone
  <2>4. acc' \in Accessories /\ done' \in {"no", "none", "absent", "checksum"}
    BY <2>2, <2>3, EndsIs
  <2> QED
    BY <1>2, <2>1, <2>4 DEF PakGone, Types, RingOK, world, history
<1>3. CASE Retry
  <2>1. RingOK'
    BY <1>0, <1>3, Popped DEF Retry
  <2>2. acc' \in Accessories
    <3>1. acc.retries + 1 \in Nat
      BY <1>0 DEF Accessories
    <3>2. acc' = [acc EXCEPT !.retries = acc.retries + 1, !.error = "pending"]
      BY <1>3 DEF Retry
    <3> QED
      BY <1>0, <3>1, <3>2 DEF Accessories
  <2> QED
    BY <1>3, <2>1, <2>2 DEF Retry, Types, RingOK, world, progVars, history
<1>4. CASE GiveUp
  <2>1. RingOK'
    BY <1>0, <1>4, Popped DEF GiveUp
  <2> DEFINE a == [acc EXCEPT !.state = "idle"]
  <2>2. a \in Accessories
    BY <1>0 DEF Accessories, States
  <2>3. Ends(a, "checksum")
    BY <1>4 DEF GiveUp
  <2>4. acc' \in Accessories /\ done' \in {"no", "none", "absent", "checksum"}
    BY <2>2, <2>3, EndsIs
  <2>5. unsure' \in BOOLEAN /\ spoiled' \in BOOLEAN
    BY <1>4 DEF GiveUp, Types
  <2> QED
    BY <1>4, <2>1, <2>4, <2>5 DEF GiveUp, Types, RingOK, world
<1> QED
  BY <1>1, <1>2, <1>3, <1>4

(* What a step of the detection leaves.                                    *)
LEMMA DetectTypes ==
  ASSUME Types, DetectStateMachine \/ DetectLost
  PROVE  Types'
<1>0. RingOK /\ <<>> \in Seq(Messages) /\ joybus_state = "receiving" /\ acc \in Accessories
  <2>1. joybus_state = "receiving"
    BY DEF DetectStateMachine, DetectLost, Received
  <2> QED
    BY <2>1, RingOfTypes DEF Types
<1>00. Ignores \in BOOLEAN
  BY <1>0 DEF Ignores, Accessories
<1>1. CASE DetectStateMachine
  <2> DEFINE b == [acc EXCEPT !.ignore = Ignores, !.error = "none"]
             a == Entered(b, reply.data)
  <2>1. b \in Accessories /\ b.state = acc.state /\ acc.state \in Detecting
    BY <1>0, <1>00, <1>1 DEF DetectStateMachine, Accessories
  <2>2. reply.data \in Data
    BY DEF Types, Replies
  <2>3. a \in Accessories /\ a.state \in Detecting \cup {"idle"}
    BY <2>1, <2>2, EnteredIs
  <2>4. /\ acc' = a /\ Pop(Sends(a.state, a))
        /\ wait_timer' = (wait_timer \/ a.state = "tp_wait")
        /\ rumble_method' = \/ rumble_method
                            \/ acc.state = "rumble_r" /\ a.type = "rumble"
                               /\ a.state = "idle"
        /\ UNCHANGED <<pending, known, world, progVars, history>>
    BY <1>1 DEF DetectStateMachine
  <2> HIDE DEF a
  <2>5. Sends(a.state, a) \in Seq(Messages)
    BY <2>3, SendsIs
  <2>6. RingOK'
    BY <1>0, <2>4, <2>5, Popped
  <2>7. wait_timer' \in BOOLEAN /\ rumble_method' \in BOOLEAN
    BY <2>4 DEF Types
  <2> QED
    BY <2>3, <2>4, <2>6, <2>7 DEF Types, RingOK, world, progVars, history
<1>2. CASE DetectLost
  <2>1. RingOK'
    BY <1>0, <1>2, Popped DEF DetectLost
  <2>2. acc' \in Accessories
    BY <1>0, <1>00, <1>2 DEF DetectLost, Accessories, States
  <2> QED
    BY <1>2, <2>1, <2>2 DEF DetectLost, Types, RingOK, world, progVars, history
<1> QED
  BY <1>1, <1>2

(* The accessory when a block is done.                                     *)
LEMMA BlockDone ==
  ASSUME Types
  PROVE  LET a == [acc EXCEPT !.io.todo = Rest, !.error = "pending", !.retries = 0]
         IN  /\ a \in Accessories /\ a.io.todo = Rest /\ a.io.call = acc.io.call
             /\ a.state = acc.state /\ a.ignore = acc.ignore
             /\ [a EXCEPT !.state = "READ"] \in Accessories
             /\ [a EXCEPT !.state = "READ"].io = a.io
             /\ [a EXCEPT !.state = "READ"].state = "READ"
             /\ [a EXCEPT !.state = "READ"].ignore = acc.ignore
<1> DEFINE io == [acc.io EXCEPT !.todo = Rest]
<1>1. acc \in Accessories /\ acc.io \in Ios
  BY DEF Types, Accessories
<1>2. io \in Ios /\ io.todo = Rest /\ io.call = acc.io.call
  BY <1>1, RestIs DEF Ios
<1> HIDE DEF io
<1> DEFINE a == [acc EXCEPT !.io = io, !.error = "pending", !.retries = 0]
<1>3. [acc EXCEPT !.io.todo = Rest, !.error = "pending", !.retries = 0] = a
  BY DEF io
<1>4. /\ a \in Accessories /\ a.io = io
      /\ a.state = acc.state /\ a.ignore = acc.ignore
  BY <1>1, <1>2 DEF Accessories
<1>5. /\ [a EXCEPT !.state = "READ"] \in Accessories
      /\ [a EXCEPT !.state = "READ"].io = a.io
      /\ [a EXCEPT !.state = "READ"].state = "READ"
      /\ [a EXCEPT !.state = "READ"].ignore = acc.ignore
  BY <1>4 DEF Accessories, States
<1> HIDE DEF a
<1> QED
  BY <1>2, <1>3, <1>4, <1>5

LEMMA CallbackTypes ==
  ASSUME Types, ReadCallback \/ WriteMerged \/ WriteCallback \/ RumbleCallback
  PROVE  Types'
<1>0. RingOK /\ <<>> \in Seq(Messages) /\ joybus_state = "receiving" /\ acc \in Accessories
  <2>1. joybus_state = "receiving"
    BY DEF ReadCallback, WriteMerged, WriteCallback, RumbleCallback, Received
  <2> QED
    BY <2>1, RingOfTypes DEF Types
<1>1. ASSUME Completed PROVE RingOK' /\ acc' \in Accessories /\ done' \in {"no", "none", "absent", "checksum"}
  <2>1. RingOK'
    BY <1>0, <1>1, Popped DEF Completed
  <2>2. [acc EXCEPT !.state = "idle"] \in Accessories
    BY <1>0 DEF Accessories, States
  <2>3. acc' \in Accessories /\ done' \in {"no", "none", "absent", "checksum"}
    BY <1>1, <2>2, EndsIs DEF Completed
  <2> QED
    BY <2>1, <2>3
<1>2. ASSUME NEW a \in Accessories, acc' = a, NEW m \in Messages, Pop(<<m>>)
      PROVE  RingOK' /\ acc' \in Accessories
  <2>1. <<m>> \in Seq(Messages)
    OBVIOUS
  <2> QED
    BY <1>0, <1>2, <2>1, Popped
<1> DEFINE a == [acc EXCEPT !.io.todo = Rest, !.error = "pending", !.retries = 0]
           r == [a EXCEPT !.state = "READ"]
<1>3. a \in Accessories /\ r \in Accessories
  BY BlockDone
<1>4. /\ ReadBlock("read", a) \in Messages /\ ReadBlock("write", a) \in Messages
      /\ \A v \in Values : WriteBlock(a, v) \in Messages /\ WriteBlock(acc, v) \in Messages
  BY <1>0, <1>3, MessagesAre
<1>5. CASE ReadCallback
  <2>1. \/ Completed
        \/ acc' = a /\ Pop(<<ReadBlock("read", a)>>) /\ done' = done
    BY <1>5 DEF ReadCallback
  <2> HIDE DEF a
  <2>2. RingOK' /\ acc' \in Accessories /\ done' \in {"no", "none", "absent", "checksum"}
    BY <1>1, <1>2, <1>3, <1>4, <2>1 DEF Types
  <2> QED
    BY <1>5, <2>2 DEF ReadCallback, Types, RingOK, world, history
<1>6. CASE WriteMerged
  <2>1. acc' \in Accessories
    BY <1>0, <1>6 DEF WriteMerged, Accessories, States
  <2>2. PICK v \in Values : Pop(<<WriteBlock(acc, v)>>)
    BY <1>6 DEF WriteMerged
  <2>3. RingOK'
    BY <1>2, <1>4, <2>1, <2>2
  <2> QED
    BY <1>6, <2>1, <2>3 DEF WriteMerged, Types, RingOK, world, progVars, history
<1>7. CASE WriteCallback
  <2>1. \/ Completed
        \/ acc' = r /\ Pop(<<ReadBlock("write", a)>>) /\ done' = done
        \/ acc' = a /\ (\E v \in Values : Pop(<<WriteBlock(a, v)>>)) /\ done' = done
    BY <1>7 DEF WriteCallback
  <2> HIDE DEF a, r
  <2>2. RingOK' /\ acc' \in Accessories /\ done' \in {"no", "none", "absent", "checksum"}
    BY <1>1, <1>2, <1>3, <1>4, <2>1 DEF Types
  <2> QED
    BY <1>7, <2>2, ZenonT(60) DEF WriteCallback, Types, RingOK, world, history
<1>8. CASE RumbleCallback
  <2>1. RingOK'
    BY <1>0, <1>8, Popped DEF RumbleCallback
  <2>2. acc' \in Accessories
    BY <1>0, <1>8 DEF RumbleCallback, Accessories, States
  <2> QED
    BY <1>8, <2>1, <2>2 DEF RumbleCallback, Types, RingOK, world, progVars, history
<1> QED
  BY <1>5, <1>6, <1>7, <1>8

LEMMA TimerTypes ==
  ASSUME Types, WaitTimer \/ IdentifyTimer
  PROVE  Types'
<1>0. RingOK /\ acc \in Accessories
  BY RingOfTypes DEF Types
<1>1. CASE WaitTimer
  <2>0. /\ wait_timer' = FALSE /\ pending' = pending /\ known' = known
        /\ rumble_method' = rumble_method /\ ctrl' = ctrl /\ pak' = pak /\ changed' = changed
        /\ call' = call /\ phase' = phase /\ done' = done
        /\ unsure' = unsure /\ spoiled' = spoiled
    BY <1>1 DEF WaitTimer, world, progVars, history
  <2>00. wait_timer' \in BOOLEAN
    BY <2>0
  <2>1. CASE acc.state \in Detecting
    <3> DEFINE a == Entered(acc, "nothing")
    <3>1. acc' = a /\ JoybusExecAsync(Sends(a.state, a))
      BY <1>1, <2>1 DEF WaitTimer
    <3>2. a \in Accessories /\ a.state \in Detecting \cup {"idle"}
      BY <1>0, <2>1, EnteredIs DEF Data
    <3> HIDE DEF a
    <3>3. Sends(a.state, a) \in Seq(Messages)
      BY <3>2, SendsIs
    <3>4. RingOK'
      BY <1>0, <3>1, <3>3, Queued
    <3> QED
      BY <2>0, <2>00, <3>1, <3>2, <3>4 DEF Types, RingOK
  <2>2. CASE acc.state \notin Detecting
    <3>1. UNCHANGED <<acc, busVars>>
      BY <1>1, <2>2 DEF WaitTimer
    <3> QED
      BY <2>0, <2>00, <3>1 DEF Types, busVars
  <2> QED
    BY <2>1, <2>2
<1>2. CASE IdentifyTimer
  <2>1. <<Identify>> \in Seq(Messages)
    BY <1>0, MessagesAre
  <2>2. RingOK'
    BY <1>0, <1>2, <2>1, Queued DEF IdentifyTimer
  <2> QED
    BY <1>2, <2>2 DEF IdentifyTimer, Types, RingOK, world, progVars, history
<1> QED
  BY <1>1, <1>2

LEMMA ProgramTypes ==
  ASSUME Types, Program, phase # "user" => call # "none"
  PROVE  Types'
<1>0. RingOK /\ acc \in Accessories
  BY RingOfTypes DEF Types
<1>1. ASSUME NEW c \in Calls, XferCall(c) \/ SetBank(c)
      PROVE  Types'
  <2>1. c \in Transfers
    BY TransfersAre
  <2>2. CASE XferCall(c)
    BY <2>1, <2>2 DEF XferCall, Types, busVars, libVars, world, history
  <2>3. CASE SetBank(c)
    <3>1. Bank[c] \in {0, 1}
      BY <2>3 DEF SetBank, Bank
    <3>2. acc' \in Accessories
      BY <1>0, <2>3, <3>1 DEF SetBank, Accessories
    <3> QED
      BY <2>1, <2>3, <3>2 DEF SetBank, Types, busVars, world, history
  <2> QED
    BY <1>1, <2>2, <2>3
<1>2. CASE XferTest
  BY <1>2 DEF XferTest, Types, busVars, libVars, world
<1>3. CASE XferStart
  <2> DEFINE reads == call = "read" \/ Blocks[call][1]
             st == IF reads THEN "READ" ELSE "WRITE"
             io == [call |-> call, todo |-> Blocks[call]]
             a == [acc EXCEPT !.io = io, !.error = "pending", !.retries = 0, !.state = st]
             to == IF call = "read" THEN "read" ELSE "write"
             M(v) == IF reads THEN ReadBlock(to, a) ELSE WriteBlock(a, v)
  <2>0. "block" \in Values
    BY DEF Values
  <2>1. acc' = a /\ \E v \in Values : JoybusExecAsync(<<M(v)>>)
    BY <1>3, <2>0 DEF XferStart
  <2>2. call \in Transfers
    BY <1>3 DEF XferStart, Types
  <2>3. io \in Ios
    BY <2>2, TransfersAre DEF Ios
  <2>4. st \in States
    BY DEF States
  <2> HIDE DEF io, st, reads
  <2>5. a \in Accessories
    BY <1>0, <2>3, <2>4 DEF Accessories
  <2> HIDE DEF a
  <2>6. \A v \in Values : M(v) \in Messages /\ <<M(v)>> \in Seq(Messages)
    BY <2>5, MessagesAre
  <2> HIDE DEF M
  <2>7. RingOK'
    BY <1>0, <2>1, <2>6, Queued
  <2> QED
    BY <1>3, <2>1, <2>5, <2>7 DEF XferStart, Types, RingOK, world
<1>4. CASE XferReturn
  BY <1>4 DEF XferReturn, Types, busVars, libVars, world
<1>5. CASE SetRumbleActive
  <2>1. acc' \in Accessories
    BY <1>0, <1>5 DEF SetRumbleActive, Accessories, States
  <2>2. PICK v \in {"ones", "zeros"} :
              <<Motor(v)>> \in Seq(Messages) /\ JoybusExecAsync(<<Motor(v)>>)
    BY <1>0, <1>5, MessagesAre DEF SetRumbleActive
  <2>3. RingOK'
    BY <1>0, <2>2, Queued
  <2> QED
    BY <1>5, <2>1, <2>3 DEF SetRumbleActive, Types, RingOK, world, progVars, history
<1> QED
  BY <1>1, <1>2, <1>3, <1>4, <1>5 DEF Program

LEMMA UserTypes ==
  ASSUME Types, User
  PROVE  Types'
<1>1. NoPak \in PaksToBe
  BY DEF NoPak, PaksToBe, Data
<1>2. \A k \in Paks : Fresh(k) \in PaksToBe
  BY FreshIs, AccessoryAssumption
<1>3. CASE PullPak
  BY <1>1, <1>3 DEF PullPak, Types, busVars, libVars, progVars, history
<1>4. ASSUME NEW k \in Paks, PlugPak(k) PROVE Types'
  BY <1>2, <1>4, ZenonT(60) DEF PlugPak, Types, busVars, libVars, progVars
<1>5. CASE PullController
  <2>1. spoiled' \in BOOLEAN
    BY <1>5 DEF PullController, Types, Accessories
  <2>2. ctrl' \in BOOLEAN
    BY <1>5 DEF PullController
  <2> QED
    BY <1>5, <2>1, <2>2 DEF PullController, Types, busVars, libVars, progVars
<1>6. CASE PlugController
  BY <1>6 DEF PlugController, Types, busVars, libVars, progVars, history
<1> QED
  BY <1>3, <1>4, <1>5, <1>6 DEF User

-----------------------------------------------------------------------------
(* Transfers.                                                              *)

LEMMA FilledByOne ==
  ASSUME NEW S, NEW k \in Nat, NEW n \in Nat, Filled(S, k, n), k # 0
  PROVE  /\ Filled(S \cup {k}, k, n)
         /\ k \in S /\ k # 1 => Filled(S, k - 1, n)
         /\ k \in S /\ k = 1 => S = 1 .. n
<1>1. /\ k <= n /\ \A i \in S : i \in k .. n
      /\ \A i \in (k + 1) .. n : i \in S
  BY DEF Filled
<1>2. k \in k .. n
  BY <1>1
<1>3. Filled(S \cup {k}, k, n)
  BY <1>1, <1>2 DEF Filled
<1>4. ASSUME k \in S
      PROVE  \A i \in k .. n : i \in S
  BY <1>1, <1>4
<1>5. ASSUME k \in S, k # 1
      PROVE  Filled(S, k - 1, n)
  <2>1. k - 1 <= n /\ k - 1 + 1 = k
    BY <1>1
  <2>2. \A i \in S : i \in (k - 1) .. n
    BY <1>1
  <2> QED
    BY <1>4, <1>5, <2>1, <2>2 DEF Filled
<1>6. ASSUME k \in S, k = 1
      PROVE  S = 1 .. n
  BY <1>1, <1>4, <1>6
<1> QED
  BY <1>3, <1>5, <1>6

LEMMA FilledAtFirst ==
  ASSUME NEW n \in Nat
  PROVE  Filled({}, n, n)
BY DEF Filled

LEMMA Lengths ==
  ASSUME NEW T, NEW s \in Seq(T)
  PROVE  Len(s) \in Nat /\ (s # <<>> => Len(s) # 0)
OBVIOUS

LEMMA CarriesTheSame ==
  ASSUME NEW m, acc'.state = acc.state, acc'.io = acc.io, call' = call
  PROVE  Carries(m)' <=> Carries(m)
BY DEF Carries, ReadBlock, WriteBlock, Todo

(* A message that carries a transfer on is one of a block.                 *)
LEMMA BlockMessages ==
  ASSUME NEW m, Carries(m)
  PROVE  m.to \in {"read", "write"}
<1>1. CASE m = ReadBlock(IF call = "read" THEN "read" ELSE "write", acc)
  BY <1>1 DEF ReadBlock, Msg
<1>2. ASSUME NEW v \in Values, m = WriteBlock(acc, v)
      PROVE  m.to \in {"read", "write"}
  BY <1>2 DEF WriteBlock, Msg
<1> QED
  BY <1>1, <1>2 DEF Carries

(* The message at the head, while somebody waits for a transfer.           *)
LEMMA AtTheHead ==
  ASSUME Types, TransferUnderWay, joybus_state = "receiving"
  PROVE  \/ /\ Asked.to = "identify"
            /\ \E i \in 1 .. Len(msgs) : i # 1 /\ Alone(i) /\ Carries(msgs[i])
         \/ Asked.to \in {"read", "write"} /\ Alone(1) /\ Carries(Asked)
<1>1. Asked = msgs[1] /\ 1 \in 1 .. Len(msgs)
  BY AskedIs
<1>2. PICK i \in 1 .. Len(msgs) : Alone(i) /\ Carries(msgs[i])
  BY DEF TransferUnderWay
<1>3. CASE i = 1
  <2>1. Asked.to \in {"read", "write"}
    BY <1>1, <1>2, <1>3, BlockMessages
  <2> QED
    BY <1>1, <1>2, <1>3, <2>1
<1>4. CASE i # 1
  <2>1. Asked.to = "identify"
    BY <1>1, <1>2, <1>4 DEF Alone
  <2> QED
    BY <1>2, <1>4, <2>1
<1> QED
  BY <1>3, <1>4

(* A report is taken out of the ring: the transfer is still under way.     *)
LEMMA KeptBehind ==
  ASSUME Types, TransferUnderWay, joybus_state = "receiving", Asked.to = "identify", Pop(<<>>),
         acc'.state = acc.state, acc'.io = acc.io, call' = call
  PROVE  TransferUnderWay'
<1>1. PICK i \in 1 .. Len(msgs) : i # 1 /\ Alone(i) /\ Carries(msgs[i])
  BY AtTheHead
<1>2. /\ Len(msgs') = Len(msgs) - 1 + Len(<<>>)
      /\ \A j \in 1 .. (Len(msgs) - 1) : msgs'[j] = msgs[j + 1]
  <2>1. RingOK /\ <<>> \in Seq(Messages)
    BY RingOfTypes
  <2> QED
    BY <2>1, Popped
<1>3. Len(msgs) \in Nat /\ Len(msgs') = Len(msgs) - 1
  BY <1>2 DEF Types
<1>4. /\ i - 1 \in 1 .. (Len(msgs) - 1)
      /\ \A j \in 1 .. (Len(msgs) - 1) : j + 1 \in 1 .. Len(msgs) /\ (j # i - 1 => j + 1 # i)
      /\ i - 1 + 1 = i
  BY <1>1, <1>3
<1>5. msgs'[i - 1] = msgs[i] /\ \A j \in 1 .. (Len(msgs) - 1) : j # i - 1 => msgs'[j].to = "identify"
  BY <1>1, <1>2, <1>4 DEF Alone
<1>6. Alone(i - 1)' /\ i - 1 \in 1 .. Len(msgs')
  BY <1>3, <1>4, <1>5 DEF Alone
<1>7. PICK m : m = msgs[i]
  OBVIOUS
<1>8. Carries(m)' /\ m = msgs'[i - 1]
  BY <1>1, <1>5, <1>7, CarriesTheSame
<1>9. Carries(msgs[i - 1])'
  BY <1>8 DEF Carries
<1>10. \E j \in 1 .. Len(msgs') : Alone(j)' /\ Carries(msgs[j])'
  BY <1>6, <1>9
<1> QED
  BY <1>10 DEF TransferUnderWay

(* The transfer goes on with another message.                              *)
LEMMA CarriedOn ==
  ASSUME Types, joybus_state = "receiving", Alone(1), NEW m \in Messages, Pop(<<m>>), Carries(m)'
  PROVE  \E i \in 1 .. Len(msgs') : Alone(i)' /\ Carries(msgs[i])'
<1>1. /\ Len(msgs') = Len(msgs) - 1 + Len(<<m>>)
      /\ \A j \in 1 .. (Len(msgs) - 1) : msgs'[j] = msgs[j + 1]
      /\ \A j \in 1 .. Len(<<m>>) : msgs'[Len(msgs) - 1 + j] = <<m>>[j]
  <2>1. RingOK /\ <<m>> \in Seq(Messages)
    BY RingOfTypes
  <2> QED
    BY <2>1, Popped
<1>2. Len(msgs) \in Nat \ {0} /\ Len(<<m>>) = 1 /\ <<m>>[1] = m /\ 1 \in 1 .. Len(<<m>>)
  BY AskedIs
<1> DEFINE n == Len(msgs)
<1>3. Len(msgs') = n /\ msgs'[n] = m
  <2>1. n - 1 + 1 = n
    BY <1>2
  <2> QED
    BY <1>1, <1>2, <2>1
<1>4. n \in 1 .. n /\ \A j \in 1 .. n : j # n => j \in 1 .. (n - 1) /\ j + 1 \in 1 .. n /\ j + 1 # 1
  BY <1>2
<1>5. \A j \in 1 .. n : j # n => msgs'[j].to = "identify"
  BY <1>1, <1>4 DEF Alone
<1>6. \A j \in 1 .. Len(msgs') : j # n => msgs'[j].to = "identify"
  BY <1>3, <1>5
<1> HIDE DEF n
<1>7. PICK k : k = n
  OBVIOUS
<1>8. Carries(msgs[k])' /\ Alone(k)' /\ k \in 1 .. Len(msgs')
  <2>1. m = msgs'[k]
    BY <1>3, <1>7
  <2> QED
    BY <1>3, <1>4, <1>6, <1>7, <2>1 DEF Carries, Alone
<1> QED
  BY <1>8

(* A report is asked for behind it.                                        *)
LEMMA KeptBefore ==
  ASSUME Types, TransferUnderWay, JoybusExecAsync(<<Identify>>),
         acc'.state = acc.state, acc'.io = acc.io, call' = call
  PROVE  TransferUnderWay'
<1>1. PICK i \in 1 .. Len(msgs) : Alone(i) /\ Carries(msgs[i])
  BY DEF TransferUnderWay
<1>2. /\ Len(msgs') = Len(msgs) + Len(<<Identify>>)
      /\ \A j \in 1 .. Len(msgs) : msgs'[j] = msgs[j]
      /\ \A j \in 1 .. Len(<<Identify>>) : msgs'[Len(msgs) + j] = <<Identify>>[j]
  <2>1. RingOK /\ <<Identify>> \in Seq(Messages)
    BY RingOfTypes, MessagesAre DEF Types
  <2> QED
    BY <2>1, Queued
<1>3. /\ Len(msgs) \in Nat /\ Len(<<Identify>>) = 1 /\ 1 \in 1 .. Len(<<Identify>>)
      /\ <<Identify>>[1].to = "identify"
  BY DEF Types, Identify, Msg
<1> DEFINE n == Len(msgs)
<1>4. Len(msgs') = n + 1 /\ msgs'[n + 1].to = "identify"
  BY <1>2, <1>3
<1>5. i \in 1 .. (n + 1) /\ \A j \in 1 .. (n + 1) : j = n + 1 \/ j \in 1 .. n
  BY <1>3
<1>6. \A j \in 1 .. (n + 1) : j # i => msgs'[j].to = "identify"
  BY <1>1, <1>2, <1>4, <1>5 DEF Alone
<1>7. Alone(i)' /\ i \in 1 .. Len(msgs')
  BY <1>4, <1>5, <1>6 DEF Alone
<1>8. msgs'[i] = msgs[i]
  BY <1>2
<1>9. PICK m : m = msgs[i]
  OBVIOUS
<1>10. Carries(m)' /\ m = msgs'[i]
  BY <1>1, <1>8, <1>9, CarriesTheSame
<1>11. Carries(msgs[i])'
  BY <1>10 DEF Carries
<1>12. \E j \in 1 .. Len(msgs') : Alone(j)' /\ Carries(msgs[j])'
  BY <1>7, <1>11
<1> QED
  BY <1>12 DEF TransferUnderWay

Inv == Types /\ TransferInv /\ StoredInv

(* Steps that touch no transfer: at most a report is taken out of the ring *)
(* or asked for.                                                           *)
LEMMA TransferUntouched ==
  ASSUME Types, TransferInv, StoredInv, Types',
         UNCHANGED <<call, phase, done, Accepted>>,
         acc'.state = acc.state, acc'.io = acc.io, acc'.ignore = acc.ignore,
         \/ UNCHANGED <<msgs, joybus_state, reply>>
         \/ /\ phase # "start"
            /\ \/ joybus_state = "receiving" /\ Asked.to = "identify" /\ Pop(<<>>)
               \/ JoybusExecAsync(<<Identify>>)
  PROVE  TransferInv' /\ StoredInv'
<1>1. Awaiting' <=> Awaiting
  BY DEF Awaiting
<1>2. TransferUnderWay => TransferUnderWay'
  <2> HAVE TransferUnderWay
  <2>1. CASE UNCHANGED <<msgs, joybus_state, reply>>
    BY <2>1 DEF TransferUnderWay, Alone, Carries, ReadBlock, WriteBlock, Todo
  <2>2. CASE joybus_state = "receiving" /\ Asked.to = "identify" /\ Pop(<<>>)
    BY <2>2, KeptBehind
  <2>3. CASE JoybusExecAsync(<<Identify>>)
    BY <2>3, KeptBefore
  <2> QED
    BY <2>1, <2>2, <2>3
<1>3. phase' = "start" => /\ acc'.state = "idle"
                          /\ \A i \in 1 .. Len(msgs') : msgs'[i].to = "identify"
  BY DEF TransferInv
<1>4. TransferInv'
  BY <1>1, <1>2, <1>3 DEF TransferInv
<1>5. Answered' => Answered
  <2>1. CASE UNCHANGED <<msgs, joybus_state, reply>>
    BY <2>1 DEF Answered
  <2>2. CASE joybus_state = "receiving" /\ Asked.to = "identify" /\ Pop(<<>>)
    <3>1. joybus_state' # "receiving"
      BY <2>2 DEF Pop
    <3> QED
      BY <3>1 DEF Answered
  <2>3. CASE JoybusExecAsync(<<Identify>>)
    <3>1. HAVE Answered'
    <3>2. RingOK /\ <<Identify>> \in Seq(Messages)
      BY RingOfTypes, MessagesAre DEF Types
    <3>3. /\ \A i \in 1 .. Len(msgs) : msgs'[i] = msgs[i]
          /\ joybus_state = "receiving" /\ reply' = reply
      BY <2>3, <3>1, <3>2, Queued DEF Answered
    <3>4. 1 \in 1 .. Len(msgs)
      BY <3>3, AskedIs
    <3> QED
      BY <3>1, <3>3, <3>4 DEF Answered
  <2> QED
    BY <2>1, <2>2, <2>3
<1>6. StoredInv'
  BY <1>1, <1>5 DEF StoredInv
<1> QED
  BY <1>4, <1>6

(* Steps after which nobody waits for a transfer.                          *)
LEMMA NobodyWaits ==
  ASSUME TransferInv, ~ Awaiting', acc'.io.call = "none",
         phase' # "user" => call' # "none",
         phase' \in {"waiting", "start"} => done' = "no",
         phase' = "start" => /\ acc'.state = "idle"
                             /\ \A i \in 1 .. Len(msgs') : msgs'[i].to = "identify"
  PROVE  TransferInv' /\ StoredInv'
BY DEF TransferInv, StoredInv

LEMMA SentKeeps ==
  ASSUME Careful = TRUE, Inv, Types', SiSent
  PROVE  TransferInv' /\ StoredInv'
<1>1. /\ UNCHANGED <<msgs, acc, call, phase, done>> /\ Exchange(Asked)
      /\ joybus_state = "sending"
  BY DEF SiSent, libVars, progVars, Asked
<1>2. Types /\ TransferInv /\ StoredInv
  BY DEF Inv
<1>3. Asked = msgs[1] /\ Asked \in Messages /\ 1 \in 1 .. Len(msgs)
  BY <1>1, <1>2, AskedIs
<1>4. TransferInv'
  BY <1>1, <1>2 DEF TransferInv, Awaiting, TransferUnderWay, Alone, Carries, ReadBlock,
                    WriteBlock, Todo
<1>5. ASSUME Awaiting, call \in {"write", "edit"}, ~ acc.ignore
      PROVE  /\ Filled(Accepted', Len(acc.io.todo), Len(Blocks[call]))
             /\ Answered' => Len(acc.io.todo) \in Accepted'
  <2>1. Filled(Accepted, Len(acc.io.todo), Len(Blocks[call]))
    BY <1>2, <1>5 DEF StoredInv
  <2>2. PICK i \in 1 .. Len(msgs) : Alone(i) /\ Carries(msgs[i])
    BY <1>2, <1>5 DEF TransferInv, TransferUnderWay
  <2>3. Asked.to = "write" /\ Asked.op = "write" =>
           \E v \in Values : Asked = WriteBlock(acc, v)
    <3>1. i # 1 => Asked.to = "identify"
      BY <1>3, <2>2 DEF Alone
    <3> QED
      BY <1>3, <2>2, <3>1 DEF Carries, ReadBlock, Msg
  <2>4. \A v \in Values : WriteBlock(acc, v).n = Len(acc.io.todo)
    BY <1>2, <1>5 DEF WriteBlock, Msg, Todo, TransferInv, TransferUnderWay, Bank
  <2>5. /\ acc.io.todo \in Seq(BOOLEAN) /\ acc.io.todo # <<>>
        /\ Blocks[call] \in Seq(BOOLEAN)
    BY <1>2, <1>5, TransfersAre DEF Types, TransferInv, TransferUnderWay, Accessories, Ios
  <2>6. Filled(Accepted \cup {Len(acc.io.todo)}, Len(acc.io.todo), Len(Blocks[call]))
    <3>1. Len(acc.io.todo) \in Nat /\ Len(acc.io.todo) # 0 /\ Len(Blocks[call]) \in Nat
      BY <2>5, Lengths
    <3> QED
      BY <2>1, <3>1, FilledByOne
  <2>7. /\ Accepted' = Accepted \/ (Asked.to = "write" /\ Asked.op = "write" /\ Accepted' = Accepted \cup {Asked.n})
        /\ (Asked.to = "write" /\ Asked.op = "write" /\ reply'.crc = "ok") =>
             Accepted' = Accepted \cup {Asked.n}
    BY <1>1, <1>2, <1>3, ExchangeIs
  <2>8. Accepted' = Accepted \/ Accepted' = Accepted \cup {Len(acc.io.todo)}
    BY <2>3, <2>4, <2>7
  <2>9. Answered' => Accepted' = Accepted \cup {Len(acc.io.todo)}
    BY <1>1, <1>3, <2>3, <2>4, <2>7 DEF Answered
  <2> QED
    BY <2>1, <2>6, <2>8, <2>9
<1>6. StoredInv'
  BY <1>1, <1>5 DEF StoredInv, Awaiting
<1> QED
  BY <1>4, <1>6

(* Where the transfer is awaited and where it is not.                      *)
LEMMA AwaitedTransfer ==
  ASSUME Inv, Awaiting
  PROVE  /\ TransferUnderWay /\ acc.io.call = call /\ call # "none"
         /\ acc.state \in {"READ", "WRITE"}
         /\ joybus_state = "receiving" =>
              \/ Asked.to = "identify"
              \/ Asked.to \in {"read", "write"} /\ Alone(1) /\ Carries(Asked)
<1>1. TransferUnderWay /\ Types
  BY DEF Inv, TransferInv
<1>2. acc.io.call = call /\ call # "none" /\ acc.state \in {"READ", "WRITE"}
  BY <1>1 DEF TransferUnderWay, Carries
<1>3. joybus_state = "receiving" =>
        \/ Asked.to = "identify"
        \/ Asked.to \in {"read", "write"} /\ Alone(1) /\ Carries(Asked)
  BY <1>1, AtTheHead
<1> QED
  BY <1>1, <1>2, <1>3

LEMMA NoTransfer ==
  ASSUME Inv, ~ Awaiting
  PROVE  acc.io.call = "none"
BY DEF Inv, TransferInv

(* A reset tells who waits.                                                *)
LEMMA ResetKeeps ==
  ASSUME Inv, NEW status, AccessoryReset(status), phase # "start",
         UNCHANGED <<call, phase>>
  PROVE  TransferInv' /\ StoredInv'
<1>1. acc'.io.call = "none"
  BY DEF AccessoryReset, Blank, NoIo
<1>2. ~ Awaiting'
  <2>1. CASE Awaiting
    BY <2>1, AwaitedTransfer DEF AccessoryReset, Tell, Awaiting
  <2>2. CASE ~ Awaiting
    BY <2>2, NoTransfer DEF AccessoryReset, Tell, Awaiting
  <2> QED
    BY <2>1, <2>2
<1>3. phase' \in {"waiting", "start"} => done' = "no"
  <2> HAVE phase' \in {"waiting", "start"}
  <2>1. ~ Awaiting /\ done = "no"
    BY DEF Inv, TransferInv, Awaiting
  <2> QED
    BY <2>1, NoTransfer DEF AccessoryReset, Tell
<1> QED
  BY <1>1, <1>2, <1>3, NobodyWaits DEF Inv, TransferInv

LEMMA ReportKeeps ==
  ASSUME Careful = TRUE, Inv, Types', Disconnected \/ NobodyThere \/ Polled
  PROVE  TransferInv' /\ StoredInv'
<1>0. phase # "start" /\ joybus_state = "receiving" /\ Asked.to = "identify"
  BY DEF Disconnected, NobodyThere, Polled, Received, Undisturbed, Asked
<1>1. CASE Disconnected
  BY <1>0, <1>1, ResetKeeps DEF Disconnected
<1>2. CASE NobodyThere
  <2>1. Pop(<<>>) /\ UNCHANGED <<acc, call, phase, done, Accepted>>
    BY <1>2 DEF NobodyThere, progVars, history, Accepted
  <2> QED
    BY <1>0, <2>1, TransferUntouched DEF Inv
<1>3. CASE Polled
  <2>1. UNCHANGED <<call, phase, Accepted>>
    BY <1>3 DEF Polled, Accepted
  <2>2. CASE New /\ DetectAsync /\ UNCHANGED <<wait_timer, done>>
    <3>0. acc \in Accessories /\ acc'.io = acc.io /\ acc'.ignore = acc.ignore
      BY <2>2 DEF DetectAsync, Inv, Types, Accessories
    <3>1. CASE acc.state = "idle"
      <4>1. ~ Awaiting
        BY <3>1, AwaitedTransfer
      <4> QED
        BY <1>0, <2>1, <2>2, <3>0, <4>1, NoTransfer, NobodyWaits DEF Inv, TransferInv, Awaiting
    <3>2. CASE acc.state # "idle"
      <4>1. Pop(<<>>) /\ acc'.state = acc.state
        BY <2>2, <3>0, <3>2 DEF DetectAsync, Accessories
      <4> QED
        BY <1>0, <2>1, <2>2, <3>0, <4>1, TransferUntouched DEF Inv
    <3> QED
      BY <3>1, <3>2
  <2>3. CASE Gone /\ AccessoryReset(reply.data) /\ unsure' = FALSE /\ Pop(<<>>)
    BY <1>0, <2>1, <2>3, ResetKeeps
  <2>4. CASE /\ ~New /\ ~Gone /\ acc' = [acc EXCEPT !.status = reply.data]
             /\ Pop(<<>>) /\ UNCHANGED <<wait_timer, done, unsure>>
    <3>1. acc'.io = acc.io /\ acc'.ignore = acc.ignore /\ acc'.state = acc.state
      BY <2>4 DEF Inv, Types, Accessories
    <3> QED
      BY <1>0, <2>1, <2>4, <3>1, TransferUntouched DEF Inv
  <2> QED
    BY <1>3, <2>2, <2>3, <2>4 DEF Polled
<1> QED
  BY <1>1, <1>2, <1>3

(* A chain that ends, whether or not it is the transfer.                   *)
LEMMA EndKeeps ==
  ASSUME Inv, joybus_state = "receiving", phase # "start",
         Asked.to \in {"detect", "read", "write", "rumble"},
         NEW a \in Accessories, a.io = acc.io, NEW outcome \in {"none", "absent", "checksum"},
         Ends(a, outcome), UNCHANGED <<call, phase>>
  PROVE  TransferInv' /\ StoredInv'
<1>0. Types
  BY DEF Inv
<1>1. CASE Awaiting
  <2>1. Asked.to \in {"read", "write"} /\ acc.io.call # "none"
    BY <1>1, AwaitedTransfer
  <2>2. acc'.io.call = "none" /\ done' = outcome
    BY <1>0, <2>1, EndsIs, NoIoIs
  <2>3. ~ Awaiting' /\ phase' = "pending" /\ call' # "none"
    BY <1>1, <2>2, AwaitedTransfer DEF Awaiting
  <2> QED
    BY <2>2, <2>3, NobodyWaits DEF Inv
<1>2. CASE ~ Awaiting
  <2>1. acc'.io.call = "none" /\ done' = done
    BY <1>0, <1>2, NoTransfer, EndsIs, NoIoIs
  <2> QED
    BY <1>2, <2>1, NobodyWaits DEF Inv, TransferInv, Awaiting
<1> QED
  BY <1>1, <1>2

LEMMA ErrorKeeps ==
  ASSUME Careful = TRUE, Inv, Types', Dropped \/ PakGone \/ Retry \/ GiveUp
  PROVE  TransferInv' /\ StoredInv'
<1>0. phase # "start" /\ joybus_state = "receiving" /\ acc \in Accessories
  BY DEF Dropped, PakGone, Retry, GiveUp, Received, Undisturbed, Inv, Types
<1>1. CASE Dropped
  <2>1. ~ Awaiting
    BY <1>0, <1>1, AwaitedTransfer DEF Dropped, Stale
  <2> QED
    BY <1>0, <1>1, <2>1, NoTransfer, NobodyWaits
    DEF Dropped, libVars, progVars, Inv, TransferInv, Awaiting
<1>2. CASE PakGone
  <2> DEFINE a == [acc EXCEPT !.state = "idle", !.type = "none", !.status = "absent"]
  <2>1. a \in Accessories /\ a.io = acc.io
    BY <1>0 DEF Accessories, States
  <2>2. Ends(a, "absent") /\ Asked.to \in {"detect", "read", "write", "rumble"}
        /\ UNCHANGED <<call, phase>>
    BY <1>2 DEF PakGone, Received, Asked
  <2> QED
    BY <1>0, <2>1, <2>2, EndKeeps
<1>3. CASE GiveUp
  <2> DEFINE a == [acc EXCEPT !.state = "idle"]
  <2>1. a \in Accessories /\ a.io = acc.io
    BY <1>0 DEF Accessories, States
  <2>2. Ends(a, "checksum") /\ Asked.to \in {"detect", "read", "write", "rumble"}
        /\ UNCHANGED <<call, phase>>
    BY <1>3 DEF GiveUp, Received, Asked
  <2> QED
    BY <1>0, <2>1, <2>2, EndKeeps
<1>4. CASE Retry
  <2>1. /\ acc'.state = acc.state /\ acc'.io = acc.io /\ acc'.ignore = acc.ignore
        /\ Pop(<<Asked>>) /\ UNCHANGED <<call, phase, done, Accepted>>
        /\ Asked.to # "identify"
    BY <1>0, <1>4 DEF Retry, Accessories, progVars, history, Accepted, Received, Asked
  <2>2. CASE Awaiting
    <3>1. Alone(1) /\ Carries(Asked) /\ TransferUnderWay
      BY <1>0, <2>1, <2>2, AwaitedTransfer
    <3>2. PICK m \in Messages : m = Asked
      BY <1>0, AskedIs DEF Inv
    <3>3. Carries(m)'
      BY <2>1, <3>1, <3>2, CarriesTheSame
    <3>4. \E i \in 1 .. Len(msgs') : Alone(i)' /\ Carries(msgs[i])'
      BY <1>0, <2>1, <3>1, <3>2, <3>3, CarriedOn DEF Inv
    <3>5. TransferUnderWay'
      BY <2>1, <3>1, <3>4 DEF TransferUnderWay
    <3>6. TransferInv'
      BY <1>0, <2>1, <2>2, <3>5 DEF Inv, TransferInv, Awaiting
    <3>7. ~ Answered'
      BY <2>1 DEF Answered, Pop
    <3>8. StoredInv'
      BY <2>1, <2>2, <3>7 DEF Inv, StoredInv, Awaiting
    <3> QED
      BY <3>6, <3>8
  <2>3. CASE ~ Awaiting
    BY <1>0, <2>1, <2>3, NoTransfer, NobodyWaits DEF Inv, TransferInv, Awaiting
  <2> QED
    BY <2>2, <2>3
<1> QED
  BY <1>1, <1>2, <1>3, <1>4

LEMMA DetectKeeps ==
  ASSUME Careful = TRUE, Inv, Types', DetectStateMachine \/ DetectLost \/ RumbleCallback
  PROVE  TransferInv' /\ StoredInv'
<1>0. /\ phase # "start" /\ joybus_state = "receiving" /\ Types /\ acc \in Accessories
      /\ Asked.to \in {"detect", "rumble"} /\ UNCHANGED <<call, phase, done>>
  BY DEF DetectStateMachine, DetectLost, RumbleCallback, Received, Undisturbed, Inv, Types,
         Asked, progVars
<1>1. ~ Awaiting
  BY <1>0, AwaitedTransfer
<1>2. acc'.io = acc.io
  <2>1. CASE DetectStateMachine
    <3> DEFINE b == [acc EXCEPT !.ignore = Ignores, !.error = "none"]
    <3>1. Ignores \in BOOLEAN
      BY <1>0 DEF Ignores, Accessories
    <3>2. /\ b \in Accessories /\ b.state = acc.state /\ acc.state \in Detecting
          /\ b.io = acc.io
      BY <1>0, <2>1, <3>1 DEF DetectStateMachine, Accessories
    <3>3. reply.data \in Data /\ acc' = Entered(b, reply.data)
      BY <1>0, <2>1 DEF DetectStateMachine, Types, Replies
    <3> HIDE DEF b
    <3> QED
      BY <1>0, <3>2, <3>3, EnteredIs
  <2>2. CASE DetectLost
    BY <1>0, <2>2 DEF DetectLost, Accessories
  <2>3. CASE RumbleCallback
    BY <1>0, <2>3 DEF RumbleCallback, Accessories
  <2> QED
    BY <2>1, <2>2, <2>3
<1> QED
  BY <1>0, <1>1, <1>2, NoTransfer, NobodyWaits DEF Inv, TransferInv, Awaiting

LEMMA TimerKeeps ==
  ASSUME Careful = TRUE, Inv, Types', WaitTimer \/ IdentifyTimer
  PROVE  TransferInv' /\ StoredInv'
<1>0. /\ phase # "start" /\ Types /\ acc \in Accessories
      /\ UNCHANGED <<call, phase, done, Accepted>>
  BY DEF WaitTimer, IdentifyTimer, Undisturbed, Inv, Types, progVars, history, Accepted
<1>1. CASE WaitTimer
  <2>1. CASE acc.state \in Detecting
    <3>1. ~ Awaiting
      BY <2>1, AwaitedTransfer, DetectingStates
    <3>2. acc' = Entered(acc, "nothing") /\ "nothing" \in Data
      BY <1>1, <2>1 DEF WaitTimer, Data
    <3>3. acc'.io = acc.io
      BY <1>0, <2>1, <3>2, EnteredIs
    <3> QED
      BY <1>0, <3>1, <3>3, NoTransfer, NobodyWaits DEF Inv, TransferInv, Awaiting
  <2>2. CASE acc.state \notin Detecting
    <3>1. UNCHANGED <<acc, busVars>>
      BY <1>1, <2>2 DEF WaitTimer
    <3> QED
      BY <1>0, <3>1, TransferUntouched DEF Inv, busVars
  <2> QED
    BY <2>1, <2>2
<1>2. CASE IdentifyTimer
  <2>1. JoybusExecAsync(<<Identify>>) /\ UNCHANGED acc
    BY <1>2 DEF IdentifyTimer
  <2> QED
    BY <1>0, <2>1, TransferUntouched DEF Inv
<1> QED
  BY <1>1, <1>2

LEMMA UserKeeps ==
  ASSUME Inv, Types', User
  PROVE  TransferInv' /\ StoredInv'
<1>1. UNCHANGED <<msgs, joybus_state, reply, acc, call, phase, done, Accepted>>
  BY DEF User, PullPak, PlugPak, PullController, PlugController, busVars, libVars,
         progVars, history, Accepted
<1> QED
  BY <1>1, TransferUntouched DEF Inv

(* The block that a good reply answers to.                                 *)
LEMMA BlockAnswered ==
  ASSUME Inv, Awaiting, joybus_state = "receiving", Good, Asked.to \in {"read", "write"}
  PROVE  /\ Alone(1) /\ Carries(Asked) /\ Types /\ acc.io.todo # <<>>
         /\ acc.io.todo \in Seq(BOOLEAN) /\ Blocks[call] \in Seq(BOOLEAN)
         /\ (call \in {"write", "edit"} /\ ~ acc.ignore) =>
              /\ Filled(Accepted, Len(acc.io.todo), Len(Blocks[call]))
              /\ acc.state = "WRITE" => Len(acc.io.todo) \in Accepted
<1>1. Types /\ StoredInv /\ TransferUnderWay /\ Alone(1) /\ Carries(Asked)
  BY AwaitedTransfer DEF Inv
<1>2. acc.io.todo # <<>> /\ acc.io.todo \in Seq(BOOLEAN) /\ Blocks[call] \in Seq(BOOLEAN)
  BY <1>1, TransfersAre DEF Types, TransferUnderWay, Accessories, Ios
<1>3. ASSUME call \in {"write", "edit"}, ~ acc.ignore
      PROVE  /\ Filled(Accepted, Len(acc.io.todo), Len(Blocks[call]))
             /\ acc.state = "WRITE" => Len(acc.io.todo) \in Accepted
  <2>1. Filled(Accepted, Len(acc.io.todo), Len(Blocks[call])) /\ (Answered => Len(acc.io.todo) \in Accepted)
    BY <1>1, <1>3 DEF StoredInv
  <2>2. ASSUME acc.state = "WRITE" PROVE Answered
    <3>1. (\E v \in Values : Asked = WriteBlock(acc, v)) /\ Asked = msgs[1]
      BY <1>1, <2>2, AskedIs DEF Carries
    <3>2. Asked.to = "write" /\ Asked.op = "write"
      BY <3>1 DEF WriteBlock, Msg
    <3>3. reply.crc = "ok"
      BY <1>3, <3>2 DEF Good, Ignores
    <3> QED
      BY <3>1, <3>2, <3>3 DEF Answered
  <2> QED
    BY <2>1, <2>2
<1> QED
  BY <1>1, <1>2, <1>3

(* The next block of the transfer, or the second half of this one.         *)
LEMMA NextKeeps ==
  ASSUME Inv, Awaiting, joybus_state = "receiving", Good, Asked.to \in {"read", "write"},
         UNCHANGED <<call, phase, done, Accepted>>, acc'.ignore = acc.ignore,
         acc'.io.call = acc.io.call,
         \/ acc.state = "READ" /\ acc'.io = acc.io
         \/ /\ Rest # <<>> /\ acc'.io.todo = Rest
            /\ acc.state = "WRITE" \/ call = "read",
         NEW m \in Messages, Pop(<<m>>), Carries(m)'
  PROVE  TransferInv' /\ StoredInv'
<1>0. /\ Alone(1) /\ Carries(Asked) /\ Types /\ acc.io.todo # <<>>
      /\ acc.io.todo \in Seq(BOOLEAN) /\ Blocks[call] \in Seq(BOOLEAN)
  BY BlockAnswered
<1>1. TransferUnderWay'
  <2>1. \E i \in 1 .. Len(msgs') : Alone(i)' /\ Carries(msgs[i])'
    BY <1>0, CarriedOn
  <2>2. acc'.io.todo # <<>>
    BY <1>0
  <2> QED
    BY <2>1, <2>2, AwaitedTransfer DEF TransferUnderWay
<1>2. TransferInv'
  BY <1>1 DEF Inv, TransferInv, Awaiting
<1>3. ~ Answered'
  BY DEF Answered, Pop
<1>4. ASSUME call \in {"write", "edit"}, ~ acc.ignore
      PROVE  Filled(Accepted, Len(acc'.io.todo), Len(Blocks[call]))
  <2>1. /\ Filled(Accepted, Len(acc.io.todo), Len(Blocks[call]))
        /\ acc.state = "WRITE" => Len(acc.io.todo) \in Accepted
    BY <1>4, BlockAnswered
  <2>2. CASE acc'.io = acc.io
    BY <2>1, <2>2
  <2>3. CASE acc'.io # acc.io
    <3>1. Rest # <<>> /\ acc'.io.todo = Rest /\ Len(acc.io.todo) \in Accepted
      BY <1>4, <2>1, <2>3
    <3>2. Rest \in Seq(BOOLEAN) /\ Len(Rest) = Len(acc.io.todo) - 1
      BY <1>0, RestIs
    <3>3. /\ Len(acc.io.todo) \in Nat /\ Len(acc.io.todo) # 0 /\ Len(Blocks[call]) \in Nat
          /\ Len(Rest) \in Nat /\ Len(Rest) # 0
      BY <1>0, <3>1, <3>2, Lengths
    <3>4. Len(acc.io.todo) # 1
      BY ONLY <3>2, <3>3
    <3>5. Filled(Accepted, Len(acc.io.todo) - 1, Len(Blocks[call]))
      BY <2>1, <3>1, <3>3, <3>4, FilledByOne
    <3> QED
      BY <3>1, <3>2, <3>5
  <2> QED
    BY <2>2, <2>3
<1>5. StoredInv'
  BY <1>3, <1>4 DEF StoredInv, Awaiting
<1> QED
  BY <1>2, <1>5

LEMMA CallbackKeeps ==
  ASSUME Careful = TRUE, Inv, Types', ReadCallback \/ WriteMerged \/ WriteCallback
  PROVE  TransferInv' /\ StoredInv'
<1>0. /\ phase # "start" /\ joybus_state = "receiving" /\ Types /\ acc \in Accessories
      /\ Asked.to \in {"read", "write"} /\ Good /\ UNCHANGED <<call, phase, Accepted>>
      /\ ReadCallback => Asked.to = "read"
      /\ WriteMerged \/ WriteCallback => Asked.to = "write"
  BY DEF ReadCallback, WriteMerged, WriteCallback, Received, Undisturbed, Inv, Types,
         Asked, progVars, history, Accepted
<1> DEFINE a == [acc EXCEPT !.io.todo = Rest, !.error = "pending", !.retries = 0]
           r == [a EXCEPT !.state = "READ"]
<1>1. /\ a \in Accessories /\ a.io.todo = Rest /\ a.io.call = acc.io.call
      /\ a.state = acc.state /\ a.ignore = acc.ignore
      /\ r \in Accessories /\ r.io = a.io /\ r.state = "READ" /\ r.ignore = acc.ignore
  BY <1>0, BlockDone
<1>2. ASSUME Completed PROVE TransferInv' /\ StoredInv'
  <2> DEFINE e == [acc EXCEPT !.state = "idle"]
  <2>1. e \in Accessories /\ e.io = acc.io
    BY <1>0 DEF Accessories, States
  <2>2. Ends(e, "none")
    BY <1>2 DEF Completed
  <2> HIDE DEF e
  <2> QED
    BY <1>0, <2>1, <2>2, EndKeeps
<1>3. ASSUME ~ Awaiting, acc'.io.call = acc.io.call, done' = done
      PROVE  TransferInv' /\ StoredInv'
  <2>1. phase' = phase /\ call' = call /\ acc'.io.call = "none" /\ ~ Awaiting'
    BY <1>0, <1>3, NoTransfer DEF Awaiting
  <2> QED
    BY <1>0, <1>3, <2>1, NobodyWaits DEF Inv, TransferInv
<1>4. /\ ReadBlock("read", a) \in Messages /\ ReadBlock("write", a) \in Messages
      /\ \A v \in Values : WriteBlock(a, v) \in Messages /\ WriteBlock(acc, v) \in Messages
      /\ ReadBlock("write", a) = ReadBlock("write", r)
  BY <1>0, <1>1, MessagesAre DEF ReadBlock, Todo
<1>5. Awaiting => /\ Carries(Asked) /\ acc.state \in {"READ", "WRITE"}
                  /\ Asked.to = "read" => call = "read" /\ acc.state = "READ"
                  /\ Asked.to = "write" => call # "read"
  BY <1>0, BlockAnswered, AwaitedTransfer DEF Carries, ReadBlock, WriteBlock, Msg
<1> HIDE DEF a, r
<1>6. CASE ReadCallback
  <2>1. \/ Completed
        \/ Rest # <<>> /\ acc' = a /\ Pop(<<ReadBlock("read", a)>>) /\ done' = done
    BY <1>6 DEF ReadCallback, a
  <2>2. CASE Completed
    BY <1>2, <2>2
  <2>3. CASE Rest # <<>> /\ acc' = a /\ Pop(<<ReadBlock("read", a)>>) /\ done' = done
    <3>1. CASE Awaiting
      <4>1. call = "read" /\ acc.state = "READ"
        BY <1>0, <1>5, <1>6, <3>1
      <4>2. PICK m \in Messages : m = ReadBlock("read", a)
        BY <1>4
      <4>3. Carries(m)'
        BY <1>0, <1>1, <2>3, <4>1, <4>2 DEF Carries
      <4> QED
        BY <1>0, <1>1, <2>3, <3>1, <4>1, <4>2, <4>3, NextKeeps
    <3>2. CASE ~ Awaiting
      BY <1>1, <1>3, <2>3, <3>2
    <3> QED
      BY <3>1, <3>2
  <2> QED
    BY <2>1, <2>2, <2>3
<1>7. CASE WriteMerged
  <2>1. /\ acc.state = "READ" /\ done' = done
        /\ \E v \in Values : Pop(<<WriteBlock(acc, v)>>)
        /\ acc'.state = "WRITE" /\ acc'.io = acc.io /\ acc'.ignore = acc.ignore
    BY <1>0, <1>7 DEF WriteMerged, progVars, Accessories
  <2>2. CASE Awaiting
    <3>1. call # "read"
      BY <1>0, <1>5, <1>7, <2>2
    <3>2. PICK v \in Values, m \in Messages : m = WriteBlock(acc, v) /\ Pop(<<m>>)
      BY <1>4, <2>1
    <3>3. Carries(m)'
      BY <1>0, <2>1, <3>1, <3>2 DEF Carries, WriteBlock, Todo
    <3> QED
      BY <1>0, <2>1, <2>2, <3>2, <3>3, NextKeeps
  <2>3. CASE ~ Awaiting
    BY <1>3, <2>1, <2>3
  <2> QED
    BY <2>2, <2>3
<1>8. CASE WriteCallback
  <2>1. \/ Completed
        \/ Rest # <<>> /\ acc' = r /\ Pop(<<ReadBlock("write", a)>>) /\ done' = done
        \/ /\ Rest # <<>> /\ acc' = a /\ done' = done
           /\ \E v \in Values : Pop(<<WriteBlock(a, v)>>)
    BY <1>8 DEF WriteCallback, a, r
  <2>2. CASE Completed
    BY <1>2, <2>2
  <2>3. CASE /\ Rest # <<>> /\ done' = done
             /\ \/ acc' = r /\ Pop(<<ReadBlock("write", a)>>)
                \/ acc' = a /\ \E v \in Values : Pop(<<WriteBlock(a, v)>>)
    <3>1. CASE Awaiting
      <4>1. call # "read" /\ acc.state = "WRITE"
        BY <1>0, <1>5, <1>8, <3>1 DEF WriteCallback
      <4>2. PICK m \in Messages : /\ Pop(<<m>>)
                                  /\ \/ acc' = r /\ m = ReadBlock("write", r)
                                     \/ acc' = a /\ \E v \in Values : m = WriteBlock(a, v)
        BY <1>4, <2>3
      <4>3. Carries(m)'
        BY <1>0, <1>1, <4>1, <4>2 DEF Carries
      <4> QED
        BY <1>0, <1>1, <2>3, <3>1, <4>1, <4>2, <4>3, NextKeeps
    <3>2. CASE ~ Awaiting
      BY <1>1, <1>3, <2>3, <3>2
    <3> QED
      BY <3>1, <3>2
  <2> QED
    BY <2>1, <2>2, <2>3
<1> QED
  BY <1>6, <1>7, <1>8

LEMMA ProgramKeeps ==
  ASSUME Careful = TRUE, Inv, Types', Program
  PROVE  TransferInv' /\ StoredInv'
<1>0. Types /\ TransferInv /\ acc \in Accessories
  BY DEF Inv, Types
<1>1. ASSUME NEW c \in Calls, XferCall(c) \/ SetBank(c)
      PROVE  TransferInv' /\ StoredInv'
  <2>1. c # "none" /\ ~ Awaiting
    BY <1>1, TransfersAre DEF XferCall, SetBank, Awaiting
  <2>2. acc'.io = acc.io
    BY <1>0, <1>1 DEF XferCall, SetBank, libVars, Accessories
  <2> QED
    BY <1>1, <2>1, <2>2, NoTransfer, NobodyWaits DEF XferCall, SetBank, Awaiting, Inv
<1>2. CASE XferTest
  <2>1. /\ ~ Awaiting /\ ~ Awaiting' /\ phase' = "start" /\ UNCHANGED <<acc, msgs, call, done>>
        /\ acc.state = "idle" /\ phase = "waiting"
    BY <1>2 DEF XferTest, Awaiting, libVars, busVars
  <2>2. \A i \in 1 .. Len(msgs) : msgs[i].to = "identify"
    <3>1. DOMAIN msgs = 1 .. Len(msgs)
      BY <1>0 DEF Types
    <3> QED
      BY <1>2, <3>1 DEF XferTest, Patient
  <2> QED
    BY <1>0, <2>1, <2>2, NoTransfer, NobodyWaits DEF TransferInv, Inv
<1>3. CASE XferStart
  <2> DEFINE reads == call = "read" \/ Blocks[call][1]
             st == IF reads THEN "READ" ELSE "WRITE"
             io == [call |-> call, todo |-> Blocks[call]]
             a == [acc EXCEPT !.io = io, !.error = "pending", !.retries = 0, !.state = st]
             to == IF call = "read" THEN "read" ELSE "write"
             N(v) == IF reads THEN ReadBlock(to, a) ELSE WriteBlock(a, v)
  <2>0. "block" \in Values
    BY DEF Values
  <2>1. /\ acc' = a /\ phase' = "pending"
        /\ Accepted' = {} /\ UNCHANGED <<call, done>>
    BY <1>3 DEF XferStart, Accepted
  <2>01. PICK v \in Values : JoybusExecAsync(<<N(v)>>)
    BY <1>3, <2>0 DEF XferStart
  <2>2. /\ call # "none" /\ call \in Transfers /\ done = "no" /\ ~ Awaiting
        /\ \A i \in 1 .. Len(msgs) : msgs[i].to = "identify"
    BY <1>0, <1>3 DEF XferStart, TransferInv, Types, Awaiting
  <2>3. st \in {"READ", "WRITE"} /\ (st = "WRITE" => call # "read") /\ (reads <=> st = "READ")
    OBVIOUS
  <2>4. io \in Ios /\ io.call = call /\ io.todo = Blocks[call]
        /\ Len(Blocks[call]) \in Nat /\ Blocks[call] # <<>>
    <3>1. Blocks[call] \in Seq(BOOLEAN) /\ Len(Blocks[call]) \in {1, 2}
      BY <2>2, TransfersAre
    <3>2. Len(Blocks[call]) \in Nat /\ Len(Blocks[call]) # 0
      BY <3>1, \A l \in {1, 2} : l \in Nat /\ l # 0, Zenon
    <3>3. Len(<<>>) = 0
      OBVIOUS
    <3> QED
      BY <2>2, <3>1, <3>2, <3>3 DEF Ios
  <2> HIDE DEF io, st
  <2>5. a \in Accessories /\ a.io = io /\ a.state = st
    BY <1>0, <2>3, <2>4 DEF Accessories, States
  <2> HIDE DEF a
  <2>6. PICK m \in Messages : m = N(v)
    BY <2>5, MessagesAre
  <2>7. Carries(m)'
    BY <2>1, <2>3, <2>5, <2>6 DEF Carries
  <2> HIDE DEF N, reads
  <2>8. /\ Len(msgs') = Len(msgs) + Len(<<m>>)
        /\ \A i \in 1 .. Len(msgs) : msgs'[i] = msgs[i]
        /\ \A i \in 1 .. Len(<<m>>) : msgs'[Len(msgs) + i] = <<m>>[i]
        /\ joybus_state' = "receiving" <=> joybus_state = "receiving"
    <3>1. RingOK /\ <<m>> \in Seq(Messages) /\ JoybusExecAsync(<<m>>)
      BY <1>0, <2>01, <2>6, RingOfTypes
    <3> QED
      BY <3>1, Queued
  <2>9. Len(msgs) \in Nat /\ Len(<<m>>) = 1 /\ <<m>>[1] = m /\ 1 \in 1 .. Len(<<m>>)
    BY <1>0 DEF Types
  <2>10. PICK k \in Nat : k = Len(msgs) + 1
    BY <2>9
  <2>11. /\ Len(msgs') = k /\ msgs'[k] = m /\ k \in 1 .. k
         /\ \A j \in 1 .. k : j # k => j \in 1 .. Len(msgs)
    BY <2>8, <2>9, <2>10
  <2>12. \A j \in 1 .. Len(msgs') : j # k => msgs'[j].to = "identify"
    BY <2>2, <2>8, <2>11
  <2>13. Alone(k)' /\ Carries(msgs[k])' /\ k \in 1 .. Len(msgs')
    BY <2>7, <2>11, <2>12 DEF Alone, Carries
  <2>14. TransferUnderWay'
    BY <2>1, <2>2, <2>4, <2>5, <2>13 DEF TransferUnderWay
  <2>15. TransferInv'
    BY <2>1, <2>2, <2>14 DEF TransferInv, Awaiting
  <2>16. ~ Answered'
    <3> SUFFICES ASSUME Answered' PROVE FALSE
      OBVIOUS
    <3>1. joybus_state = "receiving"
      BY <2>8 DEF Answered
    <3>2. msgs'[1].to = "identify"
      BY <1>0, <2>2, <2>8, <3>1, AskedIs
    <3> QED
      BY <3>2 DEF Answered
  <2>17. Filled({}, Len(Blocks[call]), Len(Blocks[call]))
    BY <2>4, FilledAtFirst
  <2>18. StoredInv'
    BY <2>1, <2>4, <2>5, <2>16, <2>17 DEF StoredInv
  <2> QED
    BY <2>15, <2>18
<1>4. CASE XferReturn
  BY <1>0, <1>4, NoTransfer, NobodyWaits DEF XferReturn, Awaiting, libVars, Inv
<1>5. CASE SetRumbleActive
  <2>1. /\ phase # "start" /\ acc.state \in {"idle", "RUMBLE"}
        /\ UNCHANGED <<call, phase, done>> /\ acc'.io = acc.io
    BY <1>0, <1>5 DEF SetRumbleActive, Polite, progVars, Accessories
  <2>2. ~ Awaiting /\ ~ Awaiting'
    BY <2>1, AwaitedTransfer DEF Awaiting
  <2> QED
    BY <1>0, <2>1, <2>2, NoTransfer, NobodyWaits DEF TransferInv, Inv
<1> QED
  BY <1>1, <1>2, <1>3, <1>4, <1>5 DEF Program


-----------------------------------------------------------------------------
(* The theorems.                                                           *)

LEMMA InvInit == Init => Inv
<1> SUFFICES ASSUME Init PROVE Inv
  OBVIOUS
<1>1. Blank \in Accessories /\ Blank.io.call = "none"
  BY BlankIs DEF Blank, NoIo
<1>2. pak \in PaksToBe
  <2>1. NoPak \in PaksToBe
    BY DEF NoPak, PaksToBe, Data
  <2>2. \A k \in Paks : Fresh(k) \in PaksToBe
    BY FreshIs, AccessoryAssumption
  <2> QED
    BY <2>1, <2>2 DEF Init
<1>3. reply \in Replies /\ changed \in BOOLEAN
  BY DEF Init, NoReply, Replies, Data
<1>4. Types
  <2>1. msgs \in Seq(Messages) /\ joybus_state = "idle"
    BY DEF Init
  <2>2. /\ reply \in Replies /\ acc \in Accessories /\ pak \in PaksToBe /\ call = "none"
        /\ phase = "user" /\ done = "no" /\ changed \in BOOLEAN
    BY <1>1, <1>2, <1>3 DEF Init
  <2>3. /\ pending \in BOOLEAN /\ known \in BOOLEAN /\ rumble_method \in BOOLEAN
        /\ wait_timer \in BOOLEAN /\ ctrl \in BOOLEAN
        /\ unsure \in BOOLEAN /\ spoiled \in BOOLEAN
    BY DEF Init
  <2> QED
    BY <2>1, <2>2, <2>3 DEF Types
<1>5. ~ Awaiting
  BY DEF Init, Awaiting
<1>6. TransferInv
  BY <1>1, <1>5 DEF Init, TransferInv
<1>7. StoredInv
  BY <1>5 DEF StoredInv
<1> QED
  BY <1>4, <1>6, <1>7 DEF Inv

LEMMA InvNext ==
  ASSUME Careful = TRUE, Inv, [Next]_vars
  PROVE  Inv'
<1>1. CASE Interrupts
  <2>1. Types'
    BY <1>1, ReportTypes, ErrorTypes, DetectTypes, CallbackTypes DEF Interrupts, Inv
  <2> QED
    BY <1>1, <2>1, SentKeeps, ReportKeeps, ErrorKeeps, DetectKeeps, CallbackKeeps
    DEF Interrupts, Inv
<1>2. CASE WaitTimer \/ IdentifyTimer
  BY <1>2, TimerTypes, TimerKeeps DEF Inv
<1>3. CASE Program
  BY <1>3, ProgramTypes, ProgramKeeps DEF Inv, TransferInv
<1>4. CASE User
  BY <1>4, UserTypes, UserKeeps DEF Inv
<1>5. CASE UNCHANGED vars
  <2>1. Types'
    BY <1>5 DEF vars, busVars, libVars, world, progVars, history, Accepted, Inv, Types
  <2>2. UNCHANGED <<msgs, joybus_state, reply, acc, call, phase, done, Accepted>>
    BY <1>5 DEF vars, busVars, libVars, progVars, history, Accepted
  <2> QED
    BY <2>1, <2>2, TransferUntouched DEF Inv
<1> QED
  BY <1>1, <1>2, <1>3, <1>4, <1>5 DEF Next

LEMMA InvIsAwaited == Inv => AwaitedIsUnderWay
<1> SUFFICES ASSUME Inv, phase = "pending", done = "no"
             PROVE  /\ acc.io.call = call
                    /\ \E i \in DOMAIN msgs : msgs[i].to \in {"read", "write"}
  BY DEF AwaitedIsUnderWay
<1>1. TransferUnderWay
  BY DEF Inv, TransferInv, Awaiting
<1>2. PICK i \in 1 .. Len(msgs) : Carries(msgs[i])
  BY <1>1 DEF TransferUnderWay
<1>3. DOMAIN msgs = 1 .. Len(msgs)
  BY DEF Inv, Types
<1>4. msgs[i].to \in {"read", "write"}
  BY <1>2, BlockMessages
<1> QED
  BY <1>1, <1>3, <1>4 DEF TransferUnderWay

(* Only the last block of a transfer ends it without an error.             *)
LEMMA OnlyTheLastBlockEnds ==
  ASSUME Inv, Next, done = "no", done' = "none"
  PROVE  /\ ReadCallback \/ WriteCallback
         /\ Rest = <<>> /\ acc.io.call # "none"
<1>1. CASE ReadCallback \/ WriteCallback
  <2>1. Rest = <<>> /\ Completed
    BY <1>1 DEF ReadCallback, WriteCallback
  <2>2. acc.io.call # "none"
    BY <2>1 DEF Completed, Ends, Tell
  <2> QED
    BY <1>1, <2>1, <2>2
<1>2. CASE SiSent \/ NobodyThere \/ Dropped \/ Retry \/ DetectStateMachine \/ DetectLost
           \/ WriteMerged \/ RumbleCallback \/ WaitTimer \/ IdentifyTimer \/ User
  BY <1>2 DEF SiSent, NobodyThere, Dropped, Retry, DetectStateMachine, DetectLost,
              WriteMerged, RumbleCallback, WaitTimer, IdentifyTimer, User, PullPak,
              PlugPak, PullController, PlugController, progVars
<1>3. CASE Disconnected \/ Polled
  BY <1>3 DEF Disconnected, Polled, AccessoryReset, Tell
<1>4. CASE PakGone \/ GiveUp
  BY <1>4 DEF PakGone, GiveUp, Ends, Tell
<1>5. CASE Program
  BY <1>5 DEF Program, XferCall, SetBank, XferTest, XferStart, XferReturn,
              SetRumbleActive, progVars
<1> QED
  BY <1>1, <1>2, <1>3, <1>4, <1>5 DEF Next, Interrupts

LEMMA WrittenStep ==
  ASSUME Inv, Next, done = "no", done' = "none", call \in {"write", "edit"}, ~ acc.ignore
  PROVE  stored \cup unheard = 1 .. Len(Blocks[call])
<1>1. /\ ReadCallback \/ WriteCallback
      /\ Rest = <<>> /\ acc.io.call # "none"
  BY OnlyTheLastBlockEnds
<1>2. Awaiting
  BY <1>1, NoTransfer
<1>3. /\ joybus_state = "receiving" /\ Good /\ Asked.to \in {"read", "write"}
      /\ ReadCallback => Asked.to = "read"
      /\ WriteCallback => acc.state # "READ"
  BY <1>1 DEF ReadCallback, WriteCallback, Received, Asked
<1>4. /\ Carries(Asked) /\ Types /\ acc.io.todo # <<>>
      /\ acc.io.todo \in Seq(BOOLEAN) /\ Blocks[call] \in Seq(BOOLEAN)
      /\ Filled(Accepted, Len(acc.io.todo), Len(Blocks[call]))
      /\ acc.state = "WRITE" => Len(acc.io.todo) \in Accepted
  BY <1>2, <1>3, BlockAnswered
<1>5. ~ ReadCallback
  <2>1. Asked.to = "write"
    BY <1>4 DEF Carries, ReadBlock, WriteBlock, Msg
  <2> QED
    BY <1>3, <2>1
<1>6. acc.state = "WRITE"
  BY <1>1, <1>3, <1>4, <1>5 DEF Carries
<1>7. Len(acc.io.todo) \in Nat /\ Len(acc.io.todo) # 0 /\ Len(Blocks[call]) \in Nat
  BY <1>4, Lengths
<1>8. Len(Rest) = Len(acc.io.todo) - 1 /\ Len(Rest) = 0
  BY <1>1, <1>4, RestIs
<1>9. Len(acc.io.todo) = 1
  BY ONLY <1>7, <1>8
<1>10. Len(acc.io.todo) \in Accepted
  BY <1>4, <1>6
<1>11. Accepted = 1 .. Len(Blocks[call])
  BY <1>4, <1>7, <1>9, <1>10, FilledByOne
<1> QED
  BY <1>11 DEF Accepted

(* A program that keeps to the rules of Undisturbed, Patient and Polite:   *)
(* at any time, while it waits for a transfer, exactly one message of the  *)
(* ring carries that transfer on and all the others only ask for reports,  *)
(* and the blocks behind it have been stored, or were of CRC 0 and sent to *)
(* a controller that had just been pulled.                                 *)
THEOREM TransferInvHolds ==
  ASSUME Careful = TRUE
  PROVE  Spec => []Inv
<1>1. Inv /\ [Next]_vars => Inv'
  BY InvNext
<1> QED
  BY <1>1, InvInit, PTL DEF Spec

(* joypad_accessory_xfer: whoever waits for a transfer is not forgotten,   *)
(* whatever is reset, given up or detected meanwhile.                      *)
THEOREM AwaitedHolds ==
  ASSUME Careful = TRUE
  PROVE  Spec => []AwaitedIsUnderWay
<1>1. Spec => []Inv
  BY TransferInvHolds
<1> QED
  BY <1>1, InvIsAwaited, PTL

(* joypad_accessory_write_callback: a write that ends without an error has *)
(* stored every block, retries and read-modify-write included, unless it   *)
(* was of CRC 0 and sent to a controller that had just been pulled.        *)
THEOREM WrittenHolds ==
  ASSUME Careful = TRUE
  PROVE  Spec => WrittenIsStored
<1>1. Spec => []Inv
  BY TransferInvHolds
<1>2. ASSUME Inv, [Next]_vars
      PROVE  [done = "no" /\ done' = "none" /\ call \in {"write", "edit"} /\ ~acc.ignore
                => stored \cup unheard = 1 .. Len(Blocks[call])]_vars
  <2>1. CASE UNCHANGED vars
    BY <2>1
  <2>2. CASE Next
    BY <1>2, <2>2, WrittenStep
  <2> QED
    BY <1>2, <2>1, <2>2
<1> QED
  BY <1>1, <1>2, PTL DEF Spec, WrittenIsStored

=============================================================================

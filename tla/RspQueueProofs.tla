--------------------------- MODULE RspQueueProofs ---------------------------
(***************************************************************************)
(* Theorems about the RSP queue, for every size of its buffers and its     *)
(* commands, and every number of commands: each command is executed once   *)
(* and in the order of its queue, and no buffer is cleared in use.         *)
(*                                                                         *)
(* The invariant, Held, numbers the places of the buffers (D below): the   *)
(* number of a place tells which command comes last in front of it, and the*)
(* RSP stands in each queue at a place with the number of what it has done.*)
(***************************************************************************)
EXTENDS RspQueueProperties, TLAPS, SequenceTheorems

(* The call in progress.  What may follow a step, and which steps may be   *)
(* the last.                                                               *)
Follow == [s \in Steps |->
  CASE s = "more" -> {"more again"}
    [] s = "more again" -> {"wait bufdone", "syncpoint?", "not high?", "halted?",
                            "low context"}
    [] s \in {"bufdone?", "wait bufdone"} -> {"clear bufdone"}
    [] s = "clear bufdone" -> {"switch"}
    [] s = "switch" -> {"hand off"}
    [] s = "hand off" -> {"leave"}
    [] s \in {"leave", "prolog", "swap epilog"} -> {"more"}
    [] s = "patch epilog" -> {"patch swap"}
    [] s = "patch swap" -> {"request"}
    [] s = "request" -> {"prolog"}
    [] s = "jump epilog" -> {"swap epilog"}
    [] OTHER -> {}]

Finals == {"more again", "syncpoint?", "not high?", "halted?", "low context"}

LowSteps == {"syncpoint?", "not high?"}
HighSteps == {"halted?", "patch epilog", "patch swap", "request", "prolog",
              "jump epilog", "swap epilog", "low context"}

Epilogs == {"jump epilog", "swap epilog"}
Endings == Epilogs \cup {"more", "more again", "low context"}
Closing == "low context"
Turn == "switch"
Again == "more again"
Await == "wait bufdone"
NoStep == "none"

First(t) == IF t = <<>> THEN NoStep ELSE t[1]
Goal(t) == IF t = <<>> THEN NoStep ELSE t[Len(t)]
Switches(t) == \E i \in 1 .. Len(t) : t[i] = Turn

Chain(t, c) ==
  /\ t \in Seq(Steps)
  /\ \A i \in 1 .. Len(t) : IF c = "low" THEN t[i] \notin HighSteps
                            ELSE t[i] \notin LowSteps
  /\ \A i \in 1 .. Len(t) : IF i = Len(t) THEN t[i] \in Finals
                            ELSE t[i + 1] \in Follow[t[i]]
  /\ \A i \in 1 .. Len(t) : t[i] \in Epilogs => t[Len(t)] = Closing
  /\ \A i \in 1 .. Len(t) : t[Len(t)] = Closing => t[i] \in Endings

(* Where the call in progress stands, as far as the buffers depend on it.  *)
Phases == {"switch", "hand off", "leave", "patch epilog", "patch swap",
           "request", "prolog", "swap epilog"}
Step == First(todo)
Phase == IF Step \in Phases THEN Step ELSE "plain"
Moving(q, s) == ctx = q /\ Phase = s

(* No sequence of high priority is being written.                          *)
Closed ==
  \/ ctx = "low"
  \/ Phase \in {"patch epilog", "patch swap"}
  \/ Goal(todo) = Closing /\ Step \in {"more", "more again", "low context"}

(* The commands that the library writes, by what they are for.             *)
EnterHigh == SwapBuffers("high", "low", {"HIGHPRI_REQUESTED"}, {"HIGHPRI_RUNNING"})
LeaveHigh == SwapBuffers("low", "high", {"HIGHPRI_RUNNING"}, {})
LeaveLow == SwapBuffers("block", "block", {}, {"BUFDONE_LOW"})
Opening == WriteStatus({"HIGHPRI_REQUESTED"}, {"HIGHPRI_RUNNING"})
Handover == WriteStatus({}, {"BUFDONE_HIGH"})

Commands ==
  {Cmd(q, n) : q \in Queues, n \in Nat}
    \cup {Call(n) : n \in Nat} \cup {TestWriteStatus(n) : n \in Nat}
    \cup {Jump(p) : p \in Places} \cup {WriteWord(p) : p \in Places}
    \cup {EnterHigh, LeaveHigh, LeaveLow, Opening, Handover, Body, Ret}

Numbered(c) == c.op \in {"CMD", "CALL", "TEST"}

High == "HIGHPRI_RUNNING" \in status
Requested == "HIGHPRI_REQUESTED" \in status

Other(q) == <<q, 1 - idx[q]>>

(* The two words at the end of a buffer that is left for the other one.    *)
HandsOver(q) == IF q = "low" THEN WriteWord(<<Active("low"), 1>>) ELSE Handover
Leaves(q) == IF q = "low" THEN LeaveLow ELSE Jump(<<Active("high"), 1>>)

(* The place of the command that the RSP executes next or is executing, in *)
(* the queue that it executes and in the other one; in the low queue the   *)
(* RSP may also be in the block.                                           *)
Here == IF rpc = "execute" /\ cmd # EnterHigh THEN <<at[1], at[2] - 1>> ELSE at
Place(q) == IF High <=> q = "high" THEN Here ELSE stack[q]
InBlock == Place("low")[1] = Block
InBody == Place("low") = <<Block, 1>>
Spot(q) == IF q = "low" /\ InBlock THEN stack["block"] ELSE Place(q)

(* The command in front of that place.                                     *)
After(q, c) == Spot(q)[2] > 1 /\ buf[Spot(q)[1]][Spot(q)[2] - 1] = c

Types ==
  /\ buf \in [Buffers \cup {Block} -> Seq(Commands)] /\ buf[Block] = Recorded
  /\ used \in [Buffers -> Nat] /\ sentinel \in [Queues -> Nat]
  /\ ctx \in Queues /\ idx \in [Queues -> {0, 1}] /\ Chain(todo, ctx)
  /\ handler \in {"idle", "acknowledged"} /\ status \subseteq Signals
  /\ rpc \in {"loop", "execute", "fetch", "idle", "break", "wakeup"}
  /\ at \in Places /\ stack \in [Slots -> Places] /\ snap \in Seq(Commands)
  /\ issued \in [Queues -> Nat] /\ done \in [Queues -> Nat]
  /\ \A q \in Queues : issued[q] <= MaxIssued[q]
  /\ syncAt \in Seq(Nat) /\ syncDone \in Nat /\ fresh \in BOOLEAN /\ late \in BOOLEAN

(* D[b][k] is the number of the last command in front of place k of buffer *)
(* b: numbers grow by one with each command, and the active buffer of a    *)
(* queue goes on where the other one ends.                                 *)
Counted(D, b, k) ==
  IF Numbered(buf[b][k]) THEN D[b][k + 1] = D[b][k] + 1 /\ buf[b][k].n = D[b][k + 1]
  ELSE D[b][k + 1] = D[b][k]

Numbers == [Buffers -> [Nat -> Nat]]

Counts(D) ==
  /\ D \in Numbers
  /\ \A b \in Buffers : \A k \in 1 .. Len(buf[b]) : Counted(D, b, k)
  /\ \A b \in Buffers : \A j, k \in 1 .. (Len(buf[b]) + 1) :
        j <= k => D[b][j] <= D[b][k]
  /\ \A q \in Queues :
        /\ D[Active(q)][Len(buf[Active(q)]) + 1] = issued[q]
        /\ D[Other(q)][Len(buf[Other(q)]) + 1] = D[Active(q)][1]

(* What stands in a buffer of low priority: commands, and at the end of the *)
(* buffer that is not active the way to the other one.                     *)
LowItem(b, k) ==
  LET c == buf[b][k] IN
  \/ Numbered(c) /\ c \in {Cmd("low", c.n), Call(c.n), TestWriteStatus(c.n)}
  \/ /\ c = HandsOver("low") /\ b = Other("low")
     /\ \/ k = Len(buf[b]) /\ Moving("low", "leave")
        \/ k = Len(buf[b]) - 1 /\ buf[b][k + 1] = Leaves("low")
  \/ /\ c = Leaves("low") /\ b = Other("low")
     /\ k = Len(buf[b]) /\ k > 1 /\ buf[b][k - 1] = HandsOver("low")

(* The same for high priority, where sequences begin with an opening and   *)
(* end with a jump to the next place and the return to the low queue, both *)
(* overwritten by jumps when another sequence follows.                     *)
HighItem(D, b, k) ==
  LET c == buf[b][k] IN
  \/ Numbered(c) /\ c = Cmd("high", c.n)
  \/ c = Opening
  \/ c = Jump(<<b, k + 1>>)
  \/ /\ c = Jump(<<b, k + 2>>) /\ k < Len(buf[b])
     /\ \/ buf[b][k + 1] = Jump(<<b, k + 2>>)
        \/ buf[b][k + 1] = LeaveHigh /\ Phase = "patch swap"
  \/ /\ c = LeaveHigh /\ b = Active("high") /\ Closed /\ D[b][k] \in ends
     /\ k = Len(buf[b]) /\ k > 1 /\ buf[b][k - 1].op = "JUMP"
     /\ k > 2 => buf[b][k - 2] # Jump(<<b, k>>)
  \/ /\ c = HandsOver("high") /\ b = Other("high")
     /\ \/ k = Len(buf[b]) /\ Moving("high", "leave")
        \/ k = Len(buf[b]) - 1 /\ buf[b][k + 1] = Leaves("high")
  \/ /\ c = Leaves("high") /\ b = Other("high")
     /\ k = Len(buf[b]) /\ k > 1 /\ buf[b][k - 1] = HandsOver("high")

Final(s) == s[Len(s)]

Items(D) ==
  \A b \in Buffers : \A k \in 1 .. Len(buf[b]) :
     IF b[1] = "low" THEN LowItem(b, k) ELSE HighItem(D, b, k)

(* The end of the buffer that is not active.                               *)
Tails ==
  \A q \in Queues :
    /\ \/ Moving(q, "hand off") \/ Moving(q, "leave") \/ buf[Other(q)] = <<>>
       \/ Final(buf[Other(q)]) = Leaves(q)
    /\ Moving(q, "hand off") => \A k \in 1 .. Len(buf[Other(q)]) :
                                  buf[Other(q)][k] \notin {HandsOver(q), Leaves(q)}
    /\ Moving(q, "leave") => /\ buf[Other(q)] # <<>>
                             /\ Final(buf[Other(q)]) = HandsOver(q)

(* The end of the active buffer of high priority.                          *)
Epilogue ==
  LET s == buf[Active("high")] IN
  /\ Closed => \/ s # <<>> /\ Final(s) = LeaveHigh
               \/ /\ s = <<>> /\ ~ High /\ ~ Requested
                  /\ Phase \notin {"patch epilog", "patch swap"}
  /\ Phase = "patch epilog" => s[Len(s) - 1] = Jump(<<Active("high"), Len(s)>>)
  /\ Phase = "patch swap" => s[Len(s) - 1] = Jump(<<Active("high"), Len(s) + 1>>)
  /\ Phase \in {"swap epilog", "request"} =>
       \/ s = <<>> /\ Phase = "request"
       \/ s # <<>> /\ Final(s) = Jump(<<Active("high"), Len(s) + 1>>)
  /\ Phase = "swap epilog" /\ Len(s) > 1 =>
       s[Len(s) - 1] # Jump(<<Active("high"), Len(s) + 1>>)

(* The copy of a buffer is as old as the last fetch: it may still hold an  *)
(* epilog that has been overwritten since.                                 *)
Copied(D, b, k) ==
  /\ \/ snap[k] = buf[b][k]
     \/ snap[k] = Jump(<<b, k + 1>>) /\ buf[b][k] = Jump(<<b, k + 2>>)
     \/ /\ snap[k] = LeaveHigh /\ buf[b][k] = Jump(<<b, k + 1>>)
        /\ \/ k < Len(buf[b]) /\ buf[b][k + 1] = Opening
           \/ /\ k = Len(buf[b]) /\ b = Active("high")
              /\ Phase \in {"request", "prolog"}
  /\ snap[k] = LeaveHigh => D[b][k] \in ends /\ k > 1 /\ snap[k - 1].op = "JUMP"

Copy(D) ==
  rpc \in {"loop", "execute"} =>
    /\ IF rpc = "execute" /\ cmd # EnterHigh
       THEN Here[2] \in 1 .. Len(snap) /\ cmd = snap[Here[2]]
       ELSE at[2] \in 1 .. (Len(snap) + 1)
    /\ rpc = "execute" /\ cmd = EnterHigh => ~ High /\ Requested
    /\ at[1] = Block => snap = Recorded
    /\ at[1] # Block => /\ Len(snap) <= Len(buf[at[1]])
                        /\ \A k \in 1 .. Len(snap) : Copied(D, at[1], k)

(* The RSP stands in both queues behind the commands it has executed.      *)
Stands(D, q) ==
  LET b == Spot(q)[1]  p == Spot(q)[2] IN
  /\ b \in {Active(q), Other(q)} /\ p \in 1 .. (Len(buf[b]) + 1)
  /\ b = Other(q) => p <= Len(buf[b]) \/ Moving(q, "hand off") \/ Moving(q, "leave")
  /\ D[b][p] = done[q] + IF q = "low" /\ InBody THEN 1 ELSE 0

Stand(D) ==
  /\ \A q \in Queues : Stands(D, q)
  /\ InBlock => Place("low")[2] \in {1, 2}
  /\ InBody => Spot("low")[2] > 1 /\ buf[Spot("low")[1]][Spot("low")[2] - 1].op = "CALL"
  /\ High <=> at[1] \in {Active("high"), Other("high")}

(* The signals of the buffers tell whether the RSP is still in the one     *)
(* that is not active; in the high queue it is about to leave it.          *)
Signalled(q) == Bufdone(q) \in status \/ Moving(q, "switch")

Handshake ==
  /\ Spot("low")[1] = Active("low") <=> Signalled("low")
  /\ Spot("low")[1] = Other("low") /\ After("low", HandsOver("low"))
       => stack["block"] = <<Active("low"), 1>> /\ ~ InBlock
  /\ Spot("high")[1] = Active("high") => Signalled("high")
  /\ Spot("high")[1] = Other("high") => (Signalled("high") <=> After("high", HandsOver("high")))
  /\ Spot("high")[1] = Other("high") /\ After("high", HandsOver("high")) => High
  /\ \A q \in Queues : Moving(q, "switch") => Bufdone(q) \notin status

Waited == Step = "clear bufdone" => Bufdone(ctx) \in status

(* An opening that the RSP has not reached.                                *)
Ahead ==
  LET b == Spot("high")[1] IN
  \/ \E k \in Spot("high")[2] .. Len(buf[b]) : buf[b][k] = Opening
  \/ /\ b = Other("high")
     /\ \E k \in 1 .. Len(buf[Active("high")]) : buf[Active("high")][k] = Opening

(* The request of a sequence stays until the RSP has entered it; without   *)
(* one the RSP leaves the high queue at its end only.                      *)
Requests ==
  /\ Requested => Phase = "prolog" \/ Ahead
  /\ ~ High /\ ~ Requested => /\ Place("high") = Cursor("high")
                              /\ Closed \/ Phase = "request"
  /\ High /\ Phase # "patch swap" => ~ After("high", LeaveHigh)
  /\ High /\ rpc \in {"loop", "execute"} /\ Here[2] <= Len(snap)
          /\ snap[Here[2]] = LeaveHigh
       => \/ buf[Here[1]][Here[2]] = LeaveHigh
          \/ Requested
          \/ /\ Phase = "request" /\ Here[1] = Active("high")
             /\ Here[2] = Len(buf[Here[1]])

(* The RSP has not seen everything that stands in memory.                  *)
Behind ==
  \/ /\ rpc \in {"loop", "execute"} /\ at[1] # Block
     /\ Len(snap) < Len(buf[at[1]])
  \/ /\ rpc \in {"idle", "break", "wakeup"}
     /\ at[2] <= Len(buf[at[1]]) \/ WantsHigh

(* Then, once a flush has begun, it will look again: it is not going to    *)
(* halt, or the second signal is still to come and finds it halted.        *)
Flushed ==
  /\ "HALTED" \in status => rpc = "wakeup"
  /\ late => rpc = "break"
  /\ Step \in {"more again", "wait bufdone", "halted?", "not high?", "syncpoint?"}
       => ~ fresh
  /\ ~ fresh /\ Phase # "prolog" /\ Behind =>
       /\ "MORE" \in status
       /\ \/ "HALTED" \notin status /\ rpc # "break"
          \/ Step = "more again" /\ (rpc = "break" => late)

(* The commands that are syncpoints.                                        *)
IsSyncpoint(n) == \E i \in 1 .. Len(syncAt) : syncAt[i] = n

-----------------------------------------------------------------------------
(* A step taken.                                                           *)
LEMMA ChainTail ==
  ASSUME NEW c, NEW t, Chain(t, c), t # <<>>
  PROVE  /\ Chain(Tail(t), c) /\ t # <<>> /\ First(t) \in Steps /\ First(t) = Head(t)
         /\ First(Tail(t)) = NoStep => First(t) \in Finals /\ Goal(t) = First(t)
         /\ First(Tail(t)) # NoStep => /\ First(Tail(t)) \in Follow[First(t)]
                                       /\ Goal(Tail(t)) = Goal(t)
         /\ Switches(t) => First(t) = Turn \/ Switches(Tail(t))
         /\ Switches(Tail(t)) => Switches(t)
<1> DEFINE u == Tail(t)
<1>1. /\ t \in Seq(Steps) /\ Len(t) \in Nat /\ Len(t) >= 1 /\ Head(t) = t[1]
      /\ t[1] \in Steps
  BY DEF Chain
<1>2. /\ u \in Seq(Steps) /\ Len(u) = Len(t) - 1
      /\ \A i \in 1 .. Len(u) : u[i] = t[i + 1]
  BY <1>1
<1> HIDE DEF u
<1>3. \A i \in 1 .. Len(u) : i + 1 \in 1 .. Len(t)
  BY <1>1, <1>2
<1>4. u # <<>> => /\ Len(u) >= 1 /\ u[1] = t[2] /\ u[Len(u)] = t[Len(t)]
                  /\ t[2] \in Follow[t[1]]
  BY <1>1, <1>2 DEF Chain
<1>5. u = <<>> => Len(t) = 1 /\ t[1] \in Finals
  <2> HAVE u = <<>>
  <2>1. Len(u) = 0
    OBVIOUS
  <2>2. Len(t) = 1
    BY <2>1, <1>1, <1>2
  <2> QED
    BY <2>2 DEF Chain
<1>6. Chain(u, c)
  <2>1. \A i \in 1 .. Len(u) : IF c = "low" THEN u[i] \notin HighSteps
                               ELSE u[i] \notin LowSteps
    BY <1>2, <1>3 DEF Chain
  <2>2. ASSUME NEW i \in 1 .. Len(u)
        PROVE  IF i = Len(u) THEN u[i] \in Finals ELSE u[i + 1] \in Follow[u[i]]
    <3>1. CASE i = Len(u)
      BY <3>1, <1>1, <1>2, <1>3 DEF Chain
    <3>2. CASE i # Len(u)
      <4>1. i + 1 \in 1 .. Len(t) /\ i + 1 # Len(t) /\ i + 1 \in 1 .. Len(u)
        BY <3>2, <1>1, <1>2
      <4>2. t[(i + 1) + 1] \in Follow[t[i + 1]]
        BY <4>1 DEF Chain
      <4> QED
        BY <3>2, <4>1, <4>2, <1>2
    <3> QED
      BY <3>1, <3>2
  <2>3. \A i \in 1 .. Len(u) : u[i] \in Epilogs
                                 => u[Len(u)] = Closing
    BY <1>2, <1>3, <1>4 DEF Chain
  <2>4. \A i \in 1 .. Len(u) : u[Len(u)] = Closing => u[i] \in Endings
    BY <1>2, <1>3, <1>4 DEF Chain
  <2> QED
    BY <1>2, <2>1, <2>2, <2>3, <2>4 DEF Chain
<1>7. ASSUME Switches(t), t[1] # Turn PROVE Switches(u)
  <2>1. PICK i \in 1 .. Len(t) : t[i] = Turn
    BY <1>7 DEF Switches
  <2>2. i # 1
    BY <1>7, <2>1
  <2>3. i - 1 \in 1 .. Len(u) /\ (i - 1) + 1 = i
    BY <1>1, <1>2, <2>2
  <2>4. u[i - 1] = t[i]
    BY <1>2, <2>3
  <2> QED
    BY <2>1, <2>3, <2>4 DEF Switches
<1>8. Switches(u) => Switches(t)
  BY <1>2, <1>3 DEF Switches
<1>9. /\ First(t) = t[1] /\ Goal(t) = t[Len(t)]
      /\ First(u) = IF u = <<>> THEN NoStep ELSE u[1]
      /\ Goal(u) = IF u = <<>> THEN NoStep ELSE u[Len(u)]
  BY DEF First, Goal
<1>10. NoStep \notin Steps
  BY DEF Steps, NoStep
<1>11. u # <<>> => u[1] \in Steps
  BY <1>1, <1>2, <1>4
<1> QED
  BY <1>1, <1>4, <1>5, <1>6, <1>7, <1>8, <1>9, <1>10, <1>11 DEF u

-----------------------------------------------------------------------------
(* What the commands are made of.                                          *)
LEMMA CommandFields ==
  /\ \A q, n : Cmd(q, n).op = "CMD" /\ Cmd(q, n).q = q /\ Cmd(q, n).n = n
  /\ \A n : Call(n).op = "CALL" /\ Call(n).n = n
  /\ \A n : TestWriteStatus(n).op = "TEST" /\ TestWriteStatus(n).n = n
  /\ \A p : Jump(p).op = "JUMP" /\ Jump(p).to = p
  /\ \A p : WriteWord(p).op = "WORD" /\ WriteWord(p).to = p
  /\ Body.op = "BODY" /\ Ret.op = "RET"
  /\ Opening.op = "STATUS" /\ Opening.clear = {"HIGHPRI_REQUESTED"}
  /\ Opening.set = {"HIGHPRI_RUNNING"}
  /\ Handover.op = "STATUS" /\ Handover.clear = {} /\ Handover.set = {"BUFDONE_HIGH"}
  /\ EnterHigh.op = "SWAP" /\ EnterHigh.to = "high" /\ EnterHigh.from = "low"
  /\ EnterHigh.clear = {"HIGHPRI_REQUESTED"} /\ EnterHigh.set = {"HIGHPRI_RUNNING"}
  /\ LeaveHigh.op = "SWAP" /\ LeaveHigh.to = "low" /\ LeaveHigh.from = "high"
  /\ LeaveHigh.clear = {"HIGHPRI_RUNNING"} /\ LeaveHigh.set = {}
  /\ LeaveLow.op = "SWAP" /\ LeaveLow.to = "block" /\ LeaveLow.from = "block"
  /\ LeaveLow.clear = {} /\ LeaveLow.set = {"BUFDONE_LOW"}
  BY DEF Cmd, Call, TestWriteStatus, Jump, WriteWord, Body, Ret, Opening, Handover,
         EnterHigh, LeaveHigh, LeaveLow, WriteStatus, SwapBuffers

(* What can be in a buffer.                                                *)
LEMMA CommandTypes ==
  /\ \A q \in Queues, n \in Nat : Cmd(q, n) \in Commands
  /\ \A n \in Nat : Call(n) \in Commands /\ TestWriteStatus(n) \in Commands
  /\ \A p \in Places : Jump(p) \in Commands /\ WriteWord(p) \in Commands
  /\ {EnterHigh, LeaveHigh, LeaveLow, Opening, Handover, Body, Ret} \subseteq Commands
  BY DEF Commands

(* The two buffers of each queue.                                          *)
LEMMA TheBuffers ==
  ASSUME idx \in [Queues -> {0, 1}]
  PROVE  /\ "low" \in Queues /\ "high" \in Queues /\ "low" # "high"
         /\ \A q \in Queues : q = "low" \/ q = "high"
         /\ Block \notin Buffers
         /\ \A b \in Buffers : b[1] \in Queues /\ b \in {Active(b[1]), Other(b[1])}
         /\ \A q \in Queues : /\ Active(q) \in Buffers /\ Other(q) \in Buffers
                              /\ Active(q)[1] = q /\ Other(q)[1] = q
                              /\ Active(q) # Other(q)
  BY DEF Queues, Buffers, Block, Active, Other

LEMMA ThePlaces ==
  /\ \A b \in Buffers \cup {Block}, k \in Nat \ {0} : <<b, k>> \in Places
  /\ \A p \in Places : /\ p[1] \in Buffers \cup {Block} /\ p[2] \in Nat \ {0}
                       /\ p = <<p[1], p[2]>>
  BY DEF Places

(* The recorded block.                                                     *)
LEMMA TheBlock == Recorded \in Seq(Commands) /\ Len(Recorded) = 2
                  /\ Recorded[1] = Body /\ Recorded[2] = Ret
  BY CommandTypes DEF Recorded

(* Appending a command.                                                    *)
LEMMA Appended ==
  ASSUME NEW s \in Seq(Commands), NEW c \in Commands
  PROVE  /\ Append(s, c) \in Seq(Commands) /\ Len(Append(s, c)) = Len(s) + 1
         /\ \A i \in 1 .. Len(s) : Append(s, c)[i] = s[i]
         /\ Append(s, c)[Len(s) + 1] = c
         /\ Len(s) \in Nat /\ Append(s, c) # <<>>
  BY AppendProperties

(* The step of a call that is taken, and the next one.                     *)
LEMMA NextStep ==
  ASSUME Chain(todo, ctx), NEW s, Doing(s), todo' = Tail(todo)
  PROVE  /\ Step = s /\ Chain(todo', ctx) /\ s \in Steps /\ todo # <<>>
         /\ Step' = NoStep => s \in Finals /\ Goal(todo) = s
         /\ Step' # NoStep => Step' \in Follow[s] /\ Goal(todo') = Goal(todo)
         /\ Switches(todo) => s = Turn \/ Switches(todo')
         /\ Switches(todo') => Switches(todo)
<1>1. todo # <<>> /\ Head(todo) = s
  BY DEF Doing
<1> QED
  BY <1>1, ChainTail DEF Step
-----------------------------------------------------------------------------
(* Steps that change neither the buffers nor where the RSP stands.         *)
SamePhase ==
  /\ Phase' = Phase /\ (Closed' <=> Closed)
  /\ \A q \in Queues, s \in Phases : Moving(q, s)' <=> Moving(q, s)

SameBuffers == UNCHANGED <<buf, idx, issued, ends>>

SamePlaces ==
  /\ \A q \in Queues : Place(q)' = Place(q)
  /\ stack' = stack /\ done' = done
  /\ (High' <=> High) /\ (Requested' <=> Requested)
  /\ \A q \in Queues : (Bufdone(q) \in status)' <=> Bufdone(q) \in status

LEMMA SameItems ==
  ASSUME NEW D, Counts(D), Items(D), Tails, SameBuffers, SamePhase,
         idx \in [Queues -> {0, 1}]
  PROVE  Counts(D)' /\ Items(D)' /\ Tails'
<1>1. /\ \A q : Active(q)' = Active(q) /\ Other(q)' = Other(q)
      /\ \A q : HandsOver(q)' = HandsOver(q) /\ Leaves(q)' = Leaves(q)
      /\ buf' = buf /\ ends' = ends /\ issued' = issued
  BY DEF SameBuffers, Active, Other, HandsOver, Leaves
<1>2. /\ \A q \in Queues : /\ Moving(q, "leave")' <=> Moving(q, "leave")
                           /\ Moving(q, "hand off")' <=> Moving(q, "hand off")
      /\ Phase' = Phase /\ (Closed' <=> Closed) /\ "low" \in Queues /\ "high" \in Queues
  BY TheBuffers DEF SamePhase, Phases
<1>3. Counts(D)'
  BY <1>1 DEF Counts, Counted
<1>4. Items(D)'
  <2>1. \A b, k : LowItem(b, k) => LowItem(b, k)'
    BY <1>1, <1>2 DEF LowItem
  <2>2. \A b, k : HighItem(D, b, k) => HighItem(D, b, k)'
    <3>1. /\ Active("high")' = Active("high") /\ Other("high")' = Other("high")
          /\ HandsOver("high")' = HandsOver("high") /\ Leaves("high")' = Leaves("high")
          /\ Moving("high", "leave")' <=> Moving("high", "leave")
      BY <1>1, <1>2
    <3> TAKE b, k
    <3>2. buf'[b] = buf[b] /\ ends' = ends /\ Phase' = Phase /\ (Closed' <=> Closed)
      BY <1>1, <1>2
    <3> QED
      BY <3>1, <3>2 DEF HighItem
  <2> QED
    BY <1>1, <2>1, <2>2 DEF Items
<1>5. Tails'
  BY <1>1, <1>2 DEF Tails
<1> QED
  BY <1>3, <1>4, <1>5

LEMMA SameStand ==
  ASSUME NEW D, Stand(D), Handshake, SameBuffers, SamePhase, SamePlaces, at'[1] = at[1],
         idx \in [Queues -> {0, 1}]
  PROVE  Stand(D)' /\ Handshake'
<1>1. /\ \A q : Active(q)' = Active(q) /\ Other(q)' = Other(q)
      /\ \A q : HandsOver(q)' = HandsOver(q) /\ Leaves(q)' = Leaves(q)
      /\ buf' = buf
  BY DEF SameBuffers, Active, Other, HandsOver, Leaves
<1>2. /\ \A q \in Queues : /\ Moving(q, "leave")' <=> Moving(q, "leave")
                           /\ Moving(q, "hand off")' <=> Moving(q, "hand off")
                           /\ Moving(q, "switch")' <=> Moving(q, "switch")
      /\ "low" \in Queues /\ "high" \in Queues
  BY TheBuffers DEF SamePhase, Phases
<1>3. /\ \A q \in Queues : Spot(q)' = Spot(q) /\ (Signalled(q)' <=> Signalled(q))
      /\ (InBlock' <=> InBlock) /\ (InBody' <=> InBody)
      /\ Place("low")' = Place("low") /\ (High' <=> High) /\ done' = done /\ stack' = stack
  BY <1>2 DEF SamePlaces, Spot, InBlock, InBody, Signalled
<1>4. Stand(D)'
  BY <1>1, <1>2, <1>3 DEF Stand, Stands
<1>5. Handshake'
  <2>1. \A q \in Queues : \A c : After(q, c)' <=> After(q, c)
    BY <1>1, <1>3 DEF After
  <2>2. \A q \in Queues : (Moving(q, "switch") => Bufdone(q) \notin status)
          => (Moving(q, "switch") => Bufdone(q) \notin status)'
    BY <1>2 DEF SamePlaces
  <2> QED
    BY <1>1, <1>2, <1>3, <2>1, <2>2 DEF Handshake
<1> QED
  BY <1>4, <1>5

(* The successor of an index that is not the last one.                     *)
LEMMA WithinNext == \A n \in Nat : \A k \in 1 .. n : k # n => k + 1 \in 1 .. n
OBVIOUS

(* The end of the high queue and the requests.                             *)
LEMMA SameRequests ==
  ASSUME Epilogue, Requests, SameBuffers, SamePhase, SamePlaces,
         idx \in [Queues -> {0, 1}]
  PROVE  /\ Epilogue'
         /\ \/ UNCHANGED <<rpc, snap, cmd, at>>
            \/ rpc' \notin {"loop", "execute"}
            \/ /\ rpc \in {"loop", "execute"} /\ rpc' \in {"loop", "execute"}
               /\ UNCHANGED snap
            => Requests'
<1>1. /\ Active("high")' = Active("high") /\ Other("high")' = Other("high")
      /\ Cursor("high")' = Cursor("high") /\ buf' = buf
  BY DEF SameBuffers, Active, Other, Cursor
<1>2. Phase' = Phase /\ (Closed' <=> Closed) /\ "high" \in Queues
  BY TheBuffers DEF SamePhase
<1>3. /\ Spot("high")' = Spot("high") /\ Place("high")' = Place("high")
      /\ (High' <=> High) /\ (Requested' <=> Requested) /\ (Ahead' <=> Ahead)
  BY <1>1, <1>2 DEF SamePlaces, Spot, Ahead
<1>4. Epilogue'
  BY <1>1, <1>2, <1>3 DEF Epilogue
<1>5. High => Here' = Here
  BY <1>2, <1>3 DEF Place
<1>6. \A c : After("high", c)' <=> After("high", c)
  BY <1>1, <1>3 DEF After
<1>7. ASSUME UNCHANGED <<rpc, snap, cmd, at>> PROVE Requests'
  BY <1>1, <1>2, <1>3, <1>5, <1>6, <1>7 DEF Requests
<1>8. ASSUME rpc' \notin {"loop", "execute"} PROVE Requests'
  BY <1>1, <1>2, <1>3, <1>6, <1>8 DEF Requests
<1>9. ASSUME rpc \in {"loop", "execute"}, rpc' \in {"loop", "execute"}, snap' = snap
      PROVE  Requests'
  BY <1>1, <1>2, <1>3, <1>5, <1>6, <1>9 DEF Requests
<1> QED
  BY <1>4, <1>7, <1>8, <1>9
-----------------------------------------------------------------------------
(* One piece of a call in front of another.                                *)
LEMMA ChainJoin ==
  ASSUME NEW c, NEW s \in Seq(Steps), s # <<>>, NEW t, Chain(t, c),
         \A i \in 1 .. Len(s) : /\ c = "low" => s[i] \notin HighSteps
                                /\ c # "low" => s[i] \notin LowSteps
                                /\ s[i] \in Epilogs => t # <<>> /\ Goal(t) = Closing
                                /\ t # <<>> /\ Goal(t) = Closing => s[i] \in Endings,
         \A i \in 1 .. (Len(s) - 1) : s[i + 1] \in Follow[s[i]],
         t = <<>> => s[Len(s)] # Closing,
         t = <<>> => s[Len(s)] \in Finals,
         t # <<>> => First(t) \in Follow[s[Len(s)]]
  PROVE  /\ Chain(s \o t, c) /\ s \o t # <<>> /\ First(s \o t) = s[1]
         /\ t = <<>> => Goal(s \o t) = s[Len(s)]
         /\ t # <<>> => Goal(s \o t) = Goal(t)
         /\ Switches(s \o t) <=> Switches(s) \/ Switches(t)
<1> DEFINE u == s \o t
           n == Len(s)
<1>1. t \in Seq(Steps) /\ Len(t) \in Nat /\ n \in Nat /\ n >= 1
  BY DEF Chain
<1>2. /\ u \in Seq(Steps) /\ Len(u) = n + Len(t)
      /\ \A i \in 1 .. n : u[i] = s[i]
      /\ \A i \in 1 .. Len(t) : u[n + i] = t[i]
  <2>1. /\ u \in Seq(Steps) /\ Len(u) = Len(s) + Len(t)
        /\ \A i \in 1 .. Len(s) + Len(t) :
              u[i] = IF i <= Len(s) THEN s[i] ELSE t[i - Len(s)]
    BY <1>1, ConcatProperties
  <2>2. \A i \in 1 .. Len(t) : /\ n + i \in 1 .. Len(s) + Len(t)
                               /\ ~ (n + i <= Len(s)) /\ (n + i) - Len(s) = i
    BY <1>1
  <2>3. \A i \in 1 .. n : i \in 1 .. Len(s) + Len(t) /\ i <= Len(s)
    BY <1>1
  <2> HIDE DEF u
  <2>4. \A i \in 1 .. Len(t) : u[n + i] = t[i]
    <3> TAKE i \in 1 .. Len(t)
    <3>1. u[n + i] = IF n + i <= Len(s) THEN s[n + i] ELSE t[(n + i) - Len(s)]
      BY <2>1, <2>2
    <3> QED
      BY <3>1, <2>2
  <2>5. \A i \in 1 .. n : u[i] = s[i]
    BY <2>1, <2>3
  <2> QED
    BY <2>1, <2>4, <2>5
<1> HIDE DEF u
<1>3. \A i \in 1 .. Len(u) : \/ i \in 1 .. n /\ u[i] = s[i]
                             \/ i - n \in 1 .. Len(t) /\ u[i] = t[i - n]
  <2> TAKE i \in 1 .. Len(u)
  <2>1. CASE i <= n
    BY <2>1, <1>1, <1>2
  <2>2. CASE i > n
    <3>1. i - n \in 1 .. Len(t) /\ n + (i - n) = i
      BY <2>2, <1>1, <1>2
    <3> QED
      BY <3>1, <1>2
  <2> QED
    BY <2>1, <2>2, <1>1, <1>2
<1>4. t = <<>> <=> Len(t) = 0
  BY <1>1
<1>5. u # <<>> /\ First(u) = u[1] /\ Goal(u) = u[Len(u)] /\ u[1] = s[1]
  <2>1. Len(u) # 0 /\ 1 \in 1 .. n
    BY <1>1, <1>2
  <2>2. u # <<>>
    BY <2>1
  <2> QED
    BY <2>1, <2>2, <1>2 DEF First, Goal
<1>6. t # <<>> => /\ u[Len(u)] = t[Len(t)] /\ u[n + 1] = t[1] /\ First(t) = t[1]
                  /\ Goal(t) = t[Len(t)]
  BY <1>1, <1>2, <1>4 DEF First, Goal
<1>7. t = <<>> => Len(u) = n /\ u[Len(u)] = s[n]
  BY <1>1, <1>2, <1>4
<1>8. \A i \in 1 .. Len(u) : IF c = "low" THEN u[i] \notin HighSteps
                             ELSE u[i] \notin LowSteps
  BY <1>3 DEF Chain
<1>9. ASSUME NEW i \in 1 .. Len(u)
      PROVE  IF i = Len(u) THEN u[i] \in Finals ELSE u[i + 1] \in Follow[u[i]]
  <2>1. CASE i < n
    <3>1. /\ i \in 1 .. n /\ i + 1 \in 1 .. n /\ i \in 1 .. (Len(s) - 1)
          /\ i # Len(u)
      BY <2>1, <1>1, <1>2
    <3>2. u[i] = s[i] /\ u[i + 1] = s[i + 1]
      BY <3>1, <1>2
    <3> QED
      BY <3>1, <3>2
  <2>2. CASE i = n
    <3>1. u[i] = s[n]
      BY <2>2, <1>1, <1>2
    <3>2. t = <<>> => i = Len(u)
      BY <2>2, <1>7
    <3>3. t # <<>> => i # Len(u)
      BY <2>2, <1>1, <1>2, <1>4
    <3> QED
      BY <3>1, <3>2, <3>3, <1>6, <2>2
  <2>3. CASE i > n
    <3> DEFINE k == i - n
    <3>1. k \in 1 .. Len(t) /\ n + k = i /\ i + 1 = n + (k + 1)
      BY <2>3, <1>1, <1>2
    <3>2. IF k = Len(t) THEN t[k] \in Finals ELSE t[k + 1] \in Follow[t[k]]
      BY <3>1 DEF Chain
    <3>3. u[i] = t[k]
      BY <3>1, <1>2
    <3>4. i = Len(u) <=> k = Len(t)
      BY <3>1, <1>1, <1>2
    <3>5. k # Len(t) => k + 1 \in 1 .. Len(t)
      BY <3>1, <1>1, WithinNext, ZenonT(30)
    <3>6. k # Len(t) => u[i + 1] = t[k + 1]
      BY <3>1, <3>5, <1>2
    <3> HIDE DEF k
    <3> QED
      BY <3>2, <3>3, <3>4, <3>6
  <2> QED
    BY <2>1, <2>2, <2>3, <1>1, <1>2
<1>10. \A i \in 1 .. Len(u) : u[i] \in Epilogs => u[Len(u)] = Closing
  <2> SUFFICES ASSUME NEW i \in 1 .. Len(u), u[i] \in Epilogs PROVE u[Len(u)] = Closing
    OBVIOUS
  <2>1. CASE i \in 1 .. n /\ u[i] = s[i]
    BY <2>1, <1>6
  <2>2. CASE i - n \in 1 .. Len(t) /\ u[i] = t[i - n]
    <3>1. t[Len(t)] = Closing
      BY <2>2 DEF Chain
    <3> QED
      BY <3>1, <2>2, <1>4, <1>6
  <2> QED
    BY <2>1, <2>2, <1>3
<1>11. Switches(u) <=> Switches(s) \/ Switches(t)
  <2>1. Switches(u) => Switches(s) \/ Switches(t)
    BY <1>3 DEF Switches
  <2>2. Switches(s) => Switches(u)
    BY <1>1, <1>2 DEF Switches
  <2>3. Switches(t) => Switches(u)
    <3> SUFFICES ASSUME NEW i \in 1 .. Len(t), t[i] = Turn PROVE Switches(u)
      BY DEF Switches
    <3>1. n + i \in 1 .. Len(u) /\ u[n + i] = t[i]
      BY <1>1, <1>2
    <3> QED
      BY <3>1 DEF Switches
  <2> QED
    BY <2>1, <2>2, <2>3
<1>12. \A i \in 1 .. Len(u) : u[Len(u)] = Closing => u[i] \in Endings
  <2> SUFFICES ASSUME NEW i \in 1 .. Len(u), u[Len(u)] = Closing PROVE u[i] \in Endings
    OBVIOUS
  <2>1. t # <<>> /\ t[Len(t)] = Closing /\ Goal(t) = Closing
    BY <1>6, <1>7
  <2>2. CASE i \in 1 .. n /\ u[i] = s[i]
    BY <2>1, <2>2
  <2>3. CASE i - n \in 1 .. Len(t) /\ u[i] = t[i - n]
    BY <2>1, <2>3 DEF Chain
  <2> QED
    BY <2>2, <2>3, <1>3
<1>13. Chain(u, c)
  BY <1>2, <1>8, <1>9, <1>10, <1>12 DEF Chain
<1> QED
  BY <1>5, <1>6, <1>7, <1>11, <1>13 DEF u

LEMMA ChainPair ==
  ASSUME NEW c, NEW a \in Steps, NEW b \in Steps, NEW t, Chain(t, c),
         c = "low" => a \notin HighSteps /\ b \notin HighSteps,
         c # "low" => a \notin LowSteps /\ b \notin LowSteps,
         b \in Follow[a],
         a \in Epilogs \/ b \in Epilogs => t # <<>> /\ Goal(t) = Closing,
         t # <<>> /\ Goal(t) = Closing => a \in Endings /\ b \in Endings,
         t = <<>> => b \in Finals /\ b # Closing,
         t # <<>> => First(t) \in Follow[b]
  PROVE  /\ Chain(<<a, b>> \o t, c) /\ <<a, b>> \o t # <<>> /\ First(<<a, b>> \o t) = a
         /\ t = <<>> => Goal(<<a, b>> \o t) = b
         /\ t # <<>> => Goal(<<a, b>> \o t) = Goal(t)
         /\ Switches(<<a, b>> \o t) <=> a = Turn \/ b = Turn \/ Switches(t)
<1> DEFINE s == <<a, b>>
<1>1. s \in Seq(Steps) /\ Len(s) = 2 /\ s[1] = a /\ s[2] = b /\ s # <<>>
  OBVIOUS
<1> HIDE DEF s
<1>2. \A i \in 1 .. Len(s) : s[i] = a \/ s[i] = b
  BY <1>1
<1>3. /\ \A i \in 1 .. Len(s) : /\ c = "low" => s[i] \notin HighSteps
                                /\ c # "low" => s[i] \notin LowSteps
                                /\ s[i] \in Epilogs => t # <<>> /\ Goal(t) = Closing
                                /\ t # <<>> /\ Goal(t) = Closing => s[i] \in Endings
      /\ t = <<>> => s[Len(s)] \in Finals /\ s[Len(s)] # Closing
      /\ t # <<>> => First(t) \in Follow[s[Len(s)]]
  BY <1>1, <1>2
<1>4. \A i \in 1 .. (Len(s) - 1) : s[i + 1] \in Follow[s[i]]
  BY <1>1
<1>5. Switches(s) <=> a = Turn \/ b = Turn
  BY <1>1, <1>2 DEF Switches
<1>6. /\ Chain(s \o t, c) /\ s \o t # <<>> /\ First(s \o t) = s[1]
      /\ t = <<>> => Goal(s \o t) = s[Len(s)]
      /\ t # <<>> => Goal(s \o t) = Goal(t)
      /\ Switches(s \o t) <=> Switches(s) \/ Switches(t)
  BY <1>1, <1>3, <1>4, ChainJoin
<1>7. /\ Chain(s \o t, c) /\ s \o t # <<>> /\ First(s \o t) = a
      /\ t = <<>> => Goal(s \o t) = b
      /\ t # <<>> => Goal(s \o t) = Goal(t)
      /\ Switches(s \o t) <=> a = Turn \/ b = Turn \/ Switches(t)
  BY <1>1, <1>5, <1>6
<1> QED
  BY <1>7 DEF s

(* The steps that calls begin with.                                        *)
LEMMA NoCall ==
  ASSUME NEW c
  PROVE  Chain(<<>>, c) /\ First(<<>>) = NoStep /\ Goal(<<>>) = NoStep /\ ~ Switches(<<>>)
  BY DEF Chain, First, Goal, Switches

LEMMA OneStep ==
  ASSUME NEW c, NEW s \in Finals,
         c = "low" => s \notin HighSteps,
         c # "low" => s \notin LowSteps
  PROVE  /\ Chain(<<s>>, c) /\ First(<<s>>) = s /\ Goal(<<s>>) = s
         /\ ~ Switches(<<s>>) /\ <<s>> # <<>>
<1>1. s \in Steps /\ s \notin Epilogs /\ s # Turn
  BY DEF Finals, Steps, Epilogs, Turn
<1> DEFINE u == <<s>>
<1>2. u \in Seq(Steps) /\ Len(u) = 1 /\ u[1] = s /\ u # <<>>
  BY <1>1
<1> HIDE DEF u
<1>3. \A i \in 1 .. Len(u) : i = Len(u) /\ u[i] = s
  BY <1>2
<1>4. Chain(u, c)
  <2>1. Closing \in Endings
    BY DEF Closing, Endings
  <2> QED
    BY <1>1, <1>2, <1>3, <2>1 DEF Chain
<1>5. First(u) = s /\ Goal(u) = s /\ ~ Switches(u)
  BY <1>1, <1>2, <1>3 DEF First, Goal, Switches
<1> QED
  BY <1>2, <1>4, <1>5 DEF u

LEMMA FlushThen ==
  ASSUME NEW c, NEW t, Chain(t, c),
         t # <<>> => First(t) \in Follow[Again]
  PROVE  /\ Chain(Flush \o t, c) /\ First(Flush \o t) = "more"
         /\ t = <<>> => Goal(Flush \o t) = Again
         /\ t # <<>> => Goal(Flush \o t) = Goal(t)
         /\ Switches(Flush \o t) <=> Switches(t)
<1> DEFINE a == "more"
           b == Again
<1>1. /\ a \in Steps /\ b \in Steps /\ b \in Finals /\ b \in Follow[a]
      /\ a \notin HighSteps /\ a \notin LowSteps /\ b \notin HighSteps /\ b \notin LowSteps
      /\ a \notin Epilogs /\ b \notin Epilogs /\ a # Turn /\ b # Turn
      /\ a \in Endings /\ b \in Endings /\ b # Closing
  BY DEF Steps, Finals, Follow, HighSteps, LowSteps, Epilogs, Endings, Turn, Again,
         Closing
<1>2. Flush = <<a, b>>
  BY DEF Flush, Again
<1>3. t # <<>> => First(t) \in Follow[b]
  OBVIOUS
<1> HIDE DEF a, b
<1>4. /\ Chain(<<a, b>> \o t, c) /\ First(<<a, b>> \o t) = a
      /\ t = <<>> => Goal(<<a, b>> \o t) = b
      /\ t # <<>> => Goal(<<a, b>> \o t) = Goal(t)
      /\ Switches(<<a, b>> \o t) <=> Switches(t)
  BY <1>1, <1>3, ChainPair
<1>5. /\ Chain(Flush \o t, c) /\ First(Flush \o t) = a
      /\ t = <<>> => Goal(Flush \o t) = b
      /\ t # <<>> => Goal(Flush \o t) = Goal(t)
      /\ Switches(Flush \o t) <=> Switches(t)
  BY <1>2, <1>4
<1> QED
  BY <1>5 DEF a, b

LEMMA FlushSteps ==
  ASSUME NEW c
  PROVE  /\ Chain(Flush, c) /\ First(Flush) = "more" /\ Goal(Flush) = Again
         /\ ~ Switches(Flush) /\ Flush # <<>>
<1> DEFINE a == "more"
           b == "more again"
<1>1. a \in Steps /\ b \in Steps /\ Flush = <<a, b>>
  BY DEF Steps, Flush
<1> HIDE DEF a, b
<1>2. Flush \in Seq(Steps) /\ Flush # <<>>
  BY <1>1
<1>3. Flush \o <<>> = Flush
  BY <1>2, ConcatEmptySeq
<1>4. /\ Chain(Flush \o <<>>, c) /\ First(Flush \o <<>>) = "more"
      /\ Goal(Flush \o <<>>) = Again /\ ~ Switches(Flush \o <<>>)
  BY NoCall, FlushThen
<1> QED
  BY <1>2, <1>3, <1>4

LEMMA FlushAnd ==
  ASSUME NEW c, NEW s \in Follow[Again] \ {"wait bufdone"},
         c = "low" => s \notin HighSteps,
         c # "low" => s \notin LowSteps
  PROVE  /\ Chain(Flush \o <<s>>, c) /\ First(Flush \o <<s>>) = "more"
         /\ Goal(Flush \o <<s>>) = s /\ ~ Switches(Flush \o <<s>>)
<1>1. s \in Finals
  BY DEF Follow, Finals, Steps, Again
<1>2. Chain(<<s>>, c) /\ First(<<s>>) = s /\ Goal(<<s>>) = s /\ ~ Switches(<<s>>) /\ <<s>> # <<>>
  BY <1>1, OneStep
<1> QED
  BY <1>2, FlushThen

LEMMA NextBufferSteps ==
  ASSUME NEW c
  PROVE  /\ Chain(NextBuffer, c) /\ First(NextBuffer) = "bufdone?"
         /\ Goal(NextBuffer) = Again /\ Switches(NextBuffer)
<1> DEFINE v == "bufdone?"
           w == "clear bufdone"
           x == "switch"
           y == "hand off"
           z == "leave"
           s == <<v, w, x, y, z>>
<1>1. /\ {v, w, x, y, z} \subseteq Steps /\ x = Turn
      /\ \A e \in {v, w, x, y, z} : e \notin Epilogs \cup HighSteps \cup LowSteps
      /\ w \in Follow[v] /\ x \in Follow[w] /\ y \in Follow[x] /\ z \in Follow[y]
      /\ "more" \in Follow[z]
  BY DEF Steps, Turn, Epilogs, HighSteps, LowSteps, Follow
<1>2. NextBuffer = s \o Flush
  BY DEF NextBuffer
<1> HIDE DEF v, w, x, y, z
<1>3. /\ s \in Seq(Steps) /\ Len(s) = 5 /\ s # <<>>
      /\ s[1] = v /\ s[2] = w /\ s[3] = x /\ s[4] = y /\ s[5] = z
  BY <1>1
<1> HIDE DEF s
<1>4. \A i \in 1 .. Len(s) : s[i] \in {v, w, x, y, z}
  BY <1>3
<1>b. Goal(Flush) # Closing
  BY FlushSteps DEF Again, Closing
<1>5. \A i \in 1 .. Len(s) : /\ c = "low" => s[i] \notin HighSteps
                             /\ c # "low" => s[i] \notin LowSteps
                             /\ s[i] \in Epilogs => Flush # <<>> /\ Goal(Flush) = Closing
                             /\ Flush # <<>> /\ Goal(Flush) = Closing => s[i] \in Endings
  BY <1>1, <1>4, <1>b
<1>6. \A i \in 1 .. (Len(s) - 1) : s[i + 1] \in Follow[s[i]]
  <2> TAKE i \in 1 .. (Len(s) - 1)
  <2>1. i = 1 \/ i = 2 \/ i = 3 \/ i = 4
    BY <1>3
  <2> QED
    BY <2>1, <1>1, <1>3
<1>7. Switches(s)
  BY <1>1, <1>3 DEF Switches
<1>8. First(Flush) \in Follow[s[Len(s)]]
  BY <1>1, <1>3, FlushSteps
<1>a. Chain(Flush, c) /\ Flush # <<>>
  BY FlushSteps
<1>9. /\ Chain(s \o Flush, c) /\ First(s \o Flush) = s[1] /\ Goal(s \o Flush) = Goal(Flush)
      /\ Switches(s \o Flush)
  BY <1>3, <1>5, <1>6, <1>7, <1>8, <1>a, ChainJoin, ZenonT(60)
<1> QED
  BY <1>2, <1>3, <1>9, FlushSteps DEF v

LEMMA BeginSteps ==
  LET begin == <<"request", "prolog">> \o Flush
      patch == <<"patch epilog", "patch swap">> \o <<"request", "prolog">> \o Flush
      same == <<>> \o <<"request", "prolog">> \o Flush
  IN
  /\ Chain(patch, "high") /\ First(patch) = "patch epilog" /\ Goal(patch) = Again
  /\ Chain(same, "high") /\ First(same) = "request" /\ Goal(same) = Again
  /\ ~ Switches(patch) /\ ~ Switches(same)
<1> DEFINE v == "patch epilog"
           w == "patch swap"
           x == "request"
           y == "prolog"
           h == "high"
           s == <<x, y>>
           p == <<v, w>>
<1>1. /\ v \in Steps /\ w \in Steps /\ x \in Steps /\ y \in Steps
      /\ v \notin Epilogs /\ w \notin Epilogs /\ x \notin Epilogs /\ y \notin Epilogs
      /\ v \notin LowSteps /\ w \notin LowSteps /\ x \notin LowSteps /\ y \notin LowSteps
      /\ v # Turn /\ w # Turn /\ x # Turn /\ y # Turn
      /\ w \in Follow[v] /\ x \in Follow[w] /\ y \in Follow[x]
  BY DEF Steps, Turn, Epilogs, LowSteps, Follow
<1>2. h # "low"
  OBVIOUS
<1>3. First(Flush) \in Follow[y]
  <2>1. "more" \in Follow[y]
    BY DEF Follow, Steps
  <2> QED
    BY <2>1, FlushSteps
<1> HIDE DEF v, w, x, y, h
<1>4. /\ Chain(Flush, h) /\ Flush # <<>> /\ Goal(Flush) = Again /\ ~ Switches(Flush)
      /\ Again # Closing
  BY FlushSteps DEF Again, Closing
<1>5. /\ Chain(<<x, y>> \o Flush, h) /\ <<x, y>> \o Flush # <<>>
      /\ First(<<x, y>> \o Flush) = x /\ Goal(<<x, y>> \o Flush) = Again
      /\ ~ Switches(<<x, y>> \o Flush)
  BY <1>1, <1>2, <1>3, <1>4, ChainPair
<1>6. s \in Seq(Steps) /\ p \in Seq(Steps)
  BY <1>1
<1>7. Flush \in Seq(Steps) /\ s \o Flush \in Seq(Steps)
  BY <1>4, <1>5 DEF Chain
<1>8. /\ Chain(<<v, w>> \o (s \o Flush), h) /\ First(<<v, w>> \o (s \o Flush)) = v
      /\ Goal(<<v, w>> \o (s \o Flush)) = Again /\ ~ Switches(<<v, w>> \o (s \o Flush))
  <2> DEFINE t == <<x, y>> \o Flush
  <2>1. Chain(t, h) /\ t # <<>> /\ First(t) = x /\ Goal(t) = Again /\ ~ Switches(t)
    BY <1>5
  <2> HIDE DEF t
  <2>2. /\ Chain(<<v, w>> \o t, h) /\ First(<<v, w>> \o t) = v
        /\ Goal(<<v, w>> \o t) = Again /\ ~ Switches(<<v, w>> \o t)
    BY <1>1, <1>2, <1>4, <2>1, ChainPair
  <2> QED
    BY <2>2 DEF t
<1> HIDE DEF s, p
<1>9. (p \o s) \o Flush = p \o (s \o Flush) /\ <<>> \o s = s
  BY <1>6, <1>7, ConcatAssociative, ConcatEmptySeq
<1>10. /\ Chain((p \o s) \o Flush, h) /\ First((p \o s) \o Flush) = v
       /\ Goal((p \o s) \o Flush) = Again /\ ~ Switches((p \o s) \o Flush)
  BY <1>8, <1>9 DEF p
<1>11. /\ Chain((<<>> \o s) \o Flush, h) /\ First((<<>> \o s) \o Flush) = x
       /\ Goal((<<>> \o s) \o Flush) = Again /\ ~ Switches((<<>> \o s) \o Flush)
  BY <1>5, <1>9 DEF s
<1> QED
  BY <1>10, <1>11 DEF v, w, x, y, h, s, p

LEMMA EndSteps ==
  LET end == <<"jump epilog", "swap epilog">> \o Flush \o <<"low context">> IN
  /\ Chain(end, "high") /\ First(end) = "jump epilog" /\ Goal(end) = Closing
  /\ ~ Switches(end)
<1> DEFINE v == "jump epilog"
           w == "swap epilog"
           x == "low context"
           h == "high"
           s == <<v, w>>
           l == <<x>>
<1>1. /\ v \in Steps /\ w \in Steps /\ x \in Steps /\ x = Closing
      /\ v \notin LowSteps /\ w \notin LowSteps /\ x \notin LowSteps
      /\ v # Turn /\ w # Turn /\ w \in Follow[v] /\ v \in Endings /\ w \in Endings
  BY DEF Steps, Turn, LowSteps, Follow, Closing, Endings, Epilogs
<1>2. h # "low"
  OBVIOUS
<1>3. x \in Follow[Again] \ {"wait bufdone"} /\ "more" \in Follow[w]
  BY DEF Steps, Follow, Again
<1> HIDE DEF v, w, x, h
<1>4. /\ Chain(Flush \o l, h) /\ First(Flush \o l) = "more" /\ Goal(Flush \o l) = Closing
      /\ ~ Switches(Flush \o l)
  BY <1>1, <1>2, <1>3, FlushAnd
<1>5. First(Flush \o l) \in Follow[w]
  BY <1>3, <1>4
<1>6. l \in Seq(Steps) /\ s \in Seq(Steps)
  BY <1>1
<1> HIDE DEF l, s
<1>7. Flush \in Seq(Steps)
  BY FlushSteps DEF Chain
<1>8. Flush \o l # <<>>
  <2>1. Flush # <<>>
    BY FlushSteps
  <2> QED
    BY <1>6, <1>7, <2>1, ConcatEqualIffEmpty
<1>9. /\ Chain(<<v, w>> \o (Flush \o l), h) /\ First(<<v, w>> \o (Flush \o l)) = v
      /\ Goal(<<v, w>> \o (Flush \o l)) = Closing /\ ~ Switches(<<v, w>> \o (Flush \o l))
  <2> DEFINE t == Flush \o l
  <2>1. /\ Chain(t, h) /\ t # <<>> /\ First(t) \in Follow[w] /\ Goal(t) = Closing
        /\ ~ Switches(t)
    BY <1>4, <1>5, <1>8
  <2> HIDE DEF t
  <2>2. /\ Chain(<<v, w>> \o t, h) /\ First(<<v, w>> \o t) = v
        /\ Goal(<<v, w>> \o t) = Closing /\ ~ Switches(<<v, w>> \o t)
    BY <1>1, <1>2, <2>1, ChainPair
  <2> QED
    BY <2>2 DEF t
<1>10. (s \o Flush) \o l = s \o (Flush \o l)
  BY <1>6, <1>7, ConcatAssociative
<1>11. /\ Chain((s \o Flush) \o l, h) /\ First((s \o Flush) \o l) = v
       /\ Goal((s \o Flush) \o l) = Closing /\ ~ Switches((s \o Flush) \o l)
  BY <1>9, <1>10 DEF s
<1> QED
  BY <1>11 DEF s, l, v, w, x, h
-----------------------------------------------------------------------------
LEMMA FollowSteps ==
  /\ Follow["more"] = {"more again"}
  /\ Follow["more again"] = {"wait bufdone", "syncpoint?", "not high?", "halted?",
                             "low context"}
  /\ Follow["bufdone?"] = {"clear bufdone"} /\ Follow["wait bufdone"] = {"clear bufdone"}
  /\ Follow["clear bufdone"] = {"switch"} /\ Follow["switch"] = {"hand off"}
  /\ Follow["hand off"] = {"leave"} /\ Follow["leave"] = {"more"}
  /\ Follow["patch epilog"] = {"patch swap"} /\ Follow["patch swap"] = {"request"}
  /\ Follow["request"] = {"prolog"} /\ Follow["prolog"] = {"more"}
  /\ Follow["jump epilog"] = {"swap epilog"} /\ Follow["swap epilog"] = {"more"}
  /\ \A s \in Finals \ {"more again"} : Follow[s] = {}
  BY DEF Follow, Steps, Finals

(* What the step says of the rest of the call.                             *)
LEMMA StepFacts ==
  ASSUME NEW c, NEW t, Chain(t, c)
  PROVE  /\ t = <<>> <=> First(t) = NoStep
         /\ t # <<>> => /\ First(t) \in Steps /\ Goal(t) \in Finals
                        /\ c = "low" => First(t) \notin HighSteps
                        /\ c # "low" => First(t) \notin LowSteps
                        /\ First(t) \in Epilogs => Goal(t) = Closing
                        /\ Goal(t) = Closing => First(t) \in Endings
         /\ t = <<>> => Goal(t) = NoStep
         /\ First(t) = Turn => Switches(t)
<1>1. t = <<>> => First(t) = NoStep /\ Goal(t) = NoStep
  BY DEF First, Goal
<1>2. ASSUME t # <<>>
      PROVE  /\ First(t) \in Steps /\ Goal(t) \in Finals
             /\ c = "low" => First(t) \notin HighSteps
             /\ c # "low" => First(t) \notin LowSteps
             /\ First(t) \in Epilogs => Goal(t) = Closing
             /\ Goal(t) = Closing => First(t) \in Endings
             /\ First(t) = Turn => Switches(t)
  <2>1. t \in Seq(Steps) /\ 1 \in 1 .. Len(t) /\ Len(t) \in 1 .. Len(t)
    BY <1>2 DEF Chain
  <2>2. First(t) = t[1] /\ Goal(t) = t[Len(t)] /\ t[1] \in Steps
    BY <1>2, <2>1 DEF First, Goal
  <2>3. t[Len(t)] \in Finals
    BY <2>1 DEF Chain
  <2>4. IF c = "low" THEN t[1] \notin HighSteps ELSE t[1] \notin LowSteps
    BY <2>1 DEF Chain
  <2>5. /\ t[1] \in Epilogs => t[Len(t)] = Closing
        /\ t[Len(t)] = Closing => t[1] \in Endings
    BY <2>1 DEF Chain
  <2>6. t[1] = Turn => Switches(t)
    BY <2>1 DEF Switches
  <2> QED
    BY <2>2, <2>3, <2>4, <2>5, <2>6
<1>3. NoStep \notin Steps /\ NoStep # Turn
  BY DEF NoStep, Steps, Turn
<1> QED
  BY <1>1, <1>2, <1>3

(* The steps during which no buffer is moved and no sequence is begun or   *)
(* ended.                                                                  *)
LEMMA PlainPhase ==
  /\ Step \notin Phases => Phase = "plain"
  /\ Step \in Phases => Phase = Step
  /\ "plain" \notin Phases
  BY DEF Phase, Phases

LEMMA SamePhaseIf ==
  ASSUME Step \notin Phases, (Step \notin Phases)',
         \/ ctx' = ctx
         \/ ctx # "low" /\ Closed /\ ctx' = "low",
         \/ ctx = "low"
         \/ Goal(todo) # Closing /\ Goal(todo') # Closing
         \/ Goal(todo) = Closing /\ Step \in {"more", "more again", "low context"}
            /\ (ctx' = "low" \/ Goal(todo') = Closing)
            /\ (ctx' = "low" \/ Step' \in {"more", "more again", "low context"})
  PROVE  SamePhase
<1>1. Phase = "plain" /\ Phase' = "plain" /\ "plain" \notin Phases
  BY DEF Phase, Phases
<1>2. Closed' <=> Closed
  BY <1>1 DEF Closed
<1>3. \A q \in Queues, s \in Phases : ~ Moving(q, s)' /\ ~ Moving(q, s)
  BY <1>1 DEF Moving
<1> QED
  BY <1>1, <1>2, <1>3 DEF SamePhase

(* The signals that the queues depend on.                                  *)
QueueSignals == {"HIGHPRI_REQUESTED", "HIGHPRI_RUNNING", "BUFDONE_LOW", "BUFDONE_HIGH"}
SameSignals == \A s \in QueueSignals : s \in status' <=> s \in status

LEMMA SamePlacesIf ==
  ASSUME SameSignals, UNCHANGED <<rpc, at, cmd, stack, done>>
  PROVE  SamePlaces /\ Here' = Here
<1>1. (High' <=> High) /\ (Requested' <=> Requested)
  BY DEF SameSignals, QueueSignals, High, Requested
<1>2. \A q \in Queues : (Bufdone(q) \in status)' <=> Bufdone(q) \in status
  BY DEF SameSignals, QueueSignals, Bufdone, Queues
<1>3. Here' = Here
  BY DEF Here
<1>4. \A q \in Queues : Place(q)' = Place(q)
  BY <1>1, <1>3 DEF Place
<1> QED
  BY <1>1, <1>2, <1>3, <1>4 DEF SamePlaces

LEMMA SameCopy ==
  ASSUME NEW D, Copy(D), SameBuffers, UNCHANGED <<rpc, at, cmd, snap>>, Here' = Here,
         Phase' = Phase, High' <=> High, Requested' <=> Requested
  PROVE  Copy(D)'
<1>1. buf' = buf /\ ends' = ends /\ Active("high")' = Active("high")
  BY DEF SameBuffers, Active
<1>2. \A b, k : Copied(D, b, k) => Copied(D, b, k)'
  BY <1>1 DEF Copied
<1> QED
  BY <1>1, <1>2 DEF Copy

(* All that concerns the contents of the queues and the place of the RSP.  *)
Queue(D) == /\ Counts(D) /\ Items(D) /\ Tails /\ Epilogue /\ Copy(D)
            /\ Stand(D) /\ Handshake /\ Requests

LEMMA QuietCall ==
  ASSUME NEW D, Queue(D), idx \in [Queues -> {0, 1}], SameBuffers, SamePhase,
         SameSignals, UNCHANGED <<rpc, at, cmd, stack, snap, done>>
  PROVE  Queue(D)'
<1>1. SamePlaces /\ Here' = Here /\ at' = at /\ UNCHANGED <<rpc, snap, cmd, at>>
  BY SamePlacesIf
<1>2. /\ Counts(D) /\ Items(D) /\ Tails /\ Epilogue /\ Copy(D) /\ Stand(D) /\ Handshake
      /\ Requests
  BY DEF Queue
<1>3. Counts(D)' /\ Items(D)' /\ Tails'
  BY <1>2, SameItems
<1>4. Stand(D)' /\ Handshake'
  BY <1>1, <1>2, SameStand
<1>5. Epilogue' /\ Requests'
  BY <1>1, <1>2, SameRequests
<1>6. Copy(D)'
  <2>1. Phase' = Phase /\ (High' <=> High) /\ (Requested' <=> Requested)
    BY <1>1 DEF SamePhase, SamePlaces
  <2> QED
    BY <1>1, <1>2, <2>1, SameCopy
<1> QED
  BY <1>3, <1>4, <1>5, <1>6 DEF Queue
-----------------------------------------------------------------------------
(* Steps of the CPU that leave the queues alone.                           *)
Quiet ==
  /\ SamePhase /\ SameSignals /\ Chain(todo, ctx)' /\ ctx' \in Queues
  /\ status' \subseteq Signals /\ handler' \in {"idle", "acknowledged"}
  /\ syncDone' \in Nat /\ fresh' \in BOOLEAN /\ late' \in BOOLEAN
  /\ UNCHANGED <<memory, idx, sentinel, rsp, issued, done, ends, syncAt>>

LEMMA QuietInvariant ==
  ASSUME NEW D, Types, Queue(D), Quiet
  PROVE  Types' /\ Queue(D)'
<1>1. UNCHANGED <<buf, used, idx, sentinel, rpc, at, snap, cmd, stack, issued, done, ends,
                  syncAt>>
  BY DEF Quiet, memory, rsp
<1>2. Types'
  BY <1>1 DEF Types, Quiet
<1>3. Queue(D)'
  BY <1>1, QuietCall DEF Types, Quiet, SameBuffers
<1> QED
  BY <1>2, <1>3

(* The beginning of a call that does not move a buffer.                    *)
LEMMA Beginning ==
  ASSUME Types, NEW steps, StartCall(steps), Chain(steps, ctx), ctx' = ctx, UNCHANGED cpu,
         First(steps) \notin Phases \cup {"clear bufdone"},
         ctx = "low" \/ Goal(steps) # Closing \/ First(steps) \notin {"more", "more again", "low context"}
  PROVE  Quiet /\ Waited'
<1>1. /\ todo = <<>> /\ todo' = steps /\ ctx' = ctx
      /\ UNCHANGED <<memory, status, handler, syncDone, rsp, history, late, idx, sentinel>>
  BY DEF StartCall, Free, cpu
<1>2. Step = NoStep /\ Goal(todo) = NoStep /\ Step' = First(steps)
  BY <1>1 DEF Step, First, Goal
<1>3. NoStep \notin Phases /\ NoStep # Closing
  BY DEF Phases, NoStep, Closing
<1>4. SamePhase
  <2>1. Phase = "plain" /\ Phase' = "plain"
    BY <1>2, <1>3 DEF Phase
  <2>2. Closed <=> ctx = "low"
    BY <1>2, <1>3, <2>1 DEF Closed
  <2>3. Closed' <=> ctx = "low"
    BY <1>1, <1>2, <2>1 DEF Closed
  <2> QED
    BY <2>1, <2>2, <2>3, PlainPhase DEF SamePhase, Moving
<1>5. UNCHANGED <<issued, done, ends, syncAt, fresh>>
  BY <1>1 DEF history
<1>6. Quiet
  BY <1>1, <1>4, <1>5 DEF Quiet, Types, SameSignals
<1> QED
  BY <1>2, <1>6 DEF Waited

LEMMA QuietCalls ==
  ASSUME Types, RspqFlush \/ RspqSyncpointWait \/ RspqHighpriSync \/ RspqHighpriEnd
  PROVE  Quiet /\ Waited'
<1>1. "more" \notin Phases \cup {"clear bufdone"} /\ Again # Closing
  BY DEF Phases, Again, Closing
<1>2. CASE RspqFlush
  <2>1. StartCall(Flush) /\ UNCHANGED cpu /\ ctx' = ctx
    BY <1>2 DEF RspqFlush, cpu
  <2>2. Chain(Flush, ctx) /\ First(Flush) = "more" /\ Goal(Flush) # Closing
    BY <1>1, FlushSteps
  <2> QED
    BY <1>1, <2>1, <2>2, Beginning
<1>3. CASE RspqSyncpointWait
  <2> DEFINE s == "syncpoint?"
             c == Flush \o <<s>>
  <2>1. StartCall(c) /\ UNCHANGED cpu /\ ctx' = ctx /\ ctx = "low"
    BY <1>3 DEF RspqSyncpointWait, cpu
  <2>2. s \in Follow[Again] \ {"wait bufdone"} /\ s \notin HighSteps
    BY DEF Follow, Again, Steps, HighSteps
  <2>3. Chain(c, ctx) /\ First(c) = "more"
    BY <2>1, <2>2, FlushAnd
  <2> QED
    BY <1>1, <2>1, <2>3, Beginning
<1>4. CASE RspqHighpriSync
  <2>1. CASE ctx = "high"
    <3> DEFINE s == "halted?"
               c == Flush \o <<s>>
    <3>1. StartCall(c) /\ UNCHANGED cpu /\ ctx' = ctx
      BY <1>4, <2>1 DEF RspqHighpriSync, cpu
    <3>2. s \in Follow[Again] \ {"wait bufdone"} /\ s \notin LowSteps /\ s # Closing
      BY DEF Follow, Again, Steps, LowSteps, Closing
    <3>3. Chain(c, ctx) /\ First(c) = "more" /\ Goal(c) # Closing
      BY <2>1, <3>2, FlushAnd
    <3> QED
      BY <1>1, <3>1, <3>3, Beginning
  <2>2. CASE ctx # "high"
    <3> DEFINE s == "not high?"
               c == Flush \o <<s>>
    <3>1. StartCall(c) /\ UNCHANGED cpu /\ ctx' = ctx /\ ctx = "low"
      BY <1>4, <2>2 DEF RspqHighpriSync, cpu, Types, Queues
    <3>2. s \in Follow[Again] \ {"wait bufdone"} /\ s \notin HighSteps
      BY DEF Follow, Again, Steps, HighSteps
    <3>3. Chain(c, ctx) /\ First(c) = "more"
      BY <3>1, <3>2, FlushAnd
    <3> QED
      BY <1>1, <3>1, <3>3, Beginning
  <2> QED
    BY <2>1, <2>2
<1>5. CASE RspqHighpriEnd
  <2> DEFINE c == <<"jump epilog", "swap epilog">> \o Flush \o <<"low context">>
  <2>1. StartCall(c) /\ UNCHANGED cpu /\ ctx' = ctx /\ ctx = "high"
    BY <1>5 DEF RspqHighpriEnd, cpu
  <2>2. Chain(c, ctx) /\ First(c) = "jump epilog"
    BY <2>1, EndSteps
  <2>3. /\ First(c) \notin Phases \cup {"clear bufdone"}
        /\ First(c) \notin {"more", "more again", "low context"}
    BY <2>2 DEF Phases
  <2> QED
    BY <2>1, <2>2, <2>3, Beginning
<1> QED
  BY <1>2, <1>3, <1>4, <1>5

(* A step of such a call.                                                  *)
LEMMA QuietStep ==
  ASSUME Types, NEW s, Doing(s), todo' = Tail(todo), s \notin Phases,
         s \notin {"clear bufdone", "jump epilog", "low context"}, UNCHANGED ctx
  PROVE  /\ SamePhase /\ Chain(todo, ctx)' /\ Step = s
         /\ Step' = "clear bufdone" => s \in {"bufdone?", "wait bufdone"}
<1>1. /\ Chain(todo, ctx) /\ Step = s /\ Chain(todo', ctx') /\ s \in Steps /\ todo # <<>>
      /\ Step' = NoStep => s \in Finals /\ Goal(todo) = s
      /\ Step' # NoStep => Step' \in Follow[s] /\ Goal(todo') = Goal(todo)
  BY NextStep DEF Types
<1>2. s \in {"more", "more again", "bufdone?", "wait bufdone", "halted?", "not high?",
             "syncpoint?"}
  BY <1>1 DEF Steps, Phases
<1>3. NoStep \notin Phases \cup {"clear bufdone"} /\ NoStep # Closing
  BY DEF Phases, NoStep, Closing
<1>4. Step' \notin Phases /\ (Step' = "clear bufdone" => s \in {"bufdone?", "wait bufdone"})
  <2>1. CASE Step' = NoStep
    BY <2>1, <1>3
  <2>2. CASE Step' # NoStep
    <3>1. Step' \in Follow[s]
      BY <1>1, <2>2
    <3>2. \A t \in Follow[s] : t \notin Phases
                               /\ (t = "clear bufdone" => s \in {"bufdone?", "wait bufdone"})
      <4>1. s \in {"halted?", "not high?", "syncpoint?"} => s \in Finals \ {"more again"}
        BY DEF Finals
      <4> QED
        BY <1>2, <4>1, FollowSteps, ZenonT(60) DEF Phases
    <3> QED
      BY <3>1, <3>2
  <2> QED
    BY <2>1, <2>2
<1>5. \/ Goal(todo) # Closing /\ Goal(todo') # Closing
      \/ /\ Goal(todo) = Closing /\ Step \in {"more", "more again", "low context"}
         /\ Goal(todo') = Closing /\ Step' \in {"more", "more again", "low context"}
  <2>1. Goal(todo) = Closing => s \in Endings
    BY <1>1, StepFacts DEF Step
  <2>2. CASE Step' = NoStep
    <3>1. todo' = <<>> /\ s \in Finals
      BY <2>2, <1>1, StepFacts DEF Step
    <3>2. Goal(todo') = NoStep
      BY <3>1 DEF Goal
    <3>3. Goal(todo) # Closing
      BY <2>2, <1>1 DEF Closing
    <3> QED
      BY <3>2, <3>3, <1>3
  <2>3. CASE Step' # NoStep
    <3>1. Step' \in Follow[s] /\ Goal(todo') = Goal(todo)
      BY <2>3, <1>1
    <3>2. CASE Goal(todo) = Closing
      <4>1. s \in {"more", "more again"}
        BY <2>1, <3>2, <1>2 DEF Endings, Epilogs
      <4>2. todo' # <<>>
        BY <2>3, <1>1, StepFacts DEF Step
      <4>3. Step' \in Endings
        BY <4>2, <3>1, <3>2, <1>1, StepFacts DEF Step
      <4>4. Step' \in {"more", "more again", "low context"}
        BY <4>1, <4>3, <3>1, FollowSteps DEF Endings, Epilogs
      <4> QED
        BY <4>1, <4>4, <3>1, <3>2, <1>1
    <3>3. CASE Goal(todo) # Closing
      BY <3>1, <3>3
    <3> QED
      BY <3>2, <3>3
  <2> QED
    BY <2>2, <2>3
<1>6. (Step \notin Phases)' /\ Step \notin Phases
  BY <1>1, <1>4
<1>7. SamePhase
  BY <1>5, <1>6, SamePhaseIf
<1> QED
  BY <1>1, <1>4, <1>7
LEMMA WaitSteps ==
  ASSUME NEW c, NEW t, Chain(t, c), t # <<>>, First(t) \in Follow[Await],
         Goal(t) # Closing
  PROVE  LET u == Flush \o <<Await>> \o t IN
         /\ Chain(u, c) /\ First(u) = "more" /\ Goal(u) = Goal(t)
         /\ Switches(u) <=> Switches(t)
<1> DEFINE w == Await
           l == <<w>>
<1>1. /\ w \in Steps /\ w \notin Epilogs /\ w \notin LowSteps /\ w \notin HighSteps
      /\ w # Turn /\ w \in Follow[Again]
  BY DEF Steps, Epilogs, LowSteps, HighSteps, Turn, Follow, Again, Await
<1>2. First(t) \in Follow[w]
  OBVIOUS
<1> HIDE DEF w
<1>3. l \in Seq(Steps) /\ Len(l) = 1 /\ l[1] = w /\ l # <<>>
  BY <1>1
<1> HIDE DEF l
<1>4. \A i \in 1 .. Len(l) : /\ c = "low" => l[i] \notin HighSteps
                             /\ c # "low" => l[i] \notin LowSteps
                             /\ l[i] \in Epilogs => t # <<>> /\ Goal(t) = Closing
                             /\ t # <<>> /\ Goal(t) = Closing => l[i] \in Endings
  BY <1>1, <1>3
<1>5. \A i \in 1 .. (Len(l) - 1) : l[i + 1] \in Follow[l[i]]
  BY <1>3
<1>6. ~ Switches(l)
  BY <1>1, <1>3 DEF Switches
<1>7. First(t) \in Follow[l[Len(l)]]
  BY <1>2, <1>3
<1>8. /\ Chain(l \o t, c) /\ l \o t # <<>> /\ First(l \o t) = w /\ Goal(l \o t) = Goal(t)
      /\ Switches(l \o t) <=> Switches(t)
  BY <1>3, <1>4, <1>5, <1>6, <1>7, ChainJoin, SMTT(40)
<1>9. First(l \o t) \in Follow[Again]
  BY <1>1, <1>8
<1>10. /\ Chain(Flush \o (l \o t), c) /\ First(Flush \o (l \o t)) = "more"
       /\ Goal(Flush \o (l \o t)) = Goal(t)
       /\ Switches(Flush \o (l \o t)) <=> Switches(t)
  BY <1>8, <1>9, FlushThen
<1>11. Flush \in Seq(Steps) /\ t \in Seq(Steps)
  BY FlushSteps DEF Chain
<1>12. (Flush \o l) \o t = Flush \o (l \o t)
  BY <1>3, <1>11, ConcatAssociative
<1>13. /\ Chain((Flush \o l) \o t, c) /\ First((Flush \o l) \o t) = "more"
       /\ Goal((Flush \o l) \o t) = Goal(t)
       /\ Switches((Flush \o l) \o t) <=> Switches(t)
  BY <1>10, <1>12
<1> QED
  BY <1>13 DEF l, w

LEMMA CheckSteps ==
  ASSUME Types, CheckBufdone
  PROVE  /\ Step = "bufdone?"
         /\ \/ Bufdone(ctx) \in status /\ todo' = Tail(todo)
            \/ /\ Bufdone(ctx) \notin status /\ Step' = "more" /\ Chain(todo', ctx)
               /\ Goal(todo) # Closing /\ Goal(todo') # Closing
               /\ Switches(todo) => Switches(todo')
<1> DEFINE s == "bufdone?"
           t == Tail(todo)
<1>1. /\ Doing(s)
      /\ todo' = (IF Bufdone(ctx) \in status THEN <<>> ELSE Flush \o <<"wait bufdone">>) \o t
  BY DEF CheckBufdone
<1>2. /\ todo # <<>> /\ Head(todo) = s /\ Chain(todo, ctx)
  BY <1>1 DEF Doing, Types
<1>3. s \notin Finals /\ s \notin Endings /\ s # Turn /\ Follow[s] = Follow[Await]
  BY FollowSteps DEF Finals, Endings, Epilogs, Turn, Await
<1> HIDE DEF s
<1>4. /\ Chain(t, ctx) /\ First(todo) = s
      /\ First(t) = NoStep => First(todo) \in Finals
      /\ First(t) # NoStep => First(t) \in Follow[s] /\ Goal(t) = Goal(todo)
      /\ Switches(todo) => First(todo) = Turn \/ Switches(t)
  BY <1>2, ChainTail
<1>5. /\ Goal(todo) # Closing /\ First(t) \in Follow[s] /\ Goal(t) # Closing /\ t # <<>>
  BY <1>2, <1>3, <1>4, StepFacts
<1>6. t \in Seq(Steps)
  BY <1>4 DEF Chain
<1> HIDE DEF t
<1>7. CASE Bufdone(ctx) \in status
  <2>1. todo' = <<>> \o t
    BY <1>1, <1>7
  <2>2. todo' = t
    BY <2>1, <1>6, ConcatEmptySeq
  <2> QED
    BY <2>2, <1>4, <1>7 DEF s, t, Step
<1>8. CASE Bufdone(ctx) \notin status
  <2>1. todo' = Flush \o <<Await>> \o t
    BY <1>1, <1>8 DEF Await
  <2>2. /\ Chain(todo', ctx) /\ First(todo') = "more" /\ Goal(todo') = Goal(t)
        /\ Switches(todo') <=> Switches(t)
    BY <2>1, <1>3, <1>4, <1>5, WaitSteps
  <2> QED
    BY <2>2, <1>3, <1>4, <1>5, <1>8 DEF s, Step
<1> QED
  BY <1>7, <1>8

LEMMA QuietCallSteps ==
  ASSUME Types,
         \/ FlushMore \/ FlushMoreAgain \/ CheckBufdone \/ WaitBufdone \/ LowContext
         \/ WaitHalted \/ WaitNotHigh \/ WaitSyncpoint
  PROVE  Quiet /\ Waited'
<1>1. ASSUME NEW s, Doing(s), todo' = Tail(todo), s \notin Phases,
             s \notin {"clear bufdone", "jump epilog", "low context"}, UNCHANGED ctx,
             s \in {"bufdone?", "wait bufdone"} => Bufdone(ctx) \in status, SameSignals,
             status' \subseteq Signals, fresh' \in BOOLEAN, late' \in BOOLEAN,
             UNCHANGED <<memory, cpu, handler, syncDone, rsp, issued, done, ends, syncAt>>
      PROVE  Quiet /\ Waited'
  <2>1. /\ SamePhase /\ Chain(todo, ctx)' /\ Step = s
        /\ Step' = "clear bufdone" => s \in {"bufdone?", "wait bufdone"}
    BY <1>1, QuietStep
  <2>2. UNCHANGED <<idx, sentinel, ctx>>
    BY <1>1 DEF cpu
  <2>3. Quiet
    BY <1>1, <2>1, <2>2 DEF Quiet, Types
  <2>4. Waited'
    <3>1. Bufdone(ctx)' = Bufdone(ctx) /\ Bufdone(ctx) \in QueueSignals
      BY <2>2 DEF Bufdone, QueueSignals
    <3> QED
      BY <1>1, <2>1, <3>1 DEF Waited, SameSignals
  <2> QED
    BY <2>3, <2>4
<1>2. status \subseteq Signals /\ fresh \in BOOLEAN /\ late \in BOOLEAN
  BY DEF Types
<1>3. CASE FlushMore
  <2>1. SameSignals /\ status' \subseteq Signals
    BY <1>2, <1>3 DEF FlushMore, WriteSpStatus, Signal, SameSignals, QueueSignals, Signals
  <2>2. /\ fresh' \in BOOLEAN /\ late' \in BOOLEAN /\ Doing("more") /\ todo' = Tail(todo)
        /\ UNCHANGED <<memory, cpu, handler, syncDone, rsp, issued, done, ends, syncAt>>
    BY <1>3 DEF FlushMore, WriteSpStatus
  <2>3. UNCHANGED ctx
    BY <2>2 DEF cpu
  <2>4. "more" \notin Phases
    BY DEF Phases
  <2> QED
    BY <1>1, <2>1, <2>2, <2>3, <2>4
<1>4. CASE FlushMoreAgain
  <2>1. SameSignals /\ status' \subseteq Signals
    BY <1>2, <1>4 DEF FlushMoreAgain, WriteSpStatus, Signal, SameSignals, QueueSignals, Signals
  <2>2. /\ fresh' \in BOOLEAN /\ late' \in BOOLEAN /\ Doing("more again") /\ todo' = Tail(todo)
        /\ UNCHANGED <<memory, cpu, handler, syncDone, rsp, issued, done, ends, syncAt>>
    BY <1>2, <1>4 DEF FlushMoreAgain, WriteSpStatus
  <2>3. UNCHANGED ctx
    BY <2>2 DEF cpu
  <2>4. "more again" \notin Phases
    BY DEF Phases
  <2> QED
    BY <1>1, <2>1, <2>2, <2>3, <2>4
<1>5. ASSUME NEW s, NEW condition, Wait(s, condition)
      PROVE  /\ Doing(s) /\ todo' = Tail(todo) /\ condition /\ UNCHANGED ctx
             /\ fresh' \in BOOLEAN /\ late' \in BOOLEAN /\ SameSignals
             /\ status' \subseteq Signals
             /\ UNCHANGED <<memory, cpu, handler, syncDone, rsp, issued, done, ends, syncAt>>
  BY <1>2, <1>5 DEF Wait, cpu, history, SameSignals
<1>6. CASE WaitBufdone
  <2>1. "wait bufdone" \notin Phases
    BY DEF Phases
  <2>2. Wait("wait bufdone", Bufdone(ctx) \in status)
    BY <1>6 DEF WaitBufdone
  <2> QED
    BY <1>1, <1>5, <2>1, <2>2
<1>7. CASE WaitHalted
  <2>1. "halted?" \notin Phases
    BY DEF Phases
  <2>2. Wait("halted?", "HALTED" \in status)
    BY <1>7 DEF WaitHalted
  <2> QED
    BY <1>1, <1>5, <2>1, <2>2
<1>8. CASE WaitNotHigh
  <2>1. "not high?" \notin Phases
    BY DEF Phases
  <2>2. Wait("not high?", status \cap {"HIGHPRI_REQUESTED", "HIGHPRI_RUNNING"} = {})
    BY <1>8 DEF WaitNotHigh
  <2> QED
    BY <1>1, <1>5, <2>1, <2>2
<1>9. CASE WaitSyncpoint
  <2>1. "syncpoint?" \notin Phases
    BY DEF Phases
  <2>2. Wait("syncpoint?", syncDone >= Len(syncAt))
    BY <1>9 DEF WaitSyncpoint
  <2> QED
    BY <1>1, <1>5, <2>1, <2>2
<1>10. CASE CheckBufdone
  <2>1. /\ Doing("bufdone?") /\ UNCHANGED <<memory, status, cpu, handler, syncDone, rsp,
                                            history, late>>
    BY <1>10 DEF CheckBufdone
  <2>2. /\ UNCHANGED ctx /\ fresh' \in BOOLEAN /\ late' \in BOOLEAN /\ SameSignals
        /\ status' \subseteq Signals /\ UNCHANGED <<idx, sentinel>>
        /\ UNCHANGED <<memory, cpu, handler, syncDone, rsp, issued, done, ends, syncAt>>
    BY <1>2, <2>1 DEF cpu, history, SameSignals
  <2>3. CASE Bufdone(ctx) \in status /\ todo' = Tail(todo)
    <3>1. "bufdone?" \notin Phases
      BY DEF Phases
    <3> QED
      BY <1>1, <2>1, <2>2, <2>3, <3>1
  <2>4. CASE /\ Step = "bufdone?" /\ Step' = "more" /\ Chain(todo', ctx)
             /\ Goal(todo) # Closing /\ Goal(todo') # Closing
    <3>1. Step \notin Phases /\ (Step \notin Phases)' /\ Step' # "clear bufdone"
      BY <2>4 DEF Phases
    <3>2. SamePhase
      BY <2>2, <2>4, <3>1, SamePhaseIf
    <3> QED
      BY <2>2, <2>4, <3>1, <3>2 DEF Quiet, Waited, Types
  <2> QED
    BY <1>10, <2>3, <2>4, CheckSteps
<1>11. CASE LowContext
  <2>1. /\ Doing("low context") /\ ctx' = "low" /\ todo' = Tail(todo)
        /\ UNCHANGED <<memory, status, idx, sentinel, handler, syncDone, rsp, history, late>>
    BY <1>11 DEF LowContext
  <2>2. /\ Chain(todo, ctx) /\ Step = "low context" /\ todo # <<>>
        /\ Step' = NoStep => Goal(todo) = "low context"
        /\ Step' # NoStep => Step' \in Follow["low context"]
        /\ Chain(todo', ctx)
    BY <2>1, NextStep DEF Types
  <2>3. "low context" \in HighSteps /\ "low context" \in Finals \ {"more again"}
        /\ Closing = "low context"
    BY DEF HighSteps, Finals, Closing
  <2>4. ctx # "low" /\ Step' = NoStep /\ Goal(todo) = Closing
    <3>1. First(todo) = "low context" /\ (ctx = "low" => First(todo) \notin HighSteps)
      BY <2>2, StepFacts DEF Step
    <3>2. Follow["low context"] = {}
      BY <2>3, FollowSteps
    <3> QED
      BY <2>2, <2>3, <3>1, <3>2
  <2>5. todo' = <<>>
    BY <2>2, <2>4, StepFacts DEF Step
  <2>6. Chain(todo', "low")
    BY <2>5, NoCall
  <2>7. Step \notin Phases /\ (Step \notin Phases)' /\ Step' # "clear bufdone"
    BY <2>2, <2>4 DEF Phases, NoStep
  <2>8. Closed
    BY <2>2, <2>4 DEF Closed
  <2>9. SamePhase
    BY <2>1, <2>2, <2>4, <2>7, <2>8, SamePhaseIf
  <2>10. /\ fresh' \in BOOLEAN /\ late' \in BOOLEAN /\ SameSignals /\ "low" \in Queues
         /\ status' \subseteq Signals /\ UNCHANGED <<issued, done, ends, syncAt>>
    BY <1>2, <2>1 DEF history, SameSignals, Queues
  <2> QED
    BY <2>1, <2>6, <2>7, <2>9, <2>10 DEF Quiet, Waited, Types
<1> QED
  BY <1>3, <1>4, <1>6, <1>7, <1>8, <1>9, <1>10, <1>11

LEMMA QuietInterrupts ==
  ASSUME Types, Waited, Acknowledge \/ SpInterrupt
  PROVE  Quiet /\ Waited'
<1>1. /\ UNCHANGED <<memory, cpu, todo, rsp, history, late>>
      /\ handler' \in {"idle", "acknowledged"}
  BY DEF Acknowledge, SpInterrupt
<1>2. UNCHANGED <<ctx, idx, sentinel, issued, done, ends, syncAt, fresh>>
  BY <1>1 DEF cpu, history
<1>3. SamePhase /\ Step' = Step
  BY <1>1, <1>2 DEF SamePhase, Phase, Step, Closed, Moving
<1>4. SameSignals /\ status' \subseteq Signals
  BY DEF Acknowledge, SpInterrupt, Signal, SameSignals, QueueSignals, Signals, Types
<1>5. syncDone' \in Nat
  BY DEF Acknowledge, SpInterrupt, Types
<1>6. Quiet
  BY <1>1, <1>2, <1>3, <1>4, <1>5 DEF Quiet, Types
<1>7. Waited'
  <2>1. Bufdone(ctx)' = Bufdone(ctx) /\ Bufdone(ctx) \in QueueSignals
    BY <1>2 DEF Bufdone, QueueSignals
  <2> QED
    BY <1>3, <1>4, <2>1 DEF Waited, SameSignals
<1> QED
  BY <1>6, <1>7
-----------------------------------------------------------------------------
(* What a command adds to the numbers.                                      *)
Weight(c) == IF Numbered(c) THEN 1 ELSE 0

(* A command appended to a buffer, and what that means for the counts.     *)
Grows(b, c) == buf' = [buf EXCEPT ![b] = Append(@, c)] /\ idx' = idx

Next1(D, b, c) ==
  D[b][Len(buf[b]) + 1] + Weight(c)
Put(D, b, i, m) == [D EXCEPT ![b] = [@ EXCEPT ![i] = m]]
Extended(D, b, c) == Put(D, b, Len(buf[b]) + 2, Next1(D, b, c))

(* The length of a sequence of commands.                                    *)
LEMMA SomeLength == ASSUME NEW s \in Seq(Commands) PROVE Len(s) \in Nat
  OBVIOUS

LEMMA GrownBuffers ==
  ASSUME NEW a \in Buffers, NEW c \in Commands,
         buf \in [Buffers \cup {Block} -> Seq(Commands)], Grows(a, c)
  PROVE  /\ \A b \in Buffers \cup {Block} : b # a => buf'[b] = buf[b]
         /\ buf' \in [Buffers \cup {Block} -> Seq(Commands)]
         /\ Len(buf[a]) \in Nat /\ Len(buf'[a]) = Len(buf[a]) + 1
         /\ buf'[a][Len(buf[a]) + 1] = c /\ buf'[a] # <<>>
         /\ \A k \in 1 .. Len(buf[a]) : buf'[a][k] = buf[a][k]
<1>1. buf[a] \in Seq(Commands) /\ a \in Buffers \cup {Block}
  OBVIOUS
<1>2. buf'[a] = Append(buf[a], c) /\ \A b \in Buffers \cup {Block} : b # a => buf'[b] = buf[b]
  BY <1>1 DEF Grows
<1>3. /\ Append(buf[a], c) \in Seq(Commands) /\ Len(buf'[a]) = Len(buf[a]) + 1
      /\ buf'[a][Len(buf[a]) + 1] = c /\ Len(buf[a]) \in Nat
      /\ buf'[a] # <<>> /\ \A k \in 1 .. Len(buf[a]) : buf'[a][k] = buf[a][k]
  BY <1>1, <1>2, Appended
<1>4. buf' \in [Buffers \cup {Block} -> Seq(Commands)]
  BY <1>3 DEF Grows
<1> QED
  BY <1>2, <1>3, <1>4

LEMMA GrownLengths ==
  ASSUME NEW a \in Buffers, NEW c \in Commands,
         buf \in [Buffers \cup {Block} -> Seq(Commands)], Grows(a, c),
         NEW b \in Buffers
  PROVE  /\ Len(buf[b]) \in Nat /\ Len(buf'[b]) \in Nat /\ Len(buf[b]) <= Len(buf'[b])
         /\ \A k \in 1 .. Len(buf[b]) : k \in 1 .. Len(buf'[b]) /\ buf'[b][k] = buf[b][k]
         /\ \A k \in 1 .. Len(buf'[b]) :
               k \in 1 .. Len(buf[b]) \/ (b = a /\ k = Len(buf[a]) + 1)
<1>1. CASE b = a
  BY <1>1, GrownBuffers
<1>2. CASE b # a
  <2>1. buf'[b] = buf[b] /\ buf[b] \in Seq(Commands)
    BY <1>2, GrownBuffers
  <2>2. Len(buf[b]) \in Nat
    BY <2>1, SomeLength
  <2> QED
    BY <2>1, <2>2
<1> QED
  BY <1>1, <1>2

LEMMA GrownNames ==
  ASSUME NEW a, NEW c, Grows(a, c)
  PROVE  \A q \in Queues : /\ Active(q)' = Active(q) /\ Other(q)' = Other(q)
                           /\ HandsOver(q)' = HandsOver(q) /\ Leaves(q)' = Leaves(q)
  BY DEF Grows, Active, Other, HandsOver, Leaves

LEMMA TheWeight ==
  ASSUME NEW c
  PROVE  Weight(c) \in {0, 1} /\ (Numbered(c) => Weight(c) = 1) /\ (~ Numbered(c) => Weight(c) = 0)
  BY DEF Weight

LEMMA NextNumber ==
  ASSUME NEW D \in Numbers, NEW a \in Buffers, NEW c, Len(buf[a]) \in Nat
  PROVE  /\ Next1(D, a, c) = D[a][Len(buf[a]) + 1] + Weight(c)
         /\ D[a][Len(buf[a]) + 1] \in Nat
         /\ Next1(D, a, c) \in Nat /\ Next1(D, a, c) >= D[a][Len(buf[a]) + 1]
<1> DEFINE x == D[a][Len(buf[a]) + 1]
<1>1. Next1(D, a, c) = x + Weight(c)
  BY DEF Next1
<1>2. x \in Nat
  BY DEF Numbers
<1>3. Weight(c) \in {0, 1}
  BY TheWeight
<1> HIDE DEF x
<1>4. x + Weight(c) \in Nat /\ x + Weight(c) >= x
  BY <1>2, <1>3
<1> QED
  BY <1>1, <1>2, <1>4 DEF x

LEMMA ExtendedNumbers ==
  ASSUME NEW D \in Numbers, NEW a \in Buffers, NEW c, Len(buf[a]) \in Nat,
         NEW E, E = Extended(D, a, c)
  PROVE  /\ E \in Numbers /\ E[a][Len(buf[a]) + 2] = Next1(D, a, c)
         /\ \A b \in Buffers \ {a} : E[b] = D[b]
         /\ \A k \in Nat \ {Len(buf[a]) + 2} : E[a][k] = D[a][k]
<1> DEFINE m == Next1(D, a, c)
           i == Len(buf[a]) + 2
<1>1. m \in Nat /\ i \in Nat
  BY NextNumber
<1>2. E = Put(D, a, i, m)
  BY DEF Extended
<1> HIDE DEF m, i
<1> DEFINE f == [D[a] EXCEPT ![i] = m]
<1>3. D[a] \in [Nat -> Nat]
  BY DEF Numbers
<1>4. f \in [Nat -> Nat] /\ f[i] = m /\ \A k \in Nat \ {i} : f[k] = D[a][k]
  BY <1>1, <1>3
<1>5. E = [D EXCEPT ![a] = f]
  BY <1>2 DEF Put
<1> HIDE DEF f
<1>6. E \in Numbers /\ E[a] = f /\ \A b \in Buffers \ {a} : E[b] = D[b]
  BY <1>4, <1>5 DEF Numbers
<1>7. /\ E \in Numbers /\ E[a][i] = m
      /\ \A b \in Buffers \ {a} : E[b] = D[b]
      /\ \A k \in Nat \ {i} : E[a][k] = D[a][k]
  BY <1>4, <1>6
<1> QED
  BY <1>7 DEF m, i

LEMMA GrownOld ==
  ASSUME NEW D \in Numbers, NEW a \in Buffers, NEW c \in Commands,
         buf \in [Buffers \cup {Block} -> Seq(Commands)], Grows(a, c),
         NEW E, E = Extended(D, a, c),
         NEW b \in Buffers, NEW k \in 1 .. (Len(buf[b]) + 1)
  PROVE  k \in Nat /\ E[b][k] = D[b][k]
<1>1. Len(buf[b]) \in Nat /\ Len(buf[a]) \in Nat
  BY GrownLengths
<1>2. k \in Nat /\ (b = a => k \in Nat \ {Len(buf[a]) + 2})
  BY <1>1
<1>3. Len(buf[a]) \in Nat
  BY <1>1
<1>4. /\ \A x \in Buffers \ {a} : E[x] = D[x]
      /\ \A y \in Nat \ {Len(buf[a]) + 2} : E[a][y] = D[a][y]
  BY <1>3, ExtendedNumbers
<1>5. CASE b = a
  BY <1>2, <1>4, <1>5
<1>6. CASE b # a
  BY <1>2, <1>4, <1>6
<1> QED
  BY <1>5, <1>6

LEMMA GrownCounts ==
  ASSUME NEW D, Counts(D), NEW a \in Buffers, NEW c \in Commands,
         buf \in [Buffers \cup {Block} -> Seq(Commands)], Grows(a, c),
         idx \in [Queues -> {0, 1}], issued \in [Queues -> Nat],
         issued' = [issued EXCEPT ![a[1]] = @ + Weight(c)],
         Numbered(c) => a = Active(a[1]) /\ c.n = issued[a[1]] + 1,
         NEW E, E = Extended(D, a, c)
  PROVE  Counts(E)'
<1> DEFINE n == Len(buf[a])
<1>0. D \in Numbers
  BY DEF Counts
<1>a. n \in Nat /\ Len(buf'[a]) = n + 1 /\ buf'[a][n + 1] = c
  BY GrownBuffers
<1>f. \A b \in Buffers : Len(buf[b]) \in Nat
  BY SomeLength
<1>b. E \in Numbers /\ E[a][n + 2] = Next1(D, a, c)
  BY <1>0, <1>a, ExtendedNumbers
<1>c. \A b \in Buffers : b # a => buf'[b] = buf[b]
  BY GrownBuffers
<1>d. \A b \in Buffers : \A k \in 1 .. (Len(buf[b]) + 1) :
         k \in Nat /\ E[b][k] = D[b][k]
  BY <1>0, GrownOld
<1>e. \A q \in Queues : Active(q)' = Active(q) /\ Other(q)' = Other(q)
  BY GrownNames
<1>h. Next1(D, a, c) = D[a][n + 1] + Weight(c) /\ D[a][n + 1] \in Nat
      /\ Next1(D, a, c) \in Nat /\ Next1(D, a, c) >= D[a][n + 1]
  BY <1>0, <1>a, NextNumber
<1>i. \A b \in Buffers : \A k \in 1 .. Len(buf[b]) :
         /\ k \in 1 .. (Len(buf[b]) + 1) /\ k + 1 \in 1 .. (Len(buf[b]) + 1)
  BY <1>f
<1>g. ASSUME NEW b \in Buffers, NEW k \in 1 .. Len(buf[b])
      PROVE  /\ buf'[b][k] = buf[b][k]
             /\ E[b][k] = D[b][k] /\ E[b][k + 1] = D[b][k + 1]
  <2>1. buf'[b][k] = buf[b][k]
    BY GrownLengths
  <2>2. k \in 1 .. (Len(buf[b]) + 1) /\ k + 1 \in 1 .. (Len(buf[b]) + 1)
    BY <1>i
  <2> QED
    BY <2>1, <2>2, <1>d
<1> HIDE DEF n
<1>2. Next1(D, a, c) = D[a][n + 1] + Weight(c)
  BY <1>h
<1>j. Weight(c) \in {0, 1} /\ (Numbered(c) => Weight(c) = 1) /\ (~ Numbered(c) => Weight(c) = 0)
  BY TheWeight
<1>3. D[a][n + 1] \in Nat /\ E[a][n + 1] = D[a][n + 1] /\ E[a][n + 2] >= E[a][n + 1]
  <2>1. n + 1 \in 1 .. (Len(buf[a]) + 1)
    BY <1>a DEF n
  <2>3. E[a][n + 1] = D[a][n + 1]
    BY <2>1, <1>d
  <2> QED
    BY <2>3, <1>b, <1>h
<1>4. \A q \in Queues : /\ Active(q) \in Buffers /\ Other(q) \in Buffers
                        /\ Active(q)[1] = q /\ Other(q)[1] = q /\ Active(q) # Other(q)
  BY TheBuffers
<1>5. a[1] \in Queues /\ a \in {Active(a[1]), Other(a[1])}
  BY TheBuffers
<1>6. /\ \A q \in Queues : D[Active(q)][Len(buf[Active(q)]) + 1] = issued[q]
      /\ \A q \in Queues : D[Other(q)][Len(buf[Other(q)]) + 1] = D[Active(q)][1]
  BY DEF Counts
<1>7. a = Active(a[1]) => Next1(D, a, c) = issued'[a[1]] /\ D[a][n + 1] = issued[a[1]]
  <2>1. a = Active(a[1]) => D[a][n + 1] = issued[a[1]]
    BY <1>5, <1>6 DEF n
  <2>2. issued'[a[1]] = issued[a[1]] + Weight(c)
    BY <1>5
  <2> QED
    BY <2>1, <2>2, <1>2
<1>8. Numbered(c) => c.n = E[a][n + 2] /\ a = Active(a[1])
  BY <1>b, <1>2, <1>7, <1>j
<1>9. ASSUME NEW b \in Buffers, NEW k \in 1 .. Len(buf'[b]) PROVE Counted(E, b, k)'
  <2>1. CASE b = a /\ k = n + 1
    <3>1. k + 1 = n + 2 /\ buf'[b][k] = c
      BY <1>a, <2>1
    <3>2. E[b][k + 1] = E[b][k] + Weight(c)
      BY <1>b, <1>2, <1>3, <2>1, <3>1
    <3>3. Numbered(c) => c.n = E[b][k + 1]
      BY <1>8, <2>1, <3>1
    <3>4. CASE Numbered(c)
      BY <3>1, <3>2, <3>3, <3>4, <1>j DEF Counted
    <3>5. CASE ~ Numbered(c)
      <4>1. E[b][k + 1] = E[b][k]
        <5>1. Weight(c) = 0 /\ E[b][k] \in Nat
          BY <1>3, <1>j, <2>1, <3>5
        <5> QED
          BY <5>1, <3>2
      <4> QED
        BY <3>1, <3>5, <4>1 DEF Counted
    <3> QED
      BY <3>4, <3>5
  <2>2. CASE b # a \/ k # n + 1
    <3>1. k \in 1 .. Len(buf[b])
      <4>1. CASE b = a
        BY <1>a, <2>2, <4>1 DEF n
      <4>2. CASE b # a
        BY <1>c, <4>2
      <4> QED
        BY <4>1, <4>2
    <3>2. buf'[b][k] = buf[b][k] /\ E[b][k] = D[b][k] /\ E[b][k + 1] = D[b][k + 1]
      BY <3>1, <1>g
    <3>3. Counted(D, b, k)
      BY <3>1 DEF Counts
    <3> QED
      BY <3>2, <3>3 DEF Counted
  <2> QED
    BY <2>1, <2>2
<1>10. ASSUME NEW b \in Buffers, NEW j \in 1 .. (Len(buf'[b]) + 1),
              NEW k \in 1 .. (Len(buf'[b]) + 1), j <= k
       PROVE  E[b][j] <= E[b][k]
  <2>1. \A m \in 1 .. (Len(buf[b]) + 1) : E[b][m] = D[b][m] /\ E[b][m] \in Nat
    <3> TAKE m \in 1 .. (Len(buf[b]) + 1)
    <3>1. m \in Nat /\ E[b][m] = D[b][m]
      BY <1>d
    <3>2. D[b][m] \in Nat
      BY <3>1, <1>0 DEF Numbers
    <3> QED
      BY <3>1, <3>2
  <2>2. \A l, m \in 1 .. (Len(buf[b]) + 1) : l <= m => E[b][l] <= E[b][m]
    BY <2>1 DEF Counts
  <2>3. CASE b # a \/ k # n + 2
    <3>1. j \in 1 .. (Len(buf[b]) + 1) /\ k \in 1 .. (Len(buf[b]) + 1)
      <4>1. CASE b = a
        BY <1>a, <1>10, <2>3, <4>1 DEF n
      <4>2. CASE b # a
        BY <1>c, <4>2
      <4> QED
        BY <4>1, <4>2
    <3> QED
      BY <3>1, <2>2, <1>10
  <2>4. CASE b = a /\ k = n + 2 /\ j = n + 2
    <3>1. E[a][n + 2] \in Nat
      BY <1>b, <1>h
    <3> QED
      BY <3>1, <2>4
  <2>5. CASE b = a /\ k = n + 2 /\ j # n + 2
    <3>1. j \in 1 .. (Len(buf[b]) + 1) /\ n + 1 \in 1 .. (Len(buf[b]) + 1) /\ j <= n + 1
      BY <1>a, <1>10, <2>5 DEF n
    <3>2. E[b][j] <= E[b][n + 1] /\ E[b][j] \in Nat /\ E[b][n + 1] \in Nat
      BY <3>1, <2>1, <2>2
    <3>3. E[b][n + 1] <= E[b][n + 2] /\ E[b][n + 2] \in Nat
      BY <1>b, <1>h, <1>3, <2>5
    <3> QED
      BY <3>2, <3>3, <2>5
  <2> QED
    BY <2>3, <2>4, <2>5
<1>11. ASSUME NEW q \in Queues
       PROVE  /\ E[Active(q)][Len(buf'[Active(q)]) + 1] = issued'[q]
              /\ E[Other(q)][Len(buf'[Other(q)]) + 1] = E[Active(q)][1]
  <2>1. /\ Active(q) \in Buffers /\ Other(q) \in Buffers /\ Active(q) # Other(q)
        /\ Active(q)[1] = q /\ Other(q)[1] = q
    BY <1>4
  <2>2. E[Active(q)][1] = D[Active(q)][1]
    <3>1. 1 \in 1 .. (Len(buf[Active(q)]) + 1)
      BY <2>1, <1>f
    <3> QED
      BY <2>1, <3>1, <1>d
  <2>3. CASE a = Active(q)
    <3>1. E[a][n + 2] = issued'[q]
      BY <2>1, <2>3, <1>b, <1>7
    <3>a. Len(buf'[Active(q)]) + 1 = n + 2
      BY <2>3, <1>a
    <3>b. buf'[Other(q)] = buf[Other(q)]
      BY <2>1, <2>3, <1>c
    <3>2. Len(buf[Other(q)]) + 1 \in 1 .. (Len(buf[Other(q)]) + 1)
      BY <2>1, <1>f
    <3>3. E[Other(q)][Len(buf[Other(q)]) + 1] = D[Other(q)][Len(buf[Other(q)]) + 1]
      BY <2>1, <2>3, <3>2, <1>d
    <3> QED
      BY <3>1, <3>a, <3>b, <3>3, <2>2, <2>3, <1>6
  <2>4. CASE a = Other(q)
    <3>1. ~ Numbered(c) /\ issued'[q] = issued[q]
      <4>1. ~ Numbered(c)
        BY <1>8, <2>1, <2>4
      <4>2. Weight(c) = 0 /\ issued[q] \in Nat /\ a[1] = q
        BY <4>1, <1>j, <2>1, <2>4
      <4>3. issued'[q] = issued[q] + 0
        BY <4>2
      <4> QED
        BY <4>1, <4>2, <4>3
    <3>2. E[a][n + 2] = D[a][n + 1]
      <4>1. Weight(c) = 0
        BY <1>j, <3>1
      <4> QED
        BY <4>1, <1>b, <1>h
    <3>a. Len(buf'[Other(q)]) + 1 = n + 2
      BY <2>4, <1>a
    <3>b. buf'[Active(q)] = buf[Active(q)]
      BY <2>1, <2>4, <1>c
    <3>3. Len(buf[Active(q)]) + 1 \in 1 .. (Len(buf[Active(q)]) + 1)
      BY <2>1, <1>f
    <3>4. E[Active(q)][Len(buf[Active(q)]) + 1] = D[Active(q)][Len(buf[Active(q)]) + 1]
      BY <2>1, <2>4, <3>3, <1>d
    <3>5. D[Other(q)][n + 1] = D[Active(q)][1]
      BY <2>4, <1>6 DEF n
    <3> QED
      BY <3>1, <3>2, <3>a, <3>b, <3>4, <3>5, <2>2, <2>4, <1>6
  <2>5. CASE a # Active(q) /\ a # Other(q)
    <3>1. a[1] # q
      BY <1>5, <2>5
    <3>2. issued'[q] = issued[q]
      BY <3>1
    <3>3. buf'[Active(q)] = buf[Active(q)] /\ buf'[Other(q)] = buf[Other(q)]
      BY <2>1, <2>5, <1>c
    <3>4. /\ Len(buf[Active(q)]) + 1 \in 1 .. (Len(buf[Active(q)]) + 1)
          /\ Len(buf[Other(q)]) + 1 \in 1 .. (Len(buf[Other(q)]) + 1)
      BY <2>1, <1>f
    <3>5. /\ E[Active(q)][Len(buf[Active(q)]) + 1] = D[Active(q)][Len(buf[Active(q)]) + 1]
          /\ E[Other(q)][Len(buf[Other(q)]) + 1] = D[Other(q)][Len(buf[Other(q)]) + 1]
      BY <2>1, <2>5, <3>4, <1>d
    <3> QED
      BY <3>2, <3>3, <3>5, <2>2, <1>6
  <2> QED
    BY <2>3, <2>4, <2>5
<1>12. \A b \in Buffers : \A j, k \in 1 .. (Len(buf'[b]) + 1) :
          j <= k => E[b][j] <= E[b][k]
  BY <1>10
<1>13. Counts(E)'
  BY <1>b, <1>e, <1>9, <1>11, <1>12 DEF Counts
<1> QED
  BY <1>13
-----------------------------------------------------------------------------
(* The steps that append a command, and what it is for.                    *)
Appending(a, c) ==
  /\ a \in Buffers /\ c \in Commands /\ Grows(a, c)
  /\ UNCHANGED <<status, rpc, at, cmd, stack, snap, done, ctx>>
  /\ ends \subseteq ends' /\ issued' = [issued EXCEPT ![a[1]] = @ + Weight(c)]
  /\ Numbered(c) => a = Active(a[1]) /\ c.n = issued[a[1]] + 1
  /\ Phase \notin {"switch", "patch epilog", "patch swap", "request"}
  /\ Phase' \notin {"switch", "hand off", "patch epilog", "patch swap", "request", "prolog"}
  /\ Phase = "prolog" => a = Active("high") /\ c = Opening
  /\ Phase' = "swap epilog" =>
       a = Active("high") /\ c = Jump(<<Active("high"), Len(buf[a]) + 2>>)
  /\ Closed => a # Active("high") /\ Closed'
  /\ Closed' => Closed \/ (a = Active("high") /\ c = LeaveHigh)
  /\ \A q \in Queues :
       IF a = Other(q)
       THEN \/ Moving(q, "hand off") /\ c = HandsOver(q) /\ Moving(q, "leave")'
            \/ Moving(q, "leave") /\ c = Leaves(q) /\ ~ Moving(q, "leave")'
       ELSE ~ Moving(q, "hand off") /\ ~ Moving(q, "leave") /\ ~ Moving(q, "leave")'

(* Which commands are not alike.                                           *)
LEMMA Unlike ==
  /\ \A q \in Queues : HandsOver(q) # Leaves(q)
  /\ \A q \in Queues : ~ Numbered(HandsOver(q)) /\ ~ Numbered(Leaves(q))
  /\ \A p : LeaveHigh # Jump(p) /\ Opening # Jump(p) /\ Handover # Jump(p) /\ ~ Numbered(Jump(p))
  /\ LeaveHigh # Opening /\ LeaveHigh # Handover /\ Opening # Handover
  /\ ~ Numbered(LeaveHigh) /\ ~ Numbered(Opening) /\ ~ Numbered(Handover)
<1>1. "STATUS" # "SWAP" /\ "STATUS" # "JUMP" /\ "SWAP" # "JUMP" /\ "WORD" # "SWAP"
      /\ {"STATUS", "SWAP", "JUMP", "WORD"} \cap {"CMD", "CALL", "TEST"} = {}
  OBVIOUS
<1>2. Opening # Handover
  <2>1. Opening.clear # Handover.clear
    BY CommandFields
  <2> QED
    BY <2>1
<1>3. LeaveHigh.op = "SWAP" /\ Opening.op = "STATUS" /\ Handover.op = "STATUS"
      /\ LeaveLow.op = "SWAP" /\ (\A p : Jump(p).op = "JUMP") /\ (\A p : WriteWord(p).op = "WORD")
  BY CommandFields
<1>4. /\ \A p : LeaveHigh # Jump(p) /\ Opening # Jump(p) /\ Handover # Jump(p)
      /\ \A p : WriteWord(p) # LeaveLow
      /\ LeaveHigh # Opening /\ LeaveHigh # Handover
  BY <1>1, <1>3
<1>5. /\ \A p : ~ Numbered(Jump(p)) /\ ~ Numbered(WriteWord(p))
      /\ ~ Numbered(LeaveHigh) /\ ~ Numbered(Opening) /\ ~ Numbered(Handover)
      /\ ~ Numbered(LeaveLow)
  BY <1>1, <1>3 DEF Numbered
<1>6. \A q \in Queues : HandsOver(q) # Leaves(q)
  BY <1>4 DEF HandsOver, Leaves
<1>7. \A q \in Queues : ~ Numbered(HandsOver(q)) /\ ~ Numbered(Leaves(q))
  BY <1>5 DEF HandsOver, Leaves
<1> QED
  BY <1>2, <1>4, <1>5, <1>6, <1>7

(* What stands in front of the command that is appended to the other buffer. *)
LEMMA OtherEnd ==
  ASSUME NEW a, NEW c, Appending(a, c), Tails, NEW q \in Queues, a = Other(q),
         NEW k \in 1 .. Len(buf[a]), Len(buf[a]) \in Nat
  PROVE  /\ buf[a][k] # Leaves(q) \/ k < Len(buf[a])
         /\ buf[a][k] = HandsOver(q) => (Moving(q, "leave") /\ c = Leaves(q)) \/ k < Len(buf[a])
         /\ Moving(q, "hand off") => buf[a][k] \notin {HandsOver(q), Leaves(q)}
<1>1. \/ Moving(q, "hand off") /\ c = HandsOver(q) /\ Moving(q, "leave")'
      \/ Moving(q, "leave") /\ c = Leaves(q) /\ ~ Moving(q, "leave")'
  BY DEF Appending
<1>2. /\ Moving(q, "hand off") => buf[a][k] \notin {HandsOver(q), Leaves(q)}
      /\ Moving(q, "leave") => Final(buf[a]) = HandsOver(q)
  BY DEF Tails
<1>3. Moving(q, "leave") /\ k = Len(buf[a]) => buf[a][k] = HandsOver(q)
  BY <1>2 DEF Final
<1>4. HandsOver(q) # Leaves(q)
  BY Unlike
<1>5. k = Len(buf[a]) \/ k < Len(buf[a])
  OBVIOUS
<1> QED
  BY <1>1, <1>2, <1>3, <1>4, <1>5
LEMMA AppendOldLow ==
  ASSUME NEW a, NEW c, Types, Appending(a, c), Tails,
         NEW b \in Buffers, NEW k \in 1 .. Len(buf[b]), LowItem(b, k)
  PROVE  LowItem(b, k)'
<1> DEFINE d == buf[b][k]
           n == Len(buf[b])
<1>1. /\ a \in Buffers /\ c \in Commands /\ Grows(a, c) /\ "low" \in Queues
      /\ buf \in [Buffers \cup {Block} -> Seq(Commands)]
  BY TheBuffers DEF Appending, Types
<1>2. /\ n \in Nat /\ Len(buf'[b]) \in Nat /\ k \in 1 .. Len(buf'[b]) /\ buf'[b][k] = d
      /\ k + 1 \in 1 .. n => buf'[b][k + 1] = buf[b][k + 1]
      /\ k - 1 \in 1 .. n => buf'[b][k - 1] = buf[b][k - 1]
  BY <1>1, GrownLengths
<1>3. Other("low")' = Other("low") /\ HandsOver("low")' = HandsOver("low")
      /\ Leaves("low")' = Leaves("low")
  BY <1>1, GrownNames
<1>4. b # a => Len(buf'[b]) = n
  BY <1>1, GrownBuffers
<1>5. b = a => Len(buf'[b]) = n + 1 /\ buf'[b][n + 1] = c
  BY <1>1, GrownBuffers
<1>6. a # Other("low") => ~ Moving("low", "leave")
  BY <1>1 DEF Appending
<1>7. b = a /\ a = Other("low")
        => /\ d # Leaves("low") \/ k < n
           /\ d = HandsOver("low") => (Moving("low", "leave") /\ c = Leaves("low")) \/ k < n
  BY <1>1, <1>2, OtherEnd
<1>8. b = a /\ a = Other("low") /\ k = n - 1 => buf[b][k + 1] # Leaves("low")
  <2> HAVE b = a /\ a = Other("low") /\ k = n - 1
  <2> DEFINE j == k + 1
  <2>1. j \in 1 .. Len(buf[a]) /\ ~ (j < Len(buf[a])) /\ Len(buf[a]) \in Nat
    BY <1>2
  <2> HIDE DEF j
  <2>2. buf[a][j] # Leaves("low")
    BY <2>1, <1>1, OtherEnd
  <2> QED
    BY <2>2 DEF j
<1> HIDE DEF d, n
<1>9. \/ Numbered(d) /\ d \in {Cmd("low", d.n), Call(d.n), TestWriteStatus(d.n)}
      \/ /\ d = HandsOver("low") /\ b = Other("low")
         /\ \/ k = n /\ Moving("low", "leave")
            \/ k = n - 1 /\ buf[b][k + 1] = Leaves("low")
      \/ /\ d = Leaves("low") /\ b = Other("low")
         /\ k = n /\ k > 1 /\ buf[b][k - 1] = HandsOver("low")
  BY DEF LowItem, d, n
<1>10. CASE Numbered(d) /\ d \in {Cmd("low", d.n), Call(d.n), TestWriteStatus(d.n)}
  BY <1>2, <1>10 DEF LowItem
<1>11. CASE /\ d = HandsOver("low") /\ b = Other("low")
            /\ \/ k = n /\ Moving("low", "leave")
               \/ k = n - 1 /\ buf[b][k + 1] = Leaves("low")
  <2>1. CASE b = a
    <3>1. k = n /\ c = Leaves("low")
      <4>1. ~ (k = n - 1 /\ buf[b][k + 1] = Leaves("low"))
        BY <1>8, <1>11, <2>1
      <4>2. k = n
        BY <4>1, <1>11
      <4> QED
        BY <4>2, <1>2, <1>7, <1>11, <2>1
    <3>2. k = Len(buf'[b]) - 1 /\ buf'[b][k + 1] = Leaves("low")'
      BY <3>1, <1>2, <1>3, <1>5, <2>1
    <3> QED
      BY <3>2, <1>2, <1>3, <1>11 DEF LowItem
  <2>2. CASE b # a
    <3>1. k = n - 1 /\ buf[b][k + 1] = Leaves("low")
      BY <1>6, <1>11, <2>2
    <3>2. k + 1 \in 1 .. n
      BY <3>1, <1>2
    <3>3. k = Len(buf'[b]) - 1 /\ buf'[b][k + 1] = Leaves("low")'
      BY <3>1, <3>2, <1>2, <1>3, <1>4, <2>2
    <3> QED
      BY <3>3, <1>2, <1>3, <1>11 DEF LowItem
  <2> QED
    BY <2>1, <2>2
<1>12. CASE /\ d = Leaves("low") /\ b = Other("low")
            /\ k = n /\ k > 1 /\ buf[b][k - 1] = HandsOver("low")
  <2>1. b # a
    BY <1>2, <1>7, <1>12
  <2>2. k - 1 \in 1 .. n
    BY <1>2, <1>12
  <2>3. k = Len(buf'[b]) /\ buf'[b][k - 1] = HandsOver("low")'
    BY <2>1, <2>2, <1>2, <1>3, <1>4, <1>12
  <2> QED
    BY <2>3, <1>2, <1>3, <1>12 DEF LowItem
<1> QED
  BY <1>9, <1>10, <1>11, <1>12

(* A command at the end of the active buffer does not jump any further.    *)
LEMMA LastItem ==
  ASSUME NEW D, NEW b, NEW k \in Nat, HighItem(D, b, k), b = Active("high"), k = Len(buf[b]),
         b # Other("high")
  PROVE  buf[b][k] # Jump(<<b, k + 2>>)
<1>1. /\ \A p : LeaveHigh # Jump(p) /\ Opening # Jump(p) /\ ~ Numbered(Jump(p))
      /\ Jump(<<b, k + 1>>).to = <<b, k + 1>> /\ Jump(<<b, k + 2>>).to = <<b, k + 2>>
  BY Unlike, CommandFields
<1>2. k + 1 # k + 2 /\ ~ (k < k)
  OBVIOUS
<1>3. Jump(<<b, k + 1>>) # Jump(<<b, k + 2>>)
  BY <1>1, <1>2
<1> QED
  BY <1>1, <1>2, <1>3 DEF HighItem

LEMMA AppendOldHigh ==
  ASSUME NEW D, NEW E, NEW a, NEW c, Types, Appending(a, c), Tails,
         NEW b \in Buffers, NEW k \in 1 .. Len(buf[b]), E[b][k] = D[b][k],
         HighItem(D, b, k)
  PROVE  HighItem(E, b, k)'
<1> DEFINE d == buf[b][k]
           n == Len(buf[b])
<1>1. /\ a \in Buffers /\ c \in Commands /\ Grows(a, c) /\ "high" \in Queues
      /\ buf \in [Buffers \cup {Block} -> Seq(Commands)]
  BY TheBuffers DEF Appending, Types
<1>2. /\ n \in Nat /\ Len(buf'[b]) \in Nat /\ k \in 1 .. Len(buf'[b]) /\ buf'[b][k] = d
      /\ k + 1 \in 1 .. n => buf'[b][k + 1] = buf[b][k + 1]
      /\ k - 1 \in 1 .. n => buf'[b][k - 1] = buf[b][k - 1]
      /\ k - 2 \in 1 .. n => buf'[b][k - 2] = buf[b][k - 2]
      /\ n <= Len(buf'[b])
  BY <1>1, GrownLengths
<1>3. Other("high")' = Other("high") /\ HandsOver("high")' = HandsOver("high")
      /\ Leaves("high")' = Leaves("high") /\ Active("high")' = Active("high")
  BY <1>1, GrownNames
<1>4. b # a => Len(buf'[b]) = n
  BY <1>1, GrownBuffers
<1>5. b = a => Len(buf'[b]) = n + 1 /\ buf'[b][n + 1] = c
  BY <1>1, GrownBuffers
<1>6. a # Other("high") => ~ Moving("high", "leave")
  BY <1>1 DEF Appending
<1>7. b = a /\ a = Other("high")
        => /\ d # Leaves("high") \/ k < n
           /\ d = HandsOver("high") => (Moving("high", "leave") /\ c = Leaves("high")) \/ k < n
  BY <1>1, <1>2, OtherEnd, ZenonT(60)
<1>8. b = a /\ a = Other("high") /\ k = n - 1 => buf[b][k + 1] # Leaves("high")
  <2> HAVE b = a /\ a = Other("high") /\ k = n - 1
  <2> DEFINE j == k + 1
  <2>1. j \in 1 .. Len(buf[a]) /\ ~ (j < Len(buf[a])) /\ Len(buf[a]) \in Nat
    BY <1>2
  <2> HIDE DEF j
  <2>2. buf[a][j] # Leaves("high")
    BY <2>1, <1>1, OtherEnd
  <2> QED
    BY <2>2 DEF j
<1>a. Phase # "patch swap" /\ ends \subseteq ends'
      /\ (Closed => a # Active("high") /\ Closed')
  BY DEF Appending
<1> HIDE DEF d, n
<1>9. \/ Numbered(d) /\ d = Cmd("high", d.n)
      \/ d = Opening
      \/ d = Jump(<<b, k + 1>>)
      \/ /\ d = Jump(<<b, k + 2>>) /\ k < n /\ buf[b][k + 1] = Jump(<<b, k + 2>>)
      \/ /\ d = LeaveHigh /\ b = Active("high") /\ Closed /\ D[b][k] \in ends
         /\ k = n /\ k > 1 /\ buf[b][k - 1].op = "JUMP"
         /\ k > 2 => buf[b][k - 2] # Jump(<<b, k>>)
      \/ /\ d = HandsOver("high") /\ b = Other("high")
         /\ \/ k = n /\ Moving("high", "leave")
            \/ k = n - 1 /\ buf[b][k + 1] = Leaves("high")
      \/ /\ d = Leaves("high") /\ b = Other("high")
         /\ k = n /\ k > 1 /\ buf[b][k - 1] = HandsOver("high")
  BY <1>a DEF HighItem, d, n
<1>10. CASE \/ Numbered(d) /\ d = Cmd("high", d.n)
            \/ d = Opening
            \/ d = Jump(<<b, k + 1>>)
  BY <1>2, <1>10 DEF HighItem
<1>b. CASE /\ d = Jump(<<b, k + 2>>) /\ k < n /\ buf[b][k + 1] = Jump(<<b, k + 2>>)
  <2>1. k + 1 \in 1 .. n /\ k < Len(buf'[b])
    BY <1>2, <1>b
  <2>2. buf'[b][k + 1] = Jump(<<b, k + 2>>)
    BY <2>1, <1>2, <1>b
  <2> QED
    BY <2>1, <2>2, <1>2, <1>b DEF HighItem
<1>c. CASE /\ d = LeaveHigh /\ b = Active("high") /\ Closed /\ D[b][k] \in ends
           /\ k = n /\ k > 1 /\ buf[b][k - 1].op = "JUMP"
           /\ k > 2 => buf[b][k - 2] # Jump(<<b, k>>)
  <2>1. b # a /\ Closed'
    BY <1>a, <1>c
  <2>2. k - 1 \in 1 .. n
    BY <1>2, <1>c
  <2>3. k = Len(buf'[b]) /\ buf'[b][k - 1].op = "JUMP"
    BY <2>1, <2>2, <1>2, <1>4, <1>c
  <2>4. E[b][k] \in ends'
    BY <1>a, <1>c
  <2>5. k > 2 => k - 2 \in 1 .. n
    BY <1>2, <1>c
  <2>6. k > 2 => buf'[b][k - 2] # Jump(<<b, k>>)
    BY <2>5, <1>2, <1>c
  <2> QED
    BY <2>1, <2>3, <2>4, <2>6, <1>2, <1>3, <1>c DEF HighItem
<1>11. CASE /\ d = HandsOver("high") /\ b = Other("high")
            /\ \/ k = n /\ Moving("high", "leave")
               \/ k = n - 1 /\ buf[b][k + 1] = Leaves("high")
  <2>1. CASE b = a
    <3>1. k = n /\ c = Leaves("high")
      <4>1. ~ (k = n - 1 /\ buf[b][k + 1] = Leaves("high"))
        BY <1>8, <1>11, <2>1
      <4>2. k = n
        BY <4>1, <1>11
      <4> QED
        BY <4>2, <1>2, <1>7, <1>11, <2>1
    <3>2. k = Len(buf'[b]) - 1 /\ buf'[b][k + 1] = Leaves("high")'
      BY <3>1, <1>2, <1>3, <1>5, <2>1
    <3> QED
      BY <3>2, <1>2, <1>3, <1>11 DEF HighItem
  <2>2. CASE b # a
    <3>1. k = n - 1 /\ buf[b][k + 1] = Leaves("high")
      BY <1>6, <1>11, <2>2
    <3>2. k + 1 \in 1 .. n
      BY <3>1, <1>2
    <3>3. k = Len(buf'[b]) - 1 /\ buf'[b][k + 1] = Leaves("high")'
      BY <3>1, <3>2, <1>2, <1>3, <1>4, <2>2
    <3> QED
      BY <3>3, <1>2, <1>3, <1>11 DEF HighItem
  <2> QED
    BY <2>1, <2>2
<1>12. CASE /\ d = Leaves("high") /\ b = Other("high")
            /\ k = n /\ k > 1 /\ buf[b][k - 1] = HandsOver("high")
  <2>1. b # a
    BY <1>2, <1>7, <1>12
  <2>2. k - 1 \in 1 .. n
    BY <1>2, <1>12
  <2>3. k = Len(buf'[b]) /\ buf'[b][k - 1] = HandsOver("high")'
    BY <2>1, <2>2, <1>2, <1>3, <1>4, <1>12
  <2> QED
    BY <2>3, <1>2, <1>3, <1>12 DEF HighItem
<1> QED
  BY <1>9, <1>10, <1>11, <1>12, <1>b, <1>c

(* The command that is appended.                                           *)
NewItem(E, a) == IF a[1] = "low" THEN LowItem(a, Len(buf[a])) ELSE HighItem(E, a, Len(buf[a]))

LEMMA AppendItems ==
  ASSUME NEW D, NEW a, NEW c, Types, Appending(a, c), Tails, Counts(D), Items(D),
         NEW E, E = Extended(D, a, c), NewItem(E, a)'
  PROVE  Items(E)'
<1>1. /\ a \in Buffers /\ c \in Commands /\ Grows(a, c)
      /\ buf \in [Buffers \cup {Block} -> Seq(Commands)] /\ D \in Numbers
  BY DEF Appending, Types, Counts
<1>2. ASSUME NEW b \in Buffers, NEW k \in 1 .. Len(buf'[b])
      PROVE  IF b[1] = "low" THEN LowItem(b, k)' ELSE HighItem(E, b, k)'
  <2>1. CASE k \in 1 .. Len(buf[b])
    <3>1. E[b][k] = D[b][k]
      <4>1. Len(buf[b]) \in Nat
        BY <1>1, GrownLengths
      <4>2. k \in 1 .. (Len(buf[b]) + 1)
        BY <4>1, <2>1
      <4> QED
        BY <4>2, <1>1, GrownOld
    <3>2. IF b[1] = "low" THEN LowItem(b, k) ELSE HighItem(D, b, k)
      BY <2>1 DEF Items
    <3>3. CASE b[1] = "low"
      BY <3>2, <3>3, <2>1, AppendOldLow
    <3>4. CASE b[1] # "low"
      BY <3>1, <3>2, <3>4, <2>1, AppendOldHigh
    <3> QED
      BY <3>3, <3>4
  <2>2. CASE k \notin 1 .. Len(buf[b])
    <3>1. b = a /\ k = Len(buf[a]) + 1
      BY <2>2, <1>1, GrownLengths
    <3>2. b = a /\ k = Len(buf'[a])
      BY <3>1, <1>1, GrownBuffers
    <3> QED
      BY <3>2 DEF NewItem
  <2> QED
    BY <2>1, <2>2
<1> QED
  BY <1>2 DEF Items

LEMMA AppendTails ==
  ASSUME NEW a, NEW c, Types, Appending(a, c), Tails
  PROVE  Tails'
<1>1. /\ a \in Buffers /\ c \in Commands /\ Grows(a, c)
      /\ buf \in [Buffers \cup {Block} -> Seq(Commands)]
      /\ \A q \in Queues : ~ Moving(q, "hand off")'
      /\ \A q \in Queues :
           IF a = Other(q)
           THEN \/ Moving(q, "hand off") /\ c = HandsOver(q) /\ Moving(q, "leave")'
                \/ Moving(q, "leave") /\ c = Leaves(q) /\ ~ Moving(q, "leave")'
           ELSE ~ Moving(q, "hand off") /\ ~ Moving(q, "leave") /\ ~ Moving(q, "leave")'
      /\ idx \in [Queues -> {0, 1}]
  BY DEF Appending, Types, Moving
<1>2. ASSUME NEW q \in Queues
      PROVE  /\ \/ Moving(q, "leave")' \/ buf'[Other(q)] = <<>>
                \/ Final(buf'[Other(q)]) = Leaves(q)
             /\ Moving(q, "leave")' => /\ buf'[Other(q)] # <<>>
                                       /\ Final(buf'[Other(q)]) = HandsOver(q)
  <2>1. CASE a = Other(q)
    <3>1. buf'[a] # <<>> /\ Final(buf'[a]) = c
      BY <1>1, GrownBuffers DEF Final
    <3> QED
      BY <3>1, <2>1, <1>1
  <2>2. CASE a # Other(q)
    <3>1. Other(q) \in Buffers
      BY <1>1, TheBuffers
    <3>2. buf'[Other(q)] = buf[Other(q)]
      BY <3>1, <2>2, <1>1, GrownBuffers
    <3> QED
      BY <3>2, <2>2, <1>1 DEF Tails
  <2> QED
    BY <2>1, <2>2
<1>3. \A q \in Queues : /\ Other(q)' = Other(q) /\ HandsOver(q)' = HandsOver(q)
                        /\ Leaves(q)' = Leaves(q)
  BY <1>1, GrownNames
<1> QED
  BY <1>1, <1>2, <1>3 DEF Tails

LEMMA AppendEpilogue ==
  ASSUME NEW D, NEW a, NEW c, Types, Appending(a, c), Items(D), Epilogue
  PROVE  Epilogue'
<1> DEFINE s == buf[Active("high")]
<1>1. /\ a \in Buffers /\ c \in Commands /\ Grows(a, c)
      /\ buf \in [Buffers \cup {Block} -> Seq(Commands)]
      /\ idx \in [Queues -> {0, 1}] /\ "high" \in Queues
      /\ (Phase \notin {"patch epilog", "patch swap", "request"})'
      /\ Phase' = "swap epilog" =>
           a = Active("high") /\ c = Jump(<<Active("high"), Len(buf[a]) + 2>>)
      /\ Closed => a # Active("high")
      /\ Closed' => Closed \/ (a = Active("high") /\ c = LeaveHigh)
      /\ (High' <=> High) /\ (Requested' <=> Requested)
  BY TheBuffers DEF Appending, Types, High, Requested
<1>2. Active("high")' = Active("high") /\ Active("high") \in Buffers
  BY <1>1, GrownNames, TheBuffers
<1>3. a # Active("high") => buf'[Active("high")] = s
  BY <1>1, <1>2, GrownBuffers
<1>4. /\ Len(buf[a]) \in Nat /\ buf'[a] # <<>> /\ Len(buf'[a]) = Len(buf[a]) + 1
      /\ Final(buf'[a]) = c
  BY <1>1, GrownBuffers DEF Final
<1>5. Closed => \/ s # <<>> /\ Final(s) = LeaveHigh
                \/ s = <<>> /\ ~ High /\ ~ Requested
  BY DEF Epilogue
<1> HIDE DEF s
<1>6. Closed' => \/ buf'[Active("high")] # <<>> /\ Final(buf'[Active("high")]) = LeaveHigh
                 \/ buf'[Active("high")] = <<>> /\ ~ High' /\ ~ Requested'
  BY <1>1, <1>3, <1>4, <1>5
<1>8. Len(buf'[a]) + 1 = Len(buf[a]) + 2
  <2>1. Len(buf[a]) \in Nat /\ Len(buf'[a]) = Len(buf[a]) + 1
    BY <1>4
  <2> QED
    BY <2>1
<1>7. Phase' = "swap epilog" =>
         /\ buf'[Active("high")] # <<>>
         /\ Final(buf'[Active("high")]) = Jump(<<Active("high"), Len(buf'[Active("high")]) + 1>>)
  <2> HAVE Phase' = "swap epilog"
  <2>1. a = Active("high") /\ c = Jump(<<Active("high"), Len(buf[a]) + 2>>)
    BY <1>1
  <2> QED
    BY <2>1, <1>8, <1>4
<1>9. ASSUME a = Active("high"), NEW n \in Nat, n = Len(buf[a]), n # 0
      PROVE  buf'[a][n] # Jump(<<a, n + 2>>)
  <2>1. n \in 1 .. n /\ n \in 1 .. Len(buf[a])
    BY <1>9
  <2>2. buf'[a][n] = buf[a][n]
    BY <1>1, <2>1, GrownBuffers
  <2>3. a[1] = "high" /\ a # Other("high") /\ "low" # "high"
    BY <1>1, <1>9, TheBuffers
  <2>4. HighItem(D, a, n)
    BY <1>1, <2>1, <2>3 DEF Items
  <2> QED
    BY <1>9, <2>2, <2>3, <2>4, LastItem
<1>10. ASSUME a = Active("high"), Len(buf'[a]) > 1
       PROVE  buf'[a][Len(buf'[a]) - 1] # Jump(<<a, Len(buf'[a]) + 1>>)
  <2>1. PICK n \in Nat : n = Len(buf[a])
    BY <1>4
  <2>2. PICK m : m = Len(buf'[a])
    OBVIOUS
  <2>3. m = n + 1 /\ m > 1
    BY <1>4, <1>10, <2>1, <2>2
  <2>4. n # 0 /\ m - 1 = n /\ m + 1 = n + 2
    BY ONLY <2>3, n \in Nat
  <2>5. buf'[a][n] # Jump(<<a, n + 2>>)
    BY <1>9, <1>10, <2>1, <2>4
  <2> QED
    BY <2>2, <2>4, <2>5
<1>11. Phase' = "swap epilog" /\ Len(buf'[Active("high")]) > 1
        => buf'[Active("high")][Len(buf'[Active("high")]) - 1]
             # Jump(<<Active("high"), Len(buf'[Active("high")]) + 1>>)
  BY <1>1, <1>10
<1> QED
  BY <1>1, <1>2, <1>6, <1>7, <1>11 DEF Epilogue

LEMMA AppendSame ==
  ASSUME NEW a, NEW c, Appending(a, c)
  PROVE  /\ Here' = Here /\ (High' <=> High) /\ (Requested' <=> Requested)
         /\ \A q \in Queues : Place(q)' = Place(q) /\ Spot(q)' = Spot(q)
         /\ (InBlock' <=> InBlock) /\ (InBody' <=> InBody) /\ at' = at /\ done' = done
         /\ \A q \in Queues : (Bufdone(q) \in status)' <=> Bufdone(q) \in status
<1>1. UNCHANGED <<status, rpc, at, cmd, stack, snap, done, ctx>>
  BY DEF Appending
<1>2. Here' = Here /\ (High' <=> High) /\ (Requested' <=> Requested)
  BY <1>1 DEF Here, High, Requested
<1>3. \A q : Place(q)' = Place(q)
  BY <1>1, <1>2 DEF Place
<1>4. (InBlock' <=> InBlock) /\ (InBody' <=> InBody)
  BY <1>3 DEF InBlock, InBody
<1>5. \A q : Spot(q)' = Spot(q)
  BY <1>1, <1>3, <1>4 DEF Spot
<1> QED
  BY <1>1, <1>2, <1>3, <1>4, <1>5

LEMMA AppendCopied ==
  ASSUME NEW D, NEW E, NEW a, NEW c, Types, Appending(a, c), NEW b \in Buffers,
         NEW k \in 1 .. Len(buf[b]), E[b][k] = D[b][k], Copied(D, b, k)
  PROVE  Copied(E, b, k)'
<1>1. /\ a \in Buffers /\ c \in Commands /\ Grows(a, c) /\ "high" \in Queues
      /\ buf \in [Buffers \cup {Block} -> Seq(Commands)]
      /\ snap' = snap /\ ends \subseteq ends' /\ Phase # "request"
      /\ Phase = "prolog" => a = Active("high") /\ c = Opening
  BY TheBuffers DEF Appending, Types
<1>2. /\ Len(buf[b]) \in Nat /\ Len(buf'[b]) \in Nat /\ buf'[b][k] = buf[b][k]
      /\ k + 1 \in 1 .. Len(buf[b]) => buf'[b][k + 1] = buf[b][k + 1]
      /\ Len(buf[b]) <= Len(buf'[b])
  BY <1>1, GrownLengths
<1>3. a = b => Len(buf'[b]) = Len(buf[b]) + 1 /\ buf'[b][Len(buf[b]) + 1] = c
  BY <1>1, GrownBuffers
<1>4. \/ snap[k] = buf[b][k]
      \/ snap[k] = Jump(<<b, k + 1>>) /\ buf[b][k] = Jump(<<b, k + 2>>)
      \/ /\ snap[k] = LeaveHigh /\ buf[b][k] = Jump(<<b, k + 1>>)
         /\ \/ k < Len(buf[b]) /\ buf[b][k + 1] = Opening
            \/ k = Len(buf[b]) /\ a = b /\ c = Opening
  BY <1>1 DEF Copied
<1>5. k < Len(buf[b]) /\ buf[b][k + 1] = Opening
        => k < Len(buf'[b]) /\ buf'[b][k + 1] = Opening
  BY <1>2
<1>6. k = Len(buf[b]) /\ a = b /\ c = Opening
        => k < Len(buf'[b]) /\ buf'[b][k + 1] = Opening
  BY <1>2, <1>3
<1>7. snap[k] = LeaveHigh => E[b][k] \in ends' /\ k > 1 /\ snap[k - 1].op = "JUMP"
  BY <1>1 DEF Copied
<1> QED
  BY <1>1, <1>2, <1>4, <1>5, <1>6, <1>7 DEF Copied

LEMMA AppendCopy ==
  ASSUME NEW D, NEW a, NEW c, Types, Appending(a, c), Counts(D), Copy(D),
         NEW E, E = Extended(D, a, c)
  PROVE  Copy(E)'
<1>1. /\ a \in Buffers /\ c \in Commands /\ Grows(a, c) /\ D \in Numbers
      /\ buf \in [Buffers \cup {Block} -> Seq(Commands)]
      /\ UNCHANGED <<rpc, at, cmd, snap>> /\ at[1] \in Buffers \cup {Block}
      /\ snap \in Seq(Commands)
  BY ThePlaces DEF Appending, Types, Counts
<1>2. Here' = Here /\ (High' <=> High) /\ (Requested' <=> Requested)
  BY AppendSame
<1>3. ASSUME NEW b \in Buffers, b = at[1], rpc \in {"loop", "execute"}
      PROVE  /\ Len(snap) <= Len(buf'[b])
             /\ \A k \in 1 .. Len(snap) : Copied(E, b, k)'
  <2>0. b # Block
    BY <1>3, TheBuffers DEF Types
  <2>1. Len(snap) <= Len(buf[b]) /\ \A k \in 1 .. Len(snap) : Copied(D, b, k)
    BY <1>3, <2>0 DEF Copy
  <2>2. Len(snap) \in Nat
    BY <1>1, SomeLength
  <2>3. Len(buf[b]) \in Nat /\ Len(buf'[b]) \in Nat /\ Len(buf[b]) <= Len(buf'[b])
    BY <1>1, <2>1, GrownLengths
  <2>4. \A k \in 1 .. Len(snap) : k \in 1 .. Len(buf[b]) /\ k \in 1 .. (Len(buf[b]) + 1)
    BY <2>1, <2>2, <2>3
  <2>5. ASSUME NEW k \in 1 .. Len(snap) PROVE Copied(E, b, k)'
    <3>1. k \in 1 .. Len(buf[b]) /\ k \in 1 .. (Len(buf[b]) + 1) /\ Copied(D, b, k)
      BY <2>1, <2>4
    <3>2. E[b][k] = D[b][k]
      BY <1>1, <2>1, <3>1, GrownOld
    <3> QED
      BY <2>1, <3>1, <3>2, AppendCopied
  <2>6. Len(snap) <= Len(buf'[b])
    BY <2>1, <2>2, <2>3
  <2> QED
    BY <2>5, <2>6
<1>4. at[1] # Block => at[1] \in Buffers
  BY <1>1
<1>5. \A b \in Buffers : b = at[1] /\ rpc \in {"loop", "execute"} =>
        /\ Len(snap) <= Len(buf'[b])
        /\ \A k \in 1 .. Len(snap) : Copied(E, b, k)'
  BY <1>3
<1> QED
  BY <1>1, <1>2, <1>4, <1>5 DEF Copy

(* Where the RSP stands in each queue.                                     *)
LEMMA TheSpot ==
  ASSUME NEW D, Types, Stand(D), NEW q \in Queues
  PROVE  /\ Spot(q)[1] \in Buffers /\ Spot(q)[1] \in {Active(q), Other(q)}
         /\ Spot(q)[2] \in 1 .. (Len(buf[Spot(q)[1]]) + 1)
         /\ Len(buf[Spot(q)[1]]) \in Nat
<1>1. Spot(q)[1] \in {Active(q), Other(q)} /\ Spot(q)[2] \in 1 .. (Len(buf[Spot(q)[1]]) + 1)
  BY DEF Stand, Stands
<1>2. Spot(q)[1] \in Buffers
  BY <1>1, TheBuffers DEF Types
<1>3. buf[Spot(q)[1]] \in Seq(Commands)
  BY <1>2 DEF Types
<1> QED
  BY <1>1, <1>2, <1>3, SomeLength

LEMMA AppendStand ==
  ASSUME NEW D, NEW a, NEW c, Types, Appending(a, c), Counts(D), Stand(D),
         NEW E, E = Extended(D, a, c)
  PROVE  Stand(E)'
<1>0. /\ a \in Buffers /\ c \in Commands /\ Grows(a, c) /\ D \in Numbers
      /\ buf \in [Buffers \cup {Block} -> Seq(Commands)]
  BY DEF Appending, Types, Counts
<1>1. /\ a \in Buffers /\ c \in Commands /\ Grows(a, c) /\ D \in Numbers
      /\ buf \in [Buffers \cup {Block} -> Seq(Commands)]
      /\ \A q \in Queues : Moving(q, "hand off") \/ Moving(q, "leave") => a = Other(q)
      /\ "low" \in Queues /\ "high" \in Queues
  BY TheBuffers DEF Appending, Types, Counts
<1>2. /\ \A q \in Queues : Spot(q)' = Spot(q) /\ Place(q)' = Place(q)
      /\ (InBlock' <=> InBlock) /\ (InBody' <=> InBody) /\ done' = done
      /\ at' = at /\ (High' <=> High)
  BY AppendSame
<1>3. \A q \in Queues : Active(q)' = Active(q) /\ Other(q)' = Other(q)
  BY <1>1, GrownNames
<1>7. \A b \in Buffers : \A k \in 1 .. (Len(buf[b]) + 1) : E[b][k] = D[b][k]
  BY <1>0, GrownOld
<1>4. ASSUME NEW q \in Queues PROVE Stands(E, q)'
  <2> DEFINE b == Spot(q)[1]
             p == Spot(q)[2]
  <2>1. /\ b \in Buffers /\ b \in {Active(q), Other(q)} /\ p \in 1 .. (Len(buf[b]) + 1)
        /\ Len(buf[b]) \in Nat
    BY TheSpot
  <2>2. /\ b = Other(q) => p <= Len(buf[b]) \/ Moving(q, "hand off") \/ Moving(q, "leave")
        /\ D[b][p] = done[q] + IF q = "low" /\ InBody THEN 1 ELSE 0
    BY DEF Stand, Stands
  <2> HIDE DEF b, p
  <2>3. Len(buf'[b]) \in Nat /\ Len(buf[b]) <= Len(buf'[b])
    BY <1>1, <2>1, GrownLengths
  <2>4. a = b => Len(buf'[b]) = Len(buf[b]) + 1
    BY <1>1, GrownBuffers
  <2>5. p \in 1 .. (Len(buf'[b]) + 1) /\ (p <= Len(buf[b]) => p <= Len(buf'[b]))
    BY <2>1, <2>3
  <2>6. a = b => p <= Len(buf'[b])
    BY <2>1, <2>4
  <2>7. E[b][p] = D[b][p]
    BY <1>7, <2>1
  <2>8. b = Other(q) => p <= Len(buf'[b])
    BY <1>1, <2>2, <2>5, <2>6
  <2>9. Spot(q)' = Spot(q) /\ Active(q)' = Active(q) /\ Other(q)' = Other(q)
    BY <1>2, <1>3
  <2>a. E[b][p] = done[q] + IF q = "low" /\ InBody THEN 1 ELSE 0
    BY <2>2, <2>7
  <2> QED
    BY <1>2, <2>1, <2>5, <2>8, <2>9, <2>a DEF Stands, b, p
<1>5. InBody' => /\ (Spot("low")[2])' > 1
                 /\ buf'[Spot("low")[1]][Spot("low")[2] - 1].op = "CALL"
  <2> HAVE InBody'
  <2> DEFINE b == Spot("low")[1]
             p == Spot("low")[2]
             j == p - 1
  <2>1. b \in Buffers /\ p \in 1 .. (Len(buf[b]) + 1) /\ Len(buf[b]) \in Nat
    BY <1>1, TheSpot
  <2>2. p > 1 /\ buf[b][j].op = "CALL"
    BY <1>2 DEF Stand
  <2>3. j \in 1 .. Len(buf[b])
    BY <2>1, <2>2
  <2> HIDE DEF j
  <2>4. buf'[b][j] = buf[b][j]
    BY <1>1, <2>1, <2>3, GrownLengths
  <2> QED
    BY <1>1, <1>2, <2>2, <2>4 DEF j
<1>6. Spot("low")' = Spot("low") /\ Place("low")' = Place("low")
      /\ Active("high")' = Active("high") /\ Other("high")' = Other("high")
  BY <1>1, <1>2, <1>3
<1> QED
  BY <1>2, <1>4, <1>5, <1>6 DEF Stand

LEMMA AppendAfter ==
  ASSUME NEW D, NEW a, NEW c, Types, Appending(a, c), Stand(D), NEW q \in Queues, NEW d
  PROVE  After(q, d)' <=> After(q, d)
<1> DEFINE b == Spot(q)[1]
           p == Spot(q)[2]
           j == p - 1
<1>1. /\ a \in Buffers /\ c \in Commands /\ Grows(a, c)
      /\ buf \in [Buffers \cup {Block} -> Seq(Commands)] /\ Spot(q)' = Spot(q)
  BY AppendSame DEF Appending, Types
<1>2. b \in Buffers /\ p \in 1 .. (Len(buf[b]) + 1) /\ Len(buf[b]) \in Nat
  BY TheSpot
<1>3. p > 1 => j \in 1 .. Len(buf[b])
  BY <1>2
<1> HIDE DEF j
<1>4. p > 1 => buf'[b][j] = buf[b][j]
  BY <1>1, <1>2, <1>3, GrownLengths
<1> QED
  BY <1>1, <1>4 DEF After, j

LEMMA AppendHandshake ==
  ASSUME NEW D, NEW a, NEW c, Types, Appending(a, c), Stand(D), Handshake
  PROVE  Handshake'
<1>1. /\ a \in Buffers /\ c \in Commands /\ Grows(a, c) /\ stack' = stack
      /\ \A q \in Queues : ~ Moving(q, "switch") /\ ~ Moving(q, "switch")'
      /\ "low" \in Queues /\ "high" \in Queues
  BY TheBuffers DEF Appending, Types, Moving
<1>2. /\ \A q \in Queues : Spot(q)' = Spot(q)
      /\ (InBlock' <=> InBlock) /\ (High' <=> High)
      /\ \A q \in Queues : (Bufdone(q) \in status)' <=> Bufdone(q) \in status
  BY AppendSame
<1>3. \A q \in Queues : Active(q)' = Active(q) /\ Other(q)' = Other(q)
                        /\ HandsOver(q)' = HandsOver(q)
  BY <1>1, GrownNames
<1>4. \A q \in Queues : Signalled(q)' <=> Signalled(q)
  BY <1>1, <1>2 DEF Signalled
<1>5. \A q \in Queues : \A d : After(q, d)' <=> After(q, d)
  BY AppendAfter
<1> QED
  BY <1>1, <1>2, <1>3, <1>4, <1>5 DEF Handshake

LEMMA AppendAhead ==
  ASSUME NEW D, NEW a, NEW c, Types, Appending(a, c), Stand(D),
         Ahead \/ (a = Active("high") /\ c = Opening)
  PROVE  Ahead'
<1> DEFINE b == Spot("high")[1]
           p == Spot("high")[2]
           h == Active("high")
<1>1. /\ a \in Buffers /\ c \in Commands /\ Grows(a, c) /\ "high" \in Queues
      /\ buf \in [Buffers \cup {Block} -> Seq(Commands)]
      /\ idx \in [Queues -> {0, 1}]
  BY TheBuffers DEF Appending, Types
<1>2. Spot("high")' = Spot("high") /\ Active("high")' = h /\ Other("high")' = Other("high")
  BY <1>1, AppendSame, GrownNames
<1>3. /\ b \in Buffers /\ b \in {h, Other("high")} /\ p \in 1 .. (Len(buf[b]) + 1)
      /\ h \in Buffers /\ h # Other("high")
  BY <1>1, TheSpot, TheBuffers
<1>4. /\ Len(buf[b]) \in Nat /\ Len(buf'[b]) \in Nat /\ Len(buf[b]) <= Len(buf'[b])
      /\ Len(buf[h]) \in Nat /\ Len(buf'[h]) \in Nat /\ Len(buf[h]) <= Len(buf'[h])
      /\ \A k \in 1 .. Len(buf[b]) : buf'[b][k] = buf[b][k]
      /\ \A k \in 1 .. Len(buf[h]) : buf'[h][k] = buf[h][k]
  BY <1>1, <1>3, GrownLengths
<1>5. a = h => Len(buf'[h]) = Len(buf[h]) + 1 /\ buf'[h][Len(buf[h]) + 1] = c
  BY <1>1, GrownBuffers
<1>6. Ahead' <=> \/ \E k \in p .. Len(buf'[b]) : buf'[b][k] = Opening
                 \/ b = Other("high") /\ \E k \in 1 .. Len(buf'[h]) : buf'[h][k] = Opening
  BY <1>2 DEF Ahead
<1>7. Ahead <=> \/ \E k \in p .. Len(buf[b]) : buf[b][k] = Opening
                \/ b = Other("high") /\ \E k \in 1 .. Len(buf[h]) : buf[h][k] = Opening
  BY DEF Ahead
<1> HIDE DEF b, p, h
<1>8. ASSUME NEW k \in p .. Len(buf[b]), buf[b][k] = Opening PROVE Ahead'
  <2>1. k \in 1 .. Len(buf[b]) /\ k \in p .. Len(buf'[b])
    BY <1>3, <1>4
  <2>2. buf'[b][k] = Opening
    BY <2>1, <1>4, <1>8
  <2> QED
    BY <2>1, <2>2, <1>6
<1>9. ASSUME NEW k \in 1 .. Len(buf[h]), buf[h][k] = Opening, b = Other("high") PROVE Ahead'
  <2>1. k \in 1 .. Len(buf'[h])
    BY <1>4
  <2>2. buf'[h][k] = Opening
    BY <1>4, <1>9
  <2> QED
    BY <2>1, <2>2, <1>6, <1>9
<1>10. ASSUME a = h, c = Opening PROVE Ahead'
  <2> DEFINE n == Len(buf[h]) + 1
  <2>1. n = Len(buf'[h]) /\ buf'[h][n] = Opening /\ n \in 1 .. n /\ n \in Nat
    BY <1>4, <1>5, <1>10
  <2>2. CASE b = Other("high")
    BY <2>1, <2>2, <1>6
  <2>3. CASE b = h
    <3>1. n \in p .. Len(buf'[b])
      BY <1>3, <2>1, <2>3
    <3> QED
      BY <3>1, <2>1, <2>3, <1>6
  <2> QED
    BY <2>2, <2>3, <1>3
<1> QED
  BY <1>7, <1>8, <1>9, <1>10 DEF h

LEMMA AppendRequests ==
  ASSUME NEW D, NEW a, NEW c, Types, Appending(a, c), Stand(D), Copy(D), Requests
  PROVE  Requests'
<1>1. /\ a \in Buffers /\ c \in Commands /\ Grows(a, c) /\ "high" \in Queues
      /\ buf \in [Buffers \cup {Block} -> Seq(Commands)]
      /\ idx \in [Queues -> {0, 1}] /\ snap' = snap /\ rpc' = rpc
      /\ Phase \notin {"patch swap", "request"} /\ Phase' # "request"
      /\ Phase = "prolog" => a = Active("high") /\ c = Opening
      /\ Closed => a # Active("high") /\ Closed'
  BY TheBuffers DEF Appending, Types
<1>2. /\ Spot("high")' = Spot("high") /\ Place("high")' = Place("high") /\ Here' = Here
      /\ (High' <=> High) /\ (Requested' <=> Requested)
  BY <1>1, AppendSame
<1>3. Requested' => Ahead'
  <2> HAVE Requested'
  <2>1. Phase = "prolog" \/ Ahead
    BY <1>2 DEF Requests
  <2> QED
    BY <2>1, <1>1, AppendAhead
<1>4. ~ High' /\ ~ Requested' => Place("high")' = Cursor("high")' /\ Closed'
  <2> HAVE ~ High' /\ ~ Requested'
  <2>1. Place("high") = Cursor("high") /\ Closed
    BY <1>1, <1>2 DEF Requests
  <2>2. Active("high")' = Active("high") /\ Active("high") \in Buffers
    BY <1>1, GrownNames, TheBuffers
  <2>3. buf'[Active("high")] = buf[Active("high")]
    BY <1>1, <2>1, <2>2, GrownBuffers
  <2> QED
    BY <1>1, <1>2, <2>1, <2>2, <2>3 DEF Cursor
<1>5. High' => ~ After("high", LeaveHigh)'
  BY <1>1, <1>2, AppendAfter DEF Requests
<1>6. High' /\ rpc' \in {"loop", "execute"} /\ Here'[2] <= Len(snap') /\ snap'[Here'[2]] = LeaveHigh
        => \/ buf'[Here'[1]][Here'[2]] = LeaveHigh
           \/ Requested'
  <2> HAVE High' /\ rpc' \in {"loop", "execute"} /\ Here'[2] <= Len(snap') /\ snap'[Here'[2]] = LeaveHigh
  <2>1. \/ buf[Here[1]][Here[2]] = LeaveHigh
        \/ Requested
    BY <1>1, <1>2 DEF Requests
  <2>2. CASE buf[Here[1]][Here[2]] = LeaveHigh
    <3>1. /\ rpc \in {"loop", "execute"} /\ High
          /\ at[1] \in {Active("high"), Other("high")} /\ at[1] \in Buffers
      BY <1>1, <1>2, TheBuffers, ZenonT(60) DEF Stand
    <3>2. at[1] # Block /\ Here[1] = at[1]
      BY <1>1, <3>1, TheBuffers DEF Here
    <3>3. Len(snap) <= Len(buf[at[1]])
      BY <3>1, <3>2 DEF Copy
    <3>4. Here[2] \in Nat \ {0}
      <4>1. CASE rpc = "execute" /\ cmd # EnterHigh
        <5>1. Here[2] \in 1 .. Len(snap)
          BY <3>1, <4>1 DEF Copy
        <5> QED
          BY <5>1
      <4>2. CASE ~ (rpc = "execute" /\ cmd # EnterHigh)
        <5>1. Here = at /\ at \in Places
          BY <4>2 DEF Here, Types
        <5> QED
          BY <5>1, ThePlaces
      <4> QED
        BY <4>1, <4>2
    <3>5. Here[2] <= Len(snap)
      BY <1>1, <1>2
    <3>6. Len(snap) \in Nat /\ Len(buf[at[1]]) \in Nat
      BY <1>1, <3>1, SomeLength DEF Types
    <3>7. Here[2] \in 1 .. Len(buf[at[1]])
      <4> DEFINE h == Here[2]
                 m == Len(snap)
                 n == Len(buf[at[1]])
      <4>1. h \in Nat \ {0} /\ m \in Nat /\ n \in Nat /\ h <= m /\ m <= n
        BY <3>3, <3>4, <3>5, <3>6
      <4> HIDE DEF h, m, n
      <4>2. h \in 1 .. n
        BY ONLY <4>1
      <4> QED
        BY <4>2 DEF h, n
    <3>8. buf'[at[1]][Here[2]] = buf[at[1]][Here[2]]
      BY <1>1, <3>1, <3>7, GrownLengths
    <3>9. Here' = Here /\ Here[1] = at[1]
      BY <1>2, <3>2
    <3> QED
      BY <2>2, <3>8, <3>9
  <2>3. CASE Requested
    BY <2>3, <1>2
  <2> QED
    BY <2>1, <2>2, <2>3
<1> QED
  BY <1>1, <1>3, <1>4, <1>5, <1>6 DEF Requests

(* A step that appends a command keeps what is said of the queues.         *)
LEMMA AppendQueue ==
  ASSUME NEW D, NEW a, NEW c, Types, Appending(a, c), Queue(D),
         NEW E, E = Extended(D, a, c), NewItem(E, a)'
  PROVE  Queue(E)'
<1>1. /\ Counts(D) /\ Items(D) /\ Tails /\ Epilogue /\ Copy(D) /\ Stand(D) /\ Handshake
      /\ Requests
  BY DEF Queue
<1>2. Counts(E)'
  <2>1. /\ a \in Buffers /\ c \in Commands /\ Grows(a, c)
        /\ issued' = [issued EXCEPT ![a[1]] = @ + Weight(c)]
        /\ Numbered(c) => a = Active(a[1]) /\ c.n = issued[a[1]] + 1
    BY DEF Appending
  <2>2. /\ buf \in [Buffers \cup {Block} -> Seq(Commands)]
        /\ idx \in [Queues -> {0, 1}] /\ issued \in [Queues -> Nat]
    BY DEF Types
  <2> QED
    BY <1>1, <2>1, <2>2, GrownCounts
<1>3. Items(E)' /\ Tails' /\ Epilogue'
  BY <1>1, AppendItems, AppendTails, AppendEpilogue
<1>4. Copy(E)' /\ Stand(E)'
  BY <1>1, AppendCopy, AppendStand
<1>5. Handshake' /\ Requests'
  BY <1>1, AppendHandshake, AppendRequests
<1> QED
  BY <1>2, <1>3, <1>4, <1>5 DEF Queue

(* What is known of the types in such a step.                              *)
LEMMA AppendTypes ==
  ASSUME Types, NEW a, NEW c, Appending(a, c), Chain(todo, ctx)', UNCHANGED <<idx, sentinel, syncDone, handler>>,
         used' = [used EXCEPT ![a] = @ + Words[c.op]], Words[c.op] \in Nat,
         status' = status, late' \in BOOLEAN, fresh' \in BOOLEAN, syncAt' \in Seq(Nat),
         Numbered(c) => issued[a[1]] < MaxIssued[a[1]], MaxIssued \in [Queues -> Nat]
  PROVE  Types'
<1>1. /\ a \in Buffers /\ c \in Commands /\ Grows(a, c) /\ a # Block /\ a[1] \in Queues
      /\ UNCHANGED <<rpc, at, cmd, stack, snap, done, ctx>>
      /\ issued' = [issued EXCEPT ![a[1]] = @ + Weight(c)]
  BY TheBuffers DEF Appending, Types
<1>2. buf' \in [Buffers \cup {Block} -> Seq(Commands)] /\ buf'[Block] = buf[Block]
  <2>1. /\ \A b \in Buffers \cup {Block} : b # a => buf'[b] = buf[b]
        /\ buf' \in [Buffers \cup {Block} -> Seq(Commands)]
    BY <1>1, GrownBuffers DEF Types
  <2> QED
    BY <1>1, <2>1
<1>3. used' \in [Buffers -> Nat]
  <2> DEFINE w == Words[c.op]
  <2>1. used \in [Buffers -> Nat] /\ w \in Nat /\ used' = [used EXCEPT ![a] = @ + w]
    BY DEF Types
  <2> HIDE DEF w
  <2>2. used[a] + w \in Nat
    BY <1>1, <2>1
  <2> QED
    BY <1>1, <2>1, <2>2
<1>4. issued' \in [Queues -> Nat] /\ \A q \in Queues : issued'[q] <= MaxIssued[q]
  <2>1. Weight(c) \in {0, 1} /\ (~ Numbered(c) => Weight(c) = 0)
    BY TheWeight
  <2>2. issued \in [Queues -> Nat] /\ \A q \in Queues : issued[q] <= MaxIssued[q]
    BY DEF Types
  <2>3. issued' \in [Queues -> Nat]
    BY <1>1, <2>1, <2>2
  <2>4. ASSUME NEW q \in Queues PROVE issued'[q] <= MaxIssued[q]
    <3>1. CASE q = a[1]
      <4>1. issued'[q] = issued[q] + Weight(c) /\ issued[q] \in Nat /\ MaxIssued[q] \in Nat
        BY <1>1, <2>2, <3>1
      <4>2. CASE Numbered(c)
        <5>1. issued[q] < MaxIssued[q]
          BY <3>1, <4>2
        <5> QED
          BY <4>1, <2>1, <5>1
      <4>3. CASE ~ Numbered(c)
        <5>1. issued'[q] = issued[q]
          BY <4>1, <4>3, <2>1
        <5> QED
          BY <5>1, <2>2
      <4> QED
        BY <4>2, <4>3
    <3>2. CASE q # a[1]
      BY <1>1, <2>2, <3>2
    <3> QED
      BY <3>1, <3>2
  <2> QED
    BY <2>3, <2>4
<1> QED
  BY <1>1, <1>2, <1>3, <1>4 DEF Types
-----------------------------------------------------------------------------
(* The steps of a call that append a command.                              *)
Appends(s, a, c) ==
  \/ s = "hand off" /\ a = Other(ctx) /\ c = HandsOver(ctx)
  \/ s = "leave" /\ a = Other(ctx) /\ c = Leaves(ctx)
  \/ /\ a = Active("high")
     /\ \/ s = "prolog" /\ c = Opening
        \/ s = "jump epilog" /\ c = Jump(<<Active("high"), Len(buf[a]) + 2>>)
        \/ s = "swap epilog" /\ c = LeaveHigh

LEMMA AppendsSteps ==
  ASSUME Types, NEW s, NEW a \in Buffers, NEW c \in Commands, AppendStep(s, a, c),
         Appends(s, a, c), ends \subseteq ends'
  PROVE  /\ Step = s /\ Chain(todo, ctx)' /\ Step' \in Follow[s] /\ Goal(todo') = Goal(todo)
         /\ s \in {"prolog", "jump epilog", "swap epilog"} => ctx = "high"
         /\ s \in Epilogs => Goal(todo) = Closing
         /\ s \notin Epilogs => Goal(todo) # Closing
         /\ ~ Numbered(c) /\ Words[c.op] \in Nat
<1>1. Doing(s) /\ todo' = Tail(todo) /\ ctx' = ctx
  BY DEF AppendStep, cpu
<1>2. Chain(todo, ctx) /\ ctx \in Queues
  BY DEF Types
<1>3. /\ Step = s /\ Chain(todo', ctx) /\ todo # <<>>
      /\ Step' = NoStep => s \in Finals
      /\ Step' # NoStep => Step' \in Follow[s] /\ Goal(todo') = Goal(todo)
  BY <1>1, <1>2, NextStep
<1>4. s \in {"hand off", "leave", "prolog", "jump epilog", "swap epilog"}
  BY DEF Appends
<1>5. s \notin Finals
  BY <1>4 DEF Finals
<1>6. s \in {"prolog", "jump epilog", "swap epilog"} => ctx = "high"
  <2>1. ctx = "low" => s \notin HighSteps
    BY <1>2, <1>3, StepFacts DEF Step
  <2> QED
    BY <1>2, <2>1 DEF HighSteps, Queues
<1>7. /\ s \in Epilogs => Goal(todo) = Closing
      /\ Goal(todo) = Closing => s \in Endings
  BY <1>2, <1>3, StepFacts DEF Step
<1>8. s \notin Epilogs => s \notin Endings
  BY <1>4 DEF Endings, Epilogs
<1>9. c \in {HandsOver(ctx), Leaves(ctx), LeaveHigh, Opening} \/ \E p : c = Jump(p)
  BY DEF Appends
<1>10. ~ Numbered(c)
  BY <1>2, <1>9, Unlike
<1>11. c.op \in {"STATUS", "SWAP", "JUMP", "WORD"}
  BY <1>9, CommandFields DEF HandsOver, Leaves
<1>12. Words[c.op] \in Nat
  BY <1>11, SizeAssumption DEF Words
<1> QED
  BY <1>1, <1>3, <1>5, <1>6, <1>7, <1>8, <1>10, <1>12

LEMMA AppendsAppending ==
  ASSUME Types, NEW s, NEW a \in Buffers, NEW c \in Commands, AppendStep(s, a, c),
         Appends(s, a, c), ends \subseteq ends'
  PROVE  /\ Appending(a, c) /\ Types' /\ Waited'
         /\ s = "hand off" => Moving(ctx, "leave")'
         /\ s = "swap epilog" => Closed'
<1>1. /\ Step = s /\ Chain(todo, ctx)' /\ Step' \in Follow[s] /\ Goal(todo') = Goal(todo)
      /\ s \in {"prolog", "jump epilog", "swap epilog"} => ctx = "high"
      /\ s \in Epilogs => Goal(todo) = Closing
      /\ s \notin Epilogs => Goal(todo) # Closing
      /\ ~ Numbered(c) /\ Words[c.op] \in Nat
  BY AppendsSteps
<1>2. /\ UNCHANGED <<status, ctx, idx, sentinel, handler, syncDone, rpc, at, snap, cmd, stack,
                     issued, done, syncAt, late>>
      /\ fresh' = TRUE
      /\ buf' = [buf EXCEPT ![a] = Append(@, c)]
      /\ used' = [used EXCEPT ![a] = @ + Words[c.op]]
  BY DEF AppendStep, Append2, cpu, rsp
<1>3. Grows(a, c)
  BY <1>2 DEF Grows
<1>4. issued' = [issued EXCEPT ![a[1]] = @ + Weight(c)]
  <2>1. Weight(c) = 0 /\ issued \in [Queues -> Nat] /\ a[1] \in Queues
    BY <1>1, TheWeight, TheBuffers DEF Types
  <2>2. issued[a[1]] + 0 = issued[a[1]]
    BY <2>1
  <2> QED
    BY <1>2, <2>1, <2>2
<1>5. /\ s = "hand off" => Step' = "leave"
      /\ s \in {"leave", "prolog", "swap epilog"} => Step' = "more"
      /\ s = "jump epilog" => Step' = "swap epilog"
      /\ s \in {"hand off", "leave", "prolog", "jump epilog", "swap epilog"}
  BY <1>1, FollowSteps DEF Appends
<1>6. /\ s = "jump epilog" => Phase = "plain"
      /\ s # "jump epilog" => Phase = s
      /\ s \in {"leave", "prolog", "swap epilog"} => Phase' = "plain"
      /\ s = "hand off" => Phase' = "leave"
      /\ s = "jump epilog" => Phase' = "swap epilog"
  BY <1>1, <1>5 DEF Phase, Phases
<1>7. ctx \in Queues /\ "low" \in Queues /\ "high" \in Queues /\ "low" # "high"
      /\ idx \in [Queues -> {0, 1}]
  BY TheBuffers DEF Types
<1>8. Closed => ctx = "low"
  <2>1. ASSUME Closed, ctx # "low" PROVE FALSE
    <3>1. Goal(todo) = Closing /\ s \in {"more", "more again", "low context"}
      BY <1>1, <1>5, <1>6, <2>1 DEF Closed
    <3> QED
      BY <1>5, <3>1
  <2> QED
    BY <2>1
<1>9. Closed => Closed' /\ a # Active("high")
  <2> HAVE Closed
  <2>1. ctx = "low" /\ Closed'
    BY <1>2, <1>8 DEF Closed
  <2>2. a = Other("low")
    BY <1>1, <1>5, <2>1, <1>7 DEF Appends
  <2>3. a[1] = "low" /\ Active("high")[1] = "high"
    BY <1>7, <2>2, TheBuffers
  <2> QED
    BY <1>7, <2>1, <2>3
<1>10. Closed' => Closed \/ (a = Active("high") /\ c = LeaveHigh)
  <2> HAVE Closed'
  <2>1. CASE ctx = "low"
    BY <2>1 DEF Closed
  <2>2. CASE ctx # "low"
    <3>1. Goal(todo') = Closing /\ Step' \in {"more", "more again", "low context"}
      BY <1>2, <1>5, <1>6, <2>2 DEF Closed
    <3>2. s \in Epilogs /\ s # "jump epilog"
      BY <1>1, <1>5, <3>1
    <3>3. s = "swap epilog"
      BY <3>2 DEF Epilogs
    <3> QED
      BY <3>3 DEF Appends
  <2> QED
    BY <2>1, <2>2
<1>11. s = "swap epilog" => Closed'
  <2> HAVE s = "swap epilog"
  <2>1. s \in Epilogs
    BY DEF Epilogs
  <2>2. Goal(todo') = Closing /\ Step' = "more"
    BY <1>1, <1>5, <2>1
  <2> QED
    BY <2>2 DEF Closed
<1>12. ASSUME NEW q \in Queues
       PROVE  IF a = Other(q)
              THEN \/ Moving(q, "hand off") /\ c = HandsOver(q) /\ Moving(q, "leave")'
                   \/ Moving(q, "leave") /\ c = Leaves(q) /\ ~ Moving(q, "leave")'
              ELSE ~ Moving(q, "hand off") /\ ~ Moving(q, "leave") /\ ~ Moving(q, "leave")'
  <2>1. Other(q)[1] = q /\ Other(ctx)[1] = ctx /\ Active("high") # Other("high")
        /\ Active("high")[1] = "high"
    BY <1>7, TheBuffers
  <2>2. CASE a = Other(q)
    <3>1. s \in {"hand off", "leave"} /\ q = ctx
      BY <2>1, <2>2 DEF Appends
    <3> QED
      BY <1>2, <1>6, <2>2, <3>1 DEF Appends, Moving
  <2>3. CASE a # Other(q)
    <3>1. ctx = q => s \notin {"hand off", "leave"}
      BY <2>3 DEF Appends
    <3> QED
      BY <1>2, <1>5, <1>6, <2>3, <3>1 DEF Moving
  <2> QED
    BY <2>2, <2>3
<1>13. /\ Phase \notin {"switch", "patch epilog", "patch swap", "request"}
       /\ Phase' \notin {"switch", "hand off", "patch epilog", "patch swap", "request", "prolog"}
       /\ Phase = "prolog" => a = Active("high") /\ c = Opening
       /\ Phase' = "swap epilog" =>
            a = Active("high") /\ c = Jump(<<Active("high"), Len(buf[a]) + 2>>)
  BY <1>5, <1>6 DEF Appends
<1>14. Appending(a, c)
  BY <1>1, <1>2, <1>3, <1>4, <1>9, <1>10, <1>12, <1>13 DEF Appending
<1>15. Types'
  <2>1. late' \in BOOLEAN /\ fresh' \in BOOLEAN /\ syncAt' \in Seq(Nat) /\ status' = status
        /\ UNCHANGED <<idx, sentinel, syncDone, handler>>
    BY <1>2 DEF Types
  <2>2. MaxIssued \in [Queues -> Nat]
    BY SizeAssumption
  <2> QED
    BY <1>1, <1>2, <1>14, <2>1, <2>2, AppendTypes
<1>16. Waited'
  BY <1>5 DEF Waited
<1>17. s = "hand off" => Moving(ctx, "leave")'
  BY <1>2, <1>6 DEF Moving
<1> QED
  BY <1>11, <1>14, <1>15, <1>16, <1>17

(* What such a step appends has its place in the buffer.                   *)
Ready(s) == /\ s = "hand off" => Moving(ctx, "leave")'
            /\ s = "swap epilog" => Closed' /\ issued["high"] \in ends'

LEMMA AppendsItem ==
  ASSUME NEW D, Types, Queue(D), NEW s, NEW a \in Buffers, NEW c \in Commands,
         AppendStep(s, a, c), Appends(s, a, c), Appending(a, c), ends \subseteq ends',
         Ready(s), NEW E, E = Extended(D, a, c)
  PROVE  NewItem(E, a)'
<1> DEFINE n == Len(buf[a])
<1>a. /\ Grows(a, c) /\ buf \in [Buffers \cup {Block} -> Seq(Commands)] /\ D \in Numbers
  BY DEF Types, Appending, Queue, Counts
<1>b. PICK m : m = Len(buf'[a])
  OBVIOUS
<1>3. /\ n \in Nat /\ m = n + 1 /\ buf'[a][m] = c
      /\ \A k \in 1 .. n : buf'[a][k] = buf[a][k]
  BY <1>a, <1>b, GrownBuffers
<1>c. buf[a] # <<>> => n # 0
  <2>1. buf[a] \in Seq(Commands)
    BY <1>a
  <2> QED
    BY <2>1
<1>d. /\ m - 1 = n /\ m + 1 = n + 2 /\ n + 1 \in 1 .. (n + 1)
      /\ n # 0 => n \in 1 .. n /\ m > 1
  <2>1. n \in Nat /\ m = n + 1
    BY <1>3
  <2> HIDE DEF n
  <2> QED
    BY ONLY <2>1
<1>h. n > 1 => n - 1 \in 1 .. n /\ m - 2 = n - 1
  <2>1. n \in Nat /\ m = n + 1
    BY <1>3
  <2> HIDE DEF n
  <2> QED
    BY ONLY <2>1
<1>i. m > 2 => n > 1
  <2>1. n \in Nat /\ m = n + 1
    BY <1>3
  <2> HIDE DEF n
  <2> QED
    BY ONLY <2>1
<1>e. E[a][n + 1] = D[a][n + 1]
  BY <1>a, <1>d, GrownOld
<1>1. /\ Step = s /\ ctx' = ctx
      /\ s \in {"prolog", "jump epilog", "swap epilog"} => ctx = "high"
  BY AppendsSteps DEF AppendStep, cpu
<1>2. /\ ctx \in Queues /\ "low" \in Queues /\ "high" \in Queues /\ "low" # "high"
      /\ idx \in [Queues -> {0, 1}] /\ buf \in [Buffers \cup {Block} -> Seq(Commands)]
      /\ Grows(a, c) /\ ctx \in {"low", "high"}
  BY TheBuffers DEF Types, Appending
<1>f. IF a[1] = "low" THEN LowItem(a, m)' => NewItem(E, a)' ELSE HighItem(E, a, m)' => NewItem(E, a)'
  BY <1>b DEF NewItem
<1>g. m = Len(buf'[a])
  BY <1>b
<1> HIDE DEF n
<1>4. /\ Active("high")' = Active("high") /\ Other(ctx)' = Other(ctx)
      /\ HandsOver(ctx)' = HandsOver(ctx) /\ Leaves(ctx)' = Leaves(ctx)
  BY <1>1, <1>2, GrownNames
<1>5. Active("high")[1] = "high" /\ Other(ctx)[1] = ctx
  BY <1>2, TheBuffers
<1>6. CASE s = "hand off"
  <2>1. a = Other(ctx) /\ c = HandsOver(ctx) /\ Moving(ctx, "leave")'
    BY <1>6 DEF Appends, Ready
  <2>2. CASE ctx = "low"
    <3>1. LowItem(a, m)'
      BY <1>1, <1>3, <1>4, <1>g, <2>1, <2>2 DEF LowItem
    <3> QED
      BY <1>5, <1>f, <2>1, <2>2, <3>1 
  <2>3. CASE ctx = "high"
    <3>1. HighItem(E, a, m)'
      BY <1>1, <1>3, <1>4, <1>g, <2>1, <2>3 DEF HighItem
    <3> QED
      BY <1>2, <1>5, <1>f, <2>1, <2>3, <3>1 
  <2> QED
    BY <1>2, <2>2, <2>3
<1>7. CASE s = "leave"
  <2>1. a = Other(ctx) /\ c = Leaves(ctx) /\ Moving(ctx, "leave")
    BY <1>1, <1>7 DEF Appends, Moving, Phase, Phases
  <2>2. buf[a] # <<>> /\ buf[a][n] = HandsOver(ctx)
    BY <1>2, <2>1 DEF Queue, Tails, Final, n
  <2>4. m > 1 /\ buf'[a][m - 1] = HandsOver(ctx)
    <3>1. n \in 1 .. n /\ m - 1 = n /\ m > 1
      BY <1>c, <1>d, <2>2
    <3> QED
      BY <1>3, <2>2, <3>1
  <2>5. CASE ctx = "low"
    <3>1. LowItem(a, m)'
      BY <1>1, <1>3, <1>4, <1>g, <2>1, <2>4, <2>5 DEF LowItem
    <3> QED
      BY <1>5, <1>f, <2>1, <2>5, <3>1 
  <2>6. CASE ctx = "high"
    <3>1. HighItem(E, a, m)'
      BY <1>1, <1>3, <1>4, <1>g, <2>1, <2>4, <2>6 DEF HighItem
    <3> QED
      BY <1>2, <1>5, <1>f, <2>1, <2>6, <3>1 
  <2> QED
    BY <1>2, <2>5, <2>6
<1>8. CASE s = "prolog"
  <2>1. a = Active("high") /\ c = Opening
    BY <1>2, <1>8 DEF Appends
  <2>2. HighItem(E, a, m)'
    BY <1>3, <1>g, <2>1 DEF HighItem
  <2> QED
    BY <1>2, <1>5, <1>f, <2>1, <2>2
<1>9. CASE s = "jump epilog"
  <2>1. a = Active("high") /\ c = Jump(<<a, n + 2>>)
    BY <1>2, <1>9 DEF Appends, n
  <2>2. c = Jump(<<a, m + 1>>)
    <3>1. m + 1 = n + 2
      BY <1>d
    <3> QED
      BY <2>1, <3>1
  <2>3. HighItem(E, a, m)'
    BY <1>3, <1>g, <2>2 DEF HighItem
  <2> QED
    BY <1>2, <1>5, <1>f, <2>1, <2>3
<1>10. CASE s = "swap epilog"
  <2>1. a = Active("high") /\ c = LeaveHigh /\ Closed' /\ issued["high"] \in ends'
    BY <1>10 DEF Appends, Ready
  <2>2. Phase = "swap epilog"
    BY <1>1, <1>10 DEF Phase, Phases
  <2>3. buf[a] # <<>> /\ buf[a][n] = Jump(<<a, n + 1>>)
    BY <2>1, <2>2 DEF Queue, Epilogue, Final, n
  <2>5. m > 1 /\ buf'[a][m - 1].op = "JUMP"
    <3>1. n \in 1 .. n /\ m - 1 = n /\ m > 1
      BY <1>c, <1>d, <2>3
    <3> QED
      BY <1>3, <2>3, <3>1, CommandFields
  <2>6. E[a][m] \in ends'
    <3>1. D \in Numbers /\ D[a][n + 1] = issued["high"]
      BY <1>2, <2>1 DEF Queue, Counts, n
    <3> QED
      BY <1>3, <1>e, <2>1, <3>1
  <2>8. m > 2 => buf'[a][m - 2] # Jump(<<a, m>>)
    <3>1. n > 1 => buf[a][n - 1] # Jump(<<a, n + 1>>)
      BY <2>1, <2>2 DEF Queue, Epilogue, n
    <3> QED
      BY <1>3, <1>h, <1>i, <3>1
  <2>7. HighItem(E, a, m)'
    BY <1>3, <1>4, <1>g, <2>1, <2>5, <2>6, <2>8 DEF HighItem
  <2> QED
    BY <1>2, <1>5, <1>f, <2>1, <2>7
<1> QED
  BY <1>6, <1>7, <1>8, <1>9, <1>10 DEF Appends

LEMMA AppendCalls ==
  ASSUME NEW D, Types, Queue(D), HandOff \/ Leave \/ Prolog \/ JumpEpilog \/ SwapEpilog
  PROVE  Types' /\ Waited' /\ \E E : Queue(E)'
<1>1. ASSUME NEW s, NEW a \in Buffers, NEW c \in Commands, AppendStep(s, a, c),
             Appends(s, a, c), ends \subseteq ends', s = "swap epilog" => issued["high"] \in ends'
      PROVE  Types' /\ Waited' /\ \E E : Queue(E)'
  <2>1. /\ Appending(a, c) /\ Types' /\ Waited'
        /\ s = "hand off" => Moving(ctx, "leave")'
        /\ s = "swap epilog" => Closed'
    BY <1>1, AppendsAppending
  <2>2. PICK E : E = Extended(D, a, c)
    OBVIOUS
  <2>3. NewItem(E, a)'
    <3>1. Ready(s)
      BY <1>1, <2>1 DEF Ready
    <3> QED
      BY <1>1, <2>1, <2>2, <3>1, AppendsItem
  <2>4. Queue(E)'
    BY <2>1, <2>2, <2>3, AppendQueue
  <2> QED
    BY <2>1, <2>4
<1>2. /\ ctx \in Queues /\ "low" \in Queues /\ "high" \in Queues
      /\ idx \in [Queues -> {0, 1}] /\ buf \in [Buffers \cup {Block} -> Seq(Commands)]
  BY TheBuffers DEF Types
<1>3. /\ Active("high") \in Buffers /\ Other(ctx) \in Buffers /\ Active(ctx) \in Buffers
      /\ <<ctx, 1 - idx[ctx]>> = Other(ctx)
  BY <1>2, TheBuffers DEF Other
<1>4. HandsOver(ctx) \in Commands /\ Leaves(ctx) \in Commands
  <2>0. Active("low") \in Buffers /\ Active("high") \in Buffers
    BY <1>2, TheBuffers
  <2>1. <<Active("low"), 1>> \in Places /\ <<Active("high"), 1>> \in Places
    BY <2>0 DEF Places
  <2> QED
    BY <2>1, CommandTypes DEF HandsOver, Leaves
<1>5. CASE HandOff
  <2>1. PICK a \in Buffers : a = Other(ctx)
    BY <1>3
  <2>2. PICK c \in Commands : c = HandsOver(ctx)
    BY <1>4
  <2>3. c = IF ctx = "low" THEN WriteWord(<<Active(ctx), 1>>) ELSE WriteStatus({}, {Bufdone(ctx)})
    BY <1>2, <2>2 DEF HandsOver, Handover, Bufdone, Queues
  <2>4. AppendStep("hand off", a, c) /\ ends' = ends
    BY <1>3, <1>5, <2>1, <2>3 DEF HandOff
  <2>5. Appends("hand off", a, c)
    BY <2>1, <2>2 DEF Appends
  <2> QED
    BY <1>1, <2>4, <2>5
<1>6. CASE Leave
  <2>1. PICK a \in Buffers : a = Other(ctx)
    BY <1>3
  <2>2. PICK c \in Commands : c = Leaves(ctx)
    BY <1>4
  <2>3. c = IF ctx = "low" THEN SwapBuffers("block", "block", {}, {Bufdone(ctx)})
            ELSE Jump(<<Active(ctx), 1>>)
    BY <1>2, <2>2 DEF Leaves, LeaveLow, Bufdone, Queues
  <2>4. AppendStep("leave", a, c) /\ ends' = ends
    BY <1>3, <1>6, <2>1, <2>3 DEF Leave
  <2>5. Appends("leave", a, c)
    BY <2>1, <2>2 DEF Appends
  <2> QED
    BY <1>1, <2>4, <2>5
<1>7. PICK a \in Buffers : a = Active("high")
  BY <1>3
<1>8. CASE Prolog
  <2>1. PICK c \in Commands : c = Opening
    BY CommandTypes
  <2>2. AppendStep("prolog", a, c) /\ ends' = ends
    BY <1>7, <1>8, <2>1 DEF Prolog, Opening
  <2>3. Appends("prolog", a, c)
    BY <1>7, <2>1 DEF Appends
  <2> QED
    BY <1>1, <2>2, <2>3
<1>9. CASE JumpEpilog
  <2>1. <<a, Len(buf[a]) + 2>> \in Places
    <3>1. Len(buf[a]) \in Nat
      BY <1>2, SomeLength
    <3>2. Len(buf[a]) + 2 \in Nat \ {0}
      BY <3>1
    <3> QED
      BY <3>2, ThePlaces
  <2>2. PICK c \in Commands : c = Jump(<<a, Len(buf[a]) + 2>>)
    BY <2>1, CommandTypes
  <2>3. AppendStep("jump epilog", a, c) /\ ends' = ends
    BY <1>7, <1>9, <2>2 DEF JumpEpilog
  <2>4. Appends("jump epilog", a, c)
    BY <1>7, <2>2 DEF Appends
  <2> QED
    BY <1>1, <2>3, <2>4
<1>10. CASE SwapEpilog
  <2>1. PICK c \in Commands : c = LeaveHigh
    BY CommandTypes
  <2>2. AppendStep("swap epilog", a, c) /\ ends' = ends \cup {issued["high"]}
    BY <1>7, <1>10, <2>1 DEF SwapEpilog, LeaveHigh
  <2>3. Appends("swap epilog", a, c)
    BY <1>7, <2>1 DEF Appends
  <2> QED
    BY <1>1, <2>2, <2>3
<1> QED
  BY <1>5, <1>6, <1>8, <1>9, <1>10

(* The commands of the program.                                            *)
LEMMA ProgramCommands ==
  \A n \in Nat : \A c \in {Cmd("low", n), Cmd("high", n), Call(n), TestWriteStatus(n)} :
     Numbered(c) /\ c.n = n /\ c \in Commands /\ Words[c.op] \in Nat
<1> TAKE n \in Nat
<1> TAKE c \in {Cmd("low", n), Cmd("high", n), Call(n), TestWriteStatus(n)}
<1>1. c.op \in {"CMD", "CALL", "TEST"} /\ c.n = n
  BY CommandFields
<1>2. c \in Commands
  BY CommandTypes DEF Queues
<1>3. Words[c.op] \in Nat
  BY <1>1, SizeAssumption DEF Words
<1> QED
  BY <1>1, <1>2, <1>3 DEF Numbered

LEMMA WriteCall ==
  ASSUME NEW D, Types, Queue(D), NEW q \in Queues, NEW n \in Nat, n = Number(q),
         NEW c \in {Cmd(q, n)} \cup IF q = "low" THEN {Call(n), TestWriteStatus(n)} ELSE {},
         Write(q, c), syncAt' \in Seq(Nat)
  PROVE  Types' /\ Waited' /\ \E E : Queue(E)'
<1>1. /\ ctx \in Queues /\ "low" \in Queues /\ "high" \in Queues /\ "low" # "high"
      /\ \A r \in Queues : r = "low" \/ r = "high"
      /\ idx \in [Queues -> {0, 1}] /\ buf \in [Buffers \cup {Block} -> Seq(Commands)]
  BY TheBuffers DEF Types
<1>2. PICK a \in Buffers : a = Active(q)
  BY <1>1, TheBuffers
<1>3. c \in {Cmd("low", n), Cmd("high", n), Call(n), TestWriteStatus(n)}
  BY <1>1
<1>4. Numbered(c) /\ c.n = n /\ c \in Commands /\ Words[c.op] \in Nat
  BY <1>3, ProgramCommands
<1>5. /\ todo = <<>> /\ ctx = q /\ issued[q] < MaxIssued[q]
      /\ buf' = [buf EXCEPT ![a] = Append(@, c)]
      /\ used' = [used EXCEPT ![a] = @ + Words[c.op]]
      /\ issued' = [issued EXCEPT ![q] = @ + 1]
      /\ todo' = NextBuffer \/ todo' = <<>>
      /\ fresh' = TRUE
      /\ UNCHANGED <<status, ctx, idx, sentinel, handler, syncDone, rpc, at, snap, cmd, stack,
                     done, ends, late>>
  BY <1>2 DEF Write, Free, Append2, cpu, rsp
<1>6. Chain(todo, ctx)' /\ Step' \in {NoStep, "bufdone?"} /\ Goal(todo') # Closing
  <2>1. CASE todo' = NextBuffer
    <3>1. /\ Chain(NextBuffer, ctx) /\ First(NextBuffer) = "bufdone?"
          /\ Goal(NextBuffer) = Again
      BY NextBufferSteps
    <3> QED
      BY <2>1, <3>1, <1>5 DEF Step, Again, Closing
  <2>2. CASE todo' = <<>>
    <3>1. Chain(<<>>, ctx) /\ First(<<>>) = NoStep /\ Goal(<<>>) = NoStep
      BY NoCall
    <3> QED
      BY <2>2, <3>1, <1>5 DEF Step, NoStep, Closing
  <2> QED
    BY <1>5, <2>1, <2>2
<1>7. Step = NoStep /\ Goal(todo) # Closing
  BY <1>5 DEF Step, First, Goal, NoStep, Closing
<1>8. Phase = "plain" /\ Phase' = "plain" /\ (Closed <=> ctx = "low") /\ (Closed' <=> ctx = "low")
  <2>1. Phase = "plain" /\ Phase' = "plain"
    BY <1>6, <1>7 DEF Phase, Phases, NoStep
  <2>2. Closed <=> ctx = "low"
    BY <1>7, <2>1 DEF Closed
  <2>3. Closed' <=> ctx = "low"
    BY <1>5, <1>6, <2>1 DEF Closed
  <2> QED
    BY <2>1, <2>2, <2>3
<1>9. \A r \in Queues : \A s \in Phases : ~ Moving(r, s) /\ ~ Moving(r, s)'
  BY <1>8, PlainPhase DEF Moving
<1>10. a[1] = q /\ (\A r \in Queues : a # Other(r)) /\ (ctx = "low" => a # Active("high"))
  BY <1>1, <1>2, <1>5, TheBuffers
<1>11. /\ Weight(c) = 1 /\ n = issued[q] + 1
  BY <1>4, TheWeight DEF Number
<1>12. Appending(a, c)
  <2>1. Grows(a, c) /\ issued' = [issued EXCEPT ![a[1]] = @ + Weight(c)]
    BY <1>5, <1>10, <1>11 DEF Grows
  <2>2. a = Active(a[1]) /\ c.n = issued[a[1]] + 1
    BY <1>2, <1>4, <1>10, <1>11
  <2>3. \A r \in Queues : a # Other(r) /\ ~ Moving(r, "hand off") /\ ~ Moving(r, "leave")
                          /\ ~ Moving(r, "leave")'
    BY <1>9, <1>10 DEF Phases
  <2> QED
    BY <1>4, <1>5, <1>8, <1>10, <2>1, <2>2, <2>3 DEF Appending
<1>13. Types'
  <2>1. late' \in BOOLEAN /\ fresh' \in BOOLEAN /\ status' = status
        /\ UNCHANGED <<idx, sentinel, syncDone, handler>>
    BY <1>5 DEF Types
  <2>2. MaxIssued \in [Queues -> Nat]
    BY SizeAssumption
  <2>3. issued[a[1]] < MaxIssued[a[1]]
    BY <1>5, <1>10
  <2> QED
    BY <1>4, <1>5, <1>6, <1>12, <2>1, <2>2, <2>3, AppendTypes
<1>14. Waited'
  BY <1>6 DEF Waited, NoStep
<1>15. PICK E : E = Extended(D, a, c)
  OBVIOUS
<1>16. PICK m : m = Len(buf'[a])
  OBVIOUS
<1>17. buf'[a][m] = c
  <2>1. buf'[a][Len(buf[a]) + 1] = c /\ Len(buf'[a]) = Len(buf[a]) + 1
    BY <1>1, <1>4, <1>12, GrownBuffers DEF Appending
  <2> QED
    BY <1>16, <2>1
<1>18. NewItem(E, a)'
  <2>1. CASE q = "low"
    <3>1. LowItem(a, m)'
      BY <1>4, <1>17, <2>1 DEF LowItem
    <3> QED
      BY <1>10, <1>16, <2>1, <3>1 DEF NewItem
  <2>2. CASE q = "high"
    <3>1. HighItem(E, a, m)'
      BY <1>1, <1>4, <1>17, <2>2 DEF HighItem
    <3> QED
      BY <1>1, <1>10, <1>16, <2>2, <3>1 DEF NewItem
  <2> QED
    BY <1>1, <2>1, <2>2
<1>19. Queue(E)'
  BY <1>12, <1>15, <1>18, AppendQueue
<1> QED
  BY <1>13, <1>14, <1>19

LEMMA WriteCalls ==
  ASSUME NEW D, Types, Queue(D), RspqWrite \/ RspqBlockRun \/ RspqSyncpointNew
  PROVE  Types' /\ Waited' /\ \E E : Queue(E)'
<1>1. "low" \in Queues /\ syncAt \in Seq(Nat) /\ \A q \in Queues : issued[q] \in Nat
  BY TheBuffers DEF Types
<1>2. \A q \in Queues : Number(q) \in Nat
  BY <1>1 DEF Number
<1>3. CASE RspqWrite
  <2>1. PICK q \in Queues : Write(q, Cmd(q, Number(q))) /\ UNCHANGED syncAt
    BY <1>3 DEF RspqWrite
  <2>2. PICK n \in Nat : n = Number(q)
    BY <1>2
  <2>3. Write(q, Cmd(q, n)) /\ syncAt' \in Seq(Nat)
    BY <1>1, <2>1, <2>2
  <2> QED
    BY <2>2, <2>3, WriteCall
<1>4. PICK n \in Nat : n = Number("low")
  BY <1>1, <1>2
<1>5. CASE RspqBlockRun
  <2>1. Write("low", Call(n)) /\ syncAt' \in Seq(Nat)
    BY <1>1, <1>4, <1>5 DEF RspqBlockRun
  <2> QED
    BY <1>1, <1>4, <2>1, WriteCall
<1>6. CASE RspqSyncpointNew
  <2>1. Write("low", TestWriteStatus(n)) /\ syncAt' = Append(syncAt, n)
    BY <1>4, <1>6 DEF RspqSyncpointNew
  <2>2. syncAt' \in Seq(Nat)
    BY <1>1, <2>1
  <2> QED
    BY <1>1, <1>4, <2>1, <2>2, WriteCall
<1> QED
  BY <1>3, <1>5, <1>6
-----------------------------------------------------------------------------

(* Steps of a call that change how far it has come, and no command.        *)
Rephase ==
  /\ SameBuffers /\ UNCHANGED <<rpc, at, cmd, stack, snap, done>>
  /\ (High' <=> High) /\ (Requested => Requested')
  /\ \A q \in Queues : /\ Signalled(q)' <=> Signalled(q)
                       /\ ~ Moving(q, "hand off") /\ ~ Moving(q, "hand off")'
                       /\ ~ Moving(q, "leave") /\ ~ Moving(q, "leave")'
                       /\ (Moving(q, "switch") => Bufdone(q) \notin status)'
  /\ Phase # "patch swap"
  /\ Phase \in {"request", "prolog"} => Phase' \in {"request", "prolog"}
  /\ Closed /\ buf[Active("high")] # <<>> => Closed'

LEMMA RephaseNames ==
  ASSUME SameBuffers
  PROVE  /\ \A q : Active(q)' = Active(q) /\ Other(q)' = Other(q)
         /\ \A q : HandsOver(q)' = HandsOver(q) /\ Leaves(q)' = Leaves(q)
         /\ buf' = buf /\ ends' = ends /\ issued' = issued /\ idx' = idx
         /\ Cursor("high")' = Cursor("high")
  BY DEF SameBuffers, Active, Other, HandsOver, Leaves, Cursor

LEMMA RephasePlaces ==
  ASSUME Rephase
  PROVE  /\ Here' = Here /\ \A q : Place(q)' = Place(q) /\ Spot(q)' = Spot(q)
         /\ (InBlock' <=> InBlock) /\ (InBody' <=> InBody)
         /\ \A q, c : After(q, c)' <=> After(q, c)
         /\ Ahead' <=> Ahead
<1>1. Here' = Here
  BY DEF Rephase, Here
<1>2. \A q : Place(q)' = Place(q)
  BY <1>1 DEF Rephase, Place
<1>3. (InBlock' <=> InBlock) /\ (InBody' <=> InBody)
  BY <1>2 DEF InBlock, InBody
<1>4. \A q : Spot(q)' = Spot(q)
  BY <1>2, <1>3 DEF Rephase, Spot
<1>5. \A q, c : After(q, c)' <=> After(q, c)
  BY <1>4, RephaseNames DEF Rephase, After
<1>6. Ahead' <=> Ahead
  <2>1. /\ Spot("high")' = Spot("high") /\ Active("high")' = Active("high")
        /\ Other("high")' = Other("high") /\ buf' = buf
    BY <1>4, RephaseNames DEF Rephase
  <2> QED
    BY ONLY <2>1 DEF Ahead
<1> QED
  BY <1>1, <1>2, <1>3, <1>4, <1>5, <1>6

LEMMA RephaseItems ==
  ASSUME NEW D, Types, Counts(D), Items(D), Tails, Rephase
  PROVE  Counts(D)' /\ Items(D)' /\ Tails'
<1>1. /\ \A q : Active(q)' = Active(q) /\ Other(q)' = Other(q)
      /\ \A q : HandsOver(q)' = HandsOver(q) /\ Leaves(q)' = Leaves(q)
      /\ buf' = buf /\ ends' = ends /\ issued' = issued
  BY RephaseNames DEF Rephase
<1>2. /\ \A q \in Queues : /\ ~ Moving(q, "hand off") /\ ~ Moving(q, "hand off")'
                           /\ ~ Moving(q, "leave") /\ ~ Moving(q, "leave")'
      /\ Phase # "patch swap" /\ (Closed /\ buf[Active("high")] # <<>> => Closed')
      /\ "low" \in Queues /\ "high" \in Queues
  BY TheBuffers DEF Rephase, Types
<1>3. Counts(D)'
  BY <1>1 DEF Counts, Counted
<1>4. ASSUME NEW b \in Buffers, NEW k \in 1 .. Len(buf[b]), LowItem(b, k) PROVE LowItem(b, k)'
  BY <1>1, <1>2, <1>4 DEF LowItem
<1>5. ASSUME NEW b \in Buffers, NEW k \in 1 .. Len(buf[b]), HighItem(D, b, k)
      PROVE  HighItem(D, b, k)'
  <2>1. /\ Active("high")' = Active("high") /\ Other("high")' = Other("high")
        /\ HandsOver("high")' = HandsOver("high") /\ Leaves("high")' = Leaves("high")
        /\ ~ Moving("high", "leave")
    BY <1>1, <1>2
  <2>2. buf'[b] = buf[b] /\ ends' = ends
    BY <1>1
  <2>3. buf[b] # <<>>
    <3>1. k \in 1 .. Len(buf[b])
      OBVIOUS
    <3>2. Len(<<>>) = 0
      OBVIOUS
    <3> QED
      BY <3>1, <3>2
  <2>4. Closed /\ b = Active("high") => Closed'
    BY <1>2, <2>3
  <2> QED
    BY <1>2, <1>5, <2>1, <2>2, <2>4 DEF HighItem
<1>6. Items(D)'
  BY <1>1, <1>4, <1>5 DEF Items
<1>7. Tails'
  BY <1>1, <1>2 DEF Tails
<1> QED
  BY <1>3, <1>6, <1>7

LEMMA RephaseStand ==
  ASSUME NEW D, Types, Stand(D), Handshake, Rephase
  PROVE  Stand(D)' /\ Handshake'
<1>1. /\ \A q : Active(q)' = Active(q) /\ Other(q)' = Other(q)
      /\ \A q : HandsOver(q)' = HandsOver(q)
      /\ buf' = buf /\ stack' = stack /\ at' = at /\ done' = done /\ (High' <=> High)
  BY RephaseNames DEF Rephase
<1>2. /\ \A q \in Queues : /\ ~ Moving(q, "hand off") /\ ~ Moving(q, "leave")
                           /\ Signalled(q)' <=> Signalled(q)
                           /\ (Moving(q, "switch") => Bufdone(q) \notin status)'
      /\ "low" \in Queues /\ "high" \in Queues
  BY TheBuffers DEF Rephase, Types
<1>3. /\ \A q : Place(q)' = Place(q) /\ Spot(q)' = Spot(q)
      /\ (InBlock' <=> InBlock) /\ (InBody' <=> InBody)
      /\ \A q, c : After(q, c)' <=> After(q, c)
  BY RephasePlaces
<1>4. Stand(D)'
  BY <1>1, <1>2, <1>3 DEF Stand, Stands
<1>5. Handshake'
  BY <1>1, <1>2, <1>3 DEF Handshake
<1> QED
  BY <1>4, <1>5

LEMMA RephaseCopy ==
  ASSUME NEW D, Copy(D), Rephase
  PROVE  Copy(D)'
<1>1. /\ buf' = buf /\ ends' = ends /\ Active("high")' = Active("high")
      /\ UNCHANGED <<rpc, at, cmd, snap>> /\ Here' = Here
      /\ Phase \in {"request", "prolog"} => Phase' \in {"request", "prolog"}
      /\ (High' <=> High) /\ (Requested => Requested')
  BY RephaseNames, RephasePlaces DEF Rephase
<1>2. \A b, k : Copied(D, b, k) => Copied(D, b, k)'
  BY <1>1 DEF Copied
<1> QED
  BY <1>1, <1>2 DEF Copy

LEMMA RephaseRequests ==
  ASSUME Rephase, Requests, Phase # "request", Phase # "prolog",
         Closed => Closed' \/ Phase' = "request",
         Requested' <=> Requested
  PROVE  Requests'
<1>1. /\ Cursor("high")' = Cursor("high") /\ buf' = buf
      /\ UNCHANGED <<rpc, at, cmd, snap>> /\ (High' <=> High) /\ Phase # "patch swap"
  BY RephaseNames DEF Rephase
<1>2. /\ Here' = Here /\ Place("high")' = Place("high") /\ (Ahead' <=> Ahead)
      /\ \A c : After("high", c)' <=> After("high", c)
  BY RephasePlaces
<1> QED
  BY <1>1, <1>2 DEF Requests

(* What stands in front of the return to the low queue, and in front of a  *)
(* jump.                                                                   *)
LEMMA LeavingItem ==
  ASSUME NEW D, NEW b, NEW k, HighItem(D, b, k), buf[b][k] = LeaveHigh
  PROVE  /\ b = Active("high") /\ Closed /\ D[b][k] \in ends
         /\ k = Len(buf[b]) /\ k > 1 /\ buf[b][k - 1].op = "JUMP"
         /\ k > 2 => buf[b][k - 2] # Jump(<<b, k>>)
<1>1. /\ \A p : LeaveHigh # Jump(p) /\ Opening # LeaveHigh /\ ~ Numbered(LeaveHigh)
      /\ LeaveHigh # Handover
  BY Unlike, CommandFields
<1>2. LeaveHigh # HandsOver("high") /\ LeaveHigh # Leaves("high")
  BY <1>1 DEF HandsOver, Leaves
<1> QED
  BY <1>1, <1>2 DEF HighItem

LEMMA JumpingItem ==
  ASSUME NEW D, NEW b, NEW k, HighItem(D, b, k), buf[b][k].op = "JUMP", b # Other("high")
  PROVE  \/ buf[b][k] = Jump(<<b, k + 1>>)
         \/ /\ buf[b][k] = Jump(<<b, k + 2>>) /\ k < Len(buf[b])
            /\ \/ buf[b][k + 1] = Jump(<<b, k + 2>>)
               \/ buf[b][k + 1] = LeaveHigh /\ Phase = "patch swap"
<1>1. LeaveHigh.op = "SWAP" /\ Opening.op = "STATUS" /\ \A n : Cmd("high", n).op = "CMD"
  BY CommandFields
<1> QED
  BY <1>1 DEF HighItem

LEMMA BeginCall ==
  ASSUME NEW D, Types, Queue(D), RspqHighpriBegin
  PROVE  Types' /\ Waited' /\ Queue(D)'
<1> DEFINE h == Active("high")
           s == buf[h]
           n == Len(s)
<1>1. /\ ctx = "low" /\ ctx' = "high" /\ todo = <<>> /\ "low" \in Queues /\ "high" \in Queues
      /\ todo' = (IF Epilog(s) THEN <<"patch epilog", "patch swap">> ELSE <<>>)
                   \o <<"request", "prolog">> \o Flush
      /\ UNCHANGED <<buf, used, status, idx, sentinel, handler, syncDone, rpc, at, snap, cmd,
                     stack, issued, done, ends, syncAt, fresh, late>>
  BY TheBuffers
     DEF RspqHighpriBegin, StartCall, Free, memory, rsp, history, Types
<1>2. Step = NoStep /\ Phase = "plain" /\ Closed
  BY <1>1 DEF Step, First, Phase, Phases, NoStep, Closed
<1>3. h \in Buffers /\ h # Other("high") /\ s \in Seq(Commands) /\ n \in Nat /\ h[1] = "high"
      /\ (s # <<>> => n \in 1 .. n)
  <2>1. h \in Buffers /\ h # Other("high") /\ h[1] = "high"
    BY <1>1, TheBuffers DEF Types
  <2>2. s \in Seq(Commands)
    BY <2>1 DEF Types
  <2> QED
    BY <2>1, <2>2, SomeLength
<1> HIDE DEF s, n
<1>4. ASSUME s # <<>> PROVE Epilog(s) /\ s[n] = LeaveHigh /\ s[n - 1].op = "JUMP" /\ n > 1
  <2>1. s[n] = LeaveHigh
    BY <1>2, <1>4 DEF Queue, Epilogue, Final, s, n
  <2>2. HighItem(D, h, n)
    <3>1. n \in 1 .. Len(buf[h]) /\ ~ (h[1] = "low")
      BY <1>3, <1>4 DEF n, s
    <3> QED
      BY <3>1, <1>3 DEF Queue, Items
  <2>3. n > 1 /\ s[n - 1].op = "JUMP"
    BY <1>3, <2>1, <2>2, LeavingItem DEF n, s
  <2>4. Epilog(s)
    BY <2>1, <2>3, CommandFields DEF Epilog, n
  <2> QED
    BY <2>1, <2>3, <2>4
<1>5. Epilog(s) => s # <<>>
  <2>1. Len(<<>>) = 0
    OBVIOUS
  <2> QED
    BY <2>1 DEF Epilog
<1>6. /\ Chain(todo, ctx)' /\ Goal(todo') # Closing
      /\ Step' = IF Epilog(s) THEN "patch epilog" ELSE "request"
  <2>1. Again # Closing
    BY DEF Again, Closing
  <2>2. CASE Epilog(s)
    BY <1>1, <2>1, <2>2, BeginSteps DEF Step
  <2>3. CASE ~ Epilog(s)
    BY <1>1, <2>1, <2>3, BeginSteps DEF Step
  <2> QED
    BY <2>2, <2>3
<1>7. Phase' = Step' /\ Phase' \in {"patch epilog", "request"}
  BY <1>6 DEF Phase, Phases
<1>8. Phase' = "patch epilog" <=> s # <<>>
  BY <1>4, <1>5, <1>6, <1>7
<1>9. Closed' <=> Phase' = "patch epilog"
  BY <1>1, <1>6, <1>7 DEF Closed
<1>10. Types'
  BY <1>1, <1>6 DEF Types
<1>11. Waited'
  BY <1>7 DEF Waited
<1>12. \A q \in Queues : Signalled(q)' <=> Signalled(q)
  BY <1>1, <1>2, <1>7 DEF Signalled, Moving, Bufdone
<1>13. Rephase
  <2>1. SameBuffers /\ UNCHANGED <<rpc, at, cmd, stack, snap, done>> /\ (High' <=> High)
        /\ (Requested' <=> Requested)
    BY <1>1 DEF SameBuffers, High, Requested
  <2>2. \A q \in Queues : /\ ~ Moving(q, "hand off") /\ ~ Moving(q, "hand off")'
                          /\ ~ Moving(q, "leave") /\ ~ Moving(q, "leave")'
                          /\ ~ Moving(q, "switch")'
    BY <1>2, <1>7 DEF Moving
  <2>3. Closed /\ buf[Active("high")] # <<>> => Closed'
    BY <1>8, <1>9 DEF s
  <2> QED
    BY <1>2, <1>12, <2>1, <2>2, <2>3 DEF Rephase
<1>14. /\ Counts(D)' /\ Items(D)' /\ Tails' /\ Stand(D)' /\ Handshake' /\ Copy(D)'
  BY <1>13, RephaseItems, RephaseStand, RephaseCopy DEF Queue
<1>15. Requests'
  <2>1. Requested' <=> Requested
    BY <1>1 DEF Requested
  <2> QED
    BY <1>2, <1>7, <1>9, <1>13, <2>1, RephaseRequests DEF Queue
<1>16. Epilogue'
  <2>1. h' = h /\ s' = s
    BY <1>1 DEF Active, s
  <2>2. CASE s # <<>>
    <3>1. Final(s) = LeaveHigh
      BY <1>4, <2>2 DEF Final, n
    <3>2. s[n - 1] = Jump(<<h, n>>)
      <4> DEFINE k == n - 1
      <4>1. k \in 1 .. n /\ k + 1 = n /\ k < n /\ k \in Nat
        BY <1>3, <1>4, <2>2
      <4>2. HighItem(D, h, k)
        <5>1. k \in 1 .. Len(buf[h]) /\ ~ (h[1] = "low")
          BY <1>3, <4>1 DEF n, s
        <5> HIDE DEF k
        <5> QED
          BY <5>1, <1>3 DEF Queue, Items
      <4> HIDE DEF k
      <4>3. buf[h][k].op = "JUMP" /\ buf[h][k + 1] = LeaveHigh
        BY <1>4, <2>2, <4>1 DEF s, k
      <4>4. buf[h][k] = Jump(<<h, k + 1>>)
        <5>1. Phase # "patch swap" /\ \A p : LeaveHigh # Jump(p)
          BY <1>2, Unlike
        <5>2. HighItem(D, h, k) /\ buf[h][k].op = "JUMP" /\ h # Other("high")
          BY <1>3, <4>2, <4>3
        <5>3. \/ buf[h][k] = Jump(<<h, k + 1>>)
              \/ /\ buf[h][k] = Jump(<<h, k + 2>>) /\ k < Len(buf[h])
                 /\ \/ buf[h][k + 1] = Jump(<<h, k + 2>>)
                    \/ buf[h][k + 1] = LeaveHigh /\ Phase = "patch swap"
          BY ONLY <5>2, JumpingItem
        <5> QED
          BY <4>3, <5>1, <5>3
      <4> QED
        BY <4>1, <4>4 DEF s, k
    <3> QED
      BY <1>7, <1>8, <2>1, <2>2, <3>1, <3>2 DEF Epilogue, s, n
  <2>3. CASE s = <<>>
    <3>1. Phase' = "request" /\ ~ Closed'
      BY <1>7, <1>8, <1>9, <2>3
    <3> QED
      BY <2>1, <2>3, <3>1 DEF Epilogue, s
  <2> QED
    BY <2>2, <2>3
<1> QED
  BY <1>10, <1>11, <1>14, <1>15, <1>16 DEF Queue

LEMMA ClearCall ==
  ASSUME NEW D, Types, Waited, Queue(D), ClearBufdone
  PROVE  Types' /\ Waited' /\ Queue(D)'
<1>1. /\ Doing("clear bufdone") /\ todo' = Tail(todo) /\ status' = Signal({Bufdone(ctx)}, {})
      /\ UNCHANGED <<buf, used, ctx, idx, sentinel, handler, syncDone, rpc, at, snap, cmd,
                     stack, issued, done, ends, syncAt, fresh, late>>
  BY DEF ClearBufdone, WriteSpStatus, memory, cpu, rsp
<1>2. /\ Step = "clear bufdone" /\ Chain(todo', ctx) /\ todo # <<>> /\ Chain(todo, ctx)
      /\ Step' = NoStep => "clear bufdone" \in Finals
      /\ Step' # NoStep => Step' \in Follow["clear bufdone"] /\ Goal(todo') = Goal(todo)
  BY <1>1, NextStep DEF Types
<1>3. Step' = "switch" /\ Goal(todo') = Goal(todo) /\ Goal(todo) # Closing
  <2>1. "clear bufdone" \notin Finals /\ "clear bufdone" \notin Endings
    BY DEF Finals, Endings, Epilogs
  <2>2. Goal(todo) = Closing => First(todo) \in Endings
    BY <1>2, StepFacts
  <2> QED
    BY <1>2, <2>1, <2>2, FollowSteps DEF Step
<1>4. Phase = "plain" /\ Phase' = "switch"
  BY <1>2, <1>3 DEF Phase, Phases
<1>5. (Closed <=> ctx = "low") /\ (Closed' <=> ctx = "low")
  BY <1>1, <1>3, <1>4 DEF Closed
<1>6. Bufdone(ctx) \in status /\ status' = status \ {Bufdone(ctx)}
  BY <1>1, <1>2 DEF Waited, Signal
<1>7. /\ ctx \in Queues /\ Bufdone("low") = "BUFDONE_LOW" /\ Bufdone("high") = "BUFDONE_HIGH"
      /\ \A q \in Queues : q = "low" \/ q = "high"
  BY TheBuffers DEF Types, Bufdone
<1>8. (High' <=> High) /\ (Requested' <=> Requested)
  BY <1>6, <1>7 DEF High, Requested
<1>9. \A q \in Queues : /\ Signalled(q)' <=> Signalled(q)
                        /\ (Moving(q, "switch") => Bufdone(q) \notin status)'
  BY <1>1, <1>4, <1>6, <1>7 DEF Signalled, Moving, Bufdone
<1>10. Types'
  BY <1>1, <1>2, <1>6 DEF Types
<1>11. Waited'
  BY <1>3 DEF Waited
<1>13. Rephase
  <2>1. SameBuffers /\ UNCHANGED <<rpc, at, cmd, stack, snap, done>>
    BY <1>1 DEF SameBuffers
  <2>2. \A q \in Queues : /\ ~ Moving(q, "hand off") /\ ~ Moving(q, "hand off")'
                          /\ ~ Moving(q, "leave") /\ ~ Moving(q, "leave")'
    BY <1>4 DEF Moving
  <2> QED
    BY <1>4, <1>5, <1>8, <1>9, <2>1, <2>2 DEF Rephase
<1>14. /\ Counts(D)' /\ Items(D)' /\ Tails' /\ Stand(D)' /\ Handshake' /\ Copy(D)'
  BY <1>13, RephaseItems, RephaseStand, RephaseCopy DEF Queue
<1>15. Requests'
  BY <1>4, <1>5, <1>8, <1>13, RephaseRequests DEF Queue
<1>16. Epilogue'
  <2>1. Active("high")' = Active("high") /\ buf' = buf
    BY <1>1 DEF Active
  <2>2. /\ Phase' \notin {"patch epilog", "patch swap", "swap epilog", "request"}
        /\ Phase \notin {"patch epilog", "patch swap"} /\ (Closed' => Closed)
    BY <1>4, <1>5
  <2> QED
    BY <1>8, <2>1, <2>2 DEF Queue, Epilogue
<1> QED
  BY <1>10, <1>11, <1>14, <1>15, <1>16 DEF Queue

LEMMA RequestCall ==
  ASSUME NEW D, Types, Queue(D), RequestHighpri
  PROVE  Types' /\ Waited' /\ Queue(D)'
<1>1. /\ Doing("request") /\ todo' = Tail(todo) /\ status' = Signal({}, {"HIGHPRI_REQUESTED"})
      /\ UNCHANGED <<buf, used, ctx, idx, sentinel, handler, syncDone, rpc, at, snap, cmd,
                     stack, issued, done, ends, syncAt, fresh, late>>
  BY DEF RequestHighpri, WriteSpStatus, memory, cpu, rsp
<1>2. /\ Step = "request" /\ Chain(todo', ctx) /\ todo # <<>> /\ Chain(todo, ctx)
      /\ Step' = NoStep => "request" \in Finals
      /\ Step' # NoStep => Step' \in Follow["request"] /\ Goal(todo') = Goal(todo)
  BY <1>1, NextStep DEF Types
<1>3. Step' = "prolog" /\ Goal(todo') = Goal(todo) /\ Goal(todo) # Closing /\ ctx # "low"
  <2>1. "request" \notin Finals /\ "request" \notin Endings /\ "request" \in HighSteps
    BY DEF Finals, Endings, Epilogs, HighSteps
  <2>2. Goal(todo) = Closing => First(todo) \in Endings
    BY <1>2, StepFacts
  <2>3. ctx = "low" => First(todo) \notin HighSteps
    BY <1>2, StepFacts
  <2> QED
    BY <1>2, <2>1, <2>2, <2>3, FollowSteps DEF Step
<1>4. Phase = "request" /\ Phase' = "prolog"
  BY <1>2, <1>3 DEF Phase, Phases
<1>5. ~ Closed /\ ~ Closed'
  BY <1>1, <1>3, <1>4 DEF Closed
<1>6. status' = status \cup {"HIGHPRI_REQUESTED"}
  BY <1>1 DEF Signal
<1>7. /\ Bufdone("low") = "BUFDONE_LOW" /\ Bufdone("high") = "BUFDONE_HIGH"
      /\ \A q \in Queues : q = "low" \/ q = "high"
  BY TheBuffers DEF Types, Bufdone
<1>8. (High' <=> High) /\ Requested'
  BY <1>6 DEF High, Requested
<1>9. \A q \in Queues : /\ Signalled(q)' <=> Signalled(q)
                        /\ ~ Moving(q, "switch")'
  BY <1>4, <1>6, <1>7 DEF Signalled, Moving, Bufdone
<1>10. Types'
  BY <1>1, <1>2, <1>6 DEF Types, Signals
<1>11. Waited'
  BY <1>3 DEF Waited
<1>13. Rephase
  <2>1. SameBuffers /\ UNCHANGED <<rpc, at, cmd, stack, snap, done>>
    BY <1>1 DEF SameBuffers
  <2>2. \A q \in Queues : /\ ~ Moving(q, "hand off") /\ ~ Moving(q, "hand off")'
                          /\ ~ Moving(q, "leave") /\ ~ Moving(q, "leave")'
    BY <1>4 DEF Moving
  <2> QED
    BY <1>4, <1>5, <1>8, <1>9, <2>1, <2>2 DEF Rephase
<1>14. /\ Counts(D)' /\ Items(D)' /\ Tails' /\ Stand(D)' /\ Handshake' /\ Copy(D)'
  BY <1>13, RephaseItems, RephaseStand, RephaseCopy DEF Queue
<1>15. Requests'
  <2>1. \A c : After("high", c)' <=> After("high", c)
    BY <1>13, RephasePlaces
  <2>2. High /\ Phase # "patch swap" => ~ After("high", LeaveHigh)
    BY DEF Queue, Requests
  <2> QED
    BY <1>4, <1>8, <2>1, <2>2 DEF Requests
<1>16. Epilogue'
  BY <1>4, <1>5 DEF Epilogue
<1> QED
  BY <1>10, <1>11, <1>14, <1>15, <1>16 DEF Queue

(* rspq_switch_buffer: the buffer that is left ends nowhere yet, the other *)
(* one is empty and goes on with its number.                               *)
Turned ==
  /\ buf' = [buf EXCEPT ![Other(ctx)] = <<>>] /\ idx' = [idx EXCEPT ![ctx] = 1 - @]
  /\ UNCHANGED <<status, ctx, rpc, at, snap, cmd, stack, issued, done, ends>>
  /\ Phase = "switch" /\ Phase' = "hand off"
  /\ (Closed <=> ctx = "low") /\ (Closed' <=> ctx = "low")
  /\ ctx = "high" => at[1] # Other(ctx)

LEMMA TurnedNames ==
  ASSUME Types, Turned
  PROVE  /\ ctx \in Queues /\ Active(ctx)' = Other(ctx) /\ Other(ctx)' = Active(ctx)
         /\ Active(ctx) # Other(ctx) /\ Other(ctx) \in Buffers /\ Active(ctx) \in Buffers
         /\ \A r \in Queues \ {ctx} :
              /\ Active(r)' = Active(r) /\ Other(r)' = Other(r)
              /\ HandsOver(r)' = HandsOver(r) /\ Leaves(r)' = Leaves(r)
              /\ Active(r) # Other(ctx) /\ Other(r) # Other(ctx)
              /\ Active(r) # Active(ctx) /\ Other(r) # Active(ctx)
         /\ buf'[Other(ctx)] = <<>> /\ buf' \in [Buffers \cup {Block} -> Seq(Commands)]
         /\ \A b \in Buffers \cup {Block} : b # Other(ctx) => buf'[b] = buf[b]
         /\ idx' \in [Queues -> {0, 1}]
         /\ \A q \in Queues : q = ctx => Active(q)' = Other(q) /\ Other(q)' = Active(q)
<1>1. /\ ctx \in Queues /\ idx \in [Queues -> {0, 1}]
      /\ buf \in [Buffers \cup {Block} -> Seq(Commands)]
  BY DEF Types
<1>2. /\ \A q \in Queues : /\ Active(q) \in Buffers /\ Other(q) \in Buffers
                           /\ Active(q)[1] = q /\ Other(q)[1] = q /\ Active(q) # Other(q)
  BY <1>1, TheBuffers
<1>3. /\ idx' \in [Queues -> {0, 1}] /\ idx'[ctx] = 1 - idx[ctx]
      /\ \A r \in Queues \ {ctx} : idx'[r] = idx[r]
  <2>1. \A i \in {0, 1} : 1 - i \in {0, 1}
    OBVIOUS
  <2>2. 1 - idx[ctx] \in {0, 1} /\ idx' = [idx EXCEPT ![ctx] = 1 - @]
    BY <1>1, <2>1 DEF Turned
  <2> QED
    BY ONLY <1>1, <2>2
<1>4. idx[ctx] \in {0, 1} /\ 1 - (1 - idx[ctx]) = idx[ctx]
  <2>1. \A i \in {0, 1} : 1 - (1 - i) = i
    OBVIOUS
  <2> QED
    BY <1>1, <2>1
<1>5. Active(ctx)' = Other(ctx) /\ Other(ctx)' = Active(ctx)
  BY <1>3, <1>4 DEF Turned, Active, Other
<1>6. \A r \in Queues \ {ctx} : Active(r)' = Active(r) /\ Other(r)' = Other(r)
  BY <1>3 DEF Active, Other
<1>7. \A r \in Queues \ {ctx} : HandsOver(r)' = HandsOver(r) /\ Leaves(r)' = Leaves(r)
  <2>1. \A r \in Queues \ {ctx} : r = "low" \/ r = "high"
    BY <1>1, TheBuffers
  <2> QED
    BY <1>6, <2>1 DEF HandsOver, Leaves
<1>8. /\ buf'[Other(ctx)] = <<>>
      /\ \A b \in Buffers \cup {Block} : b # Other(ctx) => buf'[b] = buf[b]
      /\ buf' \in [Buffers \cup {Block} -> Seq(Commands)]
  <2>1. /\ Other(ctx) \in Buffers /\ <<>> \in Seq(Commands)
        /\ buf' = [buf EXCEPT ![Other(ctx)] = <<>>]
    <3>1. <<>> \in Seq(Commands)
      OBVIOUS
    <3>2. buf' = [buf EXCEPT ![Other(ctx)] = <<>>]
      BY DEF Turned
    <3> QED
      BY <1>1, <1>2, <3>1, <3>2
  <2> QED
    BY ONLY <1>1, <2>1
<1>9. \A q \in Queues : q = ctx => Active(q)' = Other(q) /\ Other(q)' = Active(q)
  BY <1>3, <1>4 DEF Active, Other
<1> QED
  BY <1>1, <1>2, <1>3, <1>5, <1>6, <1>7, <1>8, <1>9, ZenonT(60)

LEMMA TurnedPhase ==
  ASSUME Turned
  PROVE  /\ Moving(ctx, "switch") /\ Moving(ctx, "hand off")'
         /\ \A q : ~ Moving(q, "hand off") /\ ~ Moving(q, "leave") /\ ~ Moving(q, "leave")'
                   /\ ~ Moving(q, "switch")'
         /\ \A q : q # ctx => ~ Moving(q, "switch") /\ ~ Moving(q, "hand off")'
         /\ Here' = Here /\ (High' <=> High) /\ (Requested' <=> Requested) /\ stack' = stack
         /\ \A q : Place(q)' = Place(q) /\ Spot(q)' = Spot(q)
         /\ (InBlock' <=> InBlock) /\ (InBody' <=> InBody) /\ at' = at /\ done' = done
         /\ \A q : (Bufdone(q) \in status)' <=> Bufdone(q) \in status
<1>1. Here' = Here /\ (High' <=> High) /\ (Requested' <=> Requested)
  BY DEF Turned, Here, High, Requested
<1>2. \A q : Place(q)' = Place(q)
  BY <1>1 DEF Turned, Place
<1>3. (InBlock' <=> InBlock) /\ (InBody' <=> InBody)
  BY <1>2 DEF InBlock, InBody
<1>4. \A q : Spot(q)' = Spot(q)
  BY <1>2, <1>3 DEF Turned, Spot
<1> QED
  BY <1>1, <1>2, <1>3, <1>4 DEF Turned, Moving, Bufdone

(* The RSP is not in the buffer that is cleared.                           *)
LEMMA TurnedSpot ==
  ASSUME NEW D, Types, Turned, Stand(D), Handshake
  PROVE  /\ Spot(ctx)[1] = Active(ctx) /\ at[1] # Other(ctx)
         /\ \A q \in Queues : Spot(q)[1] # Other(ctx)
<1>1. /\ ctx \in Queues /\ Active(ctx) # Other(ctx)
      /\ \A r \in Queues \ {ctx} : Active(r) # Other(ctx) /\ Other(r) # Other(ctx)
  BY TurnedNames
<1>2. \A q \in Queues : Spot(q)[1] \in {Active(q), Other(q)}
  BY TheSpot
<1>3. Moving(ctx, "switch")
  BY TurnedPhase
<1>4. /\ "low" \in Queues /\ "high" \in Queues /\ "low" # "high" /\ ctx \in {"low", "high"}
      /\ Block \notin Buffers /\ \A q \in Queues : Active(q) \in Buffers /\ Other(q) \in Buffers
  BY <1>1, TheBuffers DEF Types
<1>5. Here[1] = at[1]
  BY DEF Here
<1>6. CASE ctx = "low"
  <2>1. Spot("low")[1] = Active("low")
    BY <1>3, <1>6 DEF Handshake, Signalled
  <2>2. CASE High
    <3>1. at[1] \in {Active("high"), Other("high")}
      BY <2>2 DEF Stand
    <3> QED
      BY <1>1, <1>2, <1>4, <1>6, <2>1, <3>1
  <2>3. CASE ~ High
    <3>1. Place("low") = Here
      BY <2>3, <1>4 DEF Place
    <3>2. at[1] = Block \/ at[1] = Spot("low")[1]
      BY <1>5, <3>1 DEF Spot, InBlock
    <3> QED
      BY <1>1, <1>2, <1>4, <1>6, <2>1, <3>2
  <2> QED
    BY <2>2, <2>3
<1>7. CASE ctx = "high"
  <2>1. at[1] # Other("high")
    BY <1>7 DEF Turned
  <2>2. Spot("high") = Place("high")
    BY <1>4 DEF Spot
  <2>3. CASE High
    <3>1. Place("high") = Here
      BY <2>3 DEF Place
    <3> QED
      BY <1>1, <1>2, <1>4, <1>5, <1>7, <2>1, <2>2, <3>1
  <2>4. CASE ~ High
    <3>1. Spot("high")[1] # Other("high")
      BY <1>3, <1>7, <2>4 DEF Handshake, Signalled
    <3> QED
      BY <1>1, <1>2, <1>4, <1>7, <2>1, <3>1
  <2> QED
    BY <2>3, <2>4
<1> QED
  BY <1>4, <1>6, <1>7

(* The commands of the buffer that is left.                                *)
LEMMA TurnedLow ==
  ASSUME Types, NEW b, NEW k, LowItem(b, k), b # Other("low")
  PROVE  /\ Numbered(buf[b][k])
         /\ buf[b][k] \in {Cmd("low", buf[b][k].n), Call(buf[b][k].n), TestWriteStatus(buf[b][k].n)}
         /\ \A p : buf[b][k] # WriteWord(p) /\ buf[b][k] # LeaveLow
<1>1. Numbered(buf[b][k])
      /\ buf[b][k] \in {Cmd("low", buf[b][k].n), Call(buf[b][k].n), TestWriteStatus(buf[b][k].n)}
  BY DEF LowItem
<1>2. \A p : ~ Numbered(WriteWord(p)) /\ ~ Numbered(LeaveLow)
  BY CommandFields DEF Numbered
<1> QED
  BY <1>1, <1>2

LEMMA TurnedHigh ==
  ASSUME NEW D, Types, NEW b, NEW k \in Nat, HighItem(D, b, k), b # Other("high"), ~ Closed,
         Phase # "patch swap"
  PROVE  /\ \/ Numbered(buf[b][k]) /\ buf[b][k] = Cmd("high", buf[b][k].n)
            \/ buf[b][k] = Opening
            \/ buf[b][k] = Jump(<<b, k + 1>>)
            \/ /\ buf[b][k] = Jump(<<b, k + 2>>) /\ k < Len(buf[b])
               /\ buf[b][k + 1] = Jump(<<b, k + 2>>)
         /\ buf[b][k] # Handover /\ buf[b][k] # LeaveHigh
         /\ \A a : a # b => buf[b][k] # Jump(<<a, 1>>)
<1> DEFINE c == buf[b][k]
<1>1. \/ Numbered(c) /\ c = Cmd("high", c.n)
      \/ c = Opening
      \/ c = Jump(<<b, k + 1>>)
      \/ c = Jump(<<b, k + 2>>) /\ k < Len(buf[b]) /\ buf[b][k + 1] = Jump(<<b, k + 2>>)
  BY DEF HighItem
<1>2. /\ \A p : ~ Numbered(Jump(p)) /\ Handover # Jump(p) /\ Opening # Jump(p) /\ LeaveHigh # Jump(p)
      /\ ~ Numbered(Handover) /\ Opening # Handover /\ Opening # LeaveHigh /\ ~ Numbered(LeaveHigh)
  BY Unlike
<1>3. \A a : a # b => \A m : <<a, 1>> # <<b, m>>
  OBVIOUS
<1>4. \A p, r : p # r => Jump(p) # Jump(r)
  <2> TAKE p, r
  <2>1. Jump(p).to = p /\ Jump(r).to = r
    BY CommandFields, ZenonT(60)
  <2> QED
    BY <2>1
<1> HIDE DEF c
<1>5. \A a : a # b => c # Jump(<<a, 1>>)
  BY <1>1, <1>2, <1>3, <1>4
<1>6. c # Handover /\ c # LeaveHigh
  BY <1>1, <1>2
<1> QED
  BY <1>1, <1>5, <1>6 DEF c

LEMMA TurnedActive ==
  ASSUME NEW D, Types, Turned, Items(D), NEW k \in 1 .. Len(buf[Active(ctx)])
  PROVE  buf[Active(ctx)][k] \notin {HandsOver(ctx), Leaves(ctx)}'
<1>0. PICK b : b = Active(ctx)
  OBVIOUS
<1>1. /\ ctx \in Queues /\ b \in Buffers /\ b # Other(ctx) /\ b[1] = ctx
      /\ "low" \in Queues /\ "high" \in Queues /\ ctx \in {"low", "high"}
      /\ ctx' = ctx /\ Active(ctx)' = Other(ctx)
  BY <1>0, TurnedNames, TheBuffers DEF Types, Turned
<1>2. CASE ctx = "low"
  <2>1. LowItem(b, k)
    BY <1>0, <1>1, <1>2 DEF Items
  <2>2. \A p : buf[b][k] # WriteWord(p) /\ buf[b][k] # LeaveLow
    BY <1>1, <1>2, <2>1, TurnedLow
  <2> QED
    BY <1>0, <1>1, <1>2, <2>2 DEF HandsOver, Leaves
<1>3. CASE ctx = "high"
  <2>1. HighItem(D, b, k) /\ ~ Closed /\ Phase # "patch swap"
    BY <1>0, <1>1, <1>3 DEF Items, Turned
  <2>2. buf[b][k] # Handover /\ \A a : a # b => buf[b][k] # Jump(<<a, 1>>)
    <3>1. b # Other("high")
      BY <1>1, <1>3
    <3>2. /\ \/ Numbered(buf[b][k]) /\ buf[b][k] = Cmd("high", buf[b][k].n)
             \/ buf[b][k] = Opening
             \/ buf[b][k] = Jump(<<b, k + 1>>)
             \/ /\ buf[b][k] = Jump(<<b, k + 2>>) /\ k < Len(buf[b])
                /\ buf[b][k + 1] = Jump(<<b, k + 2>>)
          /\ buf[b][k] # Handover /\ buf[b][k] # LeaveHigh
          /\ \A a : a # b => buf[b][k] # Jump(<<a, 1>>)
      BY ONLY k \in Nat, Types, <2>1, <3>1, TurnedHigh
    <3> QED
      BY ONLY <3>2
  <2> QED
    BY <1>0, <1>1, <1>3, <2>2 DEF HandsOver, Leaves
<1> QED
  BY <1>1, <1>2, <1>3

LEMMA TurnedNumbers ==
  ASSUME NEW D \in Numbers, Types, Turned, NEW E, E = Put(D, Other(ctx), 1, issued[ctx])
  PROVE  /\ E \in Numbers /\ E[Other(ctx)][1] = issued[ctx]
         /\ \A b \in Buffers : b # Other(ctx) => E[b] = D[b]
<1>1. Other(ctx) \in Buffers /\ issued[ctx] \in Nat
  BY TurnedNames DEF Types
<1> DEFINE f == [D[Other(ctx)] EXCEPT ![1] = issued[ctx]]
<1>2. D[Other(ctx)] \in [Nat -> Nat]
  BY <1>1 DEF Numbers
<1>3. f \in [Nat -> Nat] /\ f[1] = issued[ctx]
  BY <1>1, <1>2
<1>4. E = [D EXCEPT ![Other(ctx)] = f]
  BY DEF Put
<1> HIDE DEF f
<1> QED
  BY <1>1, <1>3, <1>4 DEF Numbers

LEMMA TurnedCounts ==
  ASSUME NEW D, Types, Turned, Counts(D), NEW E, E = Put(D, Other(ctx), 1, issued[ctx])
  PROVE  Counts(E)'
<1>0. D \in Numbers
  BY DEF Counts
<1>1. /\ E \in Numbers /\ E[Other(ctx)][1] = issued[ctx]
      /\ \A b \in Buffers : b # Other(ctx) => E[b] = D[b]
  BY <1>0, TurnedNumbers
<1>2. /\ ctx \in Queues /\ Active(ctx)' = Other(ctx) /\ Other(ctx)' = Active(ctx)
      /\ Active(ctx) # Other(ctx) /\ Other(ctx) \in Buffers /\ Active(ctx) \in Buffers
      /\ \A r \in Queues \ {ctx} :
           /\ Active(r)' = Active(r) /\ Other(r)' = Other(r)
           /\ Active(r) # Other(ctx) /\ Other(r) # Other(ctx)
      /\ buf'[Other(ctx)] = <<>>
      /\ \A b \in Buffers \cup {Block} : b # Other(ctx) => buf'[b] = buf[b]
      /\ issued' = issued
      /\ \A q \in Queues : Active(q) \in Buffers /\ Other(q) \in Buffers
  BY TurnedNames, TheBuffers DEF Turned, Types
<1>3. Len(<<>>) = 0
  OBVIOUS
<1>4. \A b \in Buffers : \A k \in 1 .. Len(buf'[b]) : Counted(E, b, k)'
  <2> TAKE b \in Buffers
  <2> TAKE k \in 1 .. Len(buf'[b])
  <2>1. CASE b = Other(ctx)
    BY <2>1, <1>2, <1>3
  <2>2. CASE b # Other(ctx)
    <3>1. buf'[b] = buf[b] /\ E[b] = D[b]
      BY <2>2, <1>1, <1>2
    <3>2. Counted(D, b, k)
      BY <3>1 DEF Counts
    <3> QED
      BY <3>1, <3>2 DEF Counted
  <2> QED
    BY <2>1, <2>2
<1>5. \A b \in Buffers : \A j, k \in 1 .. (Len(buf'[b]) + 1) : j <= k => E[b][j] <= E[b][k]
  <2> TAKE b \in Buffers
  <2>1. CASE b = Other(ctx)
    <3>1. Len(buf'[b]) = 0 /\ E[b] \in [Nat -> Nat]
      BY <2>1, <1>1, <1>2, <1>3 DEF Numbers
    <3>2. \A j \in 1 .. (0 + 1) : j = 1
      OBVIOUS
    <3>3. E[b][1] \in Nat
      BY <3>1
    <3> QED
      BY <3>1, <3>2, <3>3
  <2>2. CASE b # Other(ctx)
    <3>1. buf'[b] = buf[b] /\ E[b] = D[b]
      BY <2>2, <1>1, <1>2
    <3> QED
      BY <3>1 DEF Counts
  <2> QED
    BY <2>1, <2>2
<1>6. ASSUME NEW q \in Queues
      PROVE  /\ E[Active(q)'][Len(buf'[Active(q)']) + 1] = issued'[q]
             /\ E[Other(q)'][Len(buf'[Other(q)']) + 1] = E[Active(q)'][1]
  <2>1. /\ D[Active(q)][Len(buf[Active(q)]) + 1] = issued[q]
        /\ D[Other(q)][Len(buf[Other(q)]) + 1] = D[Active(q)][1]
    BY DEF Counts
  <2>2. CASE q = ctx
    <3>1. Len(buf'[Other(ctx)]) + 1 = 1
      BY <1>2, <1>3
    <3>2. buf'[Active(ctx)] = buf[Active(ctx)] /\ E[Active(ctx)] = D[Active(ctx)]
      BY <1>1, <1>2
    <3>3. Active(q)' = Other(ctx) /\ Other(q)' = Active(ctx)
      BY <2>2, TurnedNames
    <3>4. E[Other(ctx)][Len(buf'[Other(ctx)]) + 1] = issued[ctx]
      BY <3>1, <1>1
    <3>5. E[Active(ctx)][Len(buf'[Active(ctx)]) + 1] = issued[ctx]
      BY <2>1, <2>2, <3>2
    <3> QED
      BY <2>2, <3>3, <3>4, <3>5, <1>1, <1>2
  <2>3. CASE q # ctx
    <3>1. /\ Active(q)' = Active(q) /\ Other(q)' = Other(q)
          /\ buf'[Active(q)] = buf[Active(q)] /\ E[Active(q)] = D[Active(q)]
          /\ buf'[Other(q)] = buf[Other(q)] /\ E[Other(q)] = D[Other(q)]
      BY <2>3, <1>1, <1>2
    <3> QED
      BY <2>1, <3>1, <1>2
  <2> QED
    BY <2>2, <2>3
<1> QED
  BY <1>1, <1>4, <1>5, <1>6 DEF Counts

LEMMA TurnedItems ==
  ASSUME NEW D, Types, Turned, Items(D), NEW E,
         \A b \in Buffers : b # Other(ctx) => E[b] = D[b]
  PROVE  Items(E)'
<1>1. /\ ctx \in Queues /\ Active(ctx)' = Other(ctx) /\ Other(ctx)' = Active(ctx)
      /\ Active(ctx) # Other(ctx) /\ Other(ctx) \in Buffers /\ Active(ctx) \in Buffers
      /\ \A r \in Queues \ {ctx} :
           /\ Active(r)' = Active(r) /\ Other(r)' = Other(r)
           /\ HandsOver(r)' = HandsOver(r) /\ Leaves(r)' = Leaves(r)
      /\ buf'[Other(ctx)] = <<>>
      /\ \A b \in Buffers \cup {Block} : b # Other(ctx) => buf'[b] = buf[b]
      /\ ends' = ends
  BY TurnedNames DEF Turned
<1>2. /\ \A q : ~ Moving(q, "leave") /\ ~ Moving(q, "leave")'
      /\ Phase # "patch swap" /\ (Closed <=> ctx = "low") /\ (Closed' <=> Closed)
  BY TurnedPhase DEF Turned
<1>3. /\ "low" \in Queues /\ "high" \in Queues /\ "low" # "high"
      /\ \A q \in Queues : q = "low" \/ q = "high"
      /\ \A b \in Buffers : b[1] \in Queues /\ b \in {Active(b[1]), Other(b[1])}
      /\ \A q \in Queues : Active(q)[1] = q /\ Other(q)[1] = q
  BY TheBuffers DEF Types
<1>4. ASSUME NEW b \in Buffers, b # Other(ctx), NEW k \in Nat, LowItem(b, k), b[1] = "low"
      PROVE  LowItem(b, k)'
  <2>1. buf'[b] = buf[b]
    BY <1>1, <1>4
  <2>2. CASE ctx = "low"
    <3>1. b # Other("low")
      BY <1>4, <2>2
    <3>2. /\ Numbered(buf[b][k])
          /\ buf[b][k] \in {Cmd("low", buf[b][k].n), Call(buf[b][k].n),
                            TestWriteStatus(buf[b][k].n)}
      BY <1>4, <3>1, TurnedLow
    <3> QED
      BY <2>1, <3>2 DEF LowItem
  <2>3. CASE ctx # "low"
    <3>1. /\ Other("low")' = Other("low") /\ HandsOver("low")' = HandsOver("low")
          /\ Leaves("low")' = Leaves("low")
      BY <1>1, <1>3, <2>3
    <3> QED
      BY <1>2, <1>4, <2>1, <3>1 DEF LowItem
  <2> QED
    BY <2>2, <2>3
<1>5. ASSUME NEW b \in Buffers, b # Other(ctx), NEW k \in Nat, HighItem(D, b, k), b[1] = "high"
      PROVE  HighItem(E, b, k)'
  <2>1. buf'[b] = buf[b] /\ E[b] = D[b]
    BY <1>1, <1>5
  <2>2. CASE ctx = "high"
    <3>1. b # Other("high") /\ ~ Closed
      BY <1>2, <1>3, <1>5, <2>2
    <3>2. \/ Numbered(buf[b][k]) /\ buf[b][k] = Cmd("high", buf[b][k].n)
          \/ buf[b][k] = Opening
          \/ buf[b][k] = Jump(<<b, k + 1>>)
          \/ /\ buf[b][k] = Jump(<<b, k + 2>>) /\ k < Len(buf[b])
             /\ buf[b][k + 1] = Jump(<<b, k + 2>>)
      BY <1>2, <1>5, <3>1, TurnedHigh
    <3> QED
      BY <2>1, <3>2 DEF HighItem
  <2>3. CASE ctx # "high"
    <3>1. /\ Other("high")' = Other("high") /\ HandsOver("high")' = HandsOver("high")
          /\ Leaves("high")' = Leaves("high") /\ Active("high")' = Active("high")
      BY <1>1, <1>3, <2>3
    <3> QED
      BY <1>1, <1>2, <1>5, <2>1, <3>1 DEF HighItem
  <2> QED
    BY <2>2, <2>3
<1>6. ASSUME NEW b \in Buffers, NEW k \in 1 .. Len(buf'[b])
      PROVE  IF b[1] = "low" THEN LowItem(b, k)' ELSE HighItem(E, b, k)'
  <2>1. CASE b = Other(ctx)
    <3>1. Len(buf'[b]) = 0
      <4>1. Len(<<>>) = 0
        OBVIOUS
      <4> QED
        BY <4>1, <1>1, <2>1
    <3> QED
      BY <3>1
  <2>2. CASE b # Other(ctx)
    <3>1. k \in 1 .. Len(buf[b]) /\ k \in Nat
      BY <1>1, <2>2
    <3>2. IF b[1] = "low" THEN LowItem(b, k) ELSE HighItem(D, b, k)
      BY <3>1 DEF Items
    <3> QED
      BY <1>3, <1>4, <1>5, <2>2, <3>1, <3>2
  <2> QED
    BY <2>1, <2>2
<1> QED
  BY <1>6 DEF Items

LEMMA TurnedTails ==
  ASSUME NEW D, Types, Turned, Items(D), Tails
  PROVE  Tails'
<1>1. /\ ctx \in Queues /\ Other(ctx)' = Active(ctx) /\ Active(ctx) # Other(ctx)
      /\ Active(ctx) \in Buffers
      /\ \A r \in Queues \ {ctx} :
           /\ Active(r)' = Active(r) /\ Other(r)' = Other(r) /\ Other(r) # Other(ctx)
           /\ HandsOver(r)' = HandsOver(r) /\ Leaves(r)' = Leaves(r)
      /\ \A b \in Buffers \cup {Block} : b # Other(ctx) => buf'[b] = buf[b]
      /\ \A q \in Queues : Other(q) \in Buffers
  BY TurnedNames, TheBuffers DEF Types
<1>2. /\ Moving(ctx, "hand off")'
      /\ \A q : ~ Moving(q, "hand off") /\ ~ Moving(q, "leave") /\ ~ Moving(q, "leave")'
      /\ \A q : q # ctx => ~ Moving(q, "hand off")'
  BY TurnedPhase
<1>3. \A k \in 1 .. Len(buf[Active(ctx)]) :
         buf[Active(ctx)][k] \notin {HandsOver(ctx)', Leaves(ctx)'}
  <2> TAKE k \in 1 .. Len(buf[Active(ctx)])
  <2>1. ctx' = ctx
    BY DEF Turned
  <2> QED
    BY <2>1, TurnedActive
<1>4. buf'[Active(ctx)] = buf[Active(ctx)]
  BY <1>1
<1>5. \A k \in 1 .. Len(buf'[Other(ctx)']) :
         buf'[Other(ctx)'][k] \notin {HandsOver(ctx)', Leaves(ctx)'}
  BY <1>1, <1>3, <1>4
<1>6. ASSUME NEW q \in Queues
      PROVE  /\ \/ Moving(q, "hand off")' \/ Moving(q, "leave")' \/ buf'[Other(q)'] = <<>>
                \/ Final(buf'[Other(q)']) = Leaves(q)'
             /\ Moving(q, "hand off")' => \A k \in 1 .. Len(buf'[Other(q)']) :
                                  buf'[Other(q)'][k] \notin {HandsOver(q)', Leaves(q)'}
             /\ ~ Moving(q, "leave")'
  <2>1. CASE q = ctx
    <3>1. \A k \in 1 .. Len(buf'[Other(q)']) :
                                  buf'[Other(q)'][k] \notin {HandsOver(q)', Leaves(q)'}
      BY <1>5, <2>1 DEF Turned
    <3>2. Moving(q, "hand off")'
      BY <1>2, <2>1 DEF Turned
    <3> QED
      BY <1>2, <3>1, <3>2
  <2>2. CASE q # ctx
    <3>1. Other(q)' = Other(q) /\ Leaves(q)' = Leaves(q) /\ buf'[Other(q)] = buf[Other(q)]
      BY <1>1, <2>2
    <3>2. buf[Other(q)] = <<>> \/ Final(buf[Other(q)]) = Leaves(q)
      BY <1>2 DEF Tails
    <3> QED
      BY <1>2, <2>2, <3>1, <3>2
  <2> QED
    BY <2>1, <2>2
<1> QED
  BY <1>6 DEF Tails

(* The sentinels lie within the buffers.                                   *)
LEMMA SentinelPlace ==
  /\ \A q \in Queues : /\ Size[q] \in Nat /\ HandoffWords[q] \in Nat
                       /\ Size[q] - (MaxShort + HandoffWords[q]) \in Nat
                       /\ Size[q] - MaxCommand \in Nat
                       /\ (Size[q] - MaxCommand) + MaxShort + HandoffWords[q] <= Size[q]
                       /\ (Size[q] - (MaxShort + HandoffWords[q])) + MaxShort + HandoffWords[q]
                            <= Size[q]
  /\ HandoffWords["low"] = 5 /\ HandoffWords["high"] = 2
<1>1. HandoffWords["low"] = 5 /\ HandoffWords["high"] = 2
  BY DEF HandoffWords
<1>2. Size["low"] = LowSize /\ Size["high"] = HighSize
  BY DEF Size
<1>3. ASSUME NEW s \in Nat, NEW h \in Nat, h <= 5, s >= MaxCommand + h
      PROVE  /\ s - (MaxShort + h) \in Nat /\ s - MaxCommand \in Nat
             /\ (s - MaxCommand) + MaxShort + h <= s
             /\ (s - (MaxShort + h)) + MaxShort + h <= s
  <2>1. MaxShort \in Nat /\ MaxCommand \in Nat /\ MaxShort + 5 <= MaxCommand
    BY SizeAssumption
  <2> QED
    BY <1>3, <2>1
<1>4. /\ LowSize \in Nat /\ HighSize \in Nat
      /\ \A q \in Queues : Size[q] >= MaxCommand + HandoffWords[q]
  BY SizeAssumption
<1>5. \A q \in Queues : q = "low" \/ q = "high"
  BY DEF Queues
<1> DEFINE T(q) == /\ Size[q] \in Nat /\ HandoffWords[q] \in Nat /\ HandoffWords[q] <= 5
<1>6. \A q \in Queues : T(q)
  BY <1>1, <1>2, <1>4, <1>5
<1> QED
  BY <1>1, <1>3, <1>4, <1>6

LEMMA TurnedCopy ==
  ASSUME NEW D, Types, Turned, Copy(D), at[1] # Other(ctx), NEW E,
         \A b \in Buffers : b # Other(ctx) => E[b] = D[b]
  PROVE  Copy(E)'
<1>1. /\ \A b \in Buffers \cup {Block} : b # Other(ctx) => buf'[b] = buf[b]
      /\ at[1] \in Buffers \cup {Block} /\ ends' = ends
      /\ UNCHANGED <<rpc, at, cmd, snap>>
  BY TurnedNames, ThePlaces DEF Turned, Types
<1>2. Here' = Here /\ (High' <=> High) /\ (Requested' <=> Requested)
  BY TurnedPhase
<1>3. Phase \notin {"request", "prolog"}
  BY DEF Turned
<1>4. ASSUME NEW b \in Buffers, b = at[1], NEW k, Copied(D, b, k) PROVE Copied(E, b, k)'
  <2>1. buf'[b] = buf[b] /\ E[b] = D[b]
    BY <1>1, <1>4
  <2> QED
    BY <1>1, <1>3, <1>4, <2>1 DEF Copied
<1>5. at[1] # Block => at[1] \in Buffers /\ buf'[at[1]] = buf[at[1]]
  BY <1>1
<1> QED
  BY <1>1, <1>2, <1>4, <1>5 DEF Copy

LEMMA TurnedStand ==
  ASSUME NEW D, Types, Turned, Stand(D), Handshake, NEW E,
         \A b \in Buffers : b # Other(ctx) => E[b] = D[b]
  PROVE  Stand(E)'
<1>1. /\ ctx \in Queues /\ Active(ctx) # Other(ctx)
      /\ \A b \in Buffers \cup {Block} : b # Other(ctx) => buf'[b] = buf[b]
      /\ \A q \in Queues : q = ctx => Active(q)' = Other(q) /\ Other(q)' = Active(q)
      /\ \A r \in Queues : r # ctx => Active(r)' = Active(r) /\ Other(r)' = Other(r)
      /\ "low" \in Queues /\ "high" \in Queues
  BY TurnedNames, TheBuffers DEF Types
<1>2. /\ \A q : Place(q)' = Place(q) /\ Spot(q)' = Spot(q)
      /\ (InBlock' <=> InBlock) /\ (InBody' <=> InBody) /\ at' = at /\ done' = done
      /\ (High' <=> High)
      /\ \A q : ~ Moving(q, "hand off") /\ ~ Moving(q, "leave")
      /\ \A q : q = ctx => Moving(q, "hand off")'
  <2>1. \A q : q = ctx => Moving(q, "hand off")'
    BY TurnedPhase DEF Turned, Moving
  <2> QED
    BY <2>1, TurnedPhase
<1>3. Spot(ctx)[1] = Active(ctx) /\ \A q \in Queues : Spot(q)[1] # Other(ctx)
  BY TurnedSpot
<1>4. ASSUME NEW q \in Queues PROVE Stands(E, q)'
  <2>1. PICK b \in Buffers : b = Spot(q)[1]
    BY TheSpot
  <2>2. buf'[b] = buf[b] /\ E[b] = D[b] /\ b # Other(ctx)
    BY <1>1, <1>3, <2>1
  <2>3. /\ b \in {Active(q), Other(q)} /\ Spot(q)[2] \in 1 .. (Len(buf[b]) + 1)
        /\ b = Other(q) => Spot(q)[2] <= Len(buf[b])
        /\ D[b][Spot(q)[2]] = done[q] + IF q = "low" /\ InBody THEN 1 ELSE 0
    BY <1>2, <2>1 DEF Stand, Stands
  <2>4. b \in {Active(q)', Other(q)'}
    BY <1>1, <2>3
  <2>5. b = Other(q)' => Spot(q)[2] <= Len(buf[b]) \/ Moving(q, "hand off")'
    <3>1. CASE q = ctx
      BY <3>1, <1>2
    <3>2. CASE q # ctx
      BY <3>2, <1>1, <2>3
    <3> QED
      BY <3>1, <3>2
  <2>6. Spot(q)' = Spot(q) /\ done' = done /\ (InBody' <=> InBody)
    BY <1>2
  <2> QED
    BY <2>1, <2>2, <2>3, <2>4, <2>5, <2>6 DEF Stands
<1>5. InBody' => /\ (Spot("low")[2])' > 1
                 /\ buf'[Spot("low")[1]][Spot("low")[2] - 1].op = "CALL"
  <2>1. buf'[Spot("low")[1]] = buf[Spot("low")[1]]
    <3>1. Spot("low")[1] \in Buffers
      BY <1>1, TheSpot
    <3> QED
      BY <3>1, <1>1, <1>3
  <2> QED
    BY <1>2, <2>1 DEF Stand
<1>6. {Active("high")', Other("high")'} = {Active("high"), Other("high")}
  BY <1>1
<1>7. High' <=> at'[1] \in {Active("high")', Other("high")'}
  BY <1>2, <1>6 DEF Stand
<1> QED
  BY <1>2, <1>4, <1>5, <1>7 DEF Stand

LEMMA TurnedHandshake ==
  ASSUME NEW D, Types, Turned, Items(D), Stand(D), Handshake
  PROVE  Handshake'
<1>1. /\ ctx \in Queues /\ Active(ctx) # Other(ctx) /\ ctx' = ctx /\ stack' = stack
      /\ \A b \in Buffers \cup {Block} : b # Other(ctx) => buf'[b] = buf[b]
      /\ \A q \in Queues : q = ctx => Active(q)' = Other(q) /\ Other(q)' = Active(q)
      /\ \A r \in Queues : r # ctx => /\ Active(r)' = Active(r) /\ Other(r)' = Other(r)
                                      /\ HandsOver(r)' = HandsOver(r)
      /\ "low" \in Queues /\ "high" \in Queues
  BY TurnedNames, TheBuffers DEF Types, Turned
<1>2. /\ \A q : Place(q)' = Place(q) /\ Spot(q)' = Spot(q)
      /\ (InBlock' <=> InBlock) /\ (High' <=> High)
      /\ \A q : (Bufdone(q) \in status)' <=> Bufdone(q) \in status
      /\ \A q : ~ Moving(q, "switch")'
      /\ \A q : q # ctx => ~ Moving(q, "switch")
      /\ Moving(ctx, "switch")
  BY TurnedPhase
<1>3. Spot(ctx)[1] = Active(ctx) /\ \A q \in Queues : Spot(q)[1] # Other(ctx)
  BY TurnedSpot
<1>4. ASSUME NEW q \in Queues, q = ctx
      PROVE  /\ ~ Signalled(q)' /\ ~ After(q, HandsOver(q))'
             /\ Spot(q)[1] = Active(q) /\ Spot(q)[1] # Other(q)
  <2>1. Bufdone(q) \notin status
    BY <1>2, <1>4 DEF Handshake
  <2>2. ~ Signalled(q)'
    BY <1>2, <2>1 DEF Signalled
  <2>3. ~ After(q, HandsOver(q))'
    <3>1. PICK p : p = Spot(q)[2]
      OBVIOUS
    <3>2. PICK b \in Buffers : b = Active(ctx)
      BY TheBuffers DEF Types
    <3>3. p \in 1 .. (Len(buf[b]) + 1) /\ Len(buf[b]) \in Nat
      BY <1>3, <1>4, <3>1, <3>2, TheSpot
    <3>4. p > 1 => p - 1 \in 1 .. Len(buf[b])
      BY <3>3
    <3>5. p > 1 => buf[b][p - 1] # HandsOver(q)'
      <4>1. \A k \in 1 .. Len(buf[Active(ctx)]) : buf[Active(ctx)][k] # HandsOver(ctx)'
        BY TurnedActive DEF Turned
      <4>2. HandsOver(ctx)' = HandsOver(q)'
        BY <1>1, <1>4
      <4> QED
        BY <3>2, <3>4, <4>1, <4>2
    <3>6. buf'[b] = buf[b] /\ Spot(q)' = Spot(q) /\ Spot(q) [1] = b
      BY <1>1, <1>2, <1>3, <1>4, <3>2
    <3> QED
      BY <3>1, <3>5, <3>6 DEF After
  <2> QED
    BY <1>1, <1>3, <1>4, <2>2, <2>3
<1>5. ASSUME NEW q \in Queues, q # ctx
      PROVE  /\ Signalled(q)' <=> Signalled(q)
             /\ Active(q)' = Active(q) /\ Other(q)' = Other(q) /\ HandsOver(q)' = HandsOver(q)
             /\ \A c : After(q, c)' <=> After(q, c)
  <2>1. Signalled(q)' <=> Signalled(q)
    BY <1>2, <1>5 DEF Signalled
  <2>2. Spot(q)[1] \in Buffers
    BY TheSpot
  <2>3. buf'[Spot(q)[1]] = buf[Spot(q)[1]] /\ Spot(q)' = Spot(q)
    BY <1>1, <1>2, <1>3, <2>2
  <2>4. \A c : After(q, c)' <=> After(q, c)
    BY <2>3 DEF After
  <2> QED
    BY <1>1, <1>5, <2>1, <2>4
<1>6. CASE ctx = "low"
  <2>1. /\ ~ Signalled("low")' /\ ~ After("low", HandsOver("low"))'
        /\ Spot("low")[1] = Active("low") /\ Spot("low")[1] # Other("low")
        /\ Active("low")' = Other("low") /\ "high" # ctx
    BY <1>1, <1>4, <1>6
  <2>2. /\ Signalled("high")' <=> Signalled("high")
        /\ Active("high")' = Active("high") /\ Other("high")' = Other("high")
        /\ After("high", HandsOver("high"))' <=> After("high", HandsOver("high"))
    BY <1>1, <1>5, <2>1
  <2>3. Spot("low")' = Spot("low") /\ Spot("high")' = Spot("high")
    BY <1>2
  <2> QED
    BY <1>1, <1>2, <2>1, <2>2, <2>3 DEF Handshake
<1>7. CASE ctx = "high"
  <2>1. /\ ~ Signalled("high")' /\ ~ After("high", HandsOver("high"))'
        /\ Spot("high")[1] = Active("high") /\ Spot("high")[1] # Other("high")
        /\ Active("high")' = Other("high") /\ "low" # ctx
    BY <1>1, <1>4, <1>7
  <2>2. /\ Signalled("low")' <=> Signalled("low")
        /\ Active("low")' = Active("low") /\ Other("low")' = Other("low")
        /\ After("low", HandsOver("low"))' <=> After("low", HandsOver("low"))
    BY <1>1, <1>5, <2>1
  <2>3. Spot("low")' = Spot("low") /\ Spot("high")' = Spot("high")
    BY <1>2
  <2> QED
    BY <1>1, <1>2, <2>1, <2>2, <2>3 DEF Handshake
<1> QED
  BY <1>1, <1>6, <1>7, TheBuffers DEF Types

LEMMA TurnedRequests ==
  ASSUME NEW D, Types, Turned, Stand(D), Copy(D), Handshake, Requests
  PROVE  Requests'
<1>1. /\ ctx \in Queues /\ Active(ctx) # Other(ctx)
      /\ \A b \in Buffers \cup {Block} : b # Other(ctx) => buf'[b] = buf[b]
      /\ \A q \in Queues : q = ctx => Active(q)' = Other(q) /\ Other(q)' = Active(q)
      /\ \A r \in Queues : r # ctx => Active(r)' = Active(r) /\ Other(r)' = Other(r)
      /\ UNCHANGED <<rpc, snap, cmd, at>> /\ at[1] \in Buffers \cup {Block}
      /\ "low" \in Queues /\ "high" \in Queues /\ "low" # "high"
      /\ \A q \in Queues : q = "low" \/ q = "high"
  BY TurnedNames, TheBuffers, ThePlaces DEF Types, Turned
<1>2. /\ Here' = Here /\ Place("high")' = Place("high") /\ Spot("high")' = Spot("high")
      /\ (High' <=> High) /\ (Requested' <=> Requested)
  BY TurnedPhase
<1>3. Spot(ctx)[1] = Active(ctx) /\ Spot("high")[1] # Other(ctx) /\ at[1] # Other(ctx)
  BY <1>1, TurnedSpot
<1>4. buf'[Spot("high")[1]] = buf[Spot("high")[1]]
  <2>1. Spot("high")[1] \in Buffers
    BY <1>1, TheSpot
  <2> QED
    BY <1>1, <1>3, <2>1
<1>5. buf'[Here[1]] = buf[Here[1]]
  <2>1. Here[1] = at[1]
    BY DEF Here
  <2> QED
    BY <1>1, <1>3, <2>1
<1>6. Phase \notin {"prolog", "request", "patch swap"} /\ Phase' # "patch swap"
      /\ (Closed <=> ctx = "low") /\ (Closed' <=> Closed)
  BY DEF Turned
<1>7. Ahead => Ahead'
  <2>1. CASE ctx = "low"
    <3>1. /\ Active("high")' = Active("high") /\ Other("high")' = Other("high")
          /\ "high" # ctx /\ Active("high") \in Buffers /\ Active("high") # Other(ctx)
      BY <1>1, <2>1, TurnedNames, TheBuffers DEF Types
    <3>2. buf'[Active("high")] = buf[Active("high")]
      BY <1>1, <3>1
    <3> QED
      BY <1>2, <1>4, <3>1, <3>2 DEF Ahead
  <2>2. CASE ctx = "high"
    <3>1. Spot("high")[1] # Other("high")
      BY <1>3, <2>2
    <3> QED
      BY <1>2, <1>4, <3>1 DEF Ahead
  <2> QED
    BY <1>1, <2>1, <2>2
<1>8. ~ High' /\ ~ Requested' => Place("high")' = Cursor("high")' /\ Closed'
  <2> HAVE ~ High' /\ ~ Requested'
  <2>1. Place("high") = Cursor("high") /\ Closed
    BY <1>2, <1>6 DEF Requests
  <2>2. /\ Active("high")' = Active("high") /\ "high" # ctx /\ Active("high") \in Buffers
        /\ Active("high") # Other(ctx)
    BY <1>1, <1>6, <2>1, TurnedNames, TheBuffers DEF Types
  <2>3. buf'[Active("high")] = buf[Active("high")]
    BY <1>1, <2>2
  <2> QED
    BY <1>2, <1>6, <2>1, <2>2, <2>3 DEF Cursor
<1>9. \A c : After("high", c)' <=> After("high", c)
  BY <1>2, <1>4 DEF After
<1> QED
  BY <1>1, <1>2, <1>5, <1>6, <1>7, <1>8, <1>9 DEF Requests

LEMMA TurnedEpilogue ==
  ASSUME Types, Turned, Epilogue
  PROVE  Epilogue'
<1>1. (High' <=> High) /\ (Requested' <=> Requested)
  BY TurnedPhase
<1>2. /\ (Closed <=> ctx = "low") /\ (Closed' <=> Closed) /\ "high" \in Queues
      /\ Phase' \notin {"patch epilog", "patch swap", "swap epilog", "request"}
  BY TheBuffers DEF Turned, Types
<1>3. ASSUME Closed PROVE Active("high")' = Active("high")
                          /\ buf'[Active("high")] = buf[Active("high")]
  <2>1. "high" \in Queues \ {ctx} /\ Active("high") \in Buffers
    BY <1>2, <1>3, TheBuffers DEF Types
  <2>2. Active("high")' = Active("high") /\ Active("high") # Other(ctx)
    BY <2>1, TurnedNames
  <2> QED
    BY <2>1, <2>2, TurnedNames
<1> QED
  BY <1>1, <1>2, <1>3 DEF Epilogue

LEMMA SwitchCall ==
  ASSUME NEW D, Types, Queue(D), SwitchBuffer, Prompt = TRUE
  PROVE  Types' /\ Waited' /\ \E E : Queue(E)'
<1>1. /\ Doing("switch") /\ todo' = Tail(todo)
      /\ ctx = "high" => at[1] # <<ctx, 1 - idx[ctx]>>
      /\ idx' = [idx EXCEPT ![ctx] = 1 - @]
      /\ buf' = [buf EXCEPT ![<<ctx, 1 - idx[ctx]>>] = <<>>]
      /\ used' = [used EXCEPT ![<<ctx, 1 - idx[ctx]>>] = 0]
      /\ sentinel' = [sentinel EXCEPT ![ctx] = Size[ctx] - (MaxShort + HandoffWords[ctx])]
      /\ UNCHANGED <<status, ctx, handler, syncDone, rpc, at, snap, cmd, stack, issued, done,
                     ends, syncAt, fresh, late>>
  BY DEF SwitchBuffer, rsp, history
<1>2. /\ Step = "switch" /\ Chain(todo', ctx) /\ todo # <<>> /\ Chain(todo, ctx)
      /\ Step' = NoStep => "switch" \in Finals
      /\ Step' # NoStep => Step' \in Follow["switch"] /\ Goal(todo') = Goal(todo)
  BY <1>1, NextStep DEF Types
<1>3. Step' = "hand off" /\ Goal(todo') = Goal(todo) /\ Goal(todo) # Closing
  <2>1. "switch" \notin Finals /\ "switch" \notin Endings
    BY DEF Finals, Endings, Epilogs
  <2>2. Goal(todo) = Closing => First(todo) \in Endings
    BY <1>2, StepFacts
  <2> QED
    BY <1>2, <2>1, <2>2, FollowSteps DEF Step
<1>4. Phase = "switch" /\ Phase' = "hand off"
  BY <1>2, <1>3 DEF Phase, Phases
<1>5. (Closed <=> ctx = "low") /\ (Closed' <=> ctx = "low")
  BY <1>1, <1>3, <1>4 DEF Closed
<1>6. Turned
  BY <1>1, <1>4, <1>5 DEF Turned, Other
<1>7. /\ ctx \in Queues /\ Other(ctx) \in Buffers
      /\ buf' \in [Buffers \cup {Block} -> Seq(Commands)] /\ Block # Other(ctx)
      /\ idx' \in [Queues -> {0, 1}]
      /\ \A b \in Buffers \cup {Block} : b # Other(ctx) => buf'[b] = buf[b]
  BY <1>6, TurnedNames, TheBuffers DEF Types
<1>8. Types'
  <2>1. used' \in [Buffers -> Nat]
    <3>1. used' = [used EXCEPT ![Other(ctx)] = 0] /\ used \in [Buffers -> Nat]
      BY <1>1 DEF Other, Types
    <3> QED
      BY ONLY <1>7, <3>1
  <2>2. sentinel' \in [Queues -> Nat]
    <3>1. Size[ctx] - (MaxShort + HandoffWords[ctx]) \in Nat
      BY <1>7, SentinelPlace
    <3>2. sentinel \in [Queues -> Nat]
         /\ sentinel' = [sentinel EXCEPT ![ctx] = Size[ctx] - (MaxShort + HandoffWords[ctx])]
      BY <1>1 DEF Types
    <3> QED
      BY ONLY <1>7, <3>1, <3>2
  <2>3. buf'[Block] = Recorded
    BY <1>7 DEF Types
  <2> QED
    BY <1>1, <1>2, <1>7, <2>1, <2>2, <2>3 DEF Types
<1>9. Waited'
  BY <1>3 DEF Waited
<1>10. PICK E : E = Put(D, Other(ctx), 1, issued[ctx])
  OBVIOUS
<1>11. /\ Counts(D) /\ Items(D) /\ Tails /\ Epilogue /\ Copy(D) /\ Stand(D) /\ Handshake
       /\ Requests /\ D \in Numbers
  BY DEF Queue, Counts
<1>12. \A b \in Buffers : b # Other(ctx) => E[b] = D[b]
  BY <1>6, <1>10, <1>11, TurnedNumbers
<1>13. at[1] # Other(ctx)
  BY <1>6, <1>11, TurnedSpot
<1>14. Counts(E)'
  BY <1>6, <1>10, <1>11, TurnedCounts
<1>15. Items(E)'
  BY <1>6, <1>11, <1>12, TurnedItems
<1>16. Tails'
  BY <1>6, <1>11, TurnedTails
<1>17. Copy(E)'
  BY <1>6, <1>11, <1>12, <1>13, TurnedCopy
<1>18. Stand(E)'
  BY <1>6, <1>11, <1>12, TurnedStand
<1>19. Handshake'
  BY <1>6, <1>11, TurnedHandshake
<1>20. Requests'
  BY <1>6, <1>11, TurnedRequests
<1>21. Epilogue'
  BY <1>6, <1>11, TurnedEpilogue
<1> QED
  BY <1>8, <1>9, <1>14, <1>15, <1>16, <1>17, <1>18, <1>19, <1>20, <1>21 DEF Queue

(* rspq_highpri_begin: a command of the last epilog is overwritten.        *)
Patching(j, c) ==
  /\ j \in 1 .. Len(buf[Active("high")]) /\ c \in Commands /\ c.op = "JUMP"
  /\ buf' = [buf EXCEPT ![Active("high")][j] = c]
  /\ buf[Active("high")][j].op \in {"JUMP", "SWAP"}
  /\ UNCHANGED <<status, ctx, idx, rpc, at, snap, cmd, stack, issued, done, ends>>
  /\ Phase \in {"patch epilog", "patch swap"}
  /\ Phase' \notin {"switch", "hand off", "leave"}

LEMMA PatchedBuffers ==
  ASSUME Types, NEW j \in Nat, NEW c, Patching(j, c)
  PROVE  /\ "high" \in Queues /\ Active("high") \in Buffers
         /\ buf' \in [Buffers \cup {Block} -> Seq(Commands)]
         /\ buf'[Active("high")][j] = c
         /\ \A b \in Buffers \cup {Block} : b # Active("high") => buf'[b] = buf[b]
         /\ \A b \in Buffers \cup {Block} : Len(buf'[b]) = Len(buf[b]) /\ Len(buf[b]) \in Nat
         /\ \A k \in 1 .. Len(buf[Active("high")]) :
              k # j => buf'[Active("high")][k] = buf[Active("high")][k]
         /\ \A q : Active(q)' = Active(q) /\ Other(q)' = Other(q)
         /\ \A q : HandsOver(q)' = HandsOver(q) /\ Leaves(q)' = Leaves(q)
         /\ Active("high") # Other("high") /\ Active("high")[1] = "high"
         /\ Other("low") # Active("high") /\ Other("high") \in Buffers /\ Other("low") \in Buffers
<1>1. /\ "high" \in Queues /\ "low" \in Queues /\ Active("high") \in Buffers
      /\ Active("high") # Other("high")
      /\ Active("high")[1] = "high" /\ Other("low")[1] = "low" /\ Block \notin Buffers
      /\ Other("high") \in Buffers /\ Other("low") \in Buffers
  BY TheBuffers DEF Types
<1>2. PICK a \in Buffers : a = Active("high")
  BY <1>1
<1>3. /\ buf \in [Buffers \cup {Block} -> Seq(Commands)] /\ buf[a] \in Seq(Commands)
      /\ j \in 1 .. Len(buf[a]) /\ c \in Commands
      /\ buf' = [buf EXCEPT ![a] = [buf[a] EXCEPT ![j] = c]]
  BY <1>2 DEF Types, Patching
<1> DEFINE s == [buf[a] EXCEPT ![j] = c]
<1>4. /\ s \in Seq(Commands) /\ Len(s) = Len(buf[a]) /\ s[j] = c
      /\ \A k \in 1 .. Len(buf[a]) : k # j => s[k] = buf[a][k]
  BY ONLY <1>3, ExceptSeq
<1>5. buf' = [buf EXCEPT ![a] = s]
  BY <1>3
<1> HIDE DEF s
<1>6. /\ buf'[a] = s /\ buf' \in [Buffers \cup {Block} -> Seq(Commands)]
      /\ \A b \in Buffers \cup {Block} : b # a => buf'[b] = buf[b]
  BY ONLY <1>2, <1>3, <1>4, <1>5
<1>7. \A b \in Buffers \cup {Block} : Len(buf'[b]) = Len(buf[b]) /\ Len(buf[b]) \in Nat
  <2> TAKE b \in Buffers \cup {Block}
  <2>1. buf[b] \in Seq(Commands)
    BY <1>3
  <2>2. Len(buf[b]) \in Nat
    BY <2>1, SomeLength
  <2>3. Len(buf'[b]) = Len(buf[b])
    BY <1>4, <1>6
  <2> QED
    BY <2>2, <2>3
<1>8. \A q : /\ Active(q)' = Active(q) /\ Other(q)' = Other(q)
             /\ HandsOver(q)' = HandsOver(q) /\ Leaves(q)' = Leaves(q)
  BY DEF Patching, Active, Other, HandsOver, Leaves
<1>9. Other("low") # Active("high")
  BY <1>1
<1> QED
  BY <1>1, <1>2, <1>4, <1>6, <1>7, <1>8, <1>9

LEMMA PatchedPhase ==
  ASSUME NEW j, NEW c, Patching(j, c)
  PROVE  /\ \A q : \A s \in {"switch", "hand off", "leave"} : ~ Moving(q, s) /\ ~ Moving(q, s)'
         /\ Here' = Here /\ (High' <=> High) /\ (Requested' <=> Requested) /\ stack' = stack
         /\ \A q : Place(q)' = Place(q) /\ Spot(q)' = Spot(q)
         /\ (InBlock' <=> InBlock) /\ (InBody' <=> InBody) /\ at' = at /\ done' = done
         /\ \A q : Signalled(q)' <=> Signalled(q)
<1>1. Here' = Here /\ (High' <=> High) /\ (Requested' <=> Requested)
  BY DEF Patching, Here, High, Requested
<1>2. \A q : Place(q)' = Place(q)
  BY <1>1 DEF Patching, Place
<1>3. (InBlock' <=> InBlock) /\ (InBody' <=> InBody)
  BY <1>2 DEF InBlock, InBody
<1>4. \A q : Spot(q)' = Spot(q)
  BY <1>2, <1>3 DEF Patching, Spot
<1>5. \A q : \A s \in {"switch", "hand off", "leave"} : ~ Moving(q, s) /\ ~ Moving(q, s)'
  BY DEF Patching, Moving
<1>6. \A q : Signalled(q)' <=> Signalled(q)
  BY <1>5 DEF Patching, Signalled, Bufdone
<1> QED
  BY <1>1, <1>2, <1>3, <1>4, <1>5, <1>6 DEF Patching

LEMMA PatchedCounts ==
  ASSUME NEW D, Types, NEW j \in Nat, NEW c, Patching(j, c), Counts(D)
  PROVE  Counts(D)'
<1>1. PICK a \in Buffers : a = Active("high")
  BY PatchedBuffers
<1>2. /\ buf'[a][j] = c
      /\ \A b \in Buffers : b # a => buf'[b] = buf[b]
      /\ \A b \in Buffers : Len(buf'[b]) = Len(buf[b])
      /\ \A k \in 1 .. Len(buf[a]) : k # j => buf'[a][k] = buf[a][k]
      /\ \A q : Active(q)' = Active(q) /\ Other(q)' = Other(q)
      /\ j \in 1 .. Len(buf[a]) /\ ~ Numbered(c) /\ ~ Numbered(buf[a][j])
      /\ issued' = issued
      /\ \A q \in Queues : Active(q) \in Buffers /\ Other(q) \in Buffers
  <2>1. c.op = "JUMP" /\ buf[a][j].op \in {"JUMP", "SWAP"} /\ issued' = issued
        /\ j \in 1 .. Len(buf[a])
    BY <1>1 DEF Patching
  <2>2. ~ Numbered(c) /\ ~ Numbered(buf[a][j])
    BY <2>1 DEF Numbered
  <2>3. \A q \in Queues : Active(q) \in Buffers /\ Other(q) \in Buffers
    BY TheBuffers DEF Types
  <2> QED
    BY <1>1, <2>1, <2>2, <2>3, PatchedBuffers
<1>3. ASSUME NEW b \in Buffers, NEW k \in 1 .. Len(buf'[b]) PROVE Counted(D, b, k)'
  <2>1. k \in 1 .. Len(buf[b])
    BY <1>2
  <2>2. Counted(D, b, k)
    BY <2>1 DEF Counts
  <2>3. buf'[b][k] = buf[b][k] \/ (~ Numbered(buf'[b][k]) /\ ~ Numbered(buf[b][k]))
    BY <1>2, <2>1
  <2> QED
    BY <2>2, <2>3 DEF Counted
<1> QED
  BY <1>2, <1>3 DEF Counts

LEMMA PatchedTails ==
  ASSUME Types, NEW j \in Nat, NEW c, Patching(j, c), Tails
  PROVE  Tails'
<1>1. /\ \A q : ~ Moving(q, "hand off") /\ ~ Moving(q, "leave")
      /\ \A q : ~ Moving(q, "hand off")' /\ ~ Moving(q, "leave")'
  BY PatchedPhase
<1>2. \A q \in Queues : Other(q)' = Other(q) /\ Leaves(q)' = Leaves(q)
                        /\ buf'[Other(q)] = buf[Other(q)]
  <2>1. \A q \in Queues : q = "low" \/ q = "high"
    BY TheBuffers DEF Types
  <2> QED
    BY <2>1, PatchedBuffers
<1> QED
  BY <1>1, <1>2 DEF Tails

LEMMA PatchedStand ==
  ASSUME NEW D, Types, NEW j \in Nat, NEW c, Patching(j, c), Stand(D), Handshake
  PROVE  Stand(D)' /\ Handshake'
<1>1. /\ \A q : Active(q)' = Active(q) /\ Other(q)' = Other(q) /\ HandsOver(q)' = HandsOver(q)
      /\ "low" \in Queues /\ "high" \in Queues
      /\ \A b \in Buffers : b # Active("high") => buf'[b] = buf[b]
      /\ \A b \in Buffers : Len(buf'[b]) = Len(buf[b])
      /\ Other("high") # Active("high") /\ Other("high") \in Buffers
  BY PatchedBuffers, TheBuffers DEF Types
<1>2. /\ \A q : Place(q)' = Place(q) /\ Spot(q)' = Spot(q) /\ (Signalled(q)' <=> Signalled(q))
      /\ (InBlock' <=> InBlock) /\ (InBody' <=> InBody) /\ at' = at /\ done' = done
      /\ (High' <=> High) /\ stack' = stack
      /\ \A q : ~ Moving(q, "hand off") /\ ~ Moving(q, "leave")
      /\ \A q : ~ Moving(q, "switch") /\ ~ Moving(q, "switch")'
  BY PatchedPhase
<1>3. \A q \in Queues : Stands(D, q)'
  <2> TAKE q \in Queues
  <2>1. Stands(D, q) /\ Spot(q)[1] \in Buffers
    BY TheSpot DEF Stand
  <2> QED
    BY <1>1, <1>2, <2>1 DEF Stands
<1>4. Spot("low")[1] \in Buffers /\ Spot("low")[1] # Active("high")
      /\ buf'[Spot("low")[1]] = buf[Spot("low")[1]]
  <2>1. Spot("low")[1] \in {Active("low"), Other("low")} /\ Spot("low")[1] \in Buffers
    BY <1>1, TheSpot
  <2>2. Active("low") # Active("high") /\ Other("low") # Active("high")
    BY DEF Active, Other
  <2> QED
    BY <1>1, <2>1, <2>2
<1>5. InBody' => /\ (Spot("low")[2])' > 1
                 /\ buf'[Spot("low")[1]][Spot("low")[2] - 1].op = "CALL"
  BY <1>2, <1>4 DEF Stand
<1>6. Stand(D)'
  BY <1>1, <1>2, <1>3, <1>5 DEF Stand
<1>7. \A d : After("low", d)' <=> After("low", d)
  BY <1>2, <1>4 DEF After
<1>8. Spot("high")[1] = Other("high") => \A d : After("high", d)' <=> After("high", d)
  BY <1>1, <1>2 DEF After
<1>9. Handshake'
  BY <1>1, <1>2, <1>7, <1>8 DEF Handshake
<1> QED
  BY <1>6, <1>9

LEMMA PatchedAhead ==
  ASSUME NEW D, Types, NEW j \in Nat, NEW c, Patching(j, c), Stand(D), Ahead
  PROVE  Ahead'
<1>1. PICK a \in Buffers : a = Active("high")
  BY PatchedBuffers
<1>2. /\ buf'[a][j] = c
      /\ \A b \in Buffers : b # a => buf'[b] = buf[b]
      /\ \A b \in Buffers : Len(buf'[b]) = Len(buf[b]) /\ Len(buf[b]) \in Nat
      /\ \A k \in 1 .. Len(buf[a]) : k # j => buf'[a][k] = buf[a][k]
      /\ Active("high")' = a /\ Other("high")' = Other("high") /\ Spot("high")' = Spot("high")
      /\ buf[a][j] # Opening /\ "high" \in Queues
  <2>1. Opening.op = "STATUS"
    BY CommandFields
  <2>2. buf[a][j] # Opening
    BY <1>1, <2>1 DEF Patching
  <2> QED
    BY <1>1, <2>2, PatchedBuffers, PatchedPhase
<1>3. PICK s \in Buffers, p \in Nat \ {0} : s = Spot("high")[1] /\ p = Spot("high")[2]
  <2>1. /\ Spot("high")[1] \in Buffers
        /\ Spot("high")[2] \in 1 .. (Len(buf[Spot("high")[1]]) + 1)
    BY <1>2, TheSpot
  <2> QED
    BY <2>1
<1>4. \A b \in Buffers : \A k \in 1 .. Len(buf[b]) : buf[b][k] = Opening => buf'[b][k] = Opening
  BY <1>2
<1>5. ASSUME NEW k \in p .. Len(buf[s]), buf[s][k] = Opening PROVE Ahead'
  <2>1. k \in 1 .. Len(buf[s]) /\ k \in p .. Len(buf'[s])
    BY <1>2
  <2>2. buf'[s][k] = Opening
    BY <1>4, <1>5, <2>1
  <2> QED
    BY <1>2, <1>3, <2>1, <2>2 DEF Ahead
<1>6. ASSUME s = Other("high"), NEW k \in 1 .. Len(buf[a]), buf[a][k] = Opening PROVE Ahead'
  <2>1. k \in 1 .. Len(buf'[a]) /\ buf'[a][k] = Opening
    BY <1>2, <1>4, <1>6
  <2> QED
    BY <1>2, <1>3, <1>6, <2>1 DEF Ahead
<1> QED
  BY <1>1, <1>3, <1>5, <1>6 DEF Ahead

(* Where the return to the low queue stands, with the number of its place. *)
LEMMA LeavingAt ==
  ASSUME NEW D, NEW b, NEW k \in Nat, HighItem(D, b, k), buf[b][k] = LeaveHigh
  PROVE  /\ b = Active("high") /\ Closed /\ D[b][k] \in ends
         /\ k = Len(buf[b]) /\ k > 1 /\ buf[b][k - 1].op = "JUMP"
         /\ k > 2 => buf[b][k - 2] # Jump(<<b, k>>)
<1>1. /\ \A p : LeaveHigh # Jump(p)
      /\ Opening # LeaveHigh /\ ~ Numbered(LeaveHigh) /\ LeaveHigh # Handover
  BY Unlike
<1>2. LeaveHigh # HandsOver("high") /\ LeaveHigh # Leaves("high")
  BY <1>1 DEF HandsOver, Leaves
<1> QED
  BY <1>1, <1>2 DEF HighItem

LEMMA LeavingActive ==
  ASSUME NEW D, NEW b, NEW k, HighItem(D, b, k), b # Active("high")
  PROVE  buf[b][k] # LeaveHigh
<1>1. /\ \A p : LeaveHigh # Jump(p)
      /\ Opening # LeaveHigh /\ ~ Numbered(LeaveHigh) /\ LeaveHigh # Handover
  BY Unlike
<1>2. LeaveHigh # HandsOver("high") /\ LeaveHigh # Leaves("high")
  BY <1>1 DEF HandsOver, Leaves
<1> QED
  BY <1>1, <1>2 DEF HighItem

(* A command of the active buffer of high priority but the last one.       *)
LEMMA InnerItem ==
  ASSUME NEW D, NEW b, NEW k \in Nat, HighItem(D, b, k), b # Other("high"),
         k # Len(buf[b]), Phase # "patch swap"
  PROVE  \/ Numbered(buf[b][k]) /\ buf[b][k] = Cmd("high", buf[b][k].n)
         \/ buf[b][k] = Opening
         \/ buf[b][k] = Jump(<<b, k + 1>>)
         \/ /\ buf[b][k] = Jump(<<b, k + 2>>) /\ k < Len(buf[b])
            /\ buf[b][k + 1] = Jump(<<b, k + 2>>)
  BY DEF HighItem

(* An epilog that is about to be overwritten.                              *)
LastTwo(D, a, j) ==
  /\ a \in Buffers /\ a = Active("high") /\ Len(buf[a]) = j + 1 /\ j \in Nat \ {0}
  /\ buf[a][j + 1] = LeaveHigh /\ HighItem(D, a, j + 1)

PatchingFirst(D, a, j) ==
  /\ Phase = "patch epilog" /\ Phase' = "patch swap" /\ Closed /\ Closed'
  /\ Patching(j, Jump(<<a, j + 2>>)) /\ LastTwo(D, a, j)
  /\ buf[a][j] = Jump(<<a, j + 1>>)

PatchingSecond(D, a, j) ==
  /\ Phase = "patch swap" /\ Phase' = "request" /\ ~ Closed'
  /\ Patching(j + 1, Jump(<<a, j + 2>>)) /\ LastTwo(D, a, j)
  /\ buf[a][j] = Jump(<<a, j + 2>>)

(* The items that are not touched.                                         *)
LEMMA PatchedOthers ==
  ASSUME NEW D, Types, NEW i \in Nat, NEW c, Patching(i, c), Items(D),
         NEW b \in Buffers, b # Active("high"), NEW k \in 1 .. Len(buf'[b])
  PROVE  IF b[1] = "low" THEN LowItem(b, k)' ELSE HighItem(D, b, k)'
<1>1. /\ buf'[b] = buf[b] /\ Other("high")' = Other("high") /\ Active("high")' = Active("high")
      /\ HandsOver("high")' = HandsOver("high") /\ Leaves("high")' = Leaves("high")
      /\ Other("low")' = Other("low")
      /\ HandsOver("low")' = HandsOver("low") /\ Leaves("low")' = Leaves("low")
      /\ ~ Moving("low", "leave") /\ ~ Moving("high", "leave")
      /\ buf \in [Buffers \cup {Block} -> Seq(Commands)]
  BY PatchedBuffers, PatchedPhase DEF Types
<1>2. IF b[1] = "low" THEN LowItem(b, k) ELSE HighItem(D, b, k)
  BY <1>1 DEF Items
<1>3. CASE b[1] = "low"
  BY <1>1, <1>2, <1>3 DEF LowItem
<1>4. CASE b[1] # "low"
  <2>1. HighItem(D, b, k)
    BY <1>2, <1>4
  <2>2. \A m \in 1 .. Len(buf[b]) : buf[b][m] # LeaveHigh
    <3> SUFFICES ASSUME NEW m \in 1 .. Len(buf[b]), buf[b][m] = LeaveHigh PROVE FALSE
      OBVIOUS
    <3>1. HighItem(D, b, m)
      BY <1>4 DEF Items
    <3> QED
      BY <3>1, LeavingActive
  <2>3. k \in Nat /\ (k < Len(buf[b]) => k + 1 \in 1 .. Len(buf[b])) /\ k \in 1 .. Len(buf[b])
    <3>1. Len(buf[b]) \in Nat /\ k \in 1 .. Len(buf[b])
      BY <1>1, PatchedBuffers
    <3> QED
      BY ONLY <3>1
  <2>4. buf[b][k] # LeaveHigh /\ (k < Len(buf[b]) => buf[b][k + 1] # LeaveHigh)
    BY <2>2, <2>3
  <2>5. HighItem(D, b, k)'
    BY <1>1, <2>1, <2>3, <2>4 DEF HighItem
  <2> QED
    BY <1>4, <2>5
<1> QED
  BY <1>3, <1>4

LEMMA FirstPatchItems ==
  ASSUME NEW D, Types, Items(D), NEW a, NEW j, PatchingFirst(D, a, j)
  PROVE  Items(D)'
<1>1. /\ j \in Nat /\ j # 0 /\ a \in Buffers /\ a = Active("high") /\ Len(buf[a]) = j + 1
      /\ buf[a][j + 1] = LeaveHigh /\ HighItem(D, a, j + 1) /\ buf[a][j] = Jump(<<a, j + 1>>)
      /\ Patching(j, Jump(<<a, j + 2>>)) /\ Phase # "patch swap"
  BY DEF PatchingFirst, LastTwo
<1>2. /\ buf'[a][j] = Jump(<<a, j + 2>>) /\ Len(buf'[a]) = j + 1
      /\ \A k \in 1 .. (j + 1) : k # j => buf'[a][k] = buf[a][k]
      /\ a[1] = "high" /\ a # Other("high") /\ Active("high")' = a
  BY <1>1, PatchedBuffers
<1>00. j \in Nat /\ j # 0
  BY <1>1
<1>0. j \in Nat /\ j # 0 /\ j + 1 \in Nat
  BY ONLY <1>00
<1>3. /\ j > 0 /\ j + 1 \in 1 .. (j + 1) /\ j + 1 # j /\ (j + 1) - 1 = j /\ j < j + 1 /\ j + 1 > 1
      /\ j \in 1 .. (j + 1)
  BY ONLY <1>0
<1>4. HighItem(D, a, j)'
  BY <1>1, <1>2, <1>3 DEF HighItem, PatchingFirst
<1>5. HighItem(D, a, j + 1)'
  <2>1. /\ D[a][j + 1] \in ends
        /\ j + 1 > 2 => buf[a][(j + 1) - 2] # Jump(<<a, j + 1>>)
    BY <1>0, <1>1, LeavingAt
  <2>2. buf'[a][j + 1] = LeaveHigh /\ buf'[a][(j + 1) - 1].op = "JUMP"
    <3>1. buf'[a][j].op = "JUMP"
      BY <1>2, CommandFields
    <3>2. buf'[a][j + 1] = LeaveHigh
      BY <1>1, <1>2, <1>3
    <3> QED
      BY <1>3, <3>1, <3>2
  <2>3. j + 1 > 2 => (j + 1) - 2 \in 1 .. (j + 1) /\ (j + 1) - 2 # j
    BY ONLY <1>0
  <2>4. j + 1 > 2 => buf'[a][(j + 1) - 2] # Jump(<<a, j + 1>>)
    BY <1>2, <2>1, <2>3
  <2>5. ends' = ends /\ Closed'
    BY DEF PatchingFirst, Patching
  <2> QED
    BY <1>2, <1>3, <2>1, <2>2, <2>4, <2>5 DEF HighItem
<1>6. ASSUME NEW k \in Nat, k # 0, k < j PROVE HighItem(D, a, k)'
  <2>1. /\ k \in 1 .. (j + 1) /\ k # j /\ k # j + 1 /\ k < j + 1
        /\ k + 1 # j => k + 1 \in 1 .. (j + 1)
        /\ k + 1 = j => j + 1 > 2 /\ (j + 1) - 2 = k /\ k + 2 = j + 1
    BY ONLY <1>0, <1>6
  <2>2. HighItem(D, a, k)
    BY <1>1, <1>2, <2>1 DEF Items
  <2>3. \/ Numbered(buf[a][k]) /\ buf[a][k] = Cmd("high", buf[a][k].n)
        \/ buf[a][k] = Opening
        \/ buf[a][k] = Jump(<<a, k + 1>>)
        \/ /\ buf[a][k] = Jump(<<a, k + 2>>) /\ k < Len(buf[a])
           /\ buf[a][k + 1] = Jump(<<a, k + 2>>)
    BY <1>1, <1>2, <2>1, <2>2, InnerItem
  <2>4. buf'[a][k] = buf[a][k]
    BY <1>2, <2>1
  <2>5. ASSUME buf[a][k] = Jump(<<a, k + 2>>), buf[a][k + 1] = Jump(<<a, k + 2>>)
        PROVE  buf'[a][k + 1] = Jump(<<a, k + 2>>)
    <3>1. CASE k + 1 = j
      <4>1. buf[a][k] # Jump(<<a, j + 1>>)
        <5>1. j + 1 > 2 => buf[a][(j + 1) - 2] # Jump(<<a, j + 1>>)
          BY <1>0, <1>1, LeavingAt
        <5> QED
          BY <2>1, <3>1, <5>1
      <4> QED
        BY <2>1, <2>5, <3>1, <4>1
    <3>2. CASE k + 1 # j
      BY <1>2, <2>1, <2>5, <3>2
    <3> QED
      BY <3>1, <3>2
  <2> QED
    BY <1>2, <2>1, <2>3, <2>4, <2>5 DEF HighItem
<1>7. ASSUME NEW b \in Buffers, NEW k \in 1 .. Len(buf'[b])
      PROVE  IF b[1] = "low" THEN LowItem(b, k)' ELSE HighItem(D, b, k)'
  <2>1. CASE b # a
    BY <1>1, <2>1, PatchedOthers
  <2>2. CASE b = a
    <3>1. k = j \/ k = j + 1 \/ (k \in Nat /\ k # 0 /\ k < j)
      <4>1. k \in 1 .. (j + 1)
        BY <1>2, <2>2
      <4> QED
        BY ONLY <1>0, <4>1
    <3> QED
      BY <1>2, <1>4, <1>5, <1>6, <2>2, <3>1
  <2> QED
    BY <2>1, <2>2
<1> QED
  BY <1>7 DEF Items

LEMMA SecondPatchItems ==
  ASSUME NEW D, Types, Items(D), NEW a, NEW j, PatchingSecond(D, a, j)
  PROVE  Items(D)'
<1>1. /\ j \in Nat /\ j # 0 /\ a \in Buffers /\ a = Active("high") /\ Len(buf[a]) = j + 1
      /\ buf[a][j + 1] = LeaveHigh /\ HighItem(D, a, j + 1) /\ buf[a][j] = Jump(<<a, j + 2>>)
      /\ Patching(j + 1, Jump(<<a, j + 2>>))
  BY DEF PatchingSecond, LastTwo
<1>00. j \in Nat /\ j # 0
  BY <1>1
<1>0. j + 1 \in Nat
  BY ONLY <1>00
<1>2. /\ buf'[a][j + 1] = Jump(<<a, j + 2>>) /\ Len(buf'[a]) = j + 1
      /\ \A k \in 1 .. (j + 1) : k # j + 1 => buf'[a][k] = buf[a][k]
      /\ a[1] = "high" /\ a # Other("high")
  BY <1>0, <1>1, PatchedBuffers
<1>3. /\ (j + 1) + 1 = j + 2 /\ j \in 1 .. (j + 1) /\ j # j + 1 /\ j < j + 1
  BY ONLY <1>00
<1>4. HighItem(D, a, j)'
  BY <1>1, <1>2, <1>3 DEF HighItem
<1>5. HighItem(D, a, j + 1)'
  BY <1>2, <1>3 DEF HighItem
<1>6. ASSUME NEW k \in Nat, k # 0, k < j PROVE HighItem(D, a, k)'
  <2>1. /\ k \in 1 .. (j + 1) /\ k # j + 1 /\ k < j + 1
        /\ k + 1 # j + 1 /\ k + 1 \in 1 .. (j + 1)
    BY ONLY <1>00, <1>6
  <2>2. HighItem(D, a, k)
    BY <1>1, <1>2, <2>1 DEF Items
  <2>3. buf'[a][k] = buf[a][k] /\ buf'[a][k + 1] = buf[a][k + 1]
    BY <1>2, <2>1
  <2>4. buf[a][k + 1] # LeaveHigh
    <3>1. k + 1 \in 1 .. Len(buf[a]) /\ a[1] # "low"
      BY <1>1, <1>2, <2>1
    <3>2. HighItem(D, a, k + 1)
      BY <1>1, <3>1 DEF Items
    <3> QED
      BY <1>1, <2>1, <3>2, LeavingItem
  <2>5. \/ Numbered(buf[a][k]) /\ buf[a][k] = Cmd("high", buf[a][k].n)
        \/ buf[a][k] = Opening
        \/ buf[a][k] = Jump(<<a, k + 1>>)
        \/ buf[a][k] = Jump(<<a, k + 2>>) /\ buf[a][k + 1] = Jump(<<a, k + 2>>)
    BY <1>1, <1>2, <2>1, <2>2, <2>4 DEF HighItem
  <2> QED
    BY <1>2, <2>1, <2>3, <2>5 DEF HighItem
<1>7. ASSUME NEW b \in Buffers, NEW k \in 1 .. Len(buf'[b])
      PROVE  IF b[1] = "low" THEN LowItem(b, k)' ELSE HighItem(D, b, k)'
  <2>1. CASE b # a
    BY <1>0, <1>1, <2>1, PatchedOthers
  <2>2. CASE b = a
    <3>1. k = j \/ k = j + 1 \/ (k \in Nat /\ k # 0 /\ k < j)
      <4>1. k \in 1 .. (j + 1)
        BY <1>2, <2>2
      <4> QED
        BY ONLY <1>00, <4>1
    <3> QED
      BY <1>2, <1>4, <1>5, <1>6, <2>2, <3>1
  <2> QED
    BY <2>1, <2>2
<1> QED
  BY <1>7 DEF Items

(* The copy of a buffer whose epilog is overwritten.                       *)
LEMMA PatchedCopied ==
  ASSUME NEW D, Types, NEW i \in Nat, NEW c, Patching(i, c),
         NEW b \in Buffers, NEW k \in 1 .. Len(buf[b]), b # Active("high") \/ k # i,
         Copied(D, b, k)
  PROVE  Copied(D, b, k)'
<1>1. PICK a \in Buffers : a = Active("high")
  BY PatchedBuffers
<1>2. /\ \A d \in Buffers : d # a => buf'[d] = buf[d]
      /\ \A d \in Buffers : Len(buf'[d]) = Len(buf[d]) /\ Len(buf[d]) \in Nat
      /\ \A m \in 1 .. Len(buf[a]) : m # i => buf'[a][m] = buf[a][m]
      /\ Active("high")' = a
  BY <1>1, PatchedBuffers
<1>3. /\ buf[a][i] # Opening /\ Phase \notin {"request", "prolog"}
      /\ snap' = snap /\ ends' = ends
  <2>1. Opening.op = "STATUS"
    BY CommandFields
  <2> QED
    BY <1>1, <2>1 DEF Patching
<1>4. k \in Nat /\ (k < Len(buf[b]) => k + 1 \in 1 .. Len(buf[b]))
  BY <1>2
<1>5. buf'[b][k] = buf[b][k]
  BY <1>1, <1>2
<1>6. k < Len(buf[b]) /\ buf[b][k + 1] = Opening => buf'[b][k + 1] = Opening
  <2>1. CASE b # a
    BY <1>2, <2>1
  <2>2. CASE b = a
    BY <1>2, <1>3, <1>4, <2>2
  <2> QED
    BY <2>1, <2>2
<1>7. Len(buf'[b]) = Len(buf[b])
  BY <1>2
<1>8. snap[k] = LeaveHigh => D[b][k] \in ends /\ k > 1 /\ snap[k - 1].op = "JUMP"
  BY DEF Copied
<1>9. \/ snap[k] = buf[b][k]
      \/ snap[k] = Jump(<<b, k + 1>>) /\ buf[b][k] = Jump(<<b, k + 2>>)
      \/ /\ snap[k] = LeaveHigh /\ buf[b][k] = Jump(<<b, k + 1>>)
         /\ k < Len(buf[b]) /\ buf[b][k + 1] = Opening
  BY <1>3 DEF Copied
<1> QED
  BY <1>3, <1>5, <1>6, <1>7, <1>8, <1>9 DEF Copied

LEMMA PatchedCopy ==
  ASSUME NEW D, Types, NEW i \in Nat, NEW c, Patching(i, c), Copy(D),
         NEW a \in Buffers, a = Active("high"), Copied(D, a, i) => Copied(D, a, i)'
  PROVE  Copy(D)'
<1>1. /\ Here' = Here /\ (High' <=> High) /\ (Requested' <=> Requested)
      /\ rpc' = rpc /\ at' = at /\ cmd' = cmd /\ snap' = snap
  BY PatchedPhase DEF Patching
<1>2. /\ \A b \in Buffers : Len(buf'[b]) = Len(buf[b]) /\ Len(buf[b]) \in Nat
      /\ at \in Places /\ snap \in Seq(Commands)
  BY PatchedBuffers DEF Types
<1>3. ASSUME rpc \in {"loop", "execute"}, at[1] # Block
      PROVE  /\ Len(snap') <= Len(buf'[at[1]])
             /\ \A k \in 1 .. Len(snap') : Copied(D, at[1], k)'
  <2>1. Len(snap) <= Len(buf[at[1]]) /\ \A k \in 1 .. Len(snap) : Copied(D, at[1], k)
    BY <1>3 DEF Copy
  <2>2. PICK b \in Buffers : b = at[1]
    BY <1>2, <1>3, ThePlaces
  <2>3. Len(snap) \in Nat /\ Len(buf[b]) \in Nat
    BY <1>2
  <2>4. Len(snap') <= Len(buf'[b])
    BY <1>1, <1>2, <2>1, <2>2
  <2>5. ASSUME NEW k \in 1 .. Len(snap) PROVE Copied(D, b, k)'
    <3>1. k \in 1 .. Len(buf[b]) /\ Copied(D, b, k)
      BY <2>1, <2>2, <2>3
    <3>2. CASE b # Active("high") \/ k # i
      BY <3>1, <3>2, PatchedCopied
    <3>3. CASE b = Active("high") /\ k = i
      BY <3>1, <3>3
    <3> QED
      BY <3>2, <3>3
  <2> QED
    BY <1>1, <2>2, <2>4, <2>5
<1> QED
  BY <1>1, <1>3 DEF Copy

LEMMA FirstPatchCopy ==
  ASSUME NEW D, Types, NEW a, NEW j, PatchingFirst(D, a, j), Copy(D)
  PROVE  Copy(D)'
<1>1. /\ j \in Nat /\ j # 0 /\ a \in Buffers /\ a = Active("high") /\ Len(buf[a]) = j + 1
      /\ buf[a][j + 1] = LeaveHigh /\ buf[a][j] = Jump(<<a, j + 1>>)
      /\ Patching(j, Jump(<<a, j + 2>>))
  BY DEF PatchingFirst, LastTwo
<1>2. buf'[a][j] = Jump(<<a, j + 2>>) /\ snap' = snap /\ ends' = ends
  BY <1>1, PatchedBuffers DEF Patching
<1>3. j # Len(buf[a]) /\ buf[a][j + 1] # Opening
  <2>1. j \in Nat /\ Len(buf[a]) = j + 1
    BY <1>1
  <2>2. j # Len(buf[a])
    BY ONLY <2>1
  <2> QED
    BY <1>1, <2>2, Unlike
<1>4. ASSUME Copied(D, a, j) PROVE Copied(D, a, j)'
  <2>1. snap[j] = Jump(<<a, j + 1>>)
    BY <1>1, <1>3, <1>4 DEF Copied
  <2> QED
    BY <1>2, <1>4, <2>1 DEF Copied
<1> QED
  BY <1>1, <1>4, PatchedCopy

LEMMA SecondPatchCopy ==
  ASSUME NEW D, Types, NEW a, NEW j, PatchingSecond(D, a, j), Copy(D)
  PROVE  Copy(D)'
<1>1. /\ j \in Nat /\ a \in Buffers /\ a = Active("high") /\ Len(buf[a]) = j + 1
      /\ buf[a][j + 1] = LeaveHigh /\ Phase' = "request"
      /\ Patching(j + 1, Jump(<<a, j + 2>>))
  BY DEF PatchingSecond, LastTwo
<1>2. j + 1 \in Nat /\ (j + 1) + 1 = j + 2
  <2>1. j \in Nat
    BY <1>1
  <2> QED
    BY ONLY <2>1
<1>3. /\ buf'[a][j + 1] = Jump(<<a, (j + 1) + 1>>) /\ snap' = snap /\ ends' = ends
      /\ Len(buf'[a]) = j + 1 /\ Active("high")' = a
  BY <1>1, <1>2, PatchedBuffers DEF Patching
<1>4. ASSUME Copied(D, a, j + 1) PROVE Copied(D, a, j + 1)'
  <2>1. snap[j + 1] = LeaveHigh
    BY <1>1, <1>4, Unlike DEF Copied
  <2> QED
    BY <1>1, <1>3, <1>4, <2>1 DEF Copied
<1> QED
  BY <1>1, <1>2, <1>4, PatchedCopy

(* The steps that overwrite it.                                            *)
LEMMA PatchSteps ==
  ASSUME Types, NEW s \in {"patch epilog", "patch swap"}, NEW i, Patch(s, i)
  PROVE  /\ Phase = s /\ Chain(todo, ctx)' /\ ctx = "high" /\ Closed /\ Waited'
         /\ s = "patch epilog" => Phase' = "patch swap" /\ Closed'
         /\ s = "patch swap" => Phase' = "request" /\ ~ Closed'
         /\ buf' = [buf EXCEPT ![Active("high")][i] = Jump(Cursor("high"))]
         /\ UNCHANGED <<used, status, ctx, idx, sentinel, handler, syncDone, rpc, at, snap,
                        cmd, stack, issued, done, ends, syncAt, fresh, late>>
<1>1. /\ Doing(s) /\ todo' = Tail(todo)
      /\ buf' = [buf EXCEPT ![Active("high")][i] = Jump(Cursor("high"))]
      /\ UNCHANGED <<used, status, ctx, idx, sentinel, handler, syncDone, rpc, at, snap,
                     cmd, stack, issued, done, ends, syncAt, fresh, late>>
  BY DEF Patch, cpu, rsp, history
<1>2. /\ Step = s /\ Chain(todo', ctx) /\ todo # <<>> /\ Chain(todo, ctx)
      /\ Step' = NoStep => s \in Finals
      /\ Step' # NoStep => Step' \in Follow[s] /\ Goal(todo') = Goal(todo)
  BY <1>1, NextStep DEF Types
<1>3. s \notin Finals /\ s \notin Endings /\ s \in HighSteps /\ s \in Phases
  BY DEF Finals, Endings, Epilogs, HighSteps, Phases
<1>4. /\ s = "patch epilog" => Step' = "patch swap"
      /\ s = "patch swap" => Step' = "request"
      /\ Goal(todo') = Goal(todo)
  BY <1>2, <1>3, FollowSteps
<1>5. Goal(todo) # Closing /\ ctx = "high"
  <2>1. First(todo) = s
    BY <1>2 DEF Step
  <2>2. ctx = "low" => s \notin HighSteps
    BY <1>2, <2>1, StepFacts
  <2>3. Goal(todo) = Closing => s \in Endings
    BY <1>2, <2>1, StepFacts
  <2> QED
    BY <1>3, <2>2, <2>3 DEF Types, Queues
<1>6. /\ Phase = s
      /\ s = "patch epilog" => Phase' = "patch swap"
      /\ s = "patch swap" => Phase' = "request"
  BY <1>2, <1>3, <1>4 DEF Phase, Phases
<1>7. /\ Closed
      /\ s = "patch epilog" => Closed'
      /\ s = "patch swap" => ~ Closed'
  BY <1>1, <1>4, <1>5, <1>6 DEF Closed
<1>8. Waited'
  BY <1>4 DEF Waited
<1> QED
  BY <1>1, <1>2, <1>5, <1>6, <1>7, <1>8

LEMMA OneBefore ==
  ASSUME NEW n \in Nat, n > 1
  PROVE  n - 1 \in Nat \ {0} /\ (n - 1) + 1 = n /\ n + 1 = (n - 1) + 2 /\ n \in 1 .. n
         /\ n - 1 \in 1 .. n
  OBVIOUS

LEMMA PatchPlaces ==
  ASSUME NEW D, Types, Queue(D), Phase \in {"patch epilog", "patch swap"}, Closed
  PROVE  \E a \in Buffers, j \in Nat \ {0} :
            /\ LastTwo(D, a, j)
            /\ Len(buf[a]) - 1 = j /\ Cursor("high") = <<a, j + 2>>
            /\ Phase = "patch epilog" => buf[a][j] = Jump(<<a, j + 1>>)
            /\ Phase = "patch swap" => buf[a][j] = Jump(<<a, j + 2>>)
<1>1. PICK a \in Buffers : a = Active("high") /\ a[1] = "high"
  BY TheBuffers DEF Types
<1>2. PICK n \in Nat : n = Len(buf[a])
  BY SomeLength DEF Types
<1>3. buf[a] # <<>> /\ buf[a][n] = LeaveHigh /\ buf[a] \in Seq(Commands)
  BY <1>1, <1>2 DEF Queue, Epilogue, Final, Types
<1>33. n \in Nat /\ n = Len(buf[a]) /\ buf[a] # <<>> /\ buf[a] \in Seq(Commands)
  BY <1>2, <1>3
<1>4. n \in 1 .. n
  BY ONLY <1>33
<1>5. HighItem(D, a, n)
  <2>1. ~ (a[1] = "low")
    BY <1>1
  <2> QED
    BY <1>1, <1>2, <1>4, <2>1 DEF Queue, Items
<1>6. n > 1
  BY <1>3, <1>5, LeavingAt
<1>7. PICK j \in Nat \ {0} : j = n - 1 /\ j + 1 = n /\ n + 1 = j + 2
  <2>1. n - 1 \in Nat \ {0} /\ (n - 1) + 1 = n /\ n + 1 = (n - 1) + 2
    BY <1>33, <1>6, OneBefore
  <2> QED
    BY <2>1
<1>8. Cursor("high") = <<a, j + 2>>
  BY <1>1, <1>2, <1>7 DEF Cursor
<1>9. LastTwo(D, a, j)
  BY <1>1, <1>2, <1>3, <1>5, <1>7 DEF LastTwo
<1>10. Phase = "patch epilog" => buf[a][j] = Jump(<<a, j + 1>>)
  BY <1>1, <1>2, <1>7 DEF Queue, Epilogue
<1>11. Phase = "patch swap" => buf[a][j] = Jump(<<a, j + 2>>)
  BY <1>1, <1>2, <1>7 DEF Queue, Epilogue
<1> QED
  BY <1>2, <1>7, <1>8, <1>9, <1>10, <1>11

LEMMA PatchTypes ==
  ASSUME Types, NEW i \in Nat, NEW c, Patching(i, c), Chain(todo, ctx)',
         UNCHANGED <<used, sentinel, handler, syncDone, syncAt, fresh, late>>
  PROVE  Types'
<1>1. /\ buf' \in [Buffers \cup {Block} -> Seq(Commands)]
      /\ Block # Active("high") /\ buf'[Block] = buf[Block]
  <2>1. Block # Active("high")
    BY PatchedBuffers, TheBuffers, SMTT(40) DEF Types
  <2> QED
    BY <2>1, PatchedBuffers
<1>2. /\ ctx' = ctx /\ idx' = idx /\ status' = status /\ rpc' = rpc /\ at' = at
      /\ snap' = snap /\ stack' = stack /\ issued' = issued /\ done' = done
  BY DEF Patching
<1> QED
  BY <1>1, <1>2 DEF Types

LEMMA PatchRequests ==
  ASSUME NEW D, Types, Stand(D), Items(D), NEW i \in Nat, NEW c, Patching(i, c), Requests, Copy(D),
         NEW a \in Buffers, a = Active("high"),
         Closed' \/ Phase' = "request",
         \/ Phase' = "patch swap" /\ buf[a][i] # LeaveHigh
         \/ Phase' = "request" /\ i = Len(buf[a])
  PROVE  Requests'
<1>1. /\ Here' = Here /\ (High' <=> High) /\ (Requested' <=> Requested)
      /\ \A q : Place(q)' = Place(q) /\ Spot(q)' = Spot(q)
      /\ rpc' = rpc /\ snap' = snap /\ at' = at
  BY PatchedPhase DEF Patching
<1>2. /\ \A b \in Buffers : Len(buf'[b]) = Len(buf[b]) /\ Len(buf[b]) \in Nat
      /\ \A b \in Buffers : b # a => buf'[b] = buf[b]
      /\ \A k \in 1 .. Len(buf[a]) : k # i => buf'[a][k] = buf[a][k]
      /\ buf'[a][i] = c /\ Active("high")' = a /\ i \in 1 .. Len(buf[a])
      /\ a[1] = "high" /\ c # LeaveHigh
  <2>1. c # LeaveHigh /\ i \in 1 .. Len(buf[a])
    BY CommandFields DEF Patching
  <2>2. /\ \A b \in Buffers : Len(buf'[b]) = Len(buf[b]) /\ Len(buf[b]) \in Nat
        /\ \A b \in Buffers : b # a => buf'[b] = buf[b]
        /\ \A k \in 1 .. Len(buf[a]) : k # i => buf'[a][k] = buf[a][k]
    BY PatchedBuffers
  <2>3. buf'[a][i] = c /\ a[1] = "high"
    BY PatchedBuffers
  <2>4. Active("high")' = a
    BY PatchedBuffers
  <2> QED
    BY <2>1, <2>2, <2>3, <2>4
<1>3. Phase \notin {"prolog", "request"} /\ Phase' # "prolog" /\ (Phase' = "patch swap" => Closed')
  BY DEF Patching
<1>4. Cursor("high")' = Cursor("high")
  BY <1>2 DEF Cursor
<1>5. Requested' => Ahead'
  BY <1>1, <1>3, PatchedAhead DEF Requests
<1>6. ~ High' /\ ~ Requested' => /\ Place("high")' = Cursor("high")'
                                 /\ Closed' \/ Phase' = "request"
  BY <1>1, <1>4 DEF Requests
<1>7. Phase' = "request" => \A b \in Buffers : \A k \in 1 .. Len(buf[b]) :
                               b[1] = "high" => buf'[b][k] # LeaveHigh
  <2> SUFFICES ASSUME Phase' = "request", NEW b \in Buffers, NEW k \in 1 .. Len(buf[b]),
                      b[1] = "high", buf'[b][k] = LeaveHigh
               PROVE  FALSE
    OBVIOUS
  <2>1. i = Len(buf[a])
    OBVIOUS
  <2>2. HighItem(D, b, k)
    <3>1. ~ (b[1] = "low")
      OBVIOUS
    <3> QED
      BY <3>1 DEF Items
  <2>3. k \in Nat /\ buf[b][k] = LeaveHigh
    BY <1>2
  <2>4. b = a
    BY <2>2, <2>3, LeavingActive
  <2>5. k = Len(buf[b])
    BY <2>2, <2>3, LeavingAt
  <2> QED
    BY <1>2, <2>1, <2>4, <2>5
<1>8. High' /\ Phase' # "patch swap" => ~ After("high", LeaveHigh)'
  <2> SUFFICES ASSUME High', Phase' = "request", After("high", LeaveHigh)' PROVE FALSE
    BY <1>3
  <2>1. PICK s \in Buffers, p \in Nat : /\ s = Spot("high")[1] /\ p = Spot("high")[2] /\ s[1] = "high"
                                        /\ p \in 1 .. (Len(buf[s]) + 1)
    <3>1. "high" \in Queues /\ Active("high")[1] = "high" /\ Other("high")[1] = "high"
      BY TheBuffers DEF Types
    <3>2. /\ Spot("high")[1] \in Buffers /\ Spot("high")[1] \in {Active("high"), Other("high")}
          /\ Spot("high")[2] \in 1 .. (Len(buf[Spot("high")[1]]) + 1)
      BY <3>1, TheSpot
    <3> QED
      BY <3>1, <3>2
  <2>2. p > 1 /\ buf'[s][p - 1] = LeaveHigh
    BY <1>1, <2>1 DEF After
  <2>3. p - 1 \in 1 .. Len(buf[s])
    <3>1. Len(buf[s]) \in Nat /\ p > 1 /\ p \in Nat /\ p \in 1 .. (Len(buf[s]) + 1)
      BY <1>2, <2>1, <2>2
    <3> QED
      BY ONLY <3>1
  <2> QED
    BY <1>7, <2>1, <2>2, <2>3
<1>9. ASSUME High', rpc' \in {"loop", "execute"}, (Here[2] <= Len(snap))',
             (snap[Here[2]] = LeaveHigh)'
      PROVE  \/ (buf[Here[1]][Here[2]] = LeaveHigh)'
             \/ Requested'
             \/ Phase' = "request" /\ (Here[1] = Active("high") /\ Here[2] = Len(buf[Here[1]]))'
  <2>1. \/ buf[Here[1]][Here[2]] = LeaveHigh
        \/ Requested
    BY <1>1, <1>3, <1>9 DEF Requests
  <2>2. CASE buf[Here[1]][Here[2]] = LeaveHigh
    <3>1. CASE Here[1] = a /\ Here[2] = i
      BY <1>1, <1>2, <2>2, <3>1
    <3>2. CASE Here[1] # a \/ Here[2] # i
      <4>1. Here[1] \in Buffers
        <5>1. Place("high") = Here /\ Spot("high") = Place("high") /\ "high" \in Queues
          BY <1>1, <1>9, TheBuffers DEF Place, Spot, Types
        <5> QED
          BY <5>1, TheSpot
      <4>2. Here[2] \in 1 .. Len(buf[Here[1]]) \/ Here[1] # a
        <5>1. Place("high") = Here /\ Spot("high") = Place("high") /\ "high" \in Queues
          BY <1>1, <1>9, TheBuffers DEF Place, Spot, Types
        <5>2. Here[2] \in 1 .. (Len(buf[Here[1]]) + 1)
          BY <5>1, TheSpot
        <5>3. Here[1] = at[1] /\ at[1] # Block
          BY <4>1, TheBuffers DEF Here, Types
        <5>4. Here[2] <= Len(snap) /\ Len(snap) <= Len(buf[Here[1]]) /\ Len(snap) \in Nat
          <6>1. Len(snap) \in Nat
            BY SomeLength DEF Types
          <6>2. Here[2] <= Len(snap)
            BY <1>1, <1>9
          <6>3. Len(snap) <= Len(buf[Here[1]])
            BY <1>1, <1>9, <5>3 DEF Copy
          <6> QED
            BY <6>1, <6>2, <6>3
        <5>5. PICK p : p = Here[2]
          OBVIOUS
        <5>6. PICK l : l = Len(buf[Here[1]])
          OBVIOUS
        <5>7. PICK m : m = Len(snap)
          OBVIOUS
        <5>8. l \in Nat /\ p \in 1 .. (l + 1) /\ p <= m /\ m <= l /\ m \in Nat
          BY <1>2, <4>1, <5>2, <5>4, <5>5, <5>6, <5>7
        <5>9. p \in 1 .. l
          BY ONLY <5>8
        <5> QED
          BY <5>5, <5>6, <5>9
      <4>3. buf'[Here[1]][Here[2]] = LeaveHigh
        BY <1>2, <2>2, <3>2, <4>1, <4>2
      <4> QED
        BY <1>1, <4>3
    <3> QED
      BY <3>1, <3>2
  <2> QED
    BY <1>1, <2>1, <2>2
<1> QED
  BY <1>5, <1>6, <1>8, <1>9 DEF Requests

LEMMA NextPlace ==
  ASSUME NEW j \in Nat \ {0}
  PROVE  /\ j \in Nat /\ j + 1 \in Nat /\ j + 2 \in Nat \ {0}
         /\ (j + 1) - 1 = j /\ (j + 1) + 1 = j + 2 /\ j \in 1 .. (j + 1)
         /\ j + 1 \in 1 .. (j + 1) /\ j + 1 # j /\ j + 1 # 0
  OBVIOUS

LEMMA PatchCall ==
  ASSUME NEW D, Types, Queue(D), PatchEpilog \/ PatchSwap
  PROVE  Types' /\ Waited' /\ Queue(D)'
<1>1. PICK s \in {"patch epilog", "patch swap"} :
         /\ Patch(s, IF s = "patch epilog" THEN Len(buf[Active("high")]) - 1
                     ELSE Len(buf[Active("high")]))
  BY DEF PatchEpilog, PatchSwap
<1>2. /\ Phase = s /\ Chain(todo, ctx)' /\ ctx = "high" /\ Closed /\ Waited'
      /\ s = "patch epilog" => Phase' = "patch swap" /\ Closed'
      /\ s = "patch swap" => Phase' = "request" /\ ~ Closed'
      /\ UNCHANGED <<used, status, ctx, idx, sentinel, handler, syncDone, rpc, at, snap,
                     cmd, stack, issued, done, ends, syncAt, fresh, late>>
  BY <1>1, PatchSteps
<1>3. PICK a \in Buffers, j \in Nat \ {0} :
            /\ LastTwo(D, a, j)
            /\ Len(buf[a]) - 1 = j /\ Cursor("high") = <<a, j + 2>>
            /\ Phase = "patch epilog" => buf[a][j] = Jump(<<a, j + 1>>)
            /\ Phase = "patch swap" => buf[a][j] = Jump(<<a, j + 2>>)
  BY <1>2, PatchPlaces
<1>4. /\ a = Active("high") /\ Len(buf[a]) = j + 1 /\ buf[a][j + 1] = LeaveHigh
  BY <1>3 DEF LastTwo
<1>5. PICK i \in Nat : i = IF s = "patch epilog" THEN j ELSE j + 1
  <2>1. j \in Nat /\ j + 1 \in Nat
    BY <1>3, NextPlace
  <2> QED
    BY <2>1
<1>6. Patching(i, Jump(<<a, j + 2>>))
  <2>1. buf' = [buf EXCEPT ![a][i] = Jump(<<a, j + 2>>)]
    <3>1. /\ s = "patch epilog" => Patch(s, i)
          /\ s = "patch swap" => Patch(s, i)
      BY <1>1, <1>3, <1>4, <1>5
    <3> QED
      BY <1>3, <1>4, <3>1 DEF Patch
  <2>2. i \in 1 .. Len(buf[a]) /\ j + 2 \in Nat \ {0}
    BY <1>4, <1>5, NextPlace
  <2>3. Jump(<<a, j + 2>>) \in Commands /\ Jump(<<a, j + 2>>).op = "JUMP"
    <3>1. <<a, j + 2>> \in Places
      BY <2>2, ThePlaces
    <3> QED
      BY <3>1, CommandTypes, CommandFields, ZenonT(60)
  <2>4. buf[a][i].op \in {"JUMP", "SWAP"}
    <3>1. LeaveHigh.op = "SWAP" /\ \A p : Jump(p).op = "JUMP"
      BY CommandFields
    <3>2. CASE s = "patch epilog"
      <4>1. buf[a][i] = Jump(<<a, j + 1>>)
        BY <1>2, <1>3, <1>5, <3>2
      <4> QED
        BY <3>1, <4>1
    <3>3. CASE s = "patch swap"
      <4>1. buf[a][i] = LeaveHigh
        BY <1>4, <1>5, <3>3
      <4> QED
        BY <3>1, <4>1
    <3> QED
      BY <3>2, <3>3
  <2>5. Phase \in {"patch epilog", "patch swap"} /\ Phase' \notin {"switch", "hand off", "leave"}
    BY <1>2
  <2> QED
    BY <1>2, <1>4, <2>1, <2>2, <2>3, <2>4, <2>5 DEF Patching
<1>7. Types'
  BY <1>2, <1>6, PatchTypes
<1>8. /\ s = "patch epilog" => PatchingFirst(D, a, j)
      /\ s = "patch swap" => PatchingSecond(D, a, j)
  BY <1>2, <1>3, <1>5, <1>6 DEF PatchingFirst, PatchingSecond
<1>9. Items(D)' /\ Copy(D)'
  BY <1>8, FirstPatchItems, SecondPatchItems, FirstPatchCopy, SecondPatchCopy DEF Queue
<1>10. Counts(D)' /\ Tails' /\ Stand(D)' /\ Handshake'
  BY <1>6, PatchedCounts, PatchedTails, PatchedStand DEF Queue
<1>11. Requests'
  <2>1. Closed' \/ Phase' = "request"
    BY <1>2
  <2>2. \/ Phase' = "patch swap" /\ buf[a][i] # LeaveHigh
        \/ Phase' = "request" /\ i = Len(buf[a])
    BY <1>2, <1>3, <1>4, <1>5, Unlike
  <2> QED
    BY <1>4, <1>6, <2>1, <2>2, PatchRequests DEF Queue
<1>12. Epilogue'
  <2>1. /\ Active("high")' = a /\ Len(buf'[a]) = j + 1 /\ buf'[a][i] = Jump(<<a, j + 2>>)
        /\ \A k \in 1 .. Len(buf[a]) : k # i => buf'[a][k] = buf[a][k]
    BY <1>4, <1>6, PatchedBuffers
  <2>2. /\ (j + 1) - 1 = j /\ (j + 1) + 1 = j + 2 /\ j \in 1 .. (j + 1) /\ j + 1 \in 1 .. (j + 1)
        /\ j + 1 # j /\ j + 1 # 0
    BY <1>3, NextPlace
  <2>3. buf'[a] # <<>>
    <3>1. Len(<<>>) = 0
      OBVIOUS
    <3> QED
      BY <2>1, <2>2, <3>1
  <2>4. CASE s = "patch epilog"
    <3>1. buf'[a][j] = Jump(<<a, j + 2>>) /\ buf'[a][j + 1] = LeaveHigh
      BY <1>4, <1>5, <2>1, <2>2, <2>4
    <3>2. Phase' = "patch swap"
      BY <1>2, <2>4
    <3>3. Final(buf'[a]) = LeaveHigh /\ buf'[a][Len(buf'[a]) - 1] = Jump(<<a, Len(buf'[a]) + 1>>)
      BY <2>1, <2>2, <3>1 DEF Final
    <3> QED
      BY <2>1, <2>3, <3>2, <3>3 DEF Epilogue
  <2>5. CASE s = "patch swap"
    <3>1. buf'[a][j + 1] = Jump(<<a, j + 2>>)
      BY <1>5, <2>1, <2>5
    <3>2. Phase' = "request" /\ ~ Closed'
      BY <1>2, <2>5
    <3>3. Final(buf'[a]) = Jump(<<a, Len(buf'[a]) + 1>>)
      BY <2>1, <2>2, <3>1 DEF Final
    <3> QED
      BY <2>1, <2>3, <3>2, <3>3 DEF Epilogue
  <2> QED
    BY <2>4, <2>5
<1> QED
  BY <1>2, <1>7, <1>9, <1>10, <1>11, <1>12 DEF Queue

(* The RSP.  It leaves the buffers and the calls alone.                    *)
SameCpu == UNCHANGED <<buf, used, ctx, idx, sentinel, todo, handler, syncDone, issued, ends,
                       syncAt, fresh>>

LEMMA CpuSame ==
  ASSUME SameCpu
  PROVE  /\ SameBuffers /\ SamePhase /\ Step' = Step /\ todo' = todo /\ ctx' = ctx
         /\ buf' = buf /\ ends' = ends /\ issued' = issued /\ idx' = idx
         /\ Phase' = Phase /\ (Closed' <=> Closed)
         /\ \A q, s : Moving(q, s)' <=> Moving(q, s)
         /\ \A q : /\ Active(q)' = Active(q) /\ Other(q)' = Other(q)
                   /\ HandsOver(q)' = HandsOver(q) /\ Leaves(q)' = Leaves(q)
                   /\ Cursor(q)' = Cursor(q)
<1>1. UNCHANGED <<buf, ctx, idx, todo, issued, ends>>
  BY DEF SameCpu
<1>2. Step' = Step /\ Phase' = Phase
  BY <1>1 DEF Step, Phase
<1>3. Closed' <=> Closed
  BY <1>1, <1>2 DEF Closed
<1>4. \A q, s : Moving(q, s)' <=> Moving(q, s)
  BY <1>1, <1>2 DEF Moving
<1>5. SameBuffers /\ SamePhase
  BY <1>1, <1>2, <1>3, <1>4 DEF SameBuffers, SamePhase
<1> QED
  BY <1>1, <1>2, <1>3, <1>4, <1>5 DEF Active, Other, HandsOver, Leaves, Cursor

(* No command of a buffer enters the high queue.                           *)
LEMMA NotEntering ==
  /\ \A q, n : Cmd(q, n) # EnterHigh
  /\ \A n : Call(n) # EnterHigh /\ TestWriteStatus(n) # EnterHigh
  /\ \A p : Jump(p) # EnterHigh /\ WriteWord(p) # EnterHigh
  /\ LeaveHigh # EnterHigh /\ LeaveLow # EnterHigh /\ Opening # EnterHigh /\ Handover # EnterHigh
  /\ Body # EnterHigh /\ Ret # EnterHigh
<1>1. /\ LeaveHigh.to = "low" /\ EnterHigh.to = "high" /\ EnterHigh.op = "SWAP"
      /\ Opening.op = "STATUS" /\ Handover.op = "STATUS" /\ Body.op = "BODY" /\ Ret.op = "RET"
      /\ LeaveLow.to = "block"
  BY CommandFields
<1>2. /\ \A q, n : Cmd(q, n).op = "CMD"
      /\ \A n : Call(n).op = "CALL" /\ TestWriteStatus(n).op = "TEST"
      /\ \A p : Jump(p).op = "JUMP" /\ WriteWord(p).op = "WORD"
  BY CommandFields
<1>3. "CMD" # "SWAP" /\ "CALL" # "SWAP" /\ "TEST" # "SWAP" /\ "JUMP" # "SWAP" /\ "WORD" # "SWAP"
      /\ "STATUS" # "SWAP" /\ "BODY" # "SWAP" /\ "RET" # "SWAP"
      /\ "low" # "high" /\ "block" # "high"
  OBVIOUS
<1> QED
  BY <1>1, <1>2, <1>3

LEMMA ItemNotEntering ==
  ASSUME NEW D, Items(D), NEW b \in Buffers, NEW k \in 1 .. Len(buf[b])
  PROVE  buf[b][k] # EnterHigh
<1>1. \A q : HandsOver(q) # EnterHigh /\ Leaves(q) # EnterHigh
  BY NotEntering DEF HandsOver, Leaves
<1>2. CASE b[1] = "low"
  <2>1. LowItem(b, k)
    BY <1>2 DEF Items
  <2> QED
    BY <1>1, <2>1, NotEntering DEF LowItem
<1>3. CASE b[1] # "low"
  <2>1. HighItem(D, b, k)
    BY <1>3 DEF Items
  <2> QED
    BY <1>1, <2>1, NotEntering DEF HighItem
<1> QED
  BY <1>2, <1>3

LEMMA CopyNotEntering ==
  ASSUME NEW D, Types, Items(D), Copy(D), rpc \in {"loop", "execute"}, NEW k \in 1 .. Len(snap)
  PROVE  snap[k] # EnterHigh
<1>1. CASE at[1] = Block
  <2>1. k \in 1 .. 2 /\ snap = Recorded
    BY <1>1, TheBlock DEF Copy
  <2>2. k = 1 \/ k = 2
    BY <2>1
  <2> QED
    BY <2>1, <2>2, TheBlock, NotEntering
<1>2. CASE at[1] # Block
  <2>1. PICK b \in Buffers : b = at[1]
    BY <1>2, ThePlaces DEF Types
  <2>2. /\ Copied(D, b, k) /\ Len(snap) <= Len(buf[b])
        /\ Len(snap) \in Nat /\ Len(buf[b]) \in Nat
    BY <1>2, <2>1, SomeLength DEF Copy, Types
  <2>3. k \in 1 .. Len(buf[b])
    BY <2>2
  <2>4. buf[b][k] # EnterHigh
    BY <2>3, ItemNotEntering
  <2> QED
    BY <2>2, <2>4, NotEntering DEF Copied
<1> QED
  BY <1>1, <1>2

(* Nor does one of the low queue leave the high one.                       *)
LEMMA LowNotLeaving ==
  ASSUME NEW b, NEW k, LowItem(b, k)
  PROVE  buf[b][k] # LeaveHigh
<1>1. HandsOver("low") # LeaveHigh /\ Leaves("low") # LeaveHigh
  <2>1. /\ \A p : WriteWord(p).op = "WORD"
        /\ LeaveLow.to = "block" /\ LeaveHigh.to = "low" /\ LeaveHigh.op = "SWAP"
    BY CommandFields
  <2> QED
    BY <2>1 DEF HandsOver, Leaves
<1>2. /\ \A n : Cmd("low", n).op = "CMD" /\ Call(n).op = "CALL" /\ TestWriteStatus(n).op = "TEST"
      /\ LeaveHigh.op = "SWAP"
  BY CommandFields
<1> QED
  BY <1>1, <1>2 DEF LowItem

(* The steps between two commands.                                         *)
Between == RspLoop \/ RspRefetch \/ RspFetch \/ RspWaitNewInput \/ RspBreak \/ RspWakeup

LEMMA LongAs ==
  ASSUME NEW k \in Nat \ {0}, NEW l \in Nat
  PROVE  /\ ~ (k > l) <=> k \in 1 .. l
         /\ (k + 1) - 1 = k /\ k + 1 \in Nat \ {0}
         /\ k \in 1 .. (l + 1) <=> k <= l + 1
  OBVIOUS

LEMMA TheHead ==
  ASSUME Types
  PROVE  at \in Places /\ at = <<at[1], at[2]>> /\ at[2] \in Nat \ {0}
         /\ at[1] \in Buffers \cup {Block} /\ Len(snap) \in Nat
<1>1. at \in Places /\ snap \in Seq(Commands)
  BY DEF Types
<1> QED
  BY <1>1, ThePlaces, SomeLength

LEMMA LoopStep ==
  ASSUME NEW D, Types, Items(D), Copy(D), RspLoop
  PROVE  /\ rpc = "loop" /\ Here = at /\ Here' = at /\ UNCHANGED <<status, stack, done, late>>
         /\ SameCpu /\ at'[1] = at[1] /\ at' \in Places
         /\ \/ rpc' = "execute" /\ cmd' = EnterHigh /\ UNCHANGED <<at, snap>> /\ ~ High /\ Requested
            \/ rpc' = "idle" /\ snap' = <<>> /\ UNCHANGED at
            \/ /\ rpc' = "execute" /\ snap' = snap /\ at[2] \in 1 .. Len(snap)
               /\ cmd' = snap[at[2]] /\ cmd' # EnterHigh /\ at' = <<at[1], at[2] + 1>>
<1>1. /\ rpc = "loop" /\ UNCHANGED <<status, stack, done, late>> /\ SameCpu
  BY DEF RspLoop, machine, memory, cpu, SameCpu
<1>2. Here = at
  BY <1>1 DEF Here
<1>3. /\ at \in Places /\ at = <<at[1], at[2]>> /\ at[2] \in Nat \ {0} /\ Len(snap) \in Nat
      /\ at[1] \in Buffers \cup {Block}
  BY TheHead
<1>4. CASE WantsHigh /\ rpc' = "execute" /\ cmd' = EnterHigh /\ UNCHANGED <<at, snap>>
  <2>1. Here' = at
    BY <1>4 DEF Here
  <2>2. ~ High /\ Requested
    BY <1>4 DEF WantsHigh, High, Requested
  <2> QED
    BY <1>1, <1>2, <1>3, <1>4, <2>1, <2>2
<1>5. CASE rpc' = "idle" /\ snap' = <<>> /\ UNCHANGED <<cmd, at>>
  <2>1. Here' = at
    BY <1>5 DEF Here
  <2> QED
    BY <1>1, <1>2, <1>3, <1>5, <2>1
<1>6. CASE /\ at[2] <= Len(snap) /\ rpc' = "execute" /\ cmd' = snap[at[2]]
           /\ at' = [at EXCEPT ![2] = @ + 1] /\ UNCHANGED snap
  <2>1. at[2] \in 1 .. Len(snap)
    BY <1>3, <1>6
  <2>2. cmd' # EnterHigh
    BY <1>1, <1>6, <2>1, CopyNotEntering
  <2>3. at' = <<at[1], at[2] + 1>>
    BY <1>3, <1>6
  <2>4. (at[2] + 1) - 1 = at[2] /\ at[2] + 1 \in Nat \ {0}
    BY <1>3, LongAs
  <2>5. Here' = at
    BY <1>3, <1>6, <2>2, <2>3, <2>4 DEF Here
  <2>6. at' \in Places /\ at'[1] = at[1]
    BY <1>3, <2>3, <2>4, ThePlaces
  <2> QED
    BY <1>1, <1>2, <1>3, <1>6, <2>1, <2>2, <2>3, <2>5, <2>6
<1> QED
  BY <1>4, <1>5, <1>6 DEF RspLoop, EnterHigh

LEMMA BetweenStep ==
  ASSUME NEW D, Types, Items(D), Copy(D), Between
  PROVE  /\ SameCpu /\ Here' = Here /\ at'[1] = at[1] /\ at' \in Places
         /\ stack' = stack /\ done' = done /\ SameSignals /\ status' \subseteq Signals
         /\ rpc' \in {"loop", "execute", "fetch", "idle", "break", "wakeup"}
         /\ late' \in BOOLEAN /\ snap' \in Seq(Commands)
         /\ \/ rpc' \notin {"loop", "execute"}
            \/ RspLoop \/ RspFetch
<1>1. at \in Places /\ <<>> \in Seq(Commands) /\ (rpc' # "execute" => Here' = at')
  BY TheHead DEF Here
<1>2. CASE RspLoop
  <2>1. /\ SameCpu /\ Here' = at /\ Here = at /\ at'[1] = at[1] /\ at' \in Places
        /\ UNCHANGED <<status, stack, done, late>>
    BY <1>2, LoopStep
  <2>2. rpc' \in {"execute", "idle"} /\ (snap' = snap \/ snap' = <<>>)
    BY <1>2, LoopStep
  <2>3. SameSignals /\ status' \subseteq Signals /\ late' \in BOOLEAN /\ snap' \in Seq(Commands)
    BY <1>1, <2>1, <2>2 DEF SameSignals, Types
  <2> QED
    BY <1>2, <2>1, <2>2, <2>3
<1>3. CASE RspRefetch
  BY <1>1, <1>3 DEF RspRefetch, machine, memory, cpu, SameCpu, Types, SameSignals, Here
<1>4. CASE RspFetch
  <2>1. buf[at[1]] \in Seq(Commands)
    BY TheHead DEF Types
  <2> QED
    BY <1>1, <1>4, <2>1 DEF RspFetch, machine, memory, cpu, SameCpu, Types, SameSignals, Here
<1>5. CASE RspWaitNewInput
  BY <1>1, <1>5 DEF RspWaitNewInput, machine, memory, cpu, SameCpu, Types, SameSignals, Here
<1>6. CASE RspBreak
  BY <1>1, <1>6
     DEF RspBreak, machine, memory, cpu, SameCpu, Types, SameSignals, Here, Signal, Signals, QueueSignals
<1>7. CASE RspWakeup
  BY <1>1, <1>7
     DEF RspWakeup, machine, memory, cpu, SameCpu, Types, SameSignals, Here, Signal, QueueSignals
<1> QED
  BY <1>2, <1>3, <1>4, <1>5, <1>6, <1>7 DEF Between

(* Where the RSP is, there is a place in the queue that it executes.       *)
LEMMA ReadPlace ==
  ASSUME NEW D, Types, Stand(D)
  PROVE  /\ High => Place("high") = Here /\ Spot("high") = Here
         /\ ~ High => Place("low") = Here
         /\ ~ High /\ Here[1] # Block => Spot("low") = Here
         /\ Here[1] = at[1]
         /\ at[1] = Block => ~ High /\ Here[2] \in {1, 2}
         /\ at[1] # Block => /\ at[1] \in Buffers /\ Here[2] \in 1 .. (Len(buf[at[1]]) + 1)
                             /\ Len(buf[at[1]]) \in Nat
                             /\ High <=> at[1][1] = "high"
<1>1. /\ High => Place("high") = Here /\ Spot("high") = Here
      /\ ~ High => Place("low") = Here
      /\ "high" \in Queues /\ "low" \in Queues
  BY TheBuffers DEF Place, Spot, Types
<1>2. Here[1] = at[1]
  BY DEF Here
<1>3. ~ High /\ Here[1] # Block => Spot("low") = Here
  BY <1>1 DEF Spot, InBlock
<1>4. Block \notin Buffers /\ Active("high") \in Buffers /\ Other("high") \in Buffers
      /\ Active("high")[1] = "high" /\ Other("high")[1] = "high"
      /\ Active("low")[1] = "low" /\ Other("low")[1] = "low"
  BY TheBuffers DEF Types
<1>5. at[1] = Block => ~ High /\ Here[2] \in {1, 2}
  BY <1>1, <1>2, <1>4 DEF Stand, InBlock
<1>6. ASSUME at[1] # Block
      PROVE  /\ at[1] \in Buffers /\ Here[2] \in 1 .. (Len(buf[at[1]]) + 1)
             /\ Len(buf[at[1]]) \in Nat
             /\ High <=> at[1][1] = "high"
  <2>1. CASE High
    BY <1>1, <1>2, <1>4, <1>6, <2>1, TheSpot
  <2>2. CASE ~ High
    BY <1>1, <1>2, <1>3, <1>4, <1>6, <2>2, TheSpot
  <2> QED
    BY <2>1, <2>2
<1> QED
  BY <1>1, <1>2, <1>3, <1>5, <1>6

LEMMA FetchCopy ==
  ASSUME NEW D, Types, Items(D), Stand(D), RspFetch
  PROVE  Copy(D)' /\ (High' /\ rpc' \in {"loop", "execute"} /\ (snap[Here[2]] = LeaveHigh)'
                        => (buf[Here[1]][Here[2]] = LeaveHigh)')
<1>1. /\ rpc = "fetch" /\ rpc' = "loop" /\ snap' = buf[at[1]] /\ at' = at /\ SameCpu
      /\ Here' = at /\ Here = at /\ buf' = buf /\ ends' = ends
  BY CpuSame DEF RspFetch, machine, memory, cpu, SameCpu, Here
<1>2. (High /\ rpc \in {"loop", "execute"} /\ snap[Here[2]] = LeaveHigh)'
        => (buf[Here[1]][Here[2]] = LeaveHigh)'
  BY <1>1
<1>3. at[1] = Block => snap' = Recorded /\ at[2] \in 1 .. (Len(snap') + 1)
  <2> SUFFICES ASSUME at[1] = Block PROVE snap' = Recorded /\ at[2] \in 1 .. (Len(snap') + 1)
    OBVIOUS
  <2>1. snap' = Recorded
    BY <1>1 DEF Types
  <2>2. at[2] \in {1, 2}
    BY <1>1, ReadPlace
  <2>3. Len(snap') = 2
    BY <2>1, TheBlock
  <2>4. at[2] \in 1 .. (Len(snap') + 1)
    BY ONLY <2>2, <2>3
  <2> QED
    BY <2>1, <2>4
<1>4. ASSUME at[1] # Block
      PROVE  /\ at[2] \in 1 .. (Len(snap') + 1) /\ Len(snap') <= Len(buf'[at[1]])
             /\ \A k \in 1 .. Len(snap') : Copied(D, at[1], k)'
  <2>1. PICK b \in Buffers : b = at[1]
    BY <1>4, ReadPlace
  <2>2. at[2] \in 1 .. (Len(buf[b]) + 1) /\ Len(buf[b]) \in Nat
    BY <1>1, <1>4, <2>1, ReadPlace
  <2>3. ASSUME NEW k \in 1 .. Len(buf[b]) PROVE Copied(D, b, k)'
    <3>1. snap'[k] = buf[b][k] /\ snap'[k - 1] = buf[b][k - 1]
      BY <1>1, <2>1
    <3>2. buf[b][k] = LeaveHigh => D[b][k] \in ends /\ k > 1 /\ buf[b][k - 1].op = "JUMP"
      <4>1. k \in Nat
        BY <2>2
      <4>2. CASE b[1] = "low"
        <5>1. LowItem(b, k)
          BY <4>2 DEF Items
        <5> QED
          BY <5>1, LowNotLeaving
      <4>3. CASE b[1] # "low"
        <5>1. HighItem(D, b, k)
          BY <4>3 DEF Items
        <5> QED
          BY <4>1, <5>1, LeavingAt
      <4> QED
        BY <4>2, <4>3
    <3> QED
      BY <1>1, <3>1, <3>2 DEF Copied
  <2> QED
    BY <1>1, <2>1, <2>2, <2>3
<1> QED
  BY <1>1, <1>2, <1>3, <1>4 DEF Copy

LEMMA SamePlacesHere ==
  ASSUME SameSignals, Here' = Here, stack' = stack, done' = done
  PROVE  SamePlaces /\ (High' <=> High) /\ (Requested' <=> Requested)
<1>1. (High' <=> High) /\ (Requested' <=> Requested)
  BY DEF SameSignals, QueueSignals, High, Requested
<1>2. \A q \in Queues : (Bufdone(q) \in status)' <=> Bufdone(q) \in status
  BY DEF SameSignals, QueueSignals, Bufdone, Queues
<1>3. \A q \in Queues : Place(q)' = Place(q)
  BY <1>1 DEF Place
<1> QED
  BY <1>1, <1>2, <1>3 DEF SamePlaces

LEMMA LoopCopy ==
  ASSUME NEW D, Types, Items(D), Copy(D), RspLoop
  PROVE  Copy(D)'
<1>1. /\ rpc = "loop" /\ Here = at /\ Here' = at /\ SameCpu /\ at'[1] = at[1]
      /\ (High' <=> High) /\ (Requested' <=> Requested)
  BY LoopStep DEF High, Requested
<1>2. \/ rpc' = "execute" /\ cmd' = EnterHigh /\ UNCHANGED <<at, snap>> /\ ~ High /\ Requested
      \/ rpc' = "idle"
      \/ /\ rpc' = "execute" /\ snap' = snap /\ at[2] \in 1 .. Len(snap)
         /\ cmd' = snap[at[2]] /\ cmd' # EnterHigh
  BY LoopStep
<1>3. /\ at[2] \in 1 .. (Len(snap) + 1)
      /\ at[1] = Block => snap = Recorded
      /\ at[1] # Block => /\ Len(snap) <= Len(buf[at[1]])
                          /\ \A k \in 1 .. Len(snap) : Copied(D, at[1], k)
  BY <1>1 DEF Copy
<1>4. buf' = buf /\ ends' = ends /\ Phase' = Phase /\ Active("high")' = Active("high")
  BY <1>1, CpuSame
<1>5. ASSUME snap' = snap, NEW b, NEW k, Copied(D, b, k) PROVE Copied(D, b, k)'
  BY <1>4, <1>5 DEF Copied
<1>6. CASE rpc' = "execute" /\ cmd' = EnterHigh /\ UNCHANGED <<at, snap>> /\ ~ High /\ Requested
  BY <1>1, <1>3, <1>4, <1>5, <1>6 DEF Copy
<1>7. CASE rpc' = "idle"
  BY <1>7 DEF Copy
<1>8. CASE /\ rpc' = "execute" /\ snap' = snap /\ at[2] \in 1 .. Len(snap)
           /\ cmd' = snap[at[2]] /\ cmd' # EnterHigh
  BY <1>1, <1>3, <1>4, <1>5, <1>8 DEF Copy
<1> QED
  BY <1>2, <1>6, <1>7, <1>8

LEMMA BetweenCalls ==
  ASSUME NEW D, Types, Waited, Queue(D), Between
  PROVE  Types' /\ Waited' /\ Queue(D)' /\ SamePlaces /\ SameCpu
<1>1. /\ SameCpu /\ Here' = Here /\ at'[1] = at[1] /\ at' \in Places
      /\ stack' = stack /\ done' = done /\ SameSignals /\ status' \subseteq Signals
      /\ rpc' \in {"loop", "execute", "fetch", "idle", "break", "wakeup"}
      /\ late' \in BOOLEAN /\ snap' \in Seq(Commands)
  BY BetweenStep DEF Queue
<1>2. SamePlaces /\ (High' <=> High) /\ (Requested' <=> Requested)
  BY <1>1, SamePlacesHere
<1>3. SameBuffers /\ SamePhase /\ todo' = todo /\ ctx' = ctx /\ Step' = Step
  BY <1>1, CpuSame
<1>4. Types'
  BY <1>1, <1>3 DEF Types, SameCpu
<1>5. Waited'
  BY <1>2, <1>3 DEF Waited, SamePlaces, Types
<1>6. Counts(D)' /\ Items(D)' /\ Tails'
  BY <1>3, SameItems DEF Queue, Types
<1>7. Stand(D)' /\ Handshake'
  BY <1>1, <1>2, <1>3, SameStand DEF Queue, Types
<1>8. Epilogue'
  BY <1>2, <1>3, SameRequests DEF Queue, Types
<1>9. CASE RspFetch
  <2>1. Copy(D)'
    BY <1>9, FetchCopy DEF Queue
  <2>2. (High /\ rpc \in {"loop", "execute"} /\ snap[Here[2]] = LeaveHigh)'
          => (buf[Here[1]][Here[2]] = LeaveHigh)'
    BY <1>9, FetchCopy DEF Queue
  <2>3. /\ (Ahead' <=> Ahead) /\ Phase' = Phase /\ (Closed' <=> Closed)
        /\ Place("high")' = Place("high") /\ Cursor("high")' = Cursor("high")
        /\ \A c : After("high", c)' <=> After("high", c)
    <3>1. /\ Active("high")' = Active("high") /\ Other("high")' = Other("high") /\ buf' = buf
          /\ Cursor("high")' = Cursor("high") /\ Phase' = Phase /\ (Closed' <=> Closed)
      BY <1>1, CpuSame
    <3>2. Place("high")' = Place("high") /\ Spot("high")' = Spot("high")
      BY <1>2, TheBuffers DEF SamePlaces, Spot, Types
    <3> QED
      BY <3>1, <3>2 DEF Ahead, After
  <2>4. Requests'
    BY <1>2, <2>2, <2>3 DEF Queue, Requests
  <2> QED
    BY <1>2, <1>4, <1>5, <1>6, <1>7, <1>8, <1>1, <2>1, <2>4 DEF Queue
<1>10. CASE ~ RspFetch
  <2>1. Copy(D)'
    <3>1. CASE RspLoop
      BY <3>1, LoopCopy DEF Queue
    <3>2. CASE ~ RspLoop
      <4>1. rpc' \notin {"loop", "execute"}
        BY <1>10, <3>2, BetweenStep DEF Queue
      <4> QED
        BY <4>1 DEF Copy
    <3> QED
      BY <3>1, <3>2
  <2>2. \/ rpc' \notin {"loop", "execute"}
        \/ /\ rpc \in {"loop", "execute"} /\ rpc' \in {"loop", "execute"}
           /\ UNCHANGED snap
    <3>1. CASE RspLoop
      BY <3>1, LoopStep DEF Queue
    <3>2. CASE ~ RspLoop
      BY <1>10, <3>2, BetweenStep DEF Queue
    <3> QED
      BY <3>1, <3>2
  <2>3. Requests'
    BY <1>2, <1>3, <2>2, SameRequests DEF Queue, Types
  <2> QED
    BY <1>1, <1>2, <1>4, <1>5, <1>6, <1>7, <1>8, <2>1, <2>3 DEF Queue
<1> QED
  BY <1>9, <1>10

(* The two queues apart.                                                   *)
LowHalf(D) ==
  /\ Stands(D, "low")
  /\ InBlock => Place("low")[2] \in {1, 2}
  /\ InBody => Spot("low")[2] > 1 /\ buf[Spot("low")[1]][Spot("low")[2] - 1].op = "CALL"
  /\ Spot("low")[1] = Active("low") <=> Signalled("low")
  /\ Spot("low")[1] = Other("low") /\ After("low", HandsOver("low"))
       => stack["block"] = <<Active("low"), 1>> /\ ~ InBlock
  /\ Moving("low", "switch") => Bufdone("low") \notin status

HighHalf(D) ==
  /\ Stands(D, "high")
  /\ Spot("high")[1] = Active("high") => Signalled("high")
  /\ Spot("high")[1] = Other("high") => (Signalled("high") <=> After("high", HandsOver("high")))
  /\ Spot("high")[1] = Other("high") /\ After("high", HandsOver("high")) => High
  /\ Moving("high", "switch") => Bufdone("high") \notin status

Reading == High <=> at[1] \in {Active("high"), Other("high")}

LEMMA Halves ==
  ASSUME NEW D, Stand(D), Handshake
  PROVE  LowHalf(D) /\ HighHalf(D) /\ Reading
<1>1. "low" \in Queues /\ "high" \in Queues
  BY DEF Queues
<1> QED
  BY <1>1 DEF Stand, Handshake, LowHalf, HighHalf, Reading

LEMMA HalvesNext ==
  ASSUME NEW D, LowHalf(D)', HighHalf(D)', Reading'
  PROVE  Stand(D)' /\ Handshake'
<1>1. \A q \in Queues : q = "low" \/ q = "high"
  BY DEF Queues
<1>2. \A q \in Queues : Stands(D, q)'
  BY <1>1 DEF LowHalf, HighHalf
<1>3. \A q \in Queues : (Moving(q, "switch") => Bufdone(q) \notin status)'
  BY <1>1 DEF LowHalf, HighHalf
<1>4. Stand(D)'
  BY <1>2 DEF Stand, LowHalf, Reading
<1>5. Handshake'
  BY <1>3 DEF Handshake, LowHalf, HighHalf
<1> QED
  BY <1>4, <1>5

LEMMA LowHalfKept ==
  ASSUME NEW D, LowHalf(D), SameCpu, Place("low")' = Place("low"),
         stack'["block"] = stack["block"], done'["low"] = done["low"],
         "BUFDONE_LOW" \in status' <=> "BUFDONE_LOW" \in status
  PROVE  LowHalf(D)' /\ Spot("low")' = Spot("low") /\ (InBlock' <=> InBlock)
<1>1. (InBlock' <=> InBlock) /\ (InBody' <=> InBody)
  BY DEF InBlock, InBody
<1>2. Spot("low")' = Spot("low")
  BY <1>1 DEF Spot
<1>3. /\ buf' = buf
      /\ \A q, s : Moving(q, s)' <=> Moving(q, s)
      /\ \A q : /\ Active(q)' = Active(q) /\ Other(q)' = Other(q)
                /\ HandsOver(q)' = HandsOver(q) /\ Leaves(q)' = Leaves(q)
  BY CpuSame
<1>4. /\ Signalled("low")' <=> Signalled("low")
      /\ (Bufdone("low") \in status)' <=> Bufdone("low") \in status
  BY <1>3 DEF Signalled, Bufdone
<1>5. After("low", HandsOver("low"))' <=> After("low", HandsOver("low"))
  BY <1>2, <1>3 DEF After
<1>6. Stands(D, "low")'
  BY <1>1, <1>2, <1>3 DEF Stands, LowHalf
<1> QED
  BY <1>1, <1>2, <1>3, <1>4, <1>5, <1>6 DEF LowHalf

LEMMA HighHalfKept ==
  ASSUME NEW D, HighHalf(D), SameCpu, Place("high")' = Place("high"),
         done'["high"] = done["high"], High => High',
         "BUFDONE_HIGH" \in status' <=> "BUFDONE_HIGH" \in status
  PROVE  HighHalf(D)' /\ Spot("high")' = Spot("high") /\ (Ahead' <=> Ahead)
<1>1. Spot("high")' = Spot("high")
  BY DEF Spot
<1>2. /\ buf' = buf
      /\ \A q, s : Moving(q, s)' <=> Moving(q, s)
      /\ \A q : /\ Active(q)' = Active(q) /\ Other(q)' = Other(q)
                /\ HandsOver(q)' = HandsOver(q) /\ Leaves(q)' = Leaves(q)
  BY CpuSame
<1>3. /\ Signalled("high")' <=> Signalled("high")
      /\ (Bufdone("high") \in status)' <=> Bufdone("high") \in status
  BY <1>2 DEF Signalled, Bufdone
<1>4. After("high", HandsOver("high"))' <=> After("high", HandsOver("high"))
  BY <1>1, <1>2 DEF After
<1>5. Stands(D, "high")'
  BY <1>1, <1>2 DEF Stands, HighHalf
<1>6. Ahead' <=> Ahead
  BY <1>1, <1>2 DEF Ahead
<1> QED
  BY <1>1, <1>2, <1>3, <1>4, <1>5, <1>6 DEF HighHalf

(* What does not depend on where the RSP stands.                           *)
LEMMA BuffersKept ==
  ASSUME NEW D, Types, Queue(D), SameCpu, High' => High \/ Requested, Requested' => Requested
  PROVE  Counts(D)' /\ Items(D)' /\ Tails' /\ Epilogue'
<1>1. Counts(D)' /\ Items(D)' /\ Tails'
  BY CpuSame, SameItems DEF Queue, Types
<1>2. /\ buf' = buf /\ Phase' = Phase /\ (Closed' <=> Closed) /\ Active("high")' = Active("high")
  BY CpuSame
<1>3. Epilogue'
  BY <1>2 DEF Queue, Epilogue
<1> QED
  BY <1>1, <1>3

(* Then the high queue waits, and its requests with it.                    *)
LEMMA RequestsKept ==
  ASSUME Requests, SameCpu, ~ High, ~ High', Requested' <=> Requested,
         Place("high")' = Place("high"), Ahead' <=> Ahead
  PROVE  Requests'
<1>1. /\ Phase' = Phase /\ (Closed' <=> Closed) /\ Cursor("high")' = Cursor("high")
  BY CpuSame
<1> QED
  BY <1>1 DEF Requests

(* The command that is executed, and where it stands.                      *)
Flight(D, b, k) ==
  /\ Here = <<b, k>> /\ at = <<b, k + 1>> /\ at[1] = b /\ Here[1] = b /\ Here[2] = k
  /\ b \in Buffers /\ k \in Nat \ {0}
  /\ k \in 1 .. Len(snap) /\ k \in 1 .. Len(buf[b]) /\ Len(snap) <= Len(buf[b])
  /\ Len(buf[b]) \in Nat /\ Len(snap) \in Nat
  /\ cmd = snap[k] /\ Copied(D, b, k) /\ (High <=> b[1] = "high")

LEMMA Between1 ==
  ASSUME NEW m \in Nat \ {0}, m - 1 \in Nat \ {0}, NEW l \in Nat, NEW n \in Nat,
         m - 1 \in 1 .. l, l <= n
  PROVE  /\ m = (m - 1) + 1 /\ m - 1 \in 1 .. n
  OBVIOUS

LEMMA InFlight ==
  ASSUME NEW D, Types, Queue(D), rpc = "execute", cmd # EnterHigh, at[1] # Block
  PROVE  \E b \in Buffers, k \in Nat \ {0} : Flight(D, b, k)
<1>1. /\ Here = <<at[1], at[2] - 1>>
      /\ Here[2] \in 1 .. Len(snap) /\ cmd = snap[Here[2]]
      /\ Len(snap) <= Len(buf[at[1]])
      /\ \A k \in 1 .. Len(snap) : Copied(D, at[1], k)
  BY DEF Here, Queue, Copy
<1>2. /\ at = <<at[1], at[2]>> /\ at[2] \in Nat \ {0} /\ Len(snap) \in Nat
      /\ at[1] \in Buffers /\ Len(buf[at[1]]) \in Nat /\ (High <=> at[1][1] = "high")
  BY TheHead, ReadPlace DEF Queue
<1>3. PICK b \in Buffers : b = at[1]
  BY <1>2
<1>4. PICK m \in Nat \ {0} : m = at[2]
  BY <1>2
<1>5. PICK k : k = m - 1
  OBVIOUS
<1>6. Here = <<b, k>> /\ Here[1] = b /\ Here[2] = k /\ at = <<b, m>>
  BY <1>1, <1>2, <1>3, <1>4, <1>5
<1>7. k \in 1 .. Len(snap) /\ Len(snap) \in Nat /\ Len(buf[b]) \in Nat /\ Len(snap) <= Len(buf[b])
  BY <1>1, <1>2, <1>3, <1>6
<1>8. k \in Nat \ {0}
  BY ONLY <1>7
<1>9. m = k + 1 /\ k \in 1 .. Len(buf[b])
  BY <1>5, <1>7, <1>8, Between1
<1> QED
  BY <1>1, <1>2, <1>3, <1>6, <1>7, <1>8, <1>9 DEF Flight

LEMMA InFlightBlock ==
  ASSUME NEW D, Types, Queue(D), rpc = "execute", cmd # EnterHigh, at[1] = Block
  PROVE  /\ ~ High /\ InBlock /\ Place("low") = Here /\ (InBody <=> Here[2] = 1)
         /\ \/ Here[2] = 1 /\ cmd = Body /\ at = <<Block, 2>>
            \/ Here[2] = 2 /\ cmd = Ret
<1>1. /\ Here = <<at[1], at[2] - 1>> /\ snap = Recorded /\ cmd = snap[Here[2]]
  BY DEF Here, Queue, Copy
<1>2. /\ ~ High /\ Here[2] \in {1, 2} /\ Place("low") = Here /\ Here[1] = Block
  BY ReadPlace DEF Queue
<1>3. at = <<at[1], at[2]>> /\ at[2] \in Nat \ {0}
  BY TheHead
<1>4. Here = <<Block, Here[2]>> /\ Here[2] = at[2] - 1
  BY <1>1, <1>2
<1>5. Here[2] = 1 => at[2] = 2
  BY <1>3, <1>4
<1>6. Here[2] = 1 => at = <<Block, 2>>
  BY <1>3, <1>5
<1>7. InBlock /\ (InBody <=> Here[2] = 1)
  BY <1>2, <1>4 DEF InBlock, InBody
<1>8. (Here[2] = 1 => cmd = Body) /\ (Here[2] = 2 => cmd = Ret)
  BY <1>1, TheBlock
<1> QED
  BY <1>2, <1>6, <1>7, <1>8

LEMMA LowFlight ==
  ASSUME NEW D, NEW b, NEW k, Flight(D, b, k), Types, Queue(D), ~ High
  PROVE  cmd = buf[b][k] /\ LowItem(b, k) /\ b[1] = "low" /\ buf[b][k].op # "JUMP"
<1>1. b[1] = "low" /\ LowItem(b, k)
  <2>1. b[1] = "low"
    BY TheBuffers DEF Flight, Types
  <2> QED
    BY <2>1 DEF Flight, Queue, Items
<1>2. buf[b][k].op # "JUMP"
  <2>1. HandsOver("low").op = "WORD" /\ Leaves("low").op = "SWAP"
    BY CommandFields DEF HandsOver, Leaves
  <2>2. \A n : Cmd("low", n).op = "CMD" /\ Call(n).op = "CALL" /\ TestWriteStatus(n).op = "TEST"
    BY CommandFields
  <2> QED
    BY <1>1, <2>1, <2>2 DEF LowItem
<1>3. cmd = buf[b][k]
  BY <1>2, CommandFields DEF Flight, Copied
<1> QED
  BY <1>1, <1>2, <1>3

LEMMA HighFlight ==
  ASSUME NEW D, NEW b, NEW k, Flight(D, b, k), Types, Queue(D), High
  PROVE  /\ HighItem(D, b, k) /\ b[1] = "high"
         /\ \/ cmd = buf[b][k] /\ Numbered(cmd) /\ cmd = Cmd("high", cmd.n)
            \/ cmd = Opening /\ buf[b][k] = Opening
            \/ cmd = Handover /\ buf[b][k] = Handover
            \/ cmd = Jump(<<b, k + 1>>) /\ buf[b][k] \in {Jump(<<b, k + 1>>), Jump(<<b, k + 2>>)}
            \/ /\ cmd = Jump(<<b, k + 2>>) /\ buf[b][k] = Jump(<<b, k + 2>>)
            \/ cmd = Leaves("high") /\ buf[b][k] = Leaves("high")
            \/ cmd = LeaveHigh /\ buf[b][k] \in {LeaveHigh, Jump(<<b, k + 1>>)}
<1>1. b[1] = "high" /\ HighItem(D, b, k)
  BY DEF Flight, Queue, Items
<1>2. \/ cmd = buf[b][k]
      \/ cmd = Jump(<<b, k + 1>>) /\ buf[b][k] = Jump(<<b, k + 2>>)
      \/ cmd = LeaveHigh /\ buf[b][k] = Jump(<<b, k + 1>>)
  BY DEF Flight, Copied
<1>3. \/ Numbered(buf[b][k]) /\ buf[b][k] = Cmd("high", buf[b][k].n)
      \/ buf[b][k] = Opening
      \/ buf[b][k] = Handover
      \/ buf[b][k] = Jump(<<b, k + 1>>)
      \/ buf[b][k] = Jump(<<b, k + 2>>)
      \/ buf[b][k] = Leaves("high")
      \/ buf[b][k] = LeaveHigh
  BY <1>1 DEF HighItem, HandsOver
<1> QED
  BY <1>1, <1>2, <1>3

(* What the commands do.                                                   *)
LEMMA Effects ==
  ASSUME RspExecute
  PROVE  /\ SameCpu /\ rpc = "execute" /\ rpc' \in {"loop", "fetch"} /\ Here' = at' /\ late' = late
         /\ cmd.op = "CMD" => done' = [done EXCEPT ![cmd.q] = cmd.n] /\ UNCHANGED status
         /\ cmd.op = "BODY" => done' = [done EXCEPT !["low"] = @ + 1] /\ UNCHANGED status
         /\ cmd.op = "STATUS" => UNCHANGED done /\ status' = Signal(cmd.clear, cmd.set)
         /\ cmd.op = "TEST" => /\ "SYNCPOINT" \notin status
                               /\ done' = [done EXCEPT !["low"] = cmd.n]
                               /\ status' = Signal({}, {"SYNCPOINT", "INTR"})
         /\ cmd.op \in {"CMD", "BODY", "STATUS", "TEST"} => UNCHANGED stack
         /\ cmd.op = "WORD" => stack' = [stack EXCEPT !["block"] = cmd.to] /\ UNCHANGED <<status, done>>
         /\ cmd.op \in {"CMD", "BODY", "STATUS", "TEST", "WORD"} =>
              rpc' = "loop" /\ UNCHANGED <<at, snap>>
         /\ cmd.op = "SWAP" => /\ status' = Signal(cmd.clear, cmd.set) /\ at' = stack[cmd.to]
                               /\ stack' = [stack EXCEPT ![cmd.from] = at] /\ UNCHANGED done
         /\ cmd.op = "CALL" => /\ at' = <<Block, 1>> /\ stack' = [stack EXCEPT !["block"] = at]
                               /\ UNCHANGED <<status, done>>
         /\ cmd.op = "JUMP" => at' = cmd.to
         /\ cmd.op = "RET" => at' = stack["block"]
         /\ cmd.op \in {"JUMP", "RET"} => UNCHANGED <<status, stack, done>>
         /\ cmd.op \in {"SWAP", "CALL", "JUMP", "RET"} => rpc' = "fetch" /\ snap' = <<>>
         /\ cmd.op \in {"CMD", "BODY", "STATUS", "TEST", "WORD", "SWAP", "CALL", "JUMP", "RET"}
<1>1. rpc = "execute" /\ late' = late
  BY DEF RspExecute, RspCommand, RspWriteStatus, RspTestWriteStatus, RspWriteWord,
         RspSwapBuffers, RspCall, RspJump, Executing
<1>2. SameCpu
  BY DEF RspExecute, RspCommand, RspWriteStatus, RspTestWriteStatus, RspWriteWord,
         RspSwapBuffers, RspCall, RspJump, machine, memory, cpu, SameCpu
<1>3. rpc' \in {"loop", "fetch"} /\ Here' = at'
  BY DEF RspExecute, RspCommand, RspWriteStatus, RspTestWriteStatus, RspWriteWord,
         RspSwapBuffers, RspCall, RspJump, Executed, Here
<1>4. CASE RspCommand
  BY <1>1, <1>2, <1>3, <1>4 DEF RspCommand, Executed
<1>5. CASE RspWriteStatus
  BY <1>1, <1>2, <1>3, <1>5 DEF RspWriteStatus, Executed, Executing
<1>6. CASE RspTestWriteStatus
  BY <1>1, <1>2, <1>3, <1>6 DEF RspTestWriteStatus, Executed, Executing
<1>7. CASE RspWriteWord
  BY <1>1, <1>2, <1>3, <1>7 DEF RspWriteWord, Executed, Executing
<1>8. CASE RspSwapBuffers
  BY <1>1, <1>2, <1>3, <1>8 DEF RspSwapBuffers, Executed, Executing
<1>9. CASE RspCall
  BY <1>1, <1>2, <1>3, <1>9 DEF RspCall, Executed, Executing
<1>10. CASE RspJump
  BY <1>1, <1>2, <1>3, <1>10 DEF RspJump, Executed, Executing
<1> QED
  BY <1>4, <1>5, <1>6, <1>7, <1>8, <1>9, <1>10 DEF RspExecute

LEMMA CommandShape ==
  ASSUME NEW c \in Commands
  PROVE  /\ c.op = "CMD" => c.q \in Queues /\ c.n \in Nat
         /\ c.op = "TEST" => c.n \in Nat
         /\ c.op \in {"WORD", "JUMP"} => c.to \in Places
         /\ c.op \in {"STATUS", "SWAP"} => c.set \subseteq Signals
         /\ c.op = "SWAP" => c.to \in Slots /\ c.from \in Slots
<1>1. CASE \E q \in Queues, n \in Nat : c = Cmd(q, n)
  BY <1>1, CommandFields
<1>2. CASE \E n \in Nat : c = Call(n) \/ c = TestWriteStatus(n)
  BY <1>2, CommandFields
<1>3. CASE \E p \in Places : c = Jump(p) \/ c = WriteWord(p)
  BY <1>3, CommandFields
<1>4. CASE c \in {EnterHigh, LeaveHigh, LeaveLow, Opening, Handover, Body, Ret}
  <2>1. CASE c = EnterHigh
    BY <2>1, CommandFields DEF Slots, Signals
  <2>2. CASE c = LeaveHigh
    BY <2>2, CommandFields DEF Slots, Signals
  <2>3. CASE c = LeaveLow
    BY <2>3, CommandFields DEF Slots, Signals
  <2>4. CASE c = Opening
    BY <2>4, CommandFields DEF Slots, Signals
  <2>5. CASE c = Handover
    BY <2>5, CommandFields DEF Slots, Signals
  <2>6. CASE c = Body \/ c = Ret
    BY <2>6, CommandFields
  <2> QED
    BY <1>4, <2>1, <2>2, <2>3, <2>4, <2>5, <2>6
<1> QED
  BY <1>1, <1>2, <1>3, <1>4 DEF Commands

LEMMA CmdType ==
  ASSUME NEW D, Types, Queue(D), rpc = "execute"
  PROVE  cmd \in Commands
<1>1. CASE cmd = EnterHigh
  BY <1>1, CommandTypes
<1>2. CASE cmd # EnterHigh
  <2>1. Here[2] \in 1 .. Len(snap) /\ cmd = snap[Here[2]] /\ snap \in Seq(Commands)
    BY <1>2 DEF Queue, Copy, Types
  <2> QED
    BY <2>1
<1> QED
  BY <1>1, <1>2

LEMMA ExecuteTypes ==
  ASSUME NEW D, Types, Queue(D), Waited, RspExecute
  PROVE  Types' /\ Waited'
<1>1. cmd \in Commands
  BY Effects, CmdType
<1>2. /\ status \subseteq Signals /\ done \in [Queues -> Nat] /\ stack \in [Slots -> Places]
      /\ at \in Places /\ snap \in Seq(Commands) /\ <<>> \in Seq(Commands)
      /\ "low" \in Queues /\ "block" \in Slots /\ <<Block, 1>> \in Places
  <2>1. <<Block, 1>> \in Places
    BY DEF Places
  <2>2. "low" \in Queues /\ "block" \in Slots
    BY DEF Queues, Slots
  <2> QED
    BY <2>1, <2>2 DEF Types
<1>3. status' \subseteq Signals /\ \A q \in Queues : Bufdone(q) \in status => Bufdone(q) \in status'
  <2>1. CASE cmd.op \in {"STATUS", "SWAP"}
    <3>1. status' = Signal(cmd.clear, cmd.set) /\ cmd.set \subseteq Signals
      BY <1>1, <2>1, Effects, CommandShape
    <3>2. \A q \in Queues : Bufdone(q) \notin cmd.clear
      <4>1. cmd.clear \in {{}, {"HIGHPRI_REQUESTED"}, {"HIGHPRI_RUNNING"}}
        BY <1>1, <2>1, CommandFields DEF Commands
      <4> QED
        BY <4>1 DEF Bufdone
    <3> QED
      BY <1>2, <3>1, <3>2 DEF Signal
  <2>2. CASE cmd.op = "TEST"
    BY <1>2, <2>2, Effects DEF Signal, Signals
  <2>3. CASE cmd.op \notin {"STATUS", "SWAP", "TEST"}
    BY <1>2, <2>3, Effects
  <2> QED
    BY <2>1, <2>2, <2>3
<1>4. done' \in [Queues -> Nat]
  <2>1. CASE cmd.op = "BODY"
    <3>1. done' = [done EXCEPT !["low"] = @ + 1]
      BY <2>1, Effects
    <3>2. done["low"] + 1 \in Nat
      BY <1>2
    <3> QED
      BY <1>2, <3>1, <3>2
  <2>2. CASE cmd.op = "CMD"
    BY <1>1, <1>2, <2>2, Effects, CommandShape
  <2>3. CASE cmd.op = "TEST"
    BY <1>1, <1>2, <2>3, Effects, CommandShape
  <2>4. CASE cmd.op \notin {"BODY", "CMD", "TEST"}
    BY <1>2, <2>4, Effects
  <2> QED
    BY <2>1, <2>2, <2>3, <2>4
<1>5. stack' \in [Slots -> Places]
  <2>1. CASE cmd.op = "WORD"
    BY <1>1, <1>2, <2>1, Effects, CommandShape
  <2>2. CASE cmd.op = "SWAP"
    BY <1>1, <1>2, <2>2, Effects, CommandShape
  <2>3. CASE cmd.op = "CALL"
    BY <1>2, <2>3, Effects
  <2>4. CASE cmd.op \notin {"WORD", "SWAP", "CALL"}
    BY <1>2, <2>4, Effects
  <2> QED
    BY <2>1, <2>2, <2>3, <2>4
<1>6. at' \in Places /\ snap' \in Seq(Commands)
  <2>1. CASE cmd.op = "SWAP"
    BY <1>1, <1>2, <2>1, Effects, CommandShape
  <2>2. CASE cmd.op = "CALL"
    BY <1>2, <2>2, Effects
  <2>3. CASE cmd.op = "JUMP"
    BY <1>1, <1>2, <2>3, Effects, CommandShape
  <2>4. CASE cmd.op = "RET"
    BY <1>2, <2>4, Effects
  <2>5. CASE cmd.op \notin {"SWAP", "CALL", "JUMP", "RET"}
    BY <1>2, <2>5, Effects
  <2> QED
    BY <2>1, <2>2, <2>3, <2>4, <2>5
<1>7. SameCpu /\ rpc' \in {"loop", "fetch"} /\ late' = late
  BY Effects
<1>8. Types'
  BY <1>3, <1>4, <1>5, <1>6, <1>7 DEF Types, SameCpu
<1>9. Waited'
  <2>1. ctx \in Queues /\ Step' = Step /\ ctx' = ctx
    BY <1>7, CpuSame DEF Types
  <2> QED
    BY <1>3, <2>1 DEF Waited, Bufdone
<1> QED
  BY <1>8, <1>9

(* The copy goes on.                                                       *)
LEMMA AdvanceCopy ==
  ASSUME NEW D, Types, Queue(D), RspExecute, cmd # EnterHigh
  PROVE  Copy(D)'
<1>1. SameCpu /\ rpc = "execute" /\ rpc' \in {"loop", "fetch"}
  BY Effects
<1>2. CASE rpc' = "fetch"
  BY <1>2 DEF Copy
<1>3. CASE rpc' # "fetch"
  <2>1. rpc' = "loop" /\ at' = at /\ snap' = snap
    BY <1>1, <1>3, Effects
  <2>2. /\ at[1] = Block => snap = Recorded
        /\ at[1] # Block => /\ Len(snap) <= Len(buf[at[1]])
                            /\ \A k \in 1 .. Len(snap) : Copied(D, at[1], k)
    BY <1>1 DEF Copy, Queue
  <2>3. at[2] \in 1 .. (Len(snap) + 1)
    <3>1. CASE at[1] = Block
      <4>1. at[2] = 2 \/ (Here[2] = 2 /\ cmd = Ret)
        BY <1>1, <3>1, InFlightBlock
      <4>2. cmd = Ret => rpc' = "fetch"
        BY Effects, CommandFields
      <4>3. at[2] = 2 /\ Len(snap) = 2
        BY <1>3, <2>2, <3>1, <4>1, <4>2, TheBlock
      <4> QED
        BY ONLY <4>3
    <3>2. CASE at[1] # Block
      <4>1. PICK b \in Buffers, k \in Nat \ {0} : Flight(D, b, k)
        BY <1>1, <3>2, InFlight
      <4>2. at[2] = k + 1 /\ k \in 1 .. Len(snap) /\ Len(snap) \in Nat /\ k \in Nat
        BY <4>1 DEF Flight
      <4> QED
        BY ONLY <4>2
    <3> QED
      BY <3>1, <3>2
  <2>4. /\ buf' = buf /\ ends' = ends /\ Phase' = Phase /\ Active("high")' = Active("high")
    BY <1>1, CpuSame
  <2>5. ASSUME NEW b, NEW k, Copied(D, b, k) PROVE Copied(D, b, k)'
    BY <2>1, <2>4, <2>5 DEF Copied
  <2> QED
    BY <2>1, <2>2, <2>3, <2>4, <2>5 DEF Copy
<1> QED
  BY <1>2, <1>3

(* A step in the low queue.                                                *)
LEMMA LowFrame ==
  ASSUME NEW D, Types, Queue(D), RspExecute, ~ High, cmd # EnterHigh,
         ~ High', Requested' <=> Requested,
         "BUFDONE_HIGH" \in status' <=> "BUFDONE_HIGH" \in status,
         stack'["high"] = stack["high"], done'["high"] = done["high"],
         LowHalf(D)', at'[1] \notin {Active("high"), Other("high")}
  PROVE  Queue(D)'
<1>1. SameCpu
  BY Effects
<1>2. Place("high")' = Place("high")
  BY DEF Place
<1>3. HighHalf(D)' /\ Spot("high")' = Spot("high") /\ (Ahead' <=> Ahead)
  <2>1. HighHalf(D)
    BY Halves DEF Queue
  <2> QED
    BY <1>1, <1>2, <2>1, HighHalfKept
<1>4. Reading'
  BY <1>1, CpuSame DEF Reading
<1>5. Stand(D)' /\ Handshake'
  BY <1>3, <1>4, HalvesNext
<1>6. Counts(D)' /\ Items(D)' /\ Tails' /\ Epilogue'
  BY <1>1, BuffersKept
<1>7. Requests'
  BY <1>1, <1>2, <1>3, RequestsKept DEF Queue
<1> QED
  BY <1>5, <1>6, <1>7, AdvanceCopy DEF Queue

LEMMA NotLast ==
  ASSUME NEW k \in Nat, NEW l \in Nat, k \in 1 .. l, k # l
  PROVE  k + 1 <= l /\ k + 1 \in 1 .. (l + 1) /\ k + 1 \in 1 .. l
  OBVIOUS

LEMMA ItsPlace ==
  ASSUME NEW k \in Nat \ {0}, NEW l \in Nat, k \in 1 .. l
  PROVE  k + 1 \in 1 .. (l + 1) /\ k + 1 > 1 /\ (k + 1) - 1 = k /\ k \in 1 .. (l + 1)
         /\ k + 1 \in Nat /\ k \in Nat /\ k <= l
  OBVIOUS

LEMMA NoPlace == \A k : ~ (k \in 1 .. 0)
  OBVIOUS

(* The last command of the buffer that is left.                            *)
LEMMA LastLeaves ==
  ASSUME NEW D, Types, Queue(D), NEW q \in Queues, NEW k \in 1 .. Len(buf[Other(q)]),
         buf[Other(q)][k] # Leaves(q), ~ Moving(q, "hand off"), ~ Moving(q, "leave")
  PROVE  k # Len(buf[Other(q)])
<1>1. buf[Other(q)] = <<>> \/ Final(buf[Other(q)]) = Leaves(q)
  BY DEF Queue, Tails
<1>2. buf[Other(q)] # <<>>
  <2>1. Len(<<>>) = 0
    OBVIOUS
  <2>2. buf[Other(q)] = <<>> => k \in 1 .. 0
    BY <2>1
  <2>3. ~ (k \in 1 .. 0)
    BY NoPlace
  <2> QED
    BY <2>2, <2>3
<1> QED
  BY <1>1, <1>2 DEF Final

LEMMA LowSpot ==
  ASSUME NEW D, NEW b, NEW k, Flight(D, b, k), Types, Queue(D), ~ High
  PROVE  /\ Place("low") = <<b, k>> /\ Spot("low") = <<b, k>> /\ ~ InBlock /\ ~ InBody
         /\ b \in {Active("low"), Other("low")} /\ D[b][k] = done["low"]
         /\ b = Active("low") <=> Signalled("low")
         /\ k > 1 /\ b = Other("low") /\ buf[b][k - 1] = HandsOver("low")
              => stack["block"] = <<Active("low"), 1>>
<1>1. Place("low") = <<b, k>> /\ b # Block
  BY ReadPlace, TheBuffers DEF Flight, Queue, Types
<1>2. ~ InBlock /\ ~ InBody
  BY <1>1 DEF InBlock, InBody
<1>3. Spot("low") = <<b, k>>
  BY <1>1, <1>2 DEF Spot
<1>4. LowHalf(D)
  BY Halves DEF Queue
<1>5. b \in {Active("low"), Other("low")} /\ D[b][k] = done["low"] + 0
  <2>1. Stands(D, "low")
    BY <1>4 DEF LowHalf
  <2>2. /\ Spot("low")[1] \in {Active("low"), Other("low")}
        /\ D[Spot("low")[1]][Spot("low")[2]]
             = done["low"] + IF "low" = "low" /\ InBody THEN 1 ELSE 0
    BY <2>1 DEF Stands
  <2>3. (IF "low" = "low" /\ InBody THEN 1 ELSE 0) = 0
    BY <1>2
  <2> QED
    BY <1>3, <2>2, <2>3
<1>6. done["low"] \in Nat
  BY DEF Types, Queues
<1>7. D[b][k] = done["low"]
  BY <1>5, <1>6
<1> QED
  BY <1>1, <1>2, <1>3, <1>4, <1>5, <1>7 DEF LowHalf, After

LEMMA LowAdvance ==
  ASSUME NEW D, NEW b, NEW k, Flight(D, b, k), Types, Queue(D), ~ High, SameCpu,
         buf[b][k] # Leaves("low"), Spot("low")' = <<b, k + 1>>,
         D[b][k + 1] = done'["low"] + (IF InBody' THEN 1 ELSE 0),
         InBlock' => Place("low")'[2] \in {1, 2}, InBody' => buf[b][k].op = "CALL",
         "BUFDONE_LOW" \in status' <=> "BUFDONE_LOW" \in status,
         buf[b][k] = HandsOver("low") => stack'["block"] = <<Active("low"), 1>> /\ ~ InBlock'
  PROVE  LowHalf(D)'
<1>1. /\ buf' = buf
      /\ \A q, s : Moving(q, s)' <=> Moving(q, s)
      /\ \A q : /\ Active(q)' = Active(q) /\ Other(q)' = Other(q)
                /\ HandsOver(q)' = HandsOver(q) /\ Leaves(q)' = Leaves(q)
  BY CpuSame
<1>2. /\ Signalled("low")' <=> Signalled("low")
      /\ (Bufdone("low") \in status)' <=> Bufdone("low") \in status
  BY <1>1 DEF Signalled, Bufdone
<1>3. /\ b \in {Active("low"), Other("low")} /\ (b = Active("low") <=> Signalled("low"))
      /\ Active("low") # Other("low")
  BY LowSpot, TheBuffers DEF Types
<1>4. /\ k + 1 \in 1 .. (Len(buf[b]) + 1) /\ k + 1 > 1 /\ (k + 1) - 1 = k /\ k \in 1 .. Len(buf[b])
  BY ItsPlace DEF Flight
<1>5. b = Other("low") => k + 1 <= Len(buf[b]) \/ Moving("low", "hand off") \/ Moving("low", "leave")
  <2> SUFFICES ASSUME b = Other("low"), ~ Moving("low", "hand off"), ~ Moving("low", "leave")
               PROVE  k + 1 <= Len(buf[b])
    OBVIOUS
  <2>1. k # Len(buf[b])
    BY <1>4, LastLeaves DEF Queues
  <2>2. k \in Nat /\ Len(buf[b]) \in Nat
    BY DEF Flight
  <2> QED
    BY <1>4, <2>1, <2>2, NotLast
<1>6. Spot("low")'[1] = b /\ Spot("low")'[2] = k + 1
  OBVIOUS
<1>7. Stands(D, "low")'
  BY <1>1, <1>3, <1>4, <1>5, <1>6 DEF Stands
<1>8. After("low", HandsOver("low"))' <=> buf[b][k] = HandsOver("low")
  BY <1>1, <1>4, <1>6 DEF After
<1>9. InBody' => (Spot("low")[2] > 1 /\ buf[Spot("low")[1]][Spot("low")[2] - 1].op = "CALL")'
  BY <1>1, <1>4, <1>6
<1>10. (Moving("low", "switch") => Bufdone("low") \notin status)'
  <2>1. LowHalf(D)
    BY Halves DEF Queue
  <2> QED
    BY <1>1, <1>2, <2>1 DEF LowHalf
<1> QED
  BY <1>1, <1>2, <1>3, <1>6, <1>7, <1>8, <1>9, <1>10 DEF LowHalf

LEMMA NextCount ==
  ASSUME NEW D, Counts(D), NEW b \in Buffers, NEW k \in Nat, k \in 1 .. Len(buf[b])
  PROVE  /\ Numbered(buf[b][k]) => D[b][k + 1] = D[b][k] + 1 /\ buf[b][k].n = D[b][k + 1]
         /\ ~ Numbered(buf[b][k]) => D[b][k + 1] = D[b][k]
         /\ D[b][k] \in Nat
<1>1. Counted(D, b, k) /\ D \in Numbers
  BY DEF Counts
<1> QED
  BY <1>1 DEF Counted, Numbers

LEMMA LowSame ==
  ASSUME Types, RspExecute, ~ High, at'[1] \notin {Active("high"), Other("high")},
         \/ status' = status
         \/ status' = Signal({}, {"SYNCPOINT", "INTR"})
         \/ status' = Signal({}, {"BUFDONE_LOW"})
  PROVE  /\ ~ High' /\ (Requested' <=> Requested)
         /\ "BUFDONE_HIGH" \in status' <=> "BUFDONE_HIGH" \in status
         /\ status' # Signal({}, {"BUFDONE_LOW"}) =>
              ("BUFDONE_LOW" \in status' <=> "BUFDONE_LOW" \in status)
         /\ Place("low")' = at'
  BY Effects DEF High, Requested, Signal, Place

LEMMA LowPlaces ==
  ASSUME Types, NEW b, b = Block \/ b[1] = "low"
  PROVE  b \notin {Active("high"), Other("high")}
  BY DEF Block, Active, Other

(* A command of the program in the low queue.                              *)
LEMMA LowCommand ==
  ASSUME NEW D, NEW b, NEW k, Flight(D, b, k), Types, Queue(D), ~ High, cmd # EnterHigh,
         RspExecute, Numbered(buf[b][k])
  PROVE  /\ Queue(D)'
         /\ done' = IF cmd.op = "CALL" THEN done ELSE [done EXCEPT !["low"] = D[b][k + 1]]
         /\ D[b][k + 1] = done["low"] + 1 /\ cmd = buf[b][k]
<1>1. /\ cmd = buf[b][k] /\ LowItem(b, k) /\ b[1] = "low" /\ b \in Buffers /\ k \in Nat
      /\ k \in 1 .. Len(buf[b]) /\ at = <<b, k + 1>>
  BY LowFlight DEF Flight
<1>2. cmd = Cmd("low", cmd.n) \/ cmd = Call(cmd.n) \/ cmd = TestWriteStatus(cmd.n)
  <2>1. ~ Numbered(HandsOver("low")) /\ ~ Numbered(Leaves("low"))
    BY CommandFields DEF HandsOver, Leaves, Numbered
  <2> QED
    BY <1>1, <2>1 DEF LowItem
<1>3. /\ D[b][k + 1] = D[b][k] + 1 /\ cmd.n = D[b][k + 1]
  BY <1>1, NextCount DEF Queue
<1>4. /\ D[b][k] = done["low"] /\ ~ InBlock /\ ~ InBody
  BY LowSpot
<1>5. D[b][k + 1] = done["low"] + 1 /\ D[b][k + 1] \in Nat
  <2>1. D[b][k] \in Nat
    BY <1>1, NextCount DEF Queue
  <2> QED
    BY <1>3, <1>4, <2>1
<1>6. /\ SameCpu /\ done \in [Queues -> Nat] /\ "low" \in Queues /\ "high" \in Queues
      /\ stack \in [Slots -> Places] /\ "high" \in Slots /\ "block" \in Slots
  BY Effects DEF Types, Queues, Slots
<1>7. /\ buf[b][k] # Leaves("low") /\ buf[b][k] # HandsOver("low")
  BY CommandFields DEF HandsOver, Leaves, Numbered
<1>8. b # Block
  BY <1>1, TheBuffers DEF Types
<1>9. CASE cmd.op \in {"CMD", "TEST"}
  <2>1. /\ done' = [done EXCEPT !["low"] = cmd.n] /\ at' = at /\ stack' = stack
        /\ \/ status' = status
           \/ status' = Signal({}, {"SYNCPOINT", "INTR"})
    BY <1>2, <1>9, Effects, CommandFields
  <2>2. at'[1] \notin {Active("high"), Other("high")}
    BY <1>1, <2>1, LowPlaces
  <2>3. /\ ~ High' /\ (Requested' <=> Requested)
        /\ "BUFDONE_HIGH" \in status' <=> "BUFDONE_HIGH" \in status
        /\ "BUFDONE_LOW" \in status' <=> "BUFDONE_LOW" \in status
        /\ Place("low")' = at'
    BY <2>1, <2>2, LowSame DEF Signal
  <2>4. ~ InBlock' /\ ~ InBody'
    BY <1>1, <1>8, <2>1, <2>3 DEF InBlock, InBody
  <2>5. Spot("low")' = <<b, k + 1>>
    BY <1>1, <2>1, <2>3, <2>4 DEF Spot
  <2>6. D[b][k + 1] = done'["low"] + (IF InBody' THEN 1 ELSE 0) /\ done'["high"] = done["high"]
    <3>1. done'["low"] = D[b][k + 1] /\ done'["high"] = done["high"]
      BY <1>3, <1>6, <2>1
    <3>2. (IF InBody' THEN 1 ELSE 0) = 0
      BY <2>4
    <3> QED
      BY <1>5, <3>1, <3>2
  <2>7. LowHalf(D)'
    BY <1>6, <1>7, <2>3, <2>4, <2>5, <2>6, LowAdvance
  <2>8. Queue(D)'
    BY <2>1, <2>2, <2>3, <2>6, <2>7, LowFrame
  <2>9. cmd.op # "CALL"
    BY <1>9
  <2> QED
    BY <1>1, <1>3, <1>5, <2>1, <2>8, <2>9
<1>10. CASE cmd.op = "CALL"
  <2>1. /\ done' = done /\ at' = <<Block, 1>> /\ stack' = [stack EXCEPT !["block"] = at]
        /\ status' = status
    BY <1>10, Effects
  <2>2. at'[1] \notin {Active("high"), Other("high")}
    BY <2>1, LowPlaces
  <2>3. /\ ~ High' /\ (Requested' <=> Requested)
        /\ Place("low")' = at'
    BY <2>1, <2>2, LowSame
  <2>4. InBlock' /\ InBody' /\ Place("low")'[2] \in {1, 2}
    BY <2>1, <2>3 DEF InBlock, InBody
  <2>5. stack'["block"] = <<b, k + 1>> /\ stack'["high"] = stack["high"]
    BY <1>1, <1>6, <2>1
  <2>6. Spot("low")' = <<b, k + 1>>
    BY <2>4, <2>5 DEF Spot
  <2>7. D[b][k + 1] = done'["low"] + (IF InBody' THEN 1 ELSE 0)
    BY <1>5, <2>1, <2>4
  <2>8. buf[b][k].op = "CALL"
    BY <1>1, <1>10
  <2>9. LowHalf(D)'
    BY <1>6, <1>7, <2>1, <2>4, <2>6, <2>7, <2>8, LowAdvance
  <2>10. Queue(D)'
    BY <2>1, <2>2, <2>3, <2>5, <2>9, LowFrame
  <2> QED
    BY <1>1, <1>5, <1>10, <2>1, <2>10
<1> QED
  BY <1>2, <1>9, <1>10, CommandFields

(* The way to the other buffer.                                            *)
LEMMA LowWord ==
  ASSUME NEW D, NEW b, NEW k, Flight(D, b, k), Types, Queue(D), ~ High, cmd # EnterHigh,
         RspExecute, buf[b][k] = HandsOver("low")
  PROVE  Queue(D)' /\ done' = done
<1>1. /\ cmd = HandsOver("low") /\ b[1] = "low" /\ b \in Buffers /\ k \in Nat
      /\ k \in 1 .. Len(buf[b]) /\ at = <<b, k + 1>>
  BY LowFlight DEF Flight
<1>2. /\ cmd.op = "WORD" /\ cmd.to = <<Active("low"), 1>> /\ ~ Numbered(buf[b][k])
      /\ buf[b][k] # Leaves("low")
  BY <1>1, CommandFields DEF HandsOver, Leaves, Numbered
<1>3. D[b][k + 1] = D[b][k] /\ D[b][k] = done["low"]
  BY <1>1, <1>2, NextCount, LowSpot DEF Queue
<1>4. /\ SameCpu /\ done \in [Queues -> Nat] /\ "low" \in Queues
      /\ stack \in [Slots -> Places] /\ "high" \in Slots /\ "block" \in Slots
  BY Effects DEF Types, Queues, Slots
<1>5. /\ done' = done /\ at' = at /\ stack' = [stack EXCEPT !["block"] = <<Active("low"), 1>>]
      /\ status' = status
  BY <1>2, Effects
<1>6. b # Block
  BY <1>1, TheBuffers DEF Types
<1>7. at'[1] \notin {Active("high"), Other("high")}
  BY <1>1, <1>5, LowPlaces
<1>8. /\ ~ High' /\ (Requested' <=> Requested) /\ Place("low")' = at'
  BY <1>5, <1>7, LowSame
<1>9. ~ InBlock' /\ ~ InBody'
  BY <1>1, <1>5, <1>6, <1>8 DEF InBlock, InBody
<1>10. Spot("low")' = <<b, k + 1>>
  BY <1>1, <1>5, <1>8, <1>9 DEF Spot
<1>11. D[b][k + 1] = done'["low"] + (IF InBody' THEN 1 ELSE 0)
  <2>1. done["low"] \in Nat
    BY <1>4
  <2>2. (IF InBody' THEN 1 ELSE 0) = 0
    BY <1>9
  <2> QED
    BY <1>3, <1>5, <2>1, <2>2
<1>12. stack'["block"] = <<Active("low"), 1>> /\ stack'["high"] = stack["high"]
  BY <1>4, <1>5
<1>13. LowHalf(D)'
  BY <1>2, <1>4, <1>5, <1>9, <1>10, <1>11, <1>12, LowAdvance
<1> QED
  BY <1>5, <1>7, <1>8, <1>12, <1>13, LowFrame

LEMMA LowTurn ==
  ASSUME NEW D, NEW b, NEW k, Flight(D, b, k), Types, Queue(D), ~ High, cmd # EnterHigh,
         RspExecute, buf[b][k] = Leaves("low")
  PROVE  Queue(D)' /\ done' = done
<1>1. /\ cmd = LeaveLow /\ LowItem(b, k) /\ b[1] = "low" /\ b \in Buffers /\ k \in Nat
      /\ k \in 1 .. Len(buf[b])
  BY LowFlight DEF Flight, Leaves
<1>2. /\ cmd.op = "SWAP" /\ cmd.to = "block" /\ cmd.from = "block" /\ ~ Numbered(buf[b][k])
      /\ cmd.clear = {} /\ cmd.set = {"BUFDONE_LOW"}
      /\ buf[b][k] # HandsOver("low")
  <2>1. buf[b][k].op = "SWAP"
    BY CommandFields DEF Leaves
  <2> QED
    BY <1>1, <2>1, CommandFields DEF HandsOver, Numbered
<1>3. /\ b = Other("low") /\ k = Len(buf[b]) /\ k > 1 /\ buf[b][k - 1] = HandsOver("low")
  BY <1>1, <1>2 DEF LowItem
<1>4. /\ SameCpu /\ done \in [Queues -> Nat] /\ "low" \in Queues
      /\ stack \in [Slots -> Places] /\ "high" \in Slots /\ "block" \in Slots
  BY Effects DEF Types, Queues, Slots
<1>5. stack["block"] = <<Active("low"), 1>>
  BY <1>3, LowSpot
<1>6. /\ done' = done /\ at' = <<Active("low"), 1>> /\ stack' = [stack EXCEPT !["block"] = at]
      /\ status' = Signal({}, {"BUFDONE_LOW"})
  BY <1>2, <1>5, Effects
<1>7. /\ Active("low") \in Buffers /\ Active("low")[1] = "low" /\ Active("low") # Block
      /\ Other("low") # Active("low")
  BY TheBuffers, SMTT(40) DEF Types
<1>8. at'[1] \notin {Active("high"), Other("high")}
  BY <1>6, <1>7, LowPlaces
<1>9. /\ ~ High' /\ (Requested' <=> Requested) /\ Place("low")' = at'
      /\ "BUFDONE_HIGH" \in status' <=> "BUFDONE_HIGH" \in status
  BY <1>6, <1>8, LowSame
<1>10. ~ InBlock' /\ ~ InBody' /\ stack'["high"] = stack["high"]
  BY <1>4, <1>6, <1>7, <1>9 DEF InBlock, InBody
<1>11. Spot("low")' = <<Active("low"), 1>>
  BY <1>6, <1>9, <1>10 DEF Spot
<1>12. /\ buf' = buf
       /\ \A q, s : Moving(q, s)' <=> Moving(q, s)
       /\ \A q : /\ Active(q)' = Active(q) /\ Other(q)' = Other(q)
                 /\ HandsOver(q)' = HandsOver(q) /\ Leaves(q)' = Leaves(q)
  BY <1>4, CpuSame
<1>20. /\ Active("low")' = Active("low") /\ Other("low")' = Other("low")
       /\ Spot("low")'[1] = Active("low") /\ Spot("low")'[2] = 1
  <2>1. Active("low")' = Active("low") /\ Other("low")' = Other("low")
    <3>1. idx' = idx
      BY <1>4, CpuSame
    <3> QED
      BY <3>1 DEF Active, Other
  <2>2. Spot("low")'[1] = Active("low")
    BY <1>11
  <2>3. Spot("low")'[2] = 1
    BY <1>11
  <2> QED
    BY <2>1, <2>2, <2>3
<1>13. D[Active("low")][1] = done["low"]
  <2>1. D[b][k + 1] = D[b][k] /\ D[b][k] = done["low"]
    BY <1>1, <1>2, NextCount, LowSpot DEF Queue
  <2>2. D[b][Len(buf[b]) + 1] = D[Active("low")][1]
    BY <1>3, <1>4 DEF Queue, Counts
  <2> QED
    BY <1>3, <2>1, <2>2
<1>14. Stands(D, "low")'
  <2>1. Len(buf[Active("low")]) \in Nat
    BY <1>7, SomeLength DEF Types
  <2>2. 1 \in 1 .. (Len(buf[Active("low")]) + 1)
    BY ONLY <2>1
  <2>3. done["low"] \in Nat
    BY <1>4
  <2>4. D[Active("low")][1] = done'["low"] + 0
    BY <1>6, <1>13, <2>3
  <2>5. (IF "low" = "low" /\ InBody THEN 1 ELSE 0)' = 0
    BY <1>10
  <2> QED
    BY <1>12, <1>20, <2>2, <2>4, <2>5, <1>7 DEF Stands
<1>15. LowHalf(D)'
  <2>1. Signalled("low")'
    BY <1>6 DEF Signalled, Bufdone, Signal
  <2>2. ~ Moving("low", "switch")
    <3>1. ~ Signalled("low")
      BY <1>3, <1>7, LowSpot
    <3> QED
      BY <3>1 DEF Signalled
  <2>3. Spot("low")'[1] = Active("low")' /\ Spot("low")'[1] # Other("low")'
    BY <1>7, <1>20
  <2> QED
    BY <1>10, <1>12, <1>14, <2>1, <2>2, <2>3 DEF LowHalf
<1>16. done'["high"] = done["high"]
  BY <1>6
<1> QED
  BY <1>6, <1>8, <1>9, <1>10, <1>15, <1>16, LowFrame

(* The block.                                                              *)
LEMMA BlockStep ==
  ASSUME NEW D, Types, Queue(D), RspExecute, cmd # EnterHigh, at[1] = Block
  PROVE  /\ Queue(D)'
         /\ done' = IF cmd.op = "BODY" THEN [done EXCEPT !["low"] = @ + 1] ELSE done
         /\ cmd.op = "BODY" => /\ D[Spot("low")[1]][Spot("low")[2]] = done["low"] + 1
                               /\ Spot("low")[2] > 1
                               /\ buf[Spot("low")[1]][Spot("low")[2] - 1].op = "CALL"
<1>1. /\ SameCpu /\ done \in [Queues -> Nat] /\ "low" \in Queues /\ "high" \in Queues
      /\ stack \in [Slots -> Places] /\ "high" \in Slots /\ rpc = "execute"
  BY Effects DEF Types, Queues, Slots
<1>2. /\ ~ High /\ InBlock /\ Place("low") = Here /\ (InBody <=> Here[2] = 1)
      /\ \/ Here[2] = 1 /\ cmd = Body /\ at = <<Block, 2>>
         \/ Here[2] = 2 /\ cmd = Ret
  BY <1>1, InFlightBlock
<1>3. LowHalf(D)
  BY Halves DEF Queue
<1>4. Spot("low") = stack["block"]
  BY <1>2 DEF Spot
<1>5. Stands(D, "low")
  BY <1>3 DEF LowHalf
<1>6. /\ buf' = buf
      /\ \A q, s : Moving(q, s)' <=> Moving(q, s)
      /\ \A q : /\ Active(q)' = Active(q) /\ Other(q)' = Other(q)
                /\ HandsOver(q)' = HandsOver(q) /\ Leaves(q)' = Leaves(q)
  BY <1>1, CpuSame
<1>7. /\ stack["block"][1] \in {Active("low"), Other("low")}
      /\ stack["block"][1] \in Buffers /\ stack["block"][1][1] = "low"
  BY <1>1, <1>4, TheSpot, TheBuffers DEF Queue, Types
<1>8. ~ (Spot("low")[1] = Other("low") /\ After("low", HandsOver("low")))
  BY <1>2, <1>3 DEF LowHalf
<1>9. ASSUME stack' = stack, status' = status, done'["high"] = done["high"],
             Spot("low")' = Spot("low"), ~ InBody', InBlock' => Place("low")'[2] \in {1, 2},
             at'[1] \notin {Active("high"), Other("high")}, ~ High',
             D[Spot("low")[1]][Spot("low")[2]] = done'["low"]
      PROVE  Queue(D)'
  <2>1. /\ Signalled("low")' <=> Signalled("low")
        /\ (Bufdone("low") \in status)' <=> Bufdone("low") \in status
    BY <1>6, <1>9 DEF Signalled, Bufdone
  <2>2. After("low", HandsOver("low"))' <=> After("low", HandsOver("low"))
    BY <1>6, <1>9 DEF After
  <2>3. Stands(D, "low")'
    <3>1. done'["low"] \in Nat
      <4>1. D \in Numbers /\ Spot("low")[2] \in Nat /\ Spot("low")[1] \in Buffers
        BY <1>1, <1>4, <1>7, TheSpot DEF Queue, Counts
      <4> QED
        BY <1>9, <4>1 DEF Numbers
    <3>2. (IF "low" = "low" /\ InBody THEN 1 ELSE 0)' = 0
      BY <1>9
    <3>3. D[Spot("low")[1]][Spot("low")[2]] = done'["low"] + 0
      BY <1>9, <3>1
    <3> QED
      BY <1>5, <1>6, <1>9, <3>2, <3>3 DEF Stands
  <2>4. LowHalf(D)'
    BY <1>3, <1>6, <1>8, <1>9, <2>1, <2>2, <2>3 DEF LowHalf
  <2>5. (Requested' <=> Requested) /\ ("BUFDONE_HIGH" \in status' <=> "BUFDONE_HIGH" \in status)
    BY <1>9 DEF Requested
  <2> QED
    BY <1>2, <1>9, <2>4, <2>5, LowFrame
<1>10. CASE Here[2] = 1 /\ cmd = Body /\ at = <<Block, 2>>
  <2>1. /\ done' = [done EXCEPT !["low"] = @ + 1] /\ status' = status /\ stack' = stack /\ at' = at
        /\ cmd.op = "BODY"
    BY <1>10, Effects, CommandFields
  <2>2. at'[1] \notin {Active("high"), Other("high")}
    BY <1>10, <2>1, LowPlaces
  <2>3. ~ High' /\ Place("low")' = <<Block, 2>>
    BY <1>2, <1>10, <2>1, <2>2, LowSame
  <2>4. InBlock' /\ ~ InBody' /\ Place("low")'[2] \in {1, 2}
    <3>1. <<Block, 2>> # <<Block, 1>>
      OBVIOUS
    <3> QED
      BY <2>3, <3>1 DEF InBlock, InBody
  <2>5. Spot("low")' = Spot("low")
    BY <1>4, <2>1, <2>4 DEF Spot
  <2>6. D[Spot("low")[1]][Spot("low")[2]] = done["low"] + 1
    <3>1. (IF "low" = "low" /\ InBody THEN 1 ELSE 0) = 1
      BY <1>2, <1>10
    <3> QED
      BY <1>5, <3>1 DEF Stands
  <2>7. done'["low"] = done["low"] + 1 /\ done'["high"] = done["high"]
    BY <1>1, <2>1
  <2>8. Queue(D)'
    BY <1>9, <2>1, <2>2, <2>3, <2>4, <2>5, <2>6, <2>7
  <2>9. InBody
    BY <1>2, <1>10
  <2> QED
    BY <1>3, <2>1, <2>6, <2>8, <2>9 DEF LowHalf
<1>11. CASE Here[2] = 2 /\ cmd = Ret
  <2>1. done' = done /\ status' = status /\ stack' = stack /\ at' = stack["block"] /\ cmd.op = "RET"
    BY <1>11, Effects, CommandFields
  <2>2. at'[1] \notin {Active("high"), Other("high")}
    BY <1>7, <2>1, LowPlaces
  <2>3. ~ High' /\ Place("low")' = stack["block"]
    BY <1>2, <2>1, <2>2, LowSame
  <2>4. ~ InBlock' /\ ~ InBody'
    <3>1. stack["block"][1] # Block
      BY <1>7, TheBuffers DEF Types
    <3>2. <<Block, 1>>[1] = Block
      OBVIOUS
    <3>3. stack["block"] # <<Block, 1>>
      BY <3>1, <3>2
    <3> QED
      BY <2>3, <3>1, <3>3 DEF InBlock, InBody
  <2>5. Spot("low")' = Spot("low")
    BY <1>4, <2>3, <2>4 DEF Spot
  <2>6. D[Spot("low")[1]][Spot("low")[2]] = done["low"]
    <3>1. ~ InBody
      BY <1>2, <1>11
    <3>2. (IF "low" = "low" /\ InBody THEN 1 ELSE 0) = 0
      BY <3>1
    <3>3. done["low"] \in Nat
      BY <1>1
    <3>4. D[Spot("low")[1]][Spot("low")[2]]
            = done["low"] + IF "low" = "low" /\ InBody THEN 1 ELSE 0
      BY <1>5 DEF Stands
    <3> QED
      BY <3>2, <3>3, <3>4
  <2>7. Queue(D)'
    BY <1>9, <2>1, <2>2, <2>3, <2>4, <2>5, <2>6
  <2>8. cmd.op # "BODY"
    BY <2>1
  <2> QED
    BY <2>1, <2>7, <2>8
<1> QED
  BY <1>2, <1>10, <1>11

LEMMA LowExecute ==
  ASSUME NEW D, Types, Queue(D), RspExecute, ~ High, cmd # EnterHigh
  PROVE  Queue(D)'
<1>1. CASE at[1] = Block
  BY <1>1, BlockStep
<1>2. CASE at[1] # Block
  <2>1. PICK b \in Buffers, k \in Nat \ {0} : Flight(D, b, k)
    BY <1>2, Effects, InFlight
  <2>2. LowItem(b, k)
    BY <2>1, LowFlight
  <2>3. \/ Numbered(buf[b][k])
        \/ buf[b][k] = HandsOver("low")
        \/ buf[b][k] = Leaves("low")
    BY <2>2 DEF LowItem
  <2> QED
    BY <2>1, <2>3, LowCommand, LowWord, LowTurn
<1> QED
  BY <1>1, <1>2

(* A step in the high queue.                                               *)
LEMMA HighSpot ==
  ASSUME NEW D, NEW b, NEW k, Flight(D, b, k), Types, Queue(D), High
  PROVE  /\ Place("high") = <<b, k>> /\ Spot("high") = <<b, k>>
         /\ b \in {Active("high"), Other("high")} /\ D[b][k] = done["high"]
         /\ b = Active("high") => Signalled("high")
         /\ b = Other("high") /\ buf[b][k] # Leaves("high") => ~ Signalled("high")
         /\ b = Other("high") /\ k > 1 /\ buf[b][k - 1] = HandsOver("high") => Signalled("high")
         /\ Active("high") # Other("high")
<1>1. Place("high") = <<b, k>> /\ Spot("high") = <<b, k>>
  BY ReadPlace DEF Flight, Queue
<1>2. HighHalf(D)
  BY Halves DEF Queue
<1>3. b \in {Active("high"), Other("high")} /\ D[b][k] = done["high"]
  <2>1. Stands(D, "high")
    BY <1>2 DEF HighHalf
  <2>2. /\ Spot("high")[1] \in {Active("high"), Other("high")}
        /\ D[Spot("high")[1]][Spot("high")[2]]
             = done["high"] + IF "high" = "low" /\ InBody THEN 1 ELSE 0
    BY <2>1 DEF Stands
  <2>3. (IF "high" = "low" /\ InBody THEN 1 ELSE 0) = 0
    OBVIOUS
  <2>4. done["high"] \in Nat
    BY DEF Types, Queues
  <2> QED
    BY <1>1, <2>2, <2>3, <2>4
<1>4. After("high", HandsOver("high")) <=> k > 1 /\ buf[b][k - 1] = HandsOver("high")
  BY <1>1 DEF After
<1>5. ASSUME b = Other("high"), buf[b][k] # Leaves("high") PROVE ~ Signalled("high")
  <2> SUFFICES ASSUME k > 1, buf[b][k - 1] = HandsOver("high") PROVE FALSE
    BY <1>1, <1>2, <1>4, <1>5 DEF HighHalf
  <2>1. /\ k - 1 \in 1 .. Len(buf[b]) /\ k - 1 # Len(buf[b])
        /\ (k - 1 = Len(buf[b]) - 1 => (k - 1) + 1 = k) /\ (k - 1) + 1 = k
    <3>1. k \in Nat /\ k \in 1 .. Len(buf[b]) /\ Len(buf[b]) \in Nat /\ k > 1
      BY DEF Flight
    <3> QED
      BY ONLY <3>1
  <2>2. b[1] = "high" /\ b \in Buffers
    BY DEF Flight
  <2>3. HighItem(D, b, k - 1)
    <3>1. ~ (b[1] = "low")
      BY <2>2
    <3> QED
      BY <2>1, <2>2, <3>1 DEF Queue, Items
  <2>4. /\ HandsOver("high") = Handover /\ Leaves("high") # Handover
        /\ ~ Numbered(Handover) /\ Handover # Opening /\ \A q : Handover # Jump(q)
        /\ Handover # LeaveHigh
    BY Unlike DEF HandsOver, Leaves
  <2> QED
    BY <1>5, <2>1, <2>3, <2>4 DEF HighItem
<1>6. Active("high") # Other("high")
  BY TheBuffers DEF Types
<1> QED
  BY <1>1, <1>2, <1>3, <1>4, <1>5, <1>6 DEF HighHalf

LEMMA HighFrame ==
  ASSUME NEW D, Types, Queue(D), RspExecute, High, High', cmd # EnterHigh, stack' = stack,
         done'["low"] = done["low"], "BUFDONE_LOW" \in status' <=> "BUFDONE_LOW" \in status,
         Requested' => Requested, HighHalf(D)', Requests',
         at'[1] \in {Active("high"), Other("high")}
  PROVE  Queue(D)'
<1>1. SameCpu
  BY Effects
<1>2. Place("low")' = Place("low")
  BY DEF Place
<1>3. LowHalf(D)'
  <2>1. LowHalf(D)
    BY Halves DEF Queue
  <2> QED
    BY <1>1, <1>2, <2>1, LowHalfKept
<1>4. Reading'
  BY <1>1, CpuSame DEF Reading
<1>5. Stand(D)' /\ Handshake'
  BY <1>3, <1>4, HalvesNext
<1>6. Counts(D)' /\ Items(D)' /\ Tails' /\ Epilogue'
  BY <1>1, BuffersKept
<1> QED
  BY <1>5, <1>6, AdvanceCopy DEF Queue

(* The RSP goes on behind a command of the high queue, or behind the one   *)
(* that follows it.                                                        *)
HighAhead(b, k, l) ==
  /\ High /\ High' /\ l \in Nat \ {0} /\ l \in 1 .. Len(buf[b]) /\ at' = <<b, l + 1>>
  /\ (l = k) \/ (l = k + 1 /\ buf[b][k + 1] # Opening)
  /\ (Requested' => Requested) /\ (buf[b][k] = Opening => ~ Requested')
  /\ buf[b][k] # Leaves("high") /\ buf[b][l] # Leaves("high")
  /\ buf[b][l] = HandsOver("high") => b = Other("high") /\ "BUFDONE_HIGH" \in status'
  /\ buf[b][l] # HandsOver("high") => ("BUFDONE_HIGH" \in status' <=> "BUFDONE_HIGH" \in status)
  /\ buf[b][l] = LeaveHigh => Phase = "patch swap"
  /\ rpc' = "fetch" \/ (l = k /\ cmd.op # "JUMP" /\ snap' = snap)

(* What that does to the buffers of the high queue.                        *)
HighPast(b, k, l) ==
  /\ High /\ l \in Nat \ {0} /\ l \in 1 .. Len(buf[b]) /\ Spot("high")' = <<b, l + 1>>
  /\ buf[b][k] # Leaves("high") /\ buf[b][l] # Leaves("high")
  /\ buf[b][l] = HandsOver("high") => b = Other("high") /\ "BUFDONE_HIGH" \in status' /\ High'
  /\ buf[b][l] # HandsOver("high") => ("BUFDONE_HIGH" \in status' <=> "BUFDONE_HIGH" \in status)

LEMMA HighPlaced ==
  ASSUME NEW D, NEW b, NEW k, Flight(D, b, k), Types, Queue(D), RspExecute,
         NEW l, HighPast(b, k, l), D[b][l + 1] = done'["high"]
  PROVE  HighHalf(D)'
<1>1. /\ buf' = buf /\ idx' = idx
      /\ \A q, s : Moving(q, s)' <=> Moving(q, s)
      /\ \A q : /\ Active(q)' = Active(q) /\ Other(q)' = Other(q)
                /\ HandsOver(q)' = HandsOver(q) /\ Leaves(q)' = Leaves(q)
  BY CpuSame, Effects
<1>2. Active("high")' = Active("high") /\ Other("high")' = Other("high")
  BY <1>1 DEF Active, Other
<1>3. Spot("high")' = <<b, l + 1>> /\ Spot("high")'[1] = b /\ Spot("high")'[2] = l + 1
  <2>1. Spot("high")' = <<b, l + 1>>
    BY DEF HighPast
  <2>2. Spot("high")'[1] = b
    BY <2>1
  <2>3. Spot("high")'[2] = l + 1
    BY <2>1
  <2> QED
    BY <2>1, <2>2, <2>3
<1>4. /\ b \in {Active("high"), Other("high")} /\ Active("high") # Other("high")
      /\ b = Active("high") => Signalled("high")
      /\ b = Other("high") => ~ Signalled("high")
      /\ b \in Buffers
  BY HighSpot DEF HighPast, Flight
<1>5. /\ l \in 1 .. Len(buf[b]) /\ l + 1 \in 1 .. (Len(buf[b]) + 1) /\ l + 1 > 1 /\ (l + 1) - 1 = l
      /\ l \in Nat /\ Len(buf[b]) \in Nat
  <2>1. l \in Nat \ {0} /\ l \in 1 .. Len(buf[b]) /\ Len(buf[b]) \in Nat
    BY DEF HighPast, Flight
  <2> QED
    BY <2>1, ItsPlace
<1>6. b = Other("high") =>
        l + 1 <= Len(buf[b]) \/ Moving("high", "hand off") \/ Moving("high", "leave")
  <2> SUFFICES ASSUME b = Other("high"), ~ Moving("high", "hand off"), ~ Moving("high", "leave")
               PROVE  l + 1 <= Len(buf[b])
    OBVIOUS
  <2>1. l # Len(buf[b])
    BY <1>5, LastLeaves DEF Queues, HighPast
  <2> QED
    BY <1>5, <2>1, NotLast
<1>7. Stands(D, "high")'
  <2>1. done'["high"] \in Nat
    <3>1. D \in Numbers
      BY DEF Queue, Counts
    <3>2. l + 1 \in Nat
      BY <1>5
    <3> QED
      BY <1>4, <3>1, <3>2 DEF Numbers
  <2>2. D[b][l + 1] = done'["high"] + 0
    BY <2>1
  <2>3. (IF "high" = "low" /\ InBody THEN 1 ELSE 0)' = 0
    OBVIOUS
  <2> QED
    BY <1>1, <1>2, <1>3, <1>4, <1>5, <1>6, <2>2, <2>3 DEF Stands
<1>8. After("high", HandsOver("high"))' <=> buf[b][l] = HandsOver("high")
  BY <1>1, <1>3, <1>5 DEF After
<1>9. Signalled("high") /\ b = Active("high") => Signalled("high")'
  BY <1>1, <1>4 DEF HighPast, Signalled, Bufdone
<1>10. b = Other("high") => (Signalled("high")' <=> buf[b][l] = HandsOver("high"))
  BY <1>1, <1>4 DEF HighPast, Signalled, Bufdone
<1>11. (Moving("high", "switch") => Bufdone("high") \notin status)'
  <2>1. HighHalf(D)
    BY Halves DEF Queue
  <2>2. CASE buf[b][l] = HandsOver("high")
    <3>1. ~ Signalled("high")
      BY <1>4, <2>2 DEF HighPast
    <3> QED
      BY <1>1, <3>1 DEF Signalled
  <2>3. CASE buf[b][l] # HandsOver("high")
    BY <1>1, <2>1, <2>3 DEF HighHalf, HighPast, Bufdone
  <2> QED
    BY <2>2, <2>3
<1> QED
  BY <1>2, <1>3, <1>4, <1>7, <1>8, <1>9, <1>10, <1>11 DEF HighHalf, HighPast

LEMMA FurtherOn ==
  ASSUME NEW k \in Nat \ {0}, NEW l \in Nat \ {0}, NEW m \in Nat, NEW j \in k .. m,
         (l = k) \/ (l = k + 1 /\ j # k + 1), j # k
  PROVE  j \in (l + 1) .. m
  OBVIOUS

LEMMA AheadPast ==
  ASSUME NEW D, NEW b, NEW k, Flight(D, b, k), Types, Queue(D), RspExecute, High,
         NEW l \in Nat \ {0}, Spot("high")' = <<b, l + 1>>, Requested, Phase # "prolog",
         buf[b][k] # Opening, (l = k) \/ (l = k + 1 /\ buf[b][k + 1] # Opening)
  PROVE  Ahead'
<1>1. /\ buf' = buf /\ idx' = idx
  BY CpuSame, Effects
<1>2. Active("high")' = Active("high") /\ Other("high")' = Other("high")
  BY <1>1 DEF Active, Other
<1>3. Spot("high")'[1] = b /\ Spot("high")'[2] = l + 1
  OBVIOUS
<1>4. Spot("high")[1] = b /\ Spot("high")[2] = k
  <2>1. Spot("high") = <<b, k>>
    BY HighSpot
  <2> QED
    BY <2>1
<1>5. /\ k \in Nat \ {0} /\ Len(buf[b]) \in Nat
  BY DEF Flight
<1>6. Ahead
  BY DEF Queue, Requests
<1>7. CASE \E j \in k .. Len(buf[b]) : buf[b][j] = Opening
  <2>1. PICK j \in k .. Len(buf[b]) : buf[b][j] = Opening
    BY <1>7
  <2>2. j # k /\ ((l = k) \/ (l = k + 1 /\ j # k + 1))
    BY <2>1
  <2>3. j \in (l + 1) .. Len(buf[b])
    BY <1>5, <2>2, FurtherOn
  <2> QED
    BY <1>1, <1>3, <2>1, <2>3 DEF Ahead
<1>8. CASE /\ b = Other("high")
           /\ \E j \in 1 .. Len(buf[Active("high")]) : buf[Active("high")][j] = Opening
  BY <1>1, <1>2, <1>3, <1>8 DEF Ahead
<1> QED
  BY <1>4, <1>6, <1>7, <1>8 DEF Ahead

LEMMA HighRequests ==
  ASSUME NEW D, NEW b, NEW k, Flight(D, b, k), Types, Queue(D), RspExecute, cmd # EnterHigh,
         NEW l, HighAhead(b, k, l)
  PROVE  Requests'
<1>1. /\ buf' = buf /\ idx' = idx /\ Phase' = Phase
  BY CpuSame, Effects
<1>2. Active("high")' = Active("high") /\ Other("high")' = Other("high")
  BY <1>1 DEF Active, Other
<1>3. Spot("high")' = <<b, l + 1>> /\ Spot("high")'[1] = b /\ Spot("high")'[2] = l + 1
  <2>1. Spot("high")' = at'
    BY Effects DEF Spot, Place, HighAhead
  <2>2. at' = <<b, l + 1>>
    BY DEF HighAhead
  <2>3. Spot("high")' = <<b, l + 1>>
    BY <2>1, <2>2
  <2>4. Spot("high")'[1] = b
    BY <2>3
  <2>5. Spot("high")'[2] = l + 1
    BY <2>3
  <2> QED
    BY <2>3, <2>4, <2>5
<1>5. /\ l \in Nat \ {0} /\ k \in Nat \ {0} /\ l \in Nat /\ Len(buf[b]) \in Nat
      /\ l \in 1 .. Len(buf[b]) /\ l + 1 > 1 /\ (l + 1) - 1 = l
  <2>1. l \in Nat \ {0} /\ l \in 1 .. Len(buf[b]) /\ Len(buf[b]) \in Nat /\ k \in Nat \ {0}
    BY DEF HighAhead, Flight
  <2> QED
    BY <2>1, ItsPlace
<1>6. Requested' /\ Phase # "prolog" => Ahead'
  <2> SUFFICES ASSUME Requested', Phase # "prolog" PROVE Ahead'
    OBVIOUS
  <2>1. /\ Requested /\ buf[b][k] # Opening /\ High
        /\ (l = k) \/ (l = k + 1 /\ buf[b][k + 1] # Opening)
    BY DEF HighAhead
  <2> QED
    BY <1>3, <1>5, <2>1, AheadPast
<1>7. (Phase # "patch swap" => ~ After("high", LeaveHigh))'
  <2> SUFFICES ASSUME Phase # "patch swap" PROVE ~ After("high", LeaveHigh)'
    BY <1>1
  <2>1. buf[b][l] # LeaveHigh
    BY DEF HighAhead
  <2> QED
    BY <1>1, <1>3, <1>5, <2>1 DEF After
<1>8. ~ (rpc \in {"loop", "execute"} /\ Here[2] <= Len(snap) /\ snap[Here[2]] = LeaveHigh)'
  <2> SUFFICES ASSUME rpc' \in {"loop", "execute"}, Here'[2] <= Len(snap'), snap'[Here'[2]] = LeaveHigh
               PROVE  FALSE
    OBVIOUS
  <2>1. l = k /\ cmd.op # "JUMP" /\ snap' = snap
    BY DEF HighAhead
  <2>2. Here'[2] = k + 1
    <3>1. Here' = at' /\ at' = <<b, l + 1>>
      BY Effects DEF HighAhead
    <3>2. Here' = <<b, l + 1>>
      BY <3>1
    <3>3. Here'[2] = l + 1
      BY <3>2
    <3> QED
      BY <2>1, <3>3
  <2>3. k + 1 <= Len(snap) /\ snap[k + 1] = LeaveHigh
    BY <2>1, <2>2
  <2>4. k + 1 \in 1 .. Len(snap) /\ (k + 1) - 1 = k
    <3>1. Len(snap) \in Nat
      BY DEF Flight
    <3> QED
      BY ONLY <1>5, <2>3, <3>1
  <2>5. Copied(D, b, k + 1)
    <3>1. b # Block /\ at[1] = b /\ rpc = "execute"
      BY Effects, TheBuffers DEF Flight, Types
    <3> QED
      BY <2>4, <3>1 DEF Queue, Copy
  <2>6. snap[k].op = "JUMP"
    BY <2>3, <2>4, <2>5 DEF Copied
  <2> QED
    BY <2>1, <2>6 DEF Flight
<1> QED
  BY <1>1, <1>6, <1>7, <1>8 DEF Requests, HighAhead

LEMMA HighAdvance ==
  ASSUME NEW D, NEW b, NEW k, Flight(D, b, k), Types, Queue(D), RspExecute, cmd # EnterHigh,
         NEW l, HighAhead(b, k, l), D[b][l + 1] = done'["high"], stack' = stack,
         done'["low"] = done["low"], "BUFDONE_LOW" \in status' <=> "BUFDONE_LOW" \in status
  PROVE  Queue(D)'
<1>1. Requests'
  BY HighRequests
<1>2. High /\ High' /\ (Requested' => Requested) /\ at' = <<b, l + 1>>
  BY DEF HighAhead
<1>3. at'[1] \in {Active("high"), Other("high")}
  BY <1>2, HighSpot
<1>4. HighPast(b, k, l)
  <2>1. Spot("high")' = at'
    BY Effects DEF Spot, Place, HighAhead
  <2> QED
    BY <2>1 DEF HighPast, HighAhead
<1>5. HighHalf(D)'
  BY <1>4, HighPlaced
<1> QED
  BY <1>1, <1>2, <1>3, <1>5, HighFrame

(* What the commands of the high queue tell about their place.             *)
LEMMA NotFirst ==
  ASSUME NEW k \in Nat \ {0}
  PROVE  k + 1 # 1 /\ k + 2 # 1 /\ k + 1 # k + 2
  OBVIOUS

LEMMA HighJumps ==
  ASSUME NEW b, NEW k \in Nat \ {0}
  PROVE  /\ Jump(<<b, k + 1>>) # Leaves("high") /\ Jump(<<b, k + 2>>) # Leaves("high")
         /\ Jump(<<b, k + 1>>) # Jump(<<b, k + 2>>)
<1>1. /\ Jump(<<b, k + 1>>).to = <<b, k + 1>> /\ Jump(<<b, k + 2>>).to = <<b, k + 2>>
      /\ Leaves("high").to = <<Active("high"), 1>>
  BY CommandFields DEF Leaves
<1>2. <<b, k + 1>> # <<Active("high"), 1>> /\ <<b, k + 2>> # <<Active("high"), 1>>
      /\ <<b, k + 1>> # <<b, k + 2>>
  BY NotFirst
<1> QED
  BY <1>1, <1>2

LEMMA HighKinds ==
  ASSUME NEW D, NEW b, NEW k \in Nat \ {0}, HighItem(D, b, k)
  PROVE  /\ buf[b][k] = Handover => b = Other("high")
         /\ buf[b][k] = Leaves("high") => b = Other("high") /\ k = Len(buf[b])
         /\ buf[b][k] = Jump(<<b, k + 2>>) =>
              /\ k < Len(buf[b])
              /\ \/ buf[b][k + 1] = Jump(<<b, k + 2>>)
                 \/ buf[b][k + 1] = LeaveHigh /\ Phase = "patch swap"
<1>1. /\ \A q \in Queues : HandsOver(q) # Leaves(q)
      /\ \A p : LeaveHigh # Jump(p) /\ Opening # Jump(p) /\ Handover # Jump(p) /\ ~ Numbered(Jump(p))
      /\ LeaveHigh # Opening /\ LeaveHigh # Handover /\ Opening # Handover
      /\ ~ Numbered(LeaveHigh) /\ ~ Numbered(Opening) /\ ~ Numbered(Handover)
      /\ HandsOver("high") = Handover /\ Leaves("high") = Jump(<<Active("high"), 1>>)
  BY Unlike DEF HandsOver, Leaves
<1>2. /\ Jump(<<b, k + 1>>) # Leaves("high") /\ Jump(<<b, k + 2>>) # Leaves("high")
      /\ Jump(<<b, k + 1>>) # Jump(<<b, k + 2>>)
  BY HighJumps
<1>3. buf[b][k] = Handover => b = Other("high")
  BY <1>1 DEF HighItem
<1>4. buf[b][k] = Leaves("high") => b = Other("high") /\ k = Len(buf[b])
  BY <1>1, <1>2 DEF HighItem
<1>5. buf[b][k] = Jump(<<b, k + 2>>) =>
         /\ k < Len(buf[b])
         /\ \/ buf[b][k + 1] = Jump(<<b, k + 2>>)
            \/ buf[b][k + 1] = LeaveHigh /\ Phase = "patch swap"
  BY <1>1, <1>2 DEF HighItem
<1> QED
  BY <1>3, <1>4, <1>5

(* The commands that go on with the next one.                              *)
LEMMA HighCommand ==
  ASSUME NEW D, NEW b, NEW k, Flight(D, b, k), Types, Queue(D), High, RspExecute,
         cmd # EnterHigh, cmd = buf[b][k], Numbered(cmd), cmd = Cmd("high", cmd.n)
  PROVE  /\ Queue(D)' /\ done' = [done EXCEPT !["high"] = D[b][k + 1]]
         /\ D[b][k + 1] = done["high"] + 1
<1>1. /\ b \in Buffers /\ k \in Nat \ {0} /\ k \in Nat /\ k \in 1 .. Len(buf[b]) /\ at = <<b, k + 1>>
  BY DEF Flight
<1>2. D[b][k + 1] = D[b][k] + 1 /\ cmd.n = D[b][k + 1] /\ D[b][k] = done["high"]
  BY <1>1, NextCount, HighSpot DEF Queue
<1>3. done' = [done EXCEPT !["high"] = cmd.n] /\ status' = status /\ at' = at /\ snap' = snap
      /\ stack' = stack /\ cmd.op = "CMD" /\ rpc' = "loop"
  BY Effects, CommandFields
<1>4. /\ buf[b][k] # Leaves("high") /\ buf[b][k] # HandsOver("high")
      /\ buf[b][k] # LeaveHigh /\ buf[b][k] # Opening
  BY Unlike DEF Queues
<1>5. cmd.op # "JUMP"
  BY <1>3
<1>6. HighAhead(b, k, k)
  BY <1>1, <1>3, <1>4, <1>5 DEF HighAhead, High, Requested
<1>7. done \in [Queues -> Nat] /\ "high" \in Queues /\ "low" \in Queues
  BY DEF Types, Queues
<1>8. done'["high"] = D[b][k + 1] /\ done'["low"] = done["low"]
  BY <1>2, <1>3, <1>7
<1> QED
  BY <1>2, <1>3, <1>6, <1>8, HighAdvance

LEMMA HighOpening ==
  ASSUME NEW D, NEW b, NEW k, Flight(D, b, k), Types, Queue(D), High, RspExecute,
         cmd # EnterHigh, cmd = Opening, buf[b][k] = Opening
  PROVE  Queue(D)' /\ done' = done
<1>1. /\ b \in Buffers /\ k \in Nat \ {0} /\ k \in Nat /\ k \in 1 .. Len(buf[b]) /\ at = <<b, k + 1>>
  BY DEF Flight
<1>2. /\ buf[b][k] # Leaves("high") /\ buf[b][k] # HandsOver("high")
      /\ buf[b][k] # LeaveHigh /\ ~ Numbered(buf[b][k])
  BY Unlike DEF Queues, HandsOver, Leaves
<1>3. D[b][k + 1] = D[b][k] /\ D[b][k] = done["high"]
  BY <1>1, <1>2, NextCount, HighSpot DEF Queue
<1>4. /\ done' = done /\ at' = at /\ snap' = snap /\ stack' = stack /\ cmd.op = "STATUS"
      /\ rpc' = "loop"
      /\ status' = Signal({"HIGHPRI_REQUESTED"}, {"HIGHPRI_RUNNING"})
  BY Effects, CommandFields
<1>5. cmd.op # "JUMP"
  BY <1>4
<1>6. /\ High' /\ ~ Requested'
      /\ "BUFDONE_HIGH" \in status' <=> "BUFDONE_HIGH" \in status
      /\ "BUFDONE_LOW" \in status' <=> "BUFDONE_LOW" \in status
  BY <1>4 DEF High, Requested, Signal
<1>7. HighAhead(b, k, k)
  BY <1>1, <1>2, <1>4, <1>5, <1>6 DEF HighAhead
<1> QED
  BY <1>3, <1>4, <1>6, <1>7, HighAdvance

LEMMA HighHandover ==
  ASSUME NEW D, NEW b, NEW k, Flight(D, b, k), Types, Queue(D), High, RspExecute,
         cmd # EnterHigh, cmd = Handover, buf[b][k] = Handover
  PROVE  Queue(D)' /\ done' = done
<1>1. /\ b \in Buffers /\ k \in Nat \ {0} /\ k \in Nat /\ k \in 1 .. Len(buf[b]) /\ at = <<b, k + 1>>
  BY DEF Flight
<1>2. /\ buf[b][k] # Leaves("high") /\ buf[b][k] # Opening
      /\ buf[b][k] # LeaveHigh /\ ~ Numbered(buf[b][k])
  BY Unlike DEF Queues, HandsOver, Leaves
<1>3. D[b][k + 1] = D[b][k] /\ D[b][k] = done["high"]
  BY <1>1, <1>2, NextCount, HighSpot DEF Queue
<1>4. /\ done' = done /\ at' = at /\ snap' = snap /\ stack' = stack /\ cmd.op = "STATUS"
      /\ rpc' = "loop"
      /\ status' = Signal({}, {"BUFDONE_HIGH"})
  BY Effects, CommandFields
<1>5. cmd.op # "JUMP"
  BY <1>4
<1>6. /\ High' /\ (Requested' <=> Requested) /\ "BUFDONE_HIGH" \in status'
      /\ "BUFDONE_LOW" \in status' <=> "BUFDONE_LOW" \in status
  BY <1>4 DEF High, Requested, Signal
<1>7. b = Other("high")
  <2>1. HighItem(D, b, k)
    BY HighFlight
  <2> QED
    BY <1>1, <2>1, HighKinds
<1>8. buf[b][k] = HandsOver("high")
  BY DEF HandsOver
<1>9. HighAhead(b, k, k)
  BY <1>1, <1>2, <1>4, <1>5, <1>6, <1>7, <1>8 DEF HighAhead
<1> QED
  BY <1>3, <1>4, <1>6, <1>9, HighAdvance

LEMMA HighNext ==
  ASSUME NEW D, NEW b, NEW k, Flight(D, b, k), Types, Queue(D), High, RspExecute,
         cmd # EnterHigh, cmd = Jump(<<b, k + 1>>),
         buf[b][k] \in {Jump(<<b, k + 1>>), Jump(<<b, k + 2>>)}
  PROVE  Queue(D)' /\ done' = done
<1>1. /\ b \in Buffers /\ k \in Nat \ {0} /\ k \in Nat /\ k \in 1 .. Len(buf[b])
  BY DEF Flight
<1>2. /\ buf[b][k] # HandsOver("high") /\ buf[b][k] # Opening
      /\ buf[b][k] # LeaveHigh /\ ~ Numbered(buf[b][k])
  BY Unlike DEF HandsOver
<1>3. buf[b][k] # Leaves("high")
  BY <1>1, HighJumps
<1>4. D[b][k + 1] = D[b][k] /\ D[b][k] = done["high"]
  BY <1>1, <1>2, NextCount, HighSpot DEF Queue
<1>5. /\ done' = done /\ at' = <<b, k + 1>> /\ stack' = stack /\ status' = status
      /\ rpc' = "fetch"
  BY Effects, CommandFields
<1>6. HighAhead(b, k, k)
  BY <1>1, <1>2, <1>3, <1>5 DEF HighAhead, High, Requested
<1> QED
  BY <1>4, <1>5, <1>6, HighAdvance

LEMMA TwoOn ==
  ASSUME NEW k \in Nat \ {0}, NEW m \in Nat, k < m
  PROVE  k + 1 \in 1 .. m /\ (k + 1) + 1 = k + 2 /\ k + 1 \in Nat \ {0} /\ k + 1 \in Nat
  OBVIOUS

LEMMA HighSkip ==
  ASSUME NEW D, NEW b, NEW k, Flight(D, b, k), Types, Queue(D), High, RspExecute,
         cmd # EnterHigh, cmd = Jump(<<b, k + 2>>), buf[b][k] = Jump(<<b, k + 2>>)
  PROVE  Queue(D)' /\ done' = done
<1>1. /\ b \in Buffers /\ k \in Nat \ {0} /\ k \in Nat /\ k \in 1 .. Len(buf[b])
      /\ Len(buf[b]) \in Nat
  BY DEF Flight
<1>2. /\ k < Len(buf[b])
      /\ \/ buf[b][k + 1] = Jump(<<b, k + 2>>)
         \/ buf[b][k + 1] = LeaveHigh /\ Phase = "patch swap"
  <2>1. HighItem(D, b, k)
    BY HighFlight
  <2> QED
    BY <1>1, <2>1, HighKinds
<1>3. k + 1 \in 1 .. Len(buf[b]) /\ (k + 1) + 1 = k + 2 /\ k + 1 \in Nat \ {0} /\ k + 1 \in Nat
  BY <1>1, <1>2, TwoOn
<1>4. /\ buf[b][k] # Opening /\ ~ Numbered(buf[b][k])
      /\ buf[b][k + 1] # HandsOver("high") /\ buf[b][k + 1] # Opening
      /\ ~ Numbered(buf[b][k + 1])
      /\ buf[b][k + 1] = LeaveHigh => Phase = "patch swap"
  BY <1>2, Unlike DEF HandsOver
<1>5. /\ buf[b][k] # Leaves("high") /\ buf[b][k + 1] # Leaves("high")
  BY <1>1, <1>2, HighJumps, Unlike DEF Leaves
<1>6. D[b][(k + 1) + 1] = D[b][k] /\ D[b][k] = done["high"]
  <2>1. D[b][k + 1] = D[b][k]
    BY <1>1, <1>4, NextCount DEF Queue
  <2>3. D[b][k] = done["high"]
    BY HighSpot
  <2>2. D[b][(k + 1) + 1] = D[b][k + 1]
    BY <1>1, <1>3, <1>4, NextCount, ZenonT(60) DEF Queue
  <2> QED
    BY <2>1, <2>2, <2>3
<1>7. /\ done' = done /\ at' = <<b, k + 2>> /\ stack' = stack /\ status' = status
      /\ rpc' = "fetch"
  BY Effects, CommandFields
<1>8. at' = <<b, (k + 1) + 1>>
  BY <1>3, <1>7
<1>9. HighAhead(b, k, k + 1)
  BY <1>3, <1>4, <1>5, <1>7, <1>8 DEF HighAhead, High, Requested
<1> QED
  BY <1>6, <1>7, <1>9, HighAdvance

(* The jump to the other buffer.                                           *)
LEMMA HighTurn ==
  ASSUME NEW D, NEW b, NEW k, Flight(D, b, k), Types, Queue(D), High, RspExecute,
         cmd # EnterHigh, cmd = Leaves("high"), buf[b][k] = Leaves("high")
  PROVE  Queue(D)' /\ done' = done
<1>1. /\ b \in Buffers /\ k \in Nat \ {0} /\ k \in Nat /\ k \in 1 .. Len(buf[b])
      /\ Len(buf[b]) \in Nat
  BY DEF Flight
<1>2. HighItem(D, b, k)
  BY HighFlight
<1>3. b = Other("high") /\ k = Len(buf[b])
  BY <1>1, <1>2, HighKinds
<1>4. Signalled("high")
  <2>1. k > 1 /\ buf[b][k - 1] = HandsOver("high")
    <3>1. /\ \A p : LeaveHigh # Jump(p) /\ Opening # Jump(p) /\ ~ Numbered(Jump(p))
          /\ Leaves("high") = Jump(<<Active("high"), 1>>)
      BY Unlike DEF Leaves
    <3>2. /\ Jump(<<b, k + 1>>) # Leaves("high") /\ Jump(<<b, k + 2>>) # Leaves("high")
      BY <1>1, HighJumps
    <3>3. HandsOver("high") # Leaves("high")
      BY Unlike DEF Queues
    <3> QED
      BY <1>2, <3>1, <3>2, <3>3 DEF HighItem
  <2> QED
    BY <1>3, <2>1, HighSpot
<1>5. /\ ~ Numbered(buf[b][k]) /\ buf[b][k] # Opening
  BY Unlike DEF Queues, Leaves
<1>6. D[b][k + 1] = D[b][k]
  BY <1>1, <1>5, NextCount DEF Queue
<1>7. D[b][k] = done["high"]
  BY HighSpot
<1>8. D[Active("high")][1] = done["high"]
  <2>1. D[b][Len(buf[b]) + 1] = D[Active("high")][1]
    BY <1>3 DEF Queue, Counts, Queues
  <2> QED
    BY <1>3, <1>6, <1>7, <2>1
<1>9. /\ done' = done /\ at' = <<Active("high"), 1>> /\ stack' = stack /\ status' = status
      /\ rpc' = "fetch" /\ SameCpu
  <2>1. cmd.op = "JUMP" /\ cmd.to = <<Active("high"), 1>>
    BY CommandFields DEF Leaves
  <2> QED
    BY <2>1, Effects
<1>10. High' /\ (Requested' <=> Requested)
  BY <1>9 DEF High, Requested
<1>11. /\ buf' = buf /\ idx' = idx /\ Phase' = Phase
       /\ \A q, s : Moving(q, s)' <=> Moving(q, s)
  BY <1>9, CpuSame
<1>12. Active("high")' = Active("high") /\ Other("high")' = Other("high")
  BY <1>11 DEF Active, Other
<1>13. Spot("high")' = <<Active("high"), 1>>
  BY <1>9, <1>10, Effects DEF Spot, Place
<1>14. Spot("high")'[1] = Active("high") /\ Spot("high")'[2] = 1
  BY <1>13
<1>15. Active("high") \in Buffers /\ Active("high") # Other("high")
  BY TheBuffers DEF Types
<1>16. Stands(D, "high")'
  <2>1. Len(buf[Active("high")]) \in Nat
    BY <1>15, SomeLength DEF Types
  <2>2. 1 \in 1 .. (Len(buf[Active("high")]) + 1)
    BY ONLY <2>1
  <2>3. done["high"] \in Nat
    BY DEF Types, Queues
  <2>4. D[Active("high")][1] = done'["high"] + 0
    BY <1>8, <1>9, <2>3
  <2>5. (IF "high" = "low" /\ InBody THEN 1 ELSE 0)' = 0
    OBVIOUS
  <2> QED
    BY <1>11, <1>12, <1>14, <1>15, <2>2, <2>4, <2>5 DEF Stands
<1>17. HighHalf(D)'
  <2>1. Signalled("high")'
    BY <1>4, <1>9, <1>11 DEF Signalled, Bufdone
  <2>2. (Moving("high", "switch") => Bufdone("high") \notin status)'
    <3>1. HighHalf(D)
      BY Halves DEF Queue
    <3> QED
      BY <1>9, <1>11, <3>1 DEF HighHalf, Bufdone
  <2>3. Spot("high")'[1] # Other("high")'
    BY <1>12, <1>14, <1>15
  <2> QED
    BY <1>16, <2>1, <2>2, <2>3 DEF HighHalf
<1>18. Requested' /\ Phase # "prolog" => Ahead'
  <2> SUFFICES ASSUME Requested', Phase # "prolog" PROVE Ahead'
    OBVIOUS
  <2>1. Ahead
    BY <1>10 DEF Queue, Requests
  <2>2. Spot("high")[1] = b /\ Spot("high")[2] = k
    <3>1. Spot("high") = <<b, k>>
      BY HighSpot
    <3> QED
      BY <3>1
  <2>3. ~ \E j \in k .. Len(buf[b]) : buf[b][j] = Opening
    <3>1. \A j \in k .. Len(buf[b]) : j = k
      <4>1. k = Len(buf[b]) /\ k \in Nat
        BY <1>1, <1>3
      <4>2. \A n \in Nat : \A j \in n .. n : j = n
        OBVIOUS
      <4> QED
        BY <4>1, <4>2
    <3> QED
      BY <1>5, <3>1
  <2>4. PICK j \in 1 .. Len(buf[Active("high")]) : buf[Active("high")][j] = Opening
    BY <2>1, <2>2, <2>3 DEF Ahead
  <2> QED
    BY <1>11, <1>14, <2>4 DEF Ahead
<1>19. Requests'
  <2>1. ~ After("high", LeaveHigh)'
    <3>1. ~ (1 > 1)
      OBVIOUS
    <3> QED
      BY <1>14, <3>1 DEF After
  <2> QED
    BY <1>9, <1>10, <1>11, <1>18, <2>1 DEF Requests
<1> QED
  BY <1>9, <1>10, <1>17, <1>19, HighFrame

(* The return to the low queue.                                            *)
LEMMA HighLeave ==
  ASSUME NEW D, NEW b, NEW k, Flight(D, b, k), Types, Queue(D), High, RspExecute,
         cmd # EnterHigh, cmd = LeaveHigh, buf[b][k] \in {LeaveHigh, Jump(<<b, k + 1>>)}
  PROVE  Queue(D)' /\ done' = done /\ done["high"] \in ends /\ ~ High'
<1>1. /\ b \in Buffers /\ k \in Nat \ {0} /\ k \in Nat /\ k \in 1 .. Len(buf[b])
      /\ Len(buf[b]) \in Nat /\ at = <<b, k + 1>>
  BY DEF Flight
<1>2. HighItem(D, b, k)
  BY HighFlight
<1>3. /\ ~ Numbered(buf[b][k]) /\ buf[b][k] # Opening /\ buf[b][k] # HandsOver("high")
  BY Unlike DEF HandsOver
<1>4. buf[b][k] # Leaves("high")
  BY <1>1, HighJumps, Unlike DEF Leaves
<1>5. D[b][k + 1] = D[b][k]
  BY <1>1, <1>3, NextCount DEF Queue
<1>6. D[b][k] = done["high"] /\ Spot("high") = <<b, k>>
  BY HighSpot
<1>7. D[b][k] \in ends
  BY DEF Flight, Copied
<1>8. /\ done' = done /\ at' = stack["low"] /\ stack' = [stack EXCEPT !["high"] = at]
      /\ status' = Signal({"HIGHPRI_RUNNING"}, {}) /\ rpc' = "fetch" /\ SameCpu
      /\ rpc = "execute"
  BY Effects, CommandFields
<1>9. /\ ~ High' /\ (Requested' <=> Requested)
      /\ "BUFDONE_HIGH" \in status' <=> "BUFDONE_HIGH" \in status
      /\ "BUFDONE_LOW" \in status' <=> "BUFDONE_LOW" \in status
  BY <1>8 DEF High, Requested, Signal
<1>10. /\ stack'["high"] = <<b, k + 1>> /\ stack'["low"] = stack["low"]
       /\ stack'["block"] = stack["block"]
  BY <1>1, <1>8 DEF Types, Slots
<1>11. Place("low")' = Place("low") /\ Place("low") = stack["low"]
  BY <1>8, <1>9, Effects DEF Place
<1>12. Place("high")' = <<b, k + 1>> /\ Spot("high")' = <<b, k + 1>>
  BY <1>9, <1>10 DEF Place, Spot
<1>13. LowHalf(D)'
  <2>1. LowHalf(D) /\ done'["low"] = done["low"]
    BY <1>8, Halves DEF Queue
  <2> QED
    BY <1>8, <1>9, <1>10, <1>11, <2>1, LowHalfKept
<1>14. HighHalf(D)'
  <2>1. HighPast(b, k, k)
    BY <1>1, <1>3, <1>4, <1>9, <1>12 DEF HighPast
  <2>2. D[b][k + 1] = done'["high"]
    BY <1>5, <1>6, <1>8
  <2> QED
    BY <2>1, <2>2, HighPlaced
<1>15. Reading'
  <2>1. at'[1] = Block \/ at'[1][1] = "low"
    <3>1. CASE InBlock
      BY <1>8, <1>11, <3>1 DEF InBlock
    <3>2. CASE ~ InBlock
      <4>1. Spot("low") = stack["low"]
        BY <1>11, <3>2 DEF Spot
      <4>2. Spot("low")[1] \in {Active("low"), Other("low")}
        BY TheSpot DEF Queue, Queues
      <4>3. Active("low")[1] = "low" /\ Other("low")[1] = "low"
        BY TheBuffers DEF Types
      <4> QED
        BY <1>8, <4>1, <4>2, <4>3
    <3> QED
      BY <3>1, <3>2
  <2>2. at'[1] \notin {Active("high"), Other("high")}
    BY <2>1, LowPlaces
  <2>3. Active("high")' = Active("high") /\ Other("high")' = Other("high")
    <3>1. idx' = idx
      BY <1>8, CpuSame
    <3> QED
      BY <3>1 DEF Active, Other
  <2> QED
    BY <1>9, <2>2, <2>3 DEF Reading
<1>16. Stand(D)' /\ Handshake'
  BY <1>13, <1>14, <1>15, HalvesNext
<1>17. Counts(D)' /\ Items(D)' /\ Tails' /\ Epilogue'
  BY <1>8, <1>9, BuffersKept
<1>18. Phase' = Phase /\ (Closed' <=> Closed) /\ Cursor("high")' = Cursor("high")
  BY <1>8, CpuSame
<1>19. Requested' => Phase = "prolog" \/ Ahead'
  BY <1>1, <1>3, <1>9, <1>12, AheadPast
<1>20. ~ Requested => Place("high")' = Cursor("high") /\ (Closed \/ Phase = "request")
  <2> SUFFICES ASSUME ~ Requested
               PROVE  Place("high")' = Cursor("high") /\ (Closed \/ Phase = "request")
    OBVIOUS
  <2>1. Here[2] = k /\ Here[1] = b /\ k <= Len(snap) /\ snap[k] = LeaveHigh
    <3>1. Here[2] = k /\ Here[1] = b /\ k \in 1 .. Len(snap) /\ Len(snap) \in Nat /\ snap[k] = LeaveHigh
      BY DEF Flight
    <3>2. k <= Len(snap)
      BY ONLY <3>1
    <3> QED
      BY <3>1, <3>2
  <2>2. \/ buf[b][k] = LeaveHigh
        \/ Phase = "request" /\ b = Active("high") /\ k = Len(buf[b])
    BY <1>8, <2>1 DEF Queue, Requests
  <2>3. b = Active("high") /\ k = Len(buf[b]) /\ (Closed \/ Phase = "request")
    <3>1. CASE buf[b][k] = LeaveHigh
      <4>1. k = Len(buf[b]) /\ Closed
        BY <1>1, <1>2, <3>1, LeavingAt
      <4>2. b = Active("high")
        BY <1>2, <3>1, LeavingActive
      <4> QED
        BY <4>1, <4>2
    <3>2. CASE Phase = "request" /\ b = Active("high") /\ k = Len(buf[b])
      BY <3>2
    <3> QED
      BY <2>2, <3>1, <3>2
  <2> QED
    BY <1>12, <2>3 DEF Cursor
<1>21. Requests'
  BY <1>8, <1>9, <1>18, <1>19, <1>20 DEF Requests
<1>22. Copy(D)'
  BY AdvanceCopy
<1> QED
  BY <1>6, <1>7, <1>8, <1>9, <1>16, <1>17, <1>21, <1>22 DEF Queue

LEMMA HighExecute ==
  ASSUME NEW D, Types, Queue(D), RspExecute, High, cmd # EnterHigh
  PROVE  Queue(D)'
<1>1. at[1] # Block
  BY ReadPlace DEF Queue
<1>2. PICK b \in Buffers, k \in Nat \ {0} : Flight(D, b, k)
  BY <1>1, Effects, InFlight
<1>3. \/ cmd = buf[b][k] /\ Numbered(cmd) /\ cmd = Cmd("high", cmd.n)
      \/ cmd = Opening /\ buf[b][k] = Opening
      \/ cmd = Handover /\ buf[b][k] = Handover
      \/ cmd = Jump(<<b, k + 1>>) /\ buf[b][k] \in {Jump(<<b, k + 1>>), Jump(<<b, k + 2>>)}
      \/ cmd = Jump(<<b, k + 2>>) /\ buf[b][k] = Jump(<<b, k + 2>>)
      \/ cmd = Leaves("high") /\ buf[b][k] = Leaves("high")
      \/ cmd = LeaveHigh /\ buf[b][k] \in {LeaveHigh, Jump(<<b, k + 1>>)}
  BY <1>2, HighFlight
<1>4. CASE cmd = buf[b][k] /\ Numbered(cmd) /\ cmd = Cmd("high", cmd.n)
  BY <1>2, <1>4, HighCommand
<1>5. CASE cmd = Opening /\ buf[b][k] = Opening
  BY <1>2, <1>5, HighOpening
<1>6. CASE cmd = Handover /\ buf[b][k] = Handover
  BY <1>2, <1>6, HighHandover
<1>7. CASE cmd = Jump(<<b, k + 1>>) /\ buf[b][k] \in {Jump(<<b, k + 1>>), Jump(<<b, k + 2>>)}
  BY <1>2, <1>7, HighNext
<1>8. CASE cmd = Jump(<<b, k + 2>>) /\ buf[b][k] = Jump(<<b, k + 2>>)
  BY <1>2, <1>8, HighSkip
<1>9. CASE cmd = Leaves("high") /\ buf[b][k] = Leaves("high")
  BY <1>2, <1>9, HighTurn
<1>10. CASE cmd = LeaveHigh /\ buf[b][k] \in {LeaveHigh, Jump(<<b, k + 1>>)}
  BY <1>2, <1>10, HighLeave
<1> QED
  BY <1>3, <1>4, <1>5, <1>6, <1>7, <1>8, <1>9, <1>10

(* The RSP takes the request of a sequence.                                *)
LEMMA PastEnd ==
  ASSUME NEW m \in Nat, NEW p \in 1 .. (m + 1), p > 1, p - 1 = m
  PROVE  p - 1 \in 1 .. m /\ p - 1 \in Nat /\ \A j \in p .. m : FALSE
  OBVIOUS

LEMMA InFront ==
  ASSUME NEW m \in Nat, NEW p \in 1 .. (m + 1), p > 1
  PROVE  p - 1 \in 1 .. m /\ p - 1 \in Nat
  OBVIOUS

LEMMA NotClosed ==
  ASSUME Types, Phase = "prolog"
  PROVE  ~ Closed
<1>1. Step = "prolog"
  BY DEF Phase
<1>2. todo # <<>> /\ Chain(todo, ctx)
  BY <1>1 DEF Step, First, NoStep, Types
<1>3. ctx # "low"
  <2>1. todo[1] = "prolog"
    BY <1>1, <1>2 DEF Step, First
  <2>2. 1 \in 1 .. Len(todo)
    <3>1. todo \in Seq(Steps)
      BY <1>2 DEF Chain
    <3>2. Len(todo) \in Nat /\ Len(todo) # 0
      BY <1>2, <3>1
    <3> QED
      BY ONLY <3>2
  <2>3. "prolog" \in HighSteps
    BY DEF HighSteps
  <2> QED
    BY <1>2, <2>1, <2>2, <2>3 DEF Chain
<1> QED
  BY <1>1, <1>3 DEF Closed, Phase

LEMMA EnterStep ==
  ASSUME NEW D, Types, Queue(D), RspExecute, cmd = EnterHigh
  PROVE  Queue(D)' /\ done' = done /\ ~ High /\ High'
<1>1. /\ done' = done /\ at' = stack["high"] /\ stack' = [stack EXCEPT !["low"] = at]
      /\ status' = Signal({"HIGHPRI_REQUESTED"}, {"HIGHPRI_RUNNING"}) /\ rpc' = "fetch"
      /\ SameCpu /\ rpc = "execute" /\ Here' = at'
  BY Effects, CommandFields
<1>2. ~ High /\ Requested
  BY <1>1 DEF Queue, Copy
<1>3. /\ High' /\ ~ Requested'
      /\ "BUFDONE_HIGH" \in status' <=> "BUFDONE_HIGH" \in status
      /\ "BUFDONE_LOW" \in status' <=> "BUFDONE_LOW" \in status
  BY <1>1 DEF High, Requested, Signal
<1>4. /\ stack'["low"] = at /\ stack'["high"] = stack["high"]
      /\ stack'["block"] = stack["block"]
  BY <1>1 DEF Types, Slots
<1>5. Place("low")' = Place("low")
  <2>1. Here = at
    BY DEF Here
  <2> QED
    BY <1>2, <1>3, <1>4, <2>1 DEF Place
<1>6. Place("high")' = Place("high") /\ Place("high") = stack["high"] /\ Spot("high") = stack["high"]
  BY <1>1, <1>2, <1>3 DEF Place, Spot
<1>7. LowHalf(D)'
  <2>1. LowHalf(D) /\ done'["low"] = done["low"]
    BY <1>1, Halves DEF Queue
  <2> QED
    BY <1>1, <1>3, <1>4, <1>5, <2>1, LowHalfKept
<1>8. HighHalf(D)' /\ Spot("high")' = Spot("high") /\ (Ahead' <=> Ahead)
  <2>1. HighHalf(D) /\ done'["high"] = done["high"]
    BY <1>1, Halves DEF Queue
  <2> QED
    BY <1>1, <1>2, <1>3, <1>6, <2>1, HighHalfKept
<1>9. /\ buf' = buf /\ idx' = idx /\ Phase' = Phase
  BY <1>1, CpuSame
<1>10. Active("high")' = Active("high") /\ Other("high")' = Other("high")
  BY <1>9 DEF Active, Other
<1>11. /\ Spot("high")[1] \in {Active("high"), Other("high")} /\ Spot("high")[1] \in Buffers
       /\ Spot("high")[2] \in 1 .. (Len(buf[Spot("high")[1]]) + 1)
       /\ Len(buf[Spot("high")[1]]) \in Nat
  BY TheSpot DEF Queue, Queues
<1>12. Reading'
  BY <1>1, <1>3, <1>6, <1>10, <1>11 DEF Reading
<1>13. Stand(D)' /\ Handshake'
  BY <1>7, <1>8, <1>12, HalvesNext
<1>14. Counts(D)' /\ Items(D)' /\ Tails' /\ Epilogue'
  BY <1>1, <1>2, <1>3, BuffersKept
<1>15. Copy(D)'
  BY <1>1 DEF Copy
<1>16. ~ After("high", LeaveHigh)
  <2> SUFFICES ASSUME After("high", LeaveHigh) PROVE FALSE
    OBVIOUS
  <2>1. PICK b \in Buffers : b = Spot("high")[1]
    BY <1>11
  <2>2. PICK p \in 1 .. (Len(buf[b]) + 1) : p = Spot("high")[2]
    BY <1>11, <2>1
  <2>3. p > 1 /\ buf[b][p - 1] = LeaveHigh /\ Len(buf[b]) \in Nat
    BY <1>11, <2>1, <2>2 DEF After
  <2>4. p - 1 \in 1 .. Len(buf[b]) /\ p - 1 \in Nat
    BY <2>3, InFront
  <2>5. HighItem(D, b, p - 1)
    <3>1. ~ (b[1] = "low")
      BY <1>11, <2>1, TheBuffers DEF Types
    <3> QED
      BY <2>4, <3>1 DEF Queue, Items
  <2>6. Closed /\ p - 1 = Len(buf[b])
    BY <2>3, <2>4, <2>5, LeavingAt
  <2>7. b = Active("high")
    BY <2>3, <2>5, LeavingActive
  <2>8. \A j \in p .. Len(buf[b]) : FALSE
    BY <2>3, <2>6, PastEnd
  <2>9. ~ Ahead
    <3>1. b # Other("high")
      BY <2>7, TheBuffers DEF Types
    <3> QED
      BY <2>1, <2>2, <2>8, <3>1 DEF Ahead
  <2>10. Phase = "prolog"
    BY <1>2, <2>9 DEF Queue, Requests
  <2> QED
    BY <2>6, <2>10, NotClosed
<1>17. Requests'
  <2>1. ~ After("high", LeaveHigh)'
    BY <1>8, <1>9, <1>16 DEF After
  <2> QED
    BY <1>1, <1>3, <2>1 DEF Requests
<1> QED
  BY <1>1, <1>2, <1>3, <1>13, <1>14, <1>15, <1>17 DEF Queue

LEMMA ExecuteCalls ==
  ASSUME NEW D, Types, Waited, Queue(D), RspExecute
  PROVE  Types' /\ Waited' /\ Queue(D)' /\ SameCpu
<1>1. Types' /\ Waited' /\ SameCpu
  BY ExecuteTypes, Effects
<1>2. Queue(D)'
  BY LowExecute, HighExecute, EnterStep
<1> QED
  BY <1>1, <1>2

(* The queues at the start: both are empty.                                *)
LEMMA QueueInit ==
  ASSUME Init
  PROVE  Types /\ Waited /\ \E D : Queue(D)
<1>1. /\ idx \in [Queues -> {0, 1}] /\ idx["low"] = 0 /\ idx["high"] = 0
      /\ "low" \in Queues /\ "high" \in Queues
  BY DEF Init, Queues
<1>2. /\ \A q \in Queues : Active(q) \in Buffers /\ Other(q) \in Buffers /\ Active(q) # Other(q)
      /\ \A q \in Queues : Active(q)[1] = q /\ Other(q)[1] = q
      /\ Block \notin Buffers
  BY <1>1, TheBuffers
<1>3. /\ buf[Block] = Recorded /\ \A b \in Buffers : buf[b] = <<>> /\ used[b] = 0
  BY <1>2 DEF Init
<1>4. Step = NoStep /\ todo = <<>> /\ ctx = "low"
  BY DEF Init, Step, First
<1>5. Phase = "plain" /\ \A q, s : Moving(q, s) => s = "plain"
  BY <1>4 DEF Phase, NoStep, Phases, Moving
<1>6. Closed
  BY <1>4 DEF Closed
<1>7. ~ High /\ ~ Requested /\ status = {"BUFDONE_LOW", "BUFDONE_HIGH"}
  BY DEF Init, High, Requested
<1>8. Here = <<<<"low", 0>>, 1>> /\ at = <<<<"low", 0>>, 1>> /\ rpc = "idle"
  BY DEF Init, Here
<1>9. stack["high"] = <<<<"high", 0>>, 1>>
  BY DEF Init, Slots
<1>10. Active("low") = <<"low", 0>> /\ Active("high") = <<"high", 0>>
  BY <1>1 DEF Active
<1>11. Place("low") = <<Active("low"), 1>> /\ Place("high") = <<Active("high"), 1>>
  BY <1>7, <1>8, <1>9, <1>10 DEF Place
<1>12. ~ InBlock /\ ~ InBody
  BY <1>1, <1>2, <1>11 DEF InBlock, InBody
<1>13. Spot("low") = <<Active("low"), 1>> /\ Spot("high") = <<Active("high"), 1>>
  BY <1>11, <1>12 DEF Spot
<1>14. \A q \in Queues : Spot(q)[1] = Active(q) /\ Spot(q)[2] = 1
  BY <1>13 DEF Queues
<1>15. \A q, c : q \in Queues => ~ After(q, c)
  <2>1. ~ (1 > 1)
    OBVIOUS
  <2> QED
    BY <1>14, <2>1 DEF After
<1>16. \A b \in Buffers : Len(buf[b]) = 0
  <2>1. Len(<<>>) = 0
    OBVIOUS
  <2> QED
    BY <1>3, <2>1
<1>17. Types
  <2>1. buf \in [Buffers \cup {Block} -> Seq(Commands)]
    <3>1. Recorded \in Seq(Commands) /\ <<>> \in Seq(Commands)
      BY TheBlock
    <3> QED
      BY <3>1 DEF Init
  <2>2. used \in [Buffers -> Nat]
    BY DEF Init
  <2>3. sentinel \in [Queues -> Nat]
    <3>1. \A q \in Queues : Size[q] - MaxCommand \in Nat
      <4>1. \A q \in Queues : Size[q] >= MaxCommand + HandoffWords[q] /\ Size[q] \in Nat
                              /\ HandoffWords[q] \in Nat
        BY SizeAssumption DEF Size, HandoffWords, Queues
      <4>2. MaxCommand \in Nat
        BY SizeAssumption
      <4> QED
        BY ONLY <4>1, <4>2
    <3> QED
      BY <3>1 DEF Init
  <2>4. Chain(todo, ctx)
    BY <1>4, NoCall
  <2>5. at \in Places /\ stack \in [Slots -> Places]
    <3>1. <<"low", 0>> \in Buffers /\ <<"high", 0>> \in Buffers
      BY <1>2, <1>10, <1>1
    <3>2. <<<<"low", 0>>, 1>> \in Places /\ <<<<"high", 0>>, 1>> \in Places
      BY <3>1 DEF Places
    <3> QED
      BY <3>2 DEF Init, Slots
  <2>6. \A q \in Queues : issued[q] <= MaxIssued[q]
    <3>1. \A q \in Queues : issued[q] = 0 /\ MaxIssued[q] \in Nat
      BY SizeAssumption DEF Init
    <3> QED
      BY <3>1
  <2>7. /\ issued \in [Queues -> Nat] /\ done \in [Queues -> Nat]
        /\ syncAt \in Seq(Nat) /\ syncDone \in Nat /\ snap \in Seq(Commands)
    BY DEF Init
  <2> QED
    BY <1>1, <1>3, <2>1, <2>2, <2>3, <2>4, <2>5, <2>6, <2>7 DEF Init, Types, Signals
<1>18. Waited
  BY <1>4 DEF Waited, NoStep
<1> DEFINE Z == [b \in Buffers |-> [k \in Nat |-> 0]]
<1>19. Z \in Numbers /\ \A b \in Buffers : \A k \in Nat : Z[b][k] = 0
  BY DEF Numbers
<1> HIDE DEF Z
<1>20. \A b \in Buffers : 1 .. Len(buf[b]) = {} /\ 1 .. (Len(buf[b]) + 1) = {1}
                          /\ Len(buf[b]) + 1 = 1
  BY <1>16
<1>21. Counts(Z)
  <2>1. \A b \in Buffers : Z[b][1] = 0
    BY <1>19
  <2>2. \A q \in Queues : issued[q] = 0
    BY DEF Init
  <2>3. \A b \in Buffers : \A j, k \in 1 .. (Len(buf[b]) + 1) : j <= k => Z[b][j] <= Z[b][k]
    <3>1. \A b \in Buffers : \A j, k \in 1 .. (Len(buf[b]) + 1) : j = 1 /\ k = 1
      BY <1>20
    <3>2. \A b \in Buffers : Z[b][1] <= Z[b][1]
      BY <2>1
    <3> QED
      BY <3>1, <3>2
  <2>4. \A q \in Queues :
           /\ Z[Active(q)][Len(buf[Active(q)]) + 1] = issued[q]
           /\ Z[Other(q)][Len(buf[Other(q)]) + 1] = Z[Active(q)][1]
    BY <1>2, <1>20, <2>1, <2>2
  <2> QED
    BY <1>19, <1>20, <2>3, <2>4 DEF Counts
<1>22. Items(Z)
  BY <1>20 DEF Items
<1>23. Tails
  BY <1>2, <1>3, <1>5 DEF Tails
<1>24. Epilogue
  BY <1>2, <1>3, <1>1, <1>5, <1>7 DEF Epilogue
<1>25. Copy(Z)
  BY <1>8 DEF Copy
<1>26. Stand(Z)
  <2>1. \A q \in Queues : Stands(Z, q)
    <3> SUFFICES ASSUME NEW q \in Queues PROVE Stands(Z, q)
      OBVIOUS
    <3>1. Z[Active(q)][1] = 0 /\ done[q] = 0
      BY <1>2, <1>19 DEF Init
    <3>2. (IF q = "low" /\ InBody THEN 1 ELSE 0) = 0
      BY <1>12
    <3>3. Z[Active(q)][1] = done[q] + 0
      BY <3>1
    <3> QED
      BY <1>2, <1>14, <1>20, <3>2, <3>3 DEF Stands
  <2>2. High <=> at[1] \in {Active("high"), Other("high")}
    <3>1. at[1][1] = "low" /\ "low" # "high"
      BY <1>8
    <3> QED
      BY <1>1, <1>2, <1>7, <3>1
  <2> QED
    BY <1>12, <2>1, <2>2 DEF Stand
<1>27. Handshake
  <2>1. \A q \in Queues : Signalled(q) /\ ~ Moving(q, "switch")
    BY <1>5, <1>7 DEF Signalled, Bufdone
  <2>2. \A q \in Queues : Spot(q)[1] # Other(q)
    BY <1>2, <1>14
  <2> QED
    BY <1>1, <1>14, <2>1, <2>2 DEF Handshake
<1>28. Requests
  <2>1. Cursor("high") = <<Active("high"), 1>>
    BY <1>1, <1>2, <1>20 DEF Cursor
  <2> QED
    BY <1>6, <1>7, <1>11, <2>1 DEF Requests
<1> QED
  BY <1>17, <1>18, <1>21, <1>22, <1>23, <1>24, <1>25, <1>26, <1>27, <1>28 DEF Queue

LEMMA QueueNext ==
  ASSUME NEW D, Types, Waited, Queue(D), Next, Prompt = TRUE
  PROVE  Types' /\ Waited' /\ \E E : Queue(E)'
<1>1. CASE RspqFlush \/ RspqSyncpointWait \/ RspqHighpriSync \/ RspqHighpriEnd
  BY <1>1, QuietCalls, QuietInvariant
<1>2. CASE \/ FlushMore \/ FlushMoreAgain \/ CheckBufdone \/ WaitBufdone \/ LowContext
           \/ WaitHalted \/ WaitNotHigh \/ WaitSyncpoint
  BY <1>2, QuietCallSteps, QuietInvariant
<1>3. CASE Acknowledge \/ SpInterrupt
  BY <1>3, QuietInterrupts, QuietInvariant
<1>4. CASE HandOff \/ Leave \/ Prolog \/ JumpEpilog \/ SwapEpilog
  BY <1>4, AppendCalls
<1>5. CASE RspqWrite \/ RspqBlockRun \/ RspqSyncpointNew
  BY <1>5, WriteCalls
<1>6. CASE RspqHighpriBegin
  BY <1>6, BeginCall
<1>7. CASE ClearBufdone
  BY <1>7, ClearCall
<1>8. CASE RequestHighpri
  BY <1>8, RequestCall
<1>9. CASE SwitchBuffer
  BY <1>9, SwitchCall
<1>10. CASE PatchEpilog \/ PatchSwap
  BY <1>10, PatchCall
<1>11. CASE RspExecute
  BY <1>11, ExecuteCalls
<1>12. CASE RspLoop \/ RspRefetch \/ RspFetch \/ RspWaitNewInput \/ RspBreak \/ RspWakeup
  BY <1>12, BetweenCalls DEF Between
<1> QED
  BY <1>1, <1>2, <1>3, <1>4, <1>5, <1>6, <1>7, <1>8, <1>9, <1>10, <1>11, <1>12
     DEF Next, Program, CallStep, Interrupt, Rsp

(* No number in a queue is beyond what was issued to it.                   *)
LEMMA WithinIssued ==
  ASSUME NEW D, Types, Counts(D), NEW q \in Queues, NEW b \in {Active(q), Other(q)},
         NEW p \in 1 .. (Len(buf[b]) + 1)
  PROVE  D[b][p] <= issued[q]
<1>1. /\ Active(q) \in Buffers /\ Other(q) \in Buffers /\ b \in Buffers
  BY TheBuffers DEF Types
<1>2. \A c \in Buffers : Len(buf[c]) \in Nat
  BY SomeLength DEF Types
<1>3. \A c \in Buffers : 1 \in 1 .. (Len(buf[c]) + 1)
                         /\ Len(buf[c]) + 1 \in 1 .. (Len(buf[c]) + 1) /\ Len(buf[c]) + 1 \in Nat
  BY ONLY <1>2
<1>4. p <= Len(buf[b]) + 1 /\ p \in Nat
  BY <1>1, <1>2
<1>5. D[b][p] <= D[b][Len(buf[b]) + 1]
  BY <1>1, <1>3, <1>4 DEF Counts
<1>6. /\ D[Active(q)][Len(buf[Active(q)]) + 1] = issued[q]
      /\ D[Other(q)][Len(buf[Other(q)]) + 1] = D[Active(q)][1]
  BY DEF Counts
<1>7. D[Active(q)][1] <= issued[q]
  <2>1. D[Active(q)][1] <= D[Active(q)][Len(buf[Active(q)]) + 1]
    <3>1. 1 <= Len(buf[Active(q)]) + 1
      BY <1>1, <1>2
    <3> QED
      BY <1>1, <1>3, <3>1 DEF Counts
  <2> QED
    BY <1>6, <2>1
<1>8. D \in Numbers
  BY DEF Counts
<1>9. D[b][p] \in Nat /\ D[b][Len(buf[b]) + 1] \in Nat /\ D[Active(q)][1] \in Nat
  BY <1>1, <1>3, <1>4, <1>8 DEF Numbers
<1>10. issued[q] \in Nat
  BY DEF Types
<1>11. CASE b = Active(q)
  BY <1>5, <1>6, <1>11
<1>12. CASE b = Other(q)
  <2>1. D[b][Len(buf[b]) + 1] = D[Active(q)][1]
    BY <1>6, <1>12
  <2> QED
    BY ONLY <1>5, <1>7, <1>9, <1>10, <2>1
<1> QED
  BY <1>11, <1>12

LEMMA DoneIssued ==
  ASSUME NEW D, Types, Queue(D), NEW q \in Queues
  PROVE  done[q] <= issued[q]
<1>1. /\ Spot(q)[1] \in {Active(q), Other(q)}
      /\ Spot(q)[2] \in 1 .. (Len(buf[Spot(q)[1]]) + 1)
      /\ D[Spot(q)[1]][Spot(q)[2]] = done[q] + IF q = "low" /\ InBody THEN 1 ELSE 0
  BY DEF Queue, Stand, Stands
<1>2. D[Spot(q)[1]][Spot(q)[2]] <= issued[q]
  BY <1>1, WithinIssued DEF Queue
<1>3. PICK e \in {0, 1} : e = IF q = "low" /\ InBody THEN 1 ELSE 0
  OBVIOUS
<1>4. done[q] + e <= issued[q]
  BY <1>1, <1>2, <1>3
<1>5. done[q] \in Nat /\ issued[q] \in Nat
  BY DEF Types
<1> QED
  BY ONLY <1>3, <1>4, <1>5

(* What a command does to the queues as its user sees them.                *)
Executes ==
  \/ done' = done /\ (High' <=> High)
  \/ /\ High' <=> High
     /\ done[Running] < issued[Running] /\ done' = [done EXCEPT ![Running] = @ + 1]
  \/ done' = done /\ ~ High /\ High'
  \/ done' = done /\ High /\ ~ High' /\ done["high"] \in ends

LEMMA OneMore ==
  ASSUME NEW d \in Nat, NEW i \in Nat, NEW m, m = d + 1, m <= i
  PROVE  d < i
  OBVIOUS

LEMMA RunningKept ==
  ASSUME RspExecute, cmd.op \notin {"STATUS", "SWAP"} \/ cmd = Handover \/ cmd = LeaveLow
  PROVE  High' <=> High
<1>1. CASE cmd.op \in {"CMD", "BODY", "WORD", "CALL", "JUMP", "RET"}
  BY <1>1, Effects DEF High
<1>2. CASE cmd.op = "TEST"
  BY <1>2, Effects DEF High, Signal
<1>3. CASE cmd = Handover \/ cmd = LeaveLow
  BY <1>3, Effects, CommandFields DEF High, Signal
<1> QED
  BY <1>1, <1>2, <1>3, Effects

LEMMA LowExecutes ==
  ASSUME NEW D, Types, Queue(D), RspExecute, ~ High, cmd # EnterHigh
  PROVE  Executes
<1>1. /\ Running = "low" /\ "low" \in Queues /\ done["low"] \in Nat /\ issued["low"] \in Nat
  BY DEF Running, High, Types, Queues
<1>2. CASE at[1] = Block
  <2>1. cmd.op \notin {"STATUS", "SWAP"}
    BY <1>2, Effects, InFlightBlock, CommandFields
  <2>2. High' <=> High
    BY <2>1, RunningKept
  <2>3. CASE cmd.op = "BODY"
    <3>1. /\ done' = [done EXCEPT !["low"] = @ + 1]
          /\ D[Spot("low")[1]][Spot("low")[2]] = done["low"] + 1
      BY <1>2, <2>3, BlockStep
    <3>2. D[Spot("low")[1]][Spot("low")[2]] <= issued["low"]
      BY <1>1, TheSpot, WithinIssued DEF Queue
    <3>3. done["low"] < issued["low"]
      BY <1>1, <3>1, <3>2, OneMore
    <3> QED
      BY <1>1, <2>2, <3>1, <3>3 DEF Executes
  <2>4. CASE cmd.op # "BODY"
    <3>1. done' = done
      BY <1>2, <2>4, BlockStep
    <3> QED
      BY <2>2, <3>1 DEF Executes
  <2> QED
    BY <2>3, <2>4
<1>3. CASE at[1] # Block
  <2>1. PICK b \in Buffers, k \in Nat \ {0} : Flight(D, b, k)
    BY <1>3, Effects, InFlight
  <2>2. LowItem(b, k) /\ cmd = buf[b][k]
    BY <2>1, LowFlight
  <2>3. CASE Numbered(buf[b][k])
    <3>1. cmd.op \notin {"STATUS", "SWAP"}
      BY <2>2, <2>3 DEF Numbered
    <3>2. High' <=> High
      BY <3>1, RunningKept
    <3>3. /\ done' = IF cmd.op = "CALL" THEN done ELSE [done EXCEPT !["low"] = D[b][k + 1]]
          /\ D[b][k + 1] = done["low"] + 1
      BY <2>1, <2>3, LowCommand
    <3>4. D[b][k + 1] <= issued["low"]
      <4>1. b \in {Active("low"), Other("low")}
        BY <2>1, LowSpot
      <4>2. k + 1 \in 1 .. (Len(buf[b]) + 1)
        BY <2>1, ItsPlace DEF Flight
      <4> QED
        BY <1>1, <4>1, <4>2, WithinIssued DEF Queue
    <3>5. done["low"] < issued["low"]
      BY <1>1, <3>3, <3>4, OneMore
    <3> QED
      BY <1>1, <3>2, <3>3, <3>5 DEF Executes
  <2>4. CASE buf[b][k] = HandsOver("low")
    <3>1. cmd.op = "WORD"
      BY <2>2, <2>4, CommandFields DEF HandsOver
    <3>2. cmd.op \notin {"STATUS", "SWAP"}
      BY <3>1
    <3> QED
      BY <2>1, <2>4, <3>2, LowWord, RunningKept DEF Executes
  <2>5. CASE buf[b][k] = Leaves("low")
    <3>1. cmd = LeaveLow
      BY <2>2, <2>5 DEF Leaves
    <3> QED
      BY <2>1, <2>5, <3>1, LowTurn, RunningKept DEF Executes
  <2> QED
    BY <2>2, <2>3, <2>4, <2>5 DEF LowItem
<1> QED
  BY <1>2, <1>3

LEMMA HighExecutes ==
  ASSUME NEW D, Types, Queue(D), RspExecute, High, cmd # EnterHigh
  PROVE  Executes
<1>1. /\ Running = "high" /\ "high" \in Queues /\ done["high"] \in Nat /\ issued["high"] \in Nat
  BY DEF Running, High, Types, Queues
<1>2. at[1] # Block
  BY ReadPlace DEF Queue
<1>3. PICK b \in Buffers, k \in Nat \ {0} : Flight(D, b, k)
  BY <1>2, Effects, InFlight
<1>4. CASE cmd = buf[b][k] /\ Numbered(cmd) /\ cmd = Cmd("high", cmd.n)
  <2>1. cmd.op \notin {"STATUS", "SWAP"}
    BY <1>4 DEF Numbered
  <2>2. High' <=> High
    BY <2>1, RunningKept
  <2>3. done' = [done EXCEPT !["high"] = D[b][k + 1]] /\ D[b][k + 1] = done["high"] + 1
    BY <1>3, <1>4, HighCommand
  <2>4. D[b][k + 1] <= issued["high"]
    <3>1. b \in {Active("high"), Other("high")}
      BY <1>3, HighSpot
    <3>2. k + 1 \in 1 .. (Len(buf[b]) + 1)
      BY <1>3, ItsPlace DEF Flight
    <3> QED
      BY <1>1, <3>1, <3>2, WithinIssued DEF Queue
  <2>5. done["high"] < issued["high"]
    BY <1>1, <2>3, <2>4, OneMore
  <2> QED
    BY <1>1, <2>2, <2>3, <2>5 DEF Executes
<1>5. CASE cmd = Opening /\ buf[b][k] = Opening
  <2>1. High'
    BY <1>5, Effects, CommandFields DEF High, Signal
  <2> QED
    BY <1>3, <1>5, <2>1, HighOpening DEF Executes
<1>6. CASE cmd = Handover /\ buf[b][k] = Handover
  BY <1>3, <1>6, HighHandover, RunningKept DEF Executes
<1>7. CASE \/ cmd = Jump(<<b, k + 1>>) /\ buf[b][k] \in {Jump(<<b, k + 1>>), Jump(<<b, k + 2>>)}
           \/ cmd = Jump(<<b, k + 2>>) /\ buf[b][k] = Jump(<<b, k + 2>>)
           \/ cmd = Leaves("high") /\ buf[b][k] = Leaves("high")
  <2>1. cmd.op = "JUMP"
    BY <1>7, CommandFields DEF Leaves
  <2>2. cmd.op \notin {"STATUS", "SWAP"}
    BY <2>1
  <2>3. done' = done
    BY <1>3, <1>7, HighNext, HighSkip, HighTurn
  <2> QED
    BY <2>2, <2>3, RunningKept DEF Executes
<1>8. CASE cmd = LeaveHigh /\ buf[b][k] \in {LeaveHigh, Jump(<<b, k + 1>>)}
  BY <1>3, <1>8, HighLeave DEF Executes
<1> QED
  BY <1>3, <1>4, <1>5, <1>6, <1>7, <1>8, HighFlight

LEMMA ExecuteExecutes ==
  ASSUME NEW D, Types, Queue(D), RspExecute
  PROVE  Executes
<1>1. CASE cmd = EnterHigh
  BY <1>1, EnterStep DEF Executes
<1> QED
  BY <1>1, LowExecutes, HighExecutes

(* The refinement, step by step.                                           *)
Same == UNCHANGED <<issued, done, ends>> /\ (High' <=> High)

LEMMA RunningSame ==
  ASSUME High' <=> High
  PROVE  Running' = Running
  BY DEF High, Running

LEMMA AbstractSame ==
  ASSUME Same
  PROVE  UNCHANGED Abstract!aqvars
<1>1. Running' = Running
  BY RunningSame DEF Same
<1> QED
  BY <1>1 DEF Same, Abstract!aqvars

LEMMA AbstractWrites ==
  ASSUME RspqWrite \/ RspqBlockRun \/ RspqSyncpointNew
  PROVE  \E q \in Queues : Abstract!Issue(q)
<1>1. PICK q \in Queues : \E c : Write(q, c)
  BY DEF RspqWrite, RspqBlockRun, RspqSyncpointNew, Queues
<1>2. issued' = [issued EXCEPT ![q] = @ + 1] /\ UNCHANGED <<status, done, ends>>
  BY <1>1 DEF Write
<1>3. Running' = Running
  BY <1>2, RunningSame DEF High
<1> QED
  BY <1>2, <1>3 DEF Abstract!Issue

LEMMA AbstractCalls ==
  ASSUME RspqFlush \/ RspqSyncpointWait \/ RspqHighpriBegin \/ RspqHighpriEnd \/ RspqHighpriSync
  PROVE  Same
<1>1. \E steps : StartCall(steps)
  BY DEF RspqFlush, RspqSyncpointWait, RspqHighpriBegin, RspqHighpriEnd, RspqHighpriSync
<1> QED
  BY <1>1 DEF StartCall, history, Same, High

LEMMA AbstractSteps ==
  ASSUME CallStep
  PROVE  Same \/ Abstract!EndSequence
<1> DEFINE Signalling == \E s, clear, set : /\ WriteSpStatus(s, clear, set)
                                            /\ "HIGHPRI_RUNNING" \notin clear \cup set
           Awaiting == \E s, p : Wait(s, p)
           Overwriting == \E s, i : Patch(s, i)
           Adding == \E s, b, c : AppendStep(s, b, c) /\ UNCHANGED ends
<1>1. CASE Signalling
  BY <1>1 DEF WriteSpStatus, Same, High, Signal
<1>2. CASE Awaiting
  BY <1>2 DEF Wait, history, Same, High
<1>3. CASE CheckBufdone
  BY <1>3 DEF CheckBufdone, history, Same, High
<1>4. CASE Overwriting
  BY <1>4 DEF Patch, history, Same, High
<1>5. CASE Adding
  BY <1>5 DEF AppendStep, Same, High
<1>6. CASE SwitchBuffer
  BY <1>6 DEF SwitchBuffer, history, Same, High
<1>7. CASE LowContext
  BY <1>7 DEF LowContext, history, Same, High
<1>8. CASE SwapEpilog
  <2>1. UNCHANGED <<issued, done, status>> /\ ends' = ends \cup {issued["high"]}
    BY <1>8 DEF SwapEpilog, AppendStep
  <2>2. Running' = Running
    BY <2>1, RunningSame DEF High
  <2> QED
    BY <2>1, <2>2 DEF Abstract!EndSequence
<1>9. FlushMore \/ FlushMoreAgain \/ RequestHighpri => Signalling
  <2>1. /\ "HIGHPRI_RUNNING" \notin {"HALTED"} \cup {"MORE"}
        /\ "HIGHPRI_RUNNING" \notin {} \cup {"HIGHPRI_REQUESTED"}
    OBVIOUS
  <2> QED
    BY <2>1 DEF FlushMore, FlushMoreAgain, RequestHighpri
<1>10. ClearBufdone => Signalling
  <2>1. "HIGHPRI_RUNNING" \notin {Bufdone(ctx)} \cup {}
    BY DEF Bufdone
  <2> QED
    BY <2>1 DEF ClearBufdone
<1>11. WaitBufdone \/ WaitHalted \/ WaitNotHigh \/ WaitSyncpoint => Awaiting
  BY DEF WaitBufdone, WaitHalted, WaitNotHigh, WaitSyncpoint
<1>12. PatchEpilog \/ PatchSwap => Overwriting
  BY DEF PatchEpilog, PatchSwap
<1>13. HandOff \/ Leave \/ Prolog \/ JumpEpilog => Adding
  BY DEF HandOff, Leave, Prolog, JumpEpilog
<1> QED
  BY <1>1, <1>2, <1>3, <1>4, <1>5, <1>6, <1>7, <1>8, <1>9, <1>10, <1>11, <1>12, <1>13
     DEF CallStep

LEMMA AbstractInterrupts ==
  ASSUME Interrupt
  PROVE  Same
  BY DEF Interrupt, Acknowledge, SpInterrupt, history, Same, High, Signal

LEMMA AbstractExecutes ==
  ASSUME Executes, UNCHANGED <<issued, ends>>
  PROVE  Abstract!Next \/ UNCHANGED Abstract!aqvars
<1>1. CASE done' = done /\ (High' <=> High)
  BY <1>1, AbstractSame DEF Same
<1>2. CASE /\ High' <=> High
           /\ done[Running] < issued[Running] /\ done' = [done EXCEPT ![Running] = @ + 1]
  <2>1. Running' = Running
    BY <1>2, RunningSame
  <2> QED
    BY <1>2, <2>1 DEF Abstract!Next, Abstract!Execute
<1>3. CASE done' = done /\ ~ High /\ High'
  <2>1. Running = "low" /\ Running' = "high"
    BY <1>3 DEF High, Running
  <2> QED
    BY <1>3, <2>1 DEF Abstract!Next, Abstract!Preempt
<1>4. CASE done' = done /\ High /\ ~ High' /\ done["high"] \in ends
  <2>1. Running = "high" /\ Running' = "low"
    BY <1>4 DEF High, Running
  <2> QED
    BY <1>4, <2>1 DEF Abstract!Next, Abstract!GoBack
<1> QED
  BY <1>1, <1>2, <1>3, <1>4 DEF Executes

LEMMA AbstractNext ==
  ASSUME NEW D, Types, Waited, Queue(D), Next
  PROVE  Abstract!Next \/ UNCHANGED Abstract!aqvars
<1>1. CASE RspqWrite \/ RspqBlockRun \/ RspqSyncpointNew
  <2>1. \E q \in Queues : Abstract!Issue(q)
    BY <1>1, AbstractWrites
  <2> QED
    BY <2>1 DEF Queues, Abstract!Next, Abstract!Queues
<1>2. CASE RspqFlush \/ RspqSyncpointWait \/ RspqHighpriBegin \/ RspqHighpriEnd \/ RspqHighpriSync
  BY <1>2, AbstractCalls, AbstractSame
<1>3. CASE CallStep
  BY <1>3, AbstractSteps, AbstractSame DEF Abstract!Next
<1>4. CASE Interrupt
  BY <1>4, AbstractInterrupts, AbstractSame
<1>5. CASE RspExecute
  <2>1. Executes /\ UNCHANGED <<issued, ends>>
    BY <1>5, ExecuteExecutes, Effects DEF SameCpu
  <2> QED
    BY <2>1, AbstractExecutes
<1>6. CASE Between
  <2>1. SamePlaces /\ SameCpu
    BY <1>6, BetweenCalls
  <2>2. Same
    BY <2>1 DEF Same, SamePlaces, SameCpu
  <2> QED
    BY <2>2, AbstractSame
<1> QED
  BY <1>1, <1>2, <1>3, <1>4, <1>5, <1>6 DEF Next, Program, Rsp, Between

LEMMA AbstractInit ==
  ASSUME Init
  PROVE  Abstract!Init
<1>1. Running = "low"
  BY DEF Init, Running
<1> QED
  BY <1>1 DEF Init, Abstract!Init, Queues, Abstract!Queues
-----------------------------------------------------------------------------
(* What the buffers hold and where the RSP stands in them.                 *)
Held == Types /\ Waited /\ \E D : Queue(D)

LEMMA HeldStutters ==
  ASSUME Held, UNCHANGED vars
  PROVE  Held'
<1>1. UNCHANGED <<buf, used, status, ctx, idx, sentinel, todo, handler, syncDone, rpc, at, snap,
                  cmd, stack, issued, done, ends, syncAt, fresh, late>>
  BY DEF vars, memory, cpu, rsp, history
<1>2. PICK D : Queue(D)
  BY DEF Held
<1>3. Step' = Step
  BY <1>1 DEF Step
<1>4. Quiet
  <2>1. SameBuffers /\ SameSignals /\ (Phase' = Phase) /\ (Closed' <=> Closed)
        /\ \A q, s : Moving(q, s)' <=> Moving(q, s)
    BY <1>1, <1>3 DEF SameBuffers, SameSignals, Phase, Closed, Moving
  <2> QED
    BY <1>1, <2>1 DEF Quiet, SamePhase, memory, cpu, rsp, history, Held, Types
<1>5. Types' /\ Queue(D)'
  BY <1>2, <1>4, QuietInvariant DEF Held
<1>6. Waited'
  BY <1>1, <1>3 DEF Waited, Held, Bufdone
<1> QED
  BY <1>5, <1>6 DEF Held

(* Where the RSP leaves a buffer before it is cleared, the contents of the *)
(* buffers and the places of the RSP in them always belong together.       *)
THEOREM QueueHolds == ASSUME Prompt = TRUE PROVE Spec => []Held
<1>1. Init => Held
  BY QueueInit DEF Held
<1>2. Held /\ [Next]_vars => Held'
  BY QueueNext, HeldStutters DEF Held
<1> QED
  BY <1>1, <1>2, PTL DEF Spec

(* The queues of the program are those of CommandQueues: each command is   *)
(* executed once, in the order of its queue, and a sequence of high        *)
(* priority is not interrupted.                                            *)
THEOREM QueuesImplemented == ASSUME Prompt = TRUE PROVE Spec => ImplementsQueues
<1>1. Init => Abstract!Init
  BY AbstractInit
<1>2. Held /\ [Next]_vars => [Abstract!Next]_(Abstract!aqvars)
  <2> SUFFICES ASSUME Held, [Next]_vars PROVE [Abstract!Next]_(Abstract!aqvars)
    OBVIOUS
  <2>1. CASE Next
    BY <2>1, AbstractNext DEF Held
  <2>2. CASE UNCHANGED vars
    <3>1. UNCHANGED <<issued, done, ends, status>>
      BY <2>2 DEF vars, history
    <3> QED
      BY <3>1, AbstractSame DEF Same, High
  <2> QED
    BY <2>1, <2>2
<1>3. Spec => []Held
  BY QueueHolds
<1> QED
  BY <1>1, <1>2, <1>3, PTL DEF Spec, ImplementsQueues, Abstract!Spec

(* A buffer of low priority is cleared only when the RSP does not read     *)
(* from it and will not come back to it.                                   *)
THEOREM ClearsUnused == ASSUME Prompt = TRUE PROVE Spec => []ClearedUnused
<1>1. Held => ClearedUnused
  <2> SUFFICES ASSUME Held, todo # <<>>, Head(todo) = "switch", ctx = "low"
               PROVE  /\ at[1] # Other("low") /\ (High => stack["low"][1] # Other("low"))
    BY DEF ClearedUnused, High, Other
  <2>1. PICK D : Queue(D)
    BY DEF Held
  <2>2. Types /\ Active("low") # Other("low") /\ Other("low") \in Buffers /\ Other("low") # Block
        /\ Other("low")[1] = "low"
    BY TheBuffers, ZenonT(60) DEF Held, Types
  <2>3. Moving("low", "switch")
    <3>1. todo \in Seq(Steps)
      BY <2>2 DEF Types, Chain
    <3>2. Step = "switch"
      BY <3>1 DEF Step, First
    <3> QED
      BY <3>2 DEF Moving, Phase, Phases
  <2>4. Spot("low")[1] = Active("low")
    BY <2>1, <2>3 DEF Queue, Handshake, Signalled
  <2>5. Place("low")[1] # Other("low")
    BY <2>2, <2>4 DEF Spot, InBlock
  <2>6. CASE High
    <3>1. at[1] \in {Active("high"), Other("high")}
      BY <2>1, <2>6 DEF Queue, Stand
    <3>2. at[1] # Other("low")
      BY <2>2, <3>1, TheBuffers DEF Types
    <3> QED
      BY <2>5, <2>6, <3>2 DEF Place
  <2>7. CASE ~ High
    BY <2>5, <2>7 DEF Place, Here
  <2> QED
    BY <2>6, <2>7
<1> QED
  BY <1>1, QueueHolds, PTL
=============================================================================

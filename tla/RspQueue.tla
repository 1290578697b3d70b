------------------------------ MODULE RspQueue ------------------------------
(***************************************************************************)
(* The command queue of the RSP, src/rspq/rspq.c, with the microcode that  *)
(* drains it, include/rsp_queue.inc.                                       *)
(*                                                                         *)
(* The CPU appends commands to one of two buffers per queue, which the RSP *)
(* reads in chunks and without a lock.  Buffers hold commands; `used'      *)
(* counts their words, for the sentinels.  A command of several words      *)
(* becomes visible with its first word, which is written last, so it is    *)
(* appended in one step.  Where a chunk ends is left open: the RSP may     *)
(* fetch again before any command.                                         *)
(***************************************************************************)
EXTENDS Integers, Sequences

CONSTANTS LowSize, HighSize,  \* words in a buffer of each queue
          MaxShort,           \* RSPQ_MAX_SHORT_COMMAND_SIZE
          MaxCommand,         \* RSPQ_MAX_COMMAND_SIZE
          CmdWords,           \* words in a command of the program
          MaxIssued,          \* bound: commands issued to each queue
          Modest,             \* each such sequence holds a command
          Prompt              \* the RSP leaves a buffer before it is cleared

Queues == {"low", "high"}
Size == [low |-> LowSize, high |-> HighSize]
HandoffWords == [low |-> 5, high |-> 2]

ASSUME SizeAssumption ==
    /\ {LowSize, HighSize, MaxShort, MaxCommand, CmdWords} \subseteq Nat \ {0}
    /\ CmdWords <= MaxShort /\ 2 <= MaxShort /\ MaxShort + 5 <= MaxCommand
    /\ MaxIssued \in [Queues -> Nat] /\ {Modest, Prompt} \subseteq BOOLEAN
    /\ \A q \in Queues : Size[q] >= MaxCommand + HandoffWords[q]

\* A buffer of a queue, and the one block the program has recorded.
Buffers == Queues \X {0, 1}
Block == <<"block", 0>>
Slots == {"block", "low", "high"}

VARIABLES
    \* in memory
    buf,       \* the commands in each buffer
    used,      \* the words they take
    \* SP_STATUS
    status,    \* the signals that are set
    \* the CPU
    ctx,       \* rspq_ctx: the queue that is being written
    idx,       \* buf_idx of each queue
    sentinel,  \* of each queue, in words from the start of its buffer
    todo,      \* what is left to do of the call in progress
    handler,   \* where the SP interrupt handler stands
    syncDone,  \* __rspq_syncpoints_done
    \* the RSP
    rpc,       \* where it stands
    at,        \* the buffer and the place of the next command
    snap,      \* the copy of that buffer in DMEM
    cmd,       \* the command it executes
    stack,     \* rspq_pointer_stack
    \* history
    issued, done,  \* numbers of commands per queue
    ends,          \* command numbers after which a high sequence ends
    syncAt,        \* the command number of each syncpoint
    fresh,         \* something was issued since the last flush began
    late           \* the RSP had decided to halt when the flush began

memory == <<buf, used>>
cpu == <<ctx, idx, sentinel>>
rsp == <<rpc, at, snap, cmd, stack>>
history == <<issued, done, ends, syncAt, fresh>>
vars == <<memory, status, cpu, todo, handler, syncDone, rsp, history, late>>
-----------------------------------------------------------------------------
\* Commands.  Those of the program carry their number.

Cmd(q, n) == [op |-> "CMD", q |-> q, n |-> n]
Call(n) == [op |-> "CALL", n |-> n]
TestWriteStatus(n) == [op |-> "TEST", n |-> n]
Body == [op |-> "BODY"]
Ret == [op |-> "RET"]
Jump(to) == [op |-> "JUMP", to |-> to]
WriteWord(to) == [op |-> "WORD", to |-> to]
WriteStatus(clear, set) == [op |-> "STATUS", clear |-> clear, set |-> set]
SwapBuffers(to, from, clear, set) ==
    [op |-> "SWAP", to |-> to, from |-> from, clear |-> clear, set |-> set]
NoCmd == [op |-> "NONE"]

Words == [CMD |-> CmdWords, CALL |-> 2, TEST |-> 2, JUMP |-> 1, WORD |-> 2,
          STATUS |-> 1, SWAP |-> 3]

Bufdone(q) == IF q = "low" THEN "BUFDONE_LOW" ELSE "BUFDONE_HIGH"
Signal(clear, set) == (status \ clear) \cup set

\* The recorded block: a command and the return from nesting level 0.
Recorded == <<Body, Ret>>

Init ==
    /\ buf = [b \in Buffers \cup {Block} |-> IF b = Block THEN Recorded ELSE <<>>]
    /\ used = [b \in Buffers |-> 0]
    /\ status = {"BUFDONE_LOW", "BUFDONE_HIGH"}
    /\ ctx = "low"
    /\ idx = [q \in Queues |-> 0]
    /\ sentinel = [q \in Queues |-> Size[q] - MaxCommand]
    /\ todo = <<>>
    /\ handler = "idle"
    /\ syncDone = 0
    /\ rpc = "idle"
    /\ at = <<<<"low", 0>>, 1>>
    /\ snap = <<>>
    /\ cmd = NoCmd
    /\ stack = [s \in Slots |-> <<<<IF s = "high" THEN s ELSE "low", 0>>, 1>>]
    /\ issued = [q \in Queues |-> 0]
    /\ done = [q \in Queues |-> 0]
    /\ ends = {0}
    /\ syncAt = <<>>
    /\ fresh = FALSE
    /\ late = FALSE
-----------------------------------------------------------------------------
\* The CPU.  A call in progress is the sequence `todo' of steps it still has
\* to take.

Active(q) == <<q, idx[q]>>

\* Mutant: an address one word too far.
CursorFar(q) == <<Active(q), Len(buf[Active(q)]) + 2>>

Cursor(q) == <<Active(q), Len(buf[Active(q)]) + 1>>

\* rspq_append: visible to the RSP at once.
Append2(b, c) ==
    /\ buf' = [buf EXCEPT ![b] = Append(@, c)]
    /\ used' = [used EXCEPT ![b] = @ + Words[c.op]]

Flush == <<"more", "more again">>
NextBuffer == <<"bufdone?", "clear bufdone", "switch", "hand off", "leave">> \o Flush

Free == todo = <<>> /\ handler = "idle"

\* rspq_write: append, then look at the sentinel.
Write(q, c) ==
    /\ Free
    /\ ctx = q
    /\ issued[q] < MaxIssued[q]
    /\ Append2(Active(q), c)
    /\ issued' = [issued EXCEPT ![q] = @ + 1]
    /\ todo' = IF used'[Active(q)] > sentinel[q] THEN NextBuffer ELSE <<>>
    /\ fresh' = TRUE
    /\ UNCHANGED <<status, cpu, handler, syncDone, rsp, done, ends, late>>

Number(q) == issued[q] + 1

RspqWrite == \E q \in Queues : Write(q, Cmd(q, Number(q))) /\ UNCHANGED syncAt

RspqBlockRun == Write("low", Call(Number("low"))) /\ UNCHANGED syncAt

RspqSyncpointNew == /\ Write("low", TestWriteStatus(Number("low")))
                    /\ syncAt' = Append(syncAt, Number("low"))

StartCall(steps) ==
    /\ Free
    /\ todo' = steps
    /\ UNCHANGED <<memory, status, handler, syncDone, rsp, history, late>>

RspqFlush == StartCall(Flush) /\ UNCHANGED cpu

\* rspq_syncpoint_wait for the newest syncpoint.  Inside a sequence of high
\* priority nobody would ever come back to the low one: programs do not do it.
RspqSyncpointWait ==
    /\ ctx = "low"
    /\ syncDone < Len(syncAt)
    /\ StartCall(Flush \o <<"syncpoint?">>)
    /\ UNCHANGED cpu

Epilog(s) == /\ Len(s) > 1
             /\ s[Len(s)].op = "SWAP"

RspqHighpriBegin ==
    /\ ctx = "low"
    /\ ~ Modest \/ issued["high"] < MaxIssued["high"]
    /\ StartCall((IF Epilog(buf[Active("high")])
                  THEN <<"patch epilog", "patch swap">> ELSE <<>>)
                 \o <<"request", "prolog">> \o Flush)
    /\ ctx' = "high"
    /\ UNCHANGED <<idx, sentinel>>

RspqHighpriEnd ==
    /\ ctx = "high"
    /\ Modest => issued["high"] \notin ends
    /\ StartCall(<<"jump epilog", "swap epilog">> \o Flush \o <<"low context">>)
    /\ UNCHANGED cpu

RspqHighpriSync ==
    /\ StartCall(Flush \o (IF ctx = "high" THEN <<"halted?">> ELSE <<"not high?">>))
    /\ UNCHANGED cpu
-----------------------------------------------------------------------------
\* The steps of those calls.

Doing(step) == /\ handler = "idle"
               /\ todo # <<>>
               /\ Head(todo) = step

\* A step that ends with a write to SP_STATUS.
WriteSpStatus(step, clear, set) ==
    /\ Doing(step)
    /\ status' = Signal(clear, set)
    /\ todo' = Tail(todo)
    /\ UNCHANGED <<memory, cpu, handler, syncDone, rsp, issued, done, ends, syncAt>>

\* rspq_flush_internal, the first write.
FlushMore ==
    /\ WriteSpStatus("more", {"HALTED"}, {"MORE"})
    /\ fresh' = FALSE
    /\ late' = (rpc = "break")

\* Mutant: the signal is sent once.
FlushMoreOnce ==
    /\ ~ late
    /\ WriteSpStatus("more again", {}, {})
    /\ UNCHANGED <<fresh, late>>

\* The second one.  Ten cycles have passed: a halt that was decided before the
\* first write has taken place.
FlushMoreAgain ==
    /\ ~ late
    /\ WriteSpStatus("more again", {"HALTED"}, {"MORE"})
    /\ UNCHANGED <<fresh, late>>

\* rspq_next_buffer.
CheckBufdone ==
    /\ Doing("bufdone?")
    /\ todo' = (IF Bufdone(ctx) \in status THEN <<>> ELSE Flush \o <<"wait bufdone">>)
               \o Tail(todo)
    /\ UNCHANGED <<memory, status, cpu, handler, syncDone, rsp, history, late>>

Wait(step, condition) ==
    /\ Doing(step)
    /\ condition
    /\ todo' = Tail(todo)
    /\ UNCHANGED <<memory, status, cpu, handler, syncDone, rsp, history, late>>

WaitBufdone == Wait("wait bufdone", Bufdone(ctx) \in status)

\* Mutant: the signal of the previous switch stays set.
ClearNothing == /\ WriteSpStatus("clear bufdone", {}, {})
                /\ UNCHANGED <<fresh, late>>

ClearBufdone == /\ WriteSpStatus("clear bufdone", {Bufdone(ctx)}, {})
                /\ UNCHANGED <<fresh, late>>

\* rspq_switch_buffer, which clears the new buffer.
SwitchBuffer ==
    LET new == <<ctx, 1 - idx[ctx]>> IN
    /\ Doing("switch")
    /\ Prompt /\ ctx = "high" => at[1] # new
    /\ idx' = [idx EXCEPT ![ctx] = 1 - @]
    /\ buf' = [buf EXCEPT ![new] = <<>>]
    /\ used' = [used EXCEPT ![new] = 0]
    /\ sentinel' = [sentinel EXCEPT
                        ![ctx] = Size[ctx] - (MaxShort + HandoffWords[ctx])]
    /\ todo' = Tail(todo)
    /\ UNCHANGED <<status, ctx, handler, syncDone, rsp, history, late>>

\* A step that appends a command.
AppendStep(step, b, c) ==
    /\ Doing(step)
    /\ Append2(b, c)
    /\ todo' = Tail(todo)
    /\ fresh' = TRUE
    /\ UNCHANGED <<status, cpu, handler, syncDone, rsp, issued, done, syncAt, late>>

HandOff ==
    /\ AppendStep("hand off", <<ctx, 1 - idx[ctx]>>,
                  IF ctx = "low" THEN WriteWord(<<Active(ctx), 1>>)
                  ELSE WriteStatus({}, {Bufdone(ctx)}))
    /\ UNCHANGED ends

Leave ==
    /\ AppendStep("leave", <<ctx, 1 - idx[ctx]>>,
                  IF ctx = "low" THEN SwapBuffers("block", "block", {}, {Bufdone(ctx)})
                  ELSE Jump(<<Active(ctx), 1>>))
    /\ UNCHANGED ends

\* rspq_highpri_begin: overwrite the epilog of the last sequence, word by word.
Patch(step, i) ==
    /\ Doing(step)
    /\ buf' = [buf EXCEPT ![Active("high")][i] = Jump(Cursor("high"))]
    /\ todo' = Tail(todo)
    /\ UNCHANGED <<used, status, cpu, handler, syncDone, rsp, history, late>>

PatchEpilog == Patch("patch epilog", Len(buf[Active("high")]) - 1)
PatchSwap == Patch("patch swap", Len(buf[Active("high")]))

RequestHighpri == /\ WriteSpStatus("request", {}, {"HIGHPRI_REQUESTED"})
                  /\ UNCHANGED <<fresh, late>>

Prolog ==
    /\ AppendStep("prolog", Active("high"),
                  WriteStatus({"HIGHPRI_REQUESTED"}, {"HIGHPRI_RUNNING"}))
    /\ UNCHANGED ends

\* rspq_highpri_end.
JumpEpilog ==
    /\ AppendStep("jump epilog", Active("high"),
                  Jump(<<Active("high"), Len(buf[Active("high")]) + 2>>))
    /\ UNCHANGED ends

SwapEpilog ==
    /\ AppendStep("swap epilog", Active("high"),
                  SwapBuffers("low", "high", {"HIGHPRI_RUNNING"}, {}))
    /\ ends' = ends \cup {issued["high"]}

LowContext ==
    /\ Doing("low context")
    /\ ctx' = "low"
    /\ todo' = Tail(todo)
    /\ UNCHANGED <<memory, status, idx, sentinel, handler, syncDone, rsp,
                   history, late>>

\* rspq_highpri_sync and rspq_syncpoint_wait.
WaitHalted == Wait("halted?", "HALTED" \in status)
\* Mutant: a request that has not been taken is overlooked.
WaitNotRunning == Wait("not high?", "HIGHPRI_RUNNING" \notin status)

WaitNotHigh ==
    Wait("not high?", status \cap {"HIGHPRI_REQUESTED", "HIGHPRI_RUNNING"} = {})
WaitSyncpoint == Wait("syncpoint?", syncDone >= Len(syncAt))

\* The SP interrupt: __MI_handler acknowledges it, rspq_sp_interrupt counts
\* the syncpoint and clears its signal.
Acknowledge ==
    /\ handler = "idle"
    /\ "INTR" \in status
    /\ status' = Signal({"INTR"}, {})
    /\ handler' = "acknowledged"
    /\ UNCHANGED <<memory, cpu, todo, syncDone, rsp, history, late>>

SpInterrupt ==
    /\ handler = "acknowledged"
    /\ syncDone' = syncDone + (IF "SYNCPOINT" \in status THEN 1 ELSE 0)
    /\ status' = Signal({"SYNCPOINT"}, {})
    /\ handler' = "idle"
    /\ UNCHANGED <<memory, cpu, todo, rsp, history, late>>
-----------------------------------------------------------------------------
\* The RSP.

machine == <<memory, cpu, todo, handler, syncDone, issued, ends, syncAt, fresh>>

\* RSPQ_Loop: SP_STATUS and the next command, from the copy in DMEM.
WantsHigh == /\ "HIGHPRI_REQUESTED" \in status
             /\ "HIGHPRI_RUNNING" \notin status

RspLoop ==
    /\ rpc = "loop"
    /\ \/ /\ WantsHigh
          /\ rpc' = "execute"
          /\ cmd' = SwapBuffers("high", "low", {"HIGHPRI_REQUESTED"},
                                {"HIGHPRI_RUNNING"})
          /\ UNCHANGED <<at, snap>>
       \/ /\ ~ WantsHigh
          /\ at[2] > Len(snap)
          /\ rpc' = "idle"
          /\ snap' = <<>>
          /\ UNCHANGED <<cmd, at>>
       \/ /\ ~ WantsHigh
          /\ at[2] <= Len(snap)
          /\ rpc' = "execute"
          /\ cmd' = snap[at[2]]
          /\ at' = [at EXCEPT ![2] = @ + 1]
          /\ UNCHANGED snap
    /\ UNCHANGED <<machine, status, stack, done, late>>

\* The command does not end before the chunk does.
RspRefetch ==
    /\ rpc = "loop"
    /\ ~ WantsHigh
    /\ at[2] <= Len(snap)
    /\ rpc' = "fetch"
    /\ snap' = <<>>
    /\ UNCHANGED <<machine, status, at, cmd, stack, done, late>>

\* rspq_fetch_buffer.
RspFetch ==
    /\ rpc = "fetch"
    /\ rpc' = "loop"
    /\ snap' = buf[at[1]]
    /\ UNCHANGED <<machine, status, at, cmd, stack, done, late>>

Executing(op) == rpc = "execute" /\ cmd.op = op
Executed(next) == rpc' = next /\ cmd' = NoCmd

\* A command of the program, or of the block, which has no number of its own.
RspCommand ==
    /\ rpc = "execute"
    /\ \/ cmd.op = "CMD" /\ done' = [done EXCEPT ![cmd.q] = cmd.n]
       \/ cmd.op = "BODY" /\ done' = [done EXCEPT !["low"] = @ + 1]
    /\ Executed("loop")
    /\ UNCHANGED <<machine, status, at, snap, stack, late>>

RspWriteStatus ==
    /\ Executing("STATUS")
    /\ status' = Signal(cmd.clear, cmd.set)
    /\ Executed("loop")
    /\ UNCHANGED <<machine, at, snap, stack, done, late>>

\* Mutant: a syncpoint does not wait until the previous one was counted.
RspSetStatus ==
    /\ Executing("TEST")
    /\ status' = Signal({}, {"SYNCPOINT", "INTR"})
    /\ done' = [done EXCEPT !["low"] = cmd.n]
    /\ Executed("loop")
    /\ UNCHANGED <<machine, at, snap, stack, late>>

RspTestWriteStatus ==
    /\ Executing("TEST")
    /\ "SYNCPOINT" \notin status
    /\ status' = Signal({}, {"SYNCPOINT", "INTR"})
    /\ done' = [done EXCEPT !["low"] = cmd.n]
    /\ Executed("loop")
    /\ UNCHANGED <<machine, at, snap, stack, late>>

RspWriteWord ==
    /\ Executing("WORD")
    /\ stack' = [stack EXCEPT !["block"] = cmd.to]
    /\ Executed("loop")
    /\ UNCHANGED <<machine, status, at, snap, done, late>>

\* Mutant: the place in the queue that is left is forgotten.
RspSwapUnsaved ==
    /\ Executing("SWAP")
    /\ status' = Signal(cmd.clear, cmd.set)
    /\ at' = stack[cmd.to]
    /\ stack' = stack
    /\ Executed("fetch")
    /\ snap' = <<>>
    /\ UNCHANGED <<machine, done, late>>

\* The target is loaded before the current address is saved.
RspSwapBuffers ==
    /\ Executing("SWAP")
    /\ status' = Signal(cmd.clear, cmd.set)
    /\ at' = stack[cmd.to]
    /\ stack' = [stack EXCEPT ![cmd.from] = at]
    /\ Executed("fetch")
    /\ snap' = <<>>
    /\ UNCHANGED <<machine, done, late>>

RspCall ==
    /\ Executing("CALL")
    /\ at' = <<Block, 1>>
    /\ stack' = [stack EXCEPT !["block"] = at]
    /\ Executed("fetch")
    /\ snap' = <<>>
    /\ UNCHANGED <<machine, status, done, late>>

RspJump ==
    /\ \/ Executing("JUMP") /\ at' = cmd.to
       \/ Executing("RET") /\ at' = stack["block"]
    /\ Executed("fetch")
    /\ snap' = <<>>
    /\ UNCHANGED <<machine, status, stack, done, late>>

\* RSPQCmd_WaitNewInput: look for SIG_MORE, else halt; go on when woken.
RspWaitNewInput ==
    /\ rpc = "idle"
    /\ rpc' = IF "MORE" \in status THEN "wakeup" ELSE "break"
    /\ UNCHANGED <<machine, status, at, snap, cmd, stack, done, late>>

RspBreak ==
    /\ rpc = "break"
    /\ status' = Signal({}, {"HALTED"})
    /\ rpc' = "wakeup"
    /\ late' = FALSE
    /\ UNCHANGED <<machine, at, snap, cmd, stack, done>>

RspWakeup ==
    /\ rpc = "wakeup"
    /\ "HALTED" \notin status
    /\ status' = Signal({"MORE"}, {})
    /\ rpc' = "fetch"
    /\ UNCHANGED <<machine, at, snap, cmd, stack, done, late>>

RspExecute == \/ RspCommand \/ RspWriteStatus \/ RspTestWriteStatus \/ RspWriteWord
              \/ RspSwapBuffers \/ RspCall \/ RspJump

Rsp == RspLoop \/ RspRefetch \/ RspFetch \/ RspExecute \/ RspWaitNewInput \/ RspBreak \/ RspWakeup
-----------------------------------------------------------------------------
Program == \/ RspqWrite \/ RspqBlockRun \/ RspqSyncpointNew \/ RspqFlush
           \/ RspqSyncpointWait \/ RspqHighpriBegin  \/ RspqHighpriEnd \/ RspqHighpriSync

CallStep == \/ FlushMore \/ FlushMoreAgain \/ CheckBufdone \/ WaitBufdone
            \/ ClearBufdone \/ SwitchBuffer \/ HandOff \/ Leave \/ PatchEpilog
            \/ PatchSwap \/ RequestHighpri \/ Prolog \/ JumpEpilog \/ SwapEpilog
            \/ LowContext \/ WaitHalted \/ WaitNotHigh \/ WaitSyncpoint

Interrupt == Acknowledge \/ SpInterrupt

Next == Program \/ CallStep \/ Interrupt \/ Rsp

Spec == Init /\ [][Next]_vars
=============================================================================

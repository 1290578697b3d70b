------------------------- MODULE RspQueueProperties -------------------------
(***************************************************************************)
(* What must hold of module RspQueue.                                      *)
(***************************************************************************)
EXTENDS RspQueue

\* The steps a call can consist of, and the signals of SP_STATUS.
Steps == {"more", "more again", "bufdone?", "wait bufdone", "clear bufdone",
          "switch", "hand off", "leave", "patch epilog", "patch swap", "request",
          "prolog", "jump epilog", "swap epilog", "low context", "halted?",
          "not high?", "syncpoint?"}
Signals == {"HALTED", "MORE", "INTR", "SYNCPOINT", "HIGHPRI_REQUESTED",
            "HIGHPRI_RUNNING", "BUFDONE_LOW", "BUFDONE_HIGH"}
Places == (Buffers \cup {Block}) \X (Nat \ {0})

\* No buffer overruns its memory: the assertion at the end of rspq_next_buffer.
BufferFits == \A b \in Buffers : used[b] <= Size[b[1]]

\* The RSP stands in a buffer at a place that exists, buffers do not overrun,
\* and every count lies within its bound: a jump to a place never written, or a
\* wrong sentinel, would leave the range.
TypeOK ==
    /\ status \subseteq Signals
    /\ ctx \in Queues /\ idx \in [Queues -> {0, 1}]
    /\ todo \in Seq(Steps)
    /\ handler \in {"idle", "acknowledged"}
    /\ rpc \in {"loop", "execute", "fetch", "idle", "break", "wakeup"}
    /\ at \in Places
    /\ rpc \in {"loop", "execute"} => at[2] <= Len(snap) + 1
    /\ stack \in [Slots -> Places]
    /\ \A q \in Queues : done[q] <= issued[q] /\ issued[q] <= MaxIssued[q]
    /\ syncDone <= Len(syncAt)
    /\ BufferFits

\* A buffer is cleared only when the RSP does not read from it and will not
\* come back to it: rspq_next_buffer waits for SIG_BUFDONE for that.
ClearedUnused ==
    todo # <<>> /\ Head(todo) = "switch" /\ ctx = "low" =>
        LET new == <<ctx, 1 - idx[ctx]>> IN
        /\ at[1] # new
        /\ "HIGHPRI_RUNNING" \in status => stack["low"][1] # new

\* A syncpoint that counts as reached has been: whatever was issued before it
\* is executed, and no syncpoint is lost between the signal, the interrupt and
\* the handler.
Reached == IF syncDone = 0 THEN 0 ELSE syncAt[syncDone]
Uncounted == IF "SYNCPOINT" \in status THEN 1 ELSE 0
SyncpointsExact ==
    /\ Reached <= done["low"]
    /\ syncDone <= Len(syncAt)
    /\ \A i \in 1..Len(syncAt) :
           syncAt[i] <= done["low"] => i <= syncDone + Uncounted
    /\ "SYNCPOINT" \in status => "INTR" \in status \/ handler = "acknowledged"

\* The RSP does not sleep with work left.  rspq_flush: when it halts it has
\* executed all that was flushed, except that commands of low priority stay
\* behind an open sequence of high priority.  And nobody waits for an RSP that
\* sleeps: not rspq_next_buffer for a buffer, not rspq_highpri_sync for the end
\* of a sequence, not rspq_syncpoint_wait.
Asleep == rpc = "wakeup" /\ "HALTED" \in status
Waiting == \/ Doing("wait bufdone") /\ Bufdone(ctx) \notin status
           \/ Doing("not high?")
              /\ status \cap {"HIGHPRI_REQUESTED", "HIGHPRI_RUNNING"} # {}
           \/ Doing("syncpoint?") /\ syncDone < Len(syncAt)
SleepsOnlyDone ==
    Asleep =>
        /\ Free /\ ~ fresh => /\ done["high"] = issued["high"]
                              /\ ctx = "low" => done["low"] = issued["low"]
        /\ Waiting => "INTR" \in status

\* rspq_highpri_sync returns when all commands of high priority issued so far
\* are executed.
SyncedHigh == (WaitHalted \/ WaitNotHigh) => done["high"] = issued["high"]
HighSyncWaits == [][SyncedHigh]_vars

\* The two queues of the specification.
Running == IF "HIGHPRI_RUNNING" \in status THEN "high" ELSE "low"
Abstract == INSTANCE CommandQueues WITH running <- Running
ImplementsQueues == Abstract!Spec
=============================================================================

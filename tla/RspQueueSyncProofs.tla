------------------------- MODULE RspQueueSyncProofs -------------------------
(***************************************************************************)
(* Theorems about the RSP queue: syncpoints, the sleep of the RSP, the     *)
(* wait for the sequences of high priority, and the room in the buffers.   *)
(* They rest on the invariant Held of RspQueueProofs, and each adds one of *)
(* its own: Synced, Flushed and Fits.                                      *)
(***************************************************************************)
EXTENDS RspQueueProofs

(* The syncpoints.  The first s of those in S are the ones among the first *)
(* d commands of m.                                                        *)
Counting(S, s, d, m) ==
  /\ s <= Len(S)
  /\ \A i \in 1 .. Len(S) : S[i] \in 1 .. m /\ (S[i] <= d <=> i <= s)
  /\ \A i, j \in 1 .. Len(S) : i < j => S[i] < S[j]

LEMMA CountingOther ==
  ASSUME NEW S \in Seq(Nat), NEW s \in Nat, NEW d \in Nat, NEW m \in Nat, Counting(S, s, d, m),
         \A i \in 1 .. Len(S) : S[i] # d + 1
  PROVE  Counting(S, s, d + 1, m)
<1>1. \A i \in 1 .. Len(S) : S[i] \in Nat
  OBVIOUS
<1>2. \A i \in 1 .. Len(S) : S[i] <= d + 1 <=> S[i] <= d
  BY <1>1
<1> QED
  BY <1>2 DEF Counting

LEMMA CountingNext ==
  ASSUME NEW S \in Seq(Nat), NEW s \in Nat, NEW d \in Nat, NEW m \in Nat, Counting(S, s, d, m),
         NEW h \in 1 .. Len(S), S[h] = d + 1
  PROVE  Counting(S, s + 1, d + 1, m)
<1>1. Len(S) \in Nat /\ \A i \in 1 .. Len(S) : S[i] \in Nat
  OBVIOUS
<1>2. ~ (S[h] <= d) /\ ~ (h <= s)
  BY DEF Counting
<1>3. h = s + 1
  <2> SUFFICES ASSUME h > s + 1 PROVE FALSE
    BY <1>1, <1>2
  <2>1. s + 1 \in 1 .. Len(S) /\ ~ (s + 1 <= s)
    BY <1>1
  <2>2. S[s + 1] < S[h]
    BY <2>1 DEF Counting
  <2>3. S[s + 1] <= d
    BY <1>1, <2>1, <2>2
  <2> QED
    BY <2>1, <2>3 DEF Counting
<1>4. \A i \in 1 .. Len(S) : S[i] <= d + 1 <=> i <= s + 1
  <2> SUFFICES ASSUME NEW i \in 1 .. Len(S) PROVE S[i] <= d + 1 <=> i <= s + 1
    OBVIOUS
  <2>1. CASE i < h
    BY <1>1, <1>3, <2>1 DEF Counting
  <2>2. CASE i = h
    BY <1>1, <1>3, <2>2
  <2>3. CASE i > h
    <3>1. S[h] < S[i]
      BY <2>3 DEF Counting
    <3> QED
      BY <1>1, <1>3, <2>3, <3>1
  <2> QED
    BY <1>1, <2>1, <2>2, <2>3
<1> QED
  BY <1>1, <1>3, <1>4 DEF Counting

LEMMA CountingIssued ==
  ASSUME NEW S \in Seq(Nat), NEW s \in Nat, NEW d \in Nat, NEW m \in Nat, Counting(S, s, d, m),
         d <= m
  PROVE  Counting(S, s, d, m + 1) /\ Counting(Append(S, m + 1), s, d, m + 1)
<1>1. Counting(S, s, d, m + 1)
  BY DEF Counting
<1>2. PICK T : T = Append(S, m + 1)
  OBVIOUS
<1>3. /\ T \in Seq(Nat) /\ Len(T) = Len(S) + 1 /\ Len(S) \in Nat
      /\ \A i \in 1 .. Len(S) : T[i] = S[i]
      /\ T[Len(S) + 1] = m + 1
  BY <1>2, AppendProperties
<1>4. \A i \in 1 .. Len(T) : i \in 1 .. Len(S) \/ i = Len(S) + 1
  BY <1>3
<1>5. s <= Len(T)
  BY <1>3 DEF Counting
<1>6. \A i \in 1 .. Len(T) : T[i] \in 1 .. (m + 1) /\ (T[i] <= d <=> i <= s)
  <2> SUFFICES ASSUME NEW i \in 1 .. Len(T) PROVE T[i] \in 1 .. (m + 1) /\ (T[i] <= d <=> i <= s)
    OBVIOUS
  <2>1. CASE i \in 1 .. Len(S)
    BY <1>1, <1>3, <2>1 DEF Counting
  <2>2. CASE i = Len(S) + 1
    BY <1>3, <2>2 DEF Counting
  <2> QED
    BY <1>4, <2>1, <2>2
<1>7. \A i, j \in 1 .. Len(T) : i < j => T[i] < T[j]
  <2> SUFFICES ASSUME NEW i \in 1 .. Len(T), NEW j \in 1 .. Len(T), i < j PROVE T[i] < T[j]
    OBVIOUS
  <2>1. i \in 1 .. Len(S)
    BY <1>3
  <2>2. CASE j \in 1 .. Len(S)
    BY <1>3, <2>1, <2>2 DEF Counting
  <2>3. CASE j = Len(S) + 1
    <3>1. S[i] \in 1 .. m
      BY <2>1 DEF Counting
    <3> QED
      BY <1>3, <2>1, <2>3, <3>1
  <2> QED
    BY <1>4, <2>2, <2>3
<1> QED
  BY <1>1, <1>2, <1>5, <1>6, <1>7 DEF Counting

(* A command of low priority in a buffer is that of a syncpoint if and     *)
(* only if its number is.                                                  *)
Marked ==
  \A b \in Buffers : \A k \in 1 .. Len(buf[b]) :
    b[1] = "low" /\ Numbered(buf[b][k]) => (buf[b][k].op = "TEST" <=> IsSyncpoint(buf[b][k].n))

Interrupts == "SYNCPOINT" \in status => "INTR" \in status \/ handler = "acknowledged"

LEMMA MarkedKept ==
  ASSUME Marked, syncAt' = syncAt,
         \A b \in Buffers : \A k \in 1 .. Len(buf'[b]) :
           b[1] = "low" /\ Numbered(buf'[b][k]) => k \in 1 .. Len(buf[b]) /\ buf'[b][k] = buf[b][k]
  PROVE  Marked'
  BY DEF Marked, IsSyncpoint

LEMMA MarkedAppend ==
  ASSUME Types, Marked, NEW b \in Buffers, NEW c \in Commands, Append2(b, c),
         ~ Numbered(c) \/ b[1] # "low", syncAt' = syncAt
  PROVE  Marked'
<1>1. /\ buf[b] \in Seq(Commands) /\ buf'[b] = Append(buf[b], c)
      /\ \A d \in Buffers \ {b} : buf'[d] = buf[d]
  BY DEF Types, Append2
<1>2. PICK s \in Seq(Commands) : s = buf[b]
  BY <1>1
<1>3. PICK n \in Nat : n = Len(s)
  BY SomeLength
<1>4. /\ Len(Append(s, c)) = n + 1 /\ Append(s, c)[n + 1] = c
      /\ \A i \in 1 .. n : Append(s, c)[i] = s[i]
  BY <1>3, Appended
<1>5. \A k \in 1 .. (n + 1) : k \in 1 .. n \/ k = n + 1
  BY <1>3
<1>6. \A k \in 1 .. Len(buf'[b]) : (k \in 1 .. Len(buf[b]) /\ buf'[b][k] = buf[b][k]) \/ buf'[b][k] = c
  BY <1>1, <1>2, <1>3, <1>4, <1>5
<1> QED
  BY <1>1, <1>6, MarkedKept

LEMMA MarkedCalls ==
  ASSUME NEW D, Types, Queue(D), Marked, CallStep
  PROVE  Marked' /\ syncAt' = syncAt
<1>1. /\ ctx \in Queues /\ Active(ctx) \in Buffers /\ Other(ctx) \in Buffers
      /\ Active("high") \in Buffers /\ Active("high")[1] = "high"
      /\ buf \in [Buffers \cup {Block} -> Seq(Commands)]
  BY TheBuffers DEF Types
<1>2. CASE buf' = buf /\ syncAt' = syncAt
  BY <1>2, MarkedKept
<1>3. CASE SwitchBuffer
  <2>1. /\ buf' = [buf EXCEPT ![Other(ctx)] = <<>>] /\ syncAt' = syncAt
    BY <1>3 DEF SwitchBuffer, Other, history
  <2>2. \A k : ~ (k \in 1 .. Len(<<>>))
    BY NoPlace
  <2>3. buf'[Other(ctx)] = <<>> /\ \A b \in Buffers \ {Other(ctx)} : buf'[b] = buf[b]
    BY <1>1, <2>1
  <2> QED
    BY <2>1, <2>2, <2>3, MarkedKept
<1>4. ASSUME NEW s, NEW i, Patch(s, i) PROVE Marked' /\ syncAt' = syncAt
  <2>1. buf' = [buf EXCEPT ![Active("high")][i] = Jump(Cursor("high"))]
    BY <1>4 DEF Patch
  <2>2. \A b \in Buffers \ {Active("high")} : buf'[b] = buf[b]
    BY <2>1
  <2>3. Active("high")[1] # "low"
    BY <1>1
  <2>4. syncAt' = syncAt
    BY <1>4 DEF Patch, history
  <2> QED
    BY <2>2, <2>3, <2>4, MarkedKept
<1>5. ASSUME NEW s, NEW a \in Buffers, NEW c \in Commands, AppendStep(s, a, c), ~ Numbered(c)
      PROVE  Marked' /\ syncAt' = syncAt
  BY <1>5, MarkedAppend DEF AppendStep
<1>6. /\ HandsOver(ctx) \in Commands /\ Leaves(ctx) \in Commands
      /\ ~ Numbered(HandsOver(ctx)) /\ ~ Numbered(Leaves(ctx))
  <2>1. <<Active("low"), 1>> \in Places /\ <<Active("high"), 1>> \in Places
    <3>1. Active("low") \in Buffers /\ 1 \in Nat \ {0}
      BY TheBuffers DEF Types
    <3> QED
      BY <1>1, <3>1, ThePlaces
  <2> QED
    BY <1>1, <2>1, Unlike, CommandTypes DEF HandsOver, Leaves, Queues
<1>7. CASE HandOff
  <2>1. AppendStep("hand off", Other(ctx), HandsOver(ctx))
    BY <1>7 DEF HandOff, Other, HandsOver, Handover, Bufdone
  <2> QED
    BY <1>1, <1>5, <1>6, <2>1
<1>8. CASE Leave
  <2>1. AppendStep("leave", Other(ctx), Leaves(ctx))
    BY <1>1, <1>8 DEF Leave, Other, Leaves, LeaveLow, Bufdone, Queues
  <2> QED
    BY <1>1, <1>5, <1>6, <2>1
<1>9. CASE Prolog
  <2>1. AppendStep("prolog", Active("high"), Opening)
    BY <1>9 DEF Prolog, Opening
  <2>2. Opening \in Commands /\ ~ Numbered(Opening)
    BY Unlike, CommandTypes
  <2> QED
    BY <1>1, <1>5, <2>1, <2>2
<1>10. CASE JumpEpilog
  <2>1. PICK p : p = <<Active("high"), Len(buf[Active("high")]) + 2>>
    OBVIOUS
  <2>2. p \in Places
    <3>1. Len(buf[Active("high")]) \in Nat
      BY <1>1, SomeLength
    <3>2. Len(buf[Active("high")]) + 2 \in Nat \ {0}
      BY ONLY <3>1
    <3> QED
      BY <1>1, <2>1, <3>2, ThePlaces
  <2>3. AppendStep("jump epilog", Active("high"), Jump(p))
    BY <1>10, <2>1 DEF JumpEpilog
  <2>4. Jump(p) \in Commands /\ ~ Numbered(Jump(p))
    BY <2>2, Unlike, CommandTypes
  <2> QED
    BY <1>1, <1>5, <2>3, <2>4
<1>11. CASE SwapEpilog
  <2>1. AppendStep("swap epilog", Active("high"), LeaveHigh)
    BY <1>11 DEF SwapEpilog, LeaveHigh
  <2>2. LeaveHigh \in Commands /\ ~ Numbered(LeaveHigh)
    BY Unlike, CommandTypes
  <2> QED
    BY <1>1, <1>5, <2>1, <2>2
<1>12. CASE PatchEpilog \/ PatchSwap
  BY <1>4, <1>12 DEF PatchEpilog, PatchSwap
<1>13. CASE \/ FlushMore \/ FlushMoreAgain \/ CheckBufdone \/ WaitBufdone \/ ClearBufdone
            \/ RequestHighpri \/ LowContext \/ WaitHalted \/ WaitNotHigh \/ WaitSyncpoint
  <2>1. buf' = buf /\ syncAt' = syncAt
    BY <1>13 DEF FlushMore, FlushMoreAgain, CheckBufdone, WaitBufdone, ClearBufdone,
         RequestHighpri, LowContext, WaitHalted, WaitNotHigh, WaitSyncpoint, WriteSpStatus, Wait,
         memory, history
  <2> QED
    BY <1>2, <2>1
<1> QED
  BY <1>3, <1>7, <1>8, <1>9, <1>10, <1>11, <1>12, <1>13 DEF CallStep

Synced ==
  /\ Counting(syncAt, syncDone + Uncounted, done["low"], issued["low"])
  /\ Interrupts /\ Marked

SameSyncs == /\ UNCHANGED <<syncAt, syncDone, handler>>
             /\ "SYNCPOINT" \in status' <=> "SYNCPOINT" \in status
             /\ "INTR" \in status' <=> "INTR" \in status

LEMMA SyncedKept ==
  ASSUME Synced, SameSyncs, done'["low"] = done["low"], issued'["low"] = issued["low"], Marked'
  PROVE  Synced'
<1>1. Uncounted' = Uncounted
  BY DEF Uncounted, SameSyncs
<1>2. Interrupts'
  BY DEF Interrupts, SameSyncs, Synced
<1> QED
  BY <1>1, <1>2 DEF Synced, SameSyncs

LEMMA SyncedCalls ==
  ASSUME NEW D, Types, Queue(D), Synced, CallStep
  PROVE  Synced'
<1>1. Marked' /\ syncAt' = syncAt
  BY MarkedCalls DEF Synced
<1>2. UNCHANGED <<syncDone, handler, done, issued>>
  BY DEF CallStep, FlushMore, FlushMoreAgain, CheckBufdone, WaitBufdone, ClearBufdone,
         SwitchBuffer, HandOff, Leave, PatchEpilog, PatchSwap, Patch, RequestHighpri, Prolog,
         JumpEpilog, SwapEpilog, LowContext, WaitHalted, WaitNotHigh, WaitSyncpoint,
         WriteSpStatus, Wait, AppendStep, history
<1>3. \/ status' = status
      \/ \E s \in {"HALTED", "BUFDONE_LOW", "BUFDONE_HIGH"}, t \in {"MORE", "HIGHPRI_REQUESTED"} :
           status' \in {Signal({s}, {t}), Signal({s}, {}), Signal({}, {t})}
  <2>1. Bufdone(ctx) \in {"BUFDONE_LOW", "BUFDONE_HIGH"}
    BY DEF Bufdone
  <2>2. CASE FlushMore \/ FlushMoreAgain \/ ClearBufdone \/ RequestHighpri
    BY <2>1, <2>2 DEF FlushMore, FlushMoreAgain, ClearBufdone, RequestHighpri, WriteSpStatus
  <2>3. CASE ~ (FlushMore \/ FlushMoreAgain \/ ClearBufdone \/ RequestHighpri)
    <3>1. status' = status
      BY <2>3
         DEF CallStep, CheckBufdone, WaitBufdone, SwitchBuffer, HandOff, Leave, PatchEpilog,
             PatchSwap, Patch, Prolog, JumpEpilog, SwapEpilog, LowContext, WaitHalted, WaitNotHigh,
             WaitSyncpoint, Wait, AppendStep
    <3> QED
      BY <3>1
  <2> QED
    BY <2>2, <2>3
<1>4. SameSyncs
  BY <1>1, <1>2, <1>3 DEF SameSyncs, Signal
<1> QED
  BY <1>1, <1>2, <1>4, SyncedKept

LEMMA SyncedProgram ==
  ASSUME NEW D, Types, Queue(D), Synced,
         RspqFlush \/ RspqSyncpointWait \/ RspqHighpriBegin \/ RspqHighpriEnd \/ RspqHighpriSync
  PROVE  Synced'
<1>1. \E steps : StartCall(steps)
  BY DEF RspqFlush, RspqSyncpointWait, RspqHighpriBegin, RspqHighpriEnd, RspqHighpriSync
<1>2. UNCHANGED <<buf, status, handler, syncDone, syncAt, done, issued>>
  BY <1>1 DEF StartCall, memory, history
<1>3. Marked'
  BY <1>2, MarkedKept DEF Synced
<1> QED
  BY <1>2, <1>3, SyncedKept DEF SameSyncs

LEMMA SyncedInterrupts ==
  ASSUME Types, Synced, Acknowledge \/ SpInterrupt
  PROVE  Synced'
<1>1. UNCHANGED <<buf, syncAt, done, issued>>
  BY DEF Acknowledge, SpInterrupt, memory, history
<1>2. Marked'
  BY <1>1, MarkedKept DEF Synced
<1>3. CASE Acknowledge
  <2>1. UNCHANGED syncDone /\ Interrupts' /\ Uncounted' = Uncounted
    BY <1>3 DEF Acknowledge, Uncounted, Signal, Interrupts
  <2> QED
    BY <1>1, <1>2, <2>1 DEF Synced
<1>4. CASE SpInterrupt
  <2>1. syncDone' = syncDone + Uncounted /\ Interrupts' /\ Uncounted' = 0
    BY <1>4 DEF SpInterrupt, Uncounted, Signal, Interrupts
  <2>2. syncDone \in Nat /\ Uncounted \in {0, 1}
    BY DEF Types, Uncounted
  <2>3. syncDone' + Uncounted' = syncDone + Uncounted
    BY ONLY <2>1, <2>2
  <2> QED
    BY <1>1, <1>2, <2>1, <2>3 DEF Synced
<1> QED
  BY <1>3, <1>4

LEMMA SyncedBetween ==
  ASSUME NEW D, Types, Waited, Queue(D), Synced, Between
  PROVE  Synced'
<1>1. SamePlaces /\ SameCpu
  BY BetweenCalls
<1>2. Marked'
  BY <1>1, MarkedKept DEF SameCpu, Synced
<1>3. "SYNCPOINT" \in status' <=> "SYNCPOINT" \in status
  BY DEF Between, RspLoop, RspRefetch, RspFetch, RspWaitNewInput, RspBreak, RspWakeup, Signal
<1>4. "INTR" \in status' <=> "INTR" \in status
  BY DEF Between, RspLoop, RspRefetch, RspFetch, RspWaitNewInput, RspBreak, RspWakeup, Signal
<1> QED
  BY <1>1, <1>2, <1>3, <1>4, SyncedKept DEF SamePlaces, SameCpu, SameSyncs

(* A new command.                                                          *)
LEMMA NewSyncpoint ==
  ASSUME NEW S \in Seq(Nat), NEW n, NEW T, T = Append(S, n)
  PROVE  \A m : (\E i \in 1 .. Len(T) : T[i] = m) <=> (m = n \/ \E i \in 1 .. Len(S) : S[i] = m)
<1>1. /\ Len(T) = Len(S) + 1 /\ Len(S) \in Nat
      /\ \A i \in 1 .. Len(S) : T[i] = S[i]
      /\ T[Len(S) + 1] = n
  OBVIOUS
<1>2. \A i \in 1 .. Len(T) : i \in 1 .. Len(S) \/ i = Len(S) + 1
  BY <1>1
<1>3. Len(S) + 1 \in 1 .. Len(T) /\ \A i \in 1 .. Len(S) : i \in 1 .. Len(T)
  BY <1>1
<1> QED
  BY <1>1, <1>2, <1>3

LEMMA MarkedWrite ==
  ASSUME NEW D, Types, Queue(D), Synced, NEW c \in Commands, Numbered(c),
         Append2(Active("low"), c), NEW n, n = issued["low"] + 1, c.n = n,
         \/ c.op # "TEST" /\ syncAt' = syncAt
         \/ c.op = "TEST" /\ syncAt' = Append(syncAt, n)
  PROVE  Marked'
<1>1. /\ Active("low") \in Buffers /\ "low" \in Queues /\ issued["low"] \in Nat
      /\ syncAt \in Seq(Nat)
  BY TheBuffers DEF Types
<1>2. PICK a \in Buffers : a = Active("low")
  BY <1>1
<1>3. /\ buf[a] \in Seq(Commands) /\ buf'[a] = Append(buf[a], c)
      /\ \A b \in Buffers \ {a} : buf'[b] = buf[b]
  BY <1>2 DEF Types, Append2
<1>4. PICK s \in Seq(Commands) : s = buf[a]
  BY <1>3
<1>5. PICK l \in Nat : l = Len(s)
  BY SomeLength
<1>6. /\ Len(Append(s, c)) = l + 1 /\ Append(s, c)[l + 1] = c
      /\ \A i \in 1 .. l : Append(s, c)[i] = s[i]
  BY <1>5, Appended
<1>7. \A k \in 1 .. (l + 1) : k \in 1 .. l \/ k = l + 1
  BY <1>5
<1>8. \A b \in Buffers : \A k \in 1 .. Len(buf'[b]) :
         \/ k \in 1 .. Len(buf[b]) /\ buf'[b][k] = buf[b][k]
         \/ buf'[b][k] = c
  BY <1>3, <1>4, <1>5, <1>6, <1>7, SMTT(40)
<1>9. ASSUME NEW b \in Buffers, NEW k \in 1 .. Len(buf[b]), b[1] = "low", Numbered(buf[b][k])
      PROVE  buf[b][k].n # n
  <2>1. Len(buf[b]) \in Nat
    BY SomeLength DEF Types
  <2>2. k \in Nat /\ k + 1 \in 1 .. (Len(buf[b]) + 1)
    BY ONLY <2>1, k \in 1 .. Len(buf[b])
  <2>3. buf[b][k].n = D[b][k + 1]
    BY <1>9, <2>2, NextCount DEF Queue
  <2>4. b \in {Active("low"), Other("low")}
    BY <1>9, TheBuffers DEF Types
  <2>5. D[b][k + 1] <= issued["low"]
    BY <1>1, <2>2, <2>4, WithinIssued DEF Queue
  <2>6. D[b][k + 1] \in Nat
    BY <2>2 DEF Queue, Counts, Numbers
  <2>7. D[b][k + 1] # issued["low"] + 1
    BY ONLY <1>1, <2>5, <2>6
  <2> QED
    BY <2>3, <2>7
<1>10. ~ IsSyncpoint(n)
  <2>1. \A i \in 1 .. Len(syncAt) : syncAt[i] \in 1 .. issued["low"]
    BY DEF Synced, Counting
  <2>2. ~ (issued["low"] + 1 \in 1 .. issued["low"])
    BY ONLY <1>1
  <2> QED
    BY <2>1, <2>2 DEF IsSyncpoint
<1>11. \A m : m # n => (IsSyncpoint(m)' <=> IsSyncpoint(m))
  <2>1. CASE syncAt' = syncAt
    BY <2>1 DEF IsSyncpoint
  <2>2. CASE syncAt' = Append(syncAt, n)
    <3>1. \A m : (\E i \in 1 .. Len(syncAt') : syncAt'[i] = m)
                 <=> (m = n \/ \E i \in 1 .. Len(syncAt) : syncAt[i] = m)
      BY <1>1, <2>2, NewSyncpoint, SMTT(40)
    <3> QED
      BY <3>1 DEF IsSyncpoint
  <2> QED
    BY <2>1, <2>2
<1>12. IsSyncpoint(n)' <=> c.op = "TEST"
  BY <1>1, <1>10, NewSyncpoint DEF IsSyncpoint
<1>13. \A b \in Buffers : \A k \in 1 .. Len(buf[b]) : \A m :
          b[1] = "low" /\ Numbered(buf[b][k]) /\ m = buf[b][k].n
            => (buf[b][k].op = "TEST" <=> IsSyncpoint(m)')
  <2> SUFFICES ASSUME NEW b \in Buffers, NEW k \in 1 .. Len(buf[b]), NEW m, b[1] = "low",
                      Numbered(buf[b][k]), m = buf[b][k].n
               PROVE  buf[b][k].op = "TEST" <=> IsSyncpoint(m)'
    OBVIOUS
  <2>1. m # n
    BY <1>9
  <2>2. buf[b][k].op = "TEST" <=> IsSyncpoint(m)
    BY DEF Synced, Marked
  <2>3. IsSyncpoint(m)' <=> IsSyncpoint(m)
    BY <1>11, <2>1
  <2> QED
    BY <2>2, <2>3
<1> SUFFICES ASSUME NEW b \in Buffers, NEW k \in 1 .. Len(buf'[b]), NEW m, b[1] = "low",
                    Numbered(buf'[b][k]), m = buf'[b][k].n
             PROVE  buf'[b][k].op = "TEST" <=> IsSyncpoint(m)'
  BY DEF Marked, IsSyncpoint
<1>14. CASE k \in 1 .. Len(buf[b]) /\ buf'[b][k] = buf[b][k]
  BY <1>13, <1>14
<1>15. CASE buf'[b][k] = c
  <2>1. m = n
    BY <1>15
  <2>2. IsSyncpoint(m)' <=> IsSyncpoint(n)'
    BY <2>1
  <2> QED
    BY <1>12, <1>15, <2>2
<1> QED
  BY <1>8, <1>14, <1>15

LEMMA SyncedWrites ==
  ASSUME NEW D, Types, Queue(D), Synced, RspqWrite \/ RspqBlockRun \/ RspqSyncpointNew
  PROVE  Synced'
<1>1. /\ "low" \in Queues /\ "high" \in Queues /\ issued \in [Queues -> Nat]
      /\ syncAt \in Seq(Nat) /\ syncDone \in Nat /\ done["low"] \in Nat /\ issued["low"] \in Nat
  BY DEF Types, Queues
<1>2. done["low"] <= issued["low"]
  BY <1>1, DoneIssued
<1>3. Uncounted \in {0, 1}
  BY DEF Uncounted
<1>4. syncDone + Uncounted \in Nat
  BY ONLY <1>1, <1>3
<1>5. /\ Counting(syncAt, syncDone + Uncounted, done["low"], issued["low"] + 1)
      /\ Counting(Append(syncAt, issued["low"] + 1), syncDone + Uncounted, done["low"],
                  issued["low"] + 1)
  BY <1>1, <1>2, <1>4, CountingIssued DEF Synced
<1>6. ASSUME NEW c \in Commands, Write("low", c), Numbered(c), c.n = issued["low"] + 1,
             \/ c.op # "TEST" /\ syncAt' = syncAt
             \/ c.op = "TEST" /\ syncAt' = Append(syncAt, issued["low"] + 1)
      PROVE  Synced'
  <2>1. /\ issued'["low"] = issued["low"] + 1 /\ UNCHANGED <<status, handler, syncDone, done>>
        /\ Append2(Active("low"), c)
    BY <1>1, <1>6 DEF Write
  <2>2. Marked'
    BY <1>6, <2>1, MarkedWrite
  <2>3. Interrupts' /\ Uncounted' = Uncounted
    BY <2>1 DEF Interrupts, Uncounted, Synced
  <2> QED
    BY <1>5, <1>6, <2>1, <2>2, <2>3 DEF Synced
<1>7. Number("low") = issued["low"] + 1 /\ issued["low"] + 1 \in Nat
  BY <1>1 DEF Number
<1>8. /\ Cmd("low", Number("low")) \in Commands /\ Call(Number("low")) \in Commands
      /\ TestWriteStatus(Number("low")) \in Commands
  BY <1>1, <1>7, CommandTypes
<1>9. CASE RspqSyncpointNew
  BY <1>6, <1>7, <1>8, <1>9, CommandFields DEF RspqSyncpointNew, Numbered
<1>10. CASE RspqBlockRun
  BY <1>6, <1>7, <1>8, <1>10, CommandFields DEF RspqBlockRun, Numbered
<1>11. CASE RspqWrite
  <2>1. PICK q \in Queues : Write(q, Cmd(q, Number(q))) /\ UNCHANGED syncAt
    BY <1>11 DEF RspqWrite
  <2>2. CASE q = "low"
    BY <1>6, <1>7, <1>8, <2>1, <2>2, CommandFields DEF Numbered
  <2>3. CASE q = "high"
    <3>1. /\ issued'["low"] = issued["low"] /\ UNCHANGED <<status, handler, syncDone, done>>
          /\ Append2(Active("high"), Cmd("high", Number("high")))
      BY <1>1, <2>1, <2>3 DEF Write
    <3>2. /\ Active("high") \in Buffers /\ Active("high")[1] # "low"
          /\ Cmd("high", Number("high")) \in Commands
      <4>1. Number("high") \in Nat
        BY <1>1 DEF Number
      <4> QED
        BY <1>1, <4>1, TheBuffers, CommandTypes DEF Types
    <3>3. Marked'
      BY <2>1, <3>1, <3>2, MarkedAppend DEF Synced
    <3> QED
      BY <2>1, <3>1, <3>3, SyncedKept DEF SameSyncs
  <2> QED
    BY <2>2, <2>3 DEF Queues
<1> QED
  BY <1>9, <1>10, <1>11

(* The RSP executes one command more of low priority.                      *)
LEMMA SyncedOther ==
  ASSUME Types, Synced, SameSyncs, done'["low"] = done["low"] + 1, issued'["low"] = issued["low"],
         Marked', ~ IsSyncpoint(done["low"] + 1)
  PROVE  Synced'
<1>1. Uncounted' = Uncounted /\ Interrupts'
  BY DEF Uncounted, SameSyncs, Interrupts, Synced
<1>2. /\ syncAt \in Seq(Nat) /\ syncDone \in Nat /\ done["low"] \in Nat /\ issued["low"] \in Nat
  BY DEF Types, Queues
<1>3. Uncounted \in {0, 1}
  BY DEF Uncounted
<1>4. syncDone + Uncounted \in Nat
  BY ONLY <1>2, <1>3
<1>5. \A i \in 1 .. Len(syncAt) : syncAt[i] # done["low"] + 1
  BY DEF IsSyncpoint
<1>6. Counting(syncAt, syncDone + Uncounted, done["low"] + 1, issued["low"])
  BY <1>2, <1>4, <1>5, CountingOther DEF Synced
<1> QED
  BY <1>1, <1>6 DEF Synced, SameSyncs

LEMMA SyncedNext ==
  ASSUME Types, Synced, UNCHANGED <<syncAt, syncDone, handler>>, "SYNCPOINT" \notin status,
         status' = Signal({}, {"SYNCPOINT", "INTR"}),
         done'["low"] = done["low"] + 1, issued'["low"] = issued["low"],
         Marked', IsSyncpoint(done["low"] + 1)
  PROVE  Synced'
<1>1. Uncounted = 0 /\ Uncounted' = 1 /\ Interrupts'
  BY DEF Uncounted, Signal, Interrupts
<1>2. /\ syncAt \in Seq(Nat) /\ syncDone \in Nat /\ done["low"] \in Nat /\ issued["low"] \in Nat
  BY DEF Types, Queues
<1>3. PICK h \in 1 .. Len(syncAt) : syncAt[h] = done["low"] + 1
  BY DEF IsSyncpoint
<1>4. syncDone + Uncounted = syncDone
  BY ONLY <1>1, <1>2
<1>5. Counting(syncAt, syncDone, done["low"], issued["low"])
  BY <1>4 DEF Synced
<1>6. Counting(syncAt, syncDone + 1, done["low"] + 1, issued["low"])
  BY <1>2, <1>3, <1>5, CountingNext
<1> QED
  BY <1>1, <1>6 DEF Synced

(* The number of a command in a buffer of low priority.                    *)
LEMMA MarkedNumber ==
  ASSUME NEW D, Types, Queue(D), Marked, NEW b \in Buffers, b[1] = "low",
         NEW k \in Nat, k \in 1 .. Len(buf[b]), Numbered(buf[b][k])
  PROVE  buf[b][k].op = "TEST" <=> IsSyncpoint(D[b][k + 1])
<1>1. buf[b][k].n = D[b][k + 1]
  BY NextCount DEF Queue
<1> QED
  BY <1>1 DEF Marked

LEMMA SyncedExecutes ==
  ASSUME NEW D, Types, Queue(D), Synced, RspExecute
  PROVE  Synced'
<1>1. UNCHANGED <<buf, syncAt, syncDone, handler, issued>>
  BY Effects DEF SameCpu
<1>2. Marked'
  BY <1>1, MarkedKept DEF Synced
<1>3. /\ "low" \in Queues /\ "high" \in Queues /\ done \in [Queues -> Nat]
      /\ issued'["low"] = issued["low"]
  BY <1>1 DEF Types, Queues
<1>4. ASSUME SameSyncs, done'["low"] = done["low"] PROVE Synced'
  BY <1>2, <1>3, <1>4, SyncedKept
<1>5. cmd.op \notin {"STATUS", "SWAP", "TEST"} => SameSyncs
  BY <1>1, Effects DEF SameSyncs
<1>6. cmd \in {EnterHigh, LeaveHigh, LeaveLow, Opening, Handover} => SameSyncs
  BY <1>1, Effects, CommandFields DEF SameSyncs, Signal
<1>7. CASE cmd = EnterHigh
  BY <1>4, <1>6, <1>7, EnterStep
<1>8. CASE cmd # EnterHigh /\ at[1] = Block
  <2>1. cmd \in {Body, Ret}
    BY <1>8, Effects, InFlightBlock
  <2>2. SameSyncs
    BY <1>5, <2>1, CommandFields
  <2>3. CASE cmd = Ret
    <3>1. done' = done
      BY <1>8, <2>3, BlockStep, CommandFields
    <3> QED
      BY <1>4, <2>2, <3>1
  <2>4. CASE cmd = Body
    <3>1. /\ done' = [done EXCEPT !["low"] = @ + 1]
          /\ D[Spot("low")[1]][Spot("low")[2]] = done["low"] + 1
          /\ Spot("low")[2] > 1
          /\ buf[Spot("low")[1]][Spot("low")[2] - 1].op = "CALL"
      BY <1>8, <2>4, BlockStep, CommandFields
    <3>2. PICK b : b = Spot("low")[1]
      OBVIOUS
    <3>3. PICK p : p = Spot("low")[2]
      OBVIOUS
    <3>4. /\ b \in {Active("low"), Other("low")} /\ p \in 1 .. (Len(buf[b]) + 1)
      BY <1>3, <3>2, <3>3 DEF Queue, Stand, Stands
    <3>5. b \in Buffers /\ b[1] = "low" /\ Len(buf[b]) \in Nat
      <4>1. b \in Buffers /\ b[1] = "low"
        BY <1>3, <3>4, TheBuffers DEF Types
      <4> QED
        BY <4>1, SomeLength DEF Types
    <3>6. p > 1 /\ buf[b][p - 1].op = "CALL" /\ D[b][p] = done["low"] + 1
      BY <3>1, <3>2, <3>3
    <3>7. p - 1 \in 1 .. Len(buf[b]) /\ p - 1 \in Nat
      BY <3>4, <3>5, <3>6, InFront
    <3>8. (p - 1) + 1 = p
      BY ONLY <3>4, <3>5
    <3>9. ~ IsSyncpoint(done["low"] + 1)
      <4>1. Numbered(buf[b][p - 1])
        BY <3>6 DEF Numbered
      <4>2. ~ IsSyncpoint(D[b][(p - 1) + 1])
        BY <3>5, <3>6, <3>7, <4>1, MarkedNumber DEF Synced
      <4> QED
        BY <3>6, <3>8, <4>2
    <3>10. done'["low"] = done["low"] + 1
      BY <1>3, <3>1
    <3> QED
      BY <1>2, <1>3, <2>2, <3>9, <3>10, SyncedOther
  <2> QED
    BY <2>1, <2>3, <2>4
<1>9. CASE cmd # EnterHigh /\ at[1] # Block
  <2>1. PICK b \in Buffers, k \in Nat \ {0} : Flight(D, b, k)
    BY <1>9, Effects, InFlight
  <2>2. k \in Nat /\ k \in 1 .. Len(buf[b])
    BY <2>1 DEF Flight
  <2>3. CASE High
    <3>1. CASE cmd = buf[b][k] /\ Numbered(cmd) /\ cmd = Cmd("high", cmd.n)
      <4>1. done' = [done EXCEPT !["high"] = D[b][k + 1]]
        BY <1>9, <2>1, <2>3, <3>1, HighCommand
      <4>2. done'["low"] = done["low"]
        BY <1>3, <4>1
      <4>3. cmd.op = "CMD"
        BY <3>1, CommandFields
      <4> QED
        BY <1>4, <1>5, <4>2, <4>3
    <3>2. CASE cmd = Opening /\ buf[b][k] = Opening
      BY <1>4, <1>6, <1>9, <2>1, <2>3, <3>2, HighOpening
    <3>3. CASE cmd = Handover /\ buf[b][k] = Handover
      BY <1>4, <1>6, <1>9, <2>1, <2>3, <3>3, HighHandover
    <3>4. CASE \/ cmd = Jump(<<b, k + 1>>) /\ buf[b][k] \in {Jump(<<b, k + 1>>), Jump(<<b, k + 2>>)}
               \/ cmd = Jump(<<b, k + 2>>) /\ buf[b][k] = Jump(<<b, k + 2>>)
               \/ cmd = Leaves("high") /\ buf[b][k] = Leaves("high")
      <4>1. cmd.op = "JUMP"
        BY <3>4, CommandFields DEF Leaves
      <4>2. done' = done
        BY <1>9, <2>1, <2>3, <3>4, HighNext, HighSkip, HighTurn
      <4> QED
        BY <1>4, <1>5, <4>1, <4>2
    <3>5. CASE cmd = LeaveHigh /\ buf[b][k] \in {LeaveHigh, Jump(<<b, k + 1>>)}
      BY <1>4, <1>6, <1>9, <2>1, <2>3, <3>5, HighLeave
    <3> QED
      BY <2>1, <2>3, <3>1, <3>2, <3>3, <3>4, <3>5, HighFlight
  <2>4. CASE ~ High
    <3>1. LowItem(b, k) /\ cmd = buf[b][k] /\ b[1] = "low"
      BY <2>1, <2>4, LowFlight
    <3>2. CASE Numbered(buf[b][k])
      <4>1. /\ done' = IF cmd.op = "CALL" THEN done ELSE [done EXCEPT !["low"] = D[b][k + 1]]
            /\ D[b][k + 1] = done["low"] + 1
        BY <1>9, <2>1, <2>4, <3>2, LowCommand
      <4>2. cmd.op = "TEST" <=> IsSyncpoint(done["low"] + 1)
        BY <2>2, <3>1, <3>2, <4>1, MarkedNumber DEF Synced
      <4>3. CASE cmd.op = "CALL"
        BY <1>4, <1>5, <4>1, <4>3
      <4>4. CASE cmd.op = "TEST"
        <5>1. "SYNCPOINT" \notin status /\ status' = Signal({}, {"SYNCPOINT", "INTR"})
          BY <4>4, Effects
        <5>2. done'["low"] = done["low"] + 1
          BY <1>3, <4>1, <4>4
        <5> QED
          BY <1>1, <1>2, <1>3, <4>2, <4>4, <5>1, <5>2, SyncedNext
      <4>5. CASE cmd.op = "CMD"
        <5>1. done'["low"] = done["low"] + 1
          BY <1>3, <4>1, <4>5
        <5>2. SameSyncs
          BY <1>5, <4>5
        <5> QED
          BY <1>2, <1>3, <4>2, <4>5, <5>1, <5>2, SyncedOther
      <4> QED
        BY <3>1, <3>2, <4>3, <4>4, <4>5 DEF Numbered
    <3>3. CASE buf[b][k] = HandsOver("low")
      <4>1. cmd.op = "WORD"
        BY <3>1, <3>3, CommandFields DEF HandsOver
      <4>2. done' = done
        BY <1>9, <2>1, <2>4, <3>3, LowWord
      <4> QED
        BY <1>4, <1>5, <4>1, <4>2
    <3>4. CASE buf[b][k] = Leaves("low")
      <4>1. cmd = LeaveLow
        BY <3>1, <3>4 DEF Leaves
      <4>2. done' = done
        BY <1>9, <2>1, <2>4, <3>4, LowTurn
      <4> QED
        BY <1>4, <1>6, <4>1, <4>2
    <3> QED
      BY <3>1, <3>2, <3>3, <3>4 DEF LowItem
  <2> QED
    BY <2>3, <2>4
<1> QED
  BY <1>7, <1>8, <1>9

LEMMA SyncedInit ==
  ASSUME Init
  PROVE  Synced
<1>1. Counting(syncAt, syncDone + Uncounted, done["low"], issued["low"])
  <2>1. syncAt = <<>> /\ syncDone = 0 /\ Uncounted = 0
    BY DEF Init, Uncounted
  <2>2. Len(syncAt) = 0 /\ syncDone + Uncounted = 0
    BY ONLY <2>1
  <2>3. PICK d, m : d = done["low"] /\ m = issued["low"]
    OBVIOUS
  <2>4. Counting(syncAt, 0, d, m)
    BY ONLY <2>2 DEF Counting
  <2> QED
    BY <2>2, <2>3, <2>4
<1>2. Interrupts
  BY DEF Init, Interrupts
<1>3. Marked
  <2>1. \A b \in Buffers : buf[b] = <<>>
    BY DEF Init, Buffers, Block, Queues
  <2>2. \A k : ~ (k \in 1 .. Len(<<>>))
    BY NoPlace
  <2> QED
    BY <2>1, <2>2 DEF Marked
<1> QED
  BY <1>1, <1>2, <1>3 DEF Synced


LEMMA SyncedHolds == ASSUME Prompt = TRUE PROVE Spec => []Synced
<1>1. Init => Synced
  BY SyncedInit
<1>2. Held /\ Synced /\ [Next]_vars => Synced'
  <2> SUFFICES ASSUME Held, Synced, [Next]_vars PROVE Synced'
    OBVIOUS
  <2>1. PICK D : Queue(D)
    BY DEF Held
  <2>2. CASE UNCHANGED vars
    <3>1. UNCHANGED <<buf, status, handler, syncDone, syncAt, done, issued>>
      BY <2>2 DEF vars, memory, history
    <3>2. Marked'
      BY <3>1, MarkedKept DEF Synced
    <3> QED
      BY <3>1, <3>2, SyncedKept DEF SameSyncs
  <2>3. CASE Next
    <3>1. CASE RspqWrite \/ RspqBlockRun \/ RspqSyncpointNew
      BY <2>1, <3>1, SyncedWrites DEF Held
    <3>2. CASE RspqFlush \/ RspqSyncpointWait \/ RspqHighpriBegin \/ RspqHighpriEnd \/ RspqHighpriSync
      BY <2>1, <3>2, SyncedProgram DEF Held
    <3>3. CASE CallStep
      BY <2>1, <3>3, SyncedCalls DEF Held
    <3>4. CASE Interrupt
      BY <3>4, SyncedInterrupts DEF Held, Interrupt
    <3>5. CASE RspExecute
      BY <2>1, <3>5, SyncedExecutes DEF Held
    <3>6. CASE Between
      BY <2>1, <3>6, SyncedBetween DEF Held
    <3> QED
      BY <2>3, <3>1, <3>2, <3>3, <3>4, <3>5, <3>6 DEF Next, Program, Rsp, Between
  <2> QED
    BY <2>2, <2>3
<1>3. Spec => []Held
  BY QueueHolds
<1> QED
  BY <1>1, <1>2, <1>3, PTL DEF Spec

(* A syncpoint that counts as reached has been, and none is lost between   *)
(* the command of the RSP, its interrupt and the handler that counts it.   *)
THEOREM SyncpointsAreExact == ASSUME Prompt = TRUE PROVE Spec => []SyncpointsExact
<1>1. Held /\ Synced => SyncpointsExact
  <2> SUFFICES ASSUME Held, Synced PROVE SyncpointsExact
    OBVIOUS
  <2>1. /\ syncAt \in Seq(Nat) /\ syncDone \in Nat /\ done["low"] \in Nat /\ Uncounted \in {0, 1}
    BY DEF Held, Types, Queues, Uncounted
  <2>2. PICK u \in {0, 1} : u = Uncounted
    BY <2>1
  <2>3. PICK d \in Nat : d = done["low"]
    BY <2>1
  <2>4. Counting(syncAt, syncDone + u, d, issued["low"])
    BY <2>2, <2>3 DEF Synced
  <2>5. /\ syncDone + u <= Len(syncAt)
        /\ \A i \in 1 .. Len(syncAt) : syncAt[i] <= d <=> i <= syncDone + u
    BY <2>4 DEF Counting
  <2>6. /\ syncDone <= Len(syncAt)
        /\ syncDone # 0 => syncDone \in 1 .. Len(syncAt) /\ syncDone <= syncDone + u
    BY ONLY <2>1, <2>2, <2>5
  <2>7. Reached <= d
    <3>1. CASE syncDone = 0
      BY <2>3, <3>1 DEF Reached
    <3>2. CASE syncDone # 0
      BY <2>5, <2>6, <3>2 DEF Reached
    <3> QED
      BY <3>1, <3>2
  <2>8. "SYNCPOINT" \in status => "INTR" \in status \/ handler = "acknowledged"
    BY DEF Synced, Interrupts
  <2> QED
    BY <2>2, <2>3, <2>5, <2>6, <2>7, <2>8 DEF SyncpointsExact
<1> QED
  BY <1>1, QueueHolds, SyncedHolds, PTL

(* A step after which the RSP has no more to see than before.              *)
Waits == {"more again", "wait bufdone", "halted?", "not high?", "syncpoint?"}

LEMMA FlushedKept ==
  ASSUME Flushed, UNCHANGED <<rpc, late, fresh>>, Behind' => Behind,
         "HALTED" \in status' => "HALTED" \in status, "MORE" \in status => "MORE" \in status',
         Step' = Step \/ (Step' \notin Waits /\ Step # "more again"),
         Phase' # "prolog" => Phase # "prolog"
  PROVE  Flushed'
<1>1. "HALTED" \in status' => rpc' = "wakeup"
  BY DEF Flushed
<1>2. late' => rpc' = "break"
  BY DEF Flushed
<1>3. Step' \in Waits => ~ fresh'
  BY DEF Flushed, Waits
<1>4. ASSUME ~ fresh', Phase' # "prolog", Behind'
      PROVE  /\ "MORE" \in status'
             /\ \/ "HALTED" \notin status' /\ rpc' # "break"
                \/ Step' = "more again" /\ (rpc' = "break" => late')
  BY <1>4 DEF Flushed
<1> QED
  BY <1>1, <1>2, <1>3, <1>4 DEF Flushed, Waits

LEMMA FlushedFresh ==
  ASSUME Flushed, UNCHANGED <<rpc, late, status>>, fresh' = TRUE, Step' \notin Waits
  PROVE  Flushed'
  BY DEF Flushed, Waits

LEMMA BehindLess ==
  ASSUME Types, UNCHANGED <<rpc, at, snap>>, WantsHigh' => WantsHigh,
         buf'[at[1]] = <<>> \/ Len(buf'[at[1]]) = Len(buf[at[1]])
  PROVE  Behind' => Behind
<1>1. at[2] \in Nat \ {0} /\ Len(snap) \in Nat
  BY TheHead
<1>2. CASE Len(buf'[at[1]]) = Len(buf[at[1]])
  BY <1>2 DEF Behind
<1>3. CASE buf'[at[1]] = <<>>
  <2>1. PICK m : m = Len(buf'[at[1]])
    OBVIOUS
  <2>2. m = 0
    BY <1>3, <2>1
  <2>3. ~ (Len(snap) < m) /\ ~ (at[2] <= m)
    BY ONLY <1>1, <2>2
  <2> QED
    BY <2>1, <2>3 DEF Behind
<1> QED
  BY <1>2, <1>3

LEMMA FollowPlain ==
  /\ \A s \in Steps \ {"more", "more again"} : \A t \in Follow[s] : t \notin Waits
  /\ NoStep \notin Waits /\ NoStep # "more again" /\ "plain" # "prolog"
  /\ \A s \in Steps : "prolog" \in Follow[s] => s = "request"
  /\ Follow["more"] = {"more again"}
  /\ "more again" \notin Follow["more again"]
<1>1. \A s \in Finals \ {"more again"} : Follow[s] = {}
  BY FollowSteps
<1>2. \A s \in Steps : s \in Finals \/ s \in {"more", "bufdone?", "wait bufdone", "clear bufdone",
          "switch", "hand off", "leave", "patch epilog", "patch swap", "request", "prolog",
          "jump epilog", "swap epilog"}
  BY DEF Steps, Finals
<1>3. NoStep \notin Waits /\ NoStep # "more again"
  BY DEF Waits, NoStep
<1>4. \A s \in Steps \ {"more", "more again"} : \A t \in Follow[s] : t \notin Waits
  BY <1>1, <1>2, FollowSteps, ZenonT(60) DEF Waits
<1>5. \A s \in Steps : "prolog" \in Follow[s] => s = "request"
  <2> SUFFICES ASSUME NEW s \in Steps, s # "request" PROVE "prolog" \notin Follow[s]
    OBVIOUS
  <2>1. CASE s \in Finals \ {"more again"}
    BY <1>1, <2>1
  <2>2. /\ "prolog" \notin Follow["more"] /\ "prolog" \notin Follow["more again"]
        /\ "prolog" \notin Follow["bufdone?"] /\ "prolog" \notin Follow["wait bufdone"]
        /\ "prolog" \notin Follow["clear bufdone"] /\ "prolog" \notin Follow["switch"]
        /\ "prolog" \notin Follow["hand off"] /\ "prolog" \notin Follow["leave"]
        /\ "prolog" \notin Follow["patch epilog"] /\ "prolog" \notin Follow["patch swap"]
        /\ "prolog" \notin Follow["prolog"] /\ "prolog" \notin Follow["jump epilog"]
        /\ "prolog" \notin Follow["swap epilog"]
    BY FollowSteps
  <2> QED
    BY <1>2, <2>1, <2>2
<1> QED
  BY <1>3, <1>4, <1>5, FollowSteps

(* One step of a call after another.                                       *)
LEMMA StepsOn ==
  ASSUME Types, NEW s, Doing(s), todo' = Tail(todo), s # "more"
  PROVE  /\ Step = s /\ (s # "more again" => Step' \notin Waits)
         /\ Step' # "more again"
         /\ (s # "request" => Step' # "prolog")
<1>1. /\ Step = s /\ s \in Steps
      /\ Step' = NoStep \/ Step' \in Follow[s]
  BY NextStep DEF Types
<1>2. s # "more again" => Step' \notin Waits
  BY <1>1, FollowPlain
<1>3. Step' # "more again"
  BY <1>1, <1>2, FollowPlain DEF Waits
<1>4. s # "request" => Step' # "prolog"
  BY <1>1, FollowPlain DEF NoStep
<1> QED
  BY <1>1, <1>2, <1>3, <1>4

LEMMA PhaseProlog ==
  /\ (Phase = "prolog" <=> Step = "prolog") /\ (Phase' = "prolog" <=> Step' = "prolog")
  BY DEF Phase, Phases

LEMMA FlushedWrites ==
  ASSUME Types, Flushed, RspqWrite \/ RspqBlockRun \/ RspqSyncpointNew
  PROVE  Flushed'
<1>1. PICK q, c : Write(q, c)
  BY DEF RspqWrite, RspqBlockRun, RspqSyncpointNew
<1>2. /\ UNCHANGED <<rpc, late, status>> /\ fresh' = TRUE
      /\ todo' = NextBuffer \/ todo' = <<>>
  BY <1>1 DEF Write, rsp
<1>3. Step' \in {"bufdone?", NoStep}
  <2>1. CASE todo' = NextBuffer
    BY <2>1, NextBufferSteps DEF Step
  <2>2. CASE todo' = <<>>
    BY <2>2, NoCall DEF Step
  <2> QED
    BY <1>2, <2>1, <2>2
<1>4. Step' \notin Waits
  BY <1>3 DEF Waits, NoStep
<1> QED
  BY <1>2, <1>4, FlushedFresh

LEMMA FlushedProgram ==
  ASSUME Types, Flushed,
         RspqFlush \/ RspqSyncpointWait \/ RspqHighpriBegin \/ RspqHighpriEnd \/ RspqHighpriSync
  PROVE  Flushed'
<1>1. PICK steps : StartCall(steps) /\ First(steps) \in {"more", "patch epilog", "request", "jump epilog"}
  <2>1. CASE RspqFlush
    BY <2>1, FlushSteps DEF RspqFlush
  <2>2. CASE RspqSyncpointWait
    <3>1. ctx = "low" /\ "syncpoint?" \in Follow[Again] \ {"wait bufdone"}
          /\ "syncpoint?" \notin HighSteps
      BY <2>2, FollowSteps DEF RspqSyncpointWait, Again, HighSteps
    <3>2. First(Flush \o <<"syncpoint?">>) = "more"
      BY <3>1, FlushAnd
    <3> QED
      BY <2>2, <3>2 DEF RspqSyncpointWait
  <2>3. CASE RspqHighpriBegin
    BY <2>3, BeginSteps DEF RspqHighpriBegin
  <2>4. CASE RspqHighpriEnd
    BY <2>4, EndSteps DEF RspqHighpriEnd
  <2>5. CASE RspqHighpriSync
    <3>1. {"halted?", "not high?"} \subseteq Follow[Again] \ {"wait bufdone"}
          /\ "halted?" \notin LowSteps /\ "not high?" \notin HighSteps
      BY FollowSteps DEF Again, LowSteps, HighSteps
    <3>2. CASE ctx = "high"
      <4>1. First(Flush \o <<"halted?">>) = "more"
        BY <3>1, <3>2, FlushAnd
      <4> QED
        BY <2>5, <3>2, <4>1 DEF RspqHighpriSync
    <3>3. CASE ctx # "high"
      <4>1. ctx = "low"
        BY <3>3 DEF Types, Queues
      <4>2. First(Flush \o <<"not high?">>) = "more"
        BY <3>1, <4>1, FlushAnd
      <4> QED
        BY <2>5, <3>3, <4>2 DEF RspqHighpriSync
    <3> QED
      BY <3>2, <3>3
  <2> QED
    BY <2>1, <2>2, <2>3, <2>4, <2>5
<1>2. UNCHANGED <<rpc, at, snap, late, fresh, status, buf>> /\ todo = <<>> /\ todo' = steps
  BY <1>1 DEF StartCall, rsp, memory, history, Free
<1>3. Step = NoStep /\ Step' \in {"more", "patch epilog", "request", "jump epilog"}
  BY <1>1, <1>2, NoCall DEF Step
<1>4. Step # "more again" /\ Step' \notin Waits /\ Phase # "prolog"
  BY <1>3, PhaseProlog DEF Waits, NoStep
<1>5. Behind' => Behind
  BY <1>2 DEF Behind, WantsHigh
<1> QED
  BY <1>2, <1>4, <1>5, FlushedKept

LEMMA LengthKept ==
  ASSUME NEW s \in Seq(Commands), NEW i, NEW c
  PROVE  Len([s EXCEPT ![i] = c]) = Len(s)
<1>1. s \in Seq(Commands \cup {c}) /\ DOMAIN s = 1 .. Len(s)
  OBVIOUS
<1>2. CASE i \in 1 .. Len(s)
  BY ONLY <1>1, <1>2, ExceptSeq
<1>3. CASE i \notin 1 .. Len(s)
  <2>1. [s EXCEPT ![i] = c] = s
    BY <1>1, <1>3
  <2> QED
    BY <2>1
<1> QED
  BY <1>2, <1>3

LEMMA FlushedCalls ==
  ASSUME Types, Flushed, CallStep
  PROVE  Flushed'
<1>1. ASSUME NEW s, Doing(s), todo' = Tail(todo), s \notin {"more", "more again", "request", "prolog"},
             UNCHANGED <<rpc, late, fresh>>, Behind' => Behind,
             "HALTED" \in status' <=> "HALTED" \in status, "MORE" \in status' <=> "MORE" \in status
      PROVE  Flushed'
  <2>1. Step = s /\ Step' \notin Waits /\ Step' # "prolog"
    BY <1>1, StepsOn
  <2>2. Phase # "prolog"
    BY <1>1, <2>1, PhaseProlog
  <2> QED
    BY <1>1, <2>1, <2>2, FlushedKept
<1>2. ASSUME NEW s, NEW p, Wait(s, p), s \notin {"more", "more again", "request", "prolog"}
      PROVE  Flushed'
  <2>1. UNCHANGED <<rpc, at, snap, late, fresh, status, buf>> /\ Doing(s) /\ todo' = Tail(todo)
    BY <1>2 DEF Wait, rsp, memory, history
  <2>2. Behind' => Behind
    BY <2>1 DEF Behind, WantsHigh
  <2> QED
    BY <1>1, <1>2, <2>1, <2>2
<1>3. ASSUME NEW s, NEW b, NEW c, AppendStep(s, b, c), s \notin {"more", "more again"}
      PROVE  Flushed'
  <2>1. UNCHANGED <<rpc, late, status>> /\ fresh' = TRUE /\ Doing(s) /\ todo' = Tail(todo)
    BY <1>3 DEF AppendStep, rsp
  <2>2. Step' \notin Waits
    BY <1>3, <2>1, StepsOn
  <2> QED
    BY <2>1, <2>2, FlushedFresh
<1>4. CASE FlushMore
  <2>1. /\ Doing("more") /\ todo' = Tail(todo) /\ UNCHANGED rpc
        /\ status' = Signal({"HALTED"}, {"MORE"}) /\ fresh' = FALSE /\ late' = (rpc = "break")
    BY <1>4 DEF FlushMore, WriteSpStatus, rsp
  <2>2. Step' = "more again"
    <3>1. Step' = NoStep \/ Step' \in Follow["more"]
      BY <2>1, NextStep DEF Types
    <3>2. Step' # NoStep
      <4>1. Step' = NoStep => "more" \in Finals
        BY <2>1, NextStep DEF Types
      <4> QED
        BY <4>1 DEF Finals
    <3> QED
      BY <3>1, <3>2, FollowPlain
  <2>3. "HALTED" \notin status' /\ "MORE" \in status'
    BY <2>1 DEF Signal
  <2> QED
    BY <2>1, <2>2, <2>3 DEF Flushed
<1>5. CASE FlushMoreAgain
  <2>1. /\ Doing("more again") /\ todo' = Tail(todo) /\ UNCHANGED <<rpc, at, snap, buf, late, fresh>>
        /\ status' = Signal({"HALTED"}, {"MORE"}) /\ ~ late
    BY <1>5 DEF FlushMoreAgain, WriteSpStatus, rsp, memory
  <2>2. Step = "more again" /\ Step' # "more again"
    BY <2>1, StepsOn
  <2>3. "HALTED" \notin status' /\ "MORE" \in status'
    BY <2>1 DEF Signal
  <2>4. ~ fresh /\ Phase # "prolog"
    BY <2>2, PhaseProlog DEF Flushed
  <2>5. Behind' => Behind
    BY <2>1 DEF Behind, WantsHigh, Signal
  <2>6. Behind => rpc # "break"
    BY <2>1, <2>4 DEF Flushed
  <2> QED
    BY <2>1, <2>3, <2>4, <2>5, <2>6 DEF Flushed
<1>6. CASE CheckBufdone
  <2>1. /\ Step = "bufdone?"
        /\ \/ todo' = Tail(todo)
           \/ Step' = "more"
    BY <1>6, CheckSteps
  <2>2. UNCHANGED <<rpc, at, snap, late, fresh, status, buf>> /\ Doing("bufdone?")
    BY <1>6 DEF CheckBufdone, rsp, memory, history
  <2>3. Behind' => Behind
    BY <2>2 DEF Behind, WantsHigh
  <2>4. CASE todo' = Tail(todo)
    BY <1>1, <2>2, <2>3, <2>4
  <2>5. CASE Step' = "more"
    <3>1. Step' \notin Waits /\ Step # "more again" /\ Phase # "prolog"
      BY <2>1, <2>5, PhaseProlog DEF Waits
    <3> QED
      BY <2>2, <2>3, <3>1, FlushedKept
  <2> QED
    BY <2>1, <2>4, <2>5
<1>7. CASE ClearBufdone
  <2>1. /\ UNCHANGED <<rpc, at, snap, late, fresh, buf>> /\ Doing("clear bufdone")
        /\ todo' = Tail(todo) /\ status' = Signal({Bufdone(ctx)}, {})
        /\ Bufdone(ctx) \in {"BUFDONE_LOW", "BUFDONE_HIGH"}
    BY <1>7 DEF ClearBufdone, WriteSpStatus, rsp, memory, Bufdone
  <2>2. Behind' => Behind
    BY <2>1 DEF Behind, WantsHigh, Signal
  <2>3. /\ "HALTED" \in status' <=> "HALTED" \in status
        /\ "MORE" \in status' <=> "MORE" \in status
    BY <2>1 DEF Signal
  <2> QED
    BY <1>1, <2>1, <2>2, <2>3
<1>8. CASE SwitchBuffer
  <2>1. /\ UNCHANGED <<rpc, at, snap, late, fresh, status>> /\ Doing("switch")
        /\ todo' = Tail(todo) /\ buf' = [buf EXCEPT ![Other(ctx)] = <<>>]
    BY <1>8 DEF SwitchBuffer, rsp, history, Other
  <2>2. /\ at[1] \in Buffers \cup {Block} /\ buf \in [Buffers \cup {Block} -> Seq(Commands)]
    BY TheHead DEF Types
  <2>3. buf'[at[1]] = <<>> \/ buf'[at[1]] = buf[at[1]]
    BY <2>1, <2>2
  <2>4. Behind' => Behind
    BY <2>1, <2>3, BehindLess DEF WantsHigh
  <2> QED
    BY <1>1, <2>1, <2>4
<1>9. CASE HandOff \/ Leave \/ Prolog \/ JumpEpilog \/ SwapEpilog
  <2>1. CASE HandOff
    <3>1. PICK b, c : AppendStep("hand off", b, c)
      BY <2>1 DEF HandOff
    <3> QED
      BY <1>3, <3>1
  <2>2. CASE Leave
    <3>1. PICK b, c : AppendStep("leave", b, c)
      BY <2>2 DEF Leave
    <3> QED
      BY <1>3, <3>1
  <2>3. CASE Prolog
    <3>1. PICK b, c : AppendStep("prolog", b, c)
      BY <2>3 DEF Prolog
    <3> QED
      BY <1>3, <3>1
  <2>4. CASE JumpEpilog
    <3>1. PICK b, c : AppendStep("jump epilog", b, c)
      BY <2>4 DEF JumpEpilog
    <3> QED
      BY <1>3, <3>1
  <2>5. CASE SwapEpilog
    <3>1. PICK b, c : AppendStep("swap epilog", b, c)
      BY <2>5 DEF SwapEpilog
    <3> QED
      BY <1>3, <3>1
  <2> QED
    BY <1>9, <2>1, <2>2, <2>3, <2>4, <2>5
<1>10. ASSUME NEW s \in {"patch epilog", "patch swap"}, NEW i, Patch(s, i)
       PROVE  Flushed'
  <2>1. /\ UNCHANGED <<rpc, at, snap, late, fresh, status>> /\ Doing(s)
        /\ todo' = Tail(todo) /\ buf' = [buf EXCEPT ![Active("high")][i] = Jump(Cursor("high"))]
    BY <1>10 DEF Patch, rsp, history
  <2>2. at[1] \in Buffers \cup {Block} /\ buf \in [Buffers \cup {Block} -> Seq(Commands)]
    BY TheHead DEF Types
  <2>3. Len(buf'[at[1]]) = Len(buf[at[1]])
    <3>1. PICK c : c = Jump(Cursor("high"))
      OBVIOUS
    <3>2. PICK a : a = Active("high")
      OBVIOUS
    <3>3. \/ buf'[at[1]] = buf[at[1]]
          \/ buf'[at[1]] = [buf[at[1]] EXCEPT ![i] = c]
      BY <2>1, <2>2, <3>1, <3>2
    <3>4. buf[at[1]] \in Seq(Commands)
      BY <2>2
    <3>5. Len([buf[at[1]] EXCEPT ![i] = c]) = Len(buf[at[1]])
      BY <3>4, LengthKept
    <3> QED
      BY <3>3, <3>5
  <2>4. Behind' => Behind
    BY <2>1, <2>3, BehindLess DEF WantsHigh
  <2> QED
    BY <1>1, <1>10, <2>1, <2>4
<1>11. CASE RequestHighpri
  <2>1. /\ UNCHANGED <<rpc, late, fresh>> /\ Doing("request") /\ todo' = Tail(todo)
        /\ status' = Signal({}, {"HIGHPRI_REQUESTED"})
    BY <1>11 DEF RequestHighpri, WriteSpStatus, rsp
  <2>2. Step' = "prolog"
    <3>1. Step' = NoStep \/ Step' \in Follow["request"]
      BY <2>1, NextStep DEF Types
    <3>2. Step' # NoStep
      <4>1. Step' = NoStep => "request" \in Finals
        BY <2>1, NextStep DEF Types
      <4> QED
        BY <4>1 DEF Finals
    <3> QED
      BY <3>1, <3>2, FollowSteps
  <2>3. Phase' = "prolog" /\ Step' \notin Waits /\ ("HALTED" \in status' => "HALTED" \in status)
    BY <2>1, <2>2, PhaseProlog DEF Waits, Signal
  <2> QED
    BY <2>1, <2>3 DEF Flushed, Waits
<1>12. CASE LowContext
  <2>1. /\ UNCHANGED <<rpc, at, snap, late, fresh, status, buf>> /\ Doing("low context")
        /\ todo' = Tail(todo)
    BY <1>12 DEF LowContext, rsp, memory, history
  <2>2. Behind' => Behind
    BY <2>1 DEF Behind, WantsHigh
  <2> QED
    BY <1>1, <2>1, <2>2
<1>13. CASE WaitBufdone \/ WaitHalted \/ WaitNotHigh \/ WaitSyncpoint
  BY <1>2, <1>13 DEF WaitBufdone, WaitHalted, WaitNotHigh, WaitSyncpoint
<1>14. CASE PatchEpilog \/ PatchSwap
  BY <1>10, <1>14 DEF PatchEpilog, PatchSwap
<1> QED
  BY <1>4, <1>5, <1>6, <1>7, <1>8, <1>9, <1>11, <1>12, <1>13, <1>14 DEF CallStep

LEMMA FlushedInterrupts ==
  ASSUME Types, Flushed, Acknowledge \/ SpInterrupt
  PROVE  Flushed'
<1>1. UNCHANGED <<rpc, at, snap, late, fresh, buf, todo>>
  BY DEF Acknowledge, SpInterrupt, rsp, memory, history
<1>2. /\ "HALTED" \in status' <=> "HALTED" \in status
      /\ "MORE" \in status' <=> "MORE" \in status
      /\ WantsHigh' <=> WantsHigh
  BY DEF Acknowledge, SpInterrupt, Signal, WantsHigh
<1>3. Behind' => Behind
  BY <1>1, <1>2 DEF Behind
<1>4. Step' = Step /\ (Phase' # "prolog" => Phase # "prolog")
  BY <1>1, PhaseProlog DEF Step
<1> QED
  BY <1>1, <1>2, <1>3, <1>4, FlushedKept

(* The RSP goes on where it has not seen everything.                       *)
LEMMA FlushedRsp ==
  ASSUME Flushed, UNCHANGED <<fresh, late>>, Step' = Step, Phase' = Phase, rpc # "break",
         rpc' # "break", "HALTED" \in status' => rpc' = "wakeup",
         ~ fresh /\ Phase # "prolog" /\ Behind' => "MORE" \in status' /\ "HALTED" \notin status'
  PROVE  Flushed'
<1>1. late' => rpc' = "break"
  BY DEF Flushed
<1> QED
  BY <1>1 DEF Flushed

LEMMA LoopSeen ==
  ASSUME NEW p \in Nat \ {0}, NEW n \in Nat, NEW l \in Nat, p \in 1 .. (n + 1), ~ (p <= n), p <= l
  PROVE  n < l
  OBVIOUS

LEMMA FlushedLoop ==
  ASSUME NEW D, Types, Queue(D), Flushed, RspLoop
  PROVE  Flushed'
<1>1. /\ rpc = "loop" /\ SameCpu /\ UNCHANGED <<status, late>> /\ at'[1] = at[1]
      /\ \/ rpc' = "execute" /\ UNCHANGED snap
         \/ rpc' = "idle" /\ snap' = <<>> /\ UNCHANGED at /\ ~ (at[2] <= Len(snap))
            /\ ~ WantsHigh
  <2>1. at[2] > Len(snap) => ~ (at[2] <= Len(snap))
    BY TheHead
  <2> QED
    BY <2>1, LoopStep DEF Queue, RspLoop
<1>2. Step' = Step /\ Phase' = Phase /\ UNCHANGED <<buf, fresh>>
  BY <1>1, CpuSame DEF SameCpu
<1>3. "HALTED" \notin status'
  BY <1>1 DEF Flushed
<1>4. Behind' => Behind
  <2>1. CASE rpc' = "execute" /\ UNCHANGED snap
    BY <1>1, <1>2, <2>1 DEF Behind
  <2>2. CASE /\ rpc' = "idle" /\ snap' = <<>> /\ UNCHANGED at /\ ~ (at[2] <= Len(snap))
             /\ ~ WantsHigh
    <3> SUFFICES ASSUME Behind' PROVE Behind
      OBVIOUS
    <3>1. ~ WantsHigh'
      BY <1>1, <2>2 DEF WantsHigh
    <3>2. at[2] <= Len(buf[at[1]])
      BY <1>2, <2>2, <3>1 DEF Behind
    <3>3. /\ at[2] \in 1 .. (Len(snap) + 1)
          /\ at[1] = Block => snap = Recorded
      BY <1>1 DEF Queue, Copy
    <3>4. at[2] \in Nat \ {0} /\ Len(snap) \in Nat /\ Len(buf[at[1]]) \in Nat
      <4>1. at[1] \in Buffers \cup {Block} /\ buf \in [Buffers \cup {Block} -> Seq(Commands)]
        BY TheHead DEF Types
      <4> QED
        BY <4>1, TheHead, SomeLength
    <3>5. Len(snap) < Len(buf[at[1]])
      <4>1. PICK n \in Nat : n = Len(snap)
        BY <3>4
      <4>2. PICK l \in Nat : l = Len(buf[at[1]])
        BY <3>4
      <4>3. PICK p \in Nat \ {0} : p = at[2]
        BY <3>4
      <4>4. n < l
        <5>1. p \in 1 .. (n + 1) /\ ~ (p <= n) /\ p <= l
          BY <2>2, <3>2, <3>3, <4>1, <4>2, <4>3
        <5> QED
          BY ONLY <4>1, <4>2, <4>3, <5>1, p \in Nat \ {0}, n \in Nat, l \in Nat, LoopSeen
      <4> QED
        BY <4>1, <4>2, <4>4
    <3>6. at[1] # Block
      <4> SUFFICES ASSUME at[1] = Block PROVE FALSE
        OBVIOUS
      <4>1. buf[at[1]] = Recorded /\ snap = Recorded
        BY <3>3 DEF Types
      <4>2. Len(buf[at[1]]) = Len(snap)
        BY <4>1
      <4> QED
        BY <3>4, <3>5, <4>2
    <3> QED
      BY <1>1, <3>5, <3>6 DEF Behind
  <2> QED
    BY <1>1, <2>1, <2>2
<1>5. ~ fresh /\ Phase # "prolog" /\ Behind => "MORE" \in status
  BY DEF Flushed
<1> QED
  BY <1>1, <1>2, <1>3, <1>4, <1>5, FlushedRsp

LEMMA CommandSignals ==
  ASSUME NEW c \in Commands, c.op \in {"STATUS", "SWAP"}
  PROVE  "HALTED" \notin c.set /\ "MORE" \notin c.clear
<1>1. c \in {EnterHigh, LeaveHigh, LeaveLow, Opening, Handover}
  <2>1. ~ \E q \in Queues, n \in Nat : c = Cmd(q, n)
    BY CommandFields
  <2>2. ~ \E n \in Nat : c = Call(n) \/ c = TestWriteStatus(n)
    BY CommandFields
  <2>3. ~ \E p \in Places : c = Jump(p) \/ c = WriteWord(p)
    BY CommandFields
  <2>4. c # Body /\ c # Ret
    BY CommandFields
  <2> QED
    BY <2>1, <2>2, <2>3, <2>4 DEF Commands
<1>2. CASE c = EnterHigh
  BY <1>2, CommandFields
<1>3. CASE c = LeaveHigh
  BY <1>3, CommandFields
<1>4. CASE c = LeaveLow
  BY <1>4, CommandFields
<1>5. CASE c = Opening
  BY <1>5, CommandFields
<1>6. CASE c = Handover
  BY <1>6, CommandFields
<1> QED
  BY <1>1, <1>2, <1>3, <1>4, <1>5, <1>6

LEMMA FlushedExecutes ==
  ASSUME NEW D, Types, Queue(D), Flushed, RspExecute
  PROVE  Flushed'
<1>1. SameCpu /\ rpc = "execute" /\ rpc' \in {"loop", "fetch"} /\ late' = late
  BY Effects
<1>2. Step' = Step /\ Phase' = Phase /\ UNCHANGED <<buf, fresh>>
  BY <1>1, CpuSame DEF SameCpu
<1>3. "HALTED" \notin status
  BY <1>1 DEF Flushed
<1>4. "HALTED" \notin status' /\ ("MORE" \in status => "MORE" \in status')
  <2>1. CASE cmd.op \in {"STATUS", "SWAP"}
    <3>1. status' = Signal(cmd.clear, cmd.set)
      BY <2>1, Effects
    <3>2. "HALTED" \notin cmd.set /\ "MORE" \notin cmd.clear
      BY <1>1, <2>1, CmdType, CommandSignals
    <3> QED
      BY <1>3, <3>1, <3>2 DEF Signal
  <2>2. CASE cmd.op = "TEST"
    BY <1>3, <2>2, Effects DEF Signal
  <2>3. CASE cmd.op \in {"CMD", "BODY", "WORD", "CALL", "JUMP", "RET"}
    BY <1>3, <2>3, Effects
  <2> QED
    BY <2>1, <2>2, <2>3, Effects
<1>5. Behind' => Behind
  <2>1. CASE rpc' = "fetch"
    BY <2>1 DEF Behind
  <2>2. CASE rpc' = "loop"
    <3>1. UNCHANGED <<at, snap>>
      BY <2>2, Effects
    <3> QED
      BY <1>1, <1>2, <2>2, <3>1 DEF Behind
  <2> QED
    BY <1>1, <2>1, <2>2
<1>6. ~ fresh /\ Phase # "prolog" /\ Behind => "MORE" \in status
  BY DEF Flushed
<1>7. UNCHANGED <<fresh, late>> /\ rpc # "break" /\ rpc' # "break"
  BY <1>1, <1>2
<1> QED
  BY <1>2, <1>4, <1>5, <1>6, <1>7, FlushedRsp

LEMMA FlushedBetween ==
  ASSUME NEW D, Types, Queue(D), Flushed, Between
  PROVE  Flushed'
<1>1. CASE RspLoop
  BY <1>1, FlushedLoop
<1>2. ASSUME SameCpu PROVE Step' = Step /\ Phase' = Phase /\ UNCHANGED <<buf, fresh>>
  BY <1>2, CpuSame DEF SameCpu
<1>3. SameCpu
  BY BetweenStep DEF Queue
<1>4. CASE RspRefetch \/ RspFetch
  <2>1. /\ rpc \in {"loop", "fetch"} /\ rpc' \in {"loop", "fetch"} /\ UNCHANGED <<status, late, at>>
        /\ rpc' = "loop" => snap' = buf[at[1]]
    BY <1>4 DEF RspRefetch, RspFetch
  <2>2. ~ Behind'
    <3>1. CASE rpc' = "fetch"
      BY <3>1 DEF Behind
    <3>2. CASE rpc' = "loop"
      <4>1. Len(snap') = Len(buf'[at'[1]])
        BY <1>2, <1>3, <2>1, <3>2
      <4>2. at[1] \in Buffers \cup {Block} /\ buf \in [Buffers \cup {Block} -> Seq(Commands)]
        BY TheHead DEF Types
      <4>3. Len(buf[at[1]]) \in Nat
        BY <4>2, SomeLength
      <4>4. Len(buf'[at'[1]]) = Len(buf[at[1]])
        BY <1>2, <1>3, <2>1
      <4>5. PICK l \in Nat : l = Len(buf[at[1]])
        BY <4>3
      <4>6. ~ (l < l)
        BY ONLY l \in Nat
      <4>7. ~ (Len(snap') < Len(buf'[at'[1]]))
        BY <4>1, <4>4, <4>5, <4>6
      <4> QED
        BY <3>2, <4>7 DEF Behind
    <3> QED
      BY <2>1, <3>1, <3>2
  <2>3. "HALTED" \notin status'
    BY <2>1 DEF Flushed
  <2> QED
    BY <1>2, <1>3, <2>1, <2>2, <2>3, FlushedRsp
<1>5. CASE RspWaitNewInput
  <2>1. /\ rpc = "idle" /\ UNCHANGED <<status, late, at, snap>>
        /\ rpc' = IF "MORE" \in status THEN "wakeup" ELSE "break"
    BY <1>5 DEF RspWaitNewInput
  <2>2. Behind' => Behind
    BY <1>2, <1>3, <2>1 DEF Behind, WantsHigh
  <2>3. "HALTED" \notin status /\ ~ late
    BY <2>1 DEF Flushed
  <2>4. ~ fresh /\ Phase # "prolog" /\ Behind => "MORE" \in status
    BY DEF Flushed
  <2>5. Step' \in Waits => ~ fresh'
    BY <1>2, <1>3 DEF Flushed, Waits
  <2>6. ASSUME ~ fresh', Phase' # "prolog", Behind'
        PROVE  "MORE" \in status' /\ "HALTED" \notin status' /\ rpc' # "break"
    BY <1>2, <1>3, <2>1, <2>2, <2>3, <2>4, <2>6
  <2> QED
    BY <2>1, <2>3, <2>5, <2>6 DEF Flushed, Waits
<1>6. CASE RspBreak
  <2>1. /\ rpc = "break" /\ rpc' = "wakeup" /\ status' = Signal({}, {"HALTED"}) /\ ~ late'
        /\ UNCHANGED <<at, snap>>
    BY <1>6 DEF RspBreak
  <2>2. Behind' => Behind
    BY <1>2, <1>3, <2>1 DEF Behind, WantsHigh, Signal
  <2>3. "MORE" \in status => "MORE" \in status'
    BY <2>1 DEF Signal
  <2>4. ~ fresh /\ Phase # "prolog" /\ Behind => "MORE" \in status /\ Step = "more again"
    BY <2>1 DEF Flushed
  <2>5. Step \in Waits => ~ fresh
    BY DEF Flushed, Waits
  <2>6. Step' \in Waits => ~ fresh'
    BY <1>2, <1>3, <2>5
  <2>7. ASSUME ~ fresh', Phase' # "prolog", Behind'
        PROVE  "MORE" \in status' /\ Step' = "more again"
    <3>1. ~ fresh /\ Phase # "prolog" /\ Behind
      BY <1>2, <1>3, <2>2, <2>7
    <3>2. "MORE" \in status /\ Step = "more again"
      BY <2>4, <3>1
    <3> QED
      BY <1>2, <1>3, <2>3, <3>2
  <2> QED
    BY <2>1, <2>6, <2>7 DEF Flushed, Waits
<1>7. CASE RspWakeup
  <2>1. /\ rpc = "wakeup" /\ rpc' = "fetch" /\ "HALTED" \notin status
        /\ status' = Signal({"MORE"}, {}) /\ UNCHANGED late
    BY <1>7 DEF RspWakeup
  <2>2. ~ Behind' /\ "HALTED" \notin status'
    BY <2>1 DEF Behind, Signal
  <2> QED
    BY <1>2, <1>3, <2>1, <2>2, FlushedRsp
<1> QED
  BY <1>1, <1>4, <1>5, <1>6, <1>7 DEF Between

LEMMA FlushedInit ==
  ASSUME Init
  PROVE  Flushed
<1>1. /\ status = {"BUFDONE_LOW", "BUFDONE_HIGH"} /\ rpc = "idle" /\ late = FALSE /\ todo = <<>>
      /\ at = <<<<"low", 0>>, 1>> /\ buf[<<"low", 0>>] = <<>>
  BY DEF Init, Buffers, Block, Queues
<1>2. Step = NoStep
  BY <1>1, NoCall DEF Step
<1>3. Step \notin Waits
  BY <1>2 DEF Waits, NoStep
<1>4. ~ Behind
  <2>1. Len(buf[at[1]]) = 0 /\ at[2] = 1
    BY <1>1
  <2>2. ~ (at[2] <= Len(buf[at[1]]))
    BY ONLY <2>1
  <2>3. ~ WantsHigh
    BY <1>1 DEF WantsHigh
  <2> QED
    BY <1>1, <2>2, <2>3 DEF Behind
<1> QED
  BY <1>1, <1>3, <1>4 DEF Flushed, Waits

LEMMA FlushedHolds == ASSUME Prompt = TRUE PROVE Spec => []Flushed
<1>1. Init => Flushed
  BY FlushedInit
<1>2. Held /\ Flushed /\ [Next]_vars => Flushed'
  <2> SUFFICES ASSUME Held, Flushed, [Next]_vars PROVE Flushed'
    OBVIOUS
  <2>1. PICK D : Queue(D)
    BY DEF Held
  <2>2. CASE UNCHANGED vars
    <3>1. UNCHANGED <<rpc, at, snap, buf, status, todo, fresh, late>>
      BY <2>2 DEF vars, memory, rsp, history
    <3>2. Step' = Step /\ (Behind' => Behind) /\ (Phase' # "prolog" => Phase # "prolog")
      BY <3>1, PhaseProlog DEF Step, Behind, WantsHigh
    <3> QED
      BY <3>1, <3>2, FlushedKept
  <2>3. CASE Next
    <3>1. CASE RspqWrite \/ RspqBlockRun \/ RspqSyncpointNew
      BY <3>1, FlushedWrites DEF Held
    <3>2. CASE RspqFlush \/ RspqSyncpointWait \/ RspqHighpriBegin \/ RspqHighpriEnd \/ RspqHighpriSync
      BY <3>2, FlushedProgram DEF Held
    <3>3. CASE CallStep
      BY <3>3, FlushedCalls DEF Held
    <3>4. CASE Interrupt
      BY <3>4, FlushedInterrupts DEF Held, Interrupt
    <3>5. CASE RspExecute
      BY <2>1, <3>5, FlushedExecutes DEF Held
    <3>6. CASE Between
      BY <2>1, <3>6, FlushedBetween DEF Held
    <3> QED
      BY <2>3, <3>1, <3>2, <3>3, <3>4, <3>5, <3>6 DEF Next, Program, Rsp, Between
  <2> QED
    BY <2>2, <2>3
<1>3. Spec => []Held
  BY QueueHolds
<1> QED
  BY <1>1, <1>2, <1>3, PTL DEF Spec

(* An RSP that has seen everything and reads no more.                      *)
LEMMA LastPlace ==
  ASSUME NEW p \in Nat, NEW l \in Nat, p \in 1 .. (l + 1), ~ (p <= l)
  PROVE  p = l + 1
  OBVIOUS

LEMMA AtEnd ==
  ASSUME NEW D, Types, Queue(D), NEW q \in Queues, Phase = "plain",
         ~ (Spot(q)[2] <= Len(buf[Spot(q)[1]])), ~ (q = "low" /\ InBody)
  PROVE  /\ Spot(q)[1] = Active(q) /\ done[q] = issued[q]
         /\ Spot(q)[2] = Len(buf[Active(q)]) + 1
<1>1. PICK b : b = Spot(q)[1]
  OBVIOUS
<1>2. PICK p : p = Spot(q)[2]
  OBVIOUS
<1>3. /\ b \in {Active(q), Other(q)} /\ p \in 1 .. (Len(buf[b]) + 1)
      /\ b = Other(q) => p <= Len(buf[b]) \/ Moving(q, "hand off") \/ Moving(q, "leave")
      /\ D[b][p] = done[q] + IF q = "low" /\ InBody THEN 1 ELSE 0
  BY <1>1, <1>2 DEF Queue, Stand, Stands
<1>4. b = Active(q)
  BY <1>1, <1>2, <1>3 DEF Moving
<1>5. Len(buf[b]) \in Nat
  <2>1. b \in Buffers
    BY <1>4, TheBuffers DEF Types
  <2> QED
    BY <2>1, SomeLength DEF Types
<1>6. p = Len(buf[b]) + 1
  <2>1. p \in 1 .. (Len(buf[b]) + 1)
    BY <1>3
  <2>2. p \in Nat
    BY ONLY <1>5, <2>1
  <2>3. ~ (p <= Len(buf[b]))
    BY <1>1, <1>2
  <2> QED
    BY ONLY <1>5, <2>1, <2>2, <2>3, LastPlace
<1>7. D[b][p] = issued[q]
  BY <1>4, <1>6 DEF Queue, Counts
<1>8. (IF q = "low" /\ InBody THEN 1 ELSE 0) = 0
  OBVIOUS
<1>9. done[q] + 0 = issued[q]
  BY <1>3, <1>7, <1>8
<1>10. done[q] \in Nat
  BY DEF Types
<1>11. done[q] = issued[q]
  BY ONLY <1>9, <1>10
<1> QED
  BY <1>1, <1>2, <1>4, <1>6, <1>11

LEMMA PlainSignals ==
  ASSUME Phase = "plain"
  PROVE  \A q \in Queues : Signalled(q) <=> Bufdone(q) \in status
  BY DEF Signalled, Moving

LEMMA NotBefore ==
  ASSUME NEW l \in Nat
  PROVE  ~ (l + 1 <= l)
  OBVIOUS

LEMMA HighIdle ==
  ASSUME NEW D, Types, Queue(D), Phase = "plain", ~ High, ~ Requested
  PROVE  done["high"] = issued["high"] /\ Spot("high")[1] = Active("high")
<1>1. "high" \in Queues /\ "low" # "high"
  BY DEF Queues
<1>2. Spot("high") = Cursor("high")
  BY <1>1 DEF Queue, Requests, Spot
<1>3. Spot("high")[1] = Active("high") /\ Spot("high")[2] = Len(buf[Active("high")]) + 1
  BY <1>2 DEF Cursor
<1>4. Len(buf[Active("high")]) \in Nat
  <2>1. Active("high") \in Buffers
    BY <1>1, TheBuffers DEF Types
  <2> QED
    BY <2>1, SomeLength DEF Types
<1>5. ~ (Len(buf[Active("high")]) + 1 <= Len(buf[Active("high")]))
  BY ONLY <1>4, NotBefore
<1> QED
  BY <1>1, <1>3, <1>5, AtEnd

LEMMA Resting ==
  ASSUME NEW D, Types, Queue(D), Phase = "plain", ~ Behind, rpc \in {"idle", "break", "wakeup"}
  PROVE  /\ done["high"] = issued["high"] /\ Bufdone("high") \in status
         /\ ctx = "low" => /\ ~ High /\ ~ Requested
                           /\ done["low"] = issued["low"] /\ Bufdone("low") \in status
<1>1. /\ "high" \in Queues /\ "low" \in Queues /\ "low" # "high" /\ Here = at
  BY DEF Queues, Here
<1>2. ~ (at[2] <= Len(buf[at[1]])) /\ ~ WantsHigh
  BY DEF Behind
<1>3. CASE High
  <2>1. Place("high") = at /\ Spot("high") = at
    BY <1>1, <1>3 DEF Place, Spot
  <2>2. /\ Spot("high")[1] = Active("high") /\ done["high"] = issued["high"]
        /\ Spot("high")[2] = Len(buf[Active("high")]) + 1
    BY <1>1, <1>2, <2>1, AtEnd
  <2>3. Bufdone("high") \in status
    BY <1>1, <2>2, PlainSignals DEF Queue, Handshake
  <2>4. ctx # "low"
    <3> SUFFICES ASSUME ctx = "low" PROVE FALSE
      OBVIOUS
    <3>1. buf[Active("high")] # <<>> /\ Final(buf[Active("high")]) = LeaveHigh
      BY <1>3 DEF Queue, Epilogue, Closed
    <3>2. ~ After("high", LeaveHigh)
      BY <1>3 DEF Queue, Requests
    <3>3. PICK s \in Seq(Commands) : s = buf[Active("high")]
      BY <1>1, TheBuffers DEF Types
    <3>4. PICK l \in Nat : l = Len(s)
      BY SomeLength
    <3>5. l # 0
      BY <3>1, <3>3, <3>4
    <3>6. l + 1 > 1 /\ (l + 1) - 1 = l
      BY ONLY l \in Nat, <3>5
    <3>7. buf[Spot("high")[1]] = s /\ Spot("high")[2] = l + 1
      BY <2>2, <3>3, <3>4
    <3>8. s[l] = LeaveHigh
      BY <3>1, <3>3, <3>4 DEF Final
    <3> QED
      BY <3>2, <3>6, <3>7, <3>8 DEF After
  <2> QED
    BY <2>2, <2>3, <2>4
<1>4. CASE ~ High
  <2>1. ~ Requested
    BY <1>2, <1>4 DEF WantsHigh, High, Requested
  <2>2. done["high"] = issued["high"] /\ Spot("high")[1] = Active("high")
    BY <1>4, <2>1, HighIdle
  <2>3. Bufdone("high") \in status
    BY <1>1, <2>2, PlainSignals DEF Queue, Handshake
  <2>4. Place("low") = at
    BY <1>1, <1>4 DEF Place
  <2>5. ~ InBlock
    <3> SUFFICES ASSUME InBlock PROVE FALSE
      OBVIOUS
    <3>1. at[1] = Block /\ at[2] \in {1, 2}
      BY <2>4 DEF Queue, Stand, InBlock
    <3>2. Len(buf[at[1]]) = 2
      BY <3>1, TheBlock DEF Types
    <3>3. at[2] <= Len(buf[at[1]])
      BY ONLY <3>1, <3>2
    <3> QED
      BY <1>2, <3>3
  <2>6. Spot("low") = at /\ ~ InBody
    BY <2>4, <2>5 DEF Spot, InBody, InBlock
  <2>7. Spot("low")[1] = Active("low") /\ done["low"] = issued["low"]
    BY <1>1, <1>2, <2>6, AtEnd
  <2>8. Bufdone("low") \in status
    BY <1>1, <2>7, PlainSignals DEF Queue, Handshake
  <2> QED
    BY <1>4, <2>1, <2>2, <2>3, <2>7, <2>8
<1> QED
  BY <1>3, <1>4

LEMMA DoingStep ==
  ASSUME Types, NEW s, Doing(s)
  PROVE  /\ Step = s
         /\ s \in {"wait bufdone", "halted?", "not high?", "syncpoint?"} => Phase = "plain"
         /\ s \in LowSteps => ctx = "low"
<1>1. todo \in Seq(Steps) /\ todo # <<>> /\ Head(todo) = s
  BY DEF Types, Chain, Doing
<1>2. Step = s
  BY <1>1 DEF Step, First
<1>3. s \in {"wait bufdone", "halted?", "not high?", "syncpoint?"} => Phase = "plain"
  BY <1>2 DEF Phase, Phases
<1>4. s \in LowSteps => ctx = "low"
  <2>1. ctx # "low" => First(todo) \notin LowSteps
    BY <1>1, StepFacts DEF Types
  <2> QED
    BY <1>2, <2>1 DEF Step
<1> QED
  BY <1>2, <1>3, <1>4

(* The RSP halts only when it has executed what was flushed, and nobody    *)
(* waits for an RSP that has halted.                                       *)
THEOREM SleepsWhenDone == ASSUME Prompt = TRUE PROVE Spec => []SleepsOnlyDone
<1>1. Held /\ Synced /\ Flushed => SleepsOnlyDone
  <2> SUFFICES ASSUME Held, Synced, Flushed, Asleep
               PROVE  /\ Free /\ ~ fresh => /\ done["high"] = issued["high"]
                                            /\ ctx = "low" => done["low"] = issued["low"]
                      /\ Waiting => "INTR" \in status
    BY DEF SleepsOnlyDone
  <2>1. PICK D : Queue(D)
    BY DEF Held
  <2>2. Types /\ rpc = "wakeup" /\ "HALTED" \in status /\ ctx \in {"low", "high"}
    BY DEF Held, Asleep, Types, Queues
  <2>3. ASSUME ~ fresh, Phase = "plain", Step # "more again"
        PROVE  ~ Behind
    BY <2>2, <2>3 DEF Flushed
  <2>4. ASSUME Free, ~ fresh
        PROVE  done["high"] = issued["high"] /\ (ctx = "low" => done["low"] = issued["low"])
    <3>1. Step = NoStep
      BY <2>4, NoCall DEF Free, Step
    <3>2. Phase = "plain" /\ Step # "more again"
      BY <3>1 DEF Phase, Phases, NoStep
    <3> QED
      BY <2>1, <2>2, <2>3, <2>4, <3>2, Resting
  <2>5. ASSUME NEW s \in {"wait bufdone", "not high?", "syncpoint?"}, Doing(s)
        PROVE  /\ done["high"] = issued["high"] /\ Bufdone("high") \in status
               /\ ctx = "low" => /\ ~ High /\ ~ Requested
                                 /\ done["low"] = issued["low"] /\ Bufdone("low") \in status
    <3>1. Step = s /\ Phase = "plain"
      BY <2>2, <2>5, DoingStep
    <3>2. ~ fresh /\ Step # "more again"
      BY <3>1 DEF Flushed
    <3> QED
      BY <2>1, <2>2, <2>3, <3>1, <3>2, Resting
  <2>6. ~ (Doing("wait bufdone") /\ Bufdone(ctx) \notin status)
    BY <2>2, <2>5
  <2>7. ~ (Doing("not high?") /\ status \cap {"HIGHPRI_REQUESTED", "HIGHPRI_RUNNING"} # {})
    <3> SUFFICES ASSUME Doing("not high?") PROVE ~ High /\ ~ Requested
      BY DEF High, Requested
    <3>1. ctx = "low"
      BY <2>2, DoingStep DEF LowSteps
    <3> QED
      BY <2>5, <3>1
  <2>8. ASSUME Doing("syncpoint?"), syncDone < Len(syncAt) PROVE "INTR" \in status
    <3>1. ctx = "low"
      BY <2>2, <2>8, DoingStep DEF LowSteps
    <3>2. done["low"] = issued["low"]
      BY <2>5, <2>8, <3>1
    <3>3. Uncounted = 1
      <4> SUFFICES ASSUME Uncounted # 1 PROVE FALSE
        OBVIOUS
      <4>1. Uncounted = 0
        BY DEF Uncounted
      <4>2. /\ syncAt \in Seq(Nat) /\ syncDone \in Nat /\ issued["low"] \in Nat
        BY <2>2 DEF Types, Queues
      <4>3. PICK d \in Nat : d = issued["low"]
        BY <4>2
      <4>4. PICK l \in Nat : l = Len(syncAt)
        BY <4>2
      <4>5. Counting(syncAt, syncDone + Uncounted, d, d)
        BY <3>2, <4>3 DEF Synced
      <4>6. \A i \in 1 .. l : syncAt[i] \in 1 .. d /\ (syncAt[i] <= d <=> i <= syncDone + Uncounted)
        BY <4>4, <4>5 DEF Counting
      <4>7. syncDone < l /\ syncDone + Uncounted = syncDone
        <5>1. syncDone + Uncounted = syncDone
          BY ONLY <4>1, <4>2
        <5> QED
          BY <2>8, <4>4, <5>1
      <4>8. l \in 1 .. l /\ ~ (l <= syncDone)
        BY ONLY <4>2, <4>7, l \in Nat
      <4>9. \A i \in 1 .. d : i <= d
        BY ONLY d \in Nat
      <4> QED
        BY <4>6, <4>7, <4>8, <4>9
    <3>4. "SYNCPOINT" \in status /\ handler = "idle"
      BY <2>8, <3>3 DEF Uncounted, Doing
    <3> QED
      BY <3>4 DEF Synced, Interrupts
  <2> QED
    BY <2>4, <2>6, <2>7, <2>8 DEF Waiting
<1> QED
  BY <1>1, QueueHolds, SyncedHolds, FlushedHolds, PTL

(* rspq_highpri_sync returns when every command of high priority issued so *)
(* far is executed.                                                        *)
THEOREM HighSyncHolds == ASSUME Prompt = TRUE PROVE Spec => HighSyncWaits
<1>1. Held /\ Flushed => SyncedHigh
  <2> SUFFICES ASSUME Held, Flushed, WaitHalted \/ WaitNotHigh
               PROVE  done["high"] = issued["high"]
    BY DEF SyncedHigh
  <2>1. PICK D : Queue(D)
    BY DEF Held
  <2>2. Types
    BY DEF Held
  <2>3. CASE WaitHalted
    <3>1. Doing("halted?") /\ "HALTED" \in status
      BY <2>3 DEF WaitHalted, Wait
    <3>2. Step = "halted?" /\ Phase = "plain" /\ rpc = "wakeup"
      BY <2>2, <3>1, DoingStep DEF Flushed
    <3>3. ~ Behind
      BY <3>1, <3>2 DEF Flushed
    <3> QED
      BY <2>1, <2>2, <3>2, <3>3, Resting
  <2>4. CASE WaitNotHigh
    <3>1. Doing("not high?") /\ ~ High /\ ~ Requested
      BY <2>4 DEF WaitNotHigh, Wait, High, Requested
    <3>2. Phase = "plain"
      BY <2>2, <3>1, DoingStep
    <3> QED
      BY <2>1, <2>2, <3>1, <3>2, HighIdle
  <2> QED
    BY <2>3, <2>4
<1> QED
  BY <1>1, QueueHolds, FlushedHolds, PTL DEF HighSyncWaits

(* The words of a buffer: the sentinel leaves room for one more command    *)
(* and the way to the other buffer.  In the high queue the words around a  *)
(* sequence are written without a look at the sentinel: they need room as  *)
(* well, and a sequence without a command would need it again.             *)
Roomy == Modest = TRUE /\ CmdWords + 5 <= MaxShort

Reserved(q) ==
  IF Moving(q, "hand off") THEN HandoffWords[q]
  ELSE IF ~ Moving(q, "leave") THEN 0 ELSE IF q = "low" THEN 3 ELSE 1

Unchecked ==
  IF Closed \/ Phase \in {"request", "prolog"} THEN 4
  ELSE IF issued["high"] \in ends THEN 5
  ELSE IF Phase = "swap epilog" THEN 1 ELSE 0

Slack(q) == IF ctx = q /\ Switches(todo) THEN MaxShort
            ELSE IF q = "low" THEN 0 ELSE Unchecked

FitsIn(q) ==
  /\ used[Other(q)] + Reserved(q) <= Size[q]
  /\ sentinel[q] + MaxShort + HandoffWords[q] <= Size[q]
  /\ used[Active(q)] <= sentinel[q] + Slack(q)

Around == {"patch epilog", "patch swap", "request", "prolog"} \cup Epilogs

Begun ==
  /\ Closed \/ Phase \in {"request", "prolog"} => issued["high"] \in ends
  /\ Step \in Epilogs => issued["high"] \notin ends
  /\ Step \in Around => ~ Switches(todo)

Fits == Begun /\ \A q \in Queues : FitsIn(q)

LEMMA TheNumbers ==
  ASSUME Types, NEW q \in Queues
  PROVE  /\ used[Active(q)] \in Nat /\ used[Other(q)] \in Nat /\ sentinel[q] \in Nat
         /\ Size[q] \in Nat /\ HandoffWords[q] \in Nat /\ MaxShort \in Nat
         /\ Active(q) \in Buffers /\ Other(q) \in Buffers /\ Active(q) # Other(q)
<1>1. Active(q) \in Buffers /\ Other(q) \in Buffers /\ Active(q) # Other(q)
  BY TheBuffers DEF Types
<1>2. MaxShort \in Nat
  BY SizeAssumption
<1> QED
  BY <1>1, <1>2, SentinelPlace DEF Types

LEMMA AtMost5 ==
  ASSUME NEW m \in Nat, NEW c \in Nat, c + 5 <= m
  PROVE  0 <= m /\ 1 <= m /\ 4 <= m /\ 5 <= m /\ m <= m
  OBVIOUS

LEMMA SlackType ==
  ASSUME Roomy, NEW q
  PROVE  /\ Slack(q) \in Nat /\ Slack(q)' \in Nat /\ Slack(q) <= MaxShort /\ Slack(q)' <= MaxShort
         /\ Unchecked \in {0, 1, 4, 5} /\ Reserved("low") \in Nat /\ Reserved("high") \in Nat
         /\ ~ Switches(todo) => Slack(q) \in {0, 1, 4, 5}
         /\ ~ Switches(todo) /\ q = "low" => Slack(q) = 0
<1>1. MaxShort \in Nat /\ CmdWords \in Nat /\ MaxShort' = MaxShort
  BY SizeAssumption
<1>2. 0 <= MaxShort /\ 1 <= MaxShort /\ 4 <= MaxShort /\ 5 <= MaxShort /\ MaxShort <= MaxShort
  BY <1>1, AtMost5 DEF Roomy
<1>3. Unchecked \in {0, 1, 4, 5} /\ Unchecked' \in {0, 1, 4, 5}
  BY DEF Unchecked
<1>4. Slack(q) \in {MaxShort, 0, 1, 4, 5} /\ Slack(q)' \in {MaxShort, 0, 1, 4, 5}
  BY <1>1, <1>3 DEF Slack
<1>5. /\ Slack(q) \in Nat /\ Slack(q)' \in Nat /\ Slack(q) <= MaxShort /\ Slack(q)' <= MaxShort
  BY ONLY <1>1, <1>2, <1>4
<1>6. ~ Switches(todo) => Slack(q) \in {0, 1, 4, 5}
  BY <1>3 DEF Slack
<1>7. ~ Switches(todo) /\ q = "low" => Slack(q) = 0
  BY DEF Slack
<1>8. Reserved("low") \in {5, 3, 0} /\ Reserved("high") \in {2, 1, 0}
  BY SentinelPlace DEF Reserved
<1>9. Reserved("low") \in Nat /\ Reserved("high") \in Nat
  BY ONLY <1>8
<1> QED
  BY <1>3, <1>5, <1>6, <1>7, <1>9

LEMMA MoreSlack ==
  ASSUME NEW u \in Nat, NEW n \in Nat, NEW s \in Nat, NEW t \in Nat, u <= n + s, s <= t
  PROVE  u <= n + t
  OBVIOUS

LEMMA FitsInKept ==
  ASSUME Types, Roomy, NEW q \in Queues, FitsIn(q), Active(q)' = Active(q), Other(q)' = Other(q),
         used'[Active(q)] = used[Active(q)], used'[Other(q)] = used[Other(q)],
         sentinel'[q] = sentinel[q], Reserved(q)' = Reserved(q), Slack(q) <= Slack(q)'
  PROVE  FitsIn(q)'
<1>1. used[Active(q)] \in Nat /\ sentinel[q] \in Nat
  BY TheNumbers
<1>2. Slack(q) \in Nat /\ Slack(q)' \in Nat
  BY SlackType
<1>3. used[Active(q)] <= sentinel[q] + Slack(q)
  BY DEF FitsIn
<1>4. Slack(q) <= Slack(q)'
  OBVIOUS
<1>5. used[Active(q)] <= sentinel[q] + Slack(q)'
  BY ONLY <1>1, <1>2, <1>3, <1>4, MoreSlack
<1>6. used'[Active(q)'] <= sentinel'[q] + Slack(q)'
  BY <1>5
<1>7. /\ used'[Other(q)'] + Reserved(q)' <= Size[q]
      /\ sentinel'[q] + MaxShort + HandoffWords[q] <= Size[q]
  BY DEF FitsIn
<1> QED
  BY <1>6, <1>7 DEF FitsIn

LEMMA FollowAround ==
  ASSUME NEW s \in Steps, NEW t \in Follow[s]
  PROVE  (t \in Around => s \in Around) /\ (t \in Epilogs => s \in Epilogs)
<1>1. \A u \in Finals \ {"more again"} : Follow[u] = {}
  BY FollowSteps
<1>2. s \in Finals \/ s \in {"more", "bufdone?", "wait bufdone", "clear bufdone",
          "switch", "hand off", "leave", "patch epilog", "patch swap", "request", "prolog",
          "jump epilog", "swap epilog"}
  BY DEF Steps, Finals
<1>3. /\ \A u \in Follow["more again"] : u \notin Around /\ u \notin Epilogs
      /\ \A u \in Follow["more"] : u \notin Around /\ u \notin Epilogs
      /\ \A u \in Follow["bufdone?"] : u \notin Around /\ u \notin Epilogs
      /\ \A u \in Follow["wait bufdone"] : u \notin Around /\ u \notin Epilogs
      /\ \A u \in Follow["clear bufdone"] : u \notin Around /\ u \notin Epilogs
      /\ \A u \in Follow["switch"] : u \notin Around /\ u \notin Epilogs
      /\ \A u \in Follow["hand off"] : u \notin Around /\ u \notin Epilogs
      /\ \A u \in Follow["leave"] : u \notin Around /\ u \notin Epilogs
  BY FollowSteps DEF Around, Epilogs
<1>4. \A u \in {"patch epilog", "patch swap", "request", "prolog"} :
         u \in Around /\ \A v \in Follow[u] : v \notin Epilogs
  BY FollowSteps DEF Around, Epilogs
<1>5. "jump epilog" \in Epilogs /\ "swap epilog" \in Epilogs /\ Epilogs \subseteq Around
  BY DEF Around, Epilogs
<1>6. CASE s \in Finals /\ s # "more again"
  BY <1>1, <1>6
<1> QED
  BY <1>2, <1>3, <1>4, <1>5, <1>6

(* Steps that write no word.                                               *)
LEMMA FitsSame ==
  ASSUME Types, Roomy, Fits, UNCHANGED <<used, idx, sentinel>>,
         \A q \in Queues : Reserved(q)' = Reserved(q) /\ Slack(q) <= Slack(q)', Begun'
  PROVE  Fits'
<1>1. ASSUME NEW q \in Queues PROVE FitsIn(q)'
  <2>1. Active(q)' = Active(q) /\ Other(q)' = Other(q)
    BY DEF Active, Other
  <2>2. FitsIn(q)
    BY DEF Fits
  <2>3. Reserved(q)' = Reserved(q) /\ Slack(q) <= Slack(q)'
    OBVIOUS
  <2> QED
    BY <2>1, <2>2, <2>3, FitsInKept
<1> QED
  BY <1>1 DEF Fits

LEMMA SlackKept ==
  ASSUME Roomy, Unchecked' = Unchecked,
         (ctx' = ctx /\ (Switches(todo) => Switches(todo'))) \/ ~ Switches(todo), NEW q \in Queues
  PROVE  Slack(q) <= Slack(q)'
<1>1. /\ Slack(q) \in Nat /\ Slack(q)' \in Nat /\ Slack(q) <= MaxShort /\ Slack(q)' <= MaxShort
  BY SlackType
<1>2. Slack(q)' = MaxShort \/ Slack(q)' = Slack(q)
  BY DEF Slack
<1> QED
  BY ONLY <1>1, <1>2

LEMMA QuietFits ==
  ASSUME Types, Roomy, Fits, SamePhase, UNCHANGED <<used, idx, sentinel, issued, ends>>,
         (ctx' = ctx /\ (Switches(todo) => Switches(todo'))) \/ ~ Switches(todo),
         Step' \in Epilogs => issued["high"] \notin ends,
         Step' \in Around => ~ Switches(todo')
  PROVE  Fits'
<1>1. \A q \in Queues : Reserved(q)' = Reserved(q)
  BY DEF Reserved, SamePhase, Phases
<1>2. Unchecked' = Unchecked
  BY DEF Unchecked, SamePhase
<1>3. Begun'
  BY DEF Fits, Begun, SamePhase
<1> QED
  BY <1>1, <1>2, <1>3, SlackKept, FitsSame

(* One step of a call after another.                                       *)
LEMMA TailFits ==
  ASSUME Types, NEW s, Doing(s), todo' = Tail(todo), Fits
  PROVE  /\ Step = s /\ (Step' \in Epilogs => s \in Epilogs) /\ (Step' \in Around => s \in Around)
         /\ Step' \in Around => ~ Switches(todo')
         /\ s # "switch" => (Switches(todo) => Switches(todo'))
<1>1. /\ Step = s /\ s \in Steps
      /\ Step' = NoStep \/ Step' \in Follow[s]
      /\ Switches(todo) => s = Turn \/ Switches(todo')
      /\ Switches(todo') => Switches(todo)
  BY NextStep DEF Types
<1>2. NoStep \notin Around /\ NoStep \notin Epilogs
  BY DEF NoStep, Around, Epilogs
<1>3. (Step' \in Epilogs => s \in Epilogs) /\ (Step' \in Around => s \in Around)
  BY <1>1, <1>2, FollowAround
<1>4. Step' \in Around => ~ Switches(todo')
  BY <1>1, <1>3 DEF Fits, Begun
<1>5. s # "switch" => (Switches(todo) => Switches(todo'))
  BY <1>1 DEF Turn
<1> QED
  BY <1>1, <1>3, <1>4, <1>5

LEMMA FitsQuietCalls ==
  ASSUME Types, Roomy, Fits,
         \/ FlushMore \/ FlushMoreAgain \/ CheckBufdone \/ WaitBufdone \/ LowContext
         \/ WaitHalted \/ WaitNotHigh \/ WaitSyncpoint
  PROVE  Fits'
<1>1. SamePhase /\ UNCHANGED <<used, idx, sentinel, issued, ends>>
  BY QuietCallSteps DEF Quiet, memory
<1>2. ASSUME NEW s, Doing(s), todo' = Tail(todo), s \notin Epilogs, s # "switch", ctx' = ctx
      PROVE  Fits'
  <2>1. /\ Step' \notin Epilogs /\ (Step' \in Around => ~ Switches(todo'))
        /\ Switches(todo) => Switches(todo')
    BY <1>2, TailFits
  <2> QED
    BY <1>1, <1>2, <2>1, QuietFits
<1>3. \A s \in {"more", "more again", "wait bufdone", "halted?", "not high?", "syncpoint?"} :
        s \notin Epilogs /\ s # "switch"
  BY DEF Epilogs
<1>4. CASE FlushMore \/ FlushMoreAgain
  <2>1. PICK s \in {"more", "more again"} : Doing(s) /\ todo' = Tail(todo) /\ ctx' = ctx
    BY <1>4 DEF FlushMore, FlushMoreAgain, WriteSpStatus, cpu
  <2> QED
    BY <1>2, <1>3, <2>1
<1>5. CASE WaitBufdone \/ WaitHalted \/ WaitNotHigh \/ WaitSyncpoint
  <2>1. PICK s \in {"wait bufdone", "halted?", "not high?", "syncpoint?"} :
           Doing(s) /\ todo' = Tail(todo) /\ ctx' = ctx
    BY <1>5 DEF WaitBufdone, WaitHalted, WaitNotHigh, WaitSyncpoint, Wait, cpu
  <2> QED
    BY <1>2, <1>3, <2>1
<1>6. CASE CheckBufdone
  <2>1. Doing("bufdone?") /\ ctx' = ctx
    BY <1>6 DEF CheckBufdone, cpu
  <2>2. CASE todo' = Tail(todo)
    BY <1>2, <2>1, <2>2 DEF Epilogs
  <2>3. CASE Step' = "more" /\ (Switches(todo) => Switches(todo'))
    <3>1. Step' \notin Epilogs /\ Step' \notin Around
      BY <2>3 DEF Epilogs, Around
    <3> QED
      BY <1>1, <2>1, <2>3, <3>1, QuietFits
  <2> QED
    BY <1>6, <2>2, <2>3, CheckSteps
<1>7. CASE LowContext
  <2>1. Doing("low context") /\ todo' = Tail(todo)
    BY <1>7 DEF LowContext
  <2>2. /\ Step' \notin Epilogs /\ (Step' \in Around => ~ Switches(todo'))
        /\ Switches(todo) => Switches(todo')
    <3>1. "low context" \notin Epilogs /\ "low context" # "switch"
      BY DEF Epilogs
    <3> QED
      BY <2>1, <3>1, TailFits
  <2>3. ~ Switches(todo')
    <3>1. Step' = NoStep
      <4>1. Step' = NoStep \/ Step' \in Follow["low context"]
        BY <2>1, NextStep DEF Types
      <4>2. Follow["low context"] = {}
        BY FollowSteps DEF Finals
      <4> QED
        BY <4>1, <4>2
    <3>2. Chain(todo', ctx)
      BY <2>1, NextStep DEF Types
    <3>3. todo' = <<>>
      BY <3>1, <3>2, StepFacts DEF Step
    <3> QED
      BY <3>3, NoCall
  <2> QED
    BY <1>1, <2>2, <2>3, QuietFits
<1> QED
  BY <1>4, <1>5, <1>6, <1>7

LEMMA FitsProgram ==
  ASSUME Types, Roomy, Fits, RspqFlush \/ RspqSyncpointWait \/ RspqHighpriSync \/ RspqHighpriEnd
  PROVE  Fits'
<1>1. SamePhase /\ UNCHANGED <<used, idx, sentinel, issued, ends>>
  BY QuietCalls DEF Quiet, memory
<1>2. PICK steps : StartCall(steps)
  BY DEF RspqFlush, RspqSyncpointWait, RspqHighpriEnd, RspqHighpriSync
<1>3. todo = <<>> /\ ~ Switches(todo) /\ todo' = steps
  BY <1>2, NoCall DEF StartCall, Free
<1>4. CASE RspqHighpriEnd
  <2>1. issued["high"] \notin ends
    BY <1>4 DEF RspqHighpriEnd, Roomy
  <2>2. ~ Switches(todo')
    BY <1>4, EndSteps DEF RspqHighpriEnd, StartCall
  <2> QED
    BY <1>1, <1>3, <2>1, <2>2, QuietFits
<1>5. CASE RspqFlush \/ RspqSyncpointWait \/ RspqHighpriSync
  <2>1. First(todo') = "more"
    <3>1. CASE RspqFlush
      BY <3>1, FlushSteps DEF RspqFlush, StartCall
    <3>2. CASE RspqSyncpointWait
      <4>1. ctx = "low" /\ "syncpoint?" \in Follow[Again] \ {"wait bufdone"}
            /\ "syncpoint?" \notin HighSteps
        BY <3>2, FollowSteps DEF RspqSyncpointWait, Again, HighSteps
      <4>2. First(Flush \o <<"syncpoint?">>) = "more"
        BY <4>1, FlushAnd
      <4> QED
        BY <3>2, <4>2 DEF RspqSyncpointWait, StartCall
    <3>3. CASE RspqHighpriSync
      <4>1. {"halted?", "not high?"} \subseteq Follow[Again] \ {"wait bufdone"}
            /\ "halted?" \notin LowSteps /\ "not high?" \notin HighSteps
        BY FollowSteps DEF Again, LowSteps, HighSteps
      <4>2. CASE ctx = "high"
        <5>1. First(Flush \o <<"halted?">>) = "more"
          BY <4>1, <4>2, FlushAnd
        <5> QED
          BY <3>3, <4>2, <5>1 DEF RspqHighpriSync, StartCall
      <4>3. CASE ctx # "high"
        <5>1. ctx = "low"
          BY <4>3 DEF Types, Queues
        <5>2. First(Flush \o <<"not high?">>) = "more"
          BY <4>1, <5>1, FlushAnd
        <5> QED
          BY <3>3, <4>3, <5>2 DEF RspqHighpriSync, StartCall
      <4> QED
        BY <4>2, <4>3
    <3> QED
      BY <1>5, <3>1, <3>2, <3>3
  <2>2. Step' \notin Epilogs /\ Step' \notin Around
    BY <2>1 DEF Step, Epilogs, Around
  <2> QED
    BY <1>1, <1>3, <2>2, QuietFits
<1> QED
  BY <1>4, <1>5

(* Steps into and out of the phases in which nothing is reserved.          *)
LEMMA FitsPhase ==
  ASSUME Types, Roomy, Fits, UNCHANGED <<used, idx, sentinel>>,
         Phase \notin {"hand off", "leave"}, Phase' \notin {"hand off", "leave"},
         Unchecked' = Unchecked,
         (ctx' = ctx /\ (Switches(todo) => Switches(todo'))) \/ ~ Switches(todo), Begun'
  PROVE  Fits'
<1>1. \A q \in Queues : Reserved(q)' = Reserved(q)
  BY DEF Reserved, Moving
<1> QED
  BY <1>1, SlackKept, FitsSame

LEMMA FitsBegin ==
  ASSUME Types, Roomy, Fits, RspqHighpriBegin
  PROVE  Fits'
<1> DEFINE s == buf[Active("high")]
<1>1. /\ ctx = "low" /\ ctx' = "high" /\ todo = <<>>
      /\ todo' = (IF Epilog(s) THEN <<"patch epilog", "patch swap">> ELSE <<>>)
                   \o <<"request", "prolog">> \o Flush
      /\ UNCHANGED <<used, idx, sentinel, issued, ends>>
  BY DEF RspqHighpriBegin, StartCall, Free, memory, history
<1> HIDE DEF s
<1>2. /\ Step = NoStep /\ Phase = "plain" /\ Closed /\ ~ Switches(todo)
  BY <1>1, NoCall DEF Step, Phase, Phases, NoStep, Closed
<1>3. /\ Step' \in {"patch epilog", "request"} /\ ~ Switches(todo')
  <2>1. CASE Epilog(s)
    BY <1>1, <2>1, BeginSteps DEF Step
  <2>2. CASE ~ Epilog(s)
    BY <1>1, <2>2, BeginSteps DEF Step
  <2> QED
    BY <2>1, <2>2
<1>4. Phase' = Step'
  BY <1>3 DEF Phase, Phases
<1>5. Phase' = "patch epilog" => Closed'
  BY DEF Closed
<1>6. Closed' \/ Phase' \in {"request", "prolog"}
  BY <1>3, <1>4, <1>5
<1>7. Unchecked = 4 /\ Unchecked' = 4
  BY <1>2, <1>6 DEF Unchecked
<1>8. Begun'
  <2>1. Step' \notin Epilogs
    BY <1>3 DEF Epilogs
  <2>2. issued["high"] \in ends
    BY <1>2 DEF Fits, Begun
  <2> QED
    BY <1>1, <1>3, <2>1, <2>2 DEF Begun
<1> QED
  BY <1>1, <1>2, <1>3, <1>4, <1>7, <1>8, FitsPhase

LEMMA FitsClear ==
  ASSUME Types, Roomy, Fits, ClearBufdone
  PROVE  Fits'
<1>1. /\ Doing("clear bufdone") /\ todo' = Tail(todo)
      /\ UNCHANGED <<used, ctx, idx, sentinel, issued, ends>>
  BY DEF ClearBufdone, WriteSpStatus, memory, cpu
<1>2. /\ Step = "clear bufdone" /\ todo # <<>> /\ Chain(todo, ctx)
      /\ Step' = NoStep => "clear bufdone" \in Finals
      /\ Step' # NoStep => Step' \in Follow["clear bufdone"] /\ Goal(todo') = Goal(todo)
  BY <1>1, NextStep DEF Types
<1>3. Step' = "switch" /\ Goal(todo') = Goal(todo) /\ Goal(todo) # Closing
  <2>1. "clear bufdone" \notin Finals /\ "clear bufdone" \notin Endings
    BY DEF Finals, Endings, Epilogs
  <2>2. Goal(todo) = Closing => First(todo) \in Endings
    BY <1>2, StepFacts
  <2> QED
    BY <1>2, <2>1, <2>2, FollowSteps DEF Step
<1>4. Phase = "plain" /\ Phase' = "switch"
  BY <1>2, <1>3 DEF Phase, Phases
<1>5. (Closed <=> ctx = "low") /\ (Closed' <=> ctx = "low")
  BY <1>1, <1>3, <1>4 DEF Closed
<1>6. Unchecked' = Unchecked
  BY <1>1, <1>4, <1>5 DEF Unchecked
<1>7. Switches(todo) => Switches(todo')
  <2>1. PICK s : s = "clear bufdone"
    OBVIOUS
  <2>2. Doing(s) /\ todo' = Tail(todo) /\ s # "switch"
    BY <1>1, <2>1
  <2> QED
    BY <2>2, TailFits
<1>8. Begun'
  <2>1. Step' \notin Epilogs /\ Step' \notin Around
    BY <1>3 DEF Epilogs, Around
  <2> QED
    BY <1>1, <1>4, <1>5, <2>1 DEF Fits, Begun
<1> QED
  BY <1>1, <1>4, <1>6, <1>7, <1>8, FitsPhase

LEMMA FitsPatch ==
  ASSUME Types, Roomy, Fits, PatchEpilog \/ PatchSwap \/ RequestHighpri
  PROVE  Fits'
<1>1. ASSUME NEW s \in {"patch epilog", "patch swap", "request"}, Doing(s), todo' = Tail(todo),
             Phase = s, Phase' \in {"patch swap", "request", "prolog"},
             Closed \/ Phase = "request", Closed' \/ Phase' \in {"request", "prolog"},
             UNCHANGED <<used, ctx, idx, sentinel, issued, ends>>
      PROVE  Fits'
  <2>1. Unchecked = 4 /\ Unchecked' = 4
    BY <1>1 DEF Unchecked
  <2>2. s \notin Epilogs /\ s # "switch"
    BY DEF Epilogs
  <2>3. /\ Step' \notin Epilogs /\ (Step' \in Around => ~ Switches(todo'))
        /\ Switches(todo) => Switches(todo')
    BY <1>1, <2>2, TailFits
  <2>4. Begun'
    BY <1>1, <2>3 DEF Fits, Begun
  <2> QED
    BY <1>1, <2>1, <2>3, <2>4, FitsPhase
<1>2. ASSUME NEW s \in {"patch epilog", "patch swap"}, NEW i, Patch(s, i)
      PROVE  Fits'
  <2>1. Doing(s) /\ todo' = Tail(todo)
    BY <1>2 DEF Patch
  <2>2. /\ Phase = s /\ Closed
        /\ s = "patch epilog" => Phase' = "patch swap" /\ Closed'
        /\ s = "patch swap" => Phase' = "request"
        /\ UNCHANGED <<used, ctx, idx, sentinel, issued, ends>>
    BY <1>2, PatchSteps
  <2> QED
    BY <1>1, <2>1, <2>2
<1>3. CASE RequestHighpri
  <2>1. /\ Doing("request") /\ todo' = Tail(todo)
        /\ UNCHANGED <<used, ctx, idx, sentinel, issued, ends>>
    BY <1>3 DEF RequestHighpri, WriteSpStatus, memory, cpu
  <2>2. /\ Step = "request"
        /\ Step' = NoStep => "request" \in Finals
        /\ Step' # NoStep => Step' \in Follow["request"]
    BY <2>1, NextStep DEF Types
  <2>3. Step' = "prolog"
    <3>1. "request" \notin Finals
      BY DEF Finals
    <3> QED
      BY <2>2, <3>1, FollowSteps
  <2>4. Phase = "request" /\ Phase' = "prolog"
    BY <2>2, <2>3 DEF Phase, Phases
  <2> QED
    BY <1>1, <2>1, <2>4
<1> QED
  BY <1>2, <1>3 DEF PatchEpilog, PatchSwap

LEMMA RoomToLeave ==
  ASSUME NEW u \in Nat, NEW n \in Nat, NEW s \in Nat, NEW m \in Nat, NEW h \in Nat, NEW z \in Nat,
         u <= n + s, s <= m, n + m + h <= z
  PROVE  u + h <= z
  OBVIOUS

LEMMA FitsSwitch ==
  ASSUME Types, Roomy, Fits, SwitchBuffer, Prompt = TRUE
  PROVE  Fits'
<1>1. /\ Doing("switch") /\ todo' = Tail(todo)
      /\ ctx = "high" => at[1] # Other(ctx)
      /\ idx' = [idx EXCEPT ![ctx] = 1 - @]
      /\ buf' = [buf EXCEPT ![Other(ctx)] = <<>>]
      /\ used' = [used EXCEPT ![Other(ctx)] = 0]
      /\ sentinel' = [sentinel EXCEPT ![ctx] = Size[ctx] - (MaxShort + HandoffWords[ctx])]
      /\ UNCHANGED <<status, ctx, rpc, at, snap, cmd, stack, issued, done, ends>>
  BY DEF SwitchBuffer, rsp, history, Other
<1>2. /\ Step = "switch" /\ todo # <<>> /\ Chain(todo, ctx)
      /\ Step' = NoStep => "switch" \in Finals
      /\ Step' # NoStep => Step' \in Follow["switch"] /\ Goal(todo') = Goal(todo)
  BY <1>1, NextStep DEF Types
<1>3. Step' = "hand off" /\ Goal(todo') = Goal(todo) /\ Goal(todo) # Closing
  <2>1. "switch" \notin Finals /\ "switch" \notin Endings
    BY DEF Finals, Endings, Epilogs
  <2>2. Goal(todo) = Closing => First(todo) \in Endings
    BY <1>2, StepFacts
  <2> QED
    BY <1>2, <2>1, <2>2, FollowSteps DEF Step
<1>4. Phase = "switch" /\ Phase' = "hand off"
  BY <1>2, <1>3 DEF Phase, Phases
<1>5. (Closed <=> ctx = "low") /\ (Closed' <=> ctx = "low")
  BY <1>1, <1>3, <1>4 DEF Closed
<1>6. Turned
  BY <1>1, <1>4, <1>5 DEF Turned
<1>7. Unchecked' = Unchecked
  BY <1>1, <1>4, <1>5 DEF Unchecked
<1>8. Begun'
  <2>1. Step' \notin Epilogs /\ Step' \notin Around
    BY <1>3 DEF Epilogs, Around
  <2> QED
    BY <1>1, <1>4, <1>5, <2>1 DEF Fits, Begun
<1>9. ASSUME NEW q \in Queues, q = ctx PROVE FitsIn(q)'
  <2>1. /\ Active(q)' = Other(q) /\ Other(q)' = Active(q) /\ Active(q) # Other(q)
        /\ Active(q) \in Buffers /\ Other(q) \in Buffers
    BY <1>6, <1>9, TurnedNames
  <2>2. /\ used \in [Buffers -> Nat] /\ sentinel \in [Queues -> Nat]
        /\ used' = [used EXCEPT ![Other(q)] = 0]
        /\ sentinel' = [sentinel EXCEPT ![q] = Size[q] - (MaxShort + HandoffWords[q])]
    BY <1>1, <1>9 DEF Types
  <2>3. /\ used'[Other(q)] = 0 /\ used'[Active(q)] = used[Active(q)]
        /\ sentinel'[q] = Size[q] - (MaxShort + HandoffWords[q])
    BY ONLY <2>1, <2>2, q \in Queues
  <2>4. /\ used[Active(q)] \in Nat /\ sentinel[q] \in Nat
        /\ Size[q] \in Nat /\ HandoffWords[q] \in Nat /\ MaxShort \in Nat
    BY TheNumbers
  <2>5. Slack(q) \in Nat /\ Slack(q)' \in Nat /\ Slack(q) <= MaxShort
    BY SlackType
  <2>6. /\ used[Active(q)] <= sentinel[q] + Slack(q)
        /\ sentinel[q] + MaxShort + HandoffWords[q] <= Size[q]
    BY DEF Fits, FitsIn
  <2>7. used[Active(q)] + HandoffWords[q] <= Size[q]
    BY ONLY <2>4, <2>5, <2>6, RoomToLeave
  <2>8. Reserved(q)' = HandoffWords[q]
    BY <1>1, <1>4, <1>9 DEF Reserved, Moving
  <2>9. /\ sentinel'[q] \in Nat
        /\ sentinel'[q] + MaxShort + HandoffWords[q] <= Size[q]
    BY <2>3, SentinelPlace
  <2>10. 0 <= sentinel'[q] + Slack(q)'
    BY ONLY <2>5, <2>9
  <2>11. used'[Other(q)'] + Reserved(q)' <= Size[q]
    BY <2>1, <2>3, <2>7, <2>8
  <2>12. used'[Active(q)'] <= sentinel'[q] + Slack(q)'
    BY <2>1, <2>3, <2>10
  <2> QED
    BY <2>9, <2>11, <2>12 DEF FitsIn
<1>10. ASSUME NEW q \in Queues, q # ctx PROVE FitsIn(q)'
  <2>1. /\ ctx \in Queues /\ Active(q)' = Active(q) /\ Other(q)' = Other(q)
        /\ Active(q) # Other(ctx) /\ Other(q) # Other(ctx)
    BY <1>6, <1>10, TurnedNames
  <2>2. Active(q) \in Buffers /\ Other(q) \in Buffers /\ Other(ctx) \in Buffers
    BY <2>1, TheNumbers
  <2>3. /\ used'[Active(q)] = used[Active(q)] /\ used'[Other(q)] = used[Other(q)]
        /\ sentinel'[q] = sentinel[q]
    BY <1>1, <1>10, <2>1, <2>2 DEF Types
  <2>4. Reserved(q)' = Reserved(q)
    BY <1>1, <1>10 DEF Reserved, Moving
  <2>5. Slack(q)' = Slack(q)
    BY <1>1, <1>7, <1>10 DEF Slack
  <2>6. Slack(q) <= Slack(q)'
    <3>1. Slack(q) \in Nat
      BY SlackType
    <3> QED
      BY ONLY <2>5, <3>1
  <2>7. FitsIn(q)
    BY DEF Fits
  <2> QED
    BY <2>1, <2>3, <2>4, <2>6, <2>7, FitsInKept
<1> QED
  BY <1>8, <1>9, <1>10 DEF Fits

(* A buffer grows by some words.                                           *)
LEMMA FitsGrow ==
  ASSUME Types, Roomy, Fits, NEW q \in Queues, NEW a, NEW w \in Nat,
         \/ a = Active(q) /\ used[a] + w <= sentinel[q] + Slack(q)' /\ Reserved(q)' = Reserved(q)
         \/ a = Other(q) /\ Reserved(q)' \in Nat /\ Reserved(q) = w + Reserved(q)' /\ Slack(q) <= Slack(q)',
         used' = [used EXCEPT ![a] = @ + w], UNCHANGED <<idx, sentinel>>,
         \A r \in Queues : r # q => Reserved(r)' = Reserved(r) /\ Slack(r) <= Slack(r)',
         Begun'
  PROVE  Fits'
<1>1. ASSUME NEW r \in Queues
      PROVE  /\ Active(r)' = Active(r) /\ Other(r)' = Other(r) /\ sentinel'[r] = sentinel[r]
             /\ Active(r) \in Buffers /\ Other(r) \in Buffers /\ Active(r) # Other(r)
  BY TheNumbers DEF Active, Other
<1>2. /\ used \in [Buffers -> Nat] /\ a \in {Active(q), Other(q)}
  BY DEF Types
<1>3. a \in Buffers
  BY <1>1, <1>2
<1>4. used'[a] = used[a] + w /\ \A b \in Buffers : b # a => used'[b] = used[b]
  BY ONLY <1>2, <1>3, used' = [used EXCEPT ![a] = @ + w]
<1>5. ASSUME NEW r \in Queues, r # q PROVE FitsIn(r)'
  <2>1. Active(r) # a /\ Other(r) # a
    BY <1>2, <1>5 DEF Active, Other
  <2>2. /\ used'[Active(r)] = used[Active(r)] /\ used'[Other(r)] = used[Other(r)]
        /\ Active(r)' = Active(r) /\ Other(r)' = Other(r) /\ sentinel'[r] = sentinel[r]
    BY <1>1, <1>4, <2>1
  <2>3. Reserved(r)' = Reserved(r) /\ Slack(r) <= Slack(r)'
    BY <1>5
  <2>4. FitsIn(r)
    BY DEF Fits
  <2> QED
    BY <2>2, <2>3, <2>4, FitsInKept
<1>6. FitsIn(q)'
  <2>1. /\ used[Other(q)] + Reserved(q) <= Size[q]
        /\ sentinel[q] + MaxShort + HandoffWords[q] <= Size[q]
        /\ used[Active(q)] <= sentinel[q] + Slack(q)
    BY DEF Fits, FitsIn
  <2>2. /\ used[Active(q)] \in Nat /\ used[Other(q)] \in Nat /\ sentinel[q] \in Nat
        /\ Size[q] \in Nat
    BY TheNumbers
  <2>3. CASE a = Active(q) /\ used[a] + w <= sentinel[q] + Slack(q)' /\ Reserved(q)' = Reserved(q)
    <3>1. used'[Active(q)'] <= sentinel'[q] + Slack(q)' /\ used'[Other(q)'] = used[Other(q)]
      BY <1>1, <1>4, <2>3
    <3> QED
      BY <1>1, <2>1, <2>3, <3>1 DEF FitsIn
  <2>4. CASE /\ a = Other(q) /\ Reserved(q)' \in Nat /\ Reserved(q) = w + Reserved(q)'
             /\ Slack(q) <= Slack(q)'
    <3>1. Slack(q) \in Nat /\ Slack(q)' \in Nat
      BY SlackType
    <3>2. used[Active(q)] <= sentinel[q] + Slack(q)'
      BY ONLY <2>1, <2>2, <2>4, <3>1, MoreSlack
    <3>3. used[Other(q)] + w + Reserved(q)' <= Size[q]
      BY ONLY <2>1, <2>2, <2>4, w \in Nat
    <3>4. used'[Other(q)'] = used[Other(q)] + w /\ used'[Active(q)'] = used[Active(q)]
      BY <1>1, <1>4, <2>4
    <3> QED
      BY <1>1, <2>1, <3>2, <3>3, <3>4 DEF FitsIn
  <2> QED
    BY <2>3, <2>4
<1> QED
  BY <1>5, <1>6 DEF Fits

LEMMA Added ==
  ASSUME NEW u \in Nat, NEW n \in Nat, NEW s \in Nat, NEW t \in Nat, NEW w \in Nat, u <= n + s,
         s + w <= t
  PROVE  u + w <= n + t
  OBVIOUS

LEMMA Itself ==
  ASSUME NEW n \in Nat
  PROVE  n <= n
  OBVIOUS

LEMMA AddedAll ==
  ASSUME NEW u \in Nat, NEW n \in Nat, NEW s \in Nat, NEW t \in Nat, NEW w \in Nat, u <= n + s,
         t = s + w
  PROVE  u + w <= n + t
  OBVIOUS

(* The words around a sequence: each adds to what the next may need.       *)
LEMMA FitsAround ==
  ASSUME Types, Roomy, Fits, Prolog \/ JumpEpilog \/ SwapEpilog
  PROVE  Fits'
<1>1. ASSUME NEW s \in {"prolog", "jump epilog", "swap epilog"}, NEW c \in Commands,
             AppendStep(s, Active("high"), c), Appends(s, Active("high"), c), ends \subseteq ends',
             NEW w \in Nat, w = Words[c.op], Unchecked' = Unchecked + w,
             Closed' \/ Phase' \in {"request", "prolog"} => issued["high"] \in ends',
             s = "jump epilog" => ends' = ends
      PROVE  Fits'
  <2>1. /\ "high" \in Queues /\ "low" \in Queues /\ Active("high") \in Buffers
    BY TheBuffers DEF Types
  <2>2. /\ Step = s /\ Step' \in Follow[s] /\ ctx = "high" /\ ctx' = "high"
        /\ UNCHANGED <<idx, sentinel, issued>> /\ todo' = Tail(todo) /\ Doing(s)
        /\ used' = [used EXCEPT ![Active("high")] = @ + w]
    BY <1>1, <2>1, AppendsSteps DEF AppendStep, Append2, cpu
  <2>3. s \in Around
    BY DEF Around, Epilogs
  <2>4. ~ Switches(todo)
    BY <2>2, <2>3 DEF Fits, Begun
  <2>5. ~ Switches(todo')
    <3>1. Chain(todo, ctx) /\ todo # <<>>
      BY <2>2 DEF Types, Doing
    <3> QED
      BY <2>2, <2>4, <3>1, ChainTail
  <2>6. s \in {"prolog", "swap epilog"} => Step' = "more"
    BY <2>2, FollowSteps
  <2>7. s = "jump epilog" => issued["high"] \notin ends
    BY <2>2 DEF Fits, Begun, Epilogs
  <2>8. Begun'
    <3>1. s \in {"prolog", "swap epilog"} => Step' \notin Epilogs /\ Step' \notin Around
      BY <2>6 DEF Epilogs, Around
    <3> QED
      BY <1>1, <2>2, <2>5, <2>7, <3>1 DEF Begun
  <2>9. Reserved("high")' = Reserved("high") /\ Reserved("low")' = Reserved("low")
    <3>1. Phase' \notin {"hand off", "leave"} /\ Phase \notin {"hand off", "leave"}
      <4>1. s = "jump epilog" => Step' = "swap epilog"
        BY <2>2, FollowSteps
      <4> QED
        BY <2>2, <2>6, <4>1 DEF Phase
    <3> QED
      BY <3>1 DEF Reserved, Moving
  <2>10. /\ Slack("high") = Unchecked /\ Slack("high")' = Unchecked'
         /\ Slack("low") = 0 /\ Slack("low")' = 0
    BY <2>2, <2>4, <2>5 DEF Slack
  <2>11. Slack("low") <= Slack("low")'
    <3>1. PICK n \in Nat : n = 0
      OBVIOUS
    <3>2. n <= n
      BY ONLY n \in Nat, Itself
    <3> QED
      BY <2>10, <3>1, <3>2
  <2>12. used[Active("high")] + w <= sentinel["high"] + Slack("high")'
    <3>1. PICK q \in Queues : q = "high"
      BY <2>1
    <3>2. used[Active(q)] <= sentinel[q] + Slack(q)
      BY DEF Fits, FitsIn
    <3>3. used[Active(q)] \in Nat /\ sentinel[q] \in Nat
      BY TheNumbers
    <3>4. Slack(q) \in Nat /\ Slack(q)' \in Nat
      BY SlackType
    <3>5. Slack(q)' = Slack(q) + w
      BY <1>1, <2>10, <3>1
    <3>6. used[Active(q)] + w <= sentinel[q] + Slack(q)'
      BY ONLY <3>2, <3>3, <3>4, <3>5, w \in Nat, AddedAll
    <3> QED
      BY <3>1, <3>6
  <2> QED
    <3>1. \A r \in Queues : r # "high" => Reserved(r)' = Reserved(r) /\ Slack(r) <= Slack(r)'
      BY <2>9, <2>11 DEF Queues
    <3>2. UNCHANGED <<idx, sentinel>>
      BY <2>2
    <3> QED
      BY <2>1, <2>2, <2>8, <2>9, <2>12, <3>1, <3>2, FitsGrow
<1>2. Words["STATUS"] = 1 /\ Words["JUMP"] = 1 /\ Words["SWAP"] = 3
  BY DEF Words
<1>3. "high" \in Queues /\ "low" # "high" /\ Active("high") \in Buffers
  BY TheBuffers DEF Types
<1>4. ASSUME NEW s \in {"prolog", "jump epilog", "swap epilog"}, NEW c \in Commands,
             AppendStep(s, Active("high"), c), Appends(s, Active("high"), c), ends \subseteq ends'
      PROVE  /\ Step = s /\ Step' \in Follow[s] /\ Goal(todo') = Goal(todo)
             /\ ctx = "high" /\ ctx' = "high" /\ issued' = issued
             /\ s \in Epilogs => Goal(todo) = Closing
             /\ s \notin Epilogs => Goal(todo) # Closing
  BY <1>3, <1>4, AppendsSteps DEF AppendStep, cpu
<1>5. CASE Prolog
  <2>1. AppendStep("prolog", Active("high"), Opening) /\ UNCHANGED ends
    BY <1>5 DEF Prolog, Opening
  <2>2. Appends("prolog", Active("high"), Opening) /\ Opening \in Commands
    BY CommandTypes DEF Appends
  <2>3. /\ Step = "prolog" /\ Step' \in Follow["prolog"] /\ Goal(todo') = Goal(todo)
        /\ ctx = "high" /\ ctx' = "high" /\ issued' = issued /\ Goal(todo) # Closing
    BY <1>4, <2>1, <2>2 DEF Epilogs
  <2>4. Step' = "more"
    BY <2>3, FollowSteps
  <2>5. Phase = "prolog" /\ Phase' = "plain"
    BY <2>3, <2>4 DEF Phase, Phases
  <2>6. ~ Closed' /\ issued["high"] \in ends
    BY <2>3, <2>5 DEF Closed, Fits, Begun
  <2>7. Unchecked = 4 /\ Unchecked' = 5
    BY <2>1, <2>3, <2>5, <2>6 DEF Unchecked
  <2>8. Words[Opening.op] = 1
    BY <1>2, CommandFields
  <2> QED
    <3>1. Unchecked' = Unchecked + 1
      BY ONLY <2>7
    <3> QED
      BY <1>1, <2>1, <2>2, <2>5, <2>6, <2>8, <3>1
<1>6. CASE JumpEpilog
  <2>1. PICK c : c = Jump(<<Active("high"), Len(buf[Active("high")]) + 2>>)
    OBVIOUS
  <2>2. AppendStep("jump epilog", Active("high"), c) /\ UNCHANGED ends
    BY <1>6, <2>1 DEF JumpEpilog
  <2>3. Appends("jump epilog", Active("high"), c)
    BY <2>1 DEF Appends
  <2>4. c \in Commands
    <3>1. Len(buf[Active("high")]) \in Nat
      BY <1>3, SomeLength DEF Types
    <3>2. Len(buf[Active("high")]) + 2 \in Nat \ {0}
      BY ONLY <3>1
    <3> QED
      BY <1>3, <2>1, <3>2, ThePlaces, CommandTypes
  <2>5. /\ Step = "jump epilog" /\ Step' \in Follow["jump epilog"] /\ Goal(todo') = Goal(todo)
        /\ ctx = "high" /\ ctx' = "high" /\ issued' = issued
    BY <1>4, <2>2, <2>3, <2>4
  <2>6. Step' = "swap epilog"
    BY <2>5, FollowSteps
  <2>7. Phase = "plain" /\ Phase' = "swap epilog"
    BY <2>5, <2>6 DEF Phase, Phases
  <2>8. ~ Closed /\ ~ Closed' /\ issued["high"] \notin ends
    BY <2>5, <2>6, <2>7 DEF Closed, Fits, Begun, Epilogs
  <2>9. Unchecked = 0 /\ Unchecked' = 1
    BY <2>2, <2>5, <2>7, <2>8 DEF Unchecked
  <2>10. Words[c.op] = 1
    BY <1>2, <2>1, CommandFields
  <2> QED
    <3>1. Unchecked' = Unchecked + 1
      BY ONLY <2>9
    <3> QED
      BY <1>1, <2>2, <2>3, <2>4, <2>7, <2>8, <2>10, <3>1
<1>7. CASE SwapEpilog
  <2>1. AppendStep("swap epilog", Active("high"), LeaveHigh) /\ ends' = ends \cup {issued["high"]}
    BY <1>7 DEF SwapEpilog, LeaveHigh
  <2>2. Appends("swap epilog", Active("high"), LeaveHigh) /\ LeaveHigh \in Commands
    BY CommandTypes DEF Appends
  <2>3. /\ Step = "swap epilog" /\ Step' \in Follow["swap epilog"] /\ Goal(todo') = Goal(todo)
        /\ ctx = "high" /\ ctx' = "high" /\ issued' = issued /\ Goal(todo) = Closing
    BY <1>4, <2>1, <2>2 DEF Epilogs
  <2>4. Step' = "more"
    BY <2>3, FollowSteps
  <2>5. Phase = "swap epilog" /\ Phase' = "plain"
    BY <2>3, <2>4 DEF Phase, Phases
  <2>6. ~ Closed /\ Closed' /\ issued["high"] \notin ends
    BY <2>3, <2>4, <2>5 DEF Closed, Fits, Begun, Epilogs
  <2>7. Unchecked = 1 /\ Unchecked' = 4
    BY <2>5, <2>6 DEF Unchecked
  <2>8. Words[LeaveHigh.op] = 3
    BY <1>2, CommandFields
  <2> QED
    <3>1. Unchecked' = Unchecked + 3
      BY ONLY <2>7
    <3> QED
      BY <1>1, <2>1, <2>2, <2>8, <3>1
<1> QED
  BY <1>5, <1>6, <1>7

(* The way to the other buffer takes the words that are reserved for it.   *)
LEMMA FitsLeave ==
  ASSUME Types, Roomy, Fits, HandOff \/ Leave
  PROVE  Fits'
<1>1. ctx \in Queues /\ Other(ctx) \in Buffers /\ Active(ctx) \in Buffers
  BY TheBuffers DEF Types
<1>2. <<Active(ctx), 1>> \in Places /\ Other(ctx) = <<ctx, 1 - idx[ctx]>>
  <2>1. 1 \in Nat \ {0}
    OBVIOUS
  <2> QED
    BY <1>1, <2>1, ThePlaces DEF Other
<1>3. ASSUME NEW s \in {"hand off", "leave"}, NEW c \in Commands,
             AppendStep(s, Other(ctx), c), Appends(s, Other(ctx), c), ends' = ends,
             NEW w \in Nat, w = Words[c.op], NEW n \in Nat, Reserved(ctx)' = n,
             Reserved(ctx) = w + n
      PROVE  Fits'
  <2>1. /\ Step = s /\ Step' \in Follow[s] /\ ctx' = ctx /\ Goal(todo') = Goal(todo)
        /\ UNCHANGED <<idx, sentinel, issued>> /\ todo' = Tail(todo) /\ Doing(s)
        /\ used' = [used EXCEPT ![Other(ctx)] = @ + w]
    BY <1>1, <1>3, AppendsSteps DEF AppendStep, Append2, cpu
  <2>2. s \notin Epilogs /\ s # "switch" /\ s \in Phases
    BY DEF Epilogs, Phases
  <2>3. Goal(todo) # Closing
    BY <1>1, <1>3, <2>2, AppendsSteps
  <2>4. Step' \in {"leave", "more"}
    BY <2>1, FollowSteps
  <2>5. Phase = s /\ Phase' \in {"leave", "plain"}
    BY <2>1, <2>2, <2>4 DEF Phase, Phases
  <2>6. (Closed <=> ctx = "low") /\ (Closed' <=> ctx = "low")
    BY <2>1, <2>3, <2>5 DEF Closed
  <2>7. Unchecked' = Unchecked
    BY <1>3, <2>1, <2>5, <2>6 DEF Unchecked
  <2>8. Switches(todo) => Switches(todo')
    BY <2>1, <2>2, TailFits
  <2>9. \A q \in Queues : Slack(q) <= Slack(q)'
    BY <2>1, <2>7, <2>8, SlackKept
  <2>10. Begun'
    <3>1. Step' \notin Epilogs /\ Step' \notin Around
      BY <2>4 DEF Epilogs, Around
    <3> QED
      BY <1>3, <2>1, <2>5, <2>6, <3>1 DEF Fits, Begun
  <2>11. \A r \in Queues : r # ctx => Reserved(r)' = Reserved(r)
    BY <2>1 DEF Reserved, Moving
  <2>12. Reserved(ctx)' \in Nat /\ Reserved(ctx) = w + Reserved(ctx)'
    BY <1>3
  <2>13. UNCHANGED <<idx, sentinel>>
    BY <2>1
  <2> QED
    BY <1>1, <2>1, <2>9, <2>10, <2>11, <2>12, <2>13, FitsGrow
<1>4. /\ Words["WORD"] = 2 /\ Words["STATUS"] = 1 /\ Words["JUMP"] = 1 /\ Words["SWAP"] = 3
  BY DEF Words
<1>5. CASE HandOff
  <2>1. PICK c : c = HandsOver(ctx)
    OBVIOUS
  <2>2. c \in Commands /\ Appends("hand off", Other(ctx), c)
    BY <1>2, <2>1, CommandTypes DEF Appends, HandsOver
  <2>3. AppendStep("hand off", Other(ctx), c) /\ ends' = ends
    <3>1. c = IF ctx = "low" THEN WriteWord(<<Active(ctx), 1>>) ELSE WriteStatus({}, {Bufdone(ctx)})
      BY <1>1, <2>1 DEF HandsOver, Handover, Bufdone, Queues
    <3> QED
      BY <1>2, <1>5, <3>1 DEF HandOff
  <2>4. /\ Step = "hand off" /\ Step' \in Follow["hand off"] /\ ctx' = ctx
    BY <1>1, <2>2, <2>3, AppendsSteps DEF AppendStep, cpu
  <2>5. Phase = "hand off" /\ Phase' = "leave"
    BY <2>4, FollowSteps DEF Phase, Phases
  <2>6. /\ Reserved(ctx) = HandoffWords[ctx]
        /\ Reserved(ctx)' = IF ctx = "low" THEN 3 ELSE 1
    BY <2>4, <2>5 DEF Reserved, Moving
  <2>7. Words[c.op] = IF ctx = "low" THEN 2 ELSE 1
    BY <1>4, <2>1, CommandFields DEF HandsOver
  <2>8. HandoffWords[ctx] = IF ctx = "low" THEN 5 ELSE 2
    BY <1>1, SentinelPlace DEF Queues
  <2>9. 5 = 2 + 3 /\ 2 = 1 + 1
    BY ONLY TRUE
  <2>10. CASE ctx = "low"
    <3>1. Reserved(ctx) = 2 + 3 /\ Reserved(ctx)' = 3 /\ Words[c.op] = 2
      BY <2>6, <2>7, <2>8, <2>9, <2>10
    <3> QED
      BY <1>3, <2>2, <2>3, <3>1
  <2>11. CASE ctx # "low"
    <3>1. Reserved(ctx) = 1 + 1 /\ Reserved(ctx)' = 1 /\ Words[c.op] = 1
      BY <2>6, <2>7, <2>8, <2>9, <2>11
    <3> QED
      BY <1>3, <2>2, <2>3, <3>1
  <2> QED
    BY <2>10, <2>11
<1>6. CASE Leave
  <2>1. PICK c : c = Leaves(ctx)
    OBVIOUS
  <2>2. c \in Commands /\ Appends("leave", Other(ctx), c)
    BY <1>1, <1>2, <2>1, CommandTypes DEF Appends, Leaves, Queues
  <2>3. AppendStep("leave", Other(ctx), c) /\ ends' = ends
    <3>1. c = IF ctx = "low" THEN SwapBuffers("block", "block", {}, {Bufdone(ctx)})
              ELSE Jump(<<Active(ctx), 1>>)
      BY <1>1, <2>1 DEF Leaves, LeaveLow, Bufdone, Queues
    <3> QED
      BY <1>2, <1>6, <3>1 DEF Leave
  <2>4. /\ Step = "leave" /\ Step' \in Follow["leave"] /\ ctx' = ctx
    BY <1>1, <2>2, <2>3, AppendsSteps DEF AppendStep, cpu
  <2>5. Phase = "leave" /\ Phase' = "plain"
    BY <2>4, FollowSteps DEF Phase, Phases
  <2>6. /\ Reserved(ctx) = (IF ctx = "low" THEN 3 ELSE 1) /\ Reserved(ctx)' = 0
    BY <2>4, <2>5 DEF Reserved, Moving
  <2>7. Words[c.op] = IF ctx = "low" THEN 3 ELSE 1
    BY <1>4, <2>1, CommandFields DEF Leaves
  <2>a. PICK z \in Nat : z = 0
    OBVIOUS
  <2>8. 3 = 3 + z /\ 1 = 1 + z
    BY ONLY <2>a, z \in Nat
  <2>9. CASE ctx = "low"
    <3>1. Reserved(ctx) = 3 + z /\ Reserved(ctx)' = z /\ Words[c.op] = 3
      BY <2>6, <2>7, <2>a, <2>8, <2>9
    <3> QED
      BY <1>3, <2>2, <2>3, <3>1
  <2>10. CASE ctx # "low"
    <3>1. Reserved(ctx) = 1 + z /\ Reserved(ctx)' = z /\ Words[c.op] = 1
      BY <2>6, <2>7, <2>a, <2>8, <2>10
    <3> QED
      BY <1>3, <2>2, <2>3, <3>1
  <2> QED
    BY <2>9, <2>10
<1> QED
  BY <1>5, <1>6

LEMMA WriteRoom ==
  ASSUME NEW w \in Nat, NEW c \in Nat, NEW m \in Nat, NEW s \in {0, 1, 4, 5},
         \/ w <= c
         \/ w = 2 /\ s = 0,
         c + 5 <= m
  PROVE  s + w <= m \/ m < 2
  OBVIOUS

LEMMA NotAbove ==
  ASSUME NEW u \in Nat, NEW n \in Nat, NEW s \in Nat, ~ (u > n)
  PROVE  u <= n + s
  OBVIOUS

(* A command: either the buffer still ends in front of its sentinel, or it *)
(* is going to be left.                                                    *)
LEMMA FitsWrite ==
  ASSUME Types, Roomy, Fits, NEW q \in Queues, NEW c, c.op \in {"CMD", "CALL", "TEST"},
         q = "high" => c.op = "CMD", Write(q, c)
  PROVE  Fits'
<1>1. /\ ctx \in Queues /\ "low" \in Queues /\ "high" \in Queues /\ "low" # "high"
      /\ \A r \in Queues : r = "low" \/ r = "high"
  BY TheBuffers DEF Types
<1>2. PICK a : a = Active(q)
  OBVIOUS
<1>3. PICK w : w = Words[c.op]
  OBVIOUS
<1>4. MaxShort \in Nat /\ CmdWords \in Nat /\ 2 <= MaxShort /\ CmdWords + 5 <= MaxShort
  BY SizeAssumption DEF Roomy
<1>5. w = CmdWords \/ (w = 2 /\ q = "low")
  BY <1>1, <1>3 DEF Words
<1>6. w \in Nat
  BY <1>4, <1>5
<1>7. /\ todo = <<>> /\ ctx = q /\ ctx' = q
      /\ used' = [used EXCEPT ![a] = @ + w]
      /\ todo' = IF used'[a] > sentinel[q] THEN NextBuffer ELSE <<>>
      /\ issued' = [issued EXCEPT ![q] = @ + 1]
      /\ UNCHANGED <<idx, sentinel, ends>>
  BY <1>2, <1>3 DEF Write, Free, Append2, cpu
<1>8. Step' \in {NoStep, "bufdone?"} /\ Goal(todo') # Closing
  <2>1. CASE todo' = NextBuffer
    <3>1. /\ First(NextBuffer) = "bufdone?" /\ Goal(NextBuffer) = Again
      BY NextBufferSteps
    <3> QED
      BY <2>1, <3>1 DEF Step, Again, Closing
  <2>2. CASE todo' = <<>>
    BY <2>2, NoCall DEF Step, NoStep, Closing
  <2> QED
    BY <1>7, <2>1, <2>2
<1>9. Step = NoStep /\ Goal(todo) # Closing /\ ~ Switches(todo)
  BY <1>7, NoCall DEF Step, NoStep, Closing
<1>10. Phase = "plain" /\ Phase' = "plain"
  BY <1>8, <1>9 DEF Phase, Phases, NoStep
<1>11. (Closed <=> ctx = "low") /\ (Closed' <=> ctx = "low")
  BY <1>7, <1>8, <1>9, <1>10 DEF Closed
<1>12. \A r \in Queues : Reserved(r)' = 0 /\ Reserved(r) = 0
  BY <1>10 DEF Reserved, Moving
<1>13. q = "low" => issued'["high"] = issued["high"]
  BY <1>1, <1>7 DEF Types
<1>14. Begun'
  <2>1. Step' \notin Epilogs /\ Step' \notin Around
    BY <1>8 DEF Epilogs, Around, NoStep
  <2> QED
    BY <1>1, <1>7, <1>10, <1>11, <1>13, <2>1 DEF Fits, Begun
<1>15. ASSUME NEW r \in Queues, r # q PROVE Slack(r) <= Slack(r)'
  <2>1. Slack(r)' = Slack(r)
    <3>1. CASE r = "low"
      BY <1>7, <1>15, <3>1 DEF Slack
    <3>2. CASE r # "low"
      <4>1. q = "low"
        BY <1>1, <1>15, <3>2
      <4>2. Unchecked = 4 /\ Unchecked' = 4
        BY <1>7, <1>11, <4>1 DEF Unchecked
      <4> QED
        BY <1>7, <1>15, <3>2, <4>2 DEF Slack
    <3> QED
      BY <3>1, <3>2
  <2>2. PICK n \in Nat : n = Slack(r)
    BY SlackType
  <2>3. n <= n
    BY ONLY n \in Nat, Itself
  <2> QED
    BY <2>1, <2>2, <2>3
<1>16. used[a] + w <= sentinel[q] + Slack(q)'
  <2>1. PICK u \in Nat : u = used[a]
    BY <1>2, TheNumbers
  <2>2. PICK n \in Nat : n = sentinel[q]
    BY TheNumbers
  <2>3. PICK s \in {0, 1, 4, 5} : s = Slack(q)
    BY <1>9, SlackType
  <2>4. PICK t \in Nat : t = Slack(q)'
    BY SlackType
  <2>5. u <= n + s
    BY <1>2, <2>1, <2>2, <2>3 DEF Fits, FitsIn
  <2>6. w = 2 /\ q = "low" => s = 0
    BY <1>9, <2>3, SlackType
  <2>7. used'[a] = u + w
    <3>1. used \in [Buffers -> Nat] /\ a \in Buffers
      BY <1>2, TheNumbers DEF Types
    <3>2. used' = [used EXCEPT ![a] = @ + w]
      BY <1>7
    <3> QED
      BY ONLY <2>1, <3>1, <3>2
  <2>8. CASE used'[a] > sentinel[q]
    <3>1. Switches(todo') /\ ctx' = q
      BY <1>7, <2>8, NextBufferSteps
    <3>2. t = MaxShort
      BY <2>4, <3>1 DEF Slack
    <3>3. w = CmdWords \/ (w = 2 /\ s = 0)
      BY <1>5, <2>6
    <3>4. w <= CmdWords \/ (w = 2 /\ s = 0)
      <4>1. PICK k \in Nat : k = CmdWords
        BY <1>4
      <4>2. k <= k
        BY ONLY k \in Nat, Itself
      <4> QED
        BY <3>3, <4>1, <4>2
    <3>5. ~ (MaxShort < 2)
      BY ONLY <1>4
    <3>6. s + w <= t
      BY ONLY <1>4, <1>6, <3>2, <3>4, <3>5, WriteRoom, s \in {0, 1, 4, 5}
    <3>7. s \in Nat
      BY ONLY s \in {0, 1, 4, 5}
    <3>8. u + w <= n + t
      BY ONLY <1>6, <2>5, <3>6, <3>7, u \in Nat, n \in Nat, t \in Nat, Added
    <3> QED
      BY <2>1, <2>2, <2>4, <3>8
  <2>9. CASE ~ (used'[a] > sentinel[q])
    <3>1. ~ (u + w > n)
      BY <2>2, <2>7, <2>9
    <3>2. u + w \in Nat
      BY ONLY <1>6, u \in Nat
    <3>3. u + w <= n + t
      BY ONLY <3>1, <3>2, n \in Nat, t \in Nat, NotAbove
    <3> QED
      BY <2>1, <2>2, <2>4, <3>3
  <2> QED
    BY <2>8, <2>9
<1>17. UNCHANGED <<idx, sentinel>> /\ Reserved(q)' = Reserved(q)
  BY <1>7, <1>12
<1> QED
  BY <1>2, <1>6, <1>7, <1>12, <1>14, <1>15, <1>16, <1>17, FitsGrow

LEMMA FitsWrites ==
  ASSUME Types, Roomy, Fits, RspqWrite \/ RspqBlockRun \/ RspqSyncpointNew
  PROVE  Fits'
<1>1. "low" \in Queues /\ "low" # "high"
  BY DEF Queues
<1>2. CASE RspqWrite
  <2>1. PICK q \in Queues : Write(q, Cmd(q, Number(q)))
    BY <1>2 DEF RspqWrite
  <2>2. Cmd(q, Number(q)).op = "CMD"
    BY CommandFields
  <2> QED
    BY <2>1, <2>2, FitsWrite
<1>3. CASE RspqBlockRun
  <2>1. Call(Number("low")).op = "CALL" /\ Write("low", Call(Number("low")))
    BY <1>3, CommandFields DEF RspqBlockRun
  <2> QED
    BY <1>1, <2>1, FitsWrite
<1>4. CASE RspqSyncpointNew
  <2>1. /\ TestWriteStatus(Number("low")).op = "TEST"
        /\ Write("low", TestWriteStatus(Number("low")))
    BY <1>4, CommandFields DEF RspqSyncpointNew
  <2> QED
    BY <1>1, <2>1, FitsWrite
<1> QED
  BY <1>2, <1>3, <1>4

LEMMA FitsRsp ==
  ASSUME Types, Roomy, Fits, UNCHANGED <<buf, used, ctx, idx, sentinel, todo, issued, ends>>
  PROVE  Fits'
<1>1. Step' = Step /\ Phase' = Phase
  BY DEF Step, Phase
<1>2. SamePhase
  BY <1>1 DEF SamePhase, Closed, Moving
<1>3. UNCHANGED <<used, idx, sentinel, issued, ends>>
  OBVIOUS
<1>4. /\ Step' \in Epilogs => issued["high"] \notin ends
      /\ Step' \in Around => ~ Switches(todo')
  BY <1>1 DEF Fits, Begun
<1> QED
  BY <1>2, <1>3, <1>4, QuietFits

LEMMA FitsInit ==
  ASSUME Init, Roomy
  PROVE  Fits
<1>1. /\ todo = <<>> /\ ctx = "low" /\ used = [b \in Buffers |-> 0]
      /\ idx = [q \in Queues |-> 0] /\ issued = [q \in Queues |-> 0] /\ ends = {0}
      /\ sentinel = [q \in Queues |-> Size[q] - MaxCommand]
  BY DEF Init
<1>2. Step = NoStep /\ ~ Switches(todo)
  BY <1>1, NoCall DEF Step
<1>3. Phase = "plain"
  BY <1>2 DEF Phase, Phases, NoStep
<1>4. Begun
  <2>1. issued["high"] = 0
    BY <1>1 DEF Queues
  <2>2. issued["high"] \in ends
    BY <1>1, <2>1
  <2> QED
    BY <1>2, <2>2 DEF Begun, Epilogs, Around, NoStep
<1>5. ASSUME NEW q \in Queues PROVE FitsIn(q)
  <2>1. Active(q) \in Buffers /\ Other(q) \in Buffers
    BY <1>1 DEF Active, Other, Buffers
  <2>2. used[Active(q)] = 0 /\ used[Other(q)] = 0 /\ sentinel[q] = Size[q] - MaxCommand
    BY <1>1, <2>1
  <2>3. Reserved(q) = 0
    BY <1>3 DEF Reserved, Moving
  <2>4. /\ Size[q] \in Nat /\ sentinel[q] \in Nat
        /\ sentinel[q] + MaxShort + HandoffWords[q] <= Size[q]
    BY <2>2, SentinelPlace
  <2>5. Slack(q) \in Nat
    BY SlackType
  <2>6. 0 + 0 <= Size[q] /\ 0 <= sentinel[q] + Slack(q)
    BY ONLY <2>4, <2>5
  <2>7. used[Other(q)] + Reserved(q) <= Size[q]
    BY <2>2, <2>3, <2>6
  <2> QED
    BY <2>2, <2>4, <2>6, <2>7 DEF FitsIn
<1> QED
  BY <1>4, <1>5 DEF Fits

LEMMA FitsHolds == ASSUME Prompt = TRUE, Roomy PROVE Spec => []Fits
<1>1. Init => Fits
  BY FitsInit
<1>2. Held /\ Fits /\ [Next]_vars => Fits'
  <2> SUFFICES ASSUME Held, Fits, [Next]_vars PROVE Fits'
    OBVIOUS
  <2>1. Types
    BY DEF Held
  <2>2. CASE UNCHANGED vars
    BY <2>1, <2>2, FitsRsp DEF vars, memory, cpu, history
  <2>3. CASE Next
    <3>1. CASE RspqWrite \/ RspqBlockRun \/ RspqSyncpointNew
      BY <2>1, <3>1, FitsWrites
    <3>2. CASE RspqFlush \/ RspqSyncpointWait \/ RspqHighpriSync \/ RspqHighpriEnd
      BY <2>1, <3>2, FitsProgram
    <3>3. CASE RspqHighpriBegin
      BY <2>1, <3>3, FitsBegin
    <3>4. CASE CallStep
      <4>1. CASE \/ FlushMore \/ FlushMoreAgain \/ CheckBufdone \/ WaitBufdone \/ LowContext
                 \/ WaitHalted \/ WaitNotHigh \/ WaitSyncpoint
        BY <2>1, <4>1, FitsQuietCalls
      <4>2. CASE ClearBufdone
        BY <2>1, <4>2, FitsClear
      <4>3. CASE SwitchBuffer
        BY <2>1, <4>3, FitsSwitch
      <4>4. CASE HandOff \/ Leave
        BY <2>1, <4>4, FitsLeave
      <4>5. CASE PatchEpilog \/ PatchSwap \/ RequestHighpri
        BY <2>1, <4>5, FitsPatch
      <4>6. CASE Prolog \/ JumpEpilog \/ SwapEpilog
        BY <2>1, <4>6, FitsAround
      <4> QED
        BY <3>4, <4>1, <4>2, <4>3, <4>4, <4>5, <4>6 DEF CallStep
    <3>5. CASE Interrupt
      BY <2>1, <3>5, FitsRsp DEF Interrupt, Acknowledge, SpInterrupt, memory, cpu, history
    <3>6. CASE RspExecute
      <4>1. SameCpu
        BY <3>6, Effects
      <4> QED
        BY <2>1, <4>1, FitsRsp DEF SameCpu
    <3>7. CASE Between
      <4>1. SameCpu
        BY <3>7, BetweenStep DEF Held, Queue
      <4> QED
        BY <2>1, <4>1, FitsRsp DEF SameCpu
    <3> QED
      BY <2>3, <3>1, <3>2, <3>3, <3>4, <3>5, <3>6, <3>7 DEF Next, Program, Rsp, Between
  <2> QED
    BY <2>2, <2>3
<1>3. Spec => []Held
  BY QueueHolds
<1> QED
  BY <1>1, <1>2, <1>3, PTL DEF Spec

LEMMA AtOrBefore ==
  ASSUME NEW p \in Nat \ {0}, NEW n \in Nat, p \in 1 .. (n + 1) \/ p - 1 \in 1 .. n
  PROVE  p <= n + 1
  OBVIOUS

LEMMA HeadInside ==
  ASSUME NEW D, Types, Queue(D), rpc \in {"loop", "execute"}
  PROVE  at[2] <= Len(snap) + 1
<1>1. PICK p \in Nat \ {0} : p = at[2]
  BY TheHead
<1>2. PICK n \in Nat : n = Len(snap)
  BY TheHead
<1>3. CASE rpc = "execute" /\ cmd # EnterHigh
  <2>1. Here[2] \in 1 .. Len(snap)
    BY <1>3 DEF Queue, Copy
  <2>2. Here[2] = at[2] - 1
    BY <1>3 DEF Here
  <2>3. p - 1 \in 1 .. n
    BY <1>1, <1>2, <2>1, <2>2
  <2>4. p <= n + 1
    BY ONLY <2>3, p \in Nat \ {0}, n \in Nat, AtOrBefore
  <2> QED
    BY <1>1, <1>2, <2>4
<1>4. CASE ~ (rpc = "execute" /\ cmd # EnterHigh)
  <2>1. p \in 1 .. (n + 1)
    BY <1>1, <1>2, <1>4 DEF Queue, Copy
  <2>2. p <= n + 1
    BY ONLY <2>1, p \in Nat \ {0}, n \in Nat, AtOrBefore
  <2> QED
    BY <1>1, <1>2, <2>2
<1> QED
  BY <1>3, <1>4

LEMMA InItsBuffer ==
  ASSUME NEW u \in Nat, NEW n \in Nat, NEW s \in Nat, NEW m \in Nat, NEW h \in Nat, NEW z \in Nat,
         u <= n + s, s <= m, n + m + h <= z
  PROVE  u <= z
  OBVIOUS

LEMMA WithinBuffer ==
  ASSUME Types, Roomy, Fits
  PROVE  BufferFits
<1>1. ASSUME NEW q \in Queues
      PROVE  used[Active(q)] <= Size[q] /\ used[Other(q)] <= Size[q]
  <2>1. /\ used[Active(q)] \in Nat /\ used[Other(q)] \in Nat /\ sentinel[q] \in Nat
        /\ Size[q] \in Nat /\ HandoffWords[q] \in Nat /\ MaxShort \in Nat
    BY TheNumbers
  <2>2. Slack(q) \in Nat /\ Slack(q) <= MaxShort
    BY SlackType
  <2>3. /\ used[Other(q)] + Reserved(q) <= Size[q]
        /\ sentinel[q] + MaxShort + HandoffWords[q] <= Size[q]
        /\ used[Active(q)] <= sentinel[q] + Slack(q)
    BY DEF Fits, FitsIn
  <2>4. used[Active(q)] <= Size[q]
    BY ONLY <2>1, <2>2, <2>3, InItsBuffer
  <2>5. Reserved(q) \in Nat
    BY SlackType DEF Queues
  <2>6. used[Other(q)] <= Size[q]
    BY ONLY <2>1, <2>3, <2>5
  <2> QED
    BY <2>4, <2>6
<1>2. \A b \in Buffers : b[1] \in Queues /\ b \in {Active(b[1]), Other(b[1])}
  BY TheBuffers DEF Types
<1> QED
  BY <1>1, <1>2 DEF BufferFits

LEMMA FewCounted ==
  ASSUME NEW s \in Nat, NEW e \in {0, 1}, NEW l \in Nat, s + e <= l
  PROVE  s <= l
  OBVIOUS

(* The state stays in its types: the RSP reads only what was written, and  *)
(* no buffer overruns its memory, if every sequence of high priority holds *)
(* a command and its commands leave room for the words around it.          *)
THEOREM TypesHold ==
  ASSUME Prompt = TRUE, Modest = TRUE, CmdWords + 5 <= MaxShort
  PROVE  Spec => []TypeOK
<1>1. Roomy
  BY DEF Roomy
<1>2. Held /\ Synced /\ Fits => TypeOK
  <2> SUFFICES ASSUME Held, Synced, Fits PROVE TypeOK
    OBVIOUS
  <2>1. PICK D : Queue(D)
    BY DEF Held
  <2>2. Types
    BY DEF Held
  <2>3. BufferFits
    BY <1>1, <2>2, WithinBuffer
  <2>4. rpc \in {"loop", "execute"} => at[2] <= Len(snap) + 1
    BY <2>1, <2>2, HeadInside
  <2>5. \A q \in Queues : done[q] <= issued[q] /\ issued[q] <= MaxIssued[q]
    BY <2>1, <2>2, DoneIssued DEF Types
  <2>6. syncDone <= Len(syncAt)
    <3>1. Uncounted \in {0, 1}
      BY DEF Uncounted
    <3>2. syncDone \in Nat /\ Len(syncAt) \in Nat
      BY <2>2 DEF Types
    <3>3. syncDone + Uncounted <= Len(syncAt)
      BY DEF Synced, Counting
    <3> QED
      BY ONLY <3>1, <3>2, <3>3, FewCounted
  <2> QED
    BY <2>2, <2>3, <2>4, <2>5, <2>6 DEF TypeOK, Types, Chain
<1>3. (Spec => []Held) /\ (Spec => []Synced) /\ (Spec => []Fits)
  BY <1>1, QueueHolds, SyncedHolds, FitsHolds
<1> QED
  BY <1>2, <1>3, PTL
=============================================================================

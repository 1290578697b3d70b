# TLA+ models of libdragon

libdragon is an SDK for Nintendo 64 programs: a static library that owns the
whole machine.  It brings its own multi-threading kernel, timers, interrupt
handlers, command queues for the coprocessors, controller stack, file systems
and multimedia pipelines.  There is one CPU; concurrency comes from preemption
by interrupts, from threads, and from devices that work on their own (RSP, RDP,
DMA, SI, AI, VI).  This directory holds TLA+ models of the parts of the library
whose correctness depends on the order of such events.  Every definition is
translated from the sources; `PROJECT.json` maps each one to its lines.

Paths below are relative to the library: `src/` is its directory of sources,
`include/` its public headers.

## How to run

    tlc -workers 2 -config MCKernel_sync.cfg MCKernel
    for m in Kernel KQueue Display EepromFile Timer RspQueue RspQueueSync Accessory
    do tlapm ${m}Proofs.tla; done

Each `MC*.cfg` names one run; the table under "Runs" says what it shows.
The proofs are checked in about half an hour, most of it for `KernelProofs`, `RspQueueProofs`
and `RspQueueSyncProofs`.

## The modules

    KernelLists ──> Kernel ──> KernelProperties ──> MCKernel      (TLC)
                                      └──> KernelProofs           (TLAPS)
    Timer ──> TimerProperties ──> MCTimer                         (TLC)
                   └── implements AlarmClock
    KQueue ──> KQueueProperties ──> MCKQueue                      (TLC)
                   └── implements BoundedQueue
    RspQueue ──> RspQueueProperties ──> MCRspQueue                (TLC)
                   └── implements CommandQueues
    Display ──> DisplayProperties ──> MCDisplay                   (TLC)
                   └── implements Screen
    EepromFile ──> EepromFileProperties ──> MCEepromFile          (TLC)
                   └── implements SaveFile
    Pak ──> Accessory ──> AccessoryProperties ──> MCAccessory     (TLC)
    RspQueueProperties ──> RspQueueProofs ──> RspQueueSyncProofs  (TLAPS)
    TimerProofs, KQueueProofs, DisplayProofs, EepromFileProofs and
    AccessoryProofs: each extends the properties module of its
    component                                                     (TLAPS)

| module | what it is |
|---|---|
| `KernelLists` | the singly linked lists of threads (`th_ready`, the waiting lists) as sequences: insertion by priority, removal, splicing of a whole list into another |
| `Kernel` | the kernel: threads, scheduler, mutexes, condition variables, sleep, the interrupt that preempts |
| `KernelProperties` | its invariants, action and liveness properties, and the fairness they need |
| `KernelProofs` | lemmas about the lists, and theorems: type correctness and mutexes; lists, joins, ends of threads, timers on stacks, assertions; inheritance and scheduling by priority |
| `AlarmClock` | abstract specification of a set of timers: when each may ring |
| `Timer`, `TimerProperties` | `timer.c` against the hardware's COUNT and COMPARE; it implements `AlarmClock` |
| `TimerProofs` | theorems: deadlines, and the implementation of `AlarmClock` |
| `BoundedQueue` | abstract specification of a FIFO channel of bounded capacity |
| `KQueue`, `KQueueProperties` | `kqueue.c`; it implements `BoundedQueue` |
| `KQueueProofs` | theorems: the channel, and that no wake-up is lost |
| `CommandQueues` | abstract specification of two queues of commands, one of which preempts the other |
| `RspQueue`, `RspQueueProperties` | `rspq.c` on the CPU against `rsp_queue.inc` on the RSP; it implements `CommandQueues` |
| `RspQueueProofs` | theorems: the implementation of `CommandQueues`, buffers cleared when unused |
| `RspQueueSyncProofs` | theorems: syncpoints, rest of the RSP, `rspq_highpri_sync`, bounds of the buffers |
| `Screen` | abstract specification of a display: frames are shown in order, each with its configuration |
| `Display`, `DisplayProperties` | `display.c` over `vi.c` and the waits of `kirq.c`; it implements `Screen` |
| `DisplayProofs` | theorems: the scanned buffer, and the order of frames |
| `SaveFile` | abstract specification of a file that survives power failures |
| `EepromFile`, `EepromFileProperties` | a file of `eepromfs.c` in the cache of `eeprom.c`; it implements `SaveFile` |
| `EepromFileProofs` | theorems: the cache agrees with the chip; with `Patient` and `Spared`, no power failure loses the file |
| `Pak` | what can be plugged into a controller (external to the library) |
| `Accessory`, `AccessoryProperties` | one port: the message ring of `joybus.c`, the reports of `joypad.c`, the chains of messages of `joypad_accessory.c` |
| `AccessoryProofs` | theorems: transfers are neither forgotten nor reported done too early |
| `MC...` | values of the constants for TLC |

A definition called a mutant in its comment is not part of a model: it is a
plausible bug of the definition that follows it, and `PROJECT.json` names the
property that notices it.

## Inventory

For each component: the state it keeps, its operations, how it interacts with
the others, what is hard about it, and what makes it correct.  `PROJECT.json`
lists the same components with their sources and status.

**Kernel** (`src/kernel/kernel.c`; modelled).  State: the running thread, the
ready list sorted by priority, a singly linked waiting list per mutex and per
condition variable (one link per thread, so a thread is in at most one list),
flags and priority of each thread, owner, nesting counter and saved priority of
each mutex.  Operations: create, exit, kill, join, detach, suspend, resume,
yield, sleep, set_pri; lock, timed lock, unlock; wait, timed wait, signal,
broadcast, and the last two from interrupt handlers.  It uses timers for every
timeout, malloc for thread memory (through a newlib lock that is itself one of
its mutexes), and the interrupt handler for preemption.  Hard: timeouts that
race signals and unlocks; barging on mutexes; priority inheritance with
timeouts and nesting; threads killed or suspended anywhere; memory freed by the
scheduler.  Correct when mutexes exclude, wake-ups are not lost, every thread is
in exactly the list it should be in, priorities are obeyed, inherited and given
back, and no freed thread and no dead stack frame is referred to.

**Kernel queue** (`src/kernel/kqueue.c`; modelled).  A ring with a mutex and
two condition variables, used by threads and by handlers.  Correct when it is a
FIFO channel and nobody sleeps on a ring he could use.

**Kernel semaphore** (`src/kernel/ksemaphore.c`; not modelled).  A count, a mutex and
a condition variable; `ksemaphore_post_isr` increments the count from a handler
(line 64) without looking at the mutex.  Correct when posts and
waits balance.

**Kernel interrupt waits** (`src/kernel/kirq.c`; modelled with the display).  One
condition variable per interrupt line and one counter for all of them;
`kirq_wait` returns at once when the counter moved since `kirq_begin_wait`.
Correct when no interrupt between the two is missed.

**Timers** (`src/timer.c`; modelled in part).  A list of timers, one comparator,
32-bit time that wraps every 91 seconds.  Hard: everything modulo 2^32, time
that passes inside the code, callbacks that change the list being walked.
Correct when every timer rings once per deadline, near it, and never after it
was stopped.

**Interrupt controller and handler** (`src/interrupt.c`, `src/inthandler.S`;
not modelled by itself).  A nesting depth of disabled sections per thread, lists of callbacks
per line, and `__isr_force_schedule`.  The handler saves the context, runs the
callbacks, and asks the scheduler for another stack.  Correct when enabling and
disabling nest across context switches.  The kernel model has the handler's
entry and end; the depth counter is implied by "interrupts are enabled at these
places".

**C11 threads and newlib locks** (`src/kernel/cthreads.c`, `ktls.c`,
`src/system_newlib_locks.c`; not modelled).  Thin wrappers, and the mutexes that
newlib takes inside malloc and stdio, created on first use.

**RSP command queue** (`src/rspq/rspq.c`, `include/rsp_queue.inc`; modelled in
part).  Two buffers that the CPU fills and the RSP drains without a lock, a
second pair of high priority that preempts the first, recorded blocks that are
called, syncpoints counted by interrupts.  Hard: the RSP halts when it finds
nothing and must be woken, and it may decide to halt while it is woken; it
copies the buffer in chunks, so that it may see an old word; switching of buffers
waits for a signal of the RSP; a sequence of high priority may be appended to one
that is just ending.  Correct when every command is executed once and in
order, no buffer is cleared while it is in use, and the RSP never sleeps on work.

**Joybus** (`src/joybus/joybus.c`; modelled with the accessories).  A ring of
messages, one on the wire at a time; the SI interrupt calls back and starts the
next.  Correct when each message completes once and in order.

**Joypad and accessories** (`src/joybus/joypad.c`, `joypad_accessory.c`;
modelled in part).  State machines per port (detect the accessory, transfer
blocks, switch the motor), whose steps are messages queued by the callbacks of
other messages, reset when a controller or a pak is pulled out.  Hard: one state
field is shared by all the chains; a chain can be overtaken by a reset, and by
another chain; the detection writes to the pak to find out what it is.  Correct
when the pak is recognised and left as it was, and transfers report the truth.

**Display** (`src/display.c`; modelled).  Bit masks of the framebuffers being
drawn and those ready to be shown, and the order they were gotten in; the
vertical blank shows the next.  Correct when a buffer is neither drawn to nor
freed while the hardware scans it, and frames are shown in order.

**Video interface** (`src/vi.c`; modelled as far as the display uses it).  A shadow
of the registers that the vertical blank copies to the hardware, unless the
program is in a write transaction.

**Audio output** (`src/audio.c`; next in the plan).  A ring of buffers filled by the CPU
and fed to the AI by its interrupt.  Correct when no buffer that plays is
overwritten.

**Audio mixer and sample buffers** (`src/audio/mixer.c`, `samplebuffer.c`;
not modelled: the window arithmetic is sequential, the rest signal processing).

**EEPROM file system** (`src/joybus/eepromfs.c`, `eeprom.c`; modelled in part).  Files
at fixed blocks, optionally with a checksum and with two copies that are written
in turn; under them a write-back cache of the whole chip, flushed in the
background, one block at a time in random order.  Hard: a power failure between
any two blocks, a chip that is busy and refuses a block, a block written to again
while it is being flushed.  Correct when reads return what was written last and
a power failure leaves the old file or the new one.

**Controller Pak and iQue file systems** (`src/joybus/cpakfs*.c`,
`src/bb/bbfs.c`; not modelled).  Persistent tables written page by page on media
that can be pulled out or lose power: a page table with a backup copy, a
superblock rotation.  Correct when a crash leaves the old file or the
new one, and a check repairs the tables without losing files.

**FlashRAM** (`src/flashram.c`; not modelled).  Command sequences of a chip with
modes.

**Asset cache, hash table, scratch allocator, dynamic linker, DragonFS**
(`src/asset.c`, `hashtable.c`, `scratch.c`, `dlfcn.c`, `dragonfs.c`; not modelled).
Sequential data structures: reference counts, open addressing, free lists,
load order.

**Coroutines** (`src/coroutine.c`, `ucontext.c`; not modelled).  Create, resume, yield
and end of cooperative tasks.

**DMA** (`src/dma.c`; next in the plan).  A ring of transfers with tickets, which the
PI interrupt completes and starts.  Correct when a ticket is finished only after
its transfer, and a full ring does not block for ever.

Not planned: the USB and debug channel (`usb.c`, `debug.c`: register protocols
of cartridges), RDP drawing (`src/rdpq`: command encoding; its autosync state may
follow the RSP queue), system calls (`system.c`, `dir.c`, `fat.c`: tables), exceptions and
backtraces, the 3D pipelines (`src/GL`, `src/magma`, `model64.c`), audio codecs
and sequencers, video decoders, and decompression: numerical code, generated
tables, vendored code or pure I/O, whose correctness is not a matter of the
order of events.

## The kernel model

*Steps.*  The API disables interrupts around its critical sections, so an API
call is one action up to its next context switch and one more, named
`...Resume`, from the point where the thread is scheduled again.  Calls that can
be interrupted half-way have an action per part: `kthread_yield` reads the head
of the ready list with interrupts enabled (`KthreadYield`) and disables them
later (`KthreadYieldSwitch`); `kthread_new` makes the thread ready before its
thread-local storage exists (`KthreadNew`, `KthreadNewInit`); and `start_timer`
may poll, so that other timers, or the very timer just started, fire between
`KmutexTryLockStart` and `KmutexTryLockLoop`, `KcondWaitTimeout` and
`KcondWaitTimeoutSwitch`, `KthreadSleep` and `KthreadSleepSwitch`.

*State.*  The fields of `kthread_t` are functions of the thread or sets of
threads (one set per flag); the lists are sequences; `pc` says where the thread
stands in a call, and `mtx`, `cnd` and `peer` are the objects of that call.
`timer` is the set of threads whose `timer_link_t`, a local variable, is in the
timer list, and `timeout` the set of those whose local `timeout` flag is set.
`held` is history: it is read by properties and by the rule that a program locks
and unlocks in pairs.

*The scheduler* is the operator `Schedule`.  It is part of every action that
switches, with its assertions, the popping of suspended and finished threads,
and the freeing of a thread that has exited, which cuts the debug list of all
threads (`CutAt`) as the code does.

*Interrupts* happen wherever they are enabled.  While the handler runs, timers
fire and handlers signal or broadcast condition variables in any order and
number; the end of the handler switches if `__isr_force_schedule` is set.

*Programs* are arbitrary: each thread calls any API function in `Calls` at any
time, within the documented preconditions (a mutex is unlocked by its holder,
locked twice only if recursive, `kernel_close` is called when the other threads
are gone, a joined thread is not used afterwards).

*Abstractions.*  The contents of stacks, registers and thread-local storage;
names; the time a timer is set to (any armed timer may fire at any poll, which
covers every delay).  `Int` stands for the `int8_t` priority, which is only
compared.  The counter of a recursive mutex keeps its width, `CounterSpan`.

## The timer model

`Timer` counts ticks modulo `Span`, which stands for 2^32.  A tick may pass in
user code, in a section with interrupts disabled, between passes of
`timer_poll`, inside a callback, between the moment `timer_poll` reads
COUNT (`ReadTime`) and the moment it writes COMPARE (`WriteCompare`), and in
`stop_timer` before it reads COUNT (`StopReads`) and between that and its write
of COMPARE (`StopWrites`).  `start_timer`, and `stop_timer` in a callback, are
followed by a pass of `timer_poll` that looks at the value written, so the ticks
of their read and write are those of that pass.  Each pass
of the list up to a callback (`CallBack`), the callback, and what follows it
(`CallBackReturns`) are steps of their own, with the pointers `head` and `last`
that `__proc_timers` holds on to meanwhile.  `remaining` is the true time to
each deadline, kept by the model beside the wrapping fields of the code.
`AlarmClock` is written in terms of true time only.

`missed` marks the runs in which `start_timer` rewrote COMPARE while another
timer was already overdue, or `stop_timer` wrote it when one was due, be it that
it became due between the read of COUNT and the write.  The code does not survive
either (see "Divergences"); `DeadlinesMet` excepts them, and nothing else.
Bounds: `Slow` is the number of ticks interrupts stay disabled, `Latency` the
number of ticks between the last pass and the write of COMPARE.  The assumption
`Latency <= Window` is what the window of five microseconds in the code
provides for; `Latency + Window < Span / 2` and `2 * Slow + Window < Span / 2`
say that a comparison modulo 2^32 is never ambiguous.  `Slow` counts twice: when
a timer is looked at, COMPARE may have been reached during a disabled section of
the program and once more during the poll that follows it.  With a single `Slow`
the inductive invariant fails, and TLC violates `DeadlinesMet` with `Slow = 2`,
`Latency = 0`, `Window = 1` and `Span = 8`; on the machine the two sections would
have to last 45 seconds together.

## The queue model

`KQueue` uses the mutex and the condition variables by what module `Kernel`
establishes about them, without priorities: a free mutex goes to any thread that
asks, a signal wakes any waiter.  That covers every assignment of priorities.
Storing and counting are two steps, so that a handler or a preemption falls
between them.  `BoundedQueue` is the promise; the refinement mapping reads the
contents from the ring, without the element a getter has fetched and not yet
counted.

## The model of the RSP queue

`RspQueue` has two processes and the interrupt handler.  The CPU's call in
progress is `todo`, a sequence of steps: each access to `SP_STATUS` or to a
buffer that the RSP could notice is one.  A command becomes visible with its
first word, which the code writes last, so it is appended in one step; the
epilog that `rspq_highpri_begin` patches is overwritten word by word.  The RSP
stands at `rpc`; `snap` is the copy of the buffer in DMEM, taken by `RspFetch`, and
`RspRefetch` may take a new one before any command, since where a chunk ends
depends on sizes that are not modelled.  `status` is the set of signals of
`SP_STATUS`.  `CommandQueues` is the promise: each queue in order, once, and
no return from the high queue within a sequence.

`late` stands for the argument in `rspq_flush_internal` that a halt decided
before the first write to `SP_STATUS` has taken place at the second, ten cycles
later.  `Modest` and `Prompt` leave out two divergences (below).
Commands are six words long and the buffers 21 and 18 words, so that every
buffer is left after its first command of this size, by way of the sentinel, and
the second command meets the first buffer again; `MaxIssued` bounds the commands
per queue, syncpoints and calls of the block included.  Blocks that call blocks are not modelled;
one block is recorded before the program starts.

## The display model

`Display` composes `display.c` with the registers of `vi.c` and the wait of
`kirq.c`.  One thread gets buffers, changes the configuration and closes; any
buffer that is drawn may be shown at any time, as threads and RDP callbacks do;
write transactions (`ViWriteBegin`, `ViWriteEnd`) may span any number of vertical
blanks.  `display_get` and `display_close` are cut at `kirq_wait`: `moved` says
which interrupts have moved the shared counter since it was read.  `screen` is
what the hardware scans, which is later than `now_showing`.
The limit of frames per second and interlacing are the free choice `turn` of the
vertical blank: show the next frame or not.  `Screen` is the promise, a queue of
frames with their configurations.

`ScannedIsStable` excepts two histories, which the code does not survive (see
"Divergences"): `stalled`, a vertical blank during a write transaction, and `hasty`, a
`display_close` that was woken by another line.

## The EEPROM file model

Two cells are a block; a copy of the file is a header cell (checksum and
generation) and `FileSize` cells of contents, so a copy spans two blocks, the
first of which holds the header and part of the contents, as in the chip.  A
checksum matches exactly the contents it was made for.  `todo` holds the rest of
the call of the one thread that uses the file; `flush` is the block that is on
its way, `dirty` and `valid` the bitmaps.  A block is picked by `FlushKick` from
all the dirty ones; `FlushDone(FALSE)` is a chip that refuses it.  Reading what is
missing needs no step between pause and resume once nothing is being flushed: no
callback can come.  `PowerFails` at any time may tear the block that is being
written, forgets the cache and starts again with the verification of the
signature, which wipes a new chip.

`SaveFile` is the promise; `durable` maps to the new value once everything is in
the chip and to the old one before.  Constants name the program's part:
`Patient` programs call `eeprom_wait_idle` before they write, and `Spared` says
that the power does not fail while the only good copy is replaced, which happens
after a torn header; both are needed (see "Divergences").  `Generations = 4`
wraps within the run; `Noise` restricts the random generations of a new
chip to the two that differ by half the span.

## The accessory model

`Accessory` is one port.  The ring `msgs` holds messages; each names the callback
that will take its reply, its command, and the block of the transfer.
`SiSent` lets the devices answer (`Exchange`: a garbled write may or may not have
reached the pak, and its reply has a wrong CRC; a controller that is not there leaves the
reply as it was sent, with CRC 0), `Received` runs the callback, which changes the accessory and
queues further messages, and starts the next one.  The detection is a table of
states (`Probe`, `Look`, `Then`) and the decisions that depend on the answer
(`Follows`, `Found`).  `joypad_accessory_xfer` is cut where the code can be
interrupted: the wait for an idle accessory (`XferTest`), the assignment
(`XferStart`), the wait for the callback (`XferReturn`).  The user pulls and plugs the pak
and the controller at any time, with three limits: hands are slower than the
messages that are under way, a controller returns only after its absence
was noticed, and `MaxHands` bounds what they do.  The paks are external (module
`Pak`), modelled by what the detection takes them to answer.  The data of a caller may have
any CRC; `Values` tells apart what the comparison with that 0 tells apart (`Untouched`): CRC 0, which
passes for written, CRC 0xFF, which passes for a missing pak, and all others, which fail.  The
blocks that the detection and the motor command send are constants, of which only zeros has one of these
two.  The probe label never has CRC 0 (`joypad_accessory.c:657-658`); that it has CRC 0xFF, or the
pak's own label has one of the two, is left out.

`Careful` programs keep to three rules, without which the code fails: nothing comes
between the test and the assignment of `joypad_accessory_xfer_async`
(`Undisturbed`), a transfer is not started while messages of an earlier one are in
the ring (`Patient`), and the motor is switched when the accessory is idle
(`Polite`).  The histories `unsure` and `spoiled` name what the properties except: a
change of pak that was reported to a busy accessory, and a pak whose detection
or transfer was broken off.  `unheard` are the blocks of a transfer that had CRC 0 and were sent to a
controller that was not there; `WrittenIsStored` says that a write reported as successful has stored
every other block.

## Runs

Every run explores all reachable states of its instance.

| run | states | question |
|---|---|---|
| `kernel_sync` | 241,446 | one recursive mutex, one condition variable and four threads, two of one priority, under interrupts and signals from handlers: exclusion, no waiter left on a free mutex, inheritance and its end, one list per thread, no dangling timer, no failed assertion |
| `kernel_life` | 466,045 | a build without assertions: creation, exit, detach, join, set_pri, sleeps, waits and broadcasts up to close: exact thread count, no lost thread, no freed thread linked, join returns after the exit, the highest priority runs after every interrupt |
| `kernel_kill` | 282,386 | threads killed and suspended in every state, with the heap lock: only runnable threads are switched to |
| `kernel_live` | 65,967 | three threads of one priority that compete for a mutex: each comes back from sleeps, timed locks and timed waits, and whoever is ready or waits for the mutex is given the CPU again |
| `timer_wrap` | 1,649,495 | two timers around several wraps of COUNT, with slow callbacks, slow calls of `stop_timer` and disabled sections: no deadline missed, `AlarmClock` implemented |
| `kqueue_ring` | 130,378 | three threads and a handler on a ring of two slots: a FIFO channel, no lost wake-up |
| `rspq_run` | 1,205,961 | commands, a block, syncpoints, flushes, sequences of high priority and waits against the RSP: `CommandQueues` implemented, no buffer cleared in use, syncpoints exact, the RSP never sleeps on work, `rspq_highpri_sync` waits for all |
| `display_show` | 340,900 | three framebuffers, two configurations, skipped and stalled vertical blanks, other interrupts, close and open again: the scanned buffer is stable, `Screen` implemented, `display_get` returns |
| `eeprom_power` | 548,835 | reads, writes and erasures of a file, refused blocks and power failures at any point: idle means written, `SaveFile` implemented, its eventual persistence included |
| `acc_plug` | 3,725,179 | five kinds of paks pulled, plugged and garbled during detection, transfers of blocks of every CRC, bank switches and motor commands: recognised, left as found, nobody forgotten, written means stored |
| `kernel_v_suspend`, `acc_v_rumble` |  | the documentation says so, the code does not (see "Divergences") |

*Bounds.*  Four threads (two besides main and idle) are what a handover
needs: an owner, a waiter and one that barges in between; with one
priority shared by two of them, ties and round robin occur, and with the rising
priorities of `Rising`, preemption chains.  One mutex suffices for exclusion and
inheritance; `MaxHeld = 2` reaches the second branch of
the counter.  `NewPri` gives main the lowest priority of
the program, so that a thread created by it preempts at once.  The liveness run
has four threads: idle and three equals, main among them, so that two of them can
hand a mutex to each other while the third waits; it is of a build with `NDEBUG`, as the debug list of
threads plays no part in it.  The
timers wrap with `Span = 8` after every eighth tick and with delays of 1 and 3
below half of it; the one tick each of window, latency and slowness occur in
every combination.  A ring of two slots is full, empty and neither, and its
indices wrap; three threads are two waiters and one that signals.
Two commands per queue make each RSP buffer be left and met again, sequences of
high priority preempt one another's epilogs and the handoff of the low queue.
Three framebuffers are the usual number: one on the screen, one ready, one drawn;
`Counts` switches between two and three.  The file has two cells of contents, so
that a write takes two blocks and one block holds old and new cells.  Five of
the eight kinds of paks, two things that the user does and one retry let every
state of the detection meet a pull, a plug and a garbled message.

*Deadlock* is checked in `timer_wrap`, `rspq_run`, `display_show` and `eeprom_power`.
It is off for the kernel, where a
program comes to rest when it has closed the kernel, has panicked, or has only
threads that wait for one another's signals; `NoLostThread` and
`NoWaiterOnFreeMutex` say which of these rests are allowed.  It is off for the
queue because all threads may wait to put into a full ring; `NoLostWakeup` says
when they may.  It is off for the accessory, where a program waits for ever on a
controller that the user has no hand left to plug in again.

## Fairness

`KernelProperties!LiveSpec` assumes of the machine (`Hardware`): a thread
that is given the CPU again and again goes on with the call it is in (strong
fairness of `Finishes` for each thread: a thread that waits for its turn is not
running all the time, and an interrupt may force a switch at every step, but it does not come
faster than instructions), a handler ends (weak fairness of `InterruptEnd`), a pending
interrupt is taken although short disabled sections hide it now and then (strong
fairness of `Interrupt`), and time passes: no timer stays armed for ever, as its deadline is
reached and a poll fires it.  Of the program (`Program`): a thread that computes yields sooner or later
(weak fairness), and whoever is in a position to unlock a mutex again and again does so once (strong
fairness).
That is what strict priorities need: the library never preempts a
thread in favour of an equal one without a reason, and a thread of highest
priority that does not yield starves its equals by design.  For the same reason
the liveness properties speak of threads of highest priority only (`Top`).

They do not say that a waiter gets the mutex.  An unlock gives it to nobody and wakes all
waiters (`kernel.c:886-890`), and a waiter that comes back to a mutex taken meanwhile waits again
(795-806): of three equals, two that lock, unlock and yield in turn can keep the third from it for ever,
under the fairness above.  The same goes for the lock that `kcond_wait_timeout` takes again
before it returns, so `TopWakesUp` speaks of the wait and not of that lock.  What holds, and
`RoundRobin` says, is that the waiter gets the CPU to try again.

`Display`: the thread goes on with its call, vertical blanks at which a frame may
be shown keep coming (the hardware's clock), and a frame that is drawn gets finished
(weak fairness of `DisplayShow`).  Without the last, `display_get` may wait for ever on a
program that never shows what it has.

`EepromFile`: the thread goes on with its call, and the chip, which refuses a block only while
it is busy with the one before, accepts one in the end (strong fairness of
`FlushDone(TRUE)`).  `SaveFile` demands in return that what was written gets persisted, although
reads keep pausing the flush; without the fairness TLC finds a flush that is refused for ever.
`RspQueue`, `Accessory`, `Timer`
and `KQueue` are checked for safety only; in `RspQueue`, `SleepsOnlyDone` says that the
RSP never comes to rest with work left, and in `Accessory`, `AwaitedIsUnderWay` that nobody
waits for something that is not under way.

## What is proved

Every theorem is about the specification that TLC checks, for every value of the
constants that the assumption of its module admits (`KernelAssumption`,
`TimerAssumption`, `KQueueAssumption`, `SizeAssumption`, `DisplayAssumption`,
`EepromAssumption`, `AccessoryAssumption`): any number of threads, mutexes, timers,
slots, commands, framebuffers, cells or retries, any priorities, delays, sizes of
buffers and programs, and both kinds of build.  Where a theorem has a
further hypothesis it is named below with the reason for it; the instance of
the run that checks the property satisfies it.  A property is seldom inductive by
itself; the invariants it needs were checked by TLC before they were proved, but for
`Held` of the RSP queue, which says that a function exists that TLC cannot enumerate.

| module | theorem | property | further hypotheses |
|---|---|---|---|
| `KernelProofs` | `KernelTypesHold` | `TypeOK` | |
| | `MutualExclusionHolds` | `MutualExclusion` | `Shallow` |
| | `NoWaiterIsLeftBehind` | `NoWaiterOnFreeMutex` | `Shallow` |
| | `ThreadInvHolds` | | `KillsNoJoiner` |
| | `LinkedOnceHolds` | `LinkedOnce` | `KillsNoJoiner` |
| | `JoinWaitsHolds` | `JoinWaitsForExit` | `KillsNoJoiner` |
| | `EndInvHolds` | | no kill |
| | `TimersHold` | `TimersOnLiveStacks` | no kill |
| | `FreedThreadsUnlinked` | `NoFreedThreadLinked` | no kill |
| | `CountHolds` | `CountIsExact` | no kill, finitely many threads |
| | `NoThreadIsLost` | `NoLostThread` | no kill, no suspend |
| | `SwitchesHold` | `SwitchesToRunnable` | `CleanKills` |
| | `NothingPanics` | `NoPanic` | `Peaceful`, `Shallow` |
| | `OwnersInherit` | `OwnerInherits` | `Shallow`, `KillsNoJoiner`, no set_pri, `[]OneAtATime` |
| | `PrioritiesRestored` | `PriorityRestored` | the same |
| | `HighestRunsHolds` | `HighestRuns` | `FixedPriorities`, `IdleIsLowest`, `KillsNoJoiner`, not both kill and close |
| `TimerProofs` | `TimerTypesHold` | `TypeOK` | |
| | `ClockInvHolds` | | `OwnStopsOnly` |
| | `ClockIsKept` | `KeepsAlarmClock` | `OwnStopsOnly` |
| | `DeadlinesHold` | `DeadlinesMet` | `OwnStopsOnly` |
| `KQueueProofs` | `QueueInvHolds`, `QueueTypesHold` | `TypeOK` | |
| | `QueueIsChannel` | `IsChannel` | |
| | `NoWakeupIsLost` | `NoLostWakeup` | |
| `RspQueueProofs` | `QueueHolds` | | `Prompt` |
| | `QueuesImplemented` | `ImplementsQueues` | `Prompt` |
| | `ClearsUnused` | `ClearedUnused` | `Prompt` |
| `RspQueueSyncProofs` | `SyncpointsAreExact` | `SyncpointsExact` | `Prompt` |
| | `SleepsWhenDone` | `SleepsOnlyDone` | `Prompt` |
| | `HighSyncHolds` | `HighSyncWaits` | `Prompt` |
| | `TypesHold` | `TypeOK` | `Prompt`, `Modest`, `CmdWords + 5 <= MaxShort` |
| `DisplayProofs` | `DisplayInvHolds`, `DisplayTypesHold` | `TypeOK` | |
| | `ScanIsStable` | `ScannedIsStable` | |
| | `FramesAppearInOrder` | `ShowsInOrder` | not `Successive` |
| `EepromFileProofs` | `CacheInvHolds`, `EepromTypesHold` | `TypeOK` | |
| | `IdleIsWritten` | `IdleMeansWritten` | |
| | `FileIsKept` | safety of `ImplementsSaveFile` | `Patient`, `Spared` |
| `AccessoryProofs` | `TransferInvHolds` | | `Careful` |
| | `AwaitedHolds` | `AwaitedIsUnderWay` | `Careful` |
| | `WrittenHolds` | `WrittenIsStored` | `Careful` |

### The kernel

*Lists.*  The first section has the facts about the operators of `KernelLists`:
a set of naturals has a least element (`MinNat`), the insertion point lies
behind every thread of the same or a higher priority and before the first of a
lower one, insertion, removal and splicing keep the nodes of a list and never
make one occur twice, and they keep a descending list descending.

*Mutexes.*  The inductive invariant `MutexInv` is the conjunction of
`MutexTypes` (the types of the variables the mutex code reads), `HoldersOwn`
(whoever stands behind a lock attempt, or has been granted a lock, stands in the
right relation to the owner field and the counter), `WaitersDoNotHold` (a thread
on the way to the mutex of its call does not hold that mutex, so the owner test
after a wake-up is not the relock of a recursive mutex), `MutualExclusion` and
`NoWaiterOnFreeMutex`.  `Shallow` says that programs nest a recursive mutex less
than 256 times; without it the 8-bit counter wraps to zero and the statement is
false.

*Threads.*  `ThreadInv` is type correctness together with:
the lists have no node in common and no node twice, and a thread is linked
exactly when it is marked as being in a list and does not merely sleep on its
timer (`Apart`); the running thread is in no list, except while it arms a
timer, and no handler runs then (`RunningAlone`); whoever has a timer is in
the call that started it (`TimersInCalls`); nothing refers to a thread that was
not created yet (`UnbornAside`); a joiner is in no list, and its thread points
to it (`JoinersAside`); the idle thread is always there to run (`IdleReady`).
`LinkedOnce` and `JoinWaitsForExit` follow.  Each step is shown to keep
`ThreadInv` and at the same time two facts about what it does: no thread leaves
the lists and the CPU without a reason (`Kept`), and where lives and marks of
threads may go (`Fates`).  The properties about ends of threads follow from
these without looking at the actions again, with the invariants `EndInv` (who
has ended is in no list and has no timer), `CountFollows`, `NobodyForgotten`,
`FreedAside` and `PeaceInv`.

The hypotheses are where the code stops to be right (line numbers of
`kernel.c`):

* `KillsNoJoiner`: a program does not both kill threads and wait in
  `kthread_join`.  A joiner that is killed leaves a pointer to itself in the
  thread it joins (672), which puts it in the ready list when it ends (593).
* No kill: `kthread_kill` leaves a thread linked, with its timer armed and its
  memory about to be freed (589), and counts it out at once.
* No suspend, for `NoLostThread`: a suspended thread is lost (336).
* `CleanKills`: with kills, the build has assertions and nobody joins; a
  killed thread may otherwise be freed while it is linked (665).
* `Peaceful`: the assertions and crashes of the list of divergences are avoided:
  no kill, no `kthread_try_join` (684), no close (454), no join or detach where
  threads exit and so are freed in the handler (284), no blocking join in a
  build with assertions (307).

*Priorities.*  `OwnersInherit` and `PrioritiesRestored` are proved of the
behaviours in which no thread has two mutexes at a time (`OneAtATime`: an unlock
undoes what was inherited through another mutex, 888), and of programs without
`kthread_set_pri`.  `InheritInv` says that a thread without mutexes has the
priority it was created with, that a mutex keeps that priority for its owner, and
that no waiter outranks the owner.  `HighestRunsHolds` is proved of programs
without mutexes (`FixedPriorities`), as a boosted owner keeps its place in the
ready list (801).  As long as all priorities are those of creation, the lists
are sorted, and the running thread leads, or a switch is due (`Ranked`).
`IdleIsLowest` is what `kernel_init` (433) and the assertion of
`kthread_set_pri` (700) provide for.

### The timers

The arithmetic is modulo `Span`: `Same(a, b)` says that the register reads the
same at the times a and b, and the lemmas on it say when a difference of
registers is the true one (`DistanceIs`, `LeftIs`).  `ListInv`: the list has no
timer twice, all its timers are enabled, and the timer whose callback runs is
still linked, as is the one before it, unless the callback has stopped it.
`AheadInv`: no timer that is set is due later than its fields say, and these lie
less than half a lap and a window away.  With that every step is one of
`AlarmClock`, missed deadlines included.  `DeadlineInv` holds as long as no
timer was overlooked: the fields tell the exact deadline, COMPARE lies before
all deadlines, and it has been passed for no longer than a disabled section of
the program, `stop_timer` included, and the poll last; from the last pass on nothing is due within what
is left of the window; and between the read and the write of `stop_timer` the time
read lies as far back as the ticks that have passed (`StopRead`).  `OwnStopsOnly`: callbacks stop no timer but their own.
When they stop the one before it, a one-shot timer stays linked (106).

### The RSP queue

The position of the RSP is the difficulty: it may be in either buffer of either
queue, in the block, in its old copy of a buffer that has grown since, or behind words
of an epilog that is being overwritten; what it has executed must follow from
where it is.  `Held` says that there is a numbering `D` of the places of all buffers
(`Counts`): numbers grow by one with each command and by none with the words that the
library writes, the last place of the active buffer has the number of commands
issued, and the active buffer of a queue begins where the other one ends.  In both
queues, the one that is executed and the one it will return to, the RSP stands
at a place with the number of the commands it has done.  The rest of
the invariant says what the buffers hold (commands, and at the end of a buffer that was
left the way to the other one), how the signals that a buffer is done depend on where the
RSP is, that a request of high priority stays until it is met, and that the words of the
copy are those of the buffer or older forms of an epilog that lead to the same place.
A command then is executed when its number is next, which is the refinement of
`CommandQueues`, and a buffer whose signal is set holds no place of the RSP, which is
`ClearedUnused`.

`Synced` counts: a syncpoint is reached, or signaled, or its interrupt is about to be
taken, or its command is behind the RSP.  `Flushed` says that an RSP that decides to halt
sees every command that was flushed, or is woken by a write to `SP_STATUS` that is still to
come.  `Fits` gives the words left in a buffer for each step of the call in
progress.

The hypotheses: `Prompt` says that the RSP leaves a buffer of high priority before the CPU
clears it; the signal is set one command early (1181).  `Modest` says that a sequence of high
priority holds a command, as the words around it are appended without a look at the sentinel
(1304); commands leave room for these five words.

### The queue, the display, the EEPROM

`QueueInv` says who may own the mutex and stand where, that the two waiting
lists hold who waits, and that head, tail and count agree with the calls in
progress; it makes every step one of `BoundedQueue`.  `WakeupInv` counts the
threads on the way to the ring and the one at it: as long as anybody waits to get,
there are no fewer of them than elements, and the same for free slots.

`DisplayInv` says that each framebuffer is in one place, in which phases a call
and the registers may be, and that what is scanned is what was shown last or is
excepted.  The refinement of `Screen` rests in addition on `ConfigsInOrder`: the
frames of the old configuration are those that `frames_left` counts.

`CacheInv` says that a valid, clean block of the cache agrees with the chip
unless it is being flushed (`Coherent`), and what the flush in progress has
taken.  It makes no assumption about the program's patience or about power
failures.

`FileIsKept` is the refinement of `SaveFile` without its liveness: its initial state and
its every step, for a file of any size, any contents and any even span of the generations but 2.  It needs
the two hypotheses because each is violated without (see "Divergences").  `FileInv` adds to
`CacheInv`:

* `Final`: the contents that will be seen when the stores that are left of the call have been
  made read as `value`, so a read returns what was written last although the writes of a call reach
  the cache one by one;
* `Prepared`: what each step that is left reads is cached, or will have been fetched by then;
* `Orderly`: a call stores or reads, never both; a write and an erasure start
  with an EEPROM that is still, and so does the verification after a power failure;
* `Safe`: unless everything has been written or the call is marked as risky, there is for each cell
  a set of what a power failure may leave in it.  Everything on its way to the chip, torn
  blocks included, is within these sets, and contents made of them in whatever way
  read as the old file or as the new one.  This is where the code's order counts, contents before
  header, and its checksum: in the copy that is replaced the sets hold old
  and new cells, the other copy's sets hold what it has.

`Generations = 2` is excluded by `EepromAssumption`: half the span would be 1, and a copy with the next
generation would not be the later one.  The code has 256.

### The accessories

`TransferInv` says that while a program waits for a transfer, one message of the ring carries
it on, the message that the accessory's state makes its callback expect, for the first block
that is left, and all the others ask for reports; and that nobody else has the callback of
a transfer.  So a reset, an error or the end of the transfer finds the one who
waits, and no reply of an earlier message is taken for one of the transfer.  `StoredInv`
says that the blocks behind those that are left are stored or `unheard`, and so is the one
whose write is answered without an error.  Resets by a pulled controller or pak, retries
behind newly queued messages, and motor commands that are dropped are all among the steps.  `Careful`
is explained under "The accessory model".

### Only model-checked

* Liveness, under the fairness above: the proof system has no rule for it.
* The accessories: `Recognised` and `PakAsFound`, whose invariants need the contents of
  the pak after every prefix of the detection, of each kind of pak, with and without a
  message that was garbled.
* What `SaveFile` says of the background: that what was written is persisted eventually.

## Divergences met while modelling

The models follow the code.  Where documentation, comments or the evident
intention say something else, it is listed here.

Shown by a run that finds the violation:

* *Suspended threads are lost* (`kernel_v_suspend`).  The scheduler pops
  suspended threads off the ready list and drops them (`kernel.c:336`);
  `kthread_resume` clears the flag (644) and links nothing.  `kernel.h:255-256`:
  the thread "will not be scheduled until it is resumed".
* *Rumble that is not there* (`acc_v_rumble`).  When a pak is gone
  `joypad_accessory_reset` clears the accessory and not the rumble method of the
  device (`joypad_accessory.c:235`), and the next detection only ever sets it
  (483).  After a Rumble Pak was exchanged for a Controller Pak,
  `joypad_set_rumble_active` writes to the Controller Pak.  `joypad.h:39-40`: "Developers
  can determine whether the input device is capable of rumble by calling
  #joypad_get_rumble_supported".

Found while translating; the kernel model behaves like the code (line numbers
are those of `kernel.c`):

* *Inheritance across nested mutexes.*  An unlock restores
  the priority saved at the lock of that mutex (888), which undoes an
  inheritance through a mutex still held.  The comment at 797-798 promises "so
  that we avoid priority inversion".
* *A signaled wait reports a timeout.*  The timer callback
  sets `timeout` even if the thread has already been signaled (1006)
  and the call returns `!timeout` (1023).  `kernel.h:617`: "true If the
  condition was signaled".
* *A blocking join fails an assertion in debug builds.*  `kthread_join` switches
  while the caller is in no list (672), and the scheduler asserts that whoever
  switches is in one (307).  `kernel.h:430-431`: "This function blocks the
  current thread until the specified thread finishes its execution."  The run
  `kernel_life` is of a build with `NDEBUG` for this reason.
* *A thread that is joined before it ends is never freed*: its exit wakes the
  joiner and marks nothing (591), and the joiner frees nothing.
  `kernel.h:409-411`: "Joining a thread can happen before or after it finishes
  execution, but it has to happen for the thread to be fully cleaned up."
  A joiner of a thread that is detached afterwards is never woken.
* *The assertion of `kthread_try_join` is the wrong way round* (684): it demands
  a detached thread and says "cannot join a detached thread".
* *A killed thread may run on.*  A detached one is freed at its next switch (589)
  and runs until then, as the comment at 587-588 says and `kernel.h:343-344`
  does not: "The specified thread is aborted, and its memory freed".  Joining a
  killed thread that is still linked somewhere frees linked memory (665), which
  the comment at 582-586 warns of.
* *A boosted owner keeps its old place in the ready list* (801), behind threads
  it now outranks and which therefore run before it, although the comment at 797-798 speaks of avoiding
  priority inversion, and `kthread_set_pri` leaves a ready thread at its old place
  (702), where `kernel.h:323-324` says "The change of priority is immediately
  effective."
* `original_pri` is documented as "Original priority of the owner thread"
  (`kernel.h:109`) and saves a priority that may itself be inherited (808).  An
  unlock after a boost by a lock that has timed out lowers the priority without
  a yield.
* *Thread-local storage is initialised after the thread became ready* (542): the
  thread may run before that, or end and be freed before its creator writes there.
* *Freeing a thread cuts the debug list*: its memory is cleared (132) before its
  `all_next` is read, so every thread behind it disappears from the list that
  `kernel_internal.h:123` calls "List of all threads".
* *The scheduler frees memory inside the exception handler* (284) and crashes
  when a preempted thread holds the heap lock.  `kernel.h:208-209`: "the thread
  will clean up after itself when it exits".  `kernel_kill` reaches this state
  (`FreeCrashes`).
* *The counter of a recursive mutex has 8 bits* (791) and wraps to zero after
  256 locks in a row; `kernel.h:92-94` sets no limit.
* `kernel_close` asserts that one thread and an empty debug list are left
  (454, 456): threads that are killed and not joined, or joined early, leave
  entries there.  `kernel.h:169-170` asks only that "all created threads are
  exited or have been killed".

In `timer.c`:

* *Stopping a timer in its callback.*  `stop_timer` rewrites
  COMPARE from the list and takes a deadline that has passed for one a lap ahead
  (34, 309); the expired timer waits for 91 seconds.
  `timer.h:248-249`: "It is safe to call this function from a timer callback,
  including to stop a timer from its own callback."
* *`stop_timer` may lose another timer for a lap*, without any fault of the program: it reads
  the time (309) and writes COMPARE after it has walked the list (43), and unlike `timer_poll`
  (141) it has no pass that calls what becomes due within the next microseconds.  A timer that is
  due at the tick of the write, or became due in between, has its interrupt withdrawn or COMPARE written behind
  COUNT.  `missed` excepts this.
* Starting or stopping a timer, with interrupts disabled, while another one is
  overdue, loses the latter for a lap (34, 177, 229, 309).  `test_timer_oneshot`
  starts a timer and lets it expire with interrupts disabled; it does not touch
  a second one meanwhile.  This is what `missed` excepts.
* A callback that stops the timer linked just before its own leaves a one-shot
  timer linked: `last` is no longer in the list (106-107; `WithoutHead`).
* Starting a timer in the callback of a one-shot timer at the head of the list
  drops the new one (109), and `start_timer` polls inside the poll.  Not modelled.
* `start_timer_context` tests `TF_DISABLED` the wrong way round (251).
* `restart_timer` of a running timer links it twice (273).  The model restarts
  stopped timers only.
* `timer_close` frees continuous timers whether or not `new_timer` allocated
  them (343-352).
* Delays of more than half a lap (45 seconds) compare as past and may ring early,
  although `timer.h:36-37` sets the limit at 90 seconds.  The model keeps delays
  below half a lap (`TimerAssumption`).

In `kqueue.c` and `ksemaphore.c`:

* A getter that was signaled and times out before it runs returns without
  looking at the ring again (`kqueue.c:115-117`): the signal is spent, and
  another getter sleeps on with an element in the ring.  This is what `wasted`
  excepts.
* The timed calls restart their full timeout in every round.
* `ksemaphore_post_isr` increments the count without excluding a thread that is
  between the load and the store of its own decrement (`ksemaphore.c:64`).
* `kirq.h:106` promises that no interrupt "will be missed"; `kirq_wait` takes its new
  snapshot of the counter after the wake-up (`kirq.c:85`), so interrupts between the
  two count as one, and the counter is shared by all lines, so a wait may end early.

In `rspq.c`:

* *Empty sequences of high priority run over the buffer.*  `rspq_highpri_begin` and
  `rspq_highpri_end` append their words without looking at the sentinel (1304); if no
  command comes in between, nobody does, and the assertion at 1186 fails in a later
  call or, without assertions, memory is overwritten.  With `Modest = FALSE`, TLC
  violates `TypeOK` (`BufferFits`).
* *The buffer of high priority is released one command early.*  The RSP sets
  `SIG_BUFDONE_HIGH` before the `JUMP` that leaves the buffer (1181-1183).  A CPU
  that waits for the signal may clear the jump before it is fetched.  The comment at
  1139 says "We cannot write to it if it's still being executed."  With `Prompt =
  FALSE`, TLC finds the state.
* `rspq_syncpoint_wait` inside an open sequence of high priority never returns if the
  syncpoint is behind it; no assertion excludes the call, as one does for
  `rspq_wait` (1799).
* `__rspq_call_deferred` sets a bit in `flags`, which `malloc` leaves uninitialised
  (1769-1776): the call may wait for the RDP although it was not asked to.

In `display.c` and `vi.c`:

* A vertical blank during a write transaction moves `now_showing` on (228) while
  the registers stay (`vi.c:206`): the buffer that the hardware still scans is handed
  out by `display_get`.  This is what `stalled` excepts.
* `display_close` frees the framebuffers after a wait that another line's interrupt may
  end early (`vi.c:702`, `kirq.c:83`); the comment at 521-522 says "wait until it actually
  happens, before freeing the buffers".  This is what `hasty` excepts.
* A second `display_change` overwrites the pending configuration and its countdown (475-480):
  frames gotten between the two calls are shown in the mode of the frames before.
  `display.h:323-329` allows successive calls and says that such buffers "are shown
  correctly".  With `Successive = TRUE`, `ShowsInOrder` is violated.

In `eepromfs.c` and `eeprom.c`:

* *A torn header makes the next write risky.*  Which copy is overwritten is decided by the
  generations alone (`eepromfs.c:385`), without the checksums: after a power failure
  has torn a header, the next write may replace the only good copy, and a second
  failure loses both.  `eepromfs.h:99`: "useful to prevent data loss in
  case of corruption or power failure".  With `Spared = FALSE`, TLC violates `ImplementsSaveFile`.
* Two writes without `eeprom_wait_idle` in between may be in the cache together and be flushed
  in any order; a power failure then loses both copies.  With `Patient =
  FALSE`, TLC violates `ImplementsSaveFile`.
* `eepfs_wipe` writes the signature before the rest (528): a power failure in between leaves
  a valid signature on old contents.
* `eepfs_erase` computes the size with header and copies (485-493) and then uses the size of
  the contents (495): the second copy, and sometimes the end of the first, survive.
* `eeprom_write_bytes` at the start of a block that is shorter than the block and alone in the call
  fetches nothing first (384): the rest of an uncached block is written as whatever the cache
  holds.  `eepfs_write` always writes the contents before the header, which fetches it.
* With two threads, a read miss may overwrite in the cache a block that another thread has just
  written, and a flush that ends between `eeprom_flush_pause` and `eeprom_flush_resume` of
  two threads may not be restarted.  One thread is modelled.

In `joypad_accessory.c` (the model follows the code; the constants and histories named in
"The accessory model" keep these from the properties):

* A pak or controller that is pulled during a transfer: the reset ends it and calls its callback,
  and the callback of the message that is still queued fails `assert(accessory->state ==
  JOYPAD_ACCESSORY_STATE_READ)` (793).  The model is of an `NDEBUG` build.
* `joypad_accessory_xfer_async` tests the state with interrupts enabled (930) and takes it later
  (934-941): a detection or another thread may have taken it meanwhile.  Without
  `Undisturbed` the chains overwrite each other.
* The motor command takes the state without a test, over a running detection or transfer.
* `joypad_accessory_detect_async` makes a new probe label even if a detection is running (655-658),
  which then compares with the wrong one; and a change that is reported to a busy
  accessory is never looked at again (`unsure`).
* Steps of the detection write to 0x8000 before the label is backed up: on a Controller Pak
  without banks that is block 0.  `joypad_accessory_internal.h:305-307`: "issuing a bank switch command to
  a single-bank Controller Pak would result in data corruption".  For this reason `PakAsFound`
  speaks of paks with banks.
* A detection that reaches the retry limit between writing the probe label and restoring the label
  leaves the pak with the probe label (`spoiled`).
* `joypad_controller_pak_set_bank` records the new bank before it waits for its turn (1024): a detection
  or a reset that comes first leaves the record and the selected bank different.
* A transfer that starts while replies to an earlier, broken-off one are still to come takes one of
  them for its own and may report success (`Patient`).
* *Blocks of CRC 0 are written to nobody.*  The error flag of the PIF is not tested: a controller that is
  not there leaves the 0 that the reply was sent with, and a block of zeros, or any other of
  CRC 0, written to a controller that has just been pulled is reported as stored
  (`joybus_accessory.c:64-68`, `joypad_accessory.c:161-166`), until the next report tells that nobody is
  there.  A block of CRC 0xFF is answered by "no pak" in the same case.  A read finds zeros and their
  CRC, and succeeds.  `WrittenIsStored` excepts these blocks (`unheard`).
* The flag that errors of writes are ignored, meant for receivers, can be set by a controller that is
  missing at that moment and stays (`acc.ignore`).

## Not modelled

Of the kernel: the assertions of `kmutex_destroy` and `kcond_destroy`,
names, backtraces and the stack overflow check, which keep no state; semaphores.
Of the timers: starting timers inside callbacks, `start_timer_context`, the reference
count of `timer_init` and `timer_close`.  Of the queue: `kqueue_destroy` and the
queries.  Of the RSP queue: overlays, recording of blocks, their chains and
placeholders, `rspq_queue_*`, deferred calls, DMA, the RDP's ring.  Of the display: a
single buffer, the Z buffer, the measurement of the frame rate, a video interface that
is switched off, line interrupts.  Of the EEPROM: files without checksum or backup,
several files, detection of the chip, its real-time wait.  Of the accessories:
Transfer Pak load and store, GameCube controllers and mouse, receivers that
answer for a missing pak, the reset button, more than one port.

The other components of the inventory are sequential (hash table, allocator, linker,
read-only file system), numerical (mixing, codecs, graphics), generated or vendored,
or diagnostics; `PROJECT.json` says which.

## Plan

1. `AudioRing` and `PiQueue`: a ring between the CPU and an interrupt, each with its full
   and empty cases; the abstract specification is `BoundedQueue`.
2. `CpakFs` over `Accessory`: page tables written twice, with a pulled pak or a power
   failure between any two writes, and the check that repairs them.
3. A second port, Transfer Pak commands; two threads on the EEPROM.

Theorems to follow: `PakAsFound` and `Recognised` of the accessories.

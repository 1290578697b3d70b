------------------------------ MODULE Display -------------------------------
(***************************************************************************)
(* The display, src/display.c, on top of the video interface, src/vi.c,    *)
(* and of the waits for interrupts of src/kernel/kirq.c.                   *)
(*                                                                         *)
(* A thread gets framebuffers, any thread (or a callback of the RDP) shows *)
(* them, and the interrupt at the vertical blank puts them on the screen.  *)
(* Registers of the VI are written to a shadow, which the interrupt copies *)
(* to the hardware unless the program holds a write transaction.           *)
(***************************************************************************)
EXTENDS Naturals, Integers, Sequences, FiniteSetsExt

CONSTANTS Alloc,      \* framebuffers allocated by display_init
          Counts,     \* the numbers of buffers that display_change asks for
          Configs,    \* resolution, depth, gamma and filters
          None,
          Successive  \* display_change is called again before the frames of
                      \* the previous configuration are shown

Buffers == 0 .. (Alloc - 1)

ASSUME DisplayAssumption ==
    /\ Alloc \in Nat \ {0, 1}
    /\ Counts \subseteq 2 .. Alloc
    /\ None \notin Configs \cup Buffers
    /\ Successive \in BOOLEAN

VARIABLES
    \* display.c
    drawing,      \* drawing_mask
    ready,        \* ready_mask
    queue,        \* display_queue, from head to tail
    now_showing,
    num_buffers,
    config,       \* that of display_get, and pending_res ... pending_filters
    frames_left,  \* pending_vi_frames_left
    surfaces,     \* the configuration each surface was made for
    open,         \* the surfaces are allocated
    installed,    \* handler_installed
    \* vi.c
    regs,         \* __vi_cfg: origin, size and format, mode
    blank_mode,
    held,         \* the program is between vi_write_begin and vi_write_end
    screen,       \* of the hardware: the origin, and whether it is blank
    \* the thread that calls display_get or display_close
    pc, call,
    moved,        \* __interrupt_counter against the counter in kirq_wait_t
    \* history
    stalled,      \* the last vertical blank fell into a transaction
    hasty         \* display_close did not wait for a vertical blank, and
                  \* none has come since

masks == <<drawing, ready, queue>>
setup == <<num_buffers, config, frames_left>>
vi == <<regs, blank_mode, held, screen, stalled>>
thread == <<pc, call, moved, hasty>>
vars == <<masks, now_showing, setup, surfaces, open, installed, vi, thread>>

Init ==
    /\ drawing = {} /\ ready = {} /\ queue = <<>>
    /\ now_showing = -1
    /\ num_buffers = 0
    /\ config \in Configs
    /\ frames_left = -1
    /\ surfaces = [b \in Buffers |-> config]
    /\ open = FALSE /\ installed = FALSE
    /\ regs = [origin |-> None, size |-> config, mode |-> config]
    /\ screen = [origin |-> None, blank |-> TRUE]
    /\ blank_mode = TRUE
    /\ held = FALSE
    /\ pc = "idle" /\ call = "none" /\ moved = "no"
    /\ stalled = FALSE /\ hasty = FALSE
-----------------------------------------------------------------------------
\* display_init.  vi_show makes the first buffer the one to be shown.
DisplayInit(c) ==
    /\ pc = "idle" /\ ~ open
    /\ num_buffers' = Alloc
    /\ config' = c
    /\ frames_left' = -1
    /\ surfaces' = [b \in Buffers |-> c]
    /\ now_showing' = 0
    /\ regs' = [origin |-> 0, size |-> c, mode |-> c]
    /\ blank_mode' = FALSE
    /\ open' = TRUE /\ installed' = TRUE
    /\ UNCHANGED <<masks, held, screen, stalled, thread>>

\* display_change.
DisplayChange(c, n) ==
    /\ pc = "idle" /\ open
    /\ Successive \/ frames_left \in {-1, Len(queue)}
    /\ num_buffers' = n
    /\ config' = c
    /\ frames_left' = Len(queue)
    /\ UNCHANGED <<masks, now_showing, surfaces, open, installed, vi, thread>>

\* Mutant: the buffer that is shown is looked at, too.
FullRing ==
    LET start == IF now_showing \in 0 .. (num_buffers - 1)
                 THEN now_showing ELSE num_buffers - 1
    IN [k \in 1 .. num_buffers |-> (start + k) % num_buffers]

\* The buffers that display_try_get looks at, in its order: the others of the
\* ring, beginning behind the one that is shown.
Ring ==
    LET start == IF now_showing \in 0 .. (num_buffers - 1)
                 THEN now_showing ELSE num_buffers - 1
    IN [k \in 1 .. (num_buffers - 1) |-> (start + k) % num_buffers]

\* Mutant: a buffer that is ready but not shown yet is taken.
UndrawnBuffers == {k \in DOMAIN Ring : Ring[k] \notin drawing}

FreeBuffers == {k \in DOMAIN Ring : Ring[k] \notin drawing \cup ready}

TakeBuffer ==
    LET b == Ring[Min(FreeBuffers)] IN
    /\ drawing' = drawing \cup {b}
    /\ queue' = Append(queue, b)
    /\ surfaces' = [surfaces EXCEPT ![b] = config]
    /\ UNCHANGED <<ready, now_showing, setup, open, installed, vi>>

DisplayTryGet ==
    /\ pc = "idle" /\ open
    /\ FreeBuffers # {}
    /\ TakeBuffer
    /\ UNCHANGED thread

\* display_get: kirq_begin_wait_vi, then try and wait in turns.
DisplayGet ==
    /\ pc = "idle" /\ open
    /\ pc' = "try" /\ call' = "get" /\ moved' = "no"
    /\ UNCHANGED <<masks, now_showing, setup, surfaces, open, installed, vi, hasty>>

GetTries ==
    /\ pc = "try"
    /\ IF FreeBuffers # {}
       THEN TakeBuffer /\ pc' = "idle" /\ call' = "none"
       ELSE /\ pc' = "kirq"
            /\ UNCHANGED <<masks, now_showing, setup, surfaces, open, installed,
                           vi, call>>
    /\ UNCHANGED <<moved, hasty>>

\* display_show.
DisplayShow(b) ==
    /\ b \in drawing
    /\ drawing' = drawing \ {b}
    /\ ready' = ready \cup {b}
    /\ UNCHANGED <<queue, now_showing, setup, surfaces, open, installed, vi, thread>>

\* display_close: the handler and the lists first, ...
DisplayClose ==
    /\ pc = "idle" /\ open
    /\ installed' = FALSE
    /\ now_showing' = -1
    /\ drawing' = {} /\ ready' = {} /\ queue' = <<>>
    /\ frames_left' = -1
    /\ pc' = "blank" /\ call' = "close"
    /\ UNCHANGED <<num_buffers, config, surfaces, open, vi, moved, hasty>>

\* ... vi_show(NULL), and the first half of vi_wait_vblank, ...
CloseBlanks ==
    /\ pc = "blank"
    /\ blank_mode' = TRUE
    /\ regs' = [regs EXCEPT !.origin = None]
    /\ pc' = "kirq" /\ moved' = "no"
    /\ UNCHANGED <<masks, now_showing, setup, surfaces, open, installed, held,
                   screen, stalled, call, hasty>>

\* ... and when that has returned, the memory.
CloseFrees ==
    /\ pc = "free"
    /\ open' = FALSE
    /\ num_buffers' = 0
    /\ pc' = "idle" /\ call' = "none"
    /\ UNCHANGED <<masks, now_showing, config, frames_left, surfaces, installed, vi,
                   moved, hasty>>
-----------------------------------------------------------------------------
\* kirq_wait: back at once if any interrupt came since the last time.
Waited == IF call = "get" THEN "try" ELSE "free"

KirqWait ==
    /\ pc = "kirq"
    /\ pc' = IF moved = "no" THEN "asleep" ELSE Waited
    /\ moved' = "no"
    /\ hasty' = (hasty \/ (call = "close" /\ moved = "other"))
    /\ UNCHANGED <<masks, now_showing, setup, surfaces, open, installed, vi, call>>

\* Mutant: the thread waits again when it was woken.
KirqWaitsAgain ==
    /\ pc = "woken"
    /\ pc' = "asleep"
    /\ UNCHANGED <<masks, now_showing, setup, surfaces, open, installed, vi, call,
                   moved, hasty>>

\* The thread that was woken runs.
KirqWoken ==
    /\ pc = "woken"
    /\ pc' = Waited
    /\ moved' = "no"
    /\ UNCHANGED <<masks, now_showing, setup, surfaces, open, installed, vi, call,
                   hasty>>

\* __MI_handler for another line.
OtherInterrupt ==
    /\ moved = "no" /\ pc # "idle"
    /\ moved' = "other"
    /\ UNCHANGED <<masks, now_showing, setup, surfaces, open, installed, vi, pc, call,
                   hasty>>
-----------------------------------------------------------------------------
ViWriteBegin ==
    /\ ~ held
    /\ held' = TRUE
    /\ UNCHANGED <<masks, now_showing, setup, surfaces, open, installed, regs,
                   blank_mode, screen, stalled, thread>>

ViWriteEnd ==
    /\ held
    /\ held' = FALSE
    /\ UNCHANGED <<masks, now_showing, setup, surfaces, open, installed, regs,
                   blank_mode, screen, stalled, thread>>

\* Mutant: a change of the configuration takes effect with the next frame.
CallbackAppliesAtOnce(turn) ==
    LET flips == turn /\ queue # <<>> /\ Head(queue) \in ready IN
    /\ IF flips
       THEN /\ now_showing' = Head(queue)
            /\ ready' = ready \ {Head(queue)}
            /\ queue' = Tail(queue)
            /\ frames_left' = -1
       ELSE UNCHANGED <<now_showing, ready, queue, frames_left>>
    /\ regs' = [origin |-> now_showing', size |-> surfaces[now_showing'],
                mode |-> IF flips /\ frames_left >= 0 THEN config ELSE regs.mode]
    /\ blank_mode' = FALSE

\* __display_callback shows the oldest frame if the program has finished it.
\* `turn': neither the limit of frames per second nor the second field of an
\* interlaced picture asks to skip this one.
Callback(turn) ==
    LET flips == turn /\ queue # <<>> /\ Head(queue) \in ready
        applies == flips /\ frames_left = 0
    IN
    /\ IF flips
       THEN /\ now_showing' = Head(queue)
            /\ ready' = ready \ {Head(queue)}
            /\ queue' = Tail(queue)
            /\ frames_left' = IF frames_left >= 0 THEN frames_left - 1 ELSE -1
       ELSE UNCHANGED <<now_showing, ready, queue, frames_left>>
    /\ regs' = [origin |-> now_showing', size |-> surfaces[now_showing'],
                mode |-> IF applies THEN config ELSE regs.mode]
    /\ blank_mode' = FALSE

\* The rest of __vblank_interrupt: the hardware takes over the registers.
WriteRegisters ==
    screen' = [origin |-> IF held THEN screen.origin ELSE regs'.origin,
               blank |-> blank_mode' \/ (held /\ screen.blank)]

\* The interrupt at the vertical blank: __MI_handler, __vi_interrupt.
Vblank(turn) ==
    /\ IF installed THEN Callback(turn)
       ELSE UNCHANGED <<now_showing, ready, queue, frames_left, regs, blank_mode>>
    /\ WriteRegisters
    /\ stalled' = held
    /\ pc' = IF pc = "asleep" THEN "woken" ELSE pc
    /\ moved' = IF pc = "idle" THEN moved ELSE "vblank"
    /\ hasty' = (hasty /\ held)
    /\ UNCHANGED <<drawing, num_buffers, config, surfaces, open, installed, held, call>>
-----------------------------------------------------------------------------
Next ==
    \/ \E c \in Configs : DisplayInit(c) \/ \E n \in Counts : DisplayChange(c, n)
    \/ \E b \in Buffers : DisplayShow(b)
    \/ DisplayTryGet \/ DisplayGet \/ GetTries
    \/ DisplayClose \/ CloseBlanks \/ CloseFrees
    \/ KirqWait \/ KirqWoken \/ OtherInterrupt
    \/ ViWriteBegin \/ ViWriteEnd
    \/ \E turn \in BOOLEAN : Vblank(turn)

\* The thread runs, frames that are drawn get finished, and vertical blanks
\* that are not skipped keep coming.
Fairness ==
    /\ WF_vars(GetTries) /\ WF_vars(KirqWait) /\ WF_vars(KirqWoken)
    /\ \A b \in Buffers : WF_vars(DisplayShow(b))
    /\ WF_vars(Vblank(TRUE))

Spec == Init /\ [][Next]_vars /\ Fairness
=============================================================================

-------------------------- MODULE DisplayProperties --------------------------
(***************************************************************************)
(* What must hold of module Display.                                       *)
(***************************************************************************)
EXTENDS Display

\* Every buffer of the ring is in one place: drawn to, ready, or neither, and
\* those in the queue are exactly the ones drawn to or ready, once each.
TypeOK ==
    /\ drawing \cup ready \subseteq Buffers /\ drawing \cap ready = {}
    /\ {queue[i] : i \in 1 .. Len(queue)} = drawing \cup ready
    /\ Len(queue) = Cardinality(drawing \cup ready)
    /\ now_showing \in Buffers \cup {-1}
    /\ num_buffers \in Counts \cup {0, Alloc}
    /\ frames_left \in -1 .. Len(queue)
    /\ config \in Configs /\ surfaces \in [Buffers -> Configs]
    /\ regs \in [origin : Buffers \cup {None}, size : Configs, mode : Configs]
    /\ pc \in {"idle", "try", "kirq", "asleep", "woken", "blank", "free"}
    /\ call \in {"none", "get", "close"} /\ moved \in {"no", "other", "vblank"}

\* The memory that the hardware scans is neither drawn to nor freed: a surface
\* from display_get is safe for drawing, and display_close waits until the
\* picture is blank.  Except when a vertical blank fell into a transaction of
\* the program, or display_close took the interrupt of another line for one.
ScannedIsStable ==
    ~ screen.blank /\ screen.origin # None =>
        /\ screen.origin \in drawing => stalled \/ hasty
        /\ ~ open => hasty

\* Frames appear in the order they were gotten, once they are finished, and
\* with the configuration they were gotten under (Screen).
Picture == IF now_showing = -1 THEN None
           ELSE IF regs.size = regs.mode THEN regs.mode ELSE <<regs.size, regs.mode>>
Abstract == INSTANCE Screen WITH
    frames <- [i \in 1 .. Len(queue) |->
                  [config |-> surfaces[queue[i]], ready |-> queue[i] \in ready]],
    shown <- Picture
ShowsInOrder == Abstract!Spec

\* A thread in display_get gets a buffer.
GetReturns == (call = "get") ~> (pc = "idle")
=============================================================================

------------------------------- MODULE Screen -------------------------------
(***************************************************************************)
(* What the display promises (include/display.h): frames are shown in the  *)
(* order in which they were gotten, each after the program has finished it *)
(* and with the configuration it was gotten under.                         *)
(***************************************************************************)
EXTENDS Sequences, Naturals

CONSTANTS Configs, None

VARIABLES frames,  \* those gotten and not yet shown, oldest first
          shown,   \* the configuration of the picture that is shown
          config   \* that of the frames to come

scvars == <<frames, shown, config>>

Init == frames = <<>> /\ shown = None /\ config \in Configs

Open(c) == shown = None /\ shown' = c /\ config' = c /\ UNCHANGED frames

Close == frames' = <<>> /\ shown' = None /\ UNCHANGED config

Get == /\ frames' = Append(frames, [config |-> config, ready |-> FALSE])
       /\ UNCHANGED <<shown, config>>

Finish(i) == /\ ~ frames[i].ready
             /\ frames' = [frames EXCEPT ![i].ready = TRUE]
             /\ UNCHANGED <<shown, config>>

Flip == /\ frames # <<>>
        /\ Head(frames).ready
        /\ shown' = Head(frames).config
        /\ frames' = Tail(frames)
        /\ UNCHANGED config

Change(c) == config' = c /\ UNCHANGED <<frames, shown>>

Next == \/ Close \/ Get \/ Flip
        \/ \E i \in 1 .. Len(frames) : Finish(i)
        \/ \E c \in Configs : Open(c) \/ Change(c)

Spec == Init /\ [][Next]_scvars
=============================================================================

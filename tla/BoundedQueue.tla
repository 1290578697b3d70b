---------------------------- MODULE BoundedQueue ----------------------------
(* What a kqueue_t promises: a FIFO channel of at most Size elements.      *)
EXTENDS Naturals, Sequences

CONSTANTS Elements, Size

VARIABLE contents

Init == contents = <<>>

Put(e) == Len(contents) < Size /\ contents' = Append(contents, e)

Get == contents # <<>> /\ contents' = Tail(contents)

Next == Get \/ \E e \in Elements : Put(e)

Spec == Init /\ [][Next]_contents
=============================================================================

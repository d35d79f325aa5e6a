----------------------------- MODULE RingQueue -----------------------------
(***************************************************************************)
(* What a ring buffer promises to those who use it from a thread and from  *)
(* interrupt handlers: each call takes effect at once, on a queue of at    *)
(* most max_elems whole elements, and the write that finds it empty is     *)
(* told so (it wakes the reader).                                          *)
(***************************************************************************)
EXTENDS Naturals, Sequences

CONSTANTS max_elems, Elem

VARIABLES
  q,     \* the elements
  ret    \* what the last call that took effect answered

Write(e) ==
  \/ /\ Len(q) < max_elems
     /\ q' = Append(q, e)
     /\ ret' = [call |-> "write", ok |-> TRUE, was_empty |-> q = <<>>]
  \/ /\ Len(q) = max_elems
     /\ ret' = [call |-> "write", ok |-> FALSE]
     /\ UNCHANGED q

Read ==
  \/ /\ q # <<>>
     /\ q' = Tail(q)
     /\ ret' = [call |-> "read", ok |-> TRUE, elem |-> Head(q)]
  \/ /\ q = <<>>
     /\ ret' = [call |-> "read", ok |-> FALSE]
     /\ UNCHANGED q

Init == q = <<>> /\ ret = [call |-> "none"]

Next == Read \/ \E e \in Elem : Write(e)

Spec == Init /\ [][Next]_<<q, ret>>
=============================================================================

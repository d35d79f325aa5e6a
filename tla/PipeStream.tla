----------------------------- MODULE PipeStream -----------------------------
(***************************************************************************)
(* What a pipe promises to the processes that use it: one queue of bytes,  *)
(* filled and emptied in order by calls that either transfer bytes or end  *)
(* for a reason that is true at the moment the answer is decided.          *)
(***************************************************************************)
EXTENDS Integers, Sequences

CONSTANTS Task, Sizes, PIPE_BUF_SIZE, None

End == {"r", "w"}
NoCall == [end |-> "r", n |-> 0, done |-> 0, rc |-> None]

VARIABLES
  q,       \* the bytes written and not yet read
  open,    \* the ends some process has open
  nonblock,
  call     \* what each process has asked for, how far it is, its answer
vars == <<q, open, nonblock, call>>

Less(a, b) == IF a < b THEN a ELSE b
Waits(t, e) == call[t] # NoCall /\ call[t].end = e /\ call[t].rc = None
Ended(t, rc) == IF call[t].done > 0 THEN call[t].done ELSE rc
Answer(t, rc) == call' = [call EXCEPT ![t].rc = rc]

Ask(t) ==
  /\ call[t] = NoCall
  /\ \E e \in open : \E n \in Sizes[e] :
       call' = [call EXCEPT ![t] = [end |-> e, n |-> n, done |-> 0, rc |-> None]]
  /\ UNCHANGED <<q, open, nonblock>>

Return(t) ==
  /\ call[t] # NoCall /\ call[t].rc # None
  /\ call' = [call EXCEPT ![t] = NoCall]
  /\ UNCHANGED <<q, open, nonblock>>

Take(t) ==
  /\ Waits(t, "r") /\ q # <<>>
  /\ LET k == Less(call[t].n, Len(q)) IN
       q' = SubSeq(q, k + 1, Len(q)) /\ Answer(t, k)
  /\ UNCHANGED <<open, nonblock>>

EndOfFile(t) ==
  /\ Waits(t, "r") /\ q = <<>> /\ "w" \notin open
  /\ Answer(t, 0)
  /\ UNCHANGED <<q, open, nonblock>>

\* k more bytes; all that is left when the write is atomic.  A write that is
\* not complete goes on unless the end does not block.
Put(t, k) ==
  LET done == call[t].done + k IN
  /\ Waits(t, "w") /\ "r" \in open
  /\ k > 0 /\ done <= call[t].n /\ Len(q) + k <= PIPE_BUF_SIZE
  /\ call[t].n <= PIPE_BUF_SIZE => k = call[t].n
  /\ q' = q \o [i \in 1..k |-> [by |-> t, i |-> call[t].done + i, n |-> call[t].n]]
  /\ call' = [call EXCEPT ![t].done = done, ![t].rc =
                IF done = call[t].n \/ nonblock["w"] THEN done ELSE None]
  /\ UNCHANGED <<open, nonblock>>

\* Reasons to end: no reader is left, the end does not block, a signal.
Broken(t) ==
  /\ Waits(t, "w") /\ "r" \notin open
  /\ Answer(t, Ended(t, -32))
  /\ UNCHANGED <<q, open, nonblock>>

Refused(t, e) ==
  /\ Waits(t, e) /\ nonblock[e]
  /\ IF e = "r" THEN q = <<>> /\ "w" \in open
     ELSE "r" \in open /\ Len(q) + (IF call[t].n <= PIPE_BUF_SIZE THEN call[t].n ELSE 1)
                            > PIPE_BUF_SIZE
  /\ Answer(t, Ended(t, -11))
  /\ UNCHANGED <<q, open, nonblock>>

Interrupted(t) ==
  /\ \E e \in End : Waits(t, e)
  /\ Answer(t, Ended(t, -4))
  /\ UNCHANGED <<q, open, nonblock>>

\* An end once closed by everybody never opens again.
Closed == \E e \in open : open' = open \ {e} /\ UNCHANGED <<q, nonblock, call>>

Flags == \E e \in open :
  nonblock' = [nonblock EXCEPT ![e] = ~@] /\ UNCHANGED <<q, open, call>>

Init ==
  /\ q = <<>> /\ open \in SUBSET End
  /\ nonblock = [e \in End |-> FALSE]
  /\ call = [t \in Task |-> NoCall]

Next ==
  \/ \E t \in Task :
       \/ Ask(t) \/ Return(t) \/ Take(t) \/ EndOfFile(t)
       \/ \E k \in 1..PIPE_BUF_SIZE : Put(t, k)
       \/ Broken(t) \/ (\E e \in End : Refused(t, e)) \/ Interrupted(t)
  \/ Closed \/ Flags

Spec == Init /\ [][Next]_vars
=============================================================================
